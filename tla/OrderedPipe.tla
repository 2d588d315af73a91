---------------------------- MODULE OrderedPipe -----------------------------
(***************************************************************************)
(* What an output queue promises of the samples, segment notices and ends  *)
(* of stream handed to it: they come out in the order they went in, none   *)
(* is passed over while the stream is sound, nothing but a segment notice  *)
(* comes out of an unsound one, and what went in before the end of a flush *)
(* does not come out after it.                                             *)
(***************************************************************************)
EXTENDS Naturals, Sequences

CONSTANT Items   \* each has a kind and a number, "n", in the order of the calls

VARIABLES pipe,   \* the items that went in and have not come out
          last,   \* the number of the last item that came out
          sound,  \* the receiver has accepted everything so far
          epoch   \* how many flushes have ended

vars == <<pipe, last, sound, epoch>>

Init == pipe = <<>> /\ last = 0 /\ sound = TRUE /\ epoch = 0

IsSegment(item) == item.kind = "segment"

\* One or more items go in behind the others; into an unsound stream they go in
\* vain.
Accept ==
    /\ UNCHANGED <<last, sound, epoch>>
    /\ Len(pipe') > Len(pipe)
    /\ SubSeq(pipe', 1, Len(pipe)) = pipe
    /\ \A i \in Len(pipe) + 1 .. Len(pipe') :
          /\ pipe'[i] \in Items /\ pipe'[i].n > last
          /\ \A j \in 1 .. i - 1 : pipe'[j].n < pipe'[i].n

\* The first k items come out.  The receiver may refuse the rest, and then the
\* next d items are thrown away.
Deliver(k, d) ==
    /\ sound /\ sound' \in BOOLEAN /\ (d > 0 => ~sound')
    /\ pipe' = SubSeq(pipe, k + d + 1, Len(pipe)) /\ last' = pipe[k].n
    /\ UNCHANGED epoch

\* A segment notice comes out of an unsound stream, past data that will not.
Notice(i) ==
    /\ ~sound /\ IsSegment(pipe[i])
    /\ pipe' = SubSeq(pipe, 1, i - 1) \o SubSeq(pipe, i + 1, Len(pipe))
    /\ last' = pipe[i].n /\ UNCHANGED <<sound, epoch>>

\* The stream is, or becomes, unsound, and the first k items are thrown away.
Discard(k) ==
    /\ sound' = FALSE /\ pipe' = SubSeq(pipe, k + 1, Len(pipe))
    /\ UNCHANGED <<last, epoch>>

\* A flush ends: no data from before it remains.
EndFlush ==
    /\ ~sound /\ \A i \in 1 .. Len(pipe) : IsSegment(pipe[i])
    /\ sound' = TRUE /\ epoch' = epoch + 1 /\ UNCHANGED <<pipe, last>>

\* The owner makes the stream sound again without a flush.
Reset == ~sound /\ sound' = TRUE /\ UNCHANGED <<pipe, last, epoch>>

Next == \/ Accept \/ EndFlush \/ Reset
        \/ \E i \in 1 .. Len(pipe) : Notice(i)
        \/ \E k \in 1 .. Len(pipe) : \E d \in 0 .. Len(pipe) - k : Deliver(k, d)
        \/ \E k \in 0 .. Len(pipe) : Discard(k)

Spec == Init /\ [][Next]_vars
=============================================================================
