----------------------------- MODULE AlarmClock -----------------------------
(***************************************************************************)
(* What a reference clock promises of the times it is asked to notify: an  *)
(* alarm that is set rings when the time the clock has last looked at      *)
(* reaches it, less one tick of the timer at most, the earliest first; a   *)
(* single alarm rings once, a periodic one again a period later; and one   *)
(* that is cancelled no more.                                              *)
(***************************************************************************)
EXTENDS Integers

CONSTANTS Ms,      \* a tick of the timer
          Alarm    \* [cookie, due, period]; the period of a single alarm is 0

VARIABLES pending, \* the alarms that are set
          rung,    \* how many times each cookie has rung
          seen     \* the time the clock has last looked at

vars == <<pending, rung, seen>>

Init == pending = {} /\ seen = 0 /\ \A c \in DOMAIN rung : rung[c] = 0

Set(a) ==
    /\ \A b \in pending : b.cookie # a.cookie
    /\ rung[a.cookie] = 0 /\ pending' = pending \cup {a}
    /\ UNCHANGED <<rung, seen>>

Cancel(a) == pending' = pending \ {a} /\ UNCHANGED <<rung, seen>>

Ring(a) ==
    /\ a.due <= seen + Ms /\ \A b \in pending : a.due <= b.due
    /\ rung' = [rung EXCEPT ![a.cookie] = @ + 1] /\ UNCHANGED seen
    /\ pending' = (pending \ {a}) \cup
         (IF a.period = 0 THEN {} ELSE {[a EXCEPT !.due = @ + a.period]})

Look == seen' \in Int /\ UNCHANGED <<pending, rung>>

Next == Look \/ (\E a \in Alarm : Set(a)) \/ (\E a \in pending : Cancel(a) \/ Ring(a))

Spec == Init /\ [][Next]_vars
=============================================================================
