--------------------------- MODULE MCOutputQueue ----------------------------
(* The modes of the queue that are checked. *)
EXTENDS OutputQueue

M(queued, size, exact, opt) ==
    [queued |-> queued, size |-> size, exact |-> exact, opt |-> opt]

\* With and without a thread, single samples, batches and exact batches.
SoundModes == {M(TRUE, 1, FALSE, TRUE), M(TRUE, 2, FALSE, FALSE), M(TRUE, 2, TRUE, TRUE),
               M(FALSE, 1, FALSE, FALSE), M(FALSE, 2, TRUE, FALSE)}

\* A direct call with batches that need not be exact.
LooseModes == {M(FALSE, 2, FALSE, FALSE)}
=============================================================================
