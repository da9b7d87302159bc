------------------------------ MODULE FifoPipe -------------------------------
(***************************************************************************)
(* What the ring promises its two users: a bounded byte pipe.  Bytes enter *)
(* at the end, leave from the front, and are not touched in between.       *)
(***************************************************************************)
EXTENDS Integers, Sequences

CONSTANT Limit     \* the pipe never holds Limit bytes

VARIABLE pipe

Init == pipe = << >>

Put ==
    /\ Len(pipe) < Len(pipe')
    /\ Len(pipe') < Limit
    /\ \A i \in 1 .. Len(pipe) : pipe'[i] = pipe[i]

Take ==
    /\ Len(pipe') < Len(pipe)
    /\ \A i \in 1 .. Len(pipe') : pipe'[i] = pipe[i + Len(pipe) - Len(pipe')]

Spec == Init /\ [][Put \/ Take]_pipe
=============================================================================
