------------------------------- MODULE FramePool -------------------------------
(***************************************************************************)
(* What the physical frame allocator promises: a block that is handed out  *)
(* consists of usable frames of which none is in use.                      *)
(***************************************************************************)
EXTENDS Integers

CONSTANT Usable     \* frames that may be handed out

VARIABLE live       \* the blocks <<first, count>> in use

InUse == UNION {b[1] .. b[1] + b[2] - 1 : b \in live}

Init == live = {}

Take(b) ==
    /\ b[1] .. b[1] + b[2] - 1 \subseteq Usable \ InUse
    /\ live' = live \cup {b}

Give(b) == live' = live \ {b}

Next ==
    \/ \E a, z \in Usable : a <= z /\ Take(<<a, z - a + 1>>)
    \/ \E b \in live : Give(b)

Spec == Init /\ [][Next]_live

===============================================================================
