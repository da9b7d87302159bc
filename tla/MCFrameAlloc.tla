----------------------------- MODULE MCFrameAlloc -----------------------------
(* An instance of FrameAlloc for TLC. *)
EXTENDS FrameAlloc

\* An area that begins in the kernel, and one above a hole.
MCAreas == {<<3, 10>>, <<12, 13>>}

===============================================================================
