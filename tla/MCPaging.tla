------------------------------- MODULE MCPaging -------------------------------
(* An instance of Paging for TLC. *)
EXTENDS Paging

\* Pages that share all tables but the last, and pages that share fewer.
MCKernelPages == {<<2, 0, 0, 0>>, <<2, 0, 1, 0>>}
MCHeld == <<2, 0, 0, 0>>
MCUserPages == {<<0, 0, 0, 0>>, <<0, 0, 0, 1>>}
MCTmp == <<1, 0, 0, 0>>

===============================================================================
