------------------------------ MODULE MCRingBuf ------------------------------
(***************************************************************************)
(* A ring of four bytes written and read three times over, with writes     *)
(* that fit, that have to wait, and that straddle the end.                 *)
(***************************************************************************)
EXTENDS RingBuf

MCWriteSizes == {1, 2, 3}
MCReadSizes == {1, 2}
MCTries == {0, 1}
MCUnwinds == {TRUE, FALSE}
=============================================================================
