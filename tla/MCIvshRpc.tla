------------------------------ MODULE MCIvshRpc ------------------------------
(* Programs of kmain, and the sizes of the host, for the runs of IvshRpc. *)
EXTENDS IvshRpc

cast(f) == [type |-> "Cast", func |-> f]
fuse(f) == [type |-> "Fuse", func |-> f]

\* What kmain calls when the kernel boots.
MCBoot == <<cast("hello"), cast("cast_test"), fuse("hello_fuse")>>

\* Two fuses in a row: the second is made with interrupts enabled.
MCTwoFuses == <<fuse("hello_fuse"), fuse("missing"), cast("hello")>>

MCHello == <<cast("hello")>>

MCWorkers == {"w1", "w2"}
MCNoCasts == {}
MCMissingCast == {"missing"}
MCPrint == {"print"}
=============================================================================
