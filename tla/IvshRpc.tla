------------------------------- MODULE IvshRpc -------------------------------
(***************************************************************************)
(* The kernel and the host daemon calling each other through ivshmem.      *)
(***************************************************************************)
EXTENDS RpcKernel, RpcHost

vars == <<wireVars, kernelVars, hostVars>>

Init == WireInit /\ KernelInit /\ HostInit

KernelStep == Kernel /\ UNCHANGED hostVars
HostStep == Host /\ UNCHANGED kernelVars
WireStep == Wire /\ UNCHANGED <<kernelVars, hostVars>>

Next == KernelStep \/ HostStep \/ WireStep

Spec == Init /\ [][Next]_vars

\* Both machines run: every thread that can take a step does so sooner or
\* later, and an interrupt that is raised is taken.
FairSpec ==
    /\ Spec
    /\ WF_vars(WireStep)
    /\ WF_vars(Main /\ UNCHANGED hostVars)
    /\ SF_vars(IsrStart /\ UNCHANGED hostVars)
    /\ WF_vars(Isr /\ UNCHANGED hostVars)
    /\ WF_vars(KernelStep)
    /\ WF_vars(~hpanic /\ Listener /\ UNCHANGED kernelVars)
    /\ \A w \in Workers : WF_vars(~hpanic /\ Worker(w) /\ UNCHANGED kernelVars)

-----------------------------------------------------------------------------
\* A message is not left behind in a ring: its receiver is polling, or about
\* to be interrupted ("Checking one last time to avoid race condition",
\* ivshmem.rs and main.rs).
Polls(s) == IF s = "kernel" THEN kcpu = "isr" ELSE lpc = "poll"
NoneStranded == \A s \in Sides : ring[s] # << >> => notify[s] \/ Polls(s)

\* isr finds a context for every result the host sends ("Received result for
\* unknown context id", ivshmem.rs).
KernelExpectsAnswer == ~kpanic

\* The listener finds an entry for every answer the kernel sends ("Received
\* return for unqueued call", main.rs).
HostExpectsAnswer == ~hpanic

\* kmain never sleeps on a call that nobody can answer any more: the check of
\* the result and the change to Blocked are one step for isr.
BlockedIsQueued == mpc = "blocked" => kcallid - 1 \in kqueue

\* Nobody who holds PRODUCER is interrupted by code that needs it: isr and
\* fuse_proxy, which spin with interrupts disabled, find it free.
NeverSpinsOnOwn ==
    /\ kcpu \in {"isr", "proxy"} => ~Sending("kernel", "main")
    /\ kcpu \in {"main", "isr"} => ~Sending("kernel", "proxy")



=============================================================================
