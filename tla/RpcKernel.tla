------------------------------ MODULE RpcKernel ------------------------------
(***************************************************************************)
(* The kernel's end of the RPC (kernel/src/devices/ivshmem.rs) on one CPU: *)
(* kmain making the calls of Program, the interrupt handler isr, and the   *)
(* contexts that run fuse_proxy.  kcpu names the code that runs with       *)
(* interrupts disabled, or is "open" where an interrupt can be taken and   *)
(* another context scheduled.  The first ivshrpc_fuse of kmain enables     *)
(* interrupts (kif).                                                       *)
(***************************************************************************)
EXTENDS RpcWire

CONSTANT Program   \* the calls of kmain: [type |-> "Cast"/"Fuse", func |-> f]

VARIABLES
    kcpu,     \* "main", "isr", "proxy" or "open"
    kif,      \* kmain runs with interrupts enabled
    mstep,    \* index in Program
    mpc,      \* kmain: "run", "sending", "blocked", "ready"
    mresult,  \* Context::result of kmain: what it answers, or NoAnswer
    kcallid,  \* CALL_ID
    kqueue,   \* keys of CALL_QUEUE, each mapped to kmain's context
    proxies,  \* contexts of fuse_proxy, in the order of their creation
    kpanic    \* isr has panicked

kernelVars == <<kcpu, kif, mstep, mpc, mresult, kcallid, kqueue, proxies, kpanic>>

NoAnswer == << >>

\* Faulty: kmain starts with interrupts enabled.
KernelInitEnabled ==
    /\ kcpu = "open" /\ kif = TRUE
    /\ mstep = 1 /\ mpc = "run" /\ mresult = NoAnswer
    /\ kcallid = 0 /\ kqueue = {}
    /\ proxies = << >>
    /\ kpanic = FALSE

KernelInit ==
    /\ kcpu = "main" /\ kif = FALSE
    /\ mstep = 1 /\ mpc = "run" /\ mresult = NoAnswer
    /\ kcallid = 0 /\ kqueue = {}
    /\ proxies = << >>
    /\ kpanic = FALSE

MainRuns == kcpu = "main" \/ (kcpu = "open" /\ kif)

\* Faulty: the call is not entered into CALL_QUEUE.
MainCallUnqueued ==
    /\ MainRuns /\ mpc = "run" /\ mstep <= Len(Program)
    /\ StartWrite("kernel", "main",
                  Msg(Program[mstep].type, kcallid, Program[mstep].func,
                      Call("kernel", kcallid)))
    /\ kcallid' = kcallid + 1
    /\ mpc' = "sending"
    /\ UNCHANGED <<kcpu, kif, mstep, mresult, kqueue, proxies, kpanic,
                   ring, notify>>

\* ivshrpc_cast, and ivshrpc_fuse up to its write_msg: a fuse is entered into
\* CALL_QUEUE before it is sent.
MainCall ==
    LET call == Program[mstep] IN
    /\ MainRuns /\ mpc = "run" /\ mstep <= Len(Program)
    /\ kqueue' = IF call.type = "Fuse" THEN kqueue \cup {kcallid} ELSE kqueue
    /\ StartWrite("kernel", "main",
                  Msg(call.type, kcallid, call.func, Call("kernel", kcallid)))
    /\ kcallid' = kcallid + 1
    /\ mpc' = "sending"
    /\ UNCHANGED <<kcpu, kif, mstep, mresult, proxies, kpanic, ring, notify>>

\* After its last call kmain goes on to its idle loop, which enables interrupts.
AfterCast == IF mstep = Len(Program) THEN kcpu' = "open" /\ kif' = TRUE
                                     ELSE UNCHANGED <<kcpu, kif>>

\* Faulty: ivshrpc_fuse blocks without looking at the result.
MainSentBlind ==
    /\ MainRuns /\ mpc = "sending" /\ ~Sending("kernel", "main")
    /\ \/ /\ Program[mstep].type = "Cast"
          /\ mpc' = "run" /\ mstep' = mstep + 1
          /\ AfterCast
       \/ /\ Program[mstep].type = "Fuse"
          /\ mpc' = "blocked" /\ kcpu' = "open" /\ kif' = TRUE
          /\ UNCHANGED mstep
    /\ UNCHANGED <<mresult, kcallid, kqueue, proxies, kpanic, wireVars>>

\* The end of ivshrpc_cast; or, in ivshrpc_fuse, the check whether the answer
\* is already there, with the context blocked if it is not.
MainSent ==
    /\ MainRuns /\ mpc = "sending" /\ ~Sending("kernel", "main")
    /\ \/ /\ Program[mstep].type = "Cast"
          /\ mpc' = "run" /\ mstep' = mstep + 1
          /\ AfterCast
       \/ /\ Program[mstep].type = "Fuse" /\ mresult = NoAnswer
          /\ mpc' = "blocked" /\ kcpu' = "open" /\ kif' = TRUE
          /\ UNCHANGED mstep
       \/ /\ Program[mstep].type = "Fuse" /\ mresult # NoAnswer
          /\ mpc' = "ready"
          /\ UNCHANGED <<kcpu, kif, mstep>>
    /\ UNCHANGED <<mresult, kcallid, kqueue, proxies, kpanic, wireVars>>

\* The wait loop ends and ivshrpc_fuse takes the result.
MainTake ==
    /\ MainRuns /\ mpc = "ready"
    /\ mresult' = NoAnswer
    /\ mpc' = "run" /\ mstep' = mstep + 1
    /\ UNCHANGED <<kcpu, kif, kcallid, kqueue, proxies, kpanic, wireVars>>

-----------------------------------------------------------------------------
\* The interrupt is taken where interrupts are enabled; reading the status
\* register lowers the line.
IsrStart ==
    /\ kcpu = "open" /\ notify["kernel"]
    /\ notify' = [notify EXCEPT !["kernel"] = FALSE]
    /\ kcpu' = "isr"
    /\ UNCHANGED <<kif, mstep, mpc, mresult, kcallid, kqueue, proxies, kpanic,
                   ring, prod>>


\* isr reads a Return or an Error: the result goes to the context in CALL_QUEUE.
IsrAnswer(m) ==
    /\ m.type \in Answers
    /\ kpanic' = (m.id \notin kqueue)
    /\ IF m.id \in kqueue
       THEN /\ kqueue' = kqueue \ {m.id}
            /\ mresult' = m.of
            /\ mpc' = IF mpc = "blocked" THEN "ready" ELSE mpc
       ELSE UNCHANGED <<kqueue, mresult, mpc>>
    /\ UNCHANGED <<proxies, prod>>

\* isr reads a Fuse: a context for fuse_proxy is cast.
IsrFuse(m) ==
    /\ m.type = "Fuse"
    /\ proxies' = Append(proxies, [pc |-> "new", of |-> m.of])
    /\ UNCHANGED <<kqueue, mresult, mpc, kpanic, prod>>


\* isr reads a Cast: sys_cast, and an Error message if that fails.
IsrCast(m) ==
    /\ m.type = "Cast"
    /\ \/ m.func = "print" /\ UNCHANGED prod
       \/ m.func = "missing" /\ StartWrite("kernel", "isr", Msg("Error", m.id, m.func, m.of))
    /\ UNCHANGED <<kqueue, mresult, mpc, kpanic, proxies>>

\* One turn of the loop of isr.
IsrTake ==
    /\ kcpu = "isr" /\ ~kpanic /\ ~Sending("kernel", "isr")
    /\ ring["kernel"] # << >>
    /\ LET m == Head(ring["kernel"]) IN IsrAnswer(m) \/ IsrFuse(m) \/ IsrCast(m)
    /\ ring' = [ring EXCEPT !["kernel"] = Tail(@)]
    /\ UNCHANGED <<kcpu, kif, mstep, kcallid, notify>>

\* Both try_read have come back empty: isr returns.
IsrEnd ==
    /\ kcpu = "isr" /\ ~kpanic /\ ~Sending("kernel", "isr")
    /\ FindsNothing("kernel")
    /\ kcpu' = "open"
    /\ UNCHANGED <<kif, mstep, mpc, mresult, kcallid, kqueue, proxies, kpanic, wireVars>>

-----------------------------------------------------------------------------
\* fuse_proxy is scheduled and fuses to the function, which runs with
\* interrupts enabled.
ProxyCall(p) ==
    /\ kcpu = "open" /\ proxies[p].pc = "new"
    /\ proxies' = [proxies EXCEPT ![p].pc = "function"]
    /\ UNCHANGED <<kcpu, kif, mstep, mpc, mresult, kcallid, kqueue, kpanic, wireVars>>

\* sys_fuse is back, with interrupts disabled again.
ProxyBack(p) ==
    /\ kcpu = "open" /\ proxies[p].pc = "function"
    /\ proxies' = [proxies EXCEPT ![p].pc = "back"]
    /\ kcpu' = "proxy"
    /\ UNCHANGED <<kif, mstep, mpc, mresult, kcallid, kqueue, kpanic, wireVars>>

\* fuse_proxy sends the answer, always with call id 0.
ProxyReply(p) ==
    /\ proxies[p].pc = "back"
    /\ \E type \in Answers :
          StartWrite("kernel", "proxy", Msg(type, 0, "print", proxies[p].of))
    /\ proxies' = [proxies EXCEPT ![p].pc = "sending"]
    /\ UNCHANGED <<kcpu, kif, mstep, mpc, mresult, kcallid, kqueue, kpanic,
                   ring, notify>>

\* The end of fuse_proxy.
ProxyExit(p) ==
    /\ proxies[p].pc = "sending" /\ ~Sending("kernel", "proxy")
    /\ proxies' = [proxies EXCEPT ![p].pc = "done"]
    /\ kcpu' = "open"
    /\ UNCHANGED <<kif, mstep, mpc, mresult, kcallid, kqueue, kpanic, wireVars>>

Main == MainCall \/ MainSent \/ MainTake
Isr == IsrStart \/ IsrTake \/ IsrEnd
Proxy(p) == ProxyCall(p) \/ ProxyBack(p) \/ ProxyReply(p) \/ ProxyExit(p)
Kernel == Main \/ Isr \/ \E p \in DOMAIN proxies : Proxy(p)

=============================================================================
