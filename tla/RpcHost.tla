------------------------------- MODULE RpcHost -------------------------------
(***************************************************************************)
(* The host's end of the RPC (ivshrpcd/src/bin): dispatch_thread with its  *)
(* listener, and the workers of THREAD_POOL, which run dispatch.           *)
(***************************************************************************)
EXTENDS RpcWire

CONSTANTS
    Workers,       \* the threads of the pool (NUM_WORKERS of them)
    HostCasts,     \* functions that the daemon casts to the kernel
    MaxHostCalls   \* bound: calls made by the daemon

VARIABLES
    lpc,      \* dispatch_thread: "wait" in read_exact or "poll" in listener
    jobs,     \* closures queued in THREAD_POOL
    worker,   \* each worker: [pc, id (of its own call), job]
    hcallid,  \* CALL_ID
    hqueue,   \* keys of CALL_QUEUE
    hresult,  \* by call id, the Option of its CallResult entry
    hpanic    \* dispatch_thread has panicked, and with it the daemon

hostVars == <<lpc, jobs, worker, hcallid, hqueue, hresult, hpanic>>

Unanswered == << >>
Idle == [pc |-> "idle"]
HostIds == 0 .. MaxHostCalls - 1

HostInit ==
    /\ lpc = "wait" /\ jobs = << >>
    /\ worker = [w \in Workers |-> Idle]
    /\ hcallid = 0 /\ hqueue = {}
    /\ hresult = [i \in HostIds |-> Unanswered]
    /\ hpanic = FALSE

-----------------------------------------------------------------------------
\* read_exact returns: dispatch_thread calls listener.
ListenStart ==
    /\ lpc = "wait" /\ notify["host"]
    /\ notify' = [notify EXCEPT !["host"] = FALSE]
    /\ lpc' = "poll"
    /\ UNCHANGED <<jobs, worker, hcallid, hqueue, hresult, hpanic, ring, prod>>

\* listener reads a Fuse or a Cast: a job for the pool.
ListenRequest(m) ==
    /\ m.type \in {"Fuse", "Cast"}
    /\ jobs' = Append(jobs, m)
    /\ UNCHANGED <<hqueue, hresult, hpanic>>


\* listener reads a Return or an Error: the entry leaves CALL_QUEUE, and its
\* waiter is given the values.
ListenAnswer(m) ==
    /\ m.type \in Answers
    /\ hpanic' = (m.id \notin hqueue)
    /\ IF m.id \in hqueue
       THEN /\ hqueue' = hqueue \ {m.id}
            /\ hresult' = [hresult EXCEPT ![m.id] = m.of]
       ELSE UNCHANGED <<hqueue, hresult>>
    /\ UNCHANGED jobs

\* One turn of the loop of listener.
ListenTake ==
    /\ lpc = "poll" /\ ring["host"] # << >>
    /\ LET m == Head(ring["host"]) IN ListenRequest(m) \/ ListenAnswer(m)
    /\ ring' = [ring EXCEPT !["host"] = Tail(@)]
    /\ UNCHANGED <<lpc, worker, hcallid, notify, prod>>

\* Both try_read have come back empty: listener returns.
ListenEnd ==
    /\ lpc = "poll" /\ FindsNothing("host")
    /\ lpc' = "wait"
    /\ UNCHANGED <<jobs, worker, hcallid, hqueue, hresult, hpanic, wireVars>>

-----------------------------------------------------------------------------
WorkerIs(w, s) == worker' = [worker EXCEPT ![w] = s]

\* An idle worker takes the oldest job.
WorkerTake(w) ==
    /\ worker[w].pc = "idle" /\ jobs # << >>
    /\ WorkerIs(w, [pc |-> "run", job |-> Head(jobs)])
    /\ jobs' = Tail(jobs)
    /\ UNCHANGED <<lpc, hcallid, hqueue, hresult, hpanic, wireVars>>

\* The first half of ivshrpc_fuse and all of ivshrpc_cast.
HostSend(w, type, func, then) ==
    /\ hcallid < MaxHostCalls
    /\ StartWrite("host", w, Msg(type, hcallid, func, Call("host", hcallid)))
    /\ WorkerIs(w, [pc |-> then, id |-> hcallid])
    /\ hcallid' = hcallid + 1
    /\ UNCHANGED <<lpc, jobs, hqueue, hresult, hpanic, ring, notify>>

\* The functions of FUNC_TABLE that may be cast.
CastFuncs == {"hello", "cast_test"}

\* A cast runs its function; cast_test fuses to a function of the kernel.
DispatchCast(w) ==
    /\ worker[w].pc = "run" /\ worker[w].job.type = "Cast"
    /\ \/ /\ worker[w].job.func = "hello"
          /\ WorkerIs(w, Idle)
          /\ UNCHANGED <<lpc, jobs, hcallid, hqueue, hresult, hpanic, wireVars>>
       \/ worker[w].job.func = "cast_test" /\ HostSend(w, "Fuse", "print", "calling")

\* Every fuse is answered with an Error message, the successful ones too; a
\* cast that dispatch refuses is answered as well.
DispatchReply(w) ==
    LET m == worker[w].job IN
    /\ worker[w].pc = "run"
    /\ m.type = "Fuse" \/ m.func \notin CastFuncs
    /\ StartWrite("host", w, Msg("Error", m.id, m.func, m.of))
    /\ WorkerIs(w, [pc |-> "replying"])
    /\ UNCHANGED <<lpc, jobs, hcallid, hqueue, hresult, hpanic, ring, notify>>

\* ivshrpc_cast, from any thread of the daemon.
HostCast(w) ==
    /\ worker[w].pc = "idle"
    /\ \E f \in HostCasts : HostSend(w, "Cast", f, "replying")

\* write_msg is over: a reply ends the job, a fuse is now entered into
\* CALL_QUEUE and waited for.
WorkerSent(w) ==
    /\ ~Sending("host", w)
    /\ \/ /\ worker[w].pc = "replying"
          /\ WorkerIs(w, Idle)
          /\ UNCHANGED hqueue
       \/ /\ worker[w].pc = "calling"
          /\ hqueue' = hqueue \cup {worker[w].id}
          /\ WorkerIs(w, [pc |-> "waiting", id |-> worker[w].id])
    /\ UNCHANGED <<lpc, jobs, hcallid, hresult, hpanic, wireVars>>

\* The condition variable wakes ivshrpc_fuse, which finds its result.
WorkerWake(w) ==
    /\ worker[w].pc = "waiting"
    /\ hresult[worker[w].id] # Unanswered
    /\ WorkerIs(w, Idle)
    /\ UNCHANGED <<lpc, jobs, hcallid, hqueue, hresult, hpanic, wireVars>>

Listener == ListenStart \/ ListenTake \/ ListenEnd
Worker(w) ==
    WorkerTake(w) \/ DispatchCast(w) \/ DispatchReply(w) \/ WorkerSent(w) \/ WorkerWake(w)
Host == ~hpanic /\ (Listener \/ \E w \in Workers : Worker(w) \/ HostCast(w))

=============================================================================
