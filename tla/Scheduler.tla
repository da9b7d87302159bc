------------------------------ MODULE Scheduler ------------------------------
(***************************************************************************)
(* Contexts, the switch between them, and the fuse, cast, return and exit  *)
(* of functions (kernel/src/context, kernel/src/syscall).                  *)
(*                                                                         *)
(* Context i is the i-th inserted; contexts are never removed.  pc[i] says *)
(* where the code of context i is:                                         *)
(*   boot, main, main2  kmain before and after its ivshrpc_fuse            *)
(*   test, sleep, wait  the loop of ivshrpc_fuse: before and after its     *)
(*                      test, and in its switch                            *)
(*   idle, nop          the last loop of kmain and of kmain_ap             *)
(*   halt, rpchalt      stopped in hlt in the one loop or in the other     *)
(*   user               a function of a user module                        *)
(*   proxy, reply       fuse_proxy before and after its sys_fuse           *)
(*   call, fused, got   fuse_inner before, in and after fuse_switch        *)
(*   exit               exit, once the context is marked                   *)
(*   new, none          never run yet; no such context                     *)
(* on[c] is the context whose registers and stack CPU c really uses, and   *)
(* current[c] is its CONTEXT_ID: they differ between the release of        *)
(* CONTEXT_SWITCH_LOCK and the end of arch::switch_*.                      *)
(***************************************************************************)
EXTENDS Integers

CONSTANTS
    NCpus,        \* CPUs in use: 1 unless built with the multi_core feature
    MaxContexts   \* bound: contexts ever inserted

ASSUME SchedulerAssumption ==
    /\ NCpus \in Nat \ {0}
    /\ MaxContexts \in Nat
    /\ NCpus <= MaxContexts

CPUs == 0 .. NCpus - 1
BSP == 0                    \* the CPU that runs kmain and receives interrupts
Ids == 1 .. MaxContexts
Main == 1                   \* the context of kmain
None == -1                  \* Option::None, for CPUs and for contexts

VARIABLES
    status,    \* Context::status
    cpu_id,    \* Context::cpu_id
    ret_link,  \* Context::ret_link
    result,    \* whether Context::result is Some
    kind,      \* what a context runs: "kernel", "proxy" or "user"
    pc,        \* where its code is
    inserted,  \* the callee a context has fused to, in its fuse_inner
    saved,     \* whether Context::arch holds its registers
    next_id,   \* ContextList::next_id
    current,   \* CONTEXT_ID of each CPU
    on,        \* the context each CPU executes
    phase,     \* what each CPU is doing
    target,    \* the context each CPU switches to (to_ptr; parent in exit)
    lock,      \* CONTEXT_SWITCH_LOCK: the CPU that holds it
    reply      \* the answer to kmain's ivshrpc_fuse: "none", "due", "in"

ctxVars == <<status, cpu_id, ret_link, result, kind, pc, inserted, saved, next_id>>
cpuVars == <<current, on, phase, target, lock>>
vars == <<ctxVars, cpuVars, reply>>

Live == 1 .. next_id - 1

Init ==
    /\ next_id = NCpus + 1
    /\ status = [i \in Ids |-> IF i <= NCpus THEN "Running" ELSE "absent"]
    /\ cpu_id = [i \in Ids |-> IF i <= NCpus THEN i - 1 ELSE None]
    /\ ret_link = [i \in Ids |-> None]
    /\ result = [i \in Ids |-> FALSE]
    /\ kind = [i \in Ids |-> "kernel"]
    /\ pc = [i \in Ids |-> IF i = Main THEN "boot"
                           ELSE IF i <= NCpus THEN "idle" ELSE "none"]
    /\ inserted = [i \in Ids |-> None]
    /\ saved = [i \in Ids |-> FALSE]
    /\ current = [c \in CPUs |-> c + 1]
    /\ on = current
    /\ phase = [c \in CPUs |-> "run"]
    /\ target = [c \in CPUs |-> c + 1]
    /\ lock = None
    /\ reply = "none"

At(c, p) == phase[c] = "run" /\ pc[on[c]] = p

\* Where the rflags of the running code have the interrupt flag set.
Interruptible == {"user", "test", "sleep", "nop", "halt", "rpchalt",
                  "main", "main2", "call"}
TakesInterrupt(c) ==
    /\ phase[c] = "run"
    /\ pc[on[c]] \in Interruptible
    /\ pc[on[c]] = "call" => kind[on[c]] = "kernel"

\* hlt ends with any interrupt.
Woken(p) == CASE p = "halt" -> "idle" [] p = "rpchalt" -> "test" [] OTHER -> p

-----------------------------------------------------------------------------
\* ContextList::insert of a context of kind k.
Insert(k, st, cpu, link) ==
    /\ next_id <= MaxContexts
    /\ status' = [status EXCEPT ![next_id] = st]
    /\ cpu_id' = [cpu_id EXCEPT ![next_id] = cpu]
    /\ ret_link' = [ret_link EXCEPT ![next_id] = link]
    /\ kind' = [kind EXCEPT ![next_id] = k]
    /\ next_id' = next_id + 1
    /\ UNCHANGED <<result, saved>>

\* sys_cast from a function, cast_name from kmain: cast_inner.
Cast(c) ==
    /\ At(c, "user") \/ At(c, "main")
    /\ Insert("user", "New", None, None)
    /\ UNCHANGED inserted
    /\ pc' = [pc EXCEPT ![next_id] = "new",
                        ![on[c]] = IF @ = "main" THEN "main2" ELSE @]
    /\ UNCHANGED <<cpuVars, reply>>

\* isr receives a cast, or a fuse for which it casts fuse_proxy.
IsrCast(k) ==
    /\ TakesInterrupt(BSP)
    /\ Insert(k, "New", None, None)
    /\ UNCHANGED inserted
    /\ pc' = [pc EXCEPT ![next_id] = "new", ![on[BSP]] = Woken(@)]
    /\ UNCHANGED <<cpuVars, reply>>

\* Faulty deliveries: the context is unblocked before its result is there, or
\* is given a result and stays blocked.
IsrReplyEmpty ==
    /\ TakesInterrupt(BSP)
    /\ reply = "due"
    /\ reply' = "in"
    /\ status' = [status EXCEPT ![Main] = IF @ = "Blocked" THEN "Runnable" ELSE @]
    /\ pc' = [pc EXCEPT ![on[BSP]] = Woken(@)]
    /\ UNCHANGED <<cpu_id, ret_link, result, kind, inserted, saved, next_id, cpuVars>>

\* isr receives the answer to kmain's call: result, then unblock.
IsrReply ==
    /\ TakesInterrupt(BSP)
    /\ reply = "due"
    /\ reply' = "in"
    /\ result' = [result EXCEPT ![Main] = TRUE]
    /\ status' = [status EXCEPT ![Main] = IF @ = "Blocked" THEN "Runnable" ELSE @]
    /\ pc' = [pc EXCEPT ![on[BSP]] = Woken(@)]
    /\ UNCHANGED <<cpu_id, ret_link, kind, inserted, saved, next_id, cpuVars>>

\* ivshrpc_fuse in kmain, up to its first switch: interrupts are still off.
RpcFuse ==
    /\ At(BSP, "boot")
    /\ reply' = "due"
    /\ status' = [status EXCEPT ![Main] = "Blocked"]
    /\ pc' = [pc EXCEPT ![Main] = "wait"]
    /\ phase' = [phase EXCEPT ![BSP] = "switch"]
    /\ UNCHANGED <<cpu_id, ret_link, result, kind, inserted, saved, next_id,
                   current, on, target, lock>>

\* Head of the wait loop: while current.read().status == Status::Blocked.
RpcTest ==
    /\ At(BSP, "test")
    /\ \/ /\ status[Main] = "Blocked"
          /\ pc' = [pc EXCEPT ![Main] = "sleep"]
          /\ UNCHANGED <<result, phase>>
       \/ /\ status[Main] # "Blocked"
          /\ result' = [result EXCEPT ![Main] = FALSE]
          /\ pc' = [pc EXCEPT ![Main] = "main"]
          /\ phase' = [phase EXCEPT ![BSP] = IF result[Main] THEN "run" ELSE "empty"]
    /\ UNCHANGED <<status, cpu_id, ret_link, kind, inserted, saved, next_id,
                   current, on, target, lock, reply>>

-----------------------------------------------------------------------------
\* The code on CPU c calls switch: from the idle loop, from the wait loop of
\* ivshrpc_fuse, or from exit when there is no caller to return to.
CallSwitch(c) ==
    /\ \/ At(c, "idle") /\ UNCHANGED pc
       \/ At(c, "sleep") /\ pc' = [pc EXCEPT ![on[c]] = "wait"]
       \/ At(c, "exit") /\ target[c] = None /\ UNCHANGED pc
    /\ phase' = [phase EXCEPT ![c] = "switch"]
    /\ UNCHANGED <<status, cpu_id, ret_link, result, kind, inserted, saved, next_id,
                   current, on, target, lock, reply>>

\* The tenth PIT tick in a row calls switch on top of the running code.
Preempt(c) ==
    /\ TakesInterrupt(c)
    /\ Woken(pc[on[c]]) = pc[on[c]]
    /\ phase' = [phase EXCEPT ![c] = "switch"]
    /\ UNCHANGED <<ctxVars, current, on, target, lock, reply>>

\* Any tick ends hlt; nop needs none.
Resume(c) ==
    /\ \/ At(c, "nop") /\ pc' = [pc EXCEPT ![on[c]] = "idle"]
       \/ At(c, "halt") /\ pc' = [pc EXCEPT ![on[c]] = Woken(@)]
       \/ At(c, "rpchalt") /\ pc' = [pc EXCEPT ![on[c]] = Woken(@)]
    /\ UNCHANGED <<status, cpu_id, ret_link, result, kind, inserted, saved, next_id,
                   cpuVars, reply>>

\* switch: spin until CONTEXT_SWITCH_LOCK is taken.
SwitchLock(c) ==
    /\ phase[c] = "switch"
    /\ lock = None
    /\ lock' = c
    /\ phase' = [phase EXCEPT ![c] = "pick"]
    /\ UNCHANGED <<ctxVars, current, on, target, reply>>

\* The distance from context "from" to context i in the order of the scan:
\* the identifiers above it first, then those below it.
Turn(from, i) == IF i > from THEN i - from ELSE i - from + MaxContexts

\* update for every context: an unowned one now belongs to CPU c.
Owned(c) == [i \in Ids |-> IF i \in Live /\ cpu_id[i] = None THEN c ELSE cpu_id[i]]

\* Faulty scans: of other CPUs' contexts too; only upwards.
CandidatesAnyCpu(c) ==
    {i \in Live \ {current[c]} : status[i] \in {"Runnable", "New"}}
CandidatesAbove(c) ==
    {i \in Live : i > current[c] /\ status[i] \in {"Runnable", "New"} /\ Owned(c)[i] = c}

\* runnable, for the contexts that are not the one switched from.
Candidates(c) ==
    {i \in Live \ {current[c]} :
        status[i] \in {"Runnable", "New"} /\ Owned(c)[i] = c}

\* What the caller of switch does when switch returns false.
NotSwitched(p) == CASE p = "idle" -> "halt" [] p = "wait" -> "rpchalt" [] OTHER -> p

\* switch: take ownership, then look for the next context to run.
SwitchPick(c) ==
    /\ phase[c] = "pick"
    /\ cpu_id' = Owned(c)
    /\ \/ \E to \in Candidates(c) :
             /\ \A i \in Candidates(c) : Turn(current[c], to) <= Turn(current[c], i)
             /\ target' = [target EXCEPT ![c] = to]
             /\ phase' = [phase EXCEPT ![c] = "commit"]
             /\ UNCHANGED <<pc, lock>>
       \/ /\ Candidates(c) = {}
          /\ lock' = None
          /\ pc' = [pc EXCEPT ![on[c]] = NotSwitched(@)]
          /\ phase' = [phase EXCEPT ![c] = IF pc[on[c]] = "exit"
                                           THEN "unreachable" ELSE "run"]
          /\ UNCHANGED target
    /\ UNCHANGED <<status, ret_link, result, kind, inserted, saved, next_id,
                   current, on, reply>>

\* Faulty commit: the old context becomes Runnable whatever it was.
SwitchCommitAlways(c) ==
    /\ phase[c] = "commit"
    /\ status' = [status EXCEPT ![current[c]] = "Runnable", ![target[c]] = "Running"]
    /\ current' = [current EXCEPT ![c] = target[c]]
    /\ lock' = None
    /\ phase' = [phase EXCEPT ![c] = "arch"]
    /\ UNCHANGED <<cpu_id, ret_link, result, kind, pc, inserted, saved, next_id,
                   on, target, reply>>

\* switch: change both statuses and CONTEXT_ID, release the lock.
SwitchCommit(c) ==
    LET from == current[c]
        to   == target[c] IN
    /\ phase[c] = "commit"
    /\ status' = [status EXCEPT ![from] = IF @ = "Running" THEN "Runnable" ELSE @,
                                ![to] = "Running"]
    /\ current' = [current EXCEPT ![c] = to]
    /\ lock' = None
    /\ phase' = [phase EXCEPT ![c] = "arch"]
    /\ UNCHANGED <<cpu_id, ret_link, result, kind, pc, inserted, saved, next_id,
                   on, target, reply>>

\* Where the code of a context goes on when it is switched to.
Entry(k) == CASE k = "proxy" -> "proxy" [] OTHER -> "user"
Resumed(i) ==
    CASE pc[i] = "new" -> Entry(kind[i])
      [] pc[i] = "idle" -> "nop"
      [] pc[i] = "wait" -> "test"
      [] pc[i] = "fused" -> "got"
      [] OTHER -> pc[i]

\* Faulty switch: switch_discarding everywhere.
ArchSwitchDiscards(c) ==
    /\ phase[c] \in {"arch", "discard"}
    /\ saved' = [saved EXCEPT ![on[c]] = FALSE, ![target[c]] = FALSE]
    /\ on' = [on EXCEPT ![c] = target[c]]
    /\ pc' = [pc EXCEPT ![target[c]] = Resumed(target[c])]
    /\ phase' = [phase EXCEPT ![c] = "run"]
    /\ UNCHANGED <<status, cpu_id, ret_link, result, kind, inserted, next_id,
                   current, target, lock, reply>>

\* arch::switch_to, switch_kernel, switch_user and switch_discarding: store
\* the registers of the old context unless it has exited through fuse_return,
\* load those of the new one.
ArchSwitch(c) ==
    LET old == on[c]
        to  == target[c] IN
    /\ phase[c] \in {"arch", "discard"}
    /\ saved' = [saved EXCEPT ![old] = phase[c] = "arch", ![to] = FALSE]
    /\ on' = [on EXCEPT ![c] = to]
    /\ pc' = [pc EXCEPT ![to] = Resumed(to)]
    /\ phase' = [phase EXCEPT ![c] = "run"]
    /\ UNCHANGED <<status, cpu_id, ret_link, result, kind, inserted, next_id,
                   current, target, lock, reply>>
-----------------------------------------------------------------------------
\* Faulty fuse: the callee belongs to no CPU.
FuseUnowned(c) ==
    /\ At(c, "user") \/ At(c, "main2") \/ At(c, "proxy")
    /\ Insert("user", "Blocked", None, on[c])
    /\ inserted' = [inserted EXCEPT ![on[c]] = next_id]
    /\ pc' = [pc EXCEPT ![next_id] = "new", ![on[c]] = "call"]
    /\ UNCHANGED <<cpuVars, reply>>

\* fuse_inner: insert a callee linked to the caller.  It is Blocked, and owned
\* by the caller's CPU, until fuse_switch.
Fuse(c) ==
    /\ At(c, "user") \/ At(c, "main2") \/ At(c, "proxy")
    /\ Insert("user", "Blocked", cpu_id[on[c]], on[c])
    /\ inserted' = [inserted EXCEPT ![on[c]] = next_id]
    /\ pc' = [pc EXCEPT ![next_id] = "new", ![on[c]] = "call"]
    /\ UNCHANGED <<cpuVars, reply>>

\* sys_fuse in fuse_proxy fails before it inserts anything.
ProxyFails(c) ==
    /\ At(c, "proxy")
    /\ pc' = [pc EXCEPT ![on[c]] = "reply"]
    /\ UNCHANGED <<status, cpu_id, ret_link, result, kind, inserted, saved,
                   next_id, cpuVars, reply>>

\* Faulty fuse_switch: the caller becomes Runnable, as in switch.
FuseSwitchYields(c) ==
    LET from == on[c]
        to   == inserted[on[c]] IN
    /\ At(c, "call")
    /\ lock = None
    /\ status' = [status EXCEPT ![to] = "Running",
                                ![from] = IF @ = "Running" THEN "Runnable" ELSE @]
    /\ current' = [current EXCEPT ![c] = to]
    /\ target' = [target EXCEPT ![c] = to]
    /\ phase' = [phase EXCEPT ![c] = "arch"]
    /\ pc' = [pc EXCEPT ![from] = "fused"]
    /\ UNCHANGED <<cpu_id, ret_link, result, kind, inserted, saved, next_id,
                   on, lock, reply>>

\* fuse_switch: mark the callee Running and call block on the caller, which
\* only has an effect on a Runnable one.
FuseSwitch(c) ==
    LET from == on[c]
        to   == inserted[on[c]] IN
    /\ At(c, "call")
    /\ lock = None
    /\ status' = [status EXCEPT ![to] = "Running",
                                ![from] = IF @ = "Runnable" THEN "Blocked" ELSE @]
    /\ current' = [current EXCEPT ![c] = to]
    /\ target' = [target EXCEPT ![c] = to]
    /\ phase' = [phase EXCEPT ![c] = "arch"]
    /\ pc' = [pc EXCEPT ![from] = "fused"]
    /\ UNCHANGED <<cpu_id, ret_link, result, kind, inserted, saved, next_id,
                   on, lock, reply>>

\* What follows fuse_inner in the code that called it.
AfterFuse(k) == CASE k = "kernel" -> "idle" [] k = "proxy" -> "reply" [] OTHER -> "user"

\* fuse_inner, after the callee has returned: take its result.
TakeResult(c) ==
    LET callee == inserted[on[c]] IN
    /\ At(c, "got")
    /\ \/ /\ result[callee]
          /\ result' = [result EXCEPT ![callee] = FALSE]
          /\ pc' = [pc EXCEPT ![on[c]] = AfterFuse(kind[on[c]])]
          /\ inserted' = [inserted EXCEPT ![on[c]] = None]
          /\ UNCHANGED phase
       \/ /\ ~result[callee]
          /\ phase' = [phase EXCEPT ![c] = "noresult"]
          /\ UNCHANGED <<result, pc, inserted>>
    /\ UNCHANGED <<status, cpu_id, ret_link, kind, saved, next_id,
                   current, on, target, lock, reply>>

\* Faulty exit: the link to the caller is copied, not taken.
ExitWithLink(c, res) ==
    LET i == on[c] IN
    /\ result' = [result EXCEPT ![i] = res]
    /\ status' = [status EXCEPT ![i] = "Exited"]
    /\ target' = [target EXCEPT ![c] = ret_link[i]]
    /\ pc' = [pc EXCEPT ![i] = "exit"]
    /\ UNCHANGED <<cpu_id, ret_link, kind, inserted, saved, next_id,
                   current, on, phase, lock, reply>>

\* exit, up to the point where it leaves the context: the context is marked
\* and its ret_link is taken.
ExitWith(c, res) ==
    LET i == on[c] IN
    /\ result' = [result EXCEPT ![i] = res]
    /\ status' = [status EXCEPT ![i] = "Exited"]
    /\ target' = [target EXCEPT ![c] = ret_link[i]]
    /\ ret_link' = [ret_link EXCEPT ![i] = None]
    /\ pc' = [pc EXCEPT ![i] = "exit"]
    /\ UNCHANGED <<cpu_id, kind, inserted, saved, next_id,
                   current, on, phase, lock, reply>>

\* sys_return; an exception in the function (ksignal); the end of fuse_proxy.
Return(c) == At(c, "user") /\ ExitWith(c, TRUE)
Fault(c) == At(c, "user") /\ ExitWith(c, result[on[c]])
ProxyExit(c) == At(c, "reply") /\ ExitWith(c, result[on[c]])

\* fuse_return: the caller runs again.
FuseReturn(c) ==
    LET to == target[c] IN
    /\ At(c, "exit")
    /\ to # None
    /\ lock = None
    /\ status' = [status EXCEPT ![to] = "Running"]
    /\ current' = [current EXCEPT ![c] = to]
    /\ phase' = [phase EXCEPT ![c] = "discard"]
    /\ UNCHANGED <<cpu_id, ret_link, result, kind, pc, inserted, saved, next_id,
                   on, target, lock, reply>>

-----------------------------------------------------------------------------
\* The steps the kernel's own code takes without waiting for anyone.
Kernel(c) ==
    \/ CallSwitch(c) \/ SwitchLock(c) \/ SwitchPick(c) \/ SwitchCommit(c)
    \/ ArchSwitch(c) \/ FuseSwitch(c) \/ TakeResult(c) \/ FuseReturn(c)
    \/ ProxyExit(c)

\* The steps of functions and of kmain.
Function(c) == Cast(c) \/ Fuse(c) \/ ProxyFails(c) \/ Return(c) \/ Fault(c)

\* The messages the RPC interrupt brings.
Isr == IsrReply \/ \E k \in {"user", "proxy"} : IsrCast(k)

Next ==
    \/ \E c \in CPUs : Kernel(c) \/ Function(c) \/ Preempt(c) \/ Resume(c)
    \/ RpcFuse \/ RpcTest \/ Isr

Spec == Init /\ [][Next]_vars

\* A CPU executes its kernel code, also where ticks keep interrupting it, and
\* the PIT never stops ticking; nothing is assumed of functions or the host.
FairSpec ==
    /\ Spec
    /\ \A c \in CPUs : /\ WF_vars(Kernel(c))
                       /\ SF_vars(CallSwitch(c))
                       /\ SF_vars(FuseSwitch(c))
                       /\ WF_vars(At(c, "proxy") /\ Function(c))
                       /\ WF_vars(Resume(c))
                       /\ WF_vars(Preempt(c))
    /\ WF_vars(RpcFuse) /\ SF_vars(RpcTest)

-----------------------------------------------------------------------------
Statuses == {"absent", "Running", "Runnable", "Blocked", "New", "Exited"}
Pcs == Interruptible \cup
       {"boot", "wait", "idle", "proxy", "reply", "fused", "got", "exit", "new", "none"}
Panics == {"unreachable", "noresult", "empty"}
Phases == {"run", "switch", "pick", "commit", "arch", "discard"} \cup Panics

\* Every variable has its type.
TypeOK ==
    /\ status \in [Ids -> Statuses]
    /\ cpu_id \in [Ids -> CPUs \cup {None}]
    /\ ret_link \in [Ids -> Ids \cup {None}]
    /\ result \in [Ids -> BOOLEAN]
    /\ kind \in [Ids -> {"kernel", "proxy", "user"}]
    /\ pc \in [Ids -> Pcs]
    /\ inserted \in [Ids -> Ids \cup {None}]
    /\ saved \in [Ids -> BOOLEAN]
    /\ next_id \in NCpus + 1 .. MaxContexts + 1
    /\ current \in [CPUs -> Ids]
    /\ on \in [CPUs -> Ids]
    /\ phase \in [CPUs -> Phases]
    /\ target \in [CPUs -> Ids \cup {None}]
    /\ lock \in CPUs \cup {None}
    /\ reply \in {"none", "due", "in"}

\* The switch lock is released before the registers are saved ("arch is only
\* usable by the current CPU at this time", switch.rs): even so, no two CPUs
\* ever execute on one context's stack.
StackExclusive == \A c, d \in CPUs : c # d => on[c] # on[d]

\* What a CPU executes, and what its CONTEXT_ID names, is a context it owns.
OwnerRuns == \A c \in CPUs : cpu_id[on[c]] = c /\ cpu_id[current[c]] = c

\* A context that has run before is only resumed once its registers are in
\* its arch::Context.
ResumesSaved ==
    \A c \in CPUs :
        phase[c] \in {"arch", "discard"} /\ pc[target[c]] # "new" => saved[target[c]]

\* While a caller waits in fuse_switch the scheduler cannot pick it, although
\* block() leaves its status alone: only fuse_return resumes it.
CallerParked == \A i \in Ids : pc[i] = "fused" => status[i] \in {"Running", "Blocked"}

\* Every waiting caller has exactly one callee that will return to it, and a
\* callee's link always names a context that waits in fuse_inner for it.
CallChain ==
    \A i, j \in Live :
        /\ ret_link[j] = i => pc[i] \in {"call", "fused"} /\ inserted[i] = j
        /\ pc[i] = "fused" /\ inserted[i] = j =>
              \/ ret_link[j] = i
              \/ \E c \in CPUs : on[c] = j /\ target[c] = i /\ pc[j] = "exit"

\* No step gives a context that has exited another status, so nothing after
\* the switch in exit ever executes.
ExitedStays == \A i \in Ids : pc[i] = "exit" <=> status[i] = "Exited"

\* The wait loop of ivshrpc_fuse never ends without a result to take ("This
\* shouldn't be empty.", ivshmem.rs).
ReplyPresent == \A c \in CPUs : phase[c] # "empty"


\* The scan of switch goes round: a cast context runs sooner or later, even
\* beside functions that never return.
CastRuns ==
    \A i \in Ids : status[i] = "New" ~>
        status[i] # "New" \/ \E c \in CPUs : phase[c] \in Panics

-----------------------------------------------------------------------------
\* exit expects switch to find another context ("unreachable!()", process.rs).
ExitLeaves == \A c \in CPUs : phase[c] # "unreachable"

=============================================================================
