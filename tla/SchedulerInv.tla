--------------------------- MODULE SchedulerInv ---------------------------
(***************************************************************************)
(* The safety of the scheduler, for any number of CPUs and contexts.       *)
(*                                                                         *)
(* The argument is one of ownership.  A context belongs to one CPU from    *)
(* the moment it can run (OwnerRuns), a CPU only ever switches to contexts *)
(* it owns (Chosen, Switching, Leaving), and a caller and its callee       *)
(* belong to the same CPU (Links).  So nothing a CPU does between the      *)
(* release of CONTEXT_SWITCH_LOCK and the end of arch::switch_* is seen by *)
(* another.                                                                *)
(*                                                                         *)
(* This module has the inductive invariant and the steps of switch,        *)
(* SchedulerCalls those of cast, fuse, return and exit, SchedulerProofs    *)
(* the rest and the theorems.                                              *)
(***************************************************************************)
EXTENDS Scheduler, TLAPS

Waiting == {"test", "sleep", "wait", "rpchalt"}
Switch == {"arch", "discard"}

\* Identifiers from next_id on are unused, the others are not.
Fresh ==
    \A i \in Ids :
        IF i < next_id THEN status[i] # "absent" /\ pc[i] # "none"
        ELSE /\ status[i] = "absent" /\ pc[i] = "none"
             /\ cpu_id[i] = None /\ ret_link[i] = None

\* A callee was inserted after the boot contexts.
Callees == \A i \in Ids : inserted[i] # None => inserted[i] \in NCpus + 1 .. next_id - 1

\* Outside a switch, a CPU executes the context its CONTEXT_ID names.
OnCurrent ==
    \A c \in CPUs : phase[c] \notin Switch =>
        on[c] = current[c] /\ pc[on[c]] \notin {"fused", "new", "none"}

\* What switch has picked stays runnable until it is committed to.
Chosen ==
    \A c \in CPUs : phase[c] = "commit" =>
        /\ target[c] \in Ids /\ target[c] # on[c] /\ cpu_id[target[c]] = c
        /\ status[target[c]] \in {"Runnable", "New"}

\* Between the release of the lock and the end of the switch of stacks.
Switching ==
    \A c \in CPUs : phase[c] \in Switch =>
        /\ target[c] = current[c] /\ target[c] # on[c]
        /\ status[target[c]] = "Running"
        /\ phase[c] = "arch" => pc[target[c]] \notin {"fused", "exit"}
        /\ phase[c] = "discard" => /\ pc[on[c]] = "exit" /\ pc[target[c]] = "fused"
                                   /\ inserted[target[c]] = on[c]

\* A context in exit returns to its waiting caller, or to nobody.
Leaving ==
    \A c \in CPUs : pc[on[c]] = "exit" =>
        /\ phase[c] \in {"switch", "pick"} => target[c] = None
        /\ phase[c] = "run" /\ target[c] # None =>
              /\ cpu_id[target[c]] = c /\ pc[target[c]] = "fused"
              /\ inserted[target[c]] = on[c]

\* A link leads to a caller on the same CPU that waits for this callee.
Links ==
    \A j \in Ids : ret_link[j] # None =>
        /\ pc[ret_link[j]] \in {"call", "fused"} /\ inserted[ret_link[j]] = j
        /\ cpu_id[ret_link[j]] = cpu_id[j] /\ cpu_id[j] # None
        /\ pc[j] # "exit"

\* Before fuse_switch, the callee is not yet runnable.
Calling ==
    \A i \in Ids : pc[i] = "call" =>
        /\ inserted[i] # None /\ ret_link[inserted[i]] = i
        /\ pc[inserted[i]] = "new" /\ status[inserted[i]] = "Blocked"

\* After it, somebody will return to the caller.
Called ==
    \A i \in Ids : pc[i] = "fused" =>
        /\ inserted[i] # None
        /\ \/ ret_link[inserted[i]] = i
           \/ \E c \in CPUs :
                 on[c] = inserted[i] /\ target[c] = i /\ pc[inserted[i]] = "exit"

\* A context that is New has not run.
NewIsNew == \A i \in Ids : status[i] = "New" => pc[i] = "new"

\* The registers of a context that has run are in use or saved.
Saved ==
    \A i \in Ids : pc[i] \notin {"new", "exit", "none"} /\ (\A c \in CPUs : on[c] # i)
                      => saved[i]

\* Only kmain waits for the host: blocked until the answer is there.
MainWaits ==
    /\ cpu_id[Main] = BSP
    /\ \A i \in Ids : pc[i] \in Waiting \cup {"boot"} => i = Main
    /\ reply = "due" => pc[Main] \in Waiting
    /\ pc[Main] \in Waiting => \/ reply = "due" /\ status[Main] = "Blocked"
                               \/ reply = "in" /\ result[Main]

\* The inductive invariant.
Inv ==
    /\ TypeOK /\ Fresh /\ Callees
    /\ OwnerRuns /\ OnCurrent /\ Chosen /\ Switching /\ Leaving
    /\ Links /\ Calling /\ Called
    /\ ExitedStays /\ CallerParked /\ NewIsNew /\ Saved
    /\ MainWaits /\ ReplyPresent

\* What the types say of links, of callees and of what a CPU runs.
Ranged ==
    /\ \A i \in Ids : /\ ret_link[i] # None => ret_link[i] \in Ids
                      /\ inserted[i] # None => inserted[i] \in Ids
    /\ \A c \in CPUs : /\ on[c] \in Ids /\ current[c] \in Ids
                       /\ target[c] # None => target[c] \in Ids
    /\ next_id \in Int /\ next_id > NCpus

LEMMA RangesHold ==
    ASSUME Inv
    PROVE  Ranged
<1>1. \A i \in Ids : /\ ret_link[i] # None => ret_link[i] \in Ids
                     /\ inserted[i] # None => inserted[i] \in Ids
  BY DEF Inv, TypeOK
<1>2. \A c \in CPUs : /\ on[c] \in Ids /\ current[c] \in Ids
                      /\ target[c] # None => target[c] \in Ids
  BY DEF Inv, TypeOK
<1>3. next_id \in Int /\ next_id > NCpus
  BY SchedulerAssumption DEF Inv, TypeOK
<1> QED BY <1>1, <1>2, <1>3 DEF Ranged

\* A step within the code of one CPU, which moves it to p and into phase f.
Quiet(c, p, f) ==
    /\ pc' = [pc EXCEPT ![on[c]] = p]
    /\ phase' = [phase EXCEPT ![c] = f]
    /\ UNCHANGED <<status, ret_link, result, inserted, saved, next_id, current, on,
                   target, reply>>

\* Contexts that belong to a CPU stay with it.
Kept ==
    /\ cpu_id' \in [Ids -> CPUs \cup {None}]
    /\ \A i \in Ids : /\ cpu_id[i] # None => cpu_id'[i] = cpu_id[i]
                      /\ i >= next_id => cpu_id'[i] = None

\* Code that does nothing to any context but move on keeps the invariant.
LEMMA QuietKeeps ==
    ASSUME Inv, NEW c \in CPUs, NEW p \in Pcs, NEW f \in Phases \ {"empty"},
           Quiet(c, p, f), Kept, kind' = kind, lock' \in CPUs \cup {None},
           phase[c] \notin Switch \cup {"commit"}, f \notin Switch \cup {"commit"},
           p # pc[on[c]] => /\ p \notin {"call", "fused", "exit", "new", "none", "boot"}
                            /\ pc[on[c]] \notin {"call", "fused", "exit", "new", "none", "boot"}
                            /\ p \in Waiting <=> pc[on[c]] \in Waiting,
           pc[on[c]] = "exit" /\ f \in {"switch", "pick"} => target[c] = None,
           pc[on[c]] = "exit" => f # "run"
    PROVE  Inv'
<1> USE SchedulerAssumption DEF CPUs, Ids, None, Main, BSP
<1>t. TypeOK
  BY DEF Inv
<1>x. Ranged
  BY RangesHold
<1>p. \A i \in Ids : pc'[i] = IF i = on[c] THEN p ELSE pc[i]
  BY <1>t DEF Quiet, TypeOK
<1>f. \A d \in CPUs : phase'[d] = IF d = c THEN f ELSE phase[d]
  BY <1>t DEF Quiet, TypeOK
<1>o. \A d \in CPUs : d # c => on[d] # on[c] /\ current[d] # on[c]
  BY <1>t DEF Inv, OwnerRuns, OnCurrent
<1>u. UNCHANGED <<status, ret_link, result, inserted, saved, next_id, current, on,
                   target, reply>>
  BY DEF Quiet
<1>1. TypeOK'
  BY <1>t, <1>u, SMTT(40) DEF Quiet, Kept, TypeOK
<1>2. Fresh' /\ Callees'
  BY <1>x, <1>u, <1>p, <1>o, SMTT(40) DEF Inv, Kept, Fresh, Callees, Ranged
<1>i. OwnerRuns /\ OnCurrent /\ Chosen
  BY DEF Inv
<1>3. OwnerRuns'
  BY <1>i, <1>t, <1>u, SMTT(30) DEF Kept, OwnerRuns, TypeOK
<1>4. OnCurrent'
  BY <1>i, <1>x, <1>u, <1>p, <1>f, <1>o DEF OnCurrent, Ranged
<1>5. Chosen'
  BY <1>i, <1>t, <1>u, <1>p, <1>f, SMTT(30) DEF Kept, Chosen, TypeOK
<1>6. Switching'
  <2> SUFFICES ASSUME NEW d \in CPUs, phase'[d] \in Switch
               PROVE  /\ target[d] = current[d] /\ target[d] # on[d]
                      /\ status[target[d]] = "Running"
                      /\ phase[d] = "arch" => pc'[target[d]] \notin {"fused", "exit"}
                      /\ phase[d] = "discard" =>
                            /\ pc'[on[d]] = "exit" /\ pc'[target[d]] = "fused"
                            /\ inserted[target[d]] = on[d]
                      /\ phase'[d] = phase[d]
    BY <1>u DEF Switching
  <2>1. d # c /\ phase'[d] = phase[d]
    BY <1>f
  <2>2. target[d] = current[d] /\ target[d] \in Ids /\ on[d] \in Ids
    BY <2>1, <1>x DEF Inv, Switching, Ranged
  <2>3. pc'[target[d]] = pc[target[d]] /\ pc'[on[d]] = pc[on[d]]
    BY <2>1, <2>2, <1>o, <1>p
  <2> QED BY <2>1, <2>2, <2>3 DEF Inv, Switching
<1>7. Leaving'
  <2> SUFFICES ASSUME NEW d \in CPUs, pc'[on[d]] = "exit"
               PROVE  /\ phase'[d] \in {"switch", "pick"} => target[d] = None
                      /\ phase'[d] = "run" /\ target[d] # None =>
                            /\ cpu_id'[target[d]] = d /\ pc'[target[d]] = "fused"
                            /\ inserted[target[d]] = on[d]
    BY <1>u DEF Leaving
  <2>1. pc[on[d]] = "exit"
    BY <1>x, <1>p DEF Ranged
  <2>2. CASE d = c
    BY <2>1, <2>2, <1>f
  <2>3. CASE d # c
    <3>1. phase'[d] = phase[d]
      BY <2>3, <1>f
    <3>2. ASSUME phase[d] = "run", target[d] # None
          PROVE  /\ cpu_id'[target[d]] = d /\ pc'[target[d]] = "fused"
                 /\ inserted[target[d]] = on[d]
      <4>1. /\ target[d] \in Ids /\ cpu_id[target[d]] = d /\ pc[target[d]] = "fused"
            /\ inserted[target[d]] = on[d]
        BY <2>1, <3>2, <1>x DEF Inv, Leaving, Ranged
      <4>2. cpu_id'[target[d]] = d
        BY <4>1 DEF Kept
      <4>3. pc'[target[d]] = "fused"
        BY <4>1, <1>p
      <4> QED BY <4>1, <4>2, <4>3
    <3> QED BY <2>1, <3>1, <3>2 DEF Inv, Leaving
  <2> QED BY <2>2, <2>3
<1>8. Links'
  <2> SUFFICES ASSUME NEW j \in Ids, ret_link[j] # None
               PROVE  /\ pc'[ret_link[j]] \in {"call", "fused"}
                      /\ inserted[ret_link[j]] = j
                      /\ cpu_id'[ret_link[j]] = cpu_id'[j] /\ cpu_id'[j] # None
                      /\ pc'[j] # "exit"
    BY <1>u DEF Links
  <2>1. ret_link[j] \in Ids
    BY <1>t DEF TypeOK
  <2>2. pc[j] # "exit" => pc'[j] # "exit"
    BY <1>p
  <2>3. pc[ret_link[j]] \in {"call", "fused"} => pc'[ret_link[j]] \in {"call", "fused"}
    BY <1>p, <2>1
  <2>4. cpu_id[j] # None /\ cpu_id[ret_link[j]] = cpu_id[j]
        => cpu_id'[j] = cpu_id[j] /\ cpu_id'[ret_link[j]] = cpu_id[j]
    BY <2>1 DEF Kept
  <2> QED BY <2>2, <2>3, <2>4 DEF Inv, Links
<1>9. Calling'
  BY <1>x, <1>u, <1>p DEF Inv, Calling, Ranged
<1>10. Called'
  <2> SUFFICES ASSUME NEW i \in Ids, pc'[i] = "fused"
               PROVE  /\ inserted[i] # None
                      /\ \/ ret_link[inserted[i]] = i
                         \/ \E d \in CPUs : /\ on[d] = inserted[i] /\ target[d] = i
                                            /\ pc'[inserted[i]] = "exit"
    BY <1>u DEF Called
  <2>1. pc[i] = "fused"
    BY <1>p
  <2>2. inserted[i] \in Ids
    BY <2>1, <1>x DEF Inv, Called, Ranged
  <2>3. pc[inserted[i]] = "exit" => pc'[inserted[i]] = "exit"
    BY <1>p, <2>2
  <2> QED BY <2>1, <2>3 DEF Inv, Called
<1>11. ExitedStays' /\ CallerParked' /\ NewIsNew'
  BY <1>x, <1>u, <1>p DEF Inv, ExitedStays, CallerParked, NewIsNew, Ranged
<1>12. Saved'
  BY <1>x, <1>u, <1>p DEF Inv, Saved, Ranged
<1>13. MainWaits'
  <2>1. cpu_id'[Main] = BSP
    BY DEF Inv, MainWaits, Kept
  <2>2. \A i \in Ids : pc'[i] \in Waiting \cup {"boot"} => i = Main
    BY <1>p DEF Inv, MainWaits
  <2>3. pc'[Main] \in Waiting <=> pc[Main] \in Waiting
    BY <1>p
  <2> QED BY <2>1, <2>2, <2>3, <1>u DEF Inv, MainWaits
<1>14. ReplyPresent'
  BY <1>x, <1>f DEF Inv, ReplyPresent, Ranged
<1> QED BY <1>1, <1>2, <1>3, <1>4, <1>5, <1>6, <1>7, <1>8, <1>9, <1>10, <1>11, <1>12, <1>13, <1>14 DEF Inv

\* Nothing changes hands where cpu_id is left alone.
LEMMA StillKept ==
    ASSUME Inv, cpu_id' = cpu_id
    PROVE  Kept
BY SchedulerAssumption DEF Inv, TypeOK, Fresh, Kept, Ids, CPUs, None

\* A CPU that stays where it is.
LEMMA StayIsQuiet ==
    ASSUME TypeOK, NEW c \in CPUs
    PROVE  pc = [pc EXCEPT ![on[c]] = pc[on[c]]]
BY DEF TypeOK

\* The call of switch from the idle loop, the wait loop or exit.
LEMMA CallSwitchKeeps ==
    ASSUME Inv, NEW c \in CPUs, CallSwitch(c)
    PROVE  Inv'
<1> DEFINE p == IF pc[on[c]] = "sleep" THEN "wait" ELSE pc[on[c]]
<1>1. TypeOK /\ on[c] \in Ids /\ pc[on[c]] \in {"idle", "sleep", "exit"} /\ phase[c] = "run"
  BY DEF Inv, TypeOK, CallSwitch, At
<1>2. pc' = [pc EXCEPT ![on[c]] = p]
  BY <1>1, StayIsQuiet DEF CallSwitch, At
<1>3. Quiet(c, p, "switch") /\ cpu_id' = cpu_id /\ kind' = kind /\ lock' \in CPUs \cup {None}
  BY <1>1, <1>2 DEF Quiet, CallSwitch, TypeOK
<1>4. p \in Pcs /\ "switch" \in Phases \ {"empty"}
  BY <1>1 DEF Pcs, Interruptible, Phases, Panics
<1>5. pc[on[c]] = "exit" => target[c] = None
  BY <1>1 DEF CallSwitch, At
<1> QED BY <1>1, <1>3, <1>4, <1>5, StillKept, QuietKeeps DEF Waiting, Switch

\* The tick that preempts a function or a loop of kmain.
LEMMA PreemptKeeps ==
    ASSUME Inv, NEW c \in CPUs, Preempt(c)
    PROVE  Inv'
<1> DEFINE p == pc[on[c]]
<1>1. TypeOK /\ p \in Pcs /\ p \in Interruptible /\ phase[c] = "run"
  BY DEF Inv, TypeOK, Preempt, TakesInterrupt
<1>2. pc' = [pc EXCEPT ![on[c]] = p]
  BY <1>1, StayIsQuiet DEF Preempt, ctxVars
<1>3. Quiet(c, p, "switch") /\ cpu_id' = cpu_id /\ kind' = kind /\ lock' \in CPUs \cup {None}
  BY <1>1, <1>2 DEF Quiet, Preempt, TypeOK, ctxVars
<1>4. p # "exit" /\ "switch" \in Phases \ {"empty"}
  BY <1>1 DEF Interruptible, Phases, Panics
<1> QED BY <1>1, <1>3, <1>4, StillKept, QuietKeeps DEF Switch

\* The end of hlt or of the nop that enables interrupts.
LEMMA ResumeKeeps ==
    ASSUME Inv, NEW c \in CPUs, Resume(c)
    PROVE  Inv'
<1> DEFINE p == IF pc[on[c]] = "rpchalt" THEN "test" ELSE "idle"
<1>1. TypeOK /\ pc[on[c]] \in {"nop", "halt", "rpchalt"} /\ phase[c] = "run"
  BY DEF Inv, Resume, At
<1>2. pc' = [pc EXCEPT ![on[c]] = p]
  BY <1>1 DEF Resume, At, Woken
<1>3. phase' = [phase EXCEPT ![c] = "run"]
  BY <1>1 DEF Resume, cpuVars, TypeOK
<1>4. Quiet(c, p, "run") /\ cpu_id' = cpu_id /\ kind' = kind /\ lock' \in CPUs \cup {None}
  BY <1>1, <1>2, <1>3 DEF Quiet, Resume, TypeOK, cpuVars
<1>5. p \in Pcs /\ "run" \in Phases \ {"empty"}
  BY DEF Pcs, Interruptible, Phases, Panics
<1> QED BY <1>1, <1>4, <1>5, StillKept, QuietKeeps DEF Waiting, Switch

\* Taking CONTEXT_SWITCH_LOCK.
LEMMA SwitchLockKeeps ==
    ASSUME Inv, NEW c \in CPUs, SwitchLock(c)
    PROVE  Inv'
<1> DEFINE p == pc[on[c]]
<1>1. TypeOK /\ p \in Pcs /\ phase[c] = "switch"
  BY DEF Inv, TypeOK, SwitchLock
<1>2. pc' = [pc EXCEPT ![on[c]] = p]
  BY <1>1, StayIsQuiet DEF SwitchLock, ctxVars
<1>3. Quiet(c, p, "pick") /\ cpu_id' = cpu_id /\ kind' = kind /\ lock' \in CPUs \cup {None}
  BY <1>1, <1>2 DEF Quiet, SwitchLock, TypeOK, ctxVars
<1>4. p = "exit" => target[c] = None
  BY <1>1 DEF Inv, Leaving
<1>5. "pick" \in Phases \ {"empty"}
  BY DEF Phases, Panics
<1> QED BY <1>1, <1>3, <1>4, <1>5, StillKept, QuietKeeps DEF Switch

\* fuse_proxy whose sys_fuse fails.
LEMMA ProxyFailsKeeps ==
    ASSUME Inv, NEW c \in CPUs, ProxyFails(c)
    PROVE  Inv'
<1>1. TypeOK /\ pc[on[c]] = "proxy" /\ phase[c] = "run"
  BY DEF Inv, ProxyFails, At
<1>2. phase' = [phase EXCEPT ![c] = "run"]
  BY <1>1 DEF ProxyFails, cpuVars, TypeOK
<1>3. Quiet(c, "reply", "run") /\ cpu_id' = cpu_id /\ kind' = kind /\ lock' \in CPUs \cup {None}
  BY <1>1, <1>2 DEF Quiet, ProxyFails, TypeOK, cpuVars
<1>4. "reply" \in Pcs /\ "run" \in Phases \ {"empty"}
  BY DEF Pcs, Phases, Panics
<1> QED BY <1>1, <1>3, <1>4, StillKept, QuietKeeps DEF Waiting, Switch

\* update only takes contexts that nobody has.
LEMMA OwnedKept ==
    ASSUME Inv, NEW c \in CPUs, cpu_id' = Owned(c)
    PROVE  Kept
BY SchedulerAssumption DEF Inv, TypeOK, Fresh, Kept, Owned, Live, Ids, CPUs, None

\* The scan of switch finds a context, and keeps it for the commit.
LEMMA PickKeeps ==
    ASSUME Inv, NEW c \in CPUs, NEW to \in Candidates(c),
           phase[c] = "pick", cpu_id' = Owned(c),
           target' = [target EXCEPT ![c] = to], phase' = [phase EXCEPT ![c] = "commit"],
           UNCHANGED <<status, ret_link, result, kind, pc, inserted, saved, next_id,
                       current, on, lock, reply>>
    PROVE  Inv'
<1> USE SchedulerAssumption DEF CPUs, Ids, None, Main, BSP
<1>t. TypeOK /\ Kept
  BY OwnedKept DEF Inv
<1>x. Ranged
  BY RangesHold
<1>u. UNCHANGED <<status, ret_link, result, kind, pc, inserted, saved, next_id,
                   current, on, lock, reply>>
  OBVIOUS
<1>c. /\ to \in Ids /\ to # current[c] /\ cpu_id'[to] = c
      /\ status[to] \in {"Runnable", "New"}
  BY <1>t DEF Candidates, Live, TypeOK
<1>g. \A d \in CPUs : target'[d] = IF d = c THEN to ELSE target[d]
  BY <1>t DEF TypeOK
<1>f. \A d \in CPUs : phase'[d] = IF d = c THEN "commit" ELSE phase[d]
  BY <1>t DEF TypeOK
<1>1. TypeOK'
  BY <1>t, <1>c, SMTT(30) DEF TypeOK, Kept, Phases
<1>i. Fresh /\ Callees /\ OwnerRuns
  BY DEF Inv
<1>2. Fresh' /\ Callees'
  BY <1>i, <1>t, <1>u DEF Kept, Fresh, Callees, TypeOK
<1>3. OwnerRuns'
  BY <1>i, <1>t, <1>u, SMTT(30) DEF Kept, OwnerRuns, TypeOK
<1>4. OnCurrent'
  BY <1>t, <1>u, <1>f DEF Inv, OnCurrent, Switch
<1>5. Chosen'
  <2> SUFFICES ASSUME NEW d \in CPUs, phase'[d] = "commit"
               PROVE  /\ target'[d] \in Ids /\ target'[d] # on[d] /\ cpu_id'[target'[d]] = d
                      /\ status[target'[d]] \in {"Runnable", "New"}
    BY <1>u DEF Chosen
  <2>1. CASE d = c
    BY <2>1, <1>c, <1>g, <1>t DEF Inv, OnCurrent, Switch
  <2>2. CASE d # c
    BY <2>2, <1>t, <1>g, <1>f DEF Inv, Chosen, Kept
  <2> QED BY <2>1, <2>2
<1>6. Switching'
  BY <1>u, <1>g, <1>f DEF Inv, Switching, Switch
<1>7. Leaving'
  <2> SUFFICES ASSUME NEW d \in CPUs, pc[on[d]] = "exit", d # c
               PROVE  /\ phase[d] \in {"switch", "pick"} => target[d] = None
                      /\ phase[d] = "run" /\ target[d] # None =>
                            /\ cpu_id'[target[d]] = d /\ pc[target[d]] = "fused"
                            /\ inserted[target[d]] = on[d]
    BY <1>u, <1>g, <1>f DEF Leaving
  <2>1. target[d] # None => target[d] \in Ids
    BY <1>t DEF TypeOK
  <2> QED BY <2>1, <1>t DEF Inv, Leaving, Kept
<1>8. Links'
  <2> SUFFICES ASSUME NEW j \in Ids, ret_link[j] # None
               PROVE  cpu_id'[ret_link[j]] = cpu_id'[j] /\ cpu_id'[j] # None
    BY <1>u DEF Inv, Links
  <2>1. ret_link[j] \in Ids
    BY <1>t DEF TypeOK
  <2> QED BY <2>1, <1>t, SMTT(30) DEF Inv, Links, Kept
<1>9. Calling' /\ ExitedStays' /\ CallerParked' /\ NewIsNew' /\ Saved'
  BY <1>u DEF Inv, Calling, ExitedStays, CallerParked, NewIsNew, Saved
<1>10. Called'
  <2> SUFFICES ASSUME NEW i \in Ids, pc[i] = "fused",
                      NEW d \in CPUs, on[d] = inserted[i], target[d] = i,
                      pc[inserted[i]] = "exit"
               PROVE  target'[d] = i
    BY <1>u DEF Inv, Called
  <2>1. d # c
    BY <1>x DEF Inv, Leaving, Ranged
  <2> QED BY <2>1, <1>g
<1>11. MainWaits' /\ ReplyPresent'
  BY <1>t, <1>u, <1>f, SMTT(30) DEF Inv, MainWaits, ReplyPresent, Kept
<1> QED BY <1>1, <1>2, <1>3, <1>4, <1>5, <1>6, <1>7, <1>8, <1>9, <1>10, <1>11 DEF Inv

\* switch between its lock and its commit.
LEMMA SwitchPickKeeps ==
    ASSUME Inv, NEW c \in CPUs, SwitchPick(c)
    PROVE  Inv'
<1>t. TypeOK /\ phase[c] = "pick" /\ cpu_id' = Owned(c)
  BY DEF Inv, SwitchPick
<1>1. ASSUME NEW to \in Candidates(c),
             target' = [target EXCEPT ![c] = to], phase' = [phase EXCEPT ![c] = "commit"],
             UNCHANGED <<pc, lock>>
      PROVE  Inv'
  BY <1>t, <1>1, PickKeeps DEF SwitchPick
<1>2. ASSUME lock' = None, UNCHANGED target,
             pc' = [pc EXCEPT ![on[c]] = NotSwitched(@)],
             phase' = [phase EXCEPT ![c] = IF pc[on[c]] = "exit"
                                           THEN "unreachable" ELSE "run"]
      PROVE  Inv'
  <2> DEFINE p == NotSwitched(pc[on[c]])
             f == IF pc[on[c]] = "exit" THEN "unreachable" ELSE "run"
  <2>1. pc' = [pc EXCEPT ![on[c]] = p] /\ phase' = [phase EXCEPT ![c] = f]
    BY <1>2
  <2>2. Quiet(c, p, f) /\ kind' = kind /\ lock' \in CPUs \cup {None}
    BY <1>2, <2>1 DEF Quiet, SwitchPick
  <2>3. /\ p \in Pcs /\ pc[on[c]] \in Pcs
        /\ f \in Phases \ {"empty"} /\ f \notin Switch \cup {"commit", "switch", "pick"}
        /\ pc[on[c]] = "exit" => f # "run"
        /\ p # pc[on[c]] =>
              /\ p \notin {"call", "fused", "exit", "new", "none", "boot"}
              /\ pc[on[c]] \notin {"call", "fused", "exit", "new", "none", "boot"}
              /\ p \in Waiting <=> pc[on[c]] \in Waiting
    BY <1>t DEF TypeOK, NotSwitched, Pcs, Interruptible, Phases, Panics, Switch, Waiting
  <2> HIDE DEF p, f
  <2> QED BY <1>t, <2>2, <2>3, OwnedKept, QuietKeeps DEF Switch
<1> QED BY <1>1, <1>2 DEF SwitchPick

\* switch changes both statuses and CONTEXT_ID.
LEMMA SwitchCommitKeeps ==
    ASSUME Inv, NEW c \in CPUs, SwitchCommit(c)
    PROVE  Inv'
<1> USE SchedulerAssumption DEF CPUs, Ids, None, Main, BSP
<1> DEFINE from == current[c]
           to == target[c]
<1>t. TypeOK
  BY DEF Inv
<1>x. Ranged
  BY RangesHold
<1>u. UNCHANGED <<cpu_id, ret_link, result, kind, pc, inserted, saved, next_id,
                   on, target, reply>> /\ lock' = None
  BY DEF SwitchCommit
<1>c. /\ phase[c] = "commit" /\ from = on[c] /\ to \in Ids /\ to # from
      /\ from \in Ids /\ cpu_id[from] = c /\ cpu_id[to] = c
      /\ status[to] \in {"Runnable", "New"}
      /\ pc[from] \notin {"fused", "new", "none"}
  BY <1>t DEF Inv, Chosen, OnCurrent, OwnerRuns, Switch, TypeOK, SwitchCommit
<1>s. \A i \in Ids : status'[i] = IF i = to THEN "Running"
                                  ELSE IF i = from /\ status[i] = "Running" THEN "Runnable"
                                  ELSE status[i]
  BY <1>t, <1>c DEF SwitchCommit, TypeOK
<1>k. \A d \in CPUs : current'[d] = IF d = c THEN to ELSE current[d]
  BY <1>t DEF SwitchCommit, TypeOK
<1>f. \A d \in CPUs : phase'[d] = IF d = c THEN "arch" ELSE phase[d]
  BY <1>t DEF SwitchCommit, TypeOK
<1> HIDE DEF from, to
<1>1. TypeOK'
  <2>1. status' \in [Ids -> Statuses] /\ current' \in [CPUs -> Ids]
    BY <1>t, <1>c DEF SwitchCommit, TypeOK, Statuses, from, to
  <2>2. phase' \in [CPUs -> Phases]
    BY <1>t DEF SwitchCommit, TypeOK, Phases
  <2> QED BY <2>1, <2>2, <1>t, <1>u DEF TypeOK
<1>2. Fresh' /\ Callees'
  <2>1. to < next_id /\ from < next_id
    BY <1>x, <1>c DEF Inv, Fresh, Ranged
  <2>2. Fresh'
    BY <2>1, <1>x, <1>u, <1>s DEF Inv, Fresh, Ranged
  <2> QED BY <2>2, <1>u DEF Inv, Callees
<1>3. OwnerRuns'
  BY <1>u, <1>k, <1>c DEF Inv, OwnerRuns
<1>4. OnCurrent'
  BY <1>u, <1>k, <1>f DEF Inv, OnCurrent, Switch
<1>5. Chosen'
  <2> SUFFICES ASSUME NEW d \in CPUs, d # c, phase[d] = "commit"
               PROVE  status'[target[d]] = status[target[d]]
    BY <1>u, <1>f DEF Inv, Chosen
  <2>1. target[d] \in Ids /\ cpu_id[target[d]] = d
    BY DEF Inv, Chosen
  <2> QED BY <2>1, <1>s, <1>c
<1>6. Switching'
  <2>1. ASSUME NEW d \in CPUs, d # c, phase[d] \in Switch
        PROVE  status'[target[d]] = "Running"
    <3>1. target[d] \in Ids /\ cpu_id[target[d]] = d /\ status[target[d]] = "Running"
      BY <2>1, <1>x DEF Inv, Switching, OwnerRuns, Ranged
    <3> QED BY <3>1, <2>1, <1>s, <1>c
  <2>2. status'[to] = "Running" /\ pc[to] \notin {"fused", "exit"}
    BY <1>c, <1>s DEF Inv, CallerParked, ExitedStays
  <2> QED BY <2>1, <2>2, <1>c, <1>u, <1>k, <1>f DEF Inv, Switching, Switch, to
<1>7. Leaving'
  BY <1>u, <1>f DEF Inv, Leaving
<1>8. Links' /\ Called'
  BY <1>u DEF Inv, Links, Called
<1>9. Calling'
  <2> SUFFICES ASSUME NEW i \in Ids, pc[i] = "call"
               PROVE  status'[inserted[i]] = "Blocked"
    BY <1>u DEF Inv, Calling
  <2>1. inserted[i] \in Ids /\ status[inserted[i]] = "Blocked"
    BY <1>x DEF Inv, Calling, Ranged
  <2> QED BY <2>1, <1>s, <1>c
<1>10. ExitedStays' /\ CallerParked' /\ NewIsNew'
  BY <1>s, <1>c, <1>u DEF Inv, ExitedStays, CallerParked, NewIsNew
<1>11. Saved'
  BY <1>u DEF Inv, Saved
<1>12. MainWaits' /\ ReplyPresent'
  <2>1. pc[Main] \in Waiting /\ status[Main] = "Blocked" => status'[Main] = "Blocked"
    BY <1>s, <1>c
  <2> QED BY <2>1, <1>u, <1>f DEF Inv, MainWaits, ReplyPresent
<1> QED BY <1>1, <1>2, <1>3, <1>4, <1>5, <1>6, <1>7, <1>8, <1>9, <1>10, <1>11, <1>12 DEF Inv

\* The switch of stacks and registers.
LEMMA ArchSwitchKeeps ==
    ASSUME Inv, NEW c \in CPUs, ArchSwitch(c)
    PROVE  Inv'
<1> USE SchedulerAssumption DEF CPUs, Ids, None, Main, BSP
<1> DEFINE old == on[c]
           to == target[c]
<1>t. TypeOK
  BY DEF Inv
<1>x. Ranged
  BY RangesHold
<1>u. UNCHANGED <<status, cpu_id, ret_link, result, kind, inserted, next_id,
                   current, target, lock, reply>>
  BY SMTT(30) DEF ArchSwitch
<1>c. /\ phase[c] \in Switch /\ to = current[c] /\ to # old
      /\ old \in Ids /\ to \in Ids /\ cpu_id[old] = c /\ cpu_id[to] = c
      /\ status[to] = "Running" /\ pc[to] \notin {"exit", "none"}
      /\ pc[to] = "fused" => pc[old] = "exit" /\ inserted[to] = old
      /\ phase[c] = "discard" => pc[old] = "exit"
  <2>1. Fresh /\ Switching /\ OwnerRuns
    BY DEF Inv
  <2> QED BY <1>t, <2>1, SMTT(30) DEF Fresh, Switching, OwnerRuns, Switch, TypeOK, ArchSwitch
<1>r. /\ Resumed(to) \in Pcs
      /\ Resumed(to) \notin {"fused", "new", "none", "exit"}
      /\ Resumed(to) = "call" <=> pc[to] = "call"
      /\ Resumed(to) \in Waiting <=> pc[to] \in Waiting
      /\ Resumed(to) = "boot" => pc[to] = "boot"
  <2>1. pc[to] \in Pcs
    BY <1>t, <1>c DEF TypeOK
  <2>2. CASE pc[to] = "new"
    <3>1. Resumed(to) \in {"proxy", "user"}
      BY <2>2 DEF Resumed, Entry
    <3> QED BY <2>2, <3>1 DEF Pcs, Interruptible, Waiting
  <2>3. CASE pc[to] \in {"idle", "wait", "fused"}
    BY <2>3 DEF Resumed, Pcs, Interruptible, Waiting
  <2>4. CASE pc[to] \notin {"new", "idle", "wait", "fused"}
    <3>1. Resumed(to) = pc[to]
      BY <2>4 DEF Resumed
    <3> QED BY <2>1, <2>4, <3>1, <1>c
  <2> QED BY <2>2, <2>3, <2>4
<1>p. \A i \in Ids : pc'[i] = IF i = to THEN Resumed(to) ELSE pc[i]
  BY <1>t DEF ArchSwitch, TypeOK
<1>v. \A i \in Ids : saved'[i] = IF i = to THEN FALSE
                                 ELSE IF i = old THEN phase[c] = "arch" ELSE saved[i]
  BY <1>t DEF ArchSwitch, TypeOK
<1>n. \A d \in CPUs : on'[d] = IF d = c THEN to ELSE on[d]
  BY <1>t DEF ArchSwitch, TypeOK
<1>f. \A d \in CPUs : phase'[d] = IF d = c THEN "run" ELSE phase[d]
  BY <1>t DEF ArchSwitch, TypeOK
<1>o. \A d \in CPUs : d # c => /\ on[d] \in Ids /\ on[d] # to /\ on[d] # old
                               /\ current[d] # to
  BY <1>x, <1>c DEF Inv, OwnerRuns, Ranged
<1> HIDE DEF old, to
<1>1. TypeOK'
  <2>1. pc' \in [Ids -> Pcs] /\ saved' \in [Ids -> BOOLEAN]
    BY <1>t, <1>c, <1>r DEF ArchSwitch, TypeOK, to
  <2>2. on' \in [CPUs -> Ids] /\ phase' \in [CPUs -> Phases]
    BY <1>t, <1>c, SMTT(30) DEF ArchSwitch, TypeOK, Phases, to
  <2> QED BY <2>1, <2>2, <1>t, <1>u DEF TypeOK
<1>2. Fresh' /\ Callees'
  <2>1. Fresh /\ Callees
    BY DEF Inv
  <2>2. Fresh'
    BY <2>1, <1>x, <1>u, <1>c, <1>p, <1>r, SMTT(30) DEF Fresh, Ranged
  <2> QED BY <2>1, <2>2, <1>u DEF Callees
<1>3. OwnerRuns'
  BY <1>u, <1>n, <1>c DEF Inv, OwnerRuns
<1>4. OnCurrent'
  <2>1. OnCurrent
    BY DEF Inv
  <2> QED BY <2>1, <1>u, <1>n, <1>f, <1>p, <1>r, <1>c, <1>o, SMTT(30) DEF OnCurrent, Switch
<1>5. Chosen'
  BY <1>u, <1>n, <1>f DEF Inv, Chosen
<1>6. Switching'
  <2>1. ASSUME NEW d \in CPUs, phase'[d] \in Switch
        PROVE  d # c /\ phase'[d] = phase[d] /\ on'[d] = on[d]
    BY <2>1, <1>f, <1>n DEF Switch
  <2>2. ASSUME NEW d \in CPUs, d # c, phase[d] \in Switch
        PROVE  pc'[target[d]] = pc[target[d]] /\ pc'[on[d]] = pc[on[d]]
    <3>1. target[d] = current[d]
      BY <2>2 DEF Inv, Switching
    <3>2. target[d] \in Ids /\ target[d] # to /\ on[d] \in Ids /\ on[d] # to
      BY <2>2, <3>1, <1>x, <1>o DEF Ranged
    <3> QED BY <3>2, <1>p, SMTT(30)
  <2>3. Switching
    BY DEF Inv
  <2> QED BY <2>1, <2>2, <2>3, <1>u DEF Switching
<1>7. Leaving'
  <2>i. Leaving
    BY SMTT(30) DEF Inv
  <2> SUFFICES ASSUME NEW d \in CPUs, d # c, pc[on[d]] = "exit",
                      phase[d] = "run", target[d] # None
               PROVE  pc'[target[d]] = pc[target[d]]
    BY <2>i, <1>u, <1>n, <1>f, <1>p, <1>r, <1>c, <1>o, SMTT(30) DEF Leaving
  <2>1. target[d] \in Ids /\ target[d] # to
    BY <1>x, <1>c DEF Inv, Leaving, Ranged
  <2> QED BY <2>1, <1>p
<1>8. Links'
  <2> SUFFICES ASSUME NEW j \in Ids, ret_link[j] # None
               PROVE  pc'[ret_link[j]] = pc[ret_link[j]] /\ pc'[j] # "exit"
    BY <1>u DEF Inv, Links
  <2>1. /\ ret_link[j] \in Ids /\ pc[ret_link[j]] \in {"call", "fused"}
        /\ inserted[ret_link[j]] = j /\ pc[j] # "exit"
    BY <1>x DEF Inv, Links, Ranged
  <2>2. pc'[j] # "exit"
    BY <2>1, <1>p, <1>r
  <2>3. CASE ret_link[j] = to
    <3>1. pc[to] = "call"
      BY <2>1, <2>3, <1>c
    <3> QED BY <2>2, <2>1, <2>3, <3>1, <1>p, <1>r
  <2> QED BY <2>1, <2>2, <2>3, <1>p
<1>9. Calling'
  <2> SUFFICES ASSUME NEW i \in Ids, pc'[i] = "call"
               PROVE  pc[i] = "call" /\ pc'[inserted[i]] = pc[inserted[i]]
    BY <1>u DEF Inv, Calling
  <2>1. pc[i] = "call"
    BY <1>p, <1>r
  <2>2. inserted[i] \in Ids /\ status[inserted[i]] = "Blocked"
    BY <2>1, <1>x DEF Inv, Calling, Ranged
  <2> QED BY <2>1, <2>2, <1>p, <1>c
<1>10. Called'
  <2> SUFFICES ASSUME NEW i \in Ids, i # to, pc[i] = "fused",
                      NEW d \in CPUs, on[d] = inserted[i], target[d] = i,
                      pc[inserted[i]] = "exit"
               PROVE  on'[d] = on[d] /\ pc'[inserted[i]] = "exit"
    BY <1>u, <1>p, <1>r DEF Inv, Called
  <2>1. d # c
    BY DEF to
  <2> QED BY <2>1, <1>n, <1>o, <1>p
<1>11. ExitedStays' /\ CallerParked' /\ NewIsNew'
  BY <1>u, <1>p, <1>r, <1>c DEF Inv, ExitedStays, CallerParked, NewIsNew
<1>12. Saved'
  <2> SUFFICES ASSUME NEW i \in Ids, pc'[i] \notin {"new", "exit", "none"},
                      \A d \in CPUs : on'[d] # i
               PROVE  saved'[i]
    BY DEF Saved
  <2>1. i # to /\ pc'[i] = pc[i]
    BY <1>n, <1>p
  <2>2. CASE i = old
    BY <2>1, <2>2, <1>v, <1>c DEF Switch
  <2>3. CASE i # old
    <3>1. \A d \in CPUs : on[d] # i
      BY <2>3, <1>n DEF old
    <3> QED BY <2>1, <2>3, <3>1, <1>v DEF Inv, Saved
  <2> QED BY <2>2, <2>3
<1>13. MainWaits' /\ ReplyPresent'
  BY <1>u, <1>p, <1>r, <1>f DEF Inv, MainWaits, ReplyPresent
<1> QED BY <1>1, <1>2, <1>3, <1>4, <1>5, <1>6, <1>7, <1>8, <1>9, <1>10, <1>11, <1>12, <1>13 DEF Inv
=============================================================================
