-------------------------- MODULE SchedulerProofs ---------------------------
\* The RPC interrupt, kmain's own call, and the theorems about the scheduler.
EXTENDS SchedulerCalls

\* isr delivers the answer kmain waits for.
LEMMA IsrReplyKeeps ==
    ASSUME Inv, IsrReply
    PROVE  Inv'
<1> USE SchedulerAssumption DEF CPUs, Ids, None, Main, BSP
<1> DEFINE i == on[BSP]
           p == Woken(pc[on[BSP]])
<1>t. TypeOK
  BY DEF Inv
<1>x. Ranged
  BY RangesHold
<1>u. UNCHANGED <<cpu_id, ret_link, kind, inserted, saved, next_id, current, on, phase,
                   target, lock>> /\ reply' = "in"
  BY DEF IsrReply, cpuVars
<1>c. i \in Ids /\ pc[i] \in Interruptible /\ BSP \in CPUs
  BY <1>t DEF TypeOK, IsrReply, TakesInterrupt
<1>m. Main \in Ids /\ pc[Main] \in Waiting
  BY DEF Inv, MainWaits, IsrReply
<1>a. /\ p \in Pcs
      /\ p # pc[i] => /\ p \in {"idle", "test"}
                      /\ pc[i] \in {"halt", "rpchalt"}
                      /\ p \in Waiting <=> pc[i] \in Waiting
  BY <1>c DEF Woken, Interruptible, Pcs, Waiting
<1>s. \A j \in Ids : status'[j] = IF j = Main /\ status[j] = "Blocked" THEN "Runnable" ELSE status[j]
  BY <1>t DEF IsrReply, TypeOK
<1>p. \A j \in Ids : pc'[j] = IF j = i THEN p ELSE pc[j]
  BY <1>t DEF IsrReply, TypeOK
<1>r. result'[Main]
  BY <1>t DEF IsrReply, TypeOK
<1>1. TypeOK'
  <2>1. status' \in [Ids -> Statuses]
    BY <1>t DEF IsrReply, TypeOK, Statuses
  <2>2. pc' \in [Ids -> Pcs]
    BY <1>t, <1>a DEF IsrReply, TypeOK
  <2>3. result' \in [Ids -> BOOLEAN]
    BY <1>t DEF IsrReply, TypeOK
  <2> QED BY <2>1, <2>2, <2>3, <1>t, <1>u DEF TypeOK
<1> HIDE DEF i, p
<1>q. /\ \A j \in Ids : \A x \in {"call", "fused", "exit", "new", "none", "boot"} :
                            pc'[j] = x <=> pc[j] = x
      /\ \A j \in Ids : pc'[j] \in Waiting <=> pc[j] \in Waiting
  BY <1>p, <1>a
<1>2. Fresh' /\ Callees'
  <2>1. Fresh'
    BY <1>u, <1>s, <1>q DEF Inv, Fresh
  <2> QED BY <2>1, <1>u DEF Inv, Callees
<1>3. OwnerRuns'
  BY <1>u DEF Inv, OwnerRuns
<1>4. OnCurrent'
  <2>1. \A d \in CPUs : on[d] \in Ids
    BY <1>t DEF TypeOK
  <2> QED BY <2>1, <1>u, <1>q DEF Inv, OnCurrent
<1>5. Chosen'
  BY <1>u, <1>s DEF Inv, Chosen
<1>6. Switching'
  <2>1. ASSUME NEW d \in CPUs, phase[d] \in Switch
        PROVE  target[d] \in Ids /\ on[d] \in Ids
    BY <2>1, <1>x DEF Inv, Switching, Ranged
  <2> QED BY <2>1, <1>u, <1>s, <1>q DEF Inv, Switching
<1>7. Leaving'
  <2>1. \A d \in CPUs : on[d] \in Ids /\ (target[d] # None => target[d] \in Ids)
    BY <1>t DEF TypeOK
  <2> QED BY <2>1, <1>u, <1>q DEF Inv, Leaving
<1>8. Links'
  <2>1. \A j \in Ids : ret_link[j] # None => ret_link[j] \in Ids
    BY <1>t DEF TypeOK
  <2> QED BY <2>1, <1>u, <1>q DEF Inv, Links
<1>9. Calling' /\ Called'
  <2>1. \A j \in Ids : inserted[j] # None => inserted[j] \in Ids
    BY <1>t DEF TypeOK
  <2>2. Calling'
    <3> SUFFICES ASSUME NEW j \in Ids, pc[j] = "call"
                 PROVE  /\ pc'[inserted[j]] = "new" /\ status'[inserted[j]] = "Blocked"
      BY <1>u, <1>q DEF Inv, Calling
    <3>1. /\ inserted[j] \in Ids /\ pc[inserted[j]] = "new"
          /\ status[inserted[j]] = "Blocked"
      BY <2>1 DEF Inv, Calling
    <3> QED BY <3>1, <1>q, <1>s, <1>m DEF Waiting
  <2>3. Called'
    BY <2>1, <1>u, <1>q DEF Inv, Called
  <2> QED BY <2>2, <2>3
<1>10. ExitedStays' /\ CallerParked' /\ NewIsNew'
  <2>1. ExitedStays'
    BY <1>s, <1>q DEF Inv, ExitedStays
  <2>2. CallerParked'
    BY <1>s, <1>q, <1>m DEF Inv, CallerParked, Waiting
  <2>3. NewIsNew'
    BY <1>s, <1>q DEF Inv, NewIsNew
  <2> QED BY <2>1, <2>2, <2>3
<1>11. Saved'
  BY <1>u, <1>q DEF Inv, Saved
<1>12. MainWaits' /\ ReplyPresent'
  BY <1>u, <1>q, <1>r DEF Inv, MainWaits, ReplyPresent
<1> QED BY <1>1, <1>2, <1>3, <1>4, <1>5, <1>6, <1>7, <1>8, <1>9, <1>10, <1>11, <1>12 DEF Inv

\* kmain sends its call and starts to wait.
LEMMA RpcFuseKeeps ==
    ASSUME Inv, RpcFuse
    PROVE  Inv'
<1> USE SchedulerAssumption DEF CPUs, Ids, None, Main, BSP
<1>t. TypeOK
  BY DEF Inv
<1>x. Ranged
  BY RangesHold
<1>u. UNCHANGED <<cpu_id, ret_link, result, kind, inserted, saved, next_id, current, on,
                   target, lock>> /\ reply' = "due"
  BY DEF RpcFuse
<1>c. /\ BSP \in CPUs /\ phase[BSP] = "run" /\ on[BSP] = Main /\ current[BSP] = Main
      /\ Main \in Ids /\ pc[Main] = "boot" /\ cpu_id[Main] = BSP
  <2>1. BSP \in CPUs /\ phase[BSP] = "run" /\ on[BSP] \in Ids /\ pc[on[BSP]] = "boot"
    BY <1>t DEF TypeOK, RpcFuse, At
  <2>2. on[BSP] = Main /\ cpu_id[Main] = BSP
    BY <2>1 DEF Inv, MainWaits
  <2>3. on[BSP] = current[BSP]
    BY <2>1 DEF Inv, OnCurrent, Switch
  <2> QED BY <2>1, <2>2, <2>3
<1>s. \A j \in Ids : status'[j] = IF j = Main THEN "Blocked" ELSE status[j]
  BY <1>t DEF RpcFuse, TypeOK
<1>p. \A j \in Ids : pc'[j] = IF j = Main THEN "wait" ELSE pc[j]
  BY <1>t DEF RpcFuse, TypeOK
<1>f. \A d \in CPUs : phase'[d] = IF d = BSP THEN "switch" ELSE phase[d]
  BY <1>t DEF RpcFuse, TypeOK
<1>o. \A d \in CPUs : /\ on[d] \in Ids /\ current[d] \in Ids
                      /\ d # BSP => on[d] # Main /\ current[d] # Main
  BY <1>x, <1>c DEF Inv, OwnerRuns, Ranged
<1>1. TypeOK'
  <2>1. status' \in [Ids -> Statuses]
    BY <1>t DEF RpcFuse, TypeOK, Statuses
  <2>2. pc' \in [Ids -> Pcs]
    BY <1>t DEF RpcFuse, TypeOK, Pcs
  <2>3. phase' \in [CPUs -> Phases]
    BY <1>t DEF RpcFuse, TypeOK, Phases
  <2> QED BY <2>1, <2>2, <2>3, <1>t, <1>u DEF TypeOK
<1>m. Main < next_id
  BY <1>x DEF Ranged
<1> HIDE DEF Main, BSP
<1>2. Fresh' /\ Callees'
  <2>1. Fresh'
    BY <1>m, <1>x, <1>u, <1>s, <1>p DEF Inv, Fresh, Ranged
  <2> QED BY <2>1, <1>u DEF Inv, Callees
<1>3. OwnerRuns'
  BY <1>u DEF Inv, OwnerRuns
<1>4. OnCurrent'
  <2> SUFFICES ASSUME NEW d \in CPUs, phase'[d] \notin Switch
               PROVE  on[d] = current[d] /\ pc'[on[d]] \notin {"fused", "new", "none"}
    BY <1>u DEF OnCurrent
  <2>1. CASE d = BSP
    BY <2>1, <1>c, <1>p
  <2>2. CASE d # BSP
    BY <2>2, <1>o, <1>p, <1>f DEF Inv, OnCurrent
  <2> QED BY <2>1, <2>2
<1>5. Chosen'
  <2> SUFFICES ASSUME NEW d \in CPUs, d # BSP, phase[d] = "commit"
               PROVE  status'[target[d]] = status[target[d]]
    BY <1>u, <1>f DEF Inv, Chosen
  <2>1. target[d] \in Ids /\ cpu_id[target[d]] = d
    BY DEF Inv, Chosen
  <2> QED BY <2>1, <1>s, <1>c
<1>6. Switching'
  <2>1. ASSUME NEW d \in CPUs, phase'[d] \in Switch PROVE d # BSP /\ phase'[d] = phase[d]
    BY <2>1, <1>f DEF Switch
  <2>2. ASSUME NEW d \in CPUs, d # BSP, phase[d] \in Switch
        PROVE  /\ status'[target[d]] = status[target[d]]
               /\ pc'[target[d]] = pc[target[d]] /\ pc'[on[d]] = pc[on[d]]
    <3>1. target[d] = current[d]
      BY <2>2 DEF Inv, Switching
    <3>2. target[d] \in Ids /\ target[d] # Main /\ on[d] \in Ids /\ on[d] # Main
      BY <2>2, <3>1, <1>o
    <3> QED BY <3>2, <1>s, <1>p
  <2> QED BY <2>1, <2>2, <1>u DEF Inv, Switching
<1>7. Leaving'
  <2>1. ASSUME NEW d \in CPUs, pc'[on[d]] = "exit"
        PROVE  d # BSP /\ pc[on[d]] = "exit" /\ phase'[d] = phase[d]
    BY <2>1, <1>p, <1>o, <1>f, <1>c
  <2>2. ASSUME NEW d \in CPUs, target[d] # None, pc[target[d]] = "fused"
        PROVE  pc'[target[d]] = "fused"
    BY <2>2, <1>t, <1>p, <1>c DEF TypeOK
  <2> QED BY <2>1, <2>2, <1>u DEF Inv, Leaving
<1>8. Links'
  <2> SUFFICES ASSUME NEW j \in Ids, ret_link[j] # None
               PROVE  pc'[ret_link[j]] = pc[ret_link[j]] /\ pc'[j] # "exit"
    BY <1>u DEF Inv, Links
  <2>1. /\ ret_link[j] \in Ids /\ pc[ret_link[j]] \in {"call", "fused"} /\ pc[j] # "exit"
    BY <1>x DEF Inv, Links, Ranged
  <2> QED BY <2>1, <1>c, <1>p
<1>9. Calling'
  <2> SUFFICES ASSUME NEW j \in Ids, pc'[j] = "call"
               PROVE  /\ pc[j] = "call" /\ pc'[inserted[j]] = pc[inserted[j]]
                      /\ status'[inserted[j]] = status[inserted[j]]
    BY <1>u DEF Inv, Calling
  <2>1. pc[j] = "call"
    BY <1>p
  <2>2. inserted[j] \in Ids /\ pc[inserted[j]] = "new"
    BY <2>1, <1>x DEF Inv, Calling, Ranged
  <2> QED BY <2>1, <2>2, <1>c, <1>p, <1>s
<1>10. Called'
  <2> SUFFICES ASSUME NEW j \in Ids, pc'[j] = "fused"
               PROVE  pc[j] = "fused" /\ (pc[inserted[j]] = "exit" => pc'[inserted[j]] = "exit")
    BY <1>u DEF Inv, Called
  <2>1. pc[j] = "fused"
    BY <1>p
  <2>2. inserted[j] \in Ids
    BY <2>1, <1>x DEF Inv, Called, Ranged
  <2> QED BY <2>1, <2>2, <1>c, <1>p
<1>11. ExitedStays' /\ CallerParked' /\ NewIsNew'
  BY <1>s, <1>p, <1>c DEF Inv, ExitedStays, CallerParked, NewIsNew
<1>12. Saved'
  BY <1>u, <1>p, <1>c DEF Inv, Saved
<1>13. MainWaits' /\ ReplyPresent'
  BY <1>u, <1>s, <1>p, <1>f, <1>c DEF Inv, MainWaits, ReplyPresent, Waiting
<1> QED BY <1>1, <1>2, <1>3, <1>4, <1>5, <1>6, <1>7, <1>8, <1>9, <1>10, <1>11, <1>12, <1>13 DEF Inv

\* kmain tests its status: it goes on waiting, or takes the answer.
LEMMA RpcTestKeeps ==
    ASSUME Inv, RpcTest
    PROVE  Inv'
<1> USE SchedulerAssumption DEF CPUs, Ids, None, Main, BSP
<1>t. TypeOK
  BY DEF Inv
<1>x. Ranged
  BY RangesHold
<1>c. /\ BSP \in CPUs /\ phase[BSP] = "run" /\ on[BSP] = Main
      /\ Main \in Ids /\ pc[Main] = "test" /\ cpu_id[Main] = BSP
  <2>1. BSP \in CPUs /\ phase[BSP] = "run" /\ on[BSP] \in Ids /\ pc[on[BSP]] = "test"
    BY <1>t DEF TypeOK, RpcTest, At
  <2>2. on[BSP] = Main /\ cpu_id[Main] = BSP
    BY <2>1 DEF Inv, MainWaits, Waiting
  <2> QED BY <2>1, <2>2
<1>1. CASE status[Main] = "Blocked"
  <2>1. Quiet(BSP, "sleep", "run") /\ kind' = kind /\ lock' = lock /\ cpu_id' = cpu_id
    BY <1>1, <1>t, <1>c DEF RpcTest, Quiet, TypeOK
  <2>2. Kept
    BY <2>1, StillKept
  <2>3. /\ "run" \in Phases \ {"empty"} /\ "run" \notin Switch \cup {"commit"}
        /\ "sleep" \in Pcs /\ "sleep" \in Waiting /\ "test" \in Waiting
    BY DEF Phases, Panics, Switch, Pcs, Interruptible, Waiting
  <2>4. lock' \in CPUs \cup {None}
    BY <2>1, <1>t DEF TypeOK
  <2>5. phase[BSP] \notin Switch \cup {"commit"} /\ pc[on[BSP]] = "test"
    BY <1>c DEF Switch
  <2> QED BY <1>c, <2>1, <2>2, <2>3, <2>4, <2>5, QuietKeeps
<1>2. CASE status[Main] # "Blocked"
  <2>r. result[Main] = TRUE /\ reply = "in"
    BY <1>2, <1>x, <1>c DEF Inv, MainWaits, Waiting, Ranged
  <2>u. UNCHANGED <<status, cpu_id, ret_link, kind, inserted, saved, next_id, current, on,
                    target, lock, reply>>
    BY DEF RpcTest
  <2>f. phase' = phase
    <3>1. phase' = [phase EXCEPT ![BSP] = "run"]
      BY <1>2, <2>r DEF RpcTest
    <3> QED BY <3>1, <1>t, <1>c DEF TypeOK
  <2>p. \A j \in Ids : pc'[j] = IF j = Main THEN "main" ELSE pc[j]
    BY <1>2, <1>t DEF RpcTest, TypeOK
  <2>o. \A d \in CPUs : on[d] \in Ids /\ (target[d] # None => target[d] \in Ids)
    BY <1>t DEF TypeOK
  <2>q. /\ \A j \in Ids : \A x \in {"call", "fused", "exit", "new", "none"} :
                              pc'[j] = x <=> pc[j] = x
        /\ \A j \in Ids : pc'[j] \in Waiting \cup {"boot"} => pc[j] \in Waiting \cup {"boot"}
        /\ pc'[Main] \notin Waiting
    BY <2>p, <1>c DEF Waiting
  <2>1. TypeOK'
    <3>1. pc' \in [Ids -> Pcs]
      BY <1>2, <1>t DEF RpcTest, TypeOK, Pcs, Interruptible
    <3>2. result' \in [Ids -> BOOLEAN]
      BY <1>2, <1>t DEF RpcTest, TypeOK
    <3> QED BY <3>1, <3>2, <1>t, <2>u, <2>f, SMTT(30) DEF TypeOK
  <2>2. Fresh' /\ Callees'
    <3>1. Fresh'
      BY <2>u, <2>q DEF Inv, Fresh
    <3> QED BY <3>1, <2>u DEF Inv, Callees
  <2>3. OwnerRuns' /\ Chosen'
    BY <2>u, <2>f DEF Inv, OwnerRuns, Chosen
  <2>4. OnCurrent'
    BY <2>o, <2>u, <2>f, <2>q DEF Inv, OnCurrent
  <2>5. Switching'
    <3>1. ASSUME NEW d \in CPUs, phase[d] \in Switch PROVE target[d] \in Ids
      BY <3>1, <1>x DEF Inv, Switching, Ranged
    <3> QED BY <3>1, <2>o, <2>u, <2>f, <2>q DEF Inv, Switching
  <2>6. Leaving'
    BY <2>o, <2>u, <2>f, <2>q DEF Inv, Leaving
  <2>7. Links'
    <3>1. \A j \in Ids : ret_link[j] # None => ret_link[j] \in Ids
      BY <1>t DEF TypeOK
    <3> QED BY <3>1, <2>u, <2>q DEF Inv, Links
  <2>8. Calling' /\ Called'
    <3>1. \A j \in Ids : inserted[j] # None => inserted[j] \in Ids
      BY <1>t DEF TypeOK
    <3>2. Calling'
      BY <3>1, <2>u, <2>q DEF Inv, Calling
    <3>3. Called'
      BY <3>1, <2>u, <2>q DEF Inv, Called
    <3> QED BY <3>2, <3>3
  <2>9. ExitedStays' /\ CallerParked' /\ NewIsNew'
    BY <2>u, <2>q DEF Inv, ExitedStays, CallerParked, NewIsNew
  <2>10. Saved'
    BY <2>u, <2>q DEF Inv, Saved
  <2>11. MainWaits' /\ ReplyPresent'
    BY <2>u, <2>f, <2>q, <2>r DEF Inv, MainWaits, ReplyPresent
  <2> QED BY <2>1, <2>2, <2>3, <2>4, <2>5, <2>6, <2>7, <2>8, <2>9, <2>10, <2>11 DEF Inv
<1> QED BY <1>1, <1>2

\* The invariant holds when kmain and the kmain_ap start.
LEMMA InitKeeps == Init => Inv
<1> SUFFICES ASSUME Init PROVE Inv
  OBVIOUS
<1> USE SchedulerAssumption DEF CPUs, Ids, None, Main, BSP
<1>p. \A i \in Ids : pc[i] = IF i = Main THEN "boot" ELSE IF i <= NCpus THEN "idle" ELSE "none"
  BY DEF Init
<1>s. \A i \in Ids : status[i] = IF i <= NCpus THEN "Running" ELSE "absent"
  BY DEF Init
<1>k. \A i \in Ids : cpu_id[i] = IF i <= NCpus THEN i - 1 ELSE None
  BY DEF Init
<1>r. /\ \A i \in Ids : ret_link[i] = None /\ inserted[i] = None
      /\ next_id = NCpus + 1 /\ reply = "none"
  BY DEF Init
<1>c. \A c \in CPUs : current[c] = c + 1 /\ on[c] = c + 1 /\ target[c] = c + 1 /\ phase[c] = "run"
  BY DEF Init
<1>1. TypeOK
  <2>1. status \in [Ids -> Statuses]
    BY DEF Init, Statuses
  <2>2. pc \in [Ids -> Pcs]
    BY DEF Init, Pcs
  <2>3. phase \in [CPUs -> Phases]
    BY DEF Init, Phases
  <2>4. cpu_id \in [Ids -> CPUs \cup {None}]
    BY DEF Init
  <2>5. kind \in [Ids -> {"kernel", "proxy", "user"}] /\ saved \in [Ids -> BOOLEAN]
    BY DEF Init
  <2>6. ret_link \in [Ids -> Ids \cup {None}] /\ inserted \in [Ids -> Ids \cup {None}]
    BY DEF Init
  <2>7. current \in [CPUs -> Ids] /\ on \in [CPUs -> Ids]
    BY DEF Init
  <2>8. target \in [CPUs -> Ids \cup {None}] /\ result \in [Ids -> BOOLEAN]
    BY DEF Init
  <2>9. /\ next_id \in NCpus + 1 .. MaxContexts + 1
        /\ lock \in CPUs \cup {None} /\ reply \in {"none", "due", "in"}
    BY DEF Init
  <2> QED BY <2>1, <2>2, <2>3, <2>4, <2>5, <2>6, <2>7, <2>8, <2>9 DEF TypeOK
<1>2. Fresh /\ Callees
  BY <1>p, <1>s, <1>k, <1>r DEF Fresh, Callees
<1>3. OwnerRuns
  BY <1>k, <1>c DEF OwnerRuns
<1>4. OnCurrent
  BY <1>p, <1>c DEF OnCurrent
<1>5. Chosen /\ Switching
  BY <1>c DEF Chosen, Switching, Switch
<1>6. Leaving
  BY <1>p, <1>c DEF Leaving
<1>7. Links /\ Calling /\ Called
  BY <1>p, <1>r DEF Links, Calling, Called
<1>8. ExitedStays /\ CallerParked /\ NewIsNew
  BY <1>p, <1>s DEF ExitedStays, CallerParked, NewIsNew
<1>9. Saved
  <2> SUFFICES ASSUME NEW i \in Ids, pc[i] \notin {"new", "exit", "none"}
               PROVE  \E c \in CPUs : on[c] = i
    BY DEF Saved
  <2>1. i <= NCpus
    BY <1>p
  <2>2. i - 1 \in CPUs /\ on[i - 1] = i
    BY <2>1, <1>c
  <2> QED BY <2>2
<1>10. MainWaits /\ ReplyPresent
  BY <1>p, <1>k, <1>r, <1>c DEF MainWaits, ReplyPresent, Waiting
<1> QED BY <1>1, <1>2, <1>3, <1>4, <1>5, <1>6, <1>7, <1>8, <1>9, <1>10 DEF Inv

\* Every way into exit.
LEMMA ExitKeeps ==
    ASSUME Inv, NEW c \in CPUs, Return(c) \/ Fault(c) \/ ProxyExit(c)
    PROVE  Inv'
<1>1. result[on[c]] \in BOOLEAN
  BY DEF Inv, TypeOK
<1>2. CASE Return(c)
  BY <1>2, ExitWithKeeps DEF Return, At
<1>3. CASE Fault(c)
  BY <1>1, <1>3, ExitWithKeeps DEF Fault, At
<1>4. CASE ProxyExit(c)
  BY <1>1, <1>4, ExitWithKeeps DEF ProxyExit, At
<1> QED BY <1>2, <1>3, <1>4

\* Every step keeps the invariant.
LEMMA StepKeeps == Inv /\ [Next]_vars => Inv'
<1> SUFFICES ASSUME Inv, [Next]_vars PROVE Inv'
  OBVIOUS
<1>1. ASSUME NEW c \in CPUs, Kernel(c) PROVE Inv'
  BY <1>1, CallSwitchKeeps, SwitchLockKeeps, SwitchPickKeeps, SwitchCommitKeeps,
     ArchSwitchKeeps, FuseSwitchKeeps, TakeResultKeeps, FuseReturnKeeps, ExitKeeps DEF Kernel
<1>2. ASSUME NEW c \in CPUs, Function(c) PROVE Inv'
  BY <1>2, CastStepKeeps, FuseKeeps, ProxyFailsKeeps, ExitKeeps DEF Function
<1>3. ASSUME NEW c \in CPUs, Preempt(c) \/ Resume(c) PROVE Inv'
  BY <1>3, PreemptKeeps, ResumeKeeps
<1>4. CASE Isr
  BY <1>4, IsrReplyKeeps, IsrCastKeeps DEF Isr
<1>5. CASE RpcFuse
  BY <1>5, RpcFuseKeeps
<1>6. CASE RpcTest
  BY <1>6, RpcTestKeeps
<1>7. CASE UNCHANGED vars
  <2>u. UNCHANGED <<status, cpu_id, ret_link, result, kind, pc, inserted, saved, next_id,
                    current, on, phase, target, lock, reply>>
    BY <1>7 DEF vars, ctxVars, cpuVars
  <2>1. TypeOK'
    BY <2>u DEF Inv, TypeOK
  <2>2. Fresh' /\ Callees'
    BY <2>u, SMTT(30) DEF Inv, Fresh, Callees
  <2>3. OwnerRuns' /\ OnCurrent'
    BY <2>u DEF Inv, OwnerRuns, OnCurrent, Switch
  <2>4. Chosen' /\ Switching'
    BY <2>u DEF Inv, Chosen, Switching, Switch
  <2>5. Leaving' /\ Links'
    BY <2>u, SMTT(30) DEF Inv, Leaving, Links
  <2>6. Calling' /\ Called'
    BY <2>u DEF Inv, Calling, Called
  <2>7. ExitedStays' /\ CallerParked'
    BY <2>u DEF Inv, ExitedStays, CallerParked
  <2>8. NewIsNew' /\ Saved'
    BY <2>u DEF Inv, NewIsNew, Saved
  <2>9. MainWaits' /\ ReplyPresent'
    BY <2>u DEF Inv, MainWaits, ReplyPresent, Waiting
  <2> QED BY <2>1, <2>2, <2>3, <2>4, <2>5, <2>6, <2>7, <2>8, <2>9 DEF Inv
<1> QED BY <1>1, <1>2, <1>3, <1>4, <1>5, <1>6, <1>7 DEF Next

\* Inv is an invariant of the scheduler, with any number of CPUs and contexts,
\* through every interleaving of switch, fuse_switch, fuse_return, exit, the
\* ticks and the RPC interrupt.
THEOREM SchedulerInvariant == Spec => []Inv
BY InitKeeps, StepKeeps, PTL DEF Spec

\* Every variable of the scheduler keeps its type.
THEOREM SchedulerTypes == Spec => []TypeOK
BY SchedulerInvariant, PTL DEF Inv

\* A CPU only ever executes, and only ever names in CONTEXT_ID, contexts that
\* switch or fuse_inner made its own.
THEOREM Owners == Spec => []OwnerRuns
BY SchedulerInvariant, PTL DEF Inv

\* No two CPUs execute on one kernel stack, although CONTEXT_SWITCH_LOCK is
\* released before arch::switch_* has left the old one.
THEOREM StacksExclusive == Spec => []StackExclusive
<1>1. Inv => StackExclusive
  BY SchedulerAssumption DEF Inv, OwnerRuns, StackExclusive, CPUs
<1> QED BY <1>1, SchedulerInvariant, PTL

\* What arch::switch_* loads has been saved by the switch that left it.
THEOREM ResumesOnlySaved == Spec => []ResumesSaved
<1>1. Inv => ResumesSaved
  <2> SUFFICES ASSUME Inv, NEW c \in CPUs, phase[c] \in Switch, pc[target[c]] # "new"
               PROVE  saved[target[c]]
    BY DEF ResumesSaved, Switch
  <2>1. /\ target[c] = current[c] /\ target[c] # on[c] /\ status[target[c]] = "Running"
        /\ target[c] \in Ids /\ cpu_id[target[c]] = c
    BY DEF Inv, Switching, TypeOK, OwnerRuns
  <2>2. \A d \in CPUs : on[d] # target[c]
    BY <2>1 DEF Inv, OwnerRuns
  <2>3. pc[target[c]] # "exit" /\ pc[target[c]] # "none"
    BY <2>1, SchedulerAssumption DEF Inv, ExitedStays, Fresh, TypeOK
  <2> QED BY <2>1, <2>2, <2>3 DEF Inv, Saved
<1> QED BY <1>1, SchedulerInvariant, PTL

\* A caller in fuse_switch is never Runnable: switch cannot resume it early.
THEOREM CallersParked == Spec => []CallerParked
BY SchedulerInvariant, PTL DEF Inv

\* A waiting caller and the callee that will return to it name each other.
THEOREM CallsReturn == Spec => []CallChain
<1>1. Inv => CallChain
  <2> SUFFICES ASSUME Inv PROVE CallChain
    OBVIOUS
  <2> USE SchedulerAssumption DEF Ids, None, CPUs
  <2>1. Live \subseteq Ids
    BY DEF Inv, TypeOK, Live
  <2>2. ASSUME NEW i \in Ids, NEW j \in Ids, ret_link[j] = i
        PROVE  pc[i] \in {"call", "fused"} /\ inserted[i] = j
    BY <2>2 DEF Inv, Links
  <2>3. ASSUME NEW i \in Ids, NEW j \in Ids, pc[i] = "fused", inserted[i] = j
        PROVE  \/ ret_link[j] = i
               \/ \E c \in CPUs : on[c] = j /\ target[c] = i /\ pc[j] = "exit"
    BY <2>3 DEF Inv, Called
  <2> QED BY <2>1, <2>2, <2>3 DEF CallChain
<1> QED BY <1>1, SchedulerInvariant, PTL

\* Exited is final, and only exit sets it.
THEOREM ExitIsFinal == Spec => []ExitedStays
BY SchedulerInvariant, PTL DEF Inv

\* When ivshrpc_fuse in kmain sees its status change, the result is there.
THEOREM ReplyIsPresent == Spec => []ReplyPresent
BY SchedulerInvariant, PTL DEF Inv
=============================================================================
