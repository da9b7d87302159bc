-------------------------- MODULE SchedulerCalls ----------------------------
\* Cast, fuse, return and exit keep the invariant of the scheduler.
EXTENDS SchedulerInv

\* Code of CPU c moves to p while a context of kind k is inserted, by itself
\* or by isr on top of it.
Casting(c, k, p) ==
    /\ Insert(k, "New", None, None)
    /\ pc' = [pc EXCEPT ![next_id] = "new", ![on[c]] = p]
    /\ UNCHANGED <<inserted, cpuVars, reply>>

\* cast_inner: nobody knows of the new context before update finds it.
LEMMA CastKeeps ==
    ASSUME Inv, NEW c \in CPUs, NEW p \in Pcs, NEW k \in {"proxy", "user"},
           phase[c] = "run", Casting(c, k, p),
           p # pc[on[c]] => /\ p \notin {"call", "fused", "exit", "new", "none", "boot"}
                            /\ pc[on[c]] \notin {"call", "fused", "exit", "new", "none", "boot"}
                            /\ p \in Waiting <=> pc[on[c]] \in Waiting
    PROVE  Inv'
<1> USE SchedulerAssumption DEF CPUs, Ids, None, Main, BSP
<1>t. TypeOK
  BY DEF Inv
<1>x. Ranged
  BY RangesHold
<1>u. UNCHANGED <<inserted, current, on, phase, target, lock, reply, result, saved>>
      /\ next_id' = next_id + 1
  BY DEF Casting, cpuVars, Insert
<1>n. /\ next_id \in Ids /\ status[next_id] = "absent" /\ pc[next_id] = "none"
      /\ cpu_id[next_id] = None /\ ret_link[next_id] = None
  BY <1>t DEF Inv, Fresh, Casting, Insert, TypeOK
<1>l. /\ on[c] \in Ids /\ on[c] # next_id
      /\ \A d \in CPUs : on[d] # next_id /\ current[d] # next_id
      /\ \A d \in CPUs : d # c => on[d] # on[c] /\ current[d] # on[c]
  BY <1>x, <1>n DEF Inv, OwnerRuns, OnCurrent, Switch, Ranged
<1>s. \A i \in Ids : status'[i] = IF i = next_id THEN "New" ELSE status[i]
  BY <1>t DEF Casting, Insert, TypeOK
<1>p. \A i \in Ids : pc'[i] = IF i = next_id THEN "new" ELSE IF i = on[c] THEN p ELSE pc[i]
  BY <1>t, <1>l DEF Casting, TypeOK
<1>k. cpu_id' = cpu_id /\ ret_link' = ret_link
  BY <1>t, <1>n DEF Casting, Insert, TypeOK
<1>1. TypeOK'
  <2>1. status' \in [Ids -> Statuses] /\ kind' \in [Ids -> {"kernel", "proxy", "user"}]
    BY <1>t DEF Casting, Insert, TypeOK, Statuses
  <2>2. pc' \in [Ids -> Pcs]
    <3>1. "new" \in Pcs
      BY DEF Pcs
    <3> QED BY <3>1, <1>t DEF Casting, TypeOK
  <2>3. next_id' \in NCpus + 1 .. MaxContexts + 1
    BY <1>t, <1>u DEF Casting, Insert, TypeOK
  <2> QED BY <2>1, <2>2, <2>3, <1>t, <1>u, <1>k, <1>s, <1>p, SMTT(30) DEF TypeOK
<1>2. Fresh' /\ Callees'
  <2>1. ASSUME NEW i \in Ids, i < next_id
        PROVE  status'[i] # "absent" /\ pc'[i] # "none"
    BY <2>1, <1>x, <1>k, <1>s, <1>p, <1>l DEF Inv, Fresh, OnCurrent, Switch, Ranged
  <2>2. ASSUME NEW i \in Ids, i > next_id
        PROVE  /\ status'[i] = "absent" /\ pc'[i] = "none"
               /\ cpu_id[i] = None /\ ret_link[i] = None
    <3>1. i # on[c] /\ ~(i < next_id) /\ i # next_id
      BY <2>2, <1>x DEF Inv, Fresh, OwnerRuns, Ranged
    <3> QED BY <3>1, <1>k, <1>s, <1>p DEF Inv, Fresh
  <2>3. status'[next_id] = "New" /\ pc'[next_id] = "new"
    BY <1>k, <1>s, <1>p, <1>n
  <2>4. Fresh'
    BY <2>1, <2>2, <2>3, <1>k, <1>s, <1>p, <1>u, <1>t, <1>n DEF Fresh, TypeOK
  <2>5. Callees'
    BY <1>x, <1>u DEF Inv, Callees, Ranged
  <2> QED BY <2>4, <2>5
<1>3. OwnerRuns'
  BY <1>u, <1>k, <1>s, <1>p DEF Inv, OwnerRuns
<1>4. OnCurrent'
  BY <1>x, <1>u, <1>k, <1>s, <1>p, <1>l DEF Inv, OnCurrent, Ranged
<1>5. Chosen'
  BY <1>t, <1>u, <1>k, <1>s, <1>p, <1>n DEF Inv, Chosen
<1>6. Switching'
  <2>1. ASSUME NEW d \in CPUs, phase[d] \in Switch
        PROVE  /\ status'[target[d]] = status[target[d]]
               /\ pc'[target[d]] = pc[target[d]] /\ pc'[on[d]] = pc[on[d]]
    <3>1. target[d] = current[d] /\ target[d] \in Ids /\ on[d] \in Ids /\ d # c
      BY <2>1, <1>x DEF Inv, Switching, Switch, Ranged
    <3> QED BY <3>1, <1>l, <1>k, <1>s, <1>p
  <2> QED BY <2>1, <1>u DEF Inv, Switching
<1>7. Leaving'
  <2>1. ASSUME NEW d \in CPUs, pc'[on[d]] = "exit" PROVE pc[on[d]] = "exit"
    BY <2>1, <1>k, <1>s, <1>p, <1>l, <1>t DEF TypeOK
  <2>2. ASSUME NEW i \in Ids, pc[i] = "fused" PROVE pc'[i] = "fused"
    BY <2>2, <1>k, <1>s, <1>p, <1>n
  <2>3. \A d \in CPUs : target[d] # None => target[d] \in Ids
    BY <1>t DEF TypeOK
  <2> QED BY <2>1, <2>2, <2>3, <1>u, <1>k, <1>s, <1>p DEF Inv, Leaving
<1>8. Links'
  <2> SUFFICES ASSUME NEW j \in Ids, ret_link[j] # None
               PROVE  /\ pc'[ret_link[j]] = pc[ret_link[j]]
                      /\ pc[j] # "exit" => pc'[j] # "exit"
    BY <1>u, <1>k, <1>s, <1>p DEF Inv, Links
  <2>1. ret_link[j] \in Ids /\ pc[ret_link[j]] \in {"call", "fused"}
    BY <1>x DEF Inv, Links, Ranged
  <2> QED BY <2>1, <1>k, <1>s, <1>p, <1>n
<1>9. Calling'
  <2> SUFFICES ASSUME NEW i \in Ids, pc'[i] = "call"
               PROVE  /\ pc[i] = "call" /\ pc'[inserted[i]] = pc[inserted[i]]
                      /\ status'[inserted[i]] = status[inserted[i]]
    BY <1>u, <1>k, <1>s, <1>p DEF Inv, Calling
  <2>1. pc[i] = "call"
    BY <1>k, <1>s, <1>p
  <2>2. inserted[i] \in Ids /\ pc[inserted[i]] = "new"
    BY <2>1, <1>x DEF Inv, Calling, Ranged
  <2> QED BY <2>1, <2>2, <1>k, <1>s, <1>p, <1>n
<1>10. Called'
  <2> SUFFICES ASSUME NEW i \in Ids, pc'[i] = "fused"
               PROVE  /\ pc[i] = "fused"
                      /\ pc[inserted[i]] = "exit" => pc'[inserted[i]] = "exit"
    BY <1>u, <1>k, <1>s, <1>p DEF Inv, Called
  <2>1. pc[i] = "fused"
    BY <1>k, <1>s, <1>p
  <2>2. inserted[i] \in Ids
    BY <2>1, <1>x DEF Inv, Called, Ranged
  <2> QED BY <2>1, <2>2, <1>k, <1>s, <1>p, <1>n
<1>11. ExitedStays' /\ CallerParked' /\ NewIsNew'
  <2>1. ExitedStays'
    BY <1>k, <1>s, <1>p, <1>n DEF Inv, ExitedStays
  <2>2. CallerParked' /\ NewIsNew'
    BY <1>k, <1>s, <1>p, <1>n DEF Inv, CallerParked, NewIsNew
  <2> QED BY <2>1, <2>2
<1>12. Saved'
  BY <1>u, <1>k, <1>s, <1>p, <1>n DEF Inv, Saved
<1>13. MainWaits' /\ ReplyPresent'
  <2>1. Main \in Ids /\ Main # next_id
    BY <1>t DEF TypeOK
  <2>2. \A i \in Ids : pc'[i] \in Waiting \cup {"boot"} => i = Main
    BY <1>k, <1>s, <1>p DEF Inv, MainWaits, Waiting
  <2>3. (pc'[Main] \in Waiting <=> pc[Main] \in Waiting) /\ status'[Main] = status[Main]
    BY <2>1, <1>k, <1>s, <1>p
  <2> QED BY <2>2, <2>3, <1>u, <1>k, <1>s, <1>p DEF Inv, MainWaits, ReplyPresent
<1> QED BY <1>1, <1>2, <1>3, <1>4, <1>5, <1>6, <1>7, <1>8, <1>9, <1>10, <1>11, <1>12, <1>13 DEF Inv

\* sys_cast, and the cast of kmain.
LEMMA CastStepKeeps ==
    ASSUME Inv, NEW c \in CPUs, Cast(c)
    PROVE  Inv'
<1> DEFINE p == IF pc[on[c]] = "main" THEN "main2" ELSE pc[on[c]]
<1>1. TypeOK /\ on[c] \in Ids /\ pc[on[c]] \in {"user", "main"} /\ phase[c] = "run"
  BY DEF Inv, TypeOK, Cast, At
<1>2. on[c] # next_id
  BY <1>1, SchedulerAssumption DEF Inv, Fresh, TypeOK
<1>3. Casting(c, "user", p)
  BY <1>1, <1>2 DEF Casting, Cast, TypeOK
<1>4. p \in Pcs
  BY <1>1 DEF Pcs, Interruptible
<1> QED BY <1>1, <1>3, <1>4, CastKeeps DEF Waiting

\* isr casts a function or fuse_proxy.
LEMMA IsrCastKeeps ==
    ASSUME Inv, NEW k \in {"user", "proxy"}, IsrCast(k)
    PROVE  Inv'
<1> DEFINE p == Woken(pc[on[BSP]])
<1>0. BSP \in CPUs
  BY SchedulerAssumption DEF BSP, CPUs
<1>1. TypeOK /\ on[BSP] \in Ids /\ pc[on[BSP]] \in Interruptible /\ phase[BSP] = "run"
  BY <1>0 DEF Inv, TypeOK, IsrCast, TakesInterrupt
<1>2. on[BSP] # next_id
  BY <1>1, SchedulerAssumption DEF Inv, Fresh, TypeOK, Interruptible
<1>3. Casting(BSP, k, p)
  BY <1>1, <1>2 DEF Casting, IsrCast, TypeOK
<1>4. /\ p \in Pcs
      /\ p # pc[on[BSP]] =>
            /\ p \notin {"call", "fused", "exit", "new", "none", "boot"}
            /\ pc[on[BSP]] \notin {"call", "fused", "exit", "new", "none", "boot"}
            /\ p \in Waiting <=> pc[on[BSP]] \in Waiting
  BY <1>1 DEF Pcs, Interruptible, Woken, Waiting
<1> QED BY <1>0, <1>1, <1>3, <1>4, CastKeeps

\* fuse_inner inserts a callee that is linked to its caller.
LEMMA FuseKeeps ==
    ASSUME Inv, NEW c \in CPUs, Fuse(c)
    PROVE  Inv'
<1> USE SchedulerAssumption DEF CPUs, Ids, None, Main, BSP
<1> DEFINE caller == on[c]
<1>t. TypeOK
  BY DEF Inv
<1>x. Ranged
  BY RangesHold
<1>u. UNCHANGED <<current, on, phase, target, lock, reply, result, saved>>
      /\ next_id' = next_id + 1
  BY DEF Fuse, Insert, cpuVars
<1>c. /\ phase[c] = "run" /\ caller \in Ids /\ cpu_id[caller] = c
      /\ pc[caller] \in {"user", "main2", "proxy"}
  BY <1>t DEF Inv, OwnerRuns, TypeOK, Fuse, At
<1>n. /\ next_id \in Ids /\ status[next_id] = "absent" /\ pc[next_id] = "none"
      /\ cpu_id[next_id] = None /\ ret_link[next_id] = None
  BY <1>t DEF Inv, Fresh, Fuse, Insert, TypeOK
<1>l. /\ caller # next_id
      /\ \A d \in CPUs : on[d] # next_id /\ current[d] # next_id
      /\ \A d \in CPUs : d # c => on[d] # caller /\ current[d] # caller
  BY <1>x, <1>c, <1>n DEF Inv, OwnerRuns, Ranged
<1>s. \A i \in Ids : status'[i] = IF i = next_id THEN "Blocked" ELSE status[i]
  BY <1>t DEF Fuse, Insert, TypeOK
<1>p. \A i \in Ids : pc'[i] = IF i = next_id THEN "new" ELSE IF i = caller THEN "call" ELSE pc[i]
  BY <1>t, <1>l DEF Fuse, TypeOK
<1>k. \A i \in Ids : cpu_id'[i] = IF i = next_id THEN c ELSE cpu_id[i]
  BY <1>t, <1>c DEF Fuse, Insert, TypeOK
<1>r. \A i \in Ids : ret_link'[i] = IF i = next_id THEN caller ELSE ret_link[i]
  BY <1>t DEF Fuse, Insert, TypeOK
<1>e. \A i \in Ids : inserted'[i] = IF i = caller THEN next_id ELSE inserted[i]
  BY <1>t DEF Fuse, TypeOK
<1>1. TypeOK'
  <2>1. status' \in [Ids -> Statuses] /\ kind' \in [Ids -> {"kernel", "proxy", "user"}]
    BY <1>t DEF Fuse, Insert, TypeOK, Statuses
  <2>2. pc' \in [Ids -> Pcs]
    <3>1. "new" \in Pcs /\ "call" \in Pcs
      BY DEF Pcs, Interruptible
    <3> QED BY <3>1, <1>t DEF Fuse, TypeOK
  <2>3. cpu_id' \in [Ids -> CPUs \cup {None}] /\ ret_link' \in [Ids -> Ids \cup {None}]
    BY <1>t, <1>c DEF Fuse, Insert, TypeOK
  <2>4. inserted' \in [Ids -> Ids \cup {None}]
    BY <1>t, <1>n DEF Fuse, TypeOK
  <2>5. next_id' \in NCpus + 1 .. MaxContexts + 1
    BY <1>t, <1>u DEF Fuse, Insert, TypeOK
  <2> QED BY <2>1, <2>2, <2>3, <2>4, <2>5, <1>t, <1>u, SMTT(30) DEF TypeOK
<1> HIDE DEF caller
<1>2. Fresh'
  <2>1. ASSUME NEW i \in Ids, i < next_id
        PROVE  status'[i] # "absent" /\ pc'[i] # "none"
    BY <2>1, <1>x, <1>s, <1>p DEF Inv, Fresh, Ranged
  <2>2. ASSUME NEW i \in Ids, i > next_id
        PROVE  /\ status'[i] = "absent" /\ pc'[i] = "none"
               /\ cpu_id'[i] = None /\ ret_link'[i] = None
    <3>1. i # caller /\ ~(i < next_id) /\ i # next_id
      BY <2>2, <1>x, <1>c DEF Inv, Fresh, Ranged
    <3> QED BY <3>1, <1>s, <1>p, <1>k, <1>r DEF Inv, Fresh
  <2>3. status'[next_id] = "Blocked" /\ pc'[next_id] = "new"
    BY <1>s, <1>p, <1>n
  <2> QED BY <2>1, <2>2, <2>3, <1>u, <1>t, <1>n, SMTT(30) DEF Fresh, TypeOK
<1>3. Callees'
  <2> SUFFICES ASSUME NEW i \in Ids, inserted'[i] # None
               PROVE  inserted'[i] \in NCpus + 1 .. next_id
    BY <1>t, <1>u DEF Callees, TypeOK
  <2>1. CASE i = caller
    BY <2>1, <1>t, <1>e, SMTT(40) DEF TypeOK
  <2>2. CASE i # caller
    BY <2>2, <1>x, <1>e DEF Inv, Callees, Ranged
  <2> QED BY <2>1, <2>2
<1>4. OwnerRuns'
  BY <1>x, <1>u, <1>k, <1>l DEF Inv, OwnerRuns, Ranged
<1>5. OnCurrent'
  <2> SUFFICES ASSUME NEW d \in CPUs, phase[d] \notin Switch
               PROVE  on[d] = current[d] /\ pc'[on[d]] \notin {"fused", "new", "none"}
    BY <1>u DEF OnCurrent
  <2>1. on[d] \in Ids
    BY <1>t DEF TypeOK
  <2> QED BY <2>1, <1>p, <1>l DEF Inv, OnCurrent
<1>6. Chosen'
  <2> SUFFICES ASSUME NEW d \in CPUs, phase[d] = "commit"
               PROVE  /\ cpu_id'[target[d]] = cpu_id[target[d]]
                      /\ status'[target[d]] = status[target[d]]
    BY <1>u DEF Inv, Chosen
  <2>1. target[d] \in Ids /\ status[target[d]] \in {"Runnable", "New"}
    BY DEF Inv, Chosen
  <2> QED BY <2>1, <1>s, <1>k, <1>n
<1>7. Switching'
  <2>1. ASSUME NEW d \in CPUs, phase[d] \in Switch
        PROVE  /\ status'[target[d]] = status[target[d]]
               /\ pc'[target[d]] = pc[target[d]] /\ pc'[on[d]] = pc[on[d]]
               /\ inserted'[target[d]] = inserted[target[d]]
    <3>1. target[d] = current[d] /\ target[d] \in Ids /\ on[d] \in Ids /\ d # c
      BY <2>1, <1>x, <1>c DEF Inv, Switching, Switch, Ranged
    <3> QED BY <3>1, <1>l, <1>s, <1>p, <1>e
  <2> QED BY <2>1, <1>u DEF Inv, Switching
<1>8. Leaving'
  <2>1. ASSUME NEW d \in CPUs, pc'[on[d]] = "exit" PROVE pc[on[d]] = "exit"
    BY <2>1, <1>p, <1>l, <1>t DEF TypeOK
  <2>2. ASSUME NEW i \in Ids, pc[i] = "fused"
        PROVE  pc'[i] = "fused" /\ inserted'[i] = inserted[i] /\ cpu_id'[i] = cpu_id[i]
    BY <2>2, <1>p, <1>e, <1>k, <1>n, <1>c
  <2>3. \A d \in CPUs : target[d] # None => target[d] \in Ids
    BY <1>t DEF TypeOK
  <2> QED BY <2>1, <2>2, <2>3, <1>u DEF Inv, Leaving
<1>9. Links'
  <2>1. ASSUME NEW j \in Ids, j # next_id, ret_link[j] # None
        PROVE  /\ pc'[ret_link[j]] = pc[ret_link[j]]
               /\ inserted'[ret_link[j]] = inserted[ret_link[j]]
               /\ cpu_id'[ret_link[j]] = cpu_id[ret_link[j]]
               /\ pc[j] # "exit" => pc'[j] # "exit"
    <3>1. ret_link[j] \in Ids /\ pc[ret_link[j]] \in {"call", "fused"}
      BY <2>1, <1>x DEF Inv, Links, Ranged
    <3> QED BY <2>1, <3>1, <1>p, <1>e, <1>k, <1>n, <1>c
  <2>2. /\ pc'[caller] = "call" /\ inserted'[caller] = next_id
        /\ cpu_id'[caller] = c /\ cpu_id'[next_id] = c /\ pc'[next_id] = "new"
    BY <1>p, <1>e, <1>k, <1>n, <1>c, <1>l
  <2>3. ASSUME NEW j \in Ids, ret_link'[j] # None
        PROVE  /\ pc'[ret_link'[j]] \in {"call", "fused"} /\ inserted'[ret_link'[j]] = j
               /\ cpu_id'[ret_link'[j]] = cpu_id'[j] /\ cpu_id'[j] # None
               /\ pc'[j] # "exit"
    <3>1. CASE j = next_id
      BY <3>1, <2>2, <1>r
    <3>2. CASE j # next_id
      <4>1. ret_link'[j] = ret_link[j] /\ cpu_id'[j] = cpu_id[j]
        BY <3>2, <1>r, <1>k
      <4> QED BY <2>3, <3>2, <4>1, <2>1 DEF Inv, Links
    <3> QED BY <3>1, <3>2
  <2> QED BY <2>3 DEF Links
<1>10. Calling'
  <2>1. ASSUME NEW i \in Ids, i # caller, pc'[i] = "call"
        PROVE  /\ inserted'[i] # None /\ ret_link'[inserted'[i]] = i
               /\ pc'[inserted'[i]] = "new" /\ status'[inserted'[i]] = "Blocked"
    <3>1. pc[i] = "call" /\ inserted'[i] = inserted[i]
      BY <2>1, <1>p, <1>e
    <3>2. /\ inserted[i] \in Ids /\ pc[inserted[i]] = "new" /\ ret_link[inserted[i]] = i
          /\ status[inserted[i]] = "Blocked"
      BY <3>1, <1>x DEF Inv, Calling, Ranged
    <3> QED BY <3>1, <3>2, <1>p, <1>r, <1>s, <1>n, <1>c
  <2>2. /\ inserted'[caller] = next_id /\ ret_link'[next_id] = caller
        /\ pc'[next_id] = "new" /\ status'[next_id] = "Blocked"
    BY <1>e, <1>r, <1>p, <1>s, <1>n, <1>c
  <2> QED BY <2>1, <2>2, <1>n DEF Calling
<1>11. Called'
  <2>1. ASSUME NEW i \in Ids, pc'[i] = "fused"
        PROVE  /\ pc[i] = "fused" /\ inserted'[i] = inserted[i]
               /\ ret_link'[inserted[i]] = ret_link[inserted[i]]
               /\ pc[inserted[i]] = "exit" => pc'[inserted[i]] = "exit"
    <3>1. pc[i] = "fused" /\ inserted'[i] = inserted[i]
      BY <2>1, <1>p, <1>e
    <3>2. inserted[i] \in Ids /\ inserted[i] # next_id
      BY <3>1, <1>x DEF Inv, Called, Callees, Ranged
    <3> QED BY <3>1, <3>2, <1>p, <1>r, <1>c
  <2> QED BY <2>1, <1>u DEF Inv, Called
<1>12. ExitedStays' /\ CallerParked' /\ NewIsNew'
  <2>1. ExitedStays'
    BY <1>s, <1>p, <1>n, <1>c DEF Inv, ExitedStays
  <2>2. CallerParked'
    BY <1>s, <1>p, <1>n DEF Inv, CallerParked
  <2>3. NewIsNew'
    BY <1>s, <1>p, <1>n, <1>c DEF Inv, NewIsNew
  <2> QED BY <2>1, <2>2, <2>3
<1>13. Saved'
  BY <1>u, <1>p, <1>n, <1>c DEF Inv, Saved, caller
<1>14. MainWaits' /\ ReplyPresent'
  <2>1. Main \in Ids /\ Main # next_id
    BY <1>t DEF TypeOK
  <2>2. \A i \in Ids : pc'[i] \in Waiting \cup {"boot"} => i = Main
    BY <1>p DEF Inv, MainWaits, Waiting
  <2>3. pc'[Main] \in Waiting <=> pc[Main] \in Waiting
    BY <2>1, <1>p, <1>c DEF Waiting
  <2>4. status'[Main] = status[Main] /\ cpu_id'[Main] = cpu_id[Main]
    BY <2>1, <1>s, <1>k
  <2> QED BY <2>2, <2>3, <2>4, <1>u DEF Inv, MainWaits, ReplyPresent
<1> QED BY <1>1, <1>2, <1>3, <1>4, <1>5, <1>6, <1>7, <1>8, <1>9, <1>10, <1>11, <1>12, <1>13, <1>14 DEF Inv

\* fuse_switch leaves the caller and enters the callee.
LEMMA FuseSwitchKeeps ==
    ASSUME Inv, NEW c \in CPUs, FuseSwitch(c)
    PROVE  Inv'
<1> USE SchedulerAssumption DEF CPUs, Ids, None, Main, BSP
<1> DEFINE from == on[c]
           to == inserted[on[c]]
<1>t. TypeOK
  BY DEF Inv
<1>x. Ranged
  BY RangesHold
<1>u. UNCHANGED <<cpu_id, ret_link, result, kind, inserted, saved, next_id, on, lock, reply>>
  BY DEF FuseSwitch
<1>c. /\ phase[c] = "run" /\ from \in Ids /\ from = current[c] /\ pc[from] = "call"
      /\ to \in Ids /\ pc[to] = "new" /\ status[to] = "Blocked" /\ ret_link[to] = from
      /\ cpu_id[from] = c /\ cpu_id[to] = c /\ to # from /\ inserted[from] = to
  <2>1. phase[c] = "run" /\ from \in Ids /\ pc[from] = "call" /\ cpu_id[from] = c
    BY <1>t DEF Inv, OwnerRuns, TypeOK, FuseSwitch, At
  <2>2. from = current[c]
    BY <2>1 DEF Inv, OnCurrent, Switch
  <2>3. /\ to \in Ids /\ pc[to] = "new" /\ status[to] = "Blocked" /\ ret_link[to] = from
    BY <1>x, <2>1 DEF Inv, Calling, Ranged
  <2>4. cpu_id[to] = c
    BY <2>1, <2>3 DEF Inv, Links
  <2> QED BY <2>1, <2>2, <2>3, <2>4
<1>s. \A i \in Ids : status'[i] = IF i = to THEN "Running"
                                  ELSE IF i = from /\ status[i] = "Runnable" THEN "Blocked"
                                  ELSE status[i]
  BY <1>t, <1>c DEF FuseSwitch, TypeOK
<1>p. \A i \in Ids : pc'[i] = IF i = from THEN "fused" ELSE pc[i]
  BY <1>t DEF FuseSwitch, TypeOK
<1>k. \A d \in CPUs : current'[d] = IF d = c THEN to ELSE current[d]
  BY <1>t DEF FuseSwitch, TypeOK
<1>g. \A d \in CPUs : target'[d] = IF d = c THEN to ELSE target[d]
  BY <1>t DEF FuseSwitch, TypeOK
<1>f. \A d \in CPUs : phase'[d] = IF d = c THEN "arch" ELSE phase[d]
  BY <1>t DEF FuseSwitch, TypeOK
<1>o. \A d \in CPUs : d # c => /\ on[d] \in Ids /\ on[d] # to /\ on[d] # from
                               /\ current[d] # to /\ current[d] # from
  BY <1>x, <1>c DEF Inv, OwnerRuns, Ranged
<1>1. TypeOK'
  <2>1. status' \in [Ids -> Statuses]
    BY <1>t, <1>c DEF FuseSwitch, TypeOK, Statuses
  <2>2. pc' \in [Ids -> Pcs] /\ phase' \in [CPUs -> Phases]
    BY <1>t DEF FuseSwitch, TypeOK, Phases, Pcs
  <2>3. current' \in [CPUs -> Ids] /\ target' \in [CPUs -> Ids \cup {None}]
    BY <1>t, <1>c DEF FuseSwitch, TypeOK
  <2> QED BY <2>1, <2>2, <2>3, <1>t, <1>u, SMTT(30) DEF TypeOK
<1>v. from = on[c]
  OBVIOUS
<1> HIDE DEF from, to
<1>2. Fresh' /\ Callees'
  <2>1. to < next_id /\ from < next_id
    BY <1>x, <1>c DEF Inv, Fresh, Ranged
  <2>2. Fresh'
    BY <2>1, <1>x, <1>u, <1>s, <1>p DEF Inv, Fresh, Ranged
  <2> QED BY <2>2, <1>u DEF Inv, Callees
<1>3. OwnerRuns'
  BY <1>u, <1>k, <1>c DEF Inv, OwnerRuns
<1>4. OnCurrent'
  BY <1>u, <1>k, <1>f, <1>p, <1>o DEF Inv, OnCurrent, Switch
<1>5. Chosen'
  <2> SUFFICES ASSUME NEW d \in CPUs, d # c, phase[d] = "commit"
               PROVE  status'[target[d]] = status[target[d]]
    BY <1>u, <1>f, <1>g DEF Inv, Chosen
  <2>1. target[d] \in Ids /\ cpu_id[target[d]] = d
    BY DEF Inv, Chosen
  <2> QED BY <2>1, <1>s, <1>c
<1>6. Switching'
  <2>1. ASSUME NEW d \in CPUs, d # c, phase[d] \in Switch
        PROVE  /\ status'[target[d]] = status[target[d]]
               /\ pc'[target[d]] = pc[target[d]] /\ pc'[on[d]] = pc[on[d]]
    <3>1. target[d] \in Ids /\ target[d] # to /\ target[d] # from
      BY <2>1, <1>x, <1>o DEF Inv, Switching, Ranged
    <3> QED BY <3>1, <2>1, <1>s, <1>p, <1>o
  <2>2. status'[to] = "Running" /\ pc'[to] = "new" /\ to # on[c]
    BY <1>c, <1>s, <1>p, <1>v
  <2> QED BY <2>1, <2>2, <1>u, <1>k, <1>f, <1>g, SMTT(40) DEF Inv, Switching, Switch
<1>7. Leaving'
  <2> SUFFICES ASSUME NEW d \in CPUs, d # c, pc[on[d]] = "exit",
                      phase[d] = "run", target[d] # None
               PROVE  pc'[target[d]] = pc[target[d]]
    BY <1>u, <1>f, <1>g, <1>p, <1>o, <1>v, <1>c DEF Inv, Leaving
  <2>1. target[d] \in Ids /\ target[d] # from
    BY <1>x, <1>c DEF Inv, Leaving, Ranged
  <2> QED BY <2>1, <1>p
<1>8. Links'
  <2> SUFFICES ASSUME NEW j \in Ids, ret_link[j] # None
               PROVE  pc'[ret_link[j]] \in {"call", "fused"} /\ pc'[j] # "exit"
    BY <1>u DEF Inv, Links
  <2>1. /\ ret_link[j] \in Ids /\ pc[ret_link[j]] \in {"call", "fused"} /\ pc[j] # "exit"
    BY <1>x DEF Inv, Links, Ranged
  <2> QED BY <2>1, <1>p
<1>9. Calling'
  <2> SUFFICES ASSUME NEW i \in Ids, pc'[i] = "call"
               PROVE  /\ pc[i] = "call" /\ pc'[inserted[i]] = pc[inserted[i]]
                      /\ status'[inserted[i]] = status[inserted[i]]
    BY <1>u DEF Inv, Calling
  <2>1. pc[i] = "call" /\ i # from
    BY <1>p, <1>c
  <2>2. inserted[i] \in Ids /\ pc[inserted[i]] = "new" /\ ret_link[inserted[i]] = i
    BY <2>1, <1>x DEF Inv, Calling, Ranged
  <2>3. inserted[i] # to /\ inserted[i] # from
    BY <2>1, <2>2, <1>c
  <2> QED BY <2>1, <2>2, <2>3, <1>p, <1>s
<1>10. Called'
  <2>1. inserted[from] # None /\ ret_link[inserted[from]] = from
    BY <1>c
  <2>2. ASSUME NEW i \in Ids, i # from, pc[i] = "fused",
               NEW d \in CPUs, on[d] = inserted[i], target[d] = i, pc[inserted[i]] = "exit"
        PROVE  d # c /\ target'[d] = i /\ pc'[inserted[i]] = "exit"
    <3>1. d # c
      BY <2>2, <1>v, <1>c
    <3> QED BY <3>1, <2>2, <1>g, <1>p, <1>o
  <2>3. ASSUME NEW i \in Ids, i # from, pc'[i] = "fused"
        PROVE  /\ inserted[i] # None
               /\ \/ ret_link[inserted[i]] = i
                  \/ \E d \in CPUs : on[d] = inserted[i] /\ target'[d] = i /\ pc'[inserted[i]] = "exit"
    <3>1. pc[i] = "fused"
      BY <2>3, <1>p
    <3>2. inserted[i] # None
      BY <3>1 DEF Inv, Called
    <3>3. CASE ret_link[inserted[i]] = i
      BY <3>2, <3>3
    <3>4. CASE ret_link[inserted[i]] # i
      <4>1. PICK d \in CPUs : on[d] = inserted[i] /\ target[d] = i /\ pc[inserted[i]] = "exit"
        BY <3>1, <3>4 DEF Inv, Called
      <4>2. target'[d] = i /\ pc'[inserted[i]] = "exit"
        BY <4>1, <3>1, <2>2, <2>3
      <4> QED BY <3>2, <4>1, <4>2
    <3> QED BY <3>3, <3>4
  <2> QED BY <2>1, <2>3, <1>u DEF Called
<1>11. ExitedStays'
  BY <1>s, <1>p, <1>c DEF Inv, ExitedStays
<1>12. CallerParked'
  <2>1. status[from] \in {"Running", "Blocked", "Runnable"}
    <3>1. status[from] \in Statuses
      BY <1>t, <1>c DEF TypeOK
    <3>2. status[from] # "absent" /\ status[from] # "New" /\ status[from] # "Exited"
      BY <1>x, <1>c DEF Inv, Fresh, NewIsNew, ExitedStays, Ranged
    <3> QED BY <3>1, <3>2 DEF Statuses
  <2> QED BY <2>1, <1>s, <1>p, <1>c DEF Inv, CallerParked
<1>13. NewIsNew'
  BY <1>s, <1>p, <1>c DEF Inv, NewIsNew
<1>14. Saved'
  BY <1>u, <1>p, <1>c, <1>v DEF Inv, Saved
<1>15. MainWaits' /\ ReplyPresent'
  <2>1. \A i \in Ids : pc'[i] \in Waiting \cup {"boot"} => i = Main
    BY <1>p DEF Inv, MainWaits, Waiting
  <2>2. pc'[Main] \in Waiting <=> pc[Main] \in Waiting
    BY <1>p, <1>c DEF Waiting
  <2>3. pc[Main] \in Waiting => status'[Main] = status[Main]
    BY <1>s, <1>c DEF Waiting
  <2> QED BY <2>1, <2>2, <2>3, <1>u, <1>f DEF Inv, MainWaits, ReplyPresent
<1> QED BY <1>1, <1>2, <1>3, <1>4, <1>5, <1>6, <1>7, <1>8, <1>9, <1>10, <1>11, <1>12, <1>13, <1>14, <1>15 DEF Inv

\* fuse_return leaves the callee for ever and marks its caller Running.
LEMMA FuseReturnKeeps ==
    ASSUME Inv, NEW c \in CPUs, FuseReturn(c)
    PROVE  Inv'
<1> USE SchedulerAssumption DEF CPUs, Ids, None, Main, BSP
<1> DEFINE to == target[c]
<1>t. TypeOK
  BY DEF Inv
<1>x. Ranged
  BY RangesHold
<1>u. UNCHANGED <<cpu_id, ret_link, result, kind, pc, inserted, saved, next_id,
                   on, target, lock, reply>>
  BY SMTT(30) DEF FuseReturn
<1>c. /\ phase[c] = "run" /\ pc[on[c]] = "exit" /\ on[c] \in Ids
      /\ to \in Ids /\ cpu_id[to] = c /\ pc[to] = "fused" /\ inserted[to] = on[c]
  BY <1>t DEF Inv, Leaving, TypeOK, FuseReturn, At
<1>s. \A i \in Ids : status'[i] = IF i = to THEN "Running" ELSE status[i]
  BY <1>t, <1>c DEF FuseReturn, TypeOK
<1>k. \A d \in CPUs : current'[d] = IF d = c THEN to ELSE current[d]
  BY <1>t DEF FuseReturn, TypeOK
<1>f. \A d \in CPUs : phase'[d] = IF d = c THEN "discard" ELSE phase[d]
  BY <1>t DEF FuseReturn, TypeOK
<1>1. TypeOK'
  <2>1. status' \in [Ids -> Statuses] /\ current' \in [CPUs -> Ids]
    BY <1>t, <1>c DEF FuseReturn, TypeOK, Statuses
  <2>2. phase' \in [CPUs -> Phases]
    BY <1>t DEF FuseReturn, TypeOK, Phases
  <2> QED BY <2>1, <2>2, <1>t, <1>u DEF TypeOK
<1>v. to = target[c]
  OBVIOUS
<1> HIDE DEF to
<1>2. Fresh' /\ Callees'
  <2>1. to < next_id
    BY <1>x, <1>c DEF Inv, Fresh, Ranged
  <2>2. Fresh'
    BY <2>1, <1>x, <1>u, <1>s DEF Inv, Fresh, Ranged
  <2> QED BY <2>2, <1>u DEF Inv, Callees
<1>3. OwnerRuns'
  BY <1>u, <1>k, <1>c DEF Inv, OwnerRuns
<1>4. OnCurrent'
  BY <1>u, <1>k, <1>f DEF Inv, OnCurrent, Switch
<1>5. Chosen'
  <2> SUFFICES ASSUME NEW d \in CPUs, d # c, phase[d] = "commit"
               PROVE  status'[target[d]] = status[target[d]]
    BY <1>u, <1>f DEF Inv, Chosen
  <2>1. target[d] \in Ids /\ cpu_id[target[d]] = d
    BY DEF Inv, Chosen
  <2> QED BY <2>1, <1>s, <1>c
<1>6. Switching'
  <2>1. ASSUME NEW d \in CPUs, d # c, phase[d] \in Switch
        PROVE  status'[target[d]] = "Running"
    <3>1. target[d] \in Ids /\ status[target[d]] = "Running"
      BY <2>1, <1>x DEF Inv, Switching, Ranged
    <3> QED BY <3>1, <1>s
  <2>2. status'[to] = "Running" /\ to # on[c]
    BY <1>c, <1>s
  <2> QED BY <2>1, <2>2, <1>c, <1>v, <1>u, <1>k, <1>f, SMTT(40) DEF Inv, Switching, Switch
<1>7. Leaving'
  BY <1>u, <1>f DEF Inv, Leaving
<1>8. Links' /\ Called'
  BY <1>u DEF Inv, Links, Called
<1>9. Calling'
  <2> SUFFICES ASSUME NEW i \in Ids, pc[i] = "call"
               PROVE  status'[inserted[i]] = "Blocked"
    BY <1>u DEF Inv, Calling
  <2>1. /\ inserted[i] \in Ids /\ status[inserted[i]] = "Blocked"
        /\ pc[inserted[i]] = "new"
    BY <1>x DEF Inv, Calling, Ranged
  <2> QED BY <2>1, <1>s, <1>c
<1>10. ExitedStays' /\ CallerParked' /\ NewIsNew'
  BY <1>s, <1>c, <1>u DEF Inv, ExitedStays, CallerParked, NewIsNew
<1>11. Saved'
  BY <1>u DEF Inv, Saved
<1>12. MainWaits' /\ ReplyPresent'
  <2>1. pc[Main] \in Waiting => status'[Main] = status[Main]
    BY <1>s, <1>c DEF Waiting
  <2> QED BY <2>1, <1>u, <1>f DEF Inv, MainWaits, ReplyPresent
<1> QED BY <1>1, <1>2, <1>3, <1>4, <1>5, <1>6, <1>7, <1>8, <1>9, <1>10, <1>11, <1>12 DEF Inv

\* fuse_inner takes the result of its callee, or panics.
LEMMA TakeResultKeeps ==
    ASSUME Inv, NEW c \in CPUs, TakeResult(c)
    PROVE  Inv'
<1> USE SchedulerAssumption DEF CPUs, Ids, None, Main, BSP
<1> DEFINE i == on[c]
           callee == inserted[on[c]]
           p == AfterFuse(kind[on[c]])
<1>t. TypeOK
  BY DEF Inv
<1>x. Ranged
  BY RangesHold
<1>c. phase[c] = "run" /\ i \in Ids /\ pc[i] = "got" /\ pc[i] \in Pcs
  BY <1>t DEF TypeOK, TakeResult, At
<1>1. CASE ~result[callee]
  <2>0. UNCHANGED <<status, cpu_id, ret_link, result, kind, pc, inserted, saved, next_id,
                    current, on, target, lock, reply>>
        /\ phase' = [phase EXCEPT ![c] = "noresult"]
    BY <1>1 DEF TakeResult
  <2>a. pc' = [pc EXCEPT ![on[c]] = pc[on[c]]]
    BY <2>0, <1>t, StayIsQuiet
  <2>1. Quiet(c, pc[i], "noresult") /\ Kept /\ kind' = kind /\ lock' = lock
    BY <2>0, <2>a, StillKept DEF Quiet
  <2>2. "noresult" \in Phases \ {"empty"} /\ "noresult" \notin Switch \cup {"commit"}
    BY DEF Phases, Panics, Switch
  <2>3. lock' \in CPUs \cup {None}
    BY <2>1, <1>t DEF TypeOK
  <2>4. phase[c] \notin Switch \cup {"commit"}
    BY <1>c DEF Switch
  <2> QED BY <1>c, <2>1, <2>2, <2>3, <2>4, QuietKeeps, SMTT(30)
<1>2. CASE result[callee]
  <2>u. UNCHANGED <<status, cpu_id, ret_link, kind, saved, next_id, current, on, phase,
                    target, lock, reply>>
    BY <1>2 DEF TakeResult
  <2>p. \A j \in Ids : pc'[j] = IF j = i THEN p ELSE pc[j]
    BY <1>2, <1>t, SMTT(40) DEF TakeResult, TypeOK
  <2>e. \A j \in Ids : inserted'[j] = IF j = i THEN None ELSE inserted[j]
    BY <1>2, <1>t, SMTT(40) DEF TakeResult, TypeOK
  <2>r. callee # Main => result'[Main] = result[Main]
    BY <1>2, <1>t DEF TakeResult, TypeOK
  <2>a. p \in {"idle", "reply", "user"}
    BY DEF AfterFuse
  <2>m. callee # Main
    <3>1. inserted[i] # None => inserted[i] \in NCpus + 1 .. next_id - 1
      BY <1>c DEF Inv, Callees
    <3>2. next_id \in Int
      BY <1>t DEF TypeOK
    <3> QED BY <3>1, <3>2
  <2>o. \A d \in CPUs : on[d] \in Ids /\ (on[d] = i => d = c)
    BY <1>x DEF Inv, OwnerRuns, Ranged
  <2>1. TypeOK'
    <3>1. pc' \in [Ids -> Pcs]
      BY <1>2, <1>t, <2>a DEF TakeResult, TypeOK, Pcs, Interruptible
    <3>2. result' \in [Ids -> BOOLEAN]
      BY <1>2, <1>t DEF TakeResult, TypeOK
    <3>3. inserted' \in [Ids -> Ids \cup {None}]
      BY <1>2, <1>t DEF TakeResult, TypeOK
    <3> QED BY <3>1, <3>2, <3>3, <1>t, <2>u DEF TypeOK
  <2>v. i = on[c]
    OBVIOUS
  <2> HIDE DEF i, callee, p
  <2>2. Fresh' /\ Callees'
    BY <1>x, <1>c, <2>u, <2>p, <2>e, <2>a, SMTT(40) DEF Inv, Fresh, Callees, Ranged
  <2>3. OwnerRuns'
    BY <2>u DEF Inv, OwnerRuns
  <2>4. OnCurrent'
    BY <2>u, <2>p, <2>a, <2>o DEF Inv, OnCurrent
  <2>5. Chosen'
    BY <2>u, SMTT(30) DEF Inv, Chosen
  <2>6. Switching'
    <3>i. Switching
      BY DEF Inv
    <3> SUFFICES ASSUME NEW d \in CPUs, phase[d] \in Switch
                 PROVE  /\ pc'[target[d]] = pc[target[d]] /\ pc'[on[d]] = pc[on[d]]
                        /\ inserted'[target[d]] = inserted[target[d]]
      BY <3>i, <2>u DEF Switching
    <3>1. d # c
      BY <1>c DEF Switch
    <3>2. target[d] \in Ids /\ target[d] = current[d] /\ target[d] # i
      BY <3>1, <1>x, <2>v DEF Inv, Switching, OwnerRuns, Ranged
    <3> QED BY <3>1, <3>2, <2>p, <2>e, <2>o
  <2>7. Leaving'
    <3> SUFFICES ASSUME NEW d \in CPUs, pc'[on[d]] = "exit"
                 PROVE  /\ pc[on[d]] = "exit"
                        /\ phase[d] = "run" /\ target[d] # None =>
                              /\ pc'[target[d]] = pc[target[d]]
                              /\ inserted'[target[d]] = inserted[target[d]]
      BY <2>u DEF Inv, Leaving
    <3>1. pc[on[d]] = "exit"
      BY <2>p, <2>a, <2>o
    <3>2. phase[d] = "run" /\ target[d] # None => target[d] \in Ids /\ target[d] # i
      BY <3>1, <1>x, <1>c DEF Inv, Leaving, Ranged
    <3> QED BY <3>1, <3>2, <2>p, <2>e
  <2>8. Links'
    <3> SUFFICES ASSUME NEW j \in Ids, ret_link[j] # None
                 PROVE  /\ pc'[ret_link[j]] = pc[ret_link[j]] /\ pc'[j] # "exit"
                        /\ inserted'[ret_link[j]] = inserted[ret_link[j]]
      BY <2>u DEF Inv, Links
    <3>1. /\ ret_link[j] \in Ids /\ pc[ret_link[j]] \in {"call", "fused"} /\ pc[j] # "exit"
      BY <1>x DEF Inv, Links, Ranged
    <3> QED BY <3>1, <1>c, <2>p, <2>e, <2>a
  <2>9. Calling'
    <3> SUFFICES ASSUME NEW j \in Ids, pc'[j] = "call"
                 PROVE  /\ pc[j] = "call" /\ inserted'[j] = inserted[j]
                        /\ pc'[inserted[j]] = pc[inserted[j]]
      BY <2>u DEF Inv, Calling
    <3>1. pc[j] = "call" /\ j # i
      BY <2>p, <2>a
    <3>2. inserted[j] \in Ids /\ pc[inserted[j]] = "new"
      BY <3>1, <1>x DEF Inv, Calling, Ranged
    <3> QED BY <3>1, <3>2, <1>c, <2>p, <2>e
  <2>10. Called'
    <3> SUFFICES ASSUME NEW j \in Ids, pc'[j] = "fused"
                 PROVE  /\ pc[j] = "fused" /\ inserted'[j] = inserted[j]
                        /\ pc[inserted[j]] = "exit" => pc'[inserted[j]] = "exit"
      BY <2>u DEF Inv, Called
    <3>1. pc[j] = "fused" /\ j # i
      BY <2>p, <2>a
    <3>2. inserted[j] \in Ids
      BY <3>1, <1>x DEF Inv, Called, Ranged
    <3> QED BY <3>1, <3>2, <1>c, <2>p, <2>e
  <2>11. ExitedStays' /\ CallerParked' /\ NewIsNew'
    BY <2>u, <2>p, <2>a, <1>c DEF Inv, ExitedStays, CallerParked, NewIsNew
  <2>12. Saved'
    BY <2>u, <2>p, <2>v DEF Inv, Saved
  <2>13. MainWaits' /\ ReplyPresent'
    <3>1. \A j \in Ids : pc'[j] \in Waiting \cup {"boot"} => j = Main
      BY <2>p, <2>a DEF Inv, MainWaits, Waiting
    <3>2. pc'[Main] \in Waiting <=> pc[Main] \in Waiting
      BY <2>p, <2>a, <1>c DEF Waiting
    <3> QED BY <3>1, <3>2, <2>r, <2>m, <2>u DEF Inv, MainWaits, ReplyPresent
  <2> QED BY <2>1, <2>2, <2>3, <2>4, <2>5, <2>6, <2>7, <2>8, <2>9, <2>10, <2>11, <2>12, <2>13 DEF Inv
<1> QED BY <1>1, <1>2

\* exit marks the context and takes its link to the caller.
LEMMA ExitWithKeeps ==
    ASSUME Inv, NEW c \in CPUs, NEW res \in BOOLEAN, phase[c] = "run",
           pc[on[c]] \in {"user", "reply"}, ExitWith(c, res)
    PROVE  Inv'
<1> USE SchedulerAssumption DEF CPUs, Ids, None, Main, BSP
<1> DEFINE i == on[c]
           link == ret_link[on[c]]
<1>t. TypeOK
  BY DEF Inv
<1>x. Ranged
  BY RangesHold
<1>u. UNCHANGED <<cpu_id, kind, inserted, saved, next_id, current, on, phase, lock, reply>>
  BY DEF ExitWith
<1>c. /\ i \in Ids /\ pc[i] \in {"user", "reply"} /\ cpu_id[i] = c
      /\ link # None => /\ link \in Ids /\ pc[link] \in {"call", "fused"}
                        /\ inserted[link] = i /\ cpu_id[link] = c
  BY <1>x DEF Inv, OwnerRuns, Links, Ranged
<1>d. link # None => pc[link] = "fused"
  BY <1>c DEF Inv, Calling
<1>s. \A j \in Ids : status'[j] = IF j = i THEN "Exited" ELSE status[j]
  BY <1>t DEF ExitWith, TypeOK
<1>p. \A j \in Ids : pc'[j] = IF j = i THEN "exit" ELSE pc[j]
  BY <1>t DEF ExitWith, TypeOK
<1>r. \A j \in Ids : ret_link'[j] = IF j = i THEN None ELSE ret_link[j]
  BY <1>t DEF ExitWith, TypeOK
<1>w. i # Main => result'[Main] = result[Main]
  BY <1>t DEF ExitWith, TypeOK
<1>g. \A d \in CPUs : target'[d] = IF d = c THEN link ELSE target[d]
  BY <1>t DEF ExitWith, TypeOK
<1>o. \A d \in CPUs : d # c => on[d] \in Ids /\ on[d] # i /\ current[d] # i
  BY <1>x, <1>c DEF Inv, OwnerRuns, Ranged
<1>1. TypeOK'
  <2>1. status' \in [Ids -> Statuses] /\ pc' \in [Ids -> Pcs]
    BY <1>t DEF ExitWith, TypeOK, Statuses, Pcs
  <2>2. result' \in [Ids -> BOOLEAN] /\ ret_link' \in [Ids -> Ids \cup {None}]
    BY <1>t, SMTT(30) DEF ExitWith, TypeOK
  <2>3. target' \in [CPUs -> Ids \cup {None}]
    BY <1>t, <1>c DEF ExitWith, TypeOK
  <2> QED BY <2>1, <2>2, <2>3, <1>t, <1>u, SMTT(30) DEF TypeOK
<1>v. i = on[c] /\ link = ret_link[i]
  OBVIOUS
<1> HIDE DEF i, link
<1>2. Fresh' /\ Callees'
  <2>1. i < next_id
    BY <1>x, <1>c DEF Inv, Fresh, Ranged
  <2>2. Fresh'
    <3>1. Fresh
      BY DEF Inv
    <3> QED BY <3>1, <2>1, <1>x, <1>u, <1>s, <1>p, <1>r DEF Fresh, Ranged
  <2> QED BY <2>2, <1>u DEF Inv, Callees
<1>3. OwnerRuns'
  BY <1>u DEF Inv, OwnerRuns
<1>4. OnCurrent'
  BY <1>u, <1>p, <1>o, <1>v, <1>c DEF Inv, OnCurrent
<1>5. Chosen'
  <2> SUFFICES ASSUME NEW d \in CPUs, d # c, phase[d] = "commit"
               PROVE  status'[target[d]] = status[target[d]]
    BY <1>u, <1>g DEF Inv, Chosen
  <2>1. target[d] \in Ids /\ cpu_id[target[d]] = d
    BY DEF Inv, Chosen
  <2> QED BY <2>1, <1>s, <1>c
<1>6. Switching'
  <2>i. Switching
    BY SMTT(30) DEF Inv
  <2> SUFFICES ASSUME NEW d \in CPUs, phase[d] \in Switch
               PROVE  /\ status'[target[d]] = status[target[d]] /\ target'[d] = target[d]
                      /\ pc'[target[d]] = pc[target[d]] /\ pc'[on[d]] = pc[on[d]]
    BY <2>i, <1>u, SMTT(30) DEF Switching
  <2>1. d # c
    BY DEF Switch
  <2>2. target[d] \in Ids /\ target[d] # i
    BY <2>1, <1>x, <1>o, SMTT(30) DEF Inv, Switching, Ranged
  <2> QED BY <2>1, <2>2, <1>s, <1>p, <1>o, <1>g
<1>7. Leaving'
  <2>1. ASSUME NEW d \in CPUs, d # c, pc'[on[d]] = "exit"
        PROVE  /\ pc[on[d]] = "exit" /\ target'[d] = target[d]
               /\ phase[d] = "run" /\ target[d] # None => pc'[target[d]] = pc[target[d]]
    <3>1. pc[on[d]] = "exit" /\ target'[d] = target[d]
      BY <2>1, <1>p, <1>o, <1>g, SMTT(30)
    <3>2. phase[d] = "run" /\ target[d] # None => target[d] \in Ids /\ target[d] # i
      BY <2>1, <3>1, <1>x, <1>c DEF Inv, Leaving, Ranged
    <3> QED BY <3>1, <3>2, <1>p
  <2>2. target'[c] = link /\ (link # None => pc'[link] = "fused")
    BY <1>g, <1>p, <1>c, <1>d
  <2>3. Leaving
    BY DEF Inv
  <2> QED BY <2>1, <2>2, <2>3, <1>c, <1>u, <1>v, SMTT(30) DEF Leaving
<1>8. Links'
  <2> SUFFICES ASSUME NEW j \in Ids, j # i, ret_link[j] # None
               PROVE  pc'[ret_link[j]] = pc[ret_link[j]] /\ pc'[j] # "exit"
    BY <1>u, <1>r DEF Inv, Links
  <2>1. /\ ret_link[j] \in Ids /\ pc[ret_link[j]] \in {"call", "fused"} /\ pc[j] # "exit"
    BY <1>x DEF Inv, Links, Ranged
  <2> QED BY <2>1, <1>c, <1>p
<1>9. Calling'
  <2> SUFFICES ASSUME NEW j \in Ids, pc'[j] = "call"
               PROVE  /\ pc[j] = "call" /\ pc'[inserted[j]] = pc[inserted[j]]
                      /\ ret_link'[inserted[j]] = ret_link[inserted[j]]
                      /\ status'[inserted[j]] = status[inserted[j]]
    BY <1>u DEF Inv, Calling
  <2>1. pc[j] = "call"
    BY <1>p
  <2>2. inserted[j] \in Ids /\ pc[inserted[j]] = "new"
    BY <2>1, <1>x DEF Inv, Calling, Ranged
  <2> QED BY <2>1, <2>2, <1>c, <1>p, <1>r, <1>s
<1>10. Called'
  <2> SUFFICES ASSUME NEW j \in Ids, pc'[j] = "fused"
               PROVE  /\ inserted[j] # None
                      /\ \/ ret_link'[inserted[j]] = j
                         \/ \E d \in CPUs : /\ on[d] = inserted[j] /\ target'[d] = j
                                            /\ pc'[inserted[j]] = "exit"
    BY <1>u DEF Called
  <2>1. pc[j] = "fused"
    BY <1>p
  <2>2. inserted[j] \in Ids
    BY <2>1, <1>x DEF Inv, Called, Ranged
  <2>3. CASE inserted[j] = i
    <3>1. ret_link[i] = j
      <4>1. \A d \in CPUs : on[d] = i => pc[i] # "exit"
        BY <1>c
      <4> QED BY <4>1, <2>1, <2>3 DEF Inv, Called
    <3> QED BY <2>2, <2>3, <3>1, <1>g, <1>p, <1>v
  <2>4. CASE inserted[j] # i
    <3>1. ret_link'[inserted[j]] = ret_link[inserted[j]] /\ pc'[inserted[j]] = pc[inserted[j]]
      BY <2>2, <2>4, <1>r, <1>p
    <3>2. CASE ret_link[inserted[j]] = j
      BY <2>2, <3>1, <3>2
    <3>3. CASE ret_link[inserted[j]] # j
      <4>1. PICK d \in CPUs : on[d] = inserted[j] /\ target[d] = j /\ pc[inserted[j]] = "exit"
        BY <2>1, <3>3 DEF Inv, Called
      <4>2. target'[d] = j
        BY <4>1, <2>4, <1>g, <1>v
      <4> QED BY <2>2, <3>1, <4>1, <4>2
    <3> QED BY <3>2, <3>3
  <2> QED BY <2>3, <2>4
<1>11. ExitedStays' /\ CallerParked' /\ NewIsNew'
  BY <1>s, <1>p, <1>c DEF Inv, ExitedStays, CallerParked, NewIsNew
<1>12. Saved'
  BY <1>u, <1>p DEF Inv, Saved
<1>13. MainWaits' /\ ReplyPresent'
  <2>1. \A j \in Ids : pc'[j] \in Waiting \cup {"boot"} => j = Main
    BY <1>p DEF Inv, MainWaits, Waiting
  <2>2. pc'[Main] \in Waiting <=> pc[Main] \in Waiting
    BY <1>p, <1>c DEF Waiting
  <2>3. pc[Main] \in Waiting => status'[Main] = status[Main] /\ result'[Main] = result[Main]
    BY <1>s, <1>w, <1>c DEF Waiting
  <2> QED BY <2>1, <2>2, <2>3, <1>u DEF Inv, MainWaits, ReplyPresent
<1> QED BY <1>1, <1>2, <1>3, <1>4, <1>5, <1>6, <1>7, <1>8, <1>9, <1>10, <1>11, <1>12, <1>13 DEF Inv
=============================================================================
