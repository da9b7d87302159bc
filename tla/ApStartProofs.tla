-------------------------- MODULE ApStartProofs --------------------------
(***************************************************************************)
(* The start of the other processors is safe for any number of them, any   *)
(* boot processor and any table.                                           *)
(*                                                                         *)
(* What has to be added to ApsStartApart is what the mailbox holds while a *)
(* processor is being started (Mailed), that AP_READY speaks of that one   *)
(* and not of the one before (ReadyMeans), and that its stack is the       *)
(* youngest (Youngest).                                                    *)
(***************************************************************************)
EXTENDS ApStart, TLAPS

LoopPcs == {"off", "next", "init", "start", "wait", "ready", "done", "panic"}
CpuPcs == {"off", "reset", "trampoline", "kstart", "paging", "devices", "spin", "up", "panic"}
Busy == {"init", "start", "wait", "ready"}

TypeOK ==
    /\ loop \in LoopPcs /\ entry \in Nat /\ ap \in Int
    /\ cpu \in [Apics -> CpuPcs] /\ sp \in [Apics -> Int]
    /\ arg_id \in [Apics -> Int] /\ arg_stack \in [Apics -> Int]
    /\ mail_id \in Int /\ mail_stack \in Int
    /\ stacks \in Nat /\ 0 \in percpu

\* While a processor is being started the mailbox is its own, and what it has
\* read came from there.
Mailed ==
    /\ loop \in Busy => mail_id = ap /\ mail_stack = stacks
    /\ \A a \in Starting :
          /\ cpu[a] # "trampoline" => sp[a] = mail_stack
          /\ cpu[a] \in {"paging", "devices"} => arg_id[a] = mail_id /\ arg_stack[a] = mail_stack
          /\ cpu[a] = "devices" => a # 0

\* AP_READY is reset before the interrupts are sent, and set when the start is over.
ReadyMeans ==
    /\ loop \in {"init", "start"} => ~ AP_READY
    /\ AP_READY => \A a \in Apics : a \notin Starting

\* The stack of the processor being started is in no other's use.
Youngest ==
    \A a \in Started :
        /\ sp[a] <= stacks
        /\ loop \in {"init", "start"} => sp[a] # stacks
        /\ loop \in {"wait", "ready"} /\ sp[a] = stacks => a = ap

\* The inductive invariant.
IInv == TypeOK /\ ApsStartApart /\ Mailed /\ ReadyMeans /\ Youngest

\* What happens before any processor is started keeps the invariant.
LEMMA InitHolds ==
    ASSUME NEW id \in Apics, ApInit(id)
    PROVE  IInv
<1>1. TypeOK
  BY DEF ApInit, TypeOK, LoopPcs, CpuPcs, NoAp
<1>2. \A a \in Apics : a \notin Starting /\ a \notin Started
  BY DEF ApInit, Starting, Started
<1>3. \A a : a \in Starting \/ a \in Started => a \in Apics
  BY DEF Starting, Started
<1> QED BY <1>1, <1>2, <1>3 DEF IInv, ApInit, ApsStartApart, Mailed, ReadyMeans, Youngest, Busy

\* The steps of the boot processor that leave the mailbox and the others alone.
LEMMA LoopMoves ==
    ASSUME IInv, loop' \in LoopPcs \ {"init", "start"}, entry' \in Nat,
           UNCHANGED <<ap, machines, mailbox, AP_READY, stacks, percpu>>,
           loop' \in Busy => loop \in {"wait", "ready"},
           loop \in {"wait", "ready"} => loop' \in {"wait", "ready"} \/ AP_READY
    PROVE  IInv'
<1>1. TypeOK'
  BY DEF IInv, TypeOK, machines, mailbox
<1>2. Starting' = Starting /\ Started' = Started
  BY DEF Starting, Started, machines
<1>3. ApsStartApart'
  <2>1. \A a \in Starting : ap = a /\ loop' \in {"wait", "ready"}
    BY DEF IInv, ApsStartApart, ReadyMeans, Starting
  <2> QED BY <1>2, <2>1 DEF IInv, ApsStartApart, machines
<1>4. Mailed'
  BY <1>2 DEF IInv, Mailed, Busy, machines, mailbox
<1>5. ReadyMeans'
  BY <1>2 DEF IInv, ReadyMeans
<1>6. Youngest'
  BY <1>2 DEF IInv, Youngest, Busy, machines
<1> QED BY <1>1, <1>3, <1>4, <1>5, <1>6 DEF IInv

\* Madt::init reads the next entry: nobody is starting then.
LEMMA PrepareApHolds ==
    ASSUME IInv, NEW data \in Seq(Nat), PrepareAp(data)
    PROVE  IInv'
<1>1. CASE loop' = "panic"
  <2>1. UNCHANGED <<entry, ap, machines, mailbox, AP_READY, stacks, percpu>>
    BY <1>1 DEF PrepareAp
  <2>2. loop = "next" /\ entry \in Nat
    BY DEF PrepareAp, IInv, TypeOK
  <2> QED BY <1>1, <2>1, <2>2, LoopMoves DEF LoopPcs, Busy
<1>2. CASE loop' = "init"
  <2>1. /\ loop = "next" /\ stacks' = stacks + 1 /\ mail_id' = ap' /\ mail_stack' = stacks + 1
        /\ AP_READY' = FALSE /\ ap' = data[entry + 4] /\ entry' = entry + data[entry + 2]
        /\ UNCHANGED <<cpu, sp, arg_id, arg_stack, percpu>>
    BY <1>2 DEF PrepareAp, machines
  <2>2. ap' \in Int /\ entry' \in Nat
    <3>1. entry \in Nat
      BY DEF IInv, TypeOK
    <3>2. data[entry + 2] = 8 /\ entry + 8 <= Len(data)
      BY <1>2 DEF PrepareAp, HasEntry, Startable, LocalApic
    <3>3. entry + 4 \in 1 .. Len(data)
      BY <3>1, <3>2
    <3> QED BY <2>1, <3>1, <3>2, <3>3
  <2>3. TypeOK'
    BY <1>2, <2>1, <2>2 DEF IInv, TypeOK, LoopPcs
  <2>4. \A a \in Apics : a \notin Starting
    BY <2>1 DEF IInv, ApsStartApart
  <2>5. Starting' = Starting /\ Started' = Started
    BY <2>1 DEF Starting, Started
  <2>6. \A a : a \in Starting => a \in Apics
    BY DEF Starting
  <2>7. ApsStartApart'
    BY <2>1, <2>4, <2>5, <2>6 DEF IInv, ApsStartApart
  <2>8. Mailed'
    BY <2>1, <2>4, <2>5, <2>6 DEF Mailed
  <2>9. ReadyMeans'
    BY <2>1 DEF ReadyMeans
  <2>10. Youngest'
    <3>1. \A a \in Started : sp[a] <= stacks /\ sp[a] \in Int /\ stacks \in Nat
      BY DEF IInv, Youngest, TypeOK, Started
    <3> QED BY <1>2, <2>1, <2>5, <3>1 DEF Youngest
  <2> QED BY <2>3, <2>7, <2>8, <2>9, <2>10 DEF IInv
<1> QED BY <1>1, <1>2 DEF PrepareAp

\* The interrupts: the processor named by the entry leaves what it did, and then
\* starts, alone.
LEMMA SendHolds ==
    ASSUME IInv, SendInit \/ SendStart
    PROVE  IInv'
<1> USE DEF IInv
<1>1. /\ loop \in {"init", "start"} /\ loop' \in {"start", "wait"}
      /\ UNCHANGED <<entry, ap, sp, arg_id, arg_stack, mail_id, mail_stack, AP_READY, stacks, percpu>>
  BY DEF SendInit, SendStart, mailbox, counts
<1>2. /\ cpu' \in [Apics -> CpuPcs]
      /\ \A a \in Apics : a # ap => cpu'[a] = cpu[a]
      /\ ap \in Apics => cpu'[ap] \in {"reset", "trampoline"} \/ cpu'[ap] = cpu[ap]
      /\ ap \in Apics /\ loop' = "start" => cpu'[ap] = "reset"
  BY DEF SendInit, SendStart, TypeOK, CpuPcs
<1>3. \A a \in Apics : a \notin Starting
  BY <1>1 DEF ApsStartApart
<1>4. \A a \in Apics : /\ a \in Starting' => a = ap /\ cpu'[a] = "trampoline" /\ loop' = "wait"
                       /\ a \in Started' => a \in Started
  BY <1>1, <1>2, <1>3 DEF Starting, Started
<1>5. \A a : a \in Starting' \/ a \in Started' => a \in Apics
  BY DEF Starting, Started
<1>6. TypeOK'
  BY <1>1, <1>2 DEF TypeOK, LoopPcs
<1>7. ApsStartApart'
  BY <1>1, <1>4, <1>5 DEF ApsStartApart
<1>8. Mailed'
  BY <1>1, <1>4, <1>5 DEF Mailed, Busy
<1>9. ReadyMeans'
  BY <1>1 DEF ReadyMeans
<1>10. Youngest'
  BY <1>1, <1>4, <1>5 DEF Youngest
<1> QED BY <1>6, <1>7, <1>8, <1>9, <1>10

\* A step of the processor that is being started.
LEMMA StartingMoves ==
    ASSUME IInv, NEW a \in Apics, Trampoline(a) \/ ReadArgs(a) \/ InitPaging(a)
    PROVE  IInv'
<1> USE DEF IInv
<1>1. a \in Starting
  BY DEF Trampoline, ReadArgs, InitPaging, Starting
<1>2. ap = a /\ loop \in {"wait", "ready"} /\ mail_id = a /\ mail_stack = stacks /\ AP_READY # TRUE
  BY <1>1 DEF ApsStartApart, Mailed, Busy, ReadyMeans
<1>3. /\ UNCHANGED <<loop, entry, ap, mail_id, mail_stack, AP_READY, stacks>> /\ 0 \in percpu'
      /\ cpu' \in [Apics -> CpuPcs] /\ sp' \in [Apics -> Int]
      /\ arg_id' \in [Apics -> Int] /\ arg_stack' \in [Apics -> Int]
  BY DEF Trampoline, ReadArgs, InitPaging, TypeOK, CpuPcs, mailbox, counts
<1>4. TypeOK'
  BY <1>3 DEF TypeOK
<1>5. /\ cpu'[a] \in {"kstart", "paging", "devices", "panic"}
      /\ \A b \in Apics : b # a => /\ cpu'[b] = cpu[b] /\ sp'[b] = sp[b]
                                 /\ arg_id'[b] = arg_id[b] /\ arg_stack'[b] = arg_stack[b]
  BY DEF Trampoline, ReadArgs, InitPaging, TypeOK
<1>6. Started' = Started /\ a \notin Started
  BY <1>1, <1>3, <1>5 DEF Started, Starting
<1>7. \A b \in Starting' : b = a
  BY <1>2, <1>5 DEF Starting, ApsStartApart
<1>8. /\ cpu'[a] # "panic" => sp'[a] = mail_stack
      /\ cpu'[a] \in {"paging", "devices"} => arg_id'[a] = mail_id /\ arg_stack'[a] = mail_stack
      /\ cpu'[a] = "devices" => a # 0
  <2>1. CASE Trampoline(a)
    BY <2>1 DEF Trampoline, TypeOK
  <2>2. CASE ReadArgs(a)
    BY <1>1, <2>2 DEF ReadArgs, TypeOK, Mailed
  <2>3. CASE InitPaging(a)
    BY <1>1, <1>2, <2>3 DEF InitPaging, TypeOK, Mailed
  <2> QED BY <2>1, <2>2, <2>3
<1>9. \A b \in Started : b \in Apics /\ b # a
  BY <1>6 DEF Started
<1>10. ApsStartApart'
  BY <1>2, <1>3, <1>5, <1>6, <1>7, <1>9 DEF ApsStartApart
<1>11. Mailed'
  <2>1. \A b \in Starting' : b = a /\ cpu'[a] # "panic"
    BY <1>7 DEF Starting
  <2> QED BY <1>2, <1>3, <1>8, <2>1 DEF Mailed
<1>12. ReadyMeans'
  BY <1>2, <1>3 DEF ReadyMeans
<1>13. Youngest'
  BY <1>3, <1>5, <1>6, <1>9 DEF Youngest
<1> QED BY <1>4, <1>10, <1>11, <1>12, <1>13

\* The start of a processor is over: it runs on the youngest stack.
LEMMA ApReadyHolds ==
    ASSUME IInv, NEW a \in Apics, ApReady(a)
    PROVE  IInv'
<1> USE DEF IInv
<1>1. a \in Starting
  BY DEF ApReady, Starting
<1>2. /\ ap = a /\ loop \in {"wait", "ready"} /\ a # 0
      /\ arg_id[a] = a /\ arg_stack[a] = stacks /\ sp[a] = stacks
  BY <1>1 DEF ApsStartApart, Mailed, Busy, ApReady
<1>3. /\ UNCHANGED <<loop, entry, ap, sp, arg_id, arg_stack, mail_id, mail_stack, stacks, percpu>>
      /\ cpu' = [cpu EXCEPT ![a] = "spin"]
  BY DEF ApReady, mailbox, counts
<1>4. TypeOK'
  BY <1>3 DEF TypeOK, CpuPcs
<1>5. cpu'[a] = "spin" /\ \A b \in Apics : b # a => cpu'[b] = cpu[b]
  BY <1>3 DEF TypeOK
<1>6. \A b \in Apics : b \notin Starting'
  BY <1>2, <1>5 DEF Starting, ApsStartApart
<1>7. \A b : b \in Starting' \/ b \in Started' => b \in Apics
  BY DEF Starting, Started
<1>8. \A b \in Started' : b = a \/ (b \in Started /\ sp[b] # stacks)
  <2>1. \A b \in Started' : b = a \/ b \in Started
    BY <1>5 DEF Started
  <2>2. \A b \in Started : sp[b] = stacks => b = a
    BY <1>2 DEF Youngest
  <2> QED BY <2>1, <2>2
<1>9. ApsStartApart'
  BY <1>2, <1>3, <1>6, <1>7, <1>8 DEF ApsStartApart
<1>10. Mailed'
  BY <1>3, <1>6, <1>7 DEF Mailed
<1>11. ReadyMeans'
  BY <1>2, <1>3, <1>6 DEF ReadyMeans
<1>12. Youngest'
  <2>1. stacks <= stacks
    BY DEF TypeOK
  <2> QED BY <1>2, <1>3, <1>8, <2>1 DEF Youngest
<1> QED BY <1>4, <1>9, <1>10, <1>11, <1>12

\* Steps after the start, and the boot processor's last one.
LEMMA LaterHolds ==
    ASSUME IInv, BspReady \/ \E a \in Apics : KmainAp(a)
    PROVE  IInv'
<1> USE DEF IInv
<1>1. /\ UNCHANGED <<loop, entry, ap, sp, arg_id, arg_stack, mail_id, mail_stack, AP_READY, stacks, percpu>>
      /\ cpu' \in [Apics -> CpuPcs]
  BY DEF BspReady, KmainAp, mailbox, machines, counts, TypeOK, CpuPcs
<1>2. \A a \in Apics : cpu'[a] = cpu[a] \/ (cpu[a] = "spin" /\ cpu'[a] = "up")
  <2>1. CASE BspReady
    BY <2>1 DEF BspReady, machines
  <2>2. ASSUME NEW b \in Apics, KmainAp(b)
        PROVE  \A a \in Apics : cpu'[a] = cpu[a] \/ (cpu[a] = "spin" /\ cpu'[a] = "up")
    BY <2>2 DEF KmainAp, TypeOK
  <2> QED BY <2>1, <2>2
<1>3. Starting' = Starting /\ Started' = Started /\ \A a \in Starting : cpu'[a] = cpu[a]
  BY <1>2 DEF Starting, Started
<1>4. TypeOK'
  BY <1>1 DEF TypeOK
<1>5. ApsStartApart' /\ Mailed' /\ ReadyMeans' /\ Youngest'
  BY <1>1, <1>3 DEF ApsStartApart, Mailed, ReadyMeans, Youngest
<1> QED BY <1>4, <1>5

\* Every step keeps the invariant.
LEMMA StepHolds ==
    ASSUME IInv, [ApNext]_apvars
    PROVE  IInv'
<1>1. CASE UNCHANGED apvars
  BY <1>1 DEF apvars, machines, mailbox, counts, IInv, TypeOK, ApsStartApart, Mailed, ReadyMeans,
              Youngest, Starting, Started
<1>2. CASE loop = "off" /\ EnterLoop
  BY <1>2, LoopMoves DEF EnterLoop, counts, LoopPcs, Busy, IInv, TypeOK
<1>3. ASSUME NEW data \in Seq(Nat), StartLoop(data)
      PROVE  IInv'
  <2>t. entry \in Nat /\ loop \in LoopPcs
    BY DEF IInv, TypeOK
  <2>1. CASE SkipEntry(data)
    <3>1. entry + 2 \in 1 .. Len(data)
      BY <2>1, <2>t DEF SkipEntry, HasEntry
    <3>2. entry' \in Nat
      BY <2>1, <2>t, <3>1 DEF SkipEntry
    <3> QED BY <2>1, <2>t, <3>2, LoopMoves DEF SkipEntry, counts, Busy
  <2>2. CASE PrepareAp(data)
    BY <2>2, PrepareApHolds
  <2>3. CASE SendInit \/ SendStart
    BY <2>3, SendHolds
  <2>4. CASE WaitTrampoline
    BY <2>4, <2>t, LoopMoves DEF WaitTrampoline, counts, LoopPcs, Busy
  <2>5. CASE WaitReady
    BY <2>5, <2>t, LoopMoves DEF WaitReady, counts, LoopPcs, Busy
  <2>6. CASE NoMoreEntries(data)
    BY <2>6, <2>t, LoopMoves DEF NoMoreEntries, counts, LoopPcs, Busy
  <2> QED BY <1>3, <2>1, <2>2, <2>3, <2>4, <2>5, <2>6 DEF StartLoop
<1>4. CASE BspReady \/ \E a \in Apics : KmainAp(a)
  BY <1>4, LaterHolds
<1>5. ASSUME NEW a \in Apics, Trampoline(a) \/ ReadArgs(a) \/ InitPaging(a)
      PROVE  IInv'
  BY <1>5, StartingMoves
<1>6. ASSUME NEW a \in Apics, ApReady(a)
      PROVE  IInv'
  BY <1>6, ApReadyHolds
<1> QED BY <1>1, <1>2, <1>3, <1>4, <1>5, <1>6 DEF ApNext, OtherCpu

\* Whatever processors there are, whichever of them boots and whatever the table
\* lists (a processor twice, ids of no processor, more processors than stacks):
\* Madt::init, the trampoline and kstart_ap start them one after the other, and
\* each runs under its own id on a stack of its own.
THEOREM ApsSafe ==
    ASSUME NEW id \in Apics
    PROVE  ApSpec(id) => []ApsStartApart
<1>1. ApInit(id) => IInv
  BY InitHolds
<1>2. IInv /\ [ApNext]_apvars => IInv'
  BY StepHolds
<1>3. IInv => ApsStartApart
  BY DEF IInv
<1> QED BY <1>1, <1>2, <1>3, PTL DEF ApSpec
=============================================================================
