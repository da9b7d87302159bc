------------------------------ MODULE ApStart ------------------------------
(***************************************************************************)
(* The start of the other processors by the boot processor: the loop of    *)
(* Madt::init (kernel/src/acpi/madt.rs), the trampoline that a processor   *)
(* enters with the start-up interrupt (bootloader/x86_64/                  *)
(* startup-x86_64.asm), and kstart_ap (kernel/src/arch/x86_64/start.rs).   *)
(*                                                                         *)
(* All processors share one mailbox, the first words of the trampoline,    *)
(* and the page table that the boot loader left, which each of them        *)
(* changes for a while to reach the kernel's.  Only the order of the       *)
(* hand-shake keeps them apart.                                            *)
(***************************************************************************)
EXTENDS Integers, Sequences

CONSTANTS Apics,      \* the local APIC ids of the processors
          Stacks      \* how many stacks of 64 frames the frame allocator can give

ASSUME ApAssumption == Apics \subseteq Nat /\ Stacks \in Nat

VARIABLES me,         \* local_apic.id() of the boot processor
          loop,       \* where the boot processor is in Madt::init
          entry,      \* offset of the next entry of its table
          ap,         \* the processor being started
          cpu,        \* where every processor is that has been started
          sp, arg_id, arg_stack,         \* the stack it runs on, and its arguments
          mail_ready, mail_id, mail_stack,   \* the words of the trampoline
          AP_READY, BSP_READY, CPU_COUNT,
          stacks,     \* stacks given
          percpu      \* ids whose thread-local pages are mapped in the kernel's table

mailbox  == <<mail_ready, mail_id, mail_stack>>
machines == <<cpu, sp, arg_id, arg_stack>>
counts   == <<CPU_COUNT, stacks>>
apvars   == <<me, loop, entry, ap, machines, mailbox, AP_READY, BSP_READY, counts, percpu>>

NoAp == -1

\* kstart has reset the variables, and mapped the boot processor's pages as id 0.
ApInit(id) ==
    /\ me = id
    /\ loop = "off" /\ entry = 8 /\ ap = NoAp
    /\ cpu = [a \in Apics |-> "off"] /\ sp = [a \in Apics |-> 0]
    /\ arg_id = [a \in Apics |-> NoAp] /\ arg_stack = [a \in Apics |-> 0]
    /\ mail_ready = 0 /\ mail_id = 0 /\ mail_stack = 0
    /\ AP_READY = FALSE /\ BSP_READY = FALSE
    /\ CPU_COUNT = 1 /\ stacks = 0 /\ percpu = {0}

-----------------------------------------------------------------------------
\* MadtIter::next on the table's bytes: an entry is its type, its length and its
\* data; an entry that leaves the table ends the loop.
HasEntry(data, i) == i + 1 < Len(data) /\ i + data[i + 2] <= Len(data)
LocalApic(data, i) == data[i + 1] = 0 /\ data[i + 2] = 8
\* An enabled processor other than this one.
Startable(data, i) == LocalApic(data, i) /\ data[i + 4] # me /\ data[i + 5] % 2 = 1

\* The loop begins.
EnterLoop ==
    /\ loop' = "next"
    /\ UNCHANGED <<me, entry, ap, machines, mailbox, AP_READY, BSP_READY, counts, percpu>>

SkipEntry(data) ==
    /\ loop = "next" /\ HasEntry(data, entry) /\ ~ Startable(data, entry)
    /\ entry' = entry + data[entry + 2]
    /\ UNCHANGED <<me, loop, ap, machines, mailbox, AP_READY, BSP_READY, counts, percpu>>

\* The mailbox is filled for the processor of this entry.
PrepareAp(data) ==
    /\ loop = "next" /\ HasEntry(data, entry) /\ Startable(data, entry)
    /\ CPU_COUNT' = CPU_COUNT + 1
    /\ \/ /\ stacks < Stacks
          /\ stacks' = stacks + 1
          /\ mail_ready' = 0 /\ mail_id' = data[entry + 4] /\ mail_stack' = stacks + 1
          /\ AP_READY' = FALSE
          /\ loop' = "init" /\ entry' = entry + data[entry + 2] /\ ap' = data[entry + 4]
       \/ /\ stacks = Stacks
          /\ loop' = "panic"
          /\ UNCHANGED <<entry, ap, mailbox, AP_READY, stacks>>
    /\ UNCHANGED <<me, machines, BSP_READY, percpu>>

\* The INIT interrupt resets the processor.
SendInit ==
    /\ loop = "init"
    /\ cpu' = [cpu EXCEPT ![ap] = "reset"]
    /\ loop' = "start"
    /\ UNCHANGED <<me, entry, ap, sp, arg_id, arg_stack, mailbox, AP_READY, BSP_READY, counts, percpu>>

SendStart ==
    /\ loop = "start"
    /\ cpu' = [cpu EXCEPT ![ap] = IF @ = "reset" THEN "trampoline" ELSE @]
    /\ loop' = "wait"
    /\ UNCHANGED <<me, entry, ap, sp, arg_id, arg_stack, mailbox, AP_READY, BSP_READY, counts, percpu>>

\* Faulty wait: the processor has left the trampoline, so the next one is started.
WaitTrampolineOnly ==
    /\ loop = "wait" /\ mail_ready # 0
    /\ loop' = "next"
    /\ UNCHANGED <<me, entry, ap, machines, mailbox, AP_READY, BSP_READY, counts, percpu>>

WaitTrampoline ==
    /\ loop = "wait" /\ mail_ready # 0
    /\ loop' = "ready"
    /\ UNCHANGED <<me, entry, ap, machines, mailbox, AP_READY, BSP_READY, counts, percpu>>

WaitReady ==
    /\ loop = "ready" /\ AP_READY
    /\ loop' = "next"
    /\ UNCHANGED <<me, entry, ap, machines, mailbox, AP_READY, BSP_READY, counts, percpu>>

NoMoreEntries(data) ==
    /\ loop = "next" /\ ~ HasEntry(data, entry)
    /\ loop' = "done"
    /\ UNCHANGED <<me, entry, ap, machines, mailbox, AP_READY, BSP_READY, counts, percpu>>

\* kstart has initialized everything else.
BspReady ==
    /\ BSP_READY' = TRUE
    /\ UNCHANGED <<me, loop, entry, ap, machines, mailbox, AP_READY, counts, percpu>>

-----------------------------------------------------------------------------
\* long_mode_ap: takes the stack and the entry point, and says so.
Trampoline(a) ==
    /\ cpu[a] = "trampoline"
    /\ cpu' = [cpu EXCEPT ![a] = "kstart"]
    /\ sp' = [sp EXCEPT ![a] = mail_stack]
    /\ mail_ready' = 1
    /\ UNCHANGED <<me, loop, entry, ap, arg_id, arg_stack, mail_id, mail_stack, AP_READY, BSP_READY,
                   counts, percpu>>

\* kstart_ap reads its arguments where they lie, in the mailbox.
ReadArgs(a) ==
    /\ cpu[a] = "kstart"
    /\ cpu' = [cpu EXCEPT ![a] = "paging"]
    /\ arg_id' = [arg_id EXCEPT ![a] = mail_id]
    /\ arg_stack' = [arg_stack EXCEPT ![a] = mail_stack]
    /\ UNCHANGED <<me, loop, entry, ap, sp, mailbox, AP_READY, BSP_READY, counts, percpu>>

\* paging::init_ap, by way of the boot loader's page table; map asserts that the
\* thread-local pages of this id are not mapped.
InitPaging(a) ==
    /\ cpu[a] = "paging"
    /\ \/ /\ arg_id[a] \notin percpu
          /\ percpu' = percpu \cup {arg_id[a]}
          /\ cpu' = [cpu EXCEPT ![a] = "devices"]
       \/ /\ arg_id[a] \in percpu
          /\ cpu' = [cpu EXCEPT ![a] = "panic"]
          /\ UNCHANGED percpu
    /\ UNCHANGED <<me, loop, entry, ap, sp, arg_id, arg_stack, mailbox, AP_READY, BSP_READY, counts>>

\* gdt, idt and local APIC are the processor's own; then it is ready.
ApReady(a) ==
    /\ cpu[a] = "devices"
    /\ AP_READY' = TRUE
    /\ cpu' = [cpu EXCEPT ![a] = "spin"]
    /\ UNCHANGED <<me, loop, entry, ap, sp, arg_id, arg_stack, mailbox, BSP_READY, counts, percpu>>

\* kmain_ap: the id becomes CPU_ID, a context is made and the scheduler entered.
KmainAp(a) ==
    /\ cpu[a] = "spin" /\ BSP_READY
    /\ cpu' = [cpu EXCEPT ![a] = "up"]
    /\ UNCHANGED <<me, loop, entry, ap, sp, arg_id, arg_stack, mailbox, AP_READY, BSP_READY, counts, percpu>>

StartLoop(data) == \/ SkipEntry(data) \/ PrepareAp(data) \/ SendInit \/ SendStart
                   \/ WaitTrampoline \/ WaitReady \/ NoMoreEntries(data)
OtherCpu == \E a \in Apics : \/ Trampoline(a) \/ ReadArgs(a) \/ InitPaging(a)
                             \/ ApReady(a) \/ KmainAp(a)

\* The start by itself, with any table: the loop is entered once.
ApNext == \/ loop = "off" /\ EnterLoop
          \/ \E data \in Seq(Nat) : StartLoop(data)
          \/ BspReady \/ OtherCpu
ApSpec(id) == ApInit(id) /\ [][ApNext]_apvars

\* The loop of the boot processor is over for good.
LoopDead == \/ loop = "panic"
            \/ loop = "ready" /\ ap \in Apics /\ cpu[ap] = "panic"

-----------------------------------------------------------------------------
\* The processors that use the mailbox and the boot loader's page table.
Starting == {a \in Apics : cpu[a] \in {"trampoline", "kstart", "paging", "devices"}}
Started  == {a \in Apics : cpu[a] \in {"spin", "up"}}

\* Processors start one after the other, although nothing but the mailbox and
\* AP_READY orders them: the one that starts is the one Madt::init waits for, and
\* every processor that came through kstart_ap runs under its own id, none that of
\* the boot processor, on the stack made for it and on nobody else's.
ApsStartApart ==
    /\ \A a \in Starting : ap = a /\ loop \in {"wait", "ready"}
    /\ \A a \in Started : /\ arg_id[a] = a /\ arg_stack[a] = sp[a] /\ a # 0
                          /\ \A b \in Started \ {a} : sp[b] # sp[a]
=============================================================================
