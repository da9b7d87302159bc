------------------------------ MODULE AmlBoot ------------------------------
(***************************************************************************)
(* The kernel's use of the ACPI tables (kernel/src/acpi/mod.rs): acpi::init *)
(* finds the tables, takes from the fixed ones what the kernel needs,      *)
(* starts the other processors (ApStart), and runs the DSDT and then every *)
(* SSDT through the interpreter (AmlInterp).  A table that fails is given  *)
(* up where it failed; a fatal error stops the machine, and stopping it    *)
(* reads the object \_S5 that the tables declared                          *)
(* (kernel/src/arch/x86_64/start.rs and stop.rs).                          *)
(*                                                                         *)
(* The interpreter is one step per term of the table's top level, the      *)
(* granularity of parse_term_list.                                         *)
(***************************************************************************)
EXTENDS AmlInterp, ApStart

\* The machine as the firmware left it: me, the APIC id of the boot processor, bios,
\* where the RSDP may be, and mem, the tables [sig, data, dsdt] by address.  dsdt holds the table that a
\* complete FADT points to and is empty for any other table.  The data of RSDT
\* and XSDT are words of half an address.
CONSTANT Firmwares

VARIABLES s,           \* the interpreter's state: statics and running context
          firmware,
          listed,      \* the tables that RSDT or XSDT list, in their order
          fadt, hpet,  \* ACPI_TABLE.fadt and ACPI_TABLE.hpet are Some
          identity,    \* device frames that are mapped where they are
          phase,       \* where acpi::init, the kernel after it, or kstop is
          todo,        \* the keys of the SSDTs still to run
          at,          \* offset of the next term in the running table
          turns,       \* terms of the running table that are done
          said,        \* what was printed for each table that ended
          port         \* the value written to PM1a control, -1 before

tables == <<firmware, listed, fadt, hpet, identity>>
aml    == <<todo, at, turns, said, port>>
vars   == <<s, phase, tables, aml, apvars>>

\* The statics before acpi::init, and no context.
Statics == [ns |-> <<>>, next |-> 0, order |-> <<>>, sdts |-> <<>>, scope |-> <<>>,
            locals |-> Eight, args |-> Eight, state |-> "EXECUTING", ret |-> None,
            delta |-> <<>>, id |-> 0, sync |-> 0, held |-> FALSE]

Init == /\ s = Statics
        /\ firmware \in Firmwares
        /\ listed = <<>> /\ fadt = FALSE /\ hpet = FALSE /\ identity = {}
        /\ phase = "rsdp" /\ todo = <<>> /\ at = 0 /\ turns = 0 /\ said = <<>> /\ port = -1
        /\ ApInit(firmware.me)

Running == IF phase = "run" THEN s.sdts[todo[1]] ELSE <<>>

-----------------------------------------------------------------------------
\* RSDP::search takes the first of the places with the signature, sdt_address the
\* XSDT from revision 2 on.  The signature of what it finds there says how to read it.
places == {k \in DOMAIN firmware.bios : firmware.bios[k].rsdp}

RSDT == <<82, 83, 68, 84>>
XSDT == <<88, 83, 68, 84>>
HalfAddress == 65536

sdt_address(rsdp) == IF rsdp.revision >= 2 THEN rsdp.xsdt ELSE rsdp.rsdt
Entries(root) ==
    IF root.sig[1] = RSDT THEN root.data
    ELSE [k \in 1 .. Len(root.data) \div 2 |-> root.data[2*k - 1] + HalfAddress * root.data[2*k]]

\* Without an RSDP, or with a table of another kind, acpi::init returns.
FindTables ==
    /\ phase = "rsdp"
    /\ LET root == firmware.mem[sdt_address(firmware.bios[Min(places)])]
       IN  IF places = {} \/ root.sig[1] \notin {RSDT, XSDT}
           THEN phase' = "up" /\ UNCHANGED listed
           ELSE /\ listed' = [k \in DOMAIN Entries(root) |-> firmware.mem[Entries(root)[k]]]
                /\ phase' = "gather"
    /\ UNCHANGED <<s, firmware, fadt, hpet, identity, aml, apvars>>

\* The tables by signature: of two with the same signature the later one stays.
Listed(sig) == listed[SelectLastInSeq(listed, LAMBDA x : x.sig = sig)]

GatherTables ==
    /\ phase = "gather"
    /\ s' = [s EXCEPT !.sdts = [sig \in {listed[k].sig : k \in DOMAIN listed} |->
                                 Listed(sig).data]]
    /\ phase' = "fadt"
    /\ UNCHANGED <<tables, aml, apvars>>

\* BTreeMap iterates in the order of its keys.
Before(a, b) == Less(a[2] \o a[3], b[2] \o b[3])
find_sdt(name) == SetToSortSeq({sig \in DOMAIN s.sdts : sig[1] = name}, Before)

\* A fixed table is used, and entered in SDT_ORDER, when it is the only one with
\* its name.
FACP == <<70, 65, 67, 80>>
APIC == <<65, 80, 73, 67>>
DMAR == <<68, 77, 65, 82>>
HPET == <<72, 80, 69, 84>>
Sole(name) == Len(find_sdt(name)) = 1
SoleData(name) == s.sdts[find_sdt(name)[1]]
Entered(name) == IF Sole(name) THEN load_table(find_sdt(name)[1], s) ELSE s

\* Fadt::init.  The FADT brings the DSDT, which replaces a listed table with the
\* same signature.
FadtInit ==
    /\ phase = "fadt"
    /\ LET dsdt == IF Sole(FACP) THEN Listed(find_sdt(FACP)[1]).dsdt ELSE <<>>
       IN  /\ fadt' = (dsdt # <<>>)
           /\ s' = IF dsdt = <<>> THEN Entered(FACP)
                   ELSE [Entered(FACP) EXCEPT !.sdts =
                            [x \in DOMAIN @ \cup {dsdt[1].sig} |->
                               IF x = dsdt[1].sig THEN dsdt[1].data ELSE @[x]]]
    /\ phase' = "madt"
    /\ UNCHANGED <<firmware, listed, hpet, identity, aml, apvars>>

\* Madt::init, up to its loop.
MadtInit ==
    /\ phase = "madt"
    /\ s' = Entered(APIC)
    /\ IF Sole(APIC) /\ Len(SoleData(APIC)) >= 8
       THEN phase' = "aps" /\ EnterLoop
       ELSE phase' = "dmar" /\ UNCHANGED apvars
    /\ UNCHANGED <<tables, aml>>

StartAps ==
    /\ phase = "aps"
    /\ StartLoop(SoleData(APIC))
    /\ UNCHANGED <<s, phase, tables, aml>>

ApsStarted ==
    /\ phase = "aps" /\ loop = "done"
    /\ phase' = "dmar"
    /\ UNCHANGED <<s, tables, aml, apvars>>

OtherCpus == OtherCpu /\ UNCHANGED <<s, phase, tables, aml>>

\* DmarIter: entries begin with a type and a length of two bytes each.
\* DrhdFrames(data, i) are the frames of the remapping units from offset i on, in order.
FrameAt(data, i) == <<data[i + 2] \div 16>> \o SubSeq(data, i + 3, i + 8)
RECURSIVE DrhdFrames(_, _)
DrhdFrames(data, i) ==
    LET len == data[i + 3] + 256 * data[i + 4]
    IN  IF i + 4 > Len(data) \/ i + len > Len(data) THEN <<>>
        ELSE (IF data[i + 1] + 256 * data[i + 2] = 0 /\ len >= 16
              THEN <<FrameAt(data, i + 8)>> ELSE <<>>) \o DrhdFrames(data, i + len)

\* map_to asserts that the page is not in use.
MapDevices(frames, next) ==
    IF IsInjective(frames) /\ Range(frames) \cap identity = {}
    THEN identity' = identity \cup Range(frames) /\ phase' = next
    ELSE identity' = identity /\ phase' = "Panic"

DmarInit ==
    /\ phase = "dmar"
    /\ s' = Entered(DMAR)
    /\ MapDevices(IF Sole(DMAR) /\ Len(SoleData(DMAR)) >= 12 THEN DrhdFrames(SoleData(DMAR), 12) ELSE <<>>,
                  "hpet")
    /\ UNCHANGED <<firmware, listed, fadt, hpet, aml, apvars>>

HpetInit ==
    /\ phase = "hpet"
    /\ s' = Entered(HPET)
    /\ LET complete == Sole(HPET) /\ Len(SoleData(HPET)) >= 20
       IN  /\ MapDevices(IF complete THEN <<FrameAt(SoleData(HPET), 8)>> ELSE <<>>, "dsdt")
           /\ hpet' = (complete /\ phase' # "Panic")
    /\ UNCHANGED <<firmware, listed, fadt, aml, apvars>>

\* init_namespace: without exactly one DSDT no table runs at all.
StartDsdt ==
    /\ phase = "dsdt"
    /\ IF Len(find_sdt(DSDT)) = 1
       THEN /\ todo' = find_sdt(DSDT) \o find_sdt(SSDT)
            /\ s' = NewContext(load_table(find_sdt(DSDT)[1], s), <<Backslash>>)
            /\ phase' = "run"
       ELSE phase' = "up" /\ UNCHANGED <<todo, s>>
    /\ UNCHANGED <<tables, at, turns, said, port, apvars>>

\* The running table is over: its context goes, its objects stay.
EndWith(outcome, t) ==
    /\ s' = t
    /\ said' = Append(said, outcome)
    /\ phase' = CASE outcome \in {"Fatal", "HardFatal"} -> "stop"
                  [] outcome \in Fatals -> outcome
                  [] OTHER -> "ssdt"
    /\ at' = 0 /\ turns' = 0

\* parse_term_list, one term of it.
Term ==
    /\ phase = "run"
    /\ at < Len(Running)
    /\ \E r \in {Parse("term_obj", From(Running, at), s)} :
           CASE r.e # "ok"                   -> EndWith(r.e, r.s)
             [] r.s.state # "EXECUTING"      -> EndWith("ok", r.s)
             [] OTHER -> s' = r.s /\ at' = at + r.n /\ turns' = turns + 1 /\ UNCHANGED <<said, phase>>
    /\ UNCHANGED <<tables, todo, port, apvars>>

EndTable ==
    /\ phase = "run"
    /\ at >= Len(Running)
    /\ EndWith("ok", s)
    /\ UNCHANGED <<tables, todo, port, apvars>>

NextSsdt ==
    /\ phase = "ssdt"
    /\ todo' = Tail(todo)
    /\ IF Len(todo) > 1 THEN /\ s' = NewContext(load_table(todo[2], s), <<Backslash>>)
                             /\ phase' = "run"
       ELSE phase' = "up" /\ UNCHANGED s
    /\ UNCHANGED <<tables, at, turns, said, port, apvars>>

-----------------------------------------------------------------------------
\* kstart goes on to kmain, and lets the other processors go on.
KstartEnds ==
    /\ phase = "up"
    /\ BspReady
    /\ phase' = "kmain"
    /\ UNCHANGED <<s, tables, aml>>

\* kstop once the kernel is up.
Stop ==
    /\ phase = "kmain"
    /\ phase' = "stop"
    /\ UNCHANGED <<s, tables, aml, apvars>>

\* set_global_s_state(5), with the backslash key of the namespace.
S5 == <<Backslash, Underscore, 83, 53>>
SleepEnable == 8192

set_global_s_state ==
    /\ phase = "stop"
    /\ LET o == Lookup(s, S5)
           a == get_as_integer(o.p[1], s.order)
           b == get_as_integer(o.p[2], s.order)
       IN  CASE ~ fadt \/ o.t # "Package" -> phase' = "off" /\ UNCHANGED port
             [] Len(o.p) < 2 \/ a.e # "ok" \/ b.e # "ok" -> phase' = "Panic" /\ UNCHANGED port
             [] OTHER -> /\ phase' = "off"
                         /\ port' = SleepEnable | (a.v % 65536)
    /\ UNCHANGED <<s, tables, todo, at, turns, said, apvars>>

\* Switched off, or halted by a panic, or in a loop that never ends.
Halted == /\ phase \in {"off"} \cup Fatals \/ LoopDead
          /\ UNCHANGED vars

Next == \/ FindTables \/ GatherTables \/ FadtInit \/ MadtInit \/ StartAps \/ ApsStarted
        \/ DmarInit \/ HpetInit \/ StartDsdt \/ Term \/ EndTable \/ NextSsdt
        \/ KstartEnds \/ Stop \/ set_global_s_state \/ OtherCpus \/ Halted
Spec == Init /\ [][Next]_vars

-----------------------------------------------------------------------------
\* Between two terms of a table its context is what init_aml_table made it, but
\* for the names it has added: terms enter scopes, methods, devices and loaded
\* tables, each with a scope, arguments and an id of its own, take the lock of
\* the namespace, and leave all of that again.
ContextRestored ==
    phase = "run" =>
        /\ s.scope = <<Backslash>> /\ s.args = Eight /\ s.locals = Eight
        /\ s.state = "EXECUTING" /\ s.sync = 0 /\ ~ s.held
        /\ s.id < s.next

\* parse_term_list ends: each of its turns moves on by at least a byte, also when
\* the term was a call, a loop or a table of its own.
TermsAdvance == phase = "run" => turns <= at
=============================================================================
