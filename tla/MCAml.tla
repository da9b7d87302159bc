------------------------------- MODULE MCAml -------------------------------
(***************************************************************************)
(* Instances of AmlBoot.  The FADT points to a DSDT of up to MaxTerms      *)
(* terms, with or without a declaration behind them; two SSDTs run after   *)
(* it and use what it left.  Other firmware lists processors, remapping    *)
(* units and timers, or is found by way of an XSDT, or not at all.         *)
(***************************************************************************)
EXTENDS AmlBoot, AmlTerms

CONSTANT MaxTerms

Abs(c) == [abs |-> TRUE, segs |-> << <<c, 95, 95, 95>> >>]
Rel(c) == [abs |-> FALSE, segs |-> << <<c, 95, 95, 95>> >>]
X == Abs(88)
E == Abs(69)
M == Abs(77)
H == Abs(72)
Byte(i)       == [k |-> "byte", i |-> i]
Text         == [k |-> "text", b |-> <<49, 50, 51, 52, 53, 54, 55, 65>>]
Deref(p)     == [k |-> "deref", p |-> p]
Arg0         == [k |-> "arg", i |-> 0]
Op(op, x, y) == [k |-> op, x |-> x, y |-> y]
Name(p, e)   == [k |-> "name", p |-> p, e |-> e]
Store(e, p)  == [k |-> "store", e |-> e, p |-> p]
Call(p, es)  == [k |-> "call", p |-> p, es |-> es]
On(kind, p)  == [k |-> kind, p |-> p]
Bump(p)      == Store(Op("add", Deref(p), Byte(1)), p)
Pack(es)     == [k |-> "pack", i |-> Len(es), es |-> es]
Holder0(t, p, fixed, body) == [k |-> "holder", t |-> t, p |-> p, fixed |-> fixed, body |-> body]
Part(c, bits) == [k |-> "named", seg |-> <<c, 95, 95, 95>>, bits |-> bits]
Pad(c)       == Name(Rel(c), [k |-> "word", i |-> 513])

\* M(n): returns n and leaves it in X when it is small, n + 256 otherwise.
BodyM == << Pad(76),
            [k |-> "if", e |-> Op("lless", Arg0, Byte(2)), else |-> <<>>,
             body |-> <<Store(Arg0, X), [k |-> "return", e |-> Arg0], Pad(75)>>],
            [k |-> "return", e |-> Op("add", Arg0, [k |-> "word", i |-> 256])] >>
\* F(): fails after it changed X.
BodyF == << Pad(76), Bump(X), [k |-> "fatal"], Pad(75) >>
\* T(): its Return is in the last seven bytes.
BodyT == << Bump(X), [k |-> "return", e |-> Byte(3)] >>
MCBodies == {BodyM, BodyF, BodyT}

LoadBody == << Name(Rel(66), Byte(7)), [k |-> "event", p |-> E] >>
LoadId == 9
LoadBytes == EncSdt(SSDT, LoadId, EncList(LoadBody))
OemId == 65
OemName == <<79, 69, 77, 49>>
MCLoadable == {[bytes |-> LoadBytes, sig |-> SigOf(SSDT, LoadId), body |-> LoadBody],
               [bytes |-> <<>>, sig |-> SigOf(OemName, OemId), body |-> LoadBody, root |-> Abs(83).segs]}

TopTerms == {
    Name(X, Byte(5)),
    Name(Rel(89), Text),
    [k |-> "scope", p |-> [abs |-> TRUE, segs |-> Abs(83).segs \o Rel(82).segs],
                    body |-> <<Name(Rel(65), Text), Bump(X)>>],
    Holder0("Device", Rel(68), <<>>, <<Name(Rel(65), Byte(1)), On("event", Rel(66)), On("event", E)>>),
    [k |-> "method", p |-> M, argc |-> 1, body |-> BodyM],
    [k |-> "method", p |-> Rel(70), argc |-> 0, body |-> BodyF],
    Store(Call(M, <<Byte(1)>>), X),
    [k |-> "do", e |-> Call(M, <<Deref(X)>>)],
    [k |-> "do", e |-> Call(Abs(70), <<>>)],
    [k |-> "method", p |-> Rel(84), argc |-> 0, body |-> BodyT],
    Store(Call(Abs(84), <<>>), X),
    Name(Rel(66), Call(M, <<Byte(4)>>)),
    Bump(X),
    Store(Text, X),
    [k |-> "copy", e |-> Text, p |-> X],
    [k |-> "if", e |-> Op("lless", Deref(X), Byte(6)),
     body |-> <<Store(Op("subtract", Deref(X), Byte(7)), X)>>, else |-> <<Pad(73), Bump(X)>>],
    [k |-> "if", e |-> Deref(X), body |-> <<Bump(X), [k |-> "noop"]>>, else |-> <<>>],
    [k |-> "while", e |-> Op("lless", Deref(X), Byte(9)),
     body |-> << [k |-> "if", e |-> Op("lequal", Deref(X), Byte(7)), else |-> <<>>,
                  body |-> <<[k |-> "break"], Pad(73)>>], Bump(X) >>],
    On("event", E), On("signal", E), On("wait", E), On("reset", E),
    [k |-> "mutex", p |-> Abs(85), level |-> 2], On("release", Abs(85)),
    [k |-> "region", p |-> Rel(82), x |-> Byte(16), y |-> Deref(X)],
    [k |-> "field", ps |-> <<Rel(82)>>, els |-> <<Part(70, 12), Part(71, 3)>>],
    Name(Abs(86), [k |-> "bytes", b |-> LoadBytes]),
    [k |-> "load", p |-> Abs(86), h |-> H], [k |-> "unload", h |-> H],
    Name([abs |-> FALSE, segs |-> << <<95, 83, 53, 95>> >>], Pack(<<Byte(5), Byte(6)>>)),
    [k |-> "return", e |-> Byte(3)],
    [k |-> "fatal"], [k |-> "noop"] }

\* Every other opcode, after X and Y have been given values.
Word_(i)     == [k |-> "word", i |-> i]
Constant(i)  == [k |-> "const", i |-> i]
Y == Abs(89)
Data(b)      == [k |-> "bytes", b |-> b]
Inside(t)    == [k |-> "if", e |-> Byte(1), body |-> <<t, Pad(73)>>, else |-> <<>>]
Raw(b, out)  == [k |-> "raw", b |-> b, out |-> out]
One(op)      == [k |-> op, x |-> Deref(X)]
Many(op, es) == [k |-> op, es |-> es]
Str(b)       == [k |-> "text", b |-> b]
LoadTable(id) == Many("loadtable", <<Str(OemName), Str([j \in 1..6 |-> id]), Str([j \in 1..8 |-> id]),
                                     Str(<<Backslash, 83>>), Str(<<Backslash, 89>>), Byte(3)>>)

OpExprs == {Op(op, Deref(X), Deref(Y)) : op \in DOMAIN BinOp} \cup
           {One(op) : op \in {"not", "lnot", "frombcd"}} \cup
           { Constant(0), Constant(1), Constant(2), [k |-> "timer"],
             [k |-> "dword", i |-> 772], [k |-> "qword", i |-> 1029],
             [k |-> "sizeof", p |-> X], [k |-> "elem", p |-> X, x |-> Byte(1)],
             [k |-> "varpack", x |-> Byte(3), es |-> <<Byte(1), [k |-> "object", p |-> Y]>>],
             Many("mid", <<Deref(X), Byte(1), Byte(2)>>), LoadTable(OemId), LoadTable(66) } \cup
           { [k |-> "match", es |-> <<Pack(<<Byte(2), Byte(5), Byte(3), Byte(9)>>), Byte(2), Byte(6), Byte(1)>>,
              ops |-> <<a, b>>] : a \in 0..5, b \in 0..5 }

OpTerms == {Store(e, Abs(82)) : e \in OpExprs} \cup
    { [k |-> op, x |-> Deref(X), y |-> Byte(7), p |-> Abs(82)] : op \in {"concat"} } \cup
    { [k |-> "concatres", x |-> Data(<<1, 2, 121, 0>>), y |-> Data(<<5, 121, 0>>), p |-> Abs(82)],
      [k |-> "put", e |-> Byte(33), p |-> X, x |-> Byte(1)],
      Inside([k |-> "condref", p |-> X, h |-> Abs(82)]), Inside([k |-> "condref", p |-> E, h |-> Abs(82)]),
      [k |-> "alias", p |-> Rel(82), h |-> Rel(84)],
      [k |-> "create", es |-> <<Deref(X), Byte(1), Byte(2)>>, p |-> Rel(82)],
      [k |-> "dataregion", es |-> <<Str(<<65>>), Str(<<65>>), Str(<<65>>)>>, p |-> Rel(82)],
      [k |-> "field", ps |-> <<Rel(82), Abs(88)>>,
       els |-> <<Part(70, 9), [k |-> "gap", bits |-> 5], [k |-> "access", access |-> 5, attrib |-> 6],
                 [k |-> "connect", p |-> Y], Part(71, 63)>>],
      Holder0("Processor", Rel(80), <<1, 2, 3, 4, 5, 6>>, <<Pad(81)>>),
      Holder0("PowerResource", Rel(80), <<1, 2, 3>>, <<Pad(81)>>),
      Holder0("ThermalZone", Rel(80), <<>>, <<Pad(81)>>),
      [k |-> "scope", p |-> Rel(84), body |-> <<Holder0("Device", Rel(68), <<>>, <<Pad(81)>>),
          [k |-> "notify", p |-> [abs |-> TRUE, segs |-> Rel(84).segs \o Rel(68).segs], e |-> Byte(1)], Pad(81)>>],
      [k |-> "notify", p |-> X, e |-> Byte(1)] } \cup
    { Inside([k |-> "convert", op |-> op, e |-> Byte(i), p |-> Abs(82)]) :
          op \in DOMAIN ConvertOp, i \in {0, 6, 168} } \cup
    \* terms that the interpreter cannot run: Acquire, External, ObjectType, a local,
    \* the fields of a buffer with a fixed size, a conversion; Sleep, Stall and
    \* Increment of a named object never end; BankField panics
    { Raw(<<\h5B, \h23>> \o EncName(X) \o <<0, 0>>, "error"), Raw(<<\h5B, \h15>> \o EncName(Y) \o <<8, 0>>, "error"),
      Raw(<<\h8E>> \o EncName(X), "error"), Raw(<<\h70, \h0A, 1, \h60>>, "error"),
      Inside(Raw(<<\h99, \h0A, 1, 0>>, "error")),
      Raw(<<\h5B, \h22, \h0A, 1>>, "stuck"), Raw(<<\h5B, \h21, \h0A, 1>>, "stuck"),
      Raw(<<\h75>> \o EncName(X), "stuck"), Raw(<<\h76>> \o EncName(X), "stuck"),
      Raw(<<\h5B, \h87, 20>> \o EncName(X) \o EncName(Y) \o <<0, 1>> \o Rel(70).segs[1] \o <<8>>, "panic") } \cup
    { Raw(<<op>> \o EncName(X) \o <<\h0A, 1>> \o Rel(70).segs[1], "error") : op \in {\h8A, \h8B, \h8C, \h8D, \h8F} }

Operands0 == { Byte(6), Word_(4660), Text, Data(<<7, 65, 66>>), Pack(<<Byte(1), Byte(9)>>), Constant(2) }

Table(sig, id, ast) == [sig |-> SigOf(sig, id), data |-> EncList(ast), dsdt |-> <<>>, ast |-> ast]
Fadt(dsdt) == [sig |-> SigOf(FACP, 0), data |-> <<>>, dsdt |-> dsdt, ast |-> <<>>]
Ssdts == << Table(SSDT, 2, <<Bump(X), Pad(78)>>),
            Table(SSDT, 1, <<Name(Rel(80), Byte(2)), [k |-> "unload", h |-> H], Pad(79)>>) >>
Open(ts) == Table(DSDT, 0, ts)
Program(ts) == Open(ts \o <<Pad(90)>>)
Oem == Table(OemName, OemId, LoadBody)
Small == <<Name(X, Byte(5))>>

\* Without a DSDT; with two; with a listed one that the FADT's replaces; with an
\* SSDT listed twice; with a FADT that is too short; with an incomplete \_S5.
Odd == { Ssdts, <<Fadt(<<>>), Program(Small)>>,
         <<Fadt(<<Program(Small)>>), Table(DSDT, 7, Small)>>,
         <<Program(<<>>), Fadt(<<Program(Small)>>)>>,
         <<Table(SSDT, 2, Small)>> \o Ssdts \o <<Fadt(<<Program(Small)>>)>>,
         <<Fadt(<<Program(<<Name([abs |-> FALSE, segs |-> << <<95, 83, 53, 95>> >>], Pack(<<Byte(5)>>))>>)>>)>> }

\* The tables that a listing runs: the FADT's DSDT counts as listed last, the
\* last of those with one signature is taken, and SSDTs go by their ids.  The
\* terms, and the offsets at which they end, are kept with the first table.
Plan(listing) ==
    LET facps == {k \in DOMAIN listing : listing[k].sig[1] = FACP}
        all == IF Cardinality({listing[k].sig : k \in facps}) # 1 THEN listing
               ELSE listing \o listing[CHOOSE k \in facps : \A j \in facps : k >= j].dsdt
        sigs(name) == {x \in {all[k].sig : k \in DOMAIN all} : x[1] = name}
        runs == IF Cardinality(sigs(DSDT)) # 1 THEN <<>>
                ELSE SetToSortSeq(sigs(DSDT) \cup sigs(SSDT),
                                  LAMBDA a, b : \/ a[1] = DSDT /\ b[1] # DSDT
                                                \/ a[1] = b[1] /\ a[2][1] < b[2][1])
        ast(sig) == all[SelectLastInSeq(all, LAMBDA x : x.sig = sig)].ast
        ends(ts) == {<<Len(EncList(SubSeq(ts, 1, k))), k>> : k \in 0..Len(ts)}
    IN  [asts |-> [k \in DOMAIN runs |-> ast(runs[k])],
         ends |-> [k \in DOMAIN runs |-> ends(ast(runs[k]))]]

\* Firmware with these tables, and with an RSDP that leads to them.
Blank == [rsdp |-> FALSE]
Rsdp(revision, address) == [rsdp |-> TRUE, revision |-> revision,
                            rsdt |-> IF revision < 2 THEN address ELSE 0,
                            xsdt |-> IF revision < 2 THEN 0 ELSE address]
Root(name, words) == [sig |-> SigOf(name, 0), data |-> words, dsdt |-> <<>>, ast |-> <<>>]
Firmware(listing, bios, root, me0) ==
    [me |-> me0, bios |-> bios, mem |-> Append(listing, root),
     plan |-> IF \A k \in DOMAIN bios : ~ bios[k].rsdp THEN Plan(<<>>)
              ELSE IF root.sig[1] \notin {RSDT, XSDT} THEN Plan(<<>>) ELSE Plan(listing)]
Upto(n) == [k \in 1..n |-> k]
ByRsdt(l) == Firmware(l, <<Blank, Rsdp(0, Len(l) + 1), Rsdp(2, 1)>>, Root(RSDT, Upto(Len(l))), 0)
\* An XSDT whose last word is half an address.
ByXsdt(l) == Firmware(l, <<Rsdp(2, Len(l) + 1)>>,
                      Root(XSDT, [k \in 1..(2 * Len(l) + 1) |-> IF k % 2 = 1 THEN (k + 1) \div 2 ELSE 0]), 0)

\* Processors: every choice of up to three entries, in every order.
Local(id, flags) == <<0, 8, 9, id, flags, 0, 0, 0>>
CpuEntries == {Local(id, 1) : id \in 0..3} \cup {Local(2, 0), <<1, 12>> \o [k \in 1..10 |-> 0]}
Madts == {m \in BoundedSeq(CpuEntries, 3) : IsInjective(m)} \cup {<< Local(2, 1), <<0, 8, 9, 3>> >>}
WithMadt(data, me0) ==
    LET madt == [sig |-> SigOf(APIC, 0), data |-> data, dsdt |-> <<>>, ast |-> <<>>]
        l == <<madt, Fadt(<<Program(Small)>>)>>
    IN  Firmware(l, <<Rsdp(1, 3)>>, Root(RSDT, <<1, 2>>), me0)
MadtFirmwares == {WithMadt([k \in 1..8 |-> 0] \o FlattenSeq(m), me0) : m \in Madts, me0 \in {0, 1}} \cup
                 {WithMadt(<<1, 2, 3>>, 0)}

\* Remapping units and a timer, on frames of their own or not.
Fixed(name, data) == [sig |-> SigOf(name, 0), data |-> data, dsdt |-> <<>>, ast |-> <<>>]
At8(n) == <<0, 16 * n, 0, 0, 0, 0, 0, 0>>
Dmar(units) == Fixed(DMAR, [k \in 1..12 |-> 0] \o <<1, 0, 6, 0, 7, 7>> \o
                     FlattenSeq([k \in DOMAIN units |-> <<0, 0, 16, 0, 0, 0, 0, 0>> \o At8(units[k])]))
Hpet(n) == Fixed(HPET, [k \in 1..8 |-> 0] \o At8(n) \o <<0, 0, 0, 0>>)
DeviceFirmwares == {ByXsdt(<<Hpet(n), Dmar(units), Fadt(<<Program(Small)>>)>>) :
                        n \in 1..2, units \in BoundedSeq(1..2, 2)} \cup
                   {ByXsdt(<<Fixed(HPET, <<1>>), Fixed(DMAR, <<1>>), Fadt(<<Program(Small)>>)>>)}

Rootless == { Firmware(Ssdts, <<Blank, Blank>>, Root(RSDT, <<1>>), 0),
              Firmware(Ssdts, <<Rsdp(1, 3)>>, Root(OemName, <<1>>), 0) }

MCFirmwares == Rootless \cup MadtFirmwares \cup DeviceFirmwares \cup { ByXsdt(l) : l \in Odd } \cup
               { ByRsdt(l) : l \in
                { <<Fadt(<<Program(ts)>>)>> \o Ssdts : ts \in BoundedSeq(TopTerms, MaxTerms) } \cup
                { <<Fadt(<<Open(ts)>>)>> : ts \in BoundedSeq(TopTerms, 2) } \cup
                { <<Fadt(<<Program(<<Name(X, a), Name(Y, b), t>>)>>), Oem>> :
                      a \in Operands0, b \in {Byte(3), Constant(0)}, t \in OpTerms } }

-----------------------------------------------------------------------------
Status == CASE said # <<>> /\ Last(said) \in {"Fatal", "HardFatal"} -> "fatal"
            [] said # <<>> /\ Last(said) = "Spin" -> "stuck"
            [] said # <<>> /\ Last(said) = "Panic" -> "panic"
            [] OTHER -> "running"
\* What is left to run, as terms.
Queue ==
    LET plan == firmware.plan
        n == Len(plan.asts)
        now == n + 1 - Len(todo)
        done == {e \in plan.ends[now] : e[1] = at}
        rest == IF done = {} THEN <<"lost">>
                ELSE SubSeq(plan.asts[now], 1 + (CHOOSE e \in done : TRUE)[2], Len(plan.asts[now]))
    IN  CASE phase \in {"rsdp", "gather", "fadt", "madt", "aps", "dmar", "hpet", "dsdt"} -> plan.asts
          [] phase = "Panic" /\ said = <<>> -> plan.asts
          [] phase = "run" -> <<rest>> \o SubSeq(plan.asts, now + 1, n)
          [] todo # <<>>   -> << <<>> >> \o SubSeq(plan.asts, now + 1, n)
          [] OTHER         -> <<>>

Meaning == INSTANCE AmlMeaning WITH env <- s.ns, queue <- Queue, status <- Status,
                                    Bodies <- MCBodies, Loadable <- MCLoadable

\* Running a table byte by byte has the effect of its terms: every declaration,
\* statement, expression, call and loop changes the named objects as AmlMeaning
\* says, a term that fails ends its table and nothing else, and the tables run
\* in the order of their signatures (parse_term_list and all it calls).
ImplementsMeaning == Meaning!Spec
=============================================================================
