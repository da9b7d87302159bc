----------------------------- MODULE AmlMeaning -----------------------------
(***************************************************************************)
(* What a table means, without its bytes: the effect of AML terms on the   *)
(* named objects.  Do and Eval follow the structure of the terms; there    *)
(* are no offsets, opcodes, contexts or locks here, and one rule about     *)
(* length (Cut).  A table goes on, is abandoned where a term fails, stops  *)
(* the machine, or waits for an event that nobody can signal.              *)
(*                                                                         *)
(* The state machine at the end is the abstract boot: it runs the terms of *)
(* one table after the other.  AmlBoot implements it byte by byte.         *)
(***************************************************************************)
EXTENDS AmlTerms

CONSTANTS Bodies,       \* the bodies of the methods in the instance
          Loadable      \* the tables, as terms, that it keeps in buffers
VARIABLES env,          \* name |-> object
          queue,        \* the tables, each the terms it still has to run
          status        \* "running", or what ended the boot: "fatal", "stuck", "panic"

-----------------------------------------------------------------------------
\* Effects.  r is the state a term works on: env, the names declared by the
\* running table, method or device, its arguments, out ("ok", "error", "fatal",
\* "stuck", "panic") and go: "on", or how the surrounding lists are being left.
Fail(r, out)   == [r EXCEPT !.out = out]
Give(v, r)     == [v |-> v, r |-> r]
On(r)          == r.out = "ok" /\ r.go = "on"
Path(p, scope) == IF p.abs THEN p.segs ELSE scope \o p.segs
Raw(p)         == IF p.abs THEN KeyOf(p.segs) ELSE Join(p.segs)
Num(v)         == get_as_integer(v, <<>>)
\* A text of fewer than eight characters is no number: the kernel panics.
Wrong(c)       == IF c.e = "Panic" THEN "panic" ELSE "error"
Put(f, key, v) == [x \in DOMAIN f \cup {key} |-> IF x = key THEN v ELSE f[x]]
Without(f, names) == [x \in DOMAIN f \ ToSet(names) |-> f[x]]

\* A name is declared once.
Bound(key, v, r) ==
    IF key \in DOMAIN r.env /\ r.env[key] # Uninitialized THEN Fail(r, "error")
    ELSE [r EXCEPT !.env = Put(@, key, v), !.names = Append(@, key)]

\* Assignment keeps the type of the object and fails silently.
Assign(key, v, r) ==
    LET c == get_as_type(v, IF key \in DOMAIN r.env THEN r.env[key] ELSE Uninitialized, <<>>)
    IN  CASE c.e = "ok"    -> [r EXCEPT !.env = Put(@, key, c.v)]
          [] c.e = "Panic" -> Fail(r, "panic")
          [] OTHER         -> r

\* Numbers as the sets of their bits.
Bits(a) == {k \in 0 .. 8 * WordBytes - 1 : (a \div 2 ^ k) % 2 = 1}
Number(bits) == FoldSet(LAMBDA k, n : n + 2 ^ k, 0, bits)
Every == 0 .. 8 * WordBytes - 1
Truly(p) == IntegerConstant(IF p THEN 1 ELSE 0)

\* ShiftLeft and ShiftRight each move the bits the other way.
Apply(op, a, b) ==
    LET A == Bits(a)
        B == Bits(b)
        by == b % (8 * WordBytes)
    IN  CASE op = "add"      -> Integer((a + b) % Word)
          [] op = "subtract" -> Integer((a - b) % Word)
          [] op = "multiply" -> Integer(FoldSet(LAMBDA k, n : (n + a * 2 ^ k) % Word, 0, B))
          [] op = "and"      -> Integer(Number(A \cap B))
          [] op = "nand"     -> Integer(Number(Every \ (A \cap B)))
          [] op = "or"       -> Integer(Number(A \cup B))
          [] op = "nor"      -> Integer(Number(Every \ (A \cup B)))
          [] op = "xor"      -> Integer(Number((A \ B) \cup (B \ A)))
          [] op = "shl"      -> Integer(Number({k - by : k \in {x \in A : x >= by}}))
          [] op = "shr"      -> Integer(Number({k + by : k \in A} \cap Every))
          [] op = "divide"   -> Integer(a \div b)
          [] op = "mod"      -> Integer(a % b)
          [] op = "land"     -> Truly(a > 0 /\ b > 0)
          [] op = "lor"      -> Truly(a > 0 \/ b > 0)
          [] op = "lequal"   -> Truly(a = b)
          [] op = "lgreater" -> Truly(a > b)
          [] op = "lless"    -> Truly(a < b)

\* Decimal and hexadecimal numbers trade places, digits in reverse order.
Reversed(a, from, to) ==
    LET n == CHOOSE m \in 0..16 : a < from ^ m /\ (m = 0 \/ a >= from ^ (m - 1))
    IN  FoldSet(LAMBDA k, acc : (acc + ((a \div from ^ k) % from) * to ^ (n - 1 - k)) % Word, 0, 0 .. n - 1)

\* The position after the first element from start on that meets both conditions.
Holds(op, a, b) == <<TRUE, a = b, a <= b, a < b, a >= b, a > b>>[op + 1]
Position(els, ops, a, b, start) ==
    LET fits == {k \in start + 1 .. Len(els) : /\ Num(els[k]).e = "ok"
                                               /\ Holds(ops[1], Num(els[k]).v, a)
                                               /\ Holds(ops[2], Num(els[k]).v, b)}
    IN  IF fits = {} THEN IntegerConstant(Ones) ELSE Integer(Min(fits))

Part(b, from, len) == SubSeq(b, from + 1, IF from + len < Len(b) THEN from + len ELSE Len(b))
Bytes(v) == get_as_buffer(v, <<>>).v

Joined(x, y) ==
    CASE x.t = "Integer" -> Buffer(Bytes(x) \o Bytes(Integer(Num(y).v)))
      [] x.t = "String"  -> String(x.b \o get_as_string(y, <<>>).v)
      [] x.t = "Buffer"  -> Buffer(x.b \o Bytes(y))
      [] OTHER           -> String(get_type_string(x) \o get_as_string(y, <<>>).v)

\* Resources end in a tag and a byte that makes the sum of all bytes 0.
JoinedResources(a, b) ==
    LET body(x) == SubSeq(x, 1, Len(x) - 2)
        all == Append(body(a) \o body(b), \h79)
    IN  Buffer(Append(all, CHOOSE c \in 0..255 : FoldLeft(LAMBDA n, k : n + k, c, all) % 256 = 0))

\* The searches for a set bit see the upper and the lower half of the word.
Half == 4 * WordBytes
Converted(op, v) ==
    CASE op = "integer" -> Integer(Num(v).v)
      [] op = "buffer"  -> Buffer(Bytes(v))
      [] op = "hex"     -> String(IF v.t = "Buffer" THEN FlattenSeq([k \in DOMAIN v.b |-> Digits(v.b[k], 16)])
                                  ELSE Digits(v.i, 16))
      [] op = "decimal" -> String(IF v.t = "Buffer" THEN FlattenSeq([k \in DOMAIN v.b |-> Digits(v.b[k], 10)])
                                  ELSE Digits(v.i, 10))
      [] op = "bcd"     -> Integer(Reversed(v.i, 10, 16))
      [] op = "left"    -> Integer(Max({0} \cup {k - Half + 1 : k \in Bits(v.i) \ (0 .. Half - 1)}))
      [] op = "right"   -> Integer(IF Bits(v.i) \cap (0 .. Half - 1) = {} THEN 0 ELSE 1 + Min(Bits(v.i)))

\* The element of a string, buffer or package; past its end the kernel panics.
Elements(o) == IF o.t = "Package" THEN o.p ELSE [k \in DOMAIN o.b |-> Integer(o.b[k])]
Indexed == {"String", "Buffer", "Package"}

\* F(x), with x computed once.
With(x, F(_)) == CHOOSE y \in {F(z) : z \in {x}} : TRUE

RECURSIVE Eval(_, _, _), EvalAll(_, _, _), Do(_, _, _), Run(_, _, _), Loop(_, _, _)

\* F of the values of es and of the state that evaluating them leaves.
Using(es, scope, r, F(_, _)) ==
    With(EvalAll(es, scope, r), LAMBDA q : IF On(q.r) THEN F(q.v, q.r) ELSE q.r)

\* A call starts afresh, gives a value whatever happens in the body, and takes
\* the names declared in it away again.
Invoke(e, scope, args, r) ==
    With(CHOOSE b \in Bodies : EncList(b) = r.env[Raw(e.p)].code, LAMBDA body :
    With(Run(body, Path(e.p, scope),
             [r EXCEPT !.names = <<>>, !.ret = None,
                       !.args = [k \in 1..8 |-> IF k <= Len(args) THEN args[k] ELSE Uninitialized]]),
         LAMBDA q :
         With([r EXCEPT !.env = Without(q.env, q.names)], LAMBDA back :
              IF q.out \in {"stuck", "panic"} THEN Give(None, Fail(back, q.out))
              ELSE Give(IF q.go = "return" THEN q.ret ELSE IntegerConstant(0), back))))

\* F of a number that v stands for.
WithNum(v, r, F(_)) == IF Num(v).e = "ok" THEN F(Num(v).v) ELSE Give(None, Fail(r, Wrong(Num(v))))
\* F of the bytes of v.
WithBytes(v, r, F(_)) ==
    LET c == get_as_buffer(v, <<>>) IN IF c.e = "ok" THEN F(c.v) ELSE Give(None, Fail(r, "error"))
\* F of the object named p.
Named(p, types, r, F(_)) ==
    IF Raw(p) \in DOMAIN r.env /\ r.env[Raw(p)].t \in types THEN F(r.env[Raw(p)])
    ELSE Give(None, Fail(r, "error"))
\* F of the values of es.
Values(es, scope, r, F(_, _)) ==
    With(EvalAll(es, scope, r), LAMBDA q : IF On(q.r) THEN F(q.v, q.r) ELSE Give(None, q.r))

LoadedTable(v, r) ==
    LET found == {x \in Loadable : x.sig = <<v[1].b, v[2].b, v[3].b>>}
    IN  IF found = {} THEN Give(IntegerConstant(0), r)
        ELSE With(CHOOSE x \in found : TRUE, LAMBDA l :
             With(Run(l.body, l.root, [r EXCEPT !.names = <<>>]), LAMBDA q :
             With([q EXCEPT !.names = r.names, !.go = "on"], LAMBDA back :
                  IF q.out # "ok" THEN Give(None, back)
                  ELSE Give(DDBHandle(q.names, l.sig), Assign(v[5].b, v[6], back)))))

Eval(e, scope, r) ==
    CASE e.k \in {"byte", "word", "dword", "qword"} -> Give(Integer(e.i), r)
      [] e.k = "const" -> Give(IntegerConstant(IF e.i = 2 THEN Ones ELSE e.i), r)
      [] e.k = "timer" -> Give(Integer(0), r)
      [] e.k = "text"  -> Give(String(e.b), r)
      [] e.k = "bytes" -> Give(Buffer(e.b), r)
      [] e.k = "pack"  -> Values(e.es, scope, r, LAMBDA v, q :
                                 Give(Package([k \in 1..e.i |-> IF k <= Len(v) THEN v[k] ELSE Uninitialized]), q))
      [] e.k = "varpack" -> Values(<<e.x>> \o e.es, scope, r, LAMBDA v, q :
                                 WithNum(v[1], q, LAMBDA n : Give(Package([k \in 1..n |->
                                     IF k < Len(v) THEN v[k + 1] ELSE Uninitialized]), q)))
      [] e.k = "object" -> Give(Object(Raw(e.p)), r)
      [] e.k = "arg"   -> Give(r.args[e.i + 1], r)
      [] e.k = "deref" -> IF Raw(e.p) \in DOMAIN r.env THEN Give(r.env[Raw(e.p)], r)
                          ELSE Give(None, Fail(r, "error"))
      [] e.k = "elem"  -> \* the name is looked up first, its type only matters afterwards
                          IF Raw(e.p) \notin DOMAIN r.env THEN Give(None, Fail(r, "error"))
                          ELSE Values(<<e.x>>, scope, r, LAMBDA v, q : WithNum(v[1], q, LAMBDA n :
                               Named(e.p, Indexed, q, LAMBDA o :
                                 IF n < Len(Elements(o)) THEN Give(Elements(o)[n + 1], q)
                                 ELSE Give(None, Fail(q, "panic")))))
      [] e.k = "sizeof" -> Named(e.p, Indexed, r, LAMBDA o : Give(Integer(Len(Elements(o))), r))
      [] e.k = "call"  -> Named(e.p, {"Method"}, r, LAMBDA o :
                                Values(e.es, scope, r, LAMBDA v, q : Invoke(e, scope, v, q)))
      [] e.k = "not"   -> Values(<<e.x>>, scope, r, LAMBDA v, q : WithNum(v[1], q, LAMBDA a :
                                 Give(Integer(Number(Every \ Bits(a))), q)))
      [] e.k = "lnot"  -> Values(<<e.x>>, scope, r, LAMBDA v, q : WithNum(v[1], q, LAMBDA a :
                                 Give(Truly(a = 0), q)))
      [] e.k = "frombcd" -> \* a digit above ten is refused
                          Values(<<e.x>>, scope, r, LAMBDA v, q : WithNum(v[1], q, LAMBDA a :
                                 IF \E k \in 0 .. 2 * WordBytes - 1 : (a \div 16 ^ k) % 16 > 10
                                 THEN Give(None, Fail(q, "error"))
                                 ELSE Give(Integer(Reversed(a, 16, 10)), q)))
      [] e.k = "tostring" -> Values(<<e.x, e.y>>, scope, r, LAMBDA v, q : WithBytes(v[1], q, LAMBDA b :
                          WithNum(v[2], q, LAMBDA n : Give(String(Part(b, 0, n)), q))))
      [] e.k = "mid"   -> Values(e.es, scope, r, LAMBDA v, q :
                          WithNum(v[2], q, LAMBDA i : WithNum(v[3], q, LAMBDA n :
                                 IF v[1].t = "String" THEN Give(String(Part(v[1].b, i, n)), q)
                                 ELSE WithBytes(v[1], q, LAMBDA b : Give(Buffer(Part(b, i, n)), q)))))
      [] e.k = "match" -> Values(e.es, scope, r, LAMBDA v, q :
                          WithNum(v[2], q, LAMBDA a : WithNum(v[3], q, LAMBDA b : WithNum(v[4], q, LAMBDA n :
                                 Give(Position(v[1].p, e.ops, a, b, n), q)))))
      [] e.k = "loadtable" -> Values(e.es, scope, r, LAMBDA v, q : LoadedTable(v, q))
      [] OTHER         -> Values(<<e.x, e.y>>, scope, r, LAMBDA v, q :
                          WithNum(v[1], q, LAMBDA a : WithNum(v[2], q, LAMBDA b :
                                 IF e.k \in {"divide", "mod"} /\ b = 0
                                 THEN Give(None, Fail(q, IF e.k = "divide" THEN "panic" ELSE "error"))
                                 ELSE Give(Apply(e.k, a, b), q))))

EvalAll(es, scope, r) ==
    IF es = <<>> THEN Give(<<>>, r)
    ELSE With(Eval(Head(es), scope, r), LAMBDA one :
              IF ~ On(one.r) THEN Give(<<>>, one.r)
              ELSE With(EvalAll(Tail(es), scope, one.r), LAMBDA rest : Give(<<one.v>> \o rest.v, rest.r)))

\* A list is cut short by a statement that begins in its last seven bytes: the
\* interpreter takes it for an incomplete declaration.
Declarations == {"scope", "name", "alias", "create", "dataregion", "event", "region", "field",
                 "method", "mutex", "holder"}
Cut(ts) == /\ Head(ts).k \notin Declarations \/ (Head(ts).k = "holder" /\ Head(ts).t = "ThermalZone")
           /\ Len(ts) < 8 /\ Len(EncList(ts)) < 8

\* The first of ts.
Step(ts, scope, r) == IF Cut(ts) THEN Fail(r, "error") ELSE Do(Head(ts), scope, r)

Run(ts, scope, r) ==
    IF ts = <<>> \/ ~ On(r) THEN r
    ELSE With(Step(ts, scope, r), LAMBDA q : Run(Tail(ts), scope, q))

\* The condition as a number, or an error.
Test(e, scope, r, F(_, _)) ==
    Using(<<e>>, scope, r, LAMBDA v, q : IF Num(v[1]).e = "ok" THEN F(Num(v[1]).v, q)
                                        ELSE Fail(q, Wrong(Num(v[1]))))

Loop(t, scope, r) ==
    Test(t.e, scope, r, LAMBDA c, q :
         IF c = 0 THEN q
         ELSE With(Run(t.body, scope, q), LAMBDA b :
                   CASE b.out # "ok" \/ b.go = "return" -> b
                     [] b.go = "break" -> [b EXCEPT !.go = "on"]
                     [] OTHER          -> Loop(t, scope, [b EXCEPT !.go = "on"])))

\* Terms inside a device or a loaded table: the names they declare, apart.
Apart(ts, scope, r, F(_, _)) ==
    With(Run(ts, scope, [r EXCEPT !.names = <<>>]), LAMBDA q :
    With([q EXCEPT !.names = r.names], LAMBDA back : IF q.out = "ok" THEN F(q.names, back) ELSE back))

\* The fields of a region lie one behind the other; access and connection hold
\* for those that follow.
Field(t, scope, r) ==
    FoldLeft(LAMBDA acc, el :
        CASE el.k = "named" /\ On(acc.r) ->
                [acc EXCEPT !.off = @ + el.bits,
                            !.r = Bound(KeyOf(Append(scope, el.seg)),
                                        FieldUnit([k \in DOMAIN t.ps |-> Raw(t.ps[k])], acc.conn,
                                                  acc.flags, acc.off, el.bits), @)]
          [] el.k = "gap"     -> [acc EXCEPT !.off = @ + el.bits]
          [] el.k = "access"  -> [acc EXCEPT !.flags.access = el.access, !.flags.attrib =
                                      IF el.access = 5 THEN <<el.attrib, 0>> ELSE <<0, 0>>]
          [] el.k = "connect" -> [acc EXCEPT !.conn = Alias(Raw(el.p))]
          [] OTHER            -> acc,
        [r |-> r, off |-> 0, conn |-> Uninitialized,
         flags |-> [access |-> 1, attrib |-> <<0, 0>>, lock |-> TRUE, update |-> 0]], t.els).r

\* The fixed bytes of a processor and of a power resource.
HolderData(t) == CASE t.t = "Processor"     -> <<t.fixed[1], IF t.fixed[6] > 0 THEN SubSeq(t.fixed, 2, 5) ELSE <<>> >>
                   [] t.t = "PowerResource" -> <<t.fixed[1], t.fixed[2] + 256 * t.fixed[3]>>
                   [] OTHER                 -> <<>>

\* Events, tables in buffers and handles are used through the name as it is written.
Used(p, types, r, F(_)) ==
    IF Raw(p) \in DOMAIN r.env /\ r.env[Raw(p)].t \in types THEN F(r.env[Raw(p)]) ELSE Fail(r, "error")
Counted(p, n, r) == [r EXCEPT !.env = Put(@, Raw(p), Event(n))]

\* An element is replaced as it is; one that cannot be is left alone.
Replaced(t, v, scope, r) ==
    IF Raw(t.p) \notin DOMAIN r.env THEN Fail(r, "error")
    ELSE Test(t.x, scope, r, LAMBDA n, q :
         LET o == q.env[Raw(t.p)]
             set(new) == [q EXCEPT !.env = Put(@, Raw(t.p), new)]
         IN  CASE o.t \notin Indexed -> q
               [] o.t # "Package" /\ Num(v).e # "ok" -> IF Num(v).e = "Panic" THEN Fail(q, "panic") ELSE q
               [] n >= Len(Elements(o)) -> Fail(q, "panic")
               [] o.t = "Package" -> set([o EXCEPT !.p[n + 1] = v])
               [] OTHER -> LET b == [o.b EXCEPT ![n + 1] = Num(v).v % 256]
                           IN  IF o.t = "String" /\ ~ Utf8(b) THEN Fail(q, "panic") ELSE set([o EXCEPT !.b = b]))

Do(t, scope, r) ==
    LET key == KeyOf(Path(t.p, scope))
    IN  CASE t.k = "name"   -> Using(<<t.e>>, scope, r, LAMBDA v, q : Bound(key, v[1], q))
          [] t.k = "scope"  -> Run(t.body, Path(t.p, scope), r)
          [] t.k = "method" -> Bound(key, Method(t.argc % 8, FALSE, t.argc, EncList(t.body)), r)
          [] t.k = "event"  -> Bound(key, Event(0), r)
          [] t.k = "mutex"  -> Bound(key, Mutex(t.level, 0), r)
          [] t.k = "holder" -> Apart(t.body, Path(t.p, scope), r, LAMBDA names, q :
                                     Bound(key, Holder(t.t, HolderData(t), names), q))
          [] t.k = "create" -> Using(t.es, scope, r, LAMBDA v, q : Bound(key, BufferField(v[1], v[2], v[3]), q))
          [] t.k = "dataregion" -> Using(t.es, scope, r, LAMBDA v, q :
                                     Bound(key, OperationRegion(0, IntegerConstant(0), IntegerConstant(0), 0), q))
          [] t.k = "alias"  -> Bound(key, Alias(KeyOf(Path(t.h, scope))), r)
          [] t.k = "region" -> Using(<<t.x, t.y>>, scope, r, LAMBDA v, q :
                                     Bound(key, OperationRegion(1, v[1], v[2], 0), q))
          [] t.k = "field"  -> Field(t, scope, r)
          [] t.k = "if"     -> Test(t.e, scope, r, LAMBDA c, q :
                                    Run(IF c > 0 THEN t.body ELSE t.else, scope, q))
          [] t.k = "while"  -> Loop(t, scope, r)
          [] t.k = "store"  -> Using(<<t.e>>, scope, r, LAMBDA v, q : Assign(Raw(t.p), v[1], q))
          [] t.k = "copy"   -> Using(<<t.e>>, scope, r, LAMBDA v, q :
                                     [q EXCEPT !.env = Put(@, Raw(t.p), v[1])])
          [] t.k = "concat" -> Using(<<t.x, t.y>>, scope, r, LAMBDA v, q :
                                     Assign(Raw(t.p), Joined(v[1], v[2]), q))
          [] t.k = "concatres" -> Using(<<t.x, t.y>>, scope, r, LAMBDA v, q :
                                     Assign(Raw(t.p), JoinedResources(v[1].b, v[2].b), q))
          [] t.k = "put"    -> Using(<<t.e>>, scope, r, LAMBDA v, q : Replaced(t, v[1], scope, q))
          [] t.k = "notify" -> Using(<<t.e>>, scope, r, LAMBDA v, q :
                                     Used(t.p, {"Device", "Processor", "ThermalZone"}, q, LAMBDA o : q))
          \* what follows is read one byte too early, which abandons the table
          [] t.k = "condref" -> Fail(IF Raw(t.p) \in DOMAIN r.env THEN Assign(Raw(t.h), Object(Raw(t.p)), r)
                                     ELSE r, "error")
          [] t.k = "convert" -> Using(<<t.e>>, scope, r, LAMBDA v, q :
                                     Fail(Assign(Raw(t.p), Converted(t.op, v[1]), q), "error"))
          [] t.k = "raw"    -> Fail(r, t.out)
          [] t.k = "signal" -> Used(t.p, {"Event"}, r, LAMBDA o : Counted(t.p, o.count + 1, r))
          [] t.k = "wait"   -> Used(t.p, {"Event"}, r, LAMBDA o :
                                    IF o.count > 0 THEN Counted(t.p, o.count - 1, r) ELSE Fail(r, "stuck"))
          [] t.k = "reset"  -> Used(t.p, {"Event"}, r, LAMBDA o : Counted(t.p, 0, r))
          [] t.k = "load"   -> Used(t.p, {"Buffer"}, r, LAMBDA o :
                               With(CHOOSE x \in Loadable : x.bytes = o.b, LAMBDA l :
                                    Apart(l.body, <<>>, r, LAMBDA names, q :
                                          Assign(Raw(t.h), DDBHandle(names, l.sig), q))))
          [] t.k = "unload" -> Used(t.h, {"DDBHandle"}, r, LAMBDA o :
                                    [r EXCEPT !.env = Without(@, o.names)])
          [] t.k = "return" -> Using(<<t.e>>, scope, r, LAMBDA v, q :
                                     [q EXCEPT !.go = "return", !.ret = v[1]])
          [] t.k = "do"     -> Using(<<t.e>>, scope, r, LAMBDA v, q : q)
          [] t.k = "break"  -> [r EXCEPT !.go = "break"]
          [] t.k = "fatal"  -> Fail(r, "fatal")
          [] t.k \in {"release", "noop"} -> r

-----------------------------------------------------------------------------
vars == <<env, queue, status>>
Fresh == [env |-> env, names |-> <<>>, args |-> [k \in 1..8 |-> Uninitialized], ret |-> None,
          out |-> "ok", go |-> "on"]

\* The next term of the table that runs.
Term ==
    /\ status = "running" /\ queue # <<>> /\ Head(queue) # <<>>
    /\ \E ts \in {Head(queue)}, from \in {Fresh} : \E r \in {Step(ts, <<>>, from)} :
           /\ env' = r.env
           /\ status' = IF r.out \in {"ok", "error"} THEN "running" ELSE r.out
           /\ queue' = <<IF On(r) THEN Tail(Head(queue)) ELSE <<>> >> \o Tail(queue)

NextTable ==
    /\ status = "running" /\ queue # <<>> /\ Head(queue) = <<>>
    /\ queue' = Tail(queue)
    /\ UNCHANGED <<env, status>>

Init == env = <<>> /\ status = "running"
Next == Term \/ NextTable
Spec == Init /\ [][Next]_vars
=============================================================================
