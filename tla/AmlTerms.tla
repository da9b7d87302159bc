------------------------------ MODULE AmlTerms ------------------------------
(***************************************************************************)
(* AML terms and their encoding as the bytes of a table.  A term is a      *)
(* record with its kind k, an expression likewise; a name p is [abs,       *)
(* segs], segs being its four-character segments.  This is an assembler:   *)
(* it is how the instances and the abstract specification build what the   *)
(* interpreter is given, and models no code of the kernel.                 *)
(***************************************************************************)
EXTENDS AmlValues

Strip(seg) == SubSeq(seg, 1, SelectLastInSeq(seg, LAMBDA c : c # Underscore))
Join(segs) == FoldLeft(LAMBDA acc, seg : IF acc = <<>> THEN Strip(seg)
                                         ELSE acc \o <<Dot>> \o Strip(seg), <<>>, segs)
KeyOf(segs) == <<Backslash>> \o Join(segs)

EncName(p) ==
    (IF p.abs THEN <<Backslash>> ELSE <<>>) \o
    CASE Len(p.segs) = 0 -> <<0>>
      [] Len(p.segs) = 1 -> p.segs[1]
      [] Len(p.segs) = 2 -> <<\h2E>> \o p.segs[1] \o p.segs[2]
      [] OTHER           -> <<\h2F, Len(p.segs)>> \o FlattenSeq(p.segs)

\* A package length counts itself: one byte up to 63, two beyond.
Sized(op, bytes) ==
    LET n == Len(bytes)
    IN  op \o (IF n < 63 THEN <<n + 1>> ELSE <<64 + ((n + 2) % 16), (n + 2) \div 16>>) \o bytes

\* Two operands, and a target left out unless the operation is logical.
BinOp == [add |-> \h72, subtract |-> \h74, multiply |-> \h77, shl |-> \h79, shr |-> \h7A,
          and |-> \h7B, nand |-> \h7C, or |-> \h7D, nor |-> \h7E, xor |-> \h7F, mod |-> \h85,
          divide |-> \h78, tostring |-> \h9C,
          land |-> \h90, lor |-> \h91, lequal |-> \h93, lgreater |-> \h94, lless |-> \h95]
Logical == {"land", "lor", "lequal", "lgreater", "lless"}

RECURSIVE EncExpr(_), EncTerm(_)
EncAll(es) == FlattenSeq([j \in DOMAIN es |-> EncExpr(es[j])])

EncExpr(e) ==
    CASE e.k = "byte"  -> <<\h0A, e.i>>
      [] e.k = "word"  -> <<\h0B, e.i % 256, e.i \div 256>>
      [] e.k = "dword" -> <<\h0C, e.i % 256, e.i \div 256, 0, 0>>
      [] e.k = "qword" -> <<\h0E, e.i % 256, e.i \div 256, 0, 0, 0, 0, 0, 0>>
      [] e.k = "const" -> <<CASE e.i = 0 -> 0 [] e.i = 1 -> 1 [] OTHER -> \hFF>>
      [] e.k = "timer" -> <<\h5B, \h33>>
      [] e.k = "text"  -> <<\h0D>> \o e.b \o <<0>>
      [] e.k = "bytes" -> Sized(<<\h11>>, <<\h0B, Len(e.b) % 256, Len(e.b) \div 256>> \o e.b)
      [] e.k = "pack"  -> Sized(<<\h12>>, <<e.i>> \o EncAll(e.es))
      [] e.k = "varpack" -> Sized(<<\h13>>, EncExpr(e.x) \o EncAll(e.es))
      [] e.k = "object" -> EncName(e.p)
      [] e.k = "deref" -> <<\h83, \h71>> \o EncName(e.p)
      [] e.k = "elem"  -> <<\h83, \h88, \h71>> \o EncName(e.p) \o EncExpr(e.x) \o <<0>>
      [] e.k = "arg"   -> <<\h83, \h71, \h68 + e.i>>
      [] e.k = "sizeof" -> <<\h87>> \o EncName(e.p)
      [] e.k = "call"  -> EncName(e.p) \o EncAll(e.es)
      [] e.k = "not"   -> <<\h80>> \o EncExpr(e.x) \o <<0>>
      [] e.k = "lnot"  -> <<\h92>> \o EncExpr(e.x)
      [] e.k = "frombcd" -> <<\h5B, \h28>> \o EncExpr(e.x) \o <<0>>
      [] e.k = "mid"   -> <<\h9E>> \o EncAll(e.es) \o <<0>>
      [] e.k = "match" -> <<\h28>> \o EncExpr(e.es[1]) \o <<e.ops[1]>> \o EncExpr(e.es[2]) \o
                          <<e.ops[2]>> \o EncExpr(e.es[3]) \o EncExpr(e.es[4])
      [] e.k = "loadtable" -> <<\h5B, \h1F>> \o EncAll(e.es)
      [] OTHER         -> <<BinOp[e.k]>> \o EncExpr(e.x) \o EncExpr(e.y) \o
                          CASE e.k \in Logical -> <<>> [] e.k = "divide" -> <<0, 0>> [] OTHER -> <<0>>

HolderOp == [Device |-> \h82, Processor |-> \h83, PowerResource |-> \h84, ThermalZone |-> \h85]

\* The conversions, with the byte between the opcode and the operand that the
\* interpreter steps over (a real table has none: see the README).
ConvertOp == [left |-> \h8100, right |-> \h8200, buffer |-> \h9600, decimal |-> \h9700,
              hex |-> \h9800, integer |-> \h9900, bcd |-> \h5B29]

\* Elements of a field list: a named field, a gap, an access change, a connection.
EncElement(el) == CASE el.k = "named"   -> el.seg \o <<el.bits>>
                    [] el.k = "gap"     -> <<0, el.bits>>
                    [] el.k = "access"  -> <<1, el.access, el.attrib>>
                    [] el.k = "connect" -> <<2>> \o EncName(el.p)

EncList(ts) == FlattenSeq([j \in DOMAIN ts |-> EncTerm(ts[j])])

EncTerm(t) ==
    CASE t.k = "name"   -> <<\h08>> \o EncName(t.p) \o EncExpr(t.e)
      [] t.k = "scope"  -> Sized(<<\h10>>, EncName(t.p) \o EncList(t.body))
      [] t.k = "holder" -> Sized(<<\h5B, HolderOp[t.t]>>, EncName(t.p) \o t.fixed \o EncList(t.body))
      [] t.k = "method" -> Sized(<<\h14>>, EncName(t.p) \o <<t.argc>> \o EncList(t.body))
      [] t.k = "field"  -> Sized(<<\h5B, IF Len(t.ps) = 1 THEN \h81 ELSE \h86>>,
                                 FlattenSeq([j \in DOMAIN t.ps |-> EncName(t.ps[j])]) \o <<\h11>> \o
                                 FlattenSeq([j \in DOMAIN t.els |-> EncElement(t.els[j])]))
      [] t.k = "create" -> <<\h5B, \h13>> \o EncAll(t.es) \o EncName(t.p)
      [] t.k = "dataregion" -> <<\h5B, \h88>> \o EncName(t.p) \o EncAll(t.es)
      [] t.k = "alias"  -> <<\h06>> \o EncName(t.p) \o EncName(t.h)
      [] t.k = "notify" -> <<\h86>> \o EncName(t.p) \o EncExpr(t.e)
      [] t.k = "concat" -> <<\h73>> \o EncExpr(t.x) \o EncExpr(t.y) \o EncName(t.p)
      [] t.k = "concatres" -> <<\h84>> \o EncExpr(t.x) \o EncExpr(t.y) \o EncName(t.p)
      [] t.k = "put"    -> <<\h70>> \o EncExpr(t.e) \o <<\h88, \h71>> \o EncName(t.p) \o
                           EncExpr(t.x) \o <<0>>
      [] t.k = "condref" -> <<\h5B, \h12>> \o EncName(t.p) \o EncName(t.h)
      [] t.k = "convert" -> <<ConvertOp[t.op] \div 256, ConvertOp[t.op] % 256>> \o
                            EncExpr(t.e) \o EncName(t.p)
      [] t.k = "raw"    -> t.b
      [] t.k = "region" -> <<\h5B, \h80>> \o EncName(t.p) \o <<1>> \o EncExpr(t.x) \o EncExpr(t.y)
      [] t.k = "event"  -> <<\h5B, \h02>> \o EncName(t.p)
      [] t.k = "mutex"  -> <<\h5B, \h01>> \o EncName(t.p) \o <<t.level>>
      [] t.k = "if"     -> Sized(<<\hA0>>, EncExpr(t.e) \o EncList(t.body)) \o
                           (IF t.else = <<>> THEN <<>> ELSE Sized(<<\hA1>>, EncList(t.else)))
      [] t.k = "while"  -> Sized(<<\hA2>>, EncExpr(t.e) \o EncList(t.body))
      [] t.k = "store"  -> <<\h70>> \o EncExpr(t.e) \o EncName(t.p)
      [] t.k = "copy"   -> <<\h9D>> \o EncExpr(t.e) \o EncName(t.p)
      [] t.k = "signal" -> <<\h5B, \h24>> \o EncName(t.p)
      [] t.k = "wait"   -> <<\h5B, \h25>> \o EncName(t.p) \o <<0>>
      [] t.k = "reset"  -> <<\h5B, \h26>> \o EncName(t.p)
      [] t.k = "release" -> <<\h5B, \h27>> \o EncName(t.p)
      [] t.k = "load"   -> <<\h5B, \h20>> \o EncName(t.p) \o EncName(t.h)
      [] t.k = "unload" -> <<\h5B, \h2A>> \o EncName(t.h)
      [] t.k = "return" -> <<\hA4>> \o EncExpr(t.e)
      [] t.k = "break"  -> <<\hA5>>
      [] t.k = "noop"   -> <<\hA3>>
      [] t.k = "do"     -> EncExpr(t.e)
      [] t.k = "fatal"  -> <<\h5B, \h32, 0, 0, 0, 0, 0, 0>>

\* A table in a buffer: its header, with an id, and its terms.
HeaderSize == 36
EncSdt(sig, id, body) ==
    LET n == HeaderSize + Len(body)
    IN  sig \o <<n % 256, n \div 256, 0, 0, 1, 0>> \o [j \in 1..14 |-> id] \o
        [j \in 1..12 |-> 0] \o body
SigOf(sig, id) == <<sig, [j \in 1..6 |-> id], [j \in 1..8 |-> id]>>
=============================================================================
