----------------------------- MODULE AmlInterp -----------------------------
(***************************************************************************)
(* The AML interpreter: the recursive descent of kernel/src/acpi/aml over  *)
(* the bytes of a table, which parses and executes at once.  One operator  *)
(* per function of the source, under its name; d is the slice it is given, *)
(* s the interpreter's state, and the result [e, v, n, s] its outcome, its *)
(* value, the bytes it consumed and the state it leaves.                   *)
(*                                                                         *)
(* The source tries the alternatives of a rule in order and goes on to the *)
(* next one only on AmlInvalidOpCode (parser_selector!).  The alternatives *)
(* start with different opcodes, so a CASE on the opcode picks the one     *)
(* that can match; where an alternative looks at the length of the slice   *)
(* before the opcode, the order matters and is kept.                       *)
(*                                                                         *)
(* Every parse function begins by returning at once unless the state is    *)
(* EXECUTING.  BREAK, CONTINUE and RETURN are set by the last thing a term *)
(* does and every list stops on them, so that test never fires outside the *)
(* lists and the loop, where it is modelled.                               *)
(*                                                                         *)
(* Tables run while the kernel boots, on one processor with interrupts     *)
(* off, so the clock that Sleep, Stall and Wait read does not move.        *)
(***************************************************************************)
EXTENDS AmlContext, Bitwise

CONSTANT LoopBound          \* turns of a While after which it counts as endless
ASSUME LoopBoundAssumption == LoopBound \in Nat \ {0}

Null == 0

\* data[k] and data[k..]; -1 and the empty slice make their reader panic.
At(d, k)   == IF k < Len(d) THEN d[k + 1] ELSE -1
From(d, k) == IF k <= Len(d) THEN SubSeq(d, k + 1, Len(d)) ELSE <<>>

\* data[a..b]
Slice(d, a, b, s, F(_)) ==
    IF a > b \/ b > Len(d) THEN Err("Panic", s) ELSE F(SubSeq(d, a + 1, b))

\* The opcode, two bytes when the first is the extension prefix 0x5B.
Opcode(d) == CASE At(d, 0) # \h5B -> At(d, 0)
               [] At(d, 1) = -1   -> -1
               [] OTHER           -> 256 * \h5B + d[2]

\* parser_selector!: the next alternative only after AmlInvalidOpCode.
OrElse(r, F(_)) == IF r.e = "InvalidOpCode" THEN F(r.s) ELSE r

\* if let Ok(..) = ... else: the alternative after any error.
IfOk(r, F(_)) == IF r.e = "ok" \/ r.e \in Fatals THEN r ELSE F(r.s)

Pkg(d, at, s, F(_)) == Take(parse_pkg_length(From(d, at)), s, F)
IntOf(v, s, F(_))   == Take(get_as_integer(v, s.order), s, F)
BufOf(v, s, F(_))   == Take(get_as_buffer(v, s.order), s, F)

\* The same for several values, one after the other.
IntsOf(vs, s, F(_)) == Take(AllOf([k \in DOMAIN vs |-> get_as_integer(vs[k], s.order)]), s, F)
BufsOf(vs, s, F(_)) == Take(AllOf([k \in DOMAIN vs |-> get_as_buffer(vs[k], s.order)]), s, F)
TextsOf(vs, s, F(_)) == Take(AllOf([k \in DOMAIN vs |-> get_as_string(vs[k], s.order)]), s, F)
Scoped(name, s)     == Lift(get_namespace_string(s.scope, name, s.order), s)

\* let _ = ctx.modify(to, v): the value of the term is v whatever happens.
To(target, v, n, s) == Ok([to |-> target, v |-> v], n, s)
Stored(r) == Then(r, LAMBDA q :
             Then(Ignore(modify(q.v.to, q.v.v, q.s)), LAMBDA w : Ok(q.v.v, q.n, w.s)))

\* A declaration ends by adding its object under the name in the current scope.
Declare(name, v, n, s) ==
    Then(Scoped(name, s), LAMBDA p :
    Then(add_to_namespace(p.v, v, s), LAMBDA r : Ok(None, n, r.s)))

\* u64 multiplication, wrapping, without leaving TLC's integers.
Times(a, b) == (a * (b % 256) + 256 * ((a * (b \div 256)) % (Word \div 256))) % Word
ShiftCount(b) == b % (8 * WordBytes)        \* the processor masks the count

-----------------------------------------------------------------------------
\* namestring.rs.  A segment is four characters; trailing underscores are
\* padding, and a segment of nothing else empties the vector (unwrap on None).
NameLead == (\h41..\h5A) \cup {Underscore}
NameChar == NameLead \cup (\h30..\h39)

parse_name_seg(d) ==
    LET bad == {k \in 0..3 : At(d, k) \notin IF k = 0 THEN NameLead ELSE NameChar}
        first == CHOOSE k \in bad : \A j \in bad : k <= j
        kept == {k \in 1..4 : d[k] # Underscore}
    IN  CASE bad # {} -> Bad(IF At(d, first) = -1 THEN "Panic" ELSE "InvalidOpCode")
          [] kept = {} -> Bad("Panic")
          [] OTHER -> Good(SubSeq(d, 1, CHOOSE k \in kept : \A j \in kept : k >= j))

parse_dual_name_path(d) ==
    IF Len(d) < 5 THEN Bad("Panic")
    ELSE Bind(parse_name_seg(SubSeq(d, 2, 5)), LAMBDA a :
         IF Len(d) < 9 THEN Bad("Panic")
         ELSE Bind(parse_name_seg(SubSeq(d, 6, 9)), LAMBDA b : Good(a \o <<Dot>> \o b)))

RECURSIVE Segments(_, _)
Segments(d, count) ==
    Bind(parse_name_seg(d), LAMBDA a :
         IF count = 1 THEN Good(a)
         ELSE Bind(Segments(From(d, 4), count - 1), LAMBDA b : Good(a \o <<Dot>> \o b)))

parse_multi_name_path(d) ==
    CASE At(d, 1) = -1 -> Bad("Panic")
      [] At(d, 1) = 0  -> Bad("ParseError")
      [] OTHER         -> Segments(From(d, 2), d[2])

\* The root prefix or any number of parent prefixes, then a path.
parse_name_string(d, s) ==
    LET rest == {k \in DOMAIN d : d[k] # Caret}
        start == CASE At(d, 0) = Backslash -> 1
                   [] At(d, 0) = Caret -> Min(rest) - 1
                   [] OTHER -> 0
        p == From(d, start)
        path == CASE p = <<>>        -> Bad("Panic")
                  [] p[1] = \h2E     -> parse_dual_name_path(p)
                  [] p[1] = \h2F     -> parse_multi_name_path(p)
                  [] p[1] = Null     -> Good(<<>>)
                  [] OTHER           -> parse_name_seg(p)
        len == CASE p[1] = \h2E -> 9
                 [] p[1] = \h2F -> 2 + 4 * p[2]
                 [] p[1] = Null -> 1
                 [] OTHER       -> 4
    IN  IF At(d, 0) = Caret /\ rest = {} THEN Err("Panic", s)
        ELSE Then(Lift(path, s), LAMBDA r :
                  Ok(String(SubSeq(d, 1, start) \o r.v), start + len, s))

\* dataobj.rs: 0x68..0x6E name the arguments; the locals are looked for in the
\* same range, so an argument in the position of a term is a local past the end.
parse_arg_obj(d, s) ==
    CASE d = <<>>               -> Err("Panic", s)
      [] d[1] \in \h68..\h6E    -> Ok(ArgObj(d[1] - \h68), 1, s)
      [] OTHER                  -> Err("InvalidOpCode", s)

parse_local_obj(d, s) ==
    CASE d = <<>>               -> Err("Panic", s)
      [] d[1] \in \h68..\h6E    -> Ok(LocalObj(d[1] - \h60), 1, s)
      [] OTHER                  -> Err("InvalidOpCode", s)

parse_debug_obj(d, s) ==
    CASE Opcode(d) = -1    -> Err("Panic", s)
      [] Opcode(d) = \h5B31 -> Ok(DebugObject, 2, s)
      [] OTHER             -> Err("InvalidOpCode", s)

parse_simple_name(d, s) ==
    OrElse(OrElse(parse_name_string(d, s),
                  LAMBDA t : parse_arg_obj(d, t)), LAMBDA t : parse_local_obj(d, t))

-----------------------------------------------------------------------------
\* The rules that need one another.  They call each other through Parse, which
\* is the only recursion between rules: Parse("term_arg", d, s) is
\* parse_term_arg(d, s).  The rest are the loops over the elements of a list.
RECURSIVE Parse(_, _, _), Operands(_, _, _, _), List(_, _, _, _),
          ElementsList(_, _, _, _), WhileLoop(_, _, _, _), FieldList(_, _, _, _)

\* The operands of an opcode, one after the other from offset at; v is the
\* sequence of their values, n the offset behind the last one.
Operands(d, at, rules, s) ==
    IF rules = <<>> THEN Ok(<<>>, at, s)
    ELSE Then(Parse(Head(rules), From(d, at), s), LAMBDA r :
         Then(Operands(d, at + r.n, Tail(rules), r.s), LAMBDA q :
              Ok(<<r.v>> \o q.v, q.n, q.s)))

-----------------------------------------------------------------------------
\* termlist.rs.  A list stops when a term leaves the state EXECUTING.
List(rule, d, at, s) ==
    IF at >= Len(d) THEN Ok(None, Len(d), s)
    ELSE Then(Parse(rule, From(d, at), s), LAMBDA r :
              IF r.s.state # "EXECUTING" THEN Ok(None, Len(d), r.s)
              ELSE List(rule, d, at + r.n, r.s))

parse_term_list(d, s)   == List("term_obj", d, 0, s)
parse_object_list(d, s) == List("object", d, 0, s)

\* Method::execute: a context of its own; an error ends the method like a
\* missing Return, and what it declared is removed.
execute(m, scope, params, s) ==
    LET body == parse_term_list(m.code, init_arg_vars(NewContext(s, scope), params))
    IN  Then(Ignore(body), LAMBDA r :
        Then(clean_namespace(r.s), LAMBDA c :
             Ok(IF c.s.state = "RETURN" THEN c.s.ret ELSE IntegerConstant(0), 0, BackTo(s, c.s))))

\* The method is looked up under the name as it is written.
parse_method_invocation(d, s) ==
    Then(Parse("name_string", d, s), LAMBDA name :
    Then(get(name.v, s), LAMBDA m :
    IF m.v.t # "Method" THEN Err(IF m.v.t = "None" THEN "DeferredLoad" ELSE "ValueError", s)
    ELSE Then(Operands(d, name.n, [k \in 1..m.v.argc |-> "term_arg"], s), LAMBDA r :
         Then(Scoped(name.v, r.s), LAMBDA scope :
         Then(execute(m.v, scope.v, r.v, r.s), LAMBDA q : Ok(q.v, r.n, q.s))))))

\* The inner context r is done: its names, or its error, in the outer one.
Leave(r, s) == IF r.e = "ok" THEN Ok(r.s.delta, 0, BackTo(s, r.s)) ELSE Err(r.e, BackTo(s, r.s))

parse_aml_with_scope(sdt, scope, s) ==
    Leave(parse_term_list(sdt.data, NewContext(s, scope)), s)

parse_aml_table(sdt, s) == parse_aml_with_scope(sdt, <<Backslash>>, s)

-----------------------------------------------------------------------------
\* dataobj.rs and the data objects of type2opcode.rs.
Truncate(q, n) == SubSeq(q, 1, IF Len(q) < n THEN Len(q) ELSE n)

\* The bytes behind the declared size are dropped; missing ones are not added.
parse_def_buffer(d, s) ==
    CASE d = <<>> -> Err("Panic", s)
      [] d[1] # \h11 -> Err("InvalidOpCode", s)
      [] OTHER -> Pkg(d, 1, s, LAMBDA p :
                  Then(Parse("term_arg", From(d, 1 + p.n), s), LAMBDA size :
                  Slice(d, 1 + p.n + size.n, 1 + p.len, size.s, LAMBDA bytes :
                  IntOf(size.v, size.s, LAMBDA n :
                        Ok(Buffer(Truncate(bytes, n)), 1 + p.len, size.s)))))

\* An element that is no data is the name of an object, whether or not it exists.
ElementsList(d, at, elements, s) ==
    IF at >= Len(d) THEN Ok(Package(elements), Len(d), s)
    ELSE LET named(t) == Then(Parse("name_string", From(d, at), t), LAMBDA r :
                              Ok(Object(r.v.b), r.n, r.s))
         IN  Then(IfOk(Parse("data_ref_obj", From(d, at), s), named), LAMBDA r :
                  ElementsList(d, at + r.n, Append(elements, r.v), r.s))

parse_package_elements_list(d, s) == ElementsList(d, 0, <<>>, s)

Resize(elements, n) ==
    [k \in 1..n |-> IF k <= Len(elements) THEN elements[k] ELSE Uninitialized]

parse_def_package(d, s) ==
    Pkg(d, 1, s, LAMBDA p :
        IF At(d, 1 + p.n) = -1 THEN Err("Panic", s)
        ELSE Slice(d, 2 + p.n, 1 + p.len, s, LAMBDA body :
             Then(parse_package_elements_list(body, s), LAMBDA r :
                  Ok(Package(Resize(r.v.p, At(d, 1 + p.n))), 1 + p.len, r.s))))

parse_def_var_package(d, s) ==
    Pkg(d, 1, s, LAMBDA p :
    Slice(d, 1 + p.n, 1 + p.len, s, LAMBDA all :
    Then(Parse("term_arg", all, s), LAMBDA num :
    Slice(d, 1 + p.n + num.n, 1 + p.len, num.s, LAMBDA body :
    Then(parse_package_elements_list(body, num.s), LAMBDA r :
    IntOf(num.v, r.s, LAMBDA n : Ok(Package(Resize(r.v.p, n)), 1 + p.len, r.s)))))))

\* The interpreter's revision of the standard, scaled like every u64.
Revision == 20170630 % Word

parse_computational_data(d, s) ==
    LET Number(n) == IF Len(d) < n THEN Err("Panic", s)
                     ELSE Ok(Integer(LittleEndian(SubSeq(d, 2, n))), n, s)
        ends == {k \in 2..Len(d) : d[k] = 0}
        text == SubSeq(d, 2, Min(ends) - 1)
    IN  CASE Opcode(d) = -1     -> Err("Panic", s)
          [] Opcode(d) = \h0A   -> Number(2)
          [] Opcode(d) = \h0B   -> Number(3)
          [] Opcode(d) = \h0C   -> Number(5)
          [] Opcode(d) = \h0E   -> Number(9)
          [] Opcode(d) = \h0D   ->
                CASE ends = {}    -> Err("Panic", s)
                  [] ~ Utf8(text) -> Err("ParseError", s)
                  [] OTHER        -> Ok(String(text), Min(ends), s)
          [] Opcode(d) = \h00   -> Ok(IntegerConstant(0), 1, s)
          [] Opcode(d) = \h01   -> Ok(IntegerConstant(1), 1, s)
          [] Opcode(d) = \hFF   -> Ok(IntegerConstant(Ones), 1, s)
          [] Opcode(d) = \h5B30 -> Ok(IntegerConstant(Revision), 2, s)
          [] OTHER              -> parse_def_buffer(d, s)

parse_data_obj(d, s) ==
    OrElse(parse_computational_data(d, s), LAMBDA t :
           CASE d[1] = \h12 -> parse_def_package(d, t)
             [] d[1] = \h13 -> parse_def_var_package(d, t)
             [] OTHER       -> Err("InvalidOpCode", t))

\* Locals come first: see parse_local_obj.
parse_term_arg(d, s) ==
    OrElse(OrElse(OrElse(parse_local_obj(d, s),
           LAMBDA t : Parse("data_obj", d, t)),
           LAMBDA t : parse_arg_obj(d, t)),
           LAMBDA t : Parse("type2_opcode", d, t))

parse_data_ref_obj(d, s) ==
    OrElse(OrElse(Parse("data_obj", d, s), LAMBDA t : Parse("term_arg", d, t)), LAMBDA t :
           Then(Parse("super_name", d, t), LAMBDA r :
                IF r.v.t = "String" THEN Ok(Object(r.v.b), r.n, r.s) ELSE r))

-----------------------------------------------------------------------------
\* type2opcode.rs: references.
parse_def_ref_of(d, s) ==
    Then(Parse("super_name", From(d, 1), s), LAMBDA obj :
    CASE obj.v.t = "String" ->
            Then(get(obj.v, obj.s), LAMBDA o :
                 IF o.v.t = "None" THEN Err("ValueError", o.s)
                 ELSE Ok(Object(obj.v.b), 1 + obj.n, o.s))
      [] obj.v.t = "ObjectReference" -> Ok(obj.v, 1 + obj.n, obj.s)
      [] OTHER -> Err("ValueError", obj.s))

parse_def_deref_of(d, s) ==
    Then(Parse("term_arg", From(d, 1), s), LAMBDA obj :
    Then(get(obj.v, obj.s), LAMBDA o :
         IF o.v.t = "None" THEN Err("ValueError", o.s) ELSE Ok(o.v, 1 + obj.n, o.s)))

parse_def_index(d, s) ==
    Stored(Then(Operands(d, 1, <<"term_arg", "term_arg", "target">>, s), LAMBDA r :
                To(r.v[3], Index(r.v[1], r.v[2]), r.n, r.s)))

\* The length counts one byte of the two-byte opcode.
parse_def_cond_ref_of(d, s) ==
    Then(Operands(d, 2, <<"super_name", "target">>, s), LAMBDA r :
    LET known == CASE r.v[1].t = "String" ->
                        Then(get(r.v[1], r.s), LAMBDA o :
                             Ok(IF o.v.t = "None" THEN None ELSE Object(r.v[1].b), 0, r.s))
                   [] r.v[1].t = "ObjectReference" -> Ok(r.v[1], 0, r.s)
                   [] OTHER -> Err("ValueError", r.s)
    IN  Then(known, LAMBDA ref :
        IF ref.v.t = "None" THEN Ok(Integer(0), r.n - 1, r.s)
        ELSE Then(Ignore(modify(r.v[2], ref.v, r.s)), LAMBDA q : Ok(Integer(1), r.n - 1, q.s))))

parse_type6_opcode(d, s) ==
    OrElse(CASE d = <<>>     -> Err("Panic", s)
             [] d[1] = \h83  -> parse_def_deref_of(d, s)
             [] d[1] = \h71  -> parse_def_ref_of(d, s)
             [] d[1] = \h88  -> parse_def_index(d, s)
             [] OTHER        -> Err("InvalidOpCode", s),
           LAMBDA t : Parse("method_invocation", d, t))

parse_super_name(d, s) ==
    OrElse(OrElse(Parse("simple_name", d, s), LAMBDA t : Parse("type6_opcode", d, t)),
           LAMBDA t : parse_debug_obj(d, t))

parse_target(d, s) ==
    CASE d = <<>>     -> Err("Panic", s)
      [] d[1] = Null  -> Ok(None, 1, s)
      [] OTHER        -> Parse("super_name", d, s)

\* The alternatives are given the slice with the opcode still in front.
parse_def_object_type(d, s) ==
    OrElse(OrElse(OrElse(Parse("super_name", d, s),
           LAMBDA t : IF d[1] = \h71 THEN parse_def_ref_of(d, t) ELSE Err("InvalidOpCode", t)),
           LAMBDA t : IF d[1] = \h83 THEN parse_def_deref_of(d, t) ELSE Err("InvalidOpCode", t)),
           LAMBDA t : IF d[1] = \h88 THEN parse_def_index(d, t) ELSE Err("InvalidOpCode", t))

-----------------------------------------------------------------------------
\* type2opcode.rs: arithmetic.
Arithmetic(d, s, F(_, _)) ==
    Stored(Then(Operands(d, 1, <<"term_arg", "term_arg", "target">>, s), LAMBDA r :
           IntsOf(<<r.v[1], r.v[2]>>, r.s, LAMBDA i :
                  To(r.v[3], Integer(F(i[1], i[2])), r.n, r.s))))

parse_def_add(d, s)      == Arithmetic(d, s, LAMBDA a, b : (a + b) % Word)
parse_def_subtract(d, s) == Arithmetic(d, s, LAMBDA a, b : (a - b) % Word)
parse_def_multiply(d, s) == Arithmetic(d, s, Times)
parse_def_and(d, s)      == Arithmetic(d, s, LAMBDA a, b : a & b)
parse_def_or(d, s)       == Arithmetic(d, s, LAMBDA a, b : a | b)
parse_def_xor(d, s)      == Arithmetic(d, s, LAMBDA a, b : a ^^ b)
parse_def_nand(d, s)     == Arithmetic(d, s, LAMBDA a, b : Ones - (a & b))
parse_def_nor(d, s)      == Arithmetic(d, s, LAMBDA a, b : Ones - (a | b))
\* The two shifts are exchanged in the source.
parse_def_shift_left(d, s)  == Arithmetic(d, s, LAMBDA a, b : a \div 2 ^ ShiftCount(b))
parse_def_shift_right(d, s) ==
    Arithmetic(d, s, LAMBDA a, b :
        (a % 2 ^ (8 * WordBytes - ShiftCount(b))) * 2 ^ ShiftCount(b))

parse_def_mod(d, s) ==
    Stored(Then(Operands(d, 1, <<"term_arg", "term_arg", "target">>, s), LAMBDA r :
           IntOf(r.v[2], r.s, LAMBDA b :
           IF b = 0 THEN Err("ValueError", r.s)
           ELSE IntOf(r.v[1], r.s, LAMBDA a : To(r.v[3], Integer(a % b), r.n, r.s)))))

parse_def_divide(d, s) ==
    LET divided ==
            Then(Operands(d, 1, <<"term_arg", "term_arg", "target", "target">>, s), LAMBDA r :
            IntsOf(<<r.v[1], r.v[2]>>, r.s, LAMBDA i :
            IF i[2] = 0 THEN Err("Panic", r.s)
            ELSE Ok([rest |-> [to |-> r.v[3], v |-> Integer(i[1] % i[2])],
                     quotient |-> [to |-> r.v[4], v |-> Integer(i[1] \div i[2])]], r.n, r.s)))
    IN  Stored(Then(divided, LAMBDA r :
               Then(Ignore(modify(r.v.rest.to, r.v.rest.v, r.s)), LAMBDA q :
                    Ok(r.v.quotient, r.n, q.s))))

parse_def_not(d, s) ==
    Stored(Then(Operands(d, 1, <<"term_arg", "target">>, s), LAMBDA r :
           IntOf(r.v[1], r.s, LAMBDA a : To(r.v[2], Integer(Ones - a), r.n, r.s))))

\* Increment and Decrement keep the namespace locked while they read and write.
StepBy(d, k, s) ==
    Then(Parse("super_name", From(d, 1), s), LAMBDA obj :
    LET held == [obj.s EXCEPT !.held = TRUE]
        unlocked(r) == [r EXCEPT !.s.held = FALSE]
    IN  Locked(obj.s, unlocked(Stored(
            Then(get(obj.v, held), LAMBDA o : IntOf(o.v, held, LAMBDA i :
                 To(obj.v, Integer((i + k) % Word), 1 + obj.n, held)))))))

parse_def_increment(d, s) == StepBy(d, 1, s)
parse_def_decrement(d, s) == StepBy(d, -1, s)

\* Logic: the results are constants and nothing is stored.
Truth(p, n, s) == Ok(IntegerConstant(IF p THEN 1 ELSE 0), n, s)

Compare(d, s, P(_, _)) ==
    Then(Operands(d, 1, <<"term_arg", "term_arg">>, s), LAMBDA r :
    IntsOf(r.v, r.s, LAMBDA i : Truth(P(i[1], i[2]), r.n, r.s)))

parse_def_lequal(d, s)   == Compare(d, s, LAMBDA a, b : a = b)
parse_def_lgreater(d, s) == Compare(d, s, LAMBDA a, b : a > b)
parse_def_lless(d, s)    == Compare(d, s, LAMBDA a, b : a < b)

\* && and || leave the second operand unconverted when the first decides.
parse_def_land(d, s) ==
    Then(Operands(d, 1, <<"term_arg", "term_arg">>, s), LAMBDA r :
    IntOf(r.v[1], r.s, LAMBDA a :
    IF a = 0 THEN Truth(FALSE, r.n, r.s)
    ELSE IntOf(r.v[2], r.s, LAMBDA b : Truth(b > 0, r.n, r.s))))

parse_def_lor(d, s) ==
    Then(Operands(d, 1, <<"term_arg", "term_arg">>, s), LAMBDA r :
    IntOf(r.v[1], r.s, LAMBDA a :
    IF a > 0 THEN Truth(TRUE, r.n, r.s)
    ELSE IntOf(r.v[2], r.s, LAMBDA b : Truth(b > 0, r.n, r.s))))

parse_def_lnot(d, s) ==
    Then(Parse("term_arg", From(d, 1), s), LAMBDA r :
    IntOf(r.v, r.s, LAMBDA a : Truth(a = 0, 1 + r.n, r.s)))

-----------------------------------------------------------------------------
\* type2opcode.rs: conversions.  Most of them take their operand one byte too
\* far behind the opcode and count one byte less than they used.
Convert(d, s, F(_, _)) ==
    Stored(Then(Operands(d, 2, <<"term_arg", "target">>, s), LAMBDA r :
           Then(F(r.v[1], r.s), LAMBDA q : To(r.v[2], q.v, r.n - 1, r.s))))

\* Numbers in the given base, buffers byte by byte, strings as they are.
Written(v, base, s) ==
    CASE v.t = "Integer" -> Ok(String(Digits(v.i, base)), 0, s)
      [] v.t = "String"  -> Ok(v, 0, s)
      [] v.t = "Buffer"  -> Ok(String(FlattenSeq([k \in DOMAIN v.b |-> Digits(v.b[k], base)])), 0, s)
      [] OTHER           -> Err("ValueError", s)

parse_def_to_hex_string(d, s)     == Convert(d, s, LAMBDA v, t : Written(v, 16, t))
parse_def_to_decimal_string(d, s) == Convert(d, s, LAMBDA v, t : Written(v, 10, t))
parse_def_to_buffer(d, s)  == Convert(d, s, LAMBDA v, t : BufOf(v, t, LAMBDA b : Ok(Buffer(b), 0, t)))
parse_def_to_integer(d, s) == Convert(d, s, LAMBDA v, t : IntOf(v, t, LAMBDA i : Ok(Integer(i), 0, t)))

\* while i != 0 { result = result * to + i % from; i /= from }, both digits reversed.
RECURSIVE Redigit(_, _, _, _)
Redigit(i, from, to, acc) ==
    IF i = 0 THEN acc ELSE Redigit(i \div from, from, to, (acc * to + (i % from)) % Word)

parse_def_to_bcd(d, s) ==
    Convert(d, s, LAMBDA v, t : IntOf(v, t, LAMBDA i : Ok(Integer(Redigit(i, 10, 16, 0)), 0, t)))

\* A digit ten is let through.
parse_def_from_bcd(d, s) ==
    Stored(Then(Operands(d, 2, <<"term_arg", "target">>, s), LAMBDA r :
           IntOf(r.v[1], r.s, LAMBDA i :
           IF \E k \in 0 .. 2 * WordBytes - 1 : (i \div 16 ^ k) % 16 > 10 THEN Err("ValueError", r.s)
           ELSE To(r.v[2], Integer(Redigit(i, 16, 10, 0)), r.n, r.s))))

parse_def_to_string(d, s) ==
    Stored(Then(Operands(d, 1, <<"term_arg", "term_arg", "target">>, s), LAMBDA r :
           BufOf(r.v[1], r.s, LAMBDA b :
           IF ~ Utf8(b) THEN Err("ValueError", r.s)
           ELSE IntOf(r.v[2], r.s, LAMBDA n : To(r.v[3], String(Truncate(b, n)), r.n, r.s)))))

\* The searches look at 32 of the 64 bits: half of the scaled word.
HalfBits == 4 * WordBytes

parse_def_find_set_left_bit(d, s) ==
    Convert(d, s, LAMBDA v, t : IntOf(v, t, LAMBDA i :
        LET set == {k \in 1..HalfBits : (i \div 2 ^ (HalfBits + k - 1)) % 2 = 1}
        IN  Ok(Integer(CHOOSE k \in set \cup {0} : \A j \in set : k >= j), 0, t)))

parse_def_find_set_right_bit(d, s) ==
    Convert(d, s, LAMBDA v, t : IntOf(v, t, LAMBDA i :
        LET set == {k \in 1..HalfBits : (i \div 2 ^ (k - 1)) % 2 = 1}
        IN  Ok(Integer(IF set = {} THEN 0 ELSE CHOOSE k \in set : \A j \in set : k <= j), 0, t)))

\* Unlike the others, the two concatenations fail without a target to store in.
StoredOrFails(r) == Then(r, LAMBDA q :
                    Then(modify(q.v.to, q.v.v, q.s), LAMBDA w : Ok(q.v.v, q.n, w.s)))

\* Resource templates: both end tags go, one with the checksum comes.
parse_def_concat_res(d, s) ==
    LET Body(b) == IF Len(b) >= 2 /\ b[Len(b) - 1] = \h79 THEN SubSeq(b, 1, Len(b) - 2) ELSE b
    IN  StoredOrFails(Then(Operands(d, 1, <<"term_arg", "term_arg", "target">>, s), LAMBDA r :
        BufsOf(<<r.v[1], r.v[2]>>, r.s, LAMBDA b :
        IF Len(b[1]) = 1 \/ Len(b[2]) = 1 THEN Err("ValueError", r.s)
        ELSE LET all == Body(b[1]) \o Body(b[2]) \o <<\h79>>
                 sum == FoldLeft(LAMBDA x, y : x + y, 0, all)
             IN  To(r.v[3], Buffer(Append(all, (0 - sum) % 256)), r.n, r.s))))

parse_def_concat(d, s) ==
    StoredOrFails(Then(Operands(d, 1, <<"term_arg", "term_arg", "target">>, s), LAMBDA r :
    LET label(v, t) == Ok(get_type_string(v), 0, t)
        text == IfOk(Lift(get_as_string(r.v[2], r.s.order), r.s), LAMBDA t : label(r.v[2], t))
        bytes == IfOk(Lift(get_as_buffer(r.v[2], r.s.order), r.s), LAMBDA t : label(r.v[2], t))
        result ==
          CASE r.v[1].t = "Integer" ->
                  IntOf(r.v[2], r.s, LAMBDA j : BufOf(r.v[1], r.s, LAMBDA a :
                  BufOf(Integer(j), r.s, LAMBDA b : Ok(Buffer(a \o b), 0, r.s))))
            [] r.v[1].t = "String" -> Then(text, LAMBDA x : Ok(String(r.v[1].b \o x.v), 0, r.s))
            [] r.v[1].t = "Buffer" -> Then(bytes, LAMBDA x : Ok(Buffer(r.v[1].b \o x.v), 0, r.s))
            [] OTHER -> Then(text, LAMBDA x : Ok(String(get_type_string(r.v[1]) \o x.v), 0, r.s))
    IN  Then(result, LAMBDA q : To(r.v[3], q.v, r.n, r.s))))

parse_def_mid(d, s) ==
    Stored(Then(Operands(d, 1, <<"term_arg", "term_arg", "term_arg", "target">>, s), LAMBDA r :
    IntsOf(<<r.v[2], r.v[3]>>, r.s, LAMBDA i :
    LET Part(b) == Truncate(From(b, i[1]), i[2])
        wraps == i[1] + i[2] >= Word        \* idx + len overflows: the slice ends before it starts
        part == IF r.v[1].t = "String" THEN Good(String(Part(r.v[1].b)))
                ELSE Bind(get_as_buffer(r.v[1], r.s.order), LAMBDA b :
                     IF i[1] <= Len(b) /\ wraps THEN Bad("Panic") ELSE Good(Buffer(Part(b))))
    IN  Take(part, r.s, LAMBDA v : To(r.v[4], v, r.n, r.s)))))

parse_def_size_of(d, s) ==
    Then(Parse("super_name", From(d, 1), s), LAMBDA name :
    Then(get(name.v, name.s), LAMBDA o :
    CASE o.v.t \in {"Buffer", "String"} -> Ok(Integer(Len(o.v.b)), 1 + name.n, o.s)
      [] o.v.t = "Package"              -> Ok(Integer(Len(o.v.p)), 1 + name.n, o.s)
      [] OTHER                          -> Err("ValueError", o.s)))

\* Store returns its target; CopyObject its source, and reports a failed copy.
parse_def_store(d, s) ==
    Then(Operands(d, 1, <<"term_arg", "super_name">>, s), LAMBDA r :
    Then(Ignore(modify(r.v[2], r.v[1], r.s)), LAMBDA q : Ok(r.v[2], r.n, q.s)))

parse_def_copy_object(d, s) ==
    Then(Operands(d, 1, <<"term_arg", "simple_name">>, s), LAMBDA r :
    Then(copy(r.v[2], r.v[1], r.s), LAMBDA q : Ok(r.v[1], r.n, q.s)))

\* Sequences in the order of Vec and String: the first difference decides.
Less(a, b) ==
    \E k \in 1..Len(b) : /\ Len(a) >= k - 1
                         /\ SubSeq(a, 1, k - 1) = SubSeq(b, 1, k - 1)
                         /\ Len(a) = k - 1 \/ a[k] < b[k]

\* The comparison of MatchOpcode op between an element and an operand.
Matches(op, v, i) ==
    CASE op = 0 -> TRUE
      [] op = 1 -> v = i
      [] op = 2 -> ~ Less(i, v)
      [] op = 3 -> Less(v, i)
      [] op = 4 -> ~ Less(v, i)
      [] op = 5 -> Less(i, v)

\* An element or operand in the type of the first operand, as a sequence.
MatchKey(v, like, order) ==
    CASE like.t = "Integer" -> Bind(get_as_integer(v, order), LAMBDA i : Good(<<i>>))
      [] like.t = "String"  -> get_as_string(v, order)
      [] OTHER              -> get_as_buffer(v, order)

\* The package, the two comparisons with their operands, and the start.
MatchOperands(d, s) ==
    Then(Operands(d, 1, <<"term_arg">>, s), LAMBDA pkg :
    LET op1 == At(d, pkg.n)
    IN  CASE op1 = -1 -> Err("Panic", pkg.s)
          [] op1 > 5  -> Err("ParseError", pkg.s)
          [] OTHER    ->
    Then(Operands(d, 1 + pkg.n, <<"term_arg">>, pkg.s), LAMBDA fst :
    LET op2 == At(d, fst.n)
    IN  CASE op2 = -1 -> Err("Panic", fst.s)
          [] op2 > 5  -> Err("ParseError", fst.s)
          [] OTHER    ->
    Then(Operands(d, 1 + fst.n, <<"term_arg", "term_arg">>, fst.s), LAMBDA r :
         Ok([pkg |-> pkg.v[1], op |-> <<op1, op2>>, arg |-> <<fst.v[1], r.v[1]>>, start |-> r.v[2]],
            r.n, r.s))))

\* The index is taken after it was moved on: the result is the position plus one.
FirstMatch(m, order) ==
    LET Key(v) == MatchKey(v, m.arg[1], order)
    IN  Bind(AllOf(<<get_as_same(m.pkg, "Package"), get_as_integer(m.start, order),
                     Key(m.arg[1]), Key(m.arg[2])>>), LAMBDA r :
        LET key == [k \in r[2] + 1 .. Len(r[1].p) |-> Key(r[1].p[k])]
            stop == {k \in DOMAIN key : \/ key[k].e = "Panic"
                                        \/ /\ key[k].e = "ok"
                                           /\ Matches(m.op[1], key[k].v, r[3])
                                           /\ Matches(m.op[2], key[k].v, r[4])}
            first == CHOOSE k \in stop : \A j \in stop : k <= j
        IN  CASE stop = {}               -> Good(IntegerConstant(Ones))
              [] key[first].e = "Panic"  -> Bad("Panic")
              [] OTHER                   -> Good(Integer(first)))

parse_def_match(d, s) ==
    Then(MatchOperands(d, s), LAMBDA r :
    Take(FirstMatch(r.v, r.s.order), r.s, LAMBDA v : Ok(v, r.n, r.s)))

\* A free object is taken at once; any other is waited for, and the timeout is
\* measured by a clock that stands still.
parse_def_acquire(d, s) ==
    Then(Parse("super_name", From(d, 1), s), LAMBDA obj :
    IF At(d, 3 + obj.n) = -1 THEN Err("Panic", obj.s)
    ELSE Then(acquire_mutex(obj.v, obj.s), LAMBDA r :
              IF r.v THEN Ok(Integer(0), 4 + obj.n, r.s) ELSE Err("Spin", r.s)))

parse_def_wait(d, s) ==
    Then(Operands(d, 2, <<"super_name", "term_arg">>, s), LAMBDA r :
    IntOf(r.v[2], r.s, LAMBDA timeout :
    Then(wait_for_event(r.v[1], r.s), LAMBDA q :
         IF q.v THEN Ok(Integer(0), r.n, q.s) ELSE Err("Spin", q.s))))

parse_def_timer(d, s) == Ok(Integer(0), 2, s)

\* LoadTable looks the table up by signature and runs it under a scope; unlike
\* Load it does not enter it in SDT_ORDER.
parse_def_load_table(d, s) ==
    LET loaded ==
            Then(Operands(d, 2, [k \in 1..6 |-> "term_arg"], s), LAMBDA r :
            TextsOf(SubSeq(r.v, 1, 3), r.s, LAMBDA key :
            IF key \notin DOMAIN r.s.sdts THEN Ok([res |-> IntegerConstant(0)], r.n, r.s)
            ELSE Take(get_as_string(r.v[4], r.s.order), r.s, LAMBDA root :
                 Then(parse_aml_with_scope([data |-> r.s.sdts[key]], root, r.s), LAMBDA hdl :
                      Ok([res |-> DDBHandle(hdl.v, key), to |-> r.v[5], v |-> r.v[6]], r.n, hdl.s)))))
    IN  Then(loaded, LAMBDA r :
        IF r.v.res.t # "DDBHandle" THEN Ok(r.v.res, r.n, r.s)
        ELSE Then(Ignore(modify(r.v.to, r.v.v, r.s)), LAMBDA q : Ok(r.v.res, r.n, q.s)))

Type2(op, d, s) ==
    CASE op = -1   -> Err("Panic", s)
      [] op = \h70 -> parse_def_store(d, s)
      [] op = \h71 -> parse_def_ref_of(d, s)
      [] op = \h72 -> parse_def_add(d, s)
      [] op = \h73 -> parse_def_concat(d, s)
      [] op = \h74 -> parse_def_subtract(d, s)
      [] op = \h75 -> parse_def_increment(d, s)
      [] op = \h76 -> parse_def_decrement(d, s)
      [] op = \h77 -> parse_def_multiply(d, s)
      [] op = \h78 -> parse_def_divide(d, s)
      [] op = \h79 -> parse_def_shift_left(d, s)
      [] op = \h7A -> parse_def_shift_right(d, s)
      [] op = \h7B -> parse_def_and(d, s)
      [] op = \h7C -> parse_def_nand(d, s)
      [] op = \h7D -> parse_def_or(d, s)
      [] op = \h7E -> parse_def_nor(d, s)
      [] op = \h7F -> parse_def_xor(d, s)
      [] op = \h80 -> parse_def_not(d, s)
      [] op = \h81 -> parse_def_find_set_left_bit(d, s)
      [] op = \h82 -> parse_def_find_set_right_bit(d, s)
      [] op = \h83 -> parse_def_deref_of(d, s)
      [] op = \h84 -> parse_def_concat_res(d, s)
      [] op = \h85 -> parse_def_mod(d, s)
      [] op = \h87 -> parse_def_size_of(d, s)
      [] op = \h88 -> parse_def_index(d, s)
      [] op = \h8E -> parse_def_object_type(d, s)
      [] op = \h90 -> parse_def_land(d, s)
      [] op = \h91 -> parse_def_lor(d, s)
      [] op = \h92 -> parse_def_lnot(d, s)
      [] op = \h93 -> parse_def_lequal(d, s)
      [] op = \h94 -> parse_def_lgreater(d, s)
      [] op = \h95 -> parse_def_lless(d, s)
      [] op = \h96 -> parse_def_to_buffer(d, s)
      [] op = \h97 -> parse_def_to_decimal_string(d, s)
      [] op = \h98 -> parse_def_to_hex_string(d, s)
      [] op = \h99 -> parse_def_to_integer(d, s)
      [] op = \h9C -> parse_def_to_string(d, s)
      [] op = \h9D -> parse_def_copy_object(d, s)
      [] op = \h9E -> parse_def_mid(d, s)
      [] op = \h11 -> parse_def_buffer(d, s)
      [] op = \h12 -> parse_def_package(d, s)
      [] op = \h13 -> parse_def_var_package(d, s)
      [] op = \h28 -> parse_def_match(d, s)
      [] op = \h5B12 -> parse_def_cond_ref_of(d, s)
      [] op = \h5B1F -> parse_def_load_table(d, s)
      [] op = \h5B23 -> parse_def_acquire(d, s)
      [] op = \h5B25 -> parse_def_wait(d, s)
      [] op = \h5B28 -> parse_def_from_bcd(d, s)
      [] op = \h5B29 -> parse_def_to_bcd(d, s)
      [] op = \h5B33 -> parse_def_timer(d, s)
      [] OTHER       -> Err("InvalidOpCode", s)

parse_type2_opcode(d, s) ==
    OrElse(Type2(Opcode(d), d, s), LAMBDA t : Parse("method_invocation", d, t))

-----------------------------------------------------------------------------
\* type1opcode.rs: statements.
\* Faulty: it does not count itself.
parse_def_noopStill(d, s)  == Ok(None, 0, s)

parse_def_break(d, s)      == Ok(None, 1, [s EXCEPT !.state = "BREAK"])
parse_def_continue(d, s)   == Ok(None, 1, [s EXCEPT !.state = "CONTINUE"])
parse_def_breakpoint(d, s) == Ok(None, 1, s)
parse_def_noop(d, s)       == Ok(None, 1, s)

parse_def_return(d, s) ==
    Then(Parse("term_arg", From(d, 1), s), LAMBDA r :
         Ok(None, 1 + r.n, [r.s EXCEPT !.state = "RETURN", !.ret = r.v]))

parse_def_fatal(d, s) ==
    IF At(d, 4) = -1 THEN Err("Panic", s)
    ELSE Then(Parse("term_arg", From(d, 5), s), LAMBDA r : Err("Fatal", r.s))

\* The condition is parsed before the Else is looked for.
parse_def_if_else(d, s) ==
    Pkg(d, 1, s, LAMBDA p :
    Slice(d, 1 + p.n, 1 + p.len, s, LAMBDA all :
    Then(Parse("term_arg", all, s), LAMBDA cond :
    Then(IF At(d, 1 + p.len) = \hA1 THEN Lift(parse_pkg_length(From(d, 2 + p.len)), cond.s)
         ELSE Ok([len |-> 0, n |-> 0], 0, cond.s), LAMBDA else :
    LET end == 1 + p.len + IF else.v.len > 0 THEN 1 + else.v.len ELSE 0
        run(a, b) == Slice(d, a, b, cond.s, LAMBDA body :
                     Then(parse_term_list(body, cond.s), LAMBDA r : Ok(None, end, r.s)))
    IN  IntOf(cond.v, cond.s, LAMBDA c :
        CASE c > 0          -> run(1 + p.n + cond.n, 1 + p.len)
          [] else.v.len > 0 -> run(2 + p.len + else.v.n, 2 + p.len + else.v.len)
          [] OTHER          -> Ok(None, end, cond.s))))))

WhileLoop(d, p, turns, s) ==
    Then(Parse("term_arg", From(d, 1 + p.n), s), LAMBDA pred :
    IntOf(pred.v, pred.s, LAMBDA c :
    CASE c = 0             -> Ok(None, 1 + p.len, pred.s)
      [] turns = LoopBound -> Err("Spin", pred.s)
      [] OTHER             ->
    Slice(d, 1 + p.n + pred.n, 1 + p.len, pred.s, LAMBDA body :
    Then(parse_term_list(body, pred.s), LAMBDA r :
    LET on == [r.s EXCEPT !.state = "EXECUTING"]
    IN  CASE r.s.state = "BREAK"  -> Ok(None, 1 + p.len, on)
          [] r.s.state = "RETURN" -> Ok(None, 0, r.s)
          [] OTHER                -> WhileLoop(d, p, turns + 1, on)))))

parse_def_while(d, s) == Pkg(d, 1, s, LAMBDA p : WhileLoop(d, p, 0, s))

\* The header of a table (Sdt): signature, length, the two ids; 36 bytes.
Header == 36
get_sdt_signature(b) == <<SubSeq(b, 1, 4), SubSeq(b, 11, 16), SubSeq(b, 17, 24)>>
SdtData(b) == SubSeq(b, Header + 1, LittleEndian(SubSeq(b, 5, 8)))
DSDT == <<68, 83, 68, 84>>
SSDT == <<83, 83, 68, 84>>
is_aml_table(b) == SubSeq(b, 1, 4) \in {DSDT, SSDT}

load_table(sig, s) == [s EXCEPT !.order = Append(@, sig)]

\* The buffer is read as a header without a check of its length; one that is
\* too short makes the read undefined and is not used in the instances.
parse_def_load(d, s) ==
    LET loaded ==
            Then(Operands(d, 2, <<"name_string", "super_name">>, s), LAMBDA r :
            Then(get(r.v[1], r.s), LAMBDA o :
            BufOf(o.v, r.s, LAMBDA tbl :
            IF ~ is_aml_table(tbl) THEN Err("ValueError", r.s)
            ELSE Then(parse_aml_table([data |-> SdtData(tbl)],
                                      load_table(get_sdt_signature(tbl), r.s)), LAMBDA delta :
                      To(r.v[2], DDBHandle(delta.v, get_sdt_signature(tbl)), r.n, delta.s)))))
    IN  Then(Stored(loaded), LAMBDA r : Ok(None, r.n, r.s))

parse_def_unload(d, s) ==
    Then(Parse("super_name", From(d, 2), s), LAMBDA obj :
    Then(get(obj.v, obj.s), LAMBDA o :
    Then(Lift(get_as_ddb_handle(o.v, o.s.order), o.s), LAMBDA h :
    Locked(o.s, Ok(None, 2 + obj.n,
        [o.s EXCEPT !.ns = [x \in DOMAIN @ \ ToSet(h.v.names) |-> @[x]]])))))

\* No object has notify methods, so a notification only checks its operands.
parse_def_notify(d, s) ==
    Then(Operands(d, 1, <<"super_name", "term_arg">>, s), LAMBDA r :
    IntOf(r.v[2], r.s, LAMBDA number :
    Then(get(r.v[1], r.s), LAMBDA o :
    IF o.v.t \in {"Device", "Processor", "ThermalZone"} THEN Ok(None, r.n, r.s)
    ELSE Err("ValueError", r.s))))

parse_def_release(d, s) ==
    Then(Parse("super_name", From(d, 2), s), LAMBDA obj :
    Then(Ignore(release_mutex(obj.v, obj.s)), LAMBDA r : Ok(None, 2 + obj.n, r.s)))

parse_def_reset(d, s) ==
    LET event == Then(Parse("super_name", From(d, 2), s), LAMBDA obj :
                 Then(get(obj.v, obj.s), LAMBDA o :
                 Take(get_as_same(o.v, "Event"), o.s, LAMBDA e : To(obj.v, Event(0), 2 + obj.n, o.s))))
    IN  Then(Stored(event), LAMBDA r : Ok(None, r.n, r.s))

parse_def_signal(d, s) ==
    Then(Parse("super_name", From(d, 2), s), LAMBDA obj :
    Then(signal_event(obj.v, obj.s), LAMBDA r : Ok(None, 2 + obj.n, r.s)))

\* now - start > timeout with a clock that stands still: never.
Pause(d, s) == Then(Parse("term_arg", From(d, 2), s), LAMBDA r :
                    IntOf(r.v, r.s, LAMBDA timeout : Err("Spin", r.s)))
parse_def_sleep(d, s) == Pause(d, s)
parse_def_stall(d, s) == Pause(d, s)

Type1(op, d, s) ==
    CASE op = -1   -> Err("Panic", s)
      [] op = \hA5 -> parse_def_break(d, s)
      [] op = \hCC -> parse_def_breakpoint(d, s)
      [] op = \h9F -> parse_def_continue(d, s)
      [] op = \hA3 -> parse_def_noop(d, s)
      [] op = \hA0 -> parse_def_if_else(d, s)
      [] op = \h86 -> parse_def_notify(d, s)
      [] op = \hA4 -> parse_def_return(d, s)
      [] op = \hA2 -> parse_def_while(d, s)
      [] op = \h5B32 -> parse_def_fatal(d, s)
      [] op = \h5B20 -> parse_def_load(d, s)
      [] op = \h5B27 -> parse_def_release(d, s)
      [] op = \h5B26 -> parse_def_reset(d, s)
      [] op = \h5B24 -> parse_def_signal(d, s)
      [] op = \h5B22 -> parse_def_sleep(d, s)
      [] op = \h5B21 -> parse_def_stall(d, s)
      [] op = \h5B2A -> parse_def_unload(d, s)
      [] OTHER     -> Err("InvalidOpCode", s)

parse_type1_opcode(d, s) == Type1(Opcode(d), d, s)

-----------------------------------------------------------------------------
\* namedobj.rs: buffer fields.  The one-byte opcodes take their buffer one byte
\* too far and look for the name one byte before the end of the index.
CreateField(d, bits, s, F(_)) ==
    Then(Operands(d, 2, <<"term_arg", "term_arg">>, s), LAMBDA r :
    Then(Parse("name_string", From(d, r.n - 1), r.s), LAMBDA name :
    F(Declare(name.v, BufferField(r.v[1], r.v[2], IntegerConstant(bits)), r.n + name.n, r.s))))

parse_def_create_bit_field(d, s)   == CreateField(d, 1, s, LAMBDA r : r)
parse_def_create_byte_field(d, s)  == CreateField(d, 8, s, LAMBDA r : r)
parse_def_create_word_field(d, s)  == CreateField(d, 16, s, LAMBDA r : r)
parse_def_create_qword_field(d, s) == CreateField(d, 64, s, LAMBDA r : r)

\* A name that is taken is no error here.
parse_def_create_dword_field(d, s) ==
    Then(Operands(d, 2, <<"term_arg", "term_arg">>, s), LAMBDA r :
    Then(Parse("name_string", From(d, r.n - 1), r.s), LAMBDA name :
    Then(Scoped(name.v, r.s), LAMBDA p :
    Then(Ignore(add_to_namespace(p.v, BufferField(r.v[1], r.v[2], IntegerConstant(32)), r.s)),
         LAMBDA a : Ok(None, r.n + name.n, a.s)))))

parse_def_create_field(d, s) ==
    Then(Operands(d, 2, <<"term_arg", "term_arg", "term_arg", "name_string">>, s), LAMBDA r :
         Declare(r.v[4], BufferField(r.v[1], r.v[2], r.v[3]), r.n, r.s))

\* Events, mutexes, regions, methods.
parse_def_event(d, s) ==
    Then(Parse("name_string", From(d, 2), s), LAMBDA name : Declare(name.v, Event(0), 2 + name.n, s))

parse_def_mutex(d, s) ==
    Then(Parse("name_string", From(d, 2), s), LAMBDA name :
    IF At(d, 2 + name.n) = -1 THEN Err("Panic", s)
    ELSE Declare(name.v, Mutex(At(d, 2 + name.n) % 16, 0), 3 + name.n, s))

parse_def_op_region(d, s) ==
    Then(Parse("name_string", From(d, 2), s), LAMBDA name :
    LET space == At(d, 2 + name.n)
    IN  CASE space = -1         -> Err("Panic", s)
          [] space \in 10..127  -> Err("ParseError", s)
          [] OTHER -> Then(Operands(d, 3 + name.n, <<"term_arg", "term_arg">>, s), LAMBDA r :
                           Declare(name.v, OperationRegion(space, r.v[1], r.v[2], 0), r.n, r.s)))

\* A data region has no extent yet: the table it names is not looked up.
parse_def_data_region(d, s) ==
    Then(Operands(d, 2, <<"name_string", "term_arg", "term_arg", "term_arg">>, s), LAMBDA r :
         Declare(r.v[1], OperationRegion(0, IntegerConstant(0), IntegerConstant(0), 0), r.n, r.s))

\* flags & 0xF0 >> 4 is flags & 0x0F: the sync level is the low half.
parse_def_method(d, s) ==
    Pkg(d, 1, s, LAMBDA p :
    Then(Parse("name_string", From(d, 1 + p.n), s), LAMBDA name :
    LET flags == At(d, 1 + p.n + name.n)
    IN  IF flags = -1 THEN Err("Panic", s)
        ELSE Slice(d, 2 + p.n + name.n, 1 + p.len, s, LAMBDA code :
             Declare(name.v, Method(flags % 8, (flags \div 8) % 2 = 1, flags % 16, code),
                     1 + p.len, s))))

\* The name is looked for where the opcode is.
parse_def_external(d, s) ==
    Then(Parse("name_string", From(d, 1), s), LAMBDA name :
    IF At(d, 2 + name.n) = -1 THEN Err("Panic", s)
    ELSE Declare(name.v, IF At(d, 1 + name.n) = 8 THEN Method(At(d, 2 + name.n), FALSE, 0, <<>>)
                         ELSE Uninitialized, 3 + name.n, s))

\* Devices and the like: the objects inside run in a context of their own, and
\* only their names go into the new object; an error leaves them without one.
DeclareHolder(d, from, p, name, t, data, s) ==
    Then(Scoped(name, s), LAMBDA path :
    Slice(d, from, 2 + p.len, s, LAMBDA body :
    Then(Leave(parse_object_list(body, NewContext(s, path.v)), s), LAMBDA inner :
    Then(add_to_namespace(path.v, Holder(t, data, inner.v), inner.s), LAMBDA r :
         Ok(None, 2 + p.len, r.s)))))

HolderOf(d, s, fixed, t, Data(_)) ==
    Pkg(d, 2, s, LAMBDA p :
    Then(Parse("name_string", From(d, 2 + p.n), s), LAMBDA name :
    LET at == 2 + p.n + name.n
    IN  IF At(d, at + fixed - 1) = -1 THEN Err("Panic", s)
        ELSE DeclareHolder(d, at + fixed, p, name.v, t, Data(SubSeq(d, at + 1, at + fixed)), s)))

parse_def_device(d, s)       == HolderOf(d, s, 0, "Device", LAMBDA b : <<>>)
parse_def_thermal_zone(d, s) == HolderOf(d, s, 0, "ThermalZone", LAMBDA b : <<>>)
parse_def_power_res(d, s)    ==
    HolderOf(d, s, 3, "PowerResource", LAMBDA b : <<b[1], b[2] + 256 * b[3]>>)
\* The processor block is Some only with a length; its address stays in bytes.
parse_def_processor(d, s)    ==
    HolderOf(d, s, 6, "Processor", LAMBDA b :
             <<b[1], IF b[6] > 0 THEN SubSeq(b, 2, 5) ELSE <<>> >>)

-----------------------------------------------------------------------------
\* namedobj.rs: fields.  flags: access type, its attribute, lock and update rule.
NoAttrib == <<0, 0>>
AttribByte == <<6, 0>>
FieldFlags(b) ==
    IF b % 16 > 5 \/ (b \div 32) % 4 = 3 THEN Bad("ParseError")
    ELSE Good([access |-> b % 16, attrib |-> IF b % 16 = 5 THEN AttribByte ELSE NoAttrib,
               lock |-> (b \div 16) % 2 = 1, update |-> (b \div 32) % 4])

parse_named_field(d) ==
    IF Len(d) < 4 THEN Bad("ParseError")
    ELSE Bind(parse_name_seg(SubSeq(d, 1, 4)), LAMBDA seg :
         Bind(parse_pkg_length(From(d, 4)), LAMBDA p :
              Good([kind |-> "named", seg |-> seg, bits |-> p.len, n |-> 4 + p.n])))

parse_reserved_field(d) ==
    IF d[1] # Null THEN Bad("InvalidOpCode")
    ELSE Bind(parse_pkg_length(From(d, 1)), LAMBDA p :
              Good([kind |-> "reserved", bits |-> p.len, n |-> 1 + p.n]))

\* The attribute is a byte of its own, or a length whose kind is in the flags.
parse_access_field(d) ==
    LET kind == At(d, 1) \div 64
        n == IF d[1] = 1 THEN 3 ELSE 4
    IN  CASE Len(d) < 3           -> Bad("ParseError")
          [] d[1] \notin {1, 3}   -> Bad("InvalidOpCode")
          [] d[2] % 16 > 5        -> Bad("ParseError")
          [] kind > 0             -> Good([kind |-> "access", access |-> d[2] % 16, n |-> n,
                                           attrib |-> <<<<11, 14, 15>>[kind], d[3]>>])
          [] d[3] \notin {2, 4, 6, 8} \cup 10..15 -> Bad("ParseError")
          [] d[3] \in {11, 14, 15} /\ Len(d) < 4  -> Bad("Panic")
          [] OTHER -> Good([kind |-> "access", access |-> d[2] % 16, n |-> n,
                            attrib |-> <<d[3], IF d[3] \in {11, 14, 15} THEN d[4] ELSE 0>>])

parse_connect_field(d, s) ==
    IF d[1] # 2 THEN Err("InvalidOpCode", s)
    ELSE Then(IfOk(parse_def_buffer(From(d, 1), s), LAMBDA t :
                   Then(Parse("name_string", From(d, 1), t), LAMBDA r :
                        Ok(Alias(r.v.b), r.n, r.s))), LAMBDA r :
              Ok([kind |-> "connect", conn |-> r.v, n |-> 1 + r.n], 0, r.s))

\* The elements share acc: selector, connection, flags and the bit offset.  The
\* result's v is acc for the next element.
parse_field_element(d, acc, s) ==
    LET element == IfOk(IfOk(IfOk(IfOk(
                       Lift(parse_named_field(d), s),
                       LAMBDA t : Lift(parse_reserved_field(d), t)),
                       LAMBDA t : Lift(parse_access_field(d), t)),
                       LAMBDA t : parse_connect_field(d, t)),
                       LAMBDA t : Err("InvalidOpCode", t))
    IN  Then(element, LAMBDA r :
        CASE r.v.kind = "named" ->
                Then(Declare(String(r.v.seg),
                             FieldUnit(acc.sel, acc.conn, acc.flags, acc.off, r.v.bits), r.v.n, r.s),
                     LAMBDA q : Ok([acc EXCEPT !.off = @ + r.v.bits], q.n, q.s))
          [] r.v.kind = "reserved" -> Ok([acc EXCEPT !.off = @ + r.v.bits], r.v.n, r.s)
          [] r.v.kind = "access" ->
                Ok([acc EXCEPT !.flags = [@ EXCEPT !.access = r.v.access, !.attrib =
                        IF r.v.access = 5 THEN r.v.attrib ELSE NoAttrib]], r.v.n, r.s)
          [] r.v.kind = "connect" -> Ok([acc EXCEPT !.conn = r.v.conn], r.v.n, r.s))

FieldList(d, at, acc, s) ==
    IF at >= Len(d) THEN Ok(None, Len(d), s)
    ELSE Then(parse_field_element(From(d, at), acc, s), LAMBDA r : FieldList(d, at + r.n, r.v, r.s))

parse_field_list(d, sel, flags, s) ==
    FieldList(d, 0, [sel |-> sel, conn |-> Uninitialized, flags |-> flags, off |-> 0], s)

\* Field and IndexField: names, a byte of flags, then the elements.
FieldsOf(d, names, Sel(_), s) ==
    LET head == Pkg(d, 2, s, LAMBDA p :
                Then(Operands(d, 2 + p.n, names, s), LAMBDA r :
                IF At(d, r.n) = -1 THEN Err("Panic", s)
                ELSE Take(FieldFlags(At(d, r.n)), s, LAMBDA flags :
                     Slice(d, r.n + 1, 2 + p.len, s, LAMBDA body :
                           Ok([sel |-> Sel(r.v), flags |-> flags, body |-> body], 2 + p.len, s)))))
    IN  Then(head, LAMBDA r :
        Then(parse_field_list(r.v.body, r.v.sel, r.v.flags, s), LAMBDA q : Ok(None, r.n, q.s)))

parse_def_field(d, s)       == FieldsOf(d, <<"name_string">>, LAMBDA v : <<v[1].b>>, s)
parse_def_index_field(d, s) == FieldsOf(d, <<"name_string", "name_string">>, LAMBDA v : <<v[1].b, v[2].b>>, s)

\* The slice is cut to the package and then indexed as if it were not: the end
\* of the second name's slice is past the end of the package.
parse_def_bank_field(d, s) ==
    Pkg(d, 2, s, LAMBDA p :
    Slice(d, 2 + p.n, 2 + p.len, s, LAMBDA cut :
    Then(Parse("name_string", cut, s), LAMBDA region :
    Slice(cut, 2 + p.n + region.n, 2 + p.len, s, LAMBDA rest : Parse("name_string", rest, s)))))

\* BankField, PowerResource and Processor look at the length of the slice before
\* the opcode.  They come first, third to last and second to last, so a statement in the
\* last seven bytes of a list fails here, before the statements are tried.
EarlierObj(op, d, s) ==
    CASE op = \h5B87 -> parse_def_bank_field(d, s)
      [] op = \h8D   -> parse_def_create_bit_field(d, s)
      [] op = \h8C   -> parse_def_create_byte_field(d, s)
      [] op = \h8B   -> parse_def_create_word_field(d, s)
      [] op = \h8A   -> parse_def_create_dword_field(d, s)
      [] op = \h8F   -> parse_def_create_qword_field(d, s)
      [] op = \h5B13 -> parse_def_create_field(d, s)
      [] op = \h5B88 -> parse_def_data_region(d, s)
      [] op = \h5B02 -> parse_def_event(d, s)
      [] op = \h5B15 -> parse_def_external(d, s)
      [] op = \h5B82 -> parse_def_device(d, s)
      [] op = \h5B80 -> parse_def_op_region(d, s)
      [] op = \h5B81 -> parse_def_field(d, s)
      [] op = \h5B86 -> parse_def_index_field(d, s)
      [] op = \h14   -> parse_def_method(d, s)
      [] op = \h5B01 -> parse_def_mutex(d, s)
      [] OTHER       -> Err("InvalidOpCode", s)

LaterObj(op, d, s) ==
    CASE Len(d) < 5    -> Err("ParseError", s)
      [] op = \h5B84   -> OrElse(parse_def_power_res(d, s), LAMBDA t :
                            Err(IF Len(d) < 8 THEN "ParseError" ELSE "InvalidOpCode", t))
      [] Len(d) < 8    -> Err("ParseError", s)
      [] op = \h5B83   -> parse_def_processor(d, s)
      [] op = \h5B85   -> parse_def_thermal_zone(d, s)
      [] OTHER         -> Err("InvalidOpCode", s)

parse_named_obj(d, s) ==
    IF Len(d) < 3 THEN Err("ParseError", s)
    ELSE OrElse(EarlierObj(Opcode(d), d, s), LAMBDA t : LaterObj(Opcode(d), d, t))

-----------------------------------------------------------------------------
\* namespacemodifier.rs.  Alias enters the source under the new name's place:
\* the name that is added is the first one.
parse_alias_op(d, s) ==
    Then(Operands(d, 1, <<"name_string", "name_string">>, s), LAMBDA r :
    Then(Scoped(r.v[1], s), LAMBDA source :
    Then(Scoped(r.v[2], s), LAMBDA alias :
    Then(add_to_namespace(source.v, Alias(alias.v), s), LAMBDA q : Ok(None, r.n, q.s)))))

parse_name_op(d, s) ==
    Then(Operands(d, 1, <<"name_string", "data_ref_obj">>, s), LAMBDA r : Declare(r.v[1], r.v[2], r.n, r.s))

\* Faulty: the outer scope is not entered again.
parse_scope_opEnters(d, s) ==
    Pkg(d, 1, s, LAMBDA p :
    Then(Parse("name_string", From(d, 1 + p.n), s), LAMBDA name :
    Then(Scoped(name.v, s), LAMBDA path :
    Slice(d, 1 + p.n + name.n, 1 + p.len, s, LAMBDA body :
    Then(parse_term_list(body, [s EXCEPT !.scope = path.v]), LAMBDA r : Ok(None, 1 + p.len, r.s))))))

\* An error inside leaves the inner scope in place.
parse_scope_op(d, s) ==
    Pkg(d, 1, s, LAMBDA p :
    Then(Parse("name_string", From(d, 1 + p.n), s), LAMBDA name :
    Then(Scoped(name.v, s), LAMBDA path :
    Slice(d, 1 + p.n + name.n, 1 + p.len, s, LAMBDA body :
    Then(parse_term_list(body, [s EXCEPT !.scope = path.v]), LAMBDA r :
         Ok(None, 1 + p.len, [r.s EXCEPT !.scope = s.scope]))))))

parse_namespace_modifier(d, s) ==
    CASE d = <<>>     -> Err("Panic", s)
      [] d[1] = \h06  -> parse_alias_op(d, s)
      [] d[1] = \h10  -> parse_scope_op(d, s)
      [] d[1] = \h08  -> parse_name_op(d, s)
      [] OTHER        -> Err("InvalidOpCode", s)

parse_object(d, s) ==
    OrElse(Parse("namespace_modifier", d, s), LAMBDA t : Parse("named_obj", d, t))

parse_term_obj(d, s) ==
    OrElse(OrElse(OrElse(Parse("namespace_modifier", d, s),
           LAMBDA t : Parse("named_obj", d, t)),
           LAMBDA t : Parse("type1_opcode", d, t)),
           LAMBDA t : Parse("type2_opcode", d, t))

Parse(rule, d, s) ==
    CASE rule = "term_arg"           -> parse_term_arg(d, s)
      [] rule = "super_name"         -> parse_super_name(d, s)
      [] rule = "target"             -> parse_target(d, s)
      [] rule = "data_ref_obj"       -> parse_data_ref_obj(d, s)
      [] rule = "data_obj"           -> parse_data_obj(d, s)
      [] rule = "type2_opcode"       -> parse_type2_opcode(d, s)
      [] rule = "type1_opcode"       -> parse_type1_opcode(d, s)
      [] rule = "type6_opcode"       -> parse_type6_opcode(d, s)
      [] rule = "named_obj"          -> parse_named_obj(d, s)
      [] rule = "namespace_modifier" -> parse_namespace_modifier(d, s)
      [] rule = "term_obj"           -> parse_term_obj(d, s)
      [] rule = "object"             -> parse_object(d, s)
      [] rule = "method_invocation"  -> parse_method_invocation(d, s)
      [] rule = "name_string"        -> parse_name_string(d, s)
      [] rule = "simple_name"        -> parse_simple_name(d, s)
=============================================================================
