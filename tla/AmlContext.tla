----------------------------- MODULE AmlContext -----------------------------
(***************************************************************************)
(* The execution context of the AML interpreter and the namespace it works *)
(* on: AmlExecutionContext of kernel/src/acpi/aml/parser.rs.               *)
(*                                                                         *)
(* The state s of the interpreter is one record: the statics of ACPI_TABLE *)
(*   ns (namespace), next (next_ctx), order (SDT_ORDER), sdts (the tables  *)
(*   by signature),                                                        *)
(* and the context that is running                                         *)
(*   scope, locals, args, state (with ret, the value of RETURN), delta     *)
(*   (namespace_delta), id (ctx_id), sync (sync_level).                    *)
(* held says that the running code keeps the guard of namespace.write():   *)
(* the lock is a spin lock of one owner, so taking it again never ends.    *)
(* The namespace is Some from init_namespace on, before any table runs; the *)
(* branches for None are left out.                                         *)
(*                                                                         *)
(* Every operation returns [e, v, n, s]: outcome, value, bytes consumed    *)
(* (0 for the operations of this module) and the state it leaves, which    *)
(* an error does not roll back.                                            *)
(***************************************************************************)
EXTENDS AmlValues

Ok(v, n, s)  == [e |-> "ok", v |-> v, n |-> n, s |-> s]
Err(e, s)    == [e |-> e, v |-> None, n |-> 0, s |-> s]
Lift(c, s)   == IF c.e = "ok" THEN Ok(c.v, 0, s) ELSE Err(c.e, s)
Then(r, F(_)) == IF r.e = "ok" THEN F(r) ELSE r
Take(c, s, F(_)) == IF c.e = "ok" THEN F(c.v) ELSE Err(c.e, s)
Fatals       == {"Panic", "Spin"}

\* let _ = ...: the outcome is dropped, unless nothing comes back to drop it.
Ignore(r) == IF r.e \in Fatals THEN r ELSE Ok(r.v, r.n, r.s)

\* r is what happens once the namespace lock is taken.
Locked(s, r) == IF s.held THEN Err("Spin", s) ELSE r

Insert(s, name, v) == [s EXCEPT !.ns = [x \in DOMAIN @ \cup {name} |->
                                        IF x = name THEN v ELSE @[x]]]
Lookup(s, name) == IF name \in DOMAIN s.ns THEN s.ns[name] ELSE None

Eight == [k \in 1..8 |-> Uninitialized]

\* AmlExecutionContext::new: the next id, nothing in it.
NewContext(s, scope) ==
    [s EXCEPT !.scope = scope, !.locals = Eight, !.args = Eight, !.state = "EXECUTING",
              !.ret = None, !.delta = <<>>, !.id = s.next, !.sync = 0, !.next = s.next + 1]

\* The caller's context again, with what the inner one did to the statics.
BackTo(outer, inner) ==
    [outer EXCEPT !.ns = inner.ns, !.next = inner.next, !.order = inner.order]

-----------------------------------------------------------------------------
\* A name, or a reference to one.
Named(ref) == ref.t = "String" \/ (ref.t = "ObjectReference" /\ ref.r = "Object")

\* The namespace entry an event or a mutex operation is about.
Handle(ptr, s) == IF Named(ptr) THEN Lookup(s, ptr.b) ELSE None

wait_for_event(ptr, s) ==
    LET o == Handle(ptr, s)
    IN  Locked(s, CASE o.t # "Event"  -> Err("ValueError", s)
                    [] o.count > 0    -> Ok(TRUE, 0, Insert(s, ptr.b, Event(o.count - 1)))
                    [] OTHER          -> Ok(FALSE, 0, s))

signal_event(ptr, s) ==
    LET o == Handle(ptr, s)
    IN  Locked(s, IF o.t # "Event" THEN Err("ValueError", s)
                  ELSE Ok(None, 0, Insert(s, ptr.b, Event((o.count + 1) % Word))))

\* Neither changes sync back: a context's level never goes down.
release_mutex(ptr, s) ==
    LET o == Handle(ptr, s)
    IN  Locked(s,
        CASE o.t \notin {"Mutex", "OperationRegion"} -> Err("ValueError", s)
          [] o.owner = 0     -> Ok(None, 0, s)
          [] o.owner # s.id  -> Err("HardFatal", s)
          [] o.t = "Mutex" /\ o.level # s.sync -> Err("ValueError", s)
          [] OTHER           -> Ok(None, 0, Insert(s, ptr.b, [o EXCEPT !.owner = 0])))

acquire_mutex(ptr, s) ==
    LET o == Handle(ptr, s)
    IN  Locked(s,
        CASE o.t \notin {"Mutex", "OperationRegion"} -> Err("ValueError", s)
          [] o.owner # 0 -> Ok(FALSE, 0, s)
          [] o.t = "Mutex" /\ o.level < s.sync -> Err("ValueError", s)
          [] OTHER -> LET t == Insert(s, ptr.b, [o EXCEPT !.owner = s.id])
                      IN  Ok(TRUE, 0, IF o.t = "Mutex" THEN [t EXCEPT !.sync = o.level] ELSE t))

-----------------------------------------------------------------------------
\* A name is declared once; a placeholder or a method without code gives way.
add_to_namespace(name, v, s) ==
    LET old == Lookup(s, name)
        free == \/ name \notin DOMAIN s.ns
                \/ old.t = "Uninitialized"
                \/ old.t = "Method" /\ old.code = <<>>
    IN  Locked(s, IF ~ free THEN Err("ValueError", s)
                  ELSE Ok(None, 0, [Insert(s, name, v) EXCEPT !.delta = Append(@, name)]))

\* Faulty: what a method declared stays.
clean_namespaceNever(s) == Locked(s, Ok(None, 0, s))

clean_namespace(s) ==
    Locked(s, Ok(None, 0, [s EXCEPT !.ns = [x \in DOMAIN @ \ ToSet(s.delta) |-> @[x]]]))

init_arg_vars(s, params) ==
    IF Len(params) > 8 THEN s
    ELSE [s EXCEPT !.args = [k \in 1..8 |-> IF k <= Len(params) THEN params[k] ELSE @[k]]]

\* Locals and arguments are arrays of eight, counted from 0.
SetLocal(k, c, s) == IF c.e # "ok" THEN Err(c.e, s) ELSE Ok(None, 0, [s EXCEPT !.locals[k + 1] = c.v])
SetObject(name, c, s) == IF c.e # "ok" THEN Err(c.e, s) ELSE Ok(None, 0, Insert(s, name, c.v))

modify_local_obj(k, v, s) ==
    IF k > 7 THEN Err("Panic", s) ELSE SetLocal(k, get_as_type(v, s.locals[k + 1], s.order), s)

\* A store converts to the type of the object; a missing object is created as
\* it is, and not noted in delta.
modify_object(name, v, s) ==
    LET old == IF name \in DOMAIN s.ns THEN s.ns[name] ELSE Uninitialized
    IN  Locked(s, SetObject(name, get_as_type(v, old, s.order), s))

copy_local_obj(k, v, s) == IF k > 7 THEN Err("Panic", s) ELSE SetLocal(k, Good(v), s)
copy_object(name, v, s) == Locked(s, SetObject(name, Good(v), s))

RECURSIVE modify_index_core(_, _, _, _), modify_index(_, _, _, _), modify(_, _, _)

\* Byte k of a string or a buffer becomes the number c.
SetByte(obj, k, c, s) ==
    LET b == [obj.b EXCEPT ![k + 1] = c.v % 256]
    IN  CASE c.e # "ok"         -> Err(c.e, s)
          [] k >= Len(obj.b)    -> Err("Panic", s)
          [] obj.t = "String" /\ ~ Utf8(b) -> Err("Panic", s)
          [] OTHER              -> Ok([obj EXCEPT !.b = b], 0, s)

\* The object with the element at indices replaced.
modify_index_core(obj, v, ixs, s) ==
    CASE obj.t \in {"String", "Buffer"} ->
            IF Len(ixs) # 1 THEN Err("ValueError", s)
            ELSE SetByte(obj, ixs[1], get_as_integer(v, s.order), s)
      [] obj.t = "BufferField" ->
            IF Len(ixs) # 1 THEN Err("ValueError", s)
            ELSE Take(get_as_integer(obj.idx, s.order), s, LAMBDA i :
                 Then(Ignore(modify(Index(obj.src, Integer((ixs[1] + i) % Word)), v, s)),
                      LAMBDA q : Ok(obj, 0, q.s)))
      [] obj.t = "Package" ->
            CASE ixs = <<>>               -> Err("ValueError", s)
              [] ixs[1] >= Len(obj.p)     -> Err("Panic", s)
              [] Len(ixs) = 1             -> Ok([obj EXCEPT !.p[ixs[1] + 1] = v], 0, s)
              [] OTHER -> Then(modify_index_core(obj.p[ixs[1] + 1], v, Tail(ixs), s), LAMBDA r :
                               Ok([obj EXCEPT !.p[ixs[1] + 1] = r.v], 0, r.s))
      [] OTHER -> Err("ValueError", s)

\* The lock stays taken while the element is replaced.
modify_index_final(name, v, ixs, s) ==
    LET unlocked(r) == [r EXCEPT !.s.held = FALSE]
    IN  Locked(s, IF name \notin DOMAIN s.ns THEN Err("ValueError", s)
                  ELSE Then(unlocked(modify_index_core(s.ns[name], v, ixs, [s EXCEPT !.held = TRUE])),
                            LAMBDA r : Ok(None, 0, Insert(r.s, name, r.v))))

\* An index of an index is appended, so the outermost one is applied first.
modify_index(ref, v, ixs, s) ==
    CASE ref.t # "ObjectReference" -> Err("ValueError", s)
      [] ref.r = "Object"   -> modify_index_final(ref.b, v, ixs, s)
      [] ref.r = "Index"    -> Take(get_as_integer(ref.idx, s.order), s, LAMBDA i :
                                    modify_index(ref.obj, v, Append(ixs, i), s))
      [] ref.r = "ArgObj"   -> Err("ValueError", s)
      [] ref.r = "LocalObj" ->
            IF ref.k > 7 THEN Err("Panic", s)
            ELSE Then(modify_index_core(s.locals[ref.k + 1], v, ixs, s), LAMBDA r :
                      Ok(None, 0, [r.s EXCEPT !.locals[ref.k + 1] = r.v]))

\* Store: what differs between modify and copy is what writes a whole object.
modify(ref, v, s) ==
    CASE Named(ref) -> modify_object(ref.b, v, s)
      [] ref.t # "ObjectReference" -> Err("ValueError", s)
      [] ref.r = "ArgObj"   -> Err("ValueError", s)
      [] ref.r = "LocalObj" -> modify_local_obj(ref.k, v, s)
      [] ref.r = "Index"    -> modify_index(ref, v, <<>>, s)

copy(ref, v, s) ==
    CASE Named(ref) -> copy_object(ref.b, v, s)
      [] ref.t # "ObjectReference" -> Err("ValueError", s)
      [] ref.r = "LocalObj" -> copy_local_obj(ref.k, v, s)
      [] OTHER              -> modify(ref, v, s)

-----------------------------------------------------------------------------
RECURSIVE get_index_core(_, _, _), get_index(_, _, _)

\* c is a field's index in its buffer and the buffer: byte k of the field.
ByteAt(k, c, s) ==
    LET at == (k + c.v[1]) % Word
    IN  CASE c.e # "ok"         -> Err(c.e, s)
          [] at >= Len(c.v[2])  -> Err("Panic", s)
          [] OTHER              -> Ok(Integer(c.v[2][at + 1]), 0, s)

get_index_core(obj, ixs, s) ==
    CASE obj.t \in {"String", "Buffer"} ->
            CASE Len(ixs) # 1          -> Err("ValueError", s)
              [] ixs[1] >= Len(obj.b)  -> Err("Panic", s)
              [] OTHER                 -> Ok(Integer(obj.b[ixs[1] + 1]), 0, s)
      [] obj.t = "BufferField" ->
            IF Len(ixs) # 1 THEN Err("ValueError", s)
            ELSE ByteAt(ixs[1], AllOf(<<get_as_integer(obj.idx, s.order),
                                        get_as_buffer(obj.src, s.order)>>), s)
      [] obj.t = "Package" ->
            CASE ixs = <<>>            -> Err("ValueError", s)
              [] ixs[1] >= Len(obj.p)  -> Err("Panic", s)
              [] Len(ixs) = 1          -> Ok(obj.p[ixs[1] + 1], 0, s)
              [] OTHER                 -> get_index_core(obj.p[ixs[1] + 1], Tail(ixs), s)
      [] OTHER -> Err("ValueError", s)

get_index_final(name, ixs, s) ==
    Locked(s, IF name \notin DOMAIN s.ns THEN Err("ValueError", s)
              ELSE get_index_core(s.ns[name], ixs, s))

get_index(ref, ixs, s) ==
    CASE ref.t # "ObjectReference" -> Err("ValueError", s)
      [] ref.r = "Object"   -> get_index_final(ref.b, ixs, s)
      [] ref.r = "Index"    -> Take(get_as_integer(ref.idx, s.order), s, LAMBDA i :
                                    get_index(ref.obj, Append(ixs, i), s))
      [] ref.r = "ArgObj"   -> Err("ValueError", s)
      [] ref.r = "LocalObj" -> IF ref.k > 7 THEN Err("Panic", s)
                               ELSE get_index_core(s.locals[ref.k + 1], ixs, s)

get(ref, s) ==
    CASE Named(ref) -> Locked(s, Ok(Lookup(s, ref.b), 0, s))
      [] ref.t # "ObjectReference" -> Ok(None, 0, s)
      [] ref.r = "ArgObj"   -> IF ref.k > 7 THEN Err("Panic", s) ELSE Ok(s.args[ref.k + 1], 0, s)
      [] ref.r = "LocalObj" -> IF ref.k > 7 THEN Err("Panic", s) ELSE Ok(s.locals[ref.k + 1], 0, s)
      [] ref.r = "Index"    -> get_index(ref, <<>>, s)
=============================================================================
