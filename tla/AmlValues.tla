----------------------------- MODULE AmlValues -----------------------------
(***************************************************************************)
(* The values of the kernel's AML interpreter (the bytecode of the ACPI    *)
(* tables, kernel/src/acpi/aml) and the conversions between them:          *)
(* namespace.rs and pkglength.rs.                                          *)
(*                                                                         *)
(* An object of the interpreter is a record whose field t is the variant   *)
(* of the enum AmlValue.  Bytes are the numbers 0..255 and every String is *)
(* the sequence of its bytes.  A conversion returns [e, v]: e = "ok" and   *)
(* the value v, or the AmlError in e.  Two further outcomes are not values *)
(* of AmlError: "Panic" (an index out of range, an expect() or a division  *)
(* by zero; the kernel stops) and "Spin" (the interpreter waits for itself *)
(* for ever).  Nothing in the interpreter catches those two.               *)
(*                                                                         *)
(* u64 is scaled to WordBytes bytes: arithmetic wraps at Word as the       *)
(* release build wraps at 2^64.  A number turned into a buffer still fills *)
(* eight bytes.                                                            *)
(***************************************************************************)
EXTENDS Integers, Sequences, SequencesExt

CONSTANT WordBytes          \* bytes of the scaled u64
ASSUME WordBytesAssumption == WordBytes \in {2, 3}

Word == 256 ^ WordBytes
Ones == Word - 1

Backslash == \h5C
Caret     == \h5E
Dot       == \h2E
Underscore == \h5F

None               == [t |-> "None"]
Uninitialized      == [t |-> "Uninitialized"]
DebugObject        == [t |-> "DebugObject"]
Integer(i)         == [t |-> "Integer", i |-> i]
IntegerConstant(i) == [t |-> "IntegerConstant", i |-> i]
String(b)          == [t |-> "String", b |-> b]
Buffer(b)          == [t |-> "Buffer", b |-> b]
Package(p)         == [t |-> "Package", p |-> p]
Alias(name)        == [t |-> "Alias", b |-> name]
DDBHandle(names, sig)       == [t |-> "DDBHandle", names |-> names, sig |-> sig]
BufferField(src, idx, len)  == [t |-> "BufferField", src |-> src, idx |-> idx, len |-> len]
Mutex(level, owner)         == [t |-> "Mutex", level |-> level, owner |-> owner]
Event(count)                == [t |-> "Event", count |-> count]
Method(argc, ser, level, code) ==
    [t |-> "Method", argc |-> argc, ser |-> ser, level |-> level, code |-> code]
FieldUnit(sel, conn, flags, off, len) ==
    [t |-> "FieldUnit", sel |-> sel, conn |-> conn, flags |-> flags, foff |-> off, flen |-> len]
\* Device, Processor, PowerResource and ThermalZone: fixed data and the names
\* of the objects declared inside; notify_methods is always empty.
Holder(t, data, names)      == [t |-> t, data |-> data, names |-> names]
\* owner is accessed_by; 0 stands for Rust's None in every owner.
OperationRegion(space, off, len, owner) ==
    [t |-> "OperationRegion", space |-> space, off |-> off, len |-> len, owner |-> owner]
\* ObjectReference: an argument, a local, a named object, or a place in one.
ArgObj(k)          == [t |-> "ObjectReference", r |-> "ArgObj", k |-> k]
LocalObj(k)        == [t |-> "ObjectReference", r |-> "LocalObj", k |-> k]
Object(name)       == [t |-> "ObjectReference", r |-> "Object", b |-> name]
Index(obj, idx)    == [t |-> "ObjectReference", r |-> "Index", obj |-> obj, idx |-> idx]

Good(v)    == [e |-> "ok", v |-> v]
Bad(err)   == [e |-> err, v |-> 0]
ValueError == Bad("ValueError")
Bind(r, F(_)) == IF r.e = "ok" THEN F(r.v) ELSE r

\* Several conversions, each with ?: their values, or the first error.
AllOf(rs) ==
    IF \A k \in DOMAIN rs : rs[k].e = "ok" THEN Good([k \in DOMAIN rs |-> rs[k].v])
    ELSE rs[CHOOSE k \in DOMAIN rs : rs[k].e # "ok" /\ \A j \in 1 .. k - 1 : rs[j].e = "ok"]

-----------------------------------------------------------------------------
\* Digits(i, base): the ASCII digits of i, upper case, most significant first
\* (format!("{:X}") and format!("{}")).
RECURSIVE Digits(_, _)
Digits(i, base) ==
    LET c == i % base
        d == IF c < 10 THEN 48 + c ELSE 55 + c
    IN  IF i < base THEN <<d>> ELSE Append(Digits(i \div base, base), d)

\* The value of a hexadecimal digit of either case, 16 for any other byte.
HexValue(c) == CASE c \in 48..57  -> c - 48
                 [] c \in 65..70  -> c - 55
                 [] c \in 97..102 -> c - 87
                 [] OTHER         -> 16

\* i <<= 8; i += byte, last element of the sequence first, wrapping.
LittleEndian(b) ==
    LET value[k \in 0 .. WordBytes] ==
            IF k = 0 THEN 0
            ELSE value[k - 1] + (IF k <= Len(b) THEN b[k] * 256 ^ (k - 1) ELSE 0)
    IN  value[WordBytes]

\* Bytes above 127 are only ever used alone, which is never well-formed UTF-8.
Utf8(b) == \A k \in DOMAIN b : b[k] < 128

Utf8String(r) == IF r.e = "ok" /\ ~ Utf8(r.v) THEN Bad("Panic") ELSE r

\* SDT_ORDER is the order in which tables were loaded; get_index_from_signature
\* finds the last position of a signature, get_signature_from_index the entry.
get_index_from_signature(order, sig) ==
    LET found == {k \in DOMAIN order : order[k] = sig}
    IN  IF found = {} THEN ValueError ELSE Good(Max(found) - 1)

get_signature_from_index(order, i) ==
    IF i < Len(order) THEN Good(order[i + 1]) ELSE ValueError

-----------------------------------------------------------------------------
RECURSIVE get_as_buffer(_, _), get_as_integer(_, _)

\* source, index and length of a field: its bytes.
FieldBytes(r) ==
    LET end == (r.v[2] + r.v[3]) % Word
    IN  CASE r.e # "ok"           -> r
          [] end > Len(r.v[1])    -> ValueError
          [] end < r.v[2]         -> Bad("Panic")
          [] OTHER                -> Good(SubSeq(r.v[1], r.v[2] + 1, end))

get_as_buffer(v, order) ==
    CASE v.t \in {"Buffer", "String"} -> Good(v.b)
      [] v.t = "Integer" ->
            Good([k \in 1..8 |-> IF k <= WordBytes THEN (v.i \div 256 ^ (k - 1)) % 256 ELSE 0])
      [] v.t = "BufferField" ->
            FieldBytes(AllOf(<<get_as_buffer(v.src, order), get_as_integer(v.idx, order),
                               get_as_integer(v.len, order)>>))
      [] OTHER -> ValueError

BufferInteger(r) == CASE r.e # "ok"    -> r
                      [] Len(r.v) > 8  -> ValueError
                      [] OTHER         -> Good(LittleEndian(r.v))

get_as_integer(v, order) ==
    CASE v.t \in {"Integer", "IntegerConstant"} -> Good(v.i)
      [] v.t \in {"Buffer", "BufferField"} -> BufferInteger(get_as_buffer(v, order))
      [] v.t = "DDBHandle" -> get_index_from_signature(order, v.sig)
      [] v.t = "String" ->            \* [0..8] needs eight bytes; digits are eight bits apart
            IF Len(v.b) < 8 THEN Bad("Panic")
            ELSE LET ends == {k \in 1..8 : HexValue(v.b[k]) = 16} \cup {9}
                     n == Min(ends) - 1
                 IN  Good(LittleEndian(Reverse([k \in 1..n |-> HexValue(v.b[k])])))
      [] OTHER -> ValueError

get_as_string(v, order) ==
    CASE v.t = "String" -> Good(v.b)
      [] v.t \in {"Integer", "IntegerConstant"} -> Good(Digits(v.i, 16))
      [] v.t \in {"Buffer", "BufferField"} ->
            Utf8String(get_as_buffer(v, order))
      [] OTHER -> ValueError

\* A converted value as an object of type t.
Typed(t, r) ==
    IF r.e # "ok" THEN r
    ELSE Good(CASE t = "Buffer"      -> Buffer(r.v)
                [] t = "Integer"     -> Integer(r.v)
                [] t = "String"      -> String(r.v)
                [] t = "BufferField" -> BufferField(Buffer(r.v), IntegerConstant(0), Integer(Len(r.v)))
                [] t = "DDBHandle"   -> DDBHandle(<<>>, r.v))

get_as_buffer_field(v, order) ==
    IF v.t = "BufferField" THEN Good(v) ELSE Typed("BufferField", get_as_buffer(v, order))

\* A handle that became a number has lost the names its table added.
get_as_ddb_handle(v, order) ==
    CASE v.t = "DDBHandle" -> Good(v)
      [] v.t = "Integer"   -> Typed("DDBHandle", get_signature_from_index(order, v.i))
      [] OTHER -> ValueError

\* get_as_device, get_as_event, get_as_method, ...: no conversion, only a check.
get_as_same(v, t) == IF v.t = t THEN Good(v) ELSE ValueError

\* get_as_type(v, old): v converted to the type of the object it replaces.
get_as_type(v, old, order) ==
    CASE old.t = "None"          -> Good(None)
      [] old.t = "Uninitialized" -> Good(v)
      [] old.t = "Buffer"      -> Typed("Buffer", get_as_buffer(v, order))
      [] old.t = "BufferField" -> get_as_buffer_field(v, order)
      [] old.t = "DDBHandle"   -> get_as_ddb_handle(v, order)
      [] old.t = "Integer"     -> Typed("Integer", get_as_integer(v, order))
      [] old.t = "String"      -> Typed("String", get_as_string(v, order))
      [] OTHER                 -> get_as_same(v, old.t)

\* The type labels of Concatenate: one bracketed letter stands for the wording;
\* the variants missing from the match have an empty label.
get_type_string(v) ==
    LET Labelled == <<"Uninitialized", "Integer", "String", "Buffer", "Package", "FieldUnit",
                      "Device", "Event", "Method", "Mutex", "OperationRegion", "PowerResource",
                      "Processor", "ThermalZone", "BufferField", "DDBHandle", "DebugObject">>
        label == {k \in DOMAIN Labelled : Labelled[k] = v.t}
    IN  IF label = {} THEN <<>> ELSE <<91, 64 + Min(label), 93>>

-----------------------------------------------------------------------------
\* One "^" for each step towards the root; without a dot left there is no parent.
RECURSIVE Ascend(_, _)
Ascend(path, mod) ==
    IF mod = <<>> \/ mod[1] # Caret THEN Good([path |-> path, mod |-> mod])
    ELSE LET dots == {k \in DOMAIN path : path[k] = Dot}
         IN  IF dots = {} \/ Last(path) = Backslash THEN ValueError
             ELSE Ascend(SubSeq(path, 1, Max(dots) - 1), Tail(mod))

JoinedPath(r) ==
    CASE r.e # "ok" -> r
      [] r.v.path # <<>> /\ Last(r.v.path) = Backslash -> Good(r.v.path \o r.v.mod)
      [] OTHER -> Good(r.v.path \o <<Dot>> \o r.v.mod)

Qualified(current, modifier) ==
    CASE modifier.e # "ok"              -> modifier
      [] current = <<>>                 -> modifier
      [] modifier.v = <<>>              -> Good(current)
      [] modifier.v[1] = Backslash      -> modifier
      [] OTHER                          -> JoinedPath(Ascend(current, modifier.v))

get_namespace_string(current, modifier_v, order) ==
    Qualified(current, get_as_string(modifier_v, order))

\* parse_pkg_length: the length and the number of bytes that encode it.  Four
\* byte lengths exceed what a table holds here and are never built.
parse_pkg_length(d) ==
    IF d = <<>> THEN Bad("Panic")
    ELSE LET count == d[1] \div 64
             len[k \in 0..count] == IF k = 0 THEN d[1] % 16
                                    ELSE len[k - 1] + d[k + 1] * 16 * 256 ^ (k - 1)
         IN  CASE count = 0 -> Good([len |-> d[1] % 64, n |-> 1])
               [] (d[1] \div 16) % 4 # 0 -> Bad("ParseError")
               [] Len(d) < 1 + count -> Bad("Panic")
               [] OTHER -> Good([len |-> len[count], n |-> count + 1])
=============================================================================
