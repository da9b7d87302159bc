-------------------------------- MODULE Paging --------------------------------
(***************************************************************************)
(* The page tables of kernel/src/arch/x86_64/paging: Mapper and Table,     *)
(* which reach every table through the recursive entry of the active one,  *)
(* TemporaryPage, ActivePageTable::with and InactivePageTable::new, and    *)
(* what their clients do with them: the mappings of ContextMemory and the  *)
(* table that spawn builds.                                                *)
(*                                                                         *)
(* A page is the tuple of its p4, p3, p2 and p1 index.  A table is the     *)
(* content of a frame; the count that the code keeps in spare bits of      *)
(* entry 0 is a variable of its own.  Clients run with interrupts          *)
(* disabled, one at a time: what the running one still has to do is todo.  *)
(* Frames come from an allocator that keeps the promise of FramePool, which *)
(* FrameAlloc does.                                                        *)
(***************************************************************************)
EXTENDS Integers, Sequences, FiniteSets

CONSTANTS
    Frames,         \* frames of the allocator
    Root,           \* the frame of the P4 that paging::init made
    Zero,           \* physical frame 0
    NoFrame,        \* an unused entry
    Index,          \* indices of a table
    Rec,            \* RECURSIVE_PAGE_PML4
    KernelPages,    \* pages of the valloc area
    Held,           \* the page that init_noncore maps for ever
    UserPages,      \* pages of a context
    Tmp,            \* the page at USER_TMP_MISC_OFFSET
    MaxData,        \* bound: frames in the hands of clients
    MaxTables,      \* bound: tables of contexts
    MaxCalls        \* bound: clients that run

Pages == KernelPages \cup UserPages \cup {Tmp}

ASSUME PagingAssumption ==
    /\ Pages \subseteq Index \X Index \X Index \X Index
    /\ Rec \in Index /\ \A p \in Pages : p[1] # Rec
    /\ \A p \in KernelPages, q \in UserPages \cup {Tmp} : p[1] # q[1]
    /\ \A p \in UserPages : p[1] # Tmp[1]
    /\ Held \in KernelPages
    /\ IsFiniteSet(Frames)
    /\ Cardinality({Root, Zero, NoFrame} \ Frames) = 3
    /\ MaxData \in Nat /\ MaxTables \in Nat /\ MaxCalls \in Nat

VARIABLES
    used,       \* frames that the allocator has handed out
    ent,        \* ent[t][i]: the frame that entry i of table t points to
    cnt,        \* cnt[t]: the counter of table t
    cr3,        \* the frame of the active P4
    todo,       \* the rest of the running client
    level,      \* the table that map_to or unmap_inner looks at
    data,       \* frames that clients hold and have not mapped
    tables,     \* finished tables of contexts
    calls       \* clients so far

entries == <<ent, cnt>>
vars == <<used, entries, cr3, todo, level, data, tables, calls>>

Zeroed == [i \in Index |-> NoFrame]

\* What is in a frame that is not a table: no clear entry.
Garbage == [i \in Index |-> Zero]

\* The MMU's translation in the active table.
Mmu(a, b, c, d) ==
    LET Down(t, i) == IF t = NoFrame THEN NoFrame ELSE ent[t][i]
    IN  Down(Down(Down(Down(cr3, a), b), c), d)

\* Table::next_table_address: the frame of the table of a level, seen through
\* the recursive entry.
TableOf(p, l) ==
    CASE l = 4 -> Mmu(Rec, Rec, Rec, Rec)
      [] l = 3 -> Mmu(Rec, Rec, Rec, p[1])
      [] l = 2 -> Mmu(Rec, Rec, p[1], p[2])
      [] l = 1 -> Mmu(Rec, p[1], p[2], p[3])

\* The index of a page in its table of level l: p4_index .. p1_index.
IndexOf(p, l) == p[5 - l]

\* TemporaryPage::start_address: the frame that it shows at present.
Shown == Mmu(Tmp[1], Tmp[2], Tmp[3], Tmp[4])

-------------------------------------------------------------------------------
(* Clients: straight-line code, as a sequence of calls *)

\* allocate_frames(1) and deallocate_frames(f, 1). Nothing here compares frames
\* and a new table is zeroed, so it is no matter which free frame is taken.
Take(f) ==
    /\ Frames # used
    /\ f = CHOOSE g \in Frames \ used : TRUE
    /\ used' = used \cup {f}

\* Faulty release: the frame of an empty table is forgotten.
GiveNothing(f) == f \in used /\ UNCHANGED used
Give(f) == used' = used \ {f}


\* ActivePageTable::with
Within(t, body) ==
    << <<"map", Tmp, cr3>>, <<"rec", t>> >> \o body
        \o << <<"restore", cr3>>, <<"unmap", Tmp, TRUE>> >>

\* Faulty spawn: the last use of the temporary page is not undone.
NewTableLeaves(t, p, f) ==
    << <<"map", Tmp, t>>, <<"zero", t>>, <<"unmap", Tmp, TRUE>> >>
        \o Within(t, << <<"share", t>> >>)
        \o << <<"map", Tmp, cr3>>, <<"rec", t>>, <<"map", p, f>>, <<"restore", cr3>> >>

\* InactivePageTable::new, the part of spawn that shares the kernel's areas, and
\* map_context of the new context's memory.
NewTable(t, p, f) ==
    << <<"map", Tmp, t>>, <<"zero", t>>, <<"unmap", Tmp, TRUE>> >>
        \o Within(t, << <<"share", t>> >>)
        \o Within(t, << <<"map", p, f>> >>)

Idle == todo = <<>>

Init ==
    /\ used = {}
    /\ ent = [t \in Frames \cup {Root} |->
                 IF t = Root THEN [Zeroed EXCEPT ![Rec] = Root] ELSE Garbage]
    /\ cnt = [t \in Frames \cup {Root} |-> 0]
    /\ cr3 = Root
    /\ todo = << <<"map", Held, Zero>> >>
    /\ level = 4
    /\ data = {}
    /\ tables = {}
    /\ calls = 0

\* A client starts.
Start == Idle /\ calls < MaxCalls /\ calls' = calls + 1

Call(script) ==
    /\ Start
    /\ todo' = script
    /\ UNCHANGED <<used, entries, cr3, level, tables>>

Translated(p) == Mmu(p[1], p[2], p[3], p[4]) # NoFrame

\* VallocMapping::new and Grant::physmap.
Map(p, f) == ~Translated(p) /\ Call(<< <<"map", p, f>> >>) /\ data' = data \ {f}

\* VallocMapping::drop and Grant::unmap; the frame stays with the client.
Unmap(p) ==
    /\ p # Held /\ Translated(p)
    /\ Call(<< <<"unmap", p, FALSE>> >>)
    /\ data' = data \cup {Mmu(p[1], p[2], p[3], p[4])}

\* spawn
Spawn(t, p, f) ==
    /\ Cardinality(tables) < MaxTables
    /\ Call(NewTable(t, p, f))
    /\ data' = data \ {t, f}

\* The part of arch::switch_* that loads another P4.
Switch(t) ==
    /\ Start
    /\ t # cr3
    /\ cr3' = t
    /\ UNCHANGED <<used, entries, todo, level, data, tables>>

\* Frames::new of one frame, and Frames::drop.
NewFrame(f) ==
    /\ Start
    /\ Cardinality(data) < MaxData
    /\ Take(f)
    /\ data' = data \cup {f}
    /\ UNCHANGED <<entries, cr3, todo, level, tables>>

DropFrame(f) ==
    /\ Start
    /\ Give(f)
    /\ data' = data \ {f}
    /\ UNCHANGED <<entries, cr3, todo, level, tables>>

-------------------------------------------------------------------------------
(* The calls *)

Doing(op) == todo # <<>> /\ Head(todo)[1] = op
Arg == Head(todo)[2]
Done == todo' = Tail(todo) /\ level' = 4
Panic(why) == todo' = << <<"panic", why>> >> /\ UNCHANGED <<entries, level>>

\* Faulty counter: it is not lowered when an entry is cleared.
SetEntryCounting(t, i, f, d) ==
    /\ ent' = [ent EXCEPT ![t][i] = f]
    /\ cnt' = [cnt EXCEPT ![t] = IF d = 1 THEN @ + 1 ELSE @]

\* Entry i of table t becomes f; the counter changes by d.
SetEntry(t, i, f, d) ==
    /\ ent' = [ent EXCEPT ![t][i] = f]
    /\ cnt' = [cnt EXCEPT ![t] = @ + d]

\* Table::next_table_create: the next table of the walk, made if it is missing.
MapDown ==
    LET t == TableOf(Arg, level)
        i == IndexOf(Arg, level)
    IN  /\ Doing("map") /\ level > 1
        /\ \/ /\ ent[t][i] # NoFrame
              /\ level' = level - 1
              /\ UNCHANGED <<used, entries, todo>>
           \/ /\ ent[t][i] = NoFrame
              /\ \/ \E f \in Frames :
                      /\ Take(f)
                      /\ ent' = [ent EXCEPT ![t][i] = f, ![f] = Zeroed]
                      /\ cnt' = [cnt EXCEPT ![t] = @ + 1, ![f] = 0]
                      /\ level' = level - 1
                      /\ UNCHANGED todo
                 \/ Frames = used /\ Panic("no frames") /\ UNCHANGED used
        /\ UNCHANGED <<cr3, data, tables, calls>>

\* Mapper::map_to, the entry itself.
MapLeaf ==
    LET t == TableOf(Arg, 1)
        i == IndexOf(Arg, 1)
    IN  /\ Doing("map") /\ level = 1
        /\ \/ ent[t][i] = NoFrame /\ SetEntry(t, i, Head(todo)[3], 1) /\ Done
           \/ ent[t][i] # NoFrame /\ Panic("mapped")
        /\ UNCHANGED <<used, cr3, data, tables, calls>>

\* Mapper::unmap_inner, the walk down.
UnmapDown ==
    LET t == TableOf(Arg, level)
        i == IndexOf(Arg, level)
    IN  /\ Doing("unmap") /\ level > 1
        /\ \/ ent[t][i] # NoFrame /\ level' = level - 1 /\ UNCHANGED <<entries, todo>>
           \/ ent[t][i] = NoFrame /\ Panic("not found")
        /\ UNCHANGED <<used, cr3, data, tables, calls>>

\* Mapper::unmap_inner, the entry itself; empty tables are freed afterwards
\* unless keep_parents is set.
UnmapLeaf ==
    LET t == TableOf(Arg, 1)
        i == IndexOf(Arg, 1)
        keep == Head(todo)[3]
    IN  /\ Doing("unmap") /\ level = 1
        /\ \/ ent[t][i] = NoFrame /\ Panic("not found")
           \/ /\ ent[t][i] # NoFrame
              /\ SetEntry(t, i, NoFrame, -1)
              /\ IF keep \/ cnt[t] > 1
                   THEN Done
                   ELSE todo' = << <<"free", Arg>> >> \o Tail(todo) /\ level' = 2
        /\ UNCHANGED <<used, cr3, data, tables, calls>>

\* Mapper::unmap_inner, the way up: the table below is free.
FreeUp ==
    LET t == TableOf(Arg, level)
        i == IndexOf(Arg, level)
    IN  /\ Doing("free")
        /\ ent' = [ent EXCEPT ![t][i] = NoFrame, ![ent[t][i]] = Garbage]
        /\ cnt' = [cnt EXCEPT ![t] = @ - 1, ![ent[t][i]] = 0]
        /\ Give(ent[t][i])
        /\ IF level = 4 \/ cnt[t] > 1
             THEN Done
             ELSE level' = level + 1 /\ UNCHANGED todo
        /\ UNCHANGED <<cr3, data, tables, calls>>

\* InactivePageTable::new: the table in the temporary page is cleared.
ZeroStep ==
    /\ Doing("zero")
    /\ ent' = [ent EXCEPT ![Shown] = [Zeroed EXCEPT ![Rec] = Arg]]
    /\ cnt' = [cnt EXCEPT ![Shown] = 0]
    /\ Done
    /\ UNCHANGED <<used, cr3, data, tables, calls>>

\* ActivePageTable::with, before and after the closure.
RecStep ==
    /\ Doing("rec")
    /\ SetEntry(TableOf(Tmp, 4), Rec, Arg, 0)
    /\ Done
    /\ UNCHANGED <<used, cr3, data, tables, calls>>

RestoreStep ==
    /\ Doing("restore")
    /\ SetEntry(Shown, Rec, Arg, 0)
    /\ Done
    /\ UNCHANGED <<used, cr3, data, tables, calls>>

SharedIndices == {p[1] : p \in KernelPages}


\* spawn: the kernel's areas in the new table, as they are in the active one.
ShareStep ==
    LET t == TableOf(Tmp, 4)
    IN  /\ Doing("share")
        /\ ent' = [ent EXCEPT ![t] = [i \in Index |->
                      IF i \in SharedIndices THEN ent[cr3][i] ELSE ent[t][i]]]
        /\ tables' = tables \cup {Arg}
        /\ Done
        /\ UNCHANGED <<used, cnt, cr3, data, calls>>

Client ==
    \/ \E p \in KernelPages \cup UserPages, f \in data : Map(p, f)
    \/ \E p \in KernelPages \cup UserPages : Unmap(p)
    \/ \E t \in data : \E f \in data \ {t}, p \in UserPages : Spawn(t, p, f)
    \/ \E t \in tables \cup {Root} : Switch(t)
    \/ \E f \in Frames : NewFrame(f)
    \/ \E f \in data : DropFrame(f)

Next ==
    \/ Client
    \/ MapDown \/ MapLeaf
    \/ UnmapDown \/ UnmapLeaf \/ FreeUp
    \/ ZeroStep \/ RecStep \/ RestoreStep \/ ShareStep

Spec == Init /\ [][Next]_vars

-------------------------------------------------------------------------------
(* Properties *)

Roots == tables \cup {Root}

\* The walk from a table that need not be the active one.
Walk(t, p) ==
    LET Down(u, i) == IF u = NoFrame THEN NoFrame ELSE ent[u][i]
    IN  Down(Down(Down(Down(t, p[1]), p[2]), p[3]), p[4])

\* Every table is a function from pages to frames that changes only by the calls
\* of its clients; the kernel's pages are the same in all tables.
Space ==
    [t \in Roots |->
        LET mapped == {p \in KernelPages \cup UserPages : Walk(t, p) # NoFrame}
        IN  [p \in mapped |-> Walk(t, p)]]
Abstract == INSTANCE AddressSpaces WITH space <- Space

\* The tables below the entries of a set of tables.
Below(ts) == {ent[t][i] : t \in ts, i \in Index \ {Rec}} \ {NoFrame}
Level3 == Below(Roots)
Level2 == Below(Level3)
Level1 == Below(Level2)
Inner == Level3 \cup Level2 \cup Level1

\* The counter of a table below the P4 is the number of its entries in use, so
\* that unmap_inner frees a table exactly when it is empty.
CountsExact ==
    \A t \in Inner : cnt[t] = Cardinality({i \in Index : ent[t][i] # NoFrame})

\* A frame is never two tables, or a table and somebody's memory, at once; and
\* none is forgotten: between two calls the frames in use are the tables and
\* what clients hold or have mapped.
FramesOwned ==
    LET leaves == Below(Level1) \ {Zero}
    IN  /\ Cardinality(Inner) = Cardinality(Level3) + Cardinality(Level2) + Cardinality(Level1)
        /\ Inner \cap (leaves \cup data \cup Roots) = {}
        /\ Idle => used = Inner \cup leaves \cup data \cup tables

\* Between two calls every recursive entry leads to its own table, and the
\* temporary page is free.
WithRestores ==
    Idle => /\ \A t \in Roots : ent[t][Rec] = t
            /\ Shown = NoFrame


===============================================================================
