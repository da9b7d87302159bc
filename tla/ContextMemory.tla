---------------------------- MODULE ContextMemory ----------------------------
(***************************************************************************)
(* The memory of contexts (kernel/src/context/memory.rs): regions of       *)
(* frames that are shared by reference counts, seen through the kernel's   *)
(* own pages (kernel/src/memory/valloc.rs) and through the page table of   *)
(* their context; and those who use them: load, spawn, spawn_kernel, the   *)
(* arguments of calls and the results of system calls.                     *)
(*                                                                         *)
(* mem is the whole of memory.  An operation takes a memory and gives a    *)
(* memory, with out = "none" when the code gives None and "panic" when it  *)
(* panics; what follows such an outcome is skipped.  A region has a key:   *)
(* <<"c", c, name>> for a field of context c, <<"m", i, name>> for a       *)
(* section of the image of module i.  An Arc is the block of frames or of  *)
(* pages that it manages, and its count.  Page tables are the functions    *)
(* that Paging shows them to be, and the frames they take are not counted. *)
(* Stacks are one page.  A call into the kernel is one step, but for the   *)
(* look of kmain, which may be interrupted, into the module cache.         *)
(***************************************************************************)
EXTENDS Blocks

CONSTANTS
    Frames,         \* the allocator's frames
    ZeroFrame,      \* physical frame 0
    VallocPages,    \* how many pages there are for the kernel's mappings
    KstackPages,    \* pages of a kernel stack
    PageSize,       \* PAGE_SIZE, in cells
    Contexts,       \* ids of contexts other than kmain
    Modules,        \* ids of loaded modules
    Image,          \* the loadable segments of the module that is called
    CallSizes,      \* encoded lengths of arguments
    ReplySizes,     \* encoded lengths of results
    MaxSteps        \* bound: calls and writes

\* Where things are, in pages.
USER_ARG_OFFSET == 10
USER_HEAP_OFFSET == 20
USER_STACK_OFFSET == 40
KERNEL_VALLOC_OFFSET == 100

\* A segment above the image is an error of load, before it does anything.
ASSUME MemoryAssumption ==
    /\ Frames \subseteq Nat \ {ZeroFrame}
    /\ {VallocPages, KstackPages, PageSize, MaxSteps} \subseteq Nat \ {0}
    /\ Contexts \subseteq Nat \ {0}
    /\ CallSizes \cup ReplySizes \subseteq Nat
    /\ \A j \in DOMAIN Image : Image[j].memsz > 0 /\ Image[j].page < USER_ARG_OFFSET

VARIABLES
    mem,        \* memory
    status,     \* status[c]: "none", "ready", "waiting" for a fuse, or "exited"
    table,      \* table[c]: whose page table c runs on
    module,     \* module[c]: its module, NoModule for the kernel's
    ret_link,   \* ret_link[c]: the context that waits for c, or Nobody
    cache,      \* MODULE_CACHE: the module that is called, or NoModule
    kpc,        \* kmain: "look", "load", "cast", "fuse", then "idle"
    found,      \* the module that kmain has, or NoModule
    steps       \* calls and writes so far

contexts == <<status, table, module, ret_link>>
kmainVars == <<kpc, found>>
vars == <<mem, contexts, cache, kmainVars, steps>>

None == <<>>
Kmain == 0
Nobody == -1
NoModule == 0

\* What a cell holds, if not 0 or what was written by or for a context (its id):
\* what was in the frame before, part of an image, or no page at all.
Junk == -1
FromFile == -2
Fault == -3

\* Whether p is a page of the kernel's area, which all tables share.
KernelPage(p) == p >= KERNEL_VALLOC_OFFSET

Pages(size) == (size + PageSize - 1) \div PageSize

Ok(k) == k.out = "ok"
Out(k, o) == [k EXCEPT !.out = o]

\* Option::expect
Expect(k) == IF k.out = "none" THEN Out(k, "panic") ELSE k

Without(f, x) == Restrict(f, DOMAIN f \ {x})

------------------------------------------------------------------------------
(* Page tables *)

\* The pages around p as the table of context t has them.
Space(k, t, p) == IF KernelPage(p) THEN k.kspace ELSE k.space[t]
SetSpace(k, t, p, f) ==
    IF KernelPage(p) THEN [k EXCEPT !.kspace = f] ELSE [k EXCEPT !.space[t] = f]

\* Mapper::map_to for the frames of block b from page a on: a page that is in
\* use is an assertion that fails.
MapAll(k, t, a, b) ==
    LET pages == a .. a + b[2] - 1
    IN  IF pages \cap DOMAIN Space(k, t, a) # {} THEN Out(k, "panic")
        ELSE SetSpace(k, t, a, [p \in pages |-> b[1] + p - a] @@ Space(k, t, a))

\* Mapper::unmap_return for n pages from a on, which have to be mapped.
UnmapAll(k, t, a, n) ==
    LET pages == a .. a + n - 1
    IN  IF ~(pages \subseteq DOMAIN Space(k, t, a)) THEN Out(k, "panic")
        ELSE SetSpace(k, t, a, Restrict(Space(k, t, a), DOMAIN Space(k, t, a) \ pages))

------------------------------------------------------------------------------
(* Frames and VallocMapping *)

\* Where the allocator could take n frames from; it gives None when there is
\* no such place (FramePool).  What is in them does not depend on the place.
Room(k, n) == {f \in k.pool : f .. f + n - 1 \subseteq k.pool}

\* Arc::clone and drop of an Arc<Frames>.
CloneFrames(k, b) == [k EXCEPT !.arcs[b] = @ + 1]
DropFrames(k, b) ==
    IF k.arcs[b] > 1 THEN [k EXCEPT !.arcs[b] = @ - 1]
    ELSE [k EXCEPT !.arcs = Without(@, b), !.pool = @ \cup Cells(b)]

\* The pages that VallocMapping::new gets for n frames.
NextPages(k, n) == <<VallocPage(k.free, n), n>>

\* VallocMapping::new with an Arc of the frames b.
NewMapping(k, b) ==
    IF ~Ok(k) THEN k
    ELSE IF Fitting(k.free, b[2]) = {} THEN Out(DropFrames(k, b), "none")
    ELSE LET pages == NextPages(k, b[2])
         IN  MapAll([k EXCEPT !.free = Valloced(@, b[2]),
                              !.maps = (pages :> [frames |-> b, count |-> 1]) @@ @],
                    Kmain, pages[1], b)

CloneMapping(k, pages) ==
    IF pages = None THEN k ELSE [k EXCEPT !.maps[pages].count = @ + 1]

\* Faulty drop: the mapping forgets its frames.
DropMappingKeeps(k, pages) ==
    IF pages = None THEN k
    ELSE IF k.maps[pages].count > 1 THEN [k EXCEPT !.maps[pages].count = @ - 1]
    ELSE [UnmapAll(k, Kmain, pages[1], pages[2])
             EXCEPT !.free = GiveBack(@, pages[1], pages[2]), !.maps = Without(@, pages)]

\* Drop of an Arc<VallocMapping>: unmapped, the pages given back, the frames
\* dropped.
DropMapping(k, pages) ==
    IF pages = None THEN k
    ELSE IF k.maps[pages].count > 1 THEN [k EXCEPT !.maps[pages].count = @ - 1]
    ELSE LET bare == UnmapAll(k, Kmain, pages[1], pages[2])
         IN  DropFrames([bare EXCEPT !.free = GiveBack(@, pages[1], pages[2]),
                                     !.maps = Without(@, pages)],
                        k.maps[pages].frames)

\* The cell at an offset in a mapping, and what a mapping shows.
CellAt(k, pages, o) == <<k.kspace[pages[1] + o \div PageSize], o % PageSize>>
Shows(k, pages) == [j \in 1 .. pages[2] * PageSize |-> k.ram[CellAt(k, pages, j - 1)]]

\* VallocMapping as a mutable slice: data from an offset on.
Fill(k, pages, o, data) ==
    LET cells == {CellAt(k, pages, o + j - 1) : j \in DOMAIN data}
        new == [x \in cells |-> data[CHOOSE j \in DOMAIN data : x = CellAt(k, pages, o + j - 1)]]
    IN  [k EXCEPT !.ram = new @@ @]

------------------------------------------------------------------------------
(* ContextMemory *)

\* ContextMemory::new, as the region r of n pages.
new(k, r, n, address, writable) ==
    IF ~Ok(k) THEN k
    ELSE IF Room(k, n) = {} THEN Out(k, "none")
    ELSE LET b == <<Min(Room(k, n)), n>>
         IN  [k EXCEPT !.pool = @ \ Cells(b),
                       !.arcs = (b :> 1) @@ @,
                       !.region = (r :> [map |-> None, address |-> address, mapped |-> FALSE,
                                         frames |-> b, writable |-> writable]) @@ @]

\* Drop of a ContextMemory: of its two Arcs.
DropRegion(k, r) ==
    LET m == k.region[r]
    IN  [DropFrames(DropMapping(k, m.map), m.frames) EXCEPT !.region = Without(@, r)]

Maps(mapped, r, pages) == IF Ok(mapped) THEN [mapped EXCEPT !.region[r].map = pages] ELSE mapped
map_to_kernel(k, r) ==
    IF ~Ok(k) \/ k.region[r].map # None THEN k
    ELSE Maps(NewMapping(CloneFrames(k, k.region[r].frames), k.region[r].frames), r,
              NextPages(k, k.region[r].frames[2]))

\* A new region is dropped when there are no pages to map it to.
OrDropped(k, r) == IF k.out = "none" /\ r \in DOMAIN k.region THEN DropRegion(k, r) ELSE k

AtItsMapping(k, r) == IF Ok(k) THEN [k EXCEPT !.region[r].address = k.region[r].map[1]] ELSE k
new_kernel(k, r, n) == AtItsMapping(OrDropped(map_to_kernel(new(k, r, n, 0, TRUE), r), r), r)

drop_kernel_mapping(k, r) ==
    IF ~Ok(k) THEN k ELSE [DropMapping(k, k.region[r].map) EXCEPT !.region[r].map = None]

\* as_slice_mut, and what is written to the slice: the mapping has to be there
\* and must not be shared.
Write(k, r, o, data) ==
    IF ~Ok(k) THEN k
    ELSE LET pages == k.region[r].map
         IN  IF pages = None \/ k.maps[pages].count # 1 THEN Out(k, "panic")
             ELSE Fill(k, pages, o, data)

Zeros(n) == [j \in 1..n |-> 0]
Length(k, r) == k.region[r].frames[2] * PageSize
zero(k, r) == IF ~Ok(k) THEN k ELSE Write(k, r, 0, Zeros(Length(k, r)))


\* map_context and unmap_context in the table of context t.
map_context(k, r, t) ==
    IF ~Ok(k) \/ k.region[r].mapped THEN k
    ELSE MapAll([k EXCEPT !.region[r].mapped = TRUE], t, k.region[r].address, k.region[r].frames)

unmap_context(k, r, t) ==
    IF ~Ok(k) \/ ~k.region[r].mapped THEN k
    ELSE UnmapAll([k EXCEPT !.region[r].mapped = FALSE], t, k.region[r].address,
                  k.region[r].frames[2])

\* ref_clone of r as d: the frames and the mapping are shared.
ref_clone(k, r, d) ==
    IF ~Ok(k) THEN k
    ELSE LET m == k.region[r]
         IN  [CloneMapping(CloneFrames(k, m.frames), m.map)
                 EXCEPT !.region = (d :> [m EXCEPT !.mapped = FALSE]) @@ @]

\* clone_internal of r as d, with n new frames that are mapped for the kernel.
clone_internal(k, r, d, n) ==
    OrDropped(map_to_kernel(new(k, d, n, k.region[r].address, k.region[r].writable), d), d)

\* The mapping through which copy_clone and resize read r.  The argument of
\* unwrap_or is evaluated in any case, so r is mapped once more; if r was
\* mapped already this mapping is dropped at once.
OldMapping(k, r) ==
    IF k.region[r].map = None THEN NextPages(k, k.region[r].frames[2]) ELSE k.region[r].map
InsteadOf(extra, r, pages) ==
    IF ~Ok(extra) \/ extra.region[r].map = None THEN extra
    ELSE CloneMapping(DropMapping(extra, pages), extra.region[r].map)
TakeOldMapping(k, r) ==
    InsteadOf(NewMapping(CloneFrames(k, k.region[r].frames), k.region[r].frames), r,
              NextPages(k, k.region[r].frames[2]))

CopyThrough(k, old, r, d) ==
    IF ~Ok(k) THEN k
    ELSE DropMapping(Write(clone_internal(k, r, d, k.region[r].frames[2]), d, 0, Shows(k, old)), old)
copy_clone(k, r, d) ==
    IF ~Ok(k) THEN k ELSE CopyThrough(TakeOldMapping(k, r), OldMapping(k, r), r, d)

\* Faulty copy: what is behind the old content is left as it is.
ResizedUncleared(content, n) == SubSeq(content, 1, Min({n, Len(content)}))

\* The content of a region of n cells after a resize.
Resized(content, n) ==
    IF n > Len(content) THEN content \o Zeros(n - Len(content)) ELSE SubSeq(content, 1, n)

\* resize of r to n pages, in the table of context t, which is the active one.
\* A region that could not be resized is dropped.
Resizing == <<"new", 0, "">>
Replaced(k, r) ==
    IF Ok(k) THEN [k EXCEPT !.region = (r :> k.region[Resizing]) @@ Without(@, Resizing)] ELSE k
Replace(k, r, old) ==
    IF k.out = "panic" THEN k ELSE Replaced(DropRegion(DropMapping(k, old), r), r)
ResizeThrough(k, old, r, n, t) ==
    IF ~Ok(k) THEN DropRegion(k, r)
    ELSE LET copied == Write(clone_internal(k, r, Resizing, n), Resizing, 0,
                             Resized(Shows(k, old), n * PageSize))
         IN  Replace(map_context(unmap_context(copied, r, t), Resizing, t), r, old)
resize(k, r, n, t) == ResizeThrough(TakeOldMapping(k, r), OldMapping(k, r), r, n, t)

\* ContextValues::append_encode of n cells for context c, while the table of
\* context t is active.
append_encode(k, c, n, t) ==
    LET args == <<"c", c, "args">>
        length == Length(k, args)
        o == k.offset[c]
        roomy == IF length - o < n THEN Expect(resize(k, args, Pages(length + n), t)) ELSE k
    IN  IF ~Ok(k) THEN k
        ELSE Write([roomy EXCEPT !.offset[c] = o + n], args, o, [j \in 1..n |-> c])

------------------------------------------------------------------------------
(* Modules and contexts *)

\* load: a section of the image, from a segment of the file.  A segment whose
\* size in memory is not its size in the file does not survive copy_from_slice.
Writable(seg) == seg.write /\ ~seg.exec
Load(k, r, seg) ==
    IF ~Ok(k) THEN k
    ELSE IF seg.memsz # seg.filesz THEN Out(k, "panic")
    ELSE Write(k, r, 0, Zeros(seg.voff) \o [j \in 1..seg.filesz |-> FromFile]
                           \o Zeros(Length(k, r) - seg.voff - seg.memsz))
LoadSection(k, i, seg) ==
    LET r == <<"m", i, seg.name>>
    IN  Load(Expect(map_to_kernel(Expect(new(k, r, Pages(seg.memsz + seg.voff), seg.page,
                                             Writable(seg))), r)), r, seg)

load(k, i) == FoldLeft(LAMBDA a, seg : LoadSection(a, i, seg), k, Image)

\* Drop of a Module: of its image.
DropModule(k, i) == FoldLeft(LAMBDA a, seg : DropRegion(a, <<"m", i, seg.name>>), k, Image)

\* The part of spawn that makes args, stack and heap: one page, mapped for the
\* kernel and cleared.
UserRegion(k, d, name, address) ==
    LET r == <<"c", d, name>>
    IN  zero(Expect(map_to_kernel(Expect(new(k, r, 1, address, TRUE)), r)), r)

\* The image of context d: what is not writable is shared, the rest is copied.
ShareSection(k, i, d, seg) == ref_clone(k, <<"m", i, seg.name>>, <<"c", d, seg.name>>)
CopySection(k, i, d, seg) ==
    LET r == <<"c", d, seg.name>>
    IN  drop_kernel_mapping(Expect(copy_clone(k, <<"m", i, seg.name>>, r)), r)

\* spawn of context d from module i; without a kernel stack it gives an error.
Regions(k, d, i) ==
    LET readonly == FoldLeft(LAMBDA a, seg : ShareSection(a, i, d, seg), k,
                             SelectSeq(Image, LAMBDA seg : ~Writable(seg)))
        image == FoldLeft(LAMBDA a, seg : CopySection(a, i, d, seg), readonly,
                          SelectSeq(Image, Writable))
        args == UserRegion(image, d, "args", USER_ARG_OFFSET)
        stack == UserRegion(args, d, "stack", USER_STACK_OFFSET)
    IN  UserRegion(stack, d, "heap", USER_HEAP_OFFSET)
Names == [j \in DOMAIN Image |-> Image[j].name] \o <<"args", "stack", "heap">>
MapContext(k, d) == FoldLeft(LAMBDA a, name : map_context(a, <<"c", d, name>>, d), k, Names)

WithKstack(k, d, i) == IF Ok(k) THEN MapContext(Regions(k, d, i), d) ELSE k
spawn(k, d, i) == WithKstack(new_kernel(k, <<"c", d, "kstack">>, KstackPages), d, i)

\* spawn_kernel; without memory for arguments its kernel stack is dropped.
spawn_kernel(k, d) ==
    OrDropped(new_kernel(new_kernel(k, <<"c", d, "kstack">>, KstackPages), <<"c", d, "args">>, 1),
              <<"c", d, "kstack">>)

------------------------------------------------------------------------------
\* After init_noncore, which keeps a page of its own for ever, and context::init.
Held == <<KERNEL_VALLOC_OFFSET + VallocPages - 1, 1>>
Booted ==
    [free |-> << <<KERNEL_VALLOC_OFFSET, VallocPages - 1>> >>, pool |-> Frames,
     arcs |-> <<>>, maps |-> <<>>, region |-> <<>>,
     kspace |-> Held[1] :> ZeroFrame, space |-> [c \in Contexts \cup {Kmain} |-> <<>>],
     offset |-> [c \in Contexts |-> 0],
     ram |-> [x \in Frames \X (0 .. PageSize - 1) |-> Junk], out |-> "ok"]

Init ==
    /\ mem = new_kernel(Booted, <<"c", Kmain, "kstack">>, KstackPages)
    /\ status = [c \in Contexts \cup {Kmain} |-> IF c = Kmain THEN "ready" ELSE "none"]
    /\ table = [c \in Contexts \cup {Kmain} |-> Kmain]
    /\ module = [c \in Contexts |-> NoModule]
    /\ ret_link = [c \in Contexts |-> Nobody]
    /\ cache = NoModule
    /\ kpc = "look" /\ found = NoModule
    /\ steps = 0

Step == Ok(mem) /\ steps < MaxSteps /\ steps' = steps + 1

\* Nobody looks at memory any more after a panic.
Becomes(k) == mem' = IF Ok(k) THEN k ELSE Out(mem, "panic")

\* The id that ContextList::insert gives, and a place for a new module.
NextId == Min({c \in Contexts : status[c] = "none"})
Unborn == {c \in Contexts : status[c] = "none"} # {}
NextModule == Min({i \in Modules : <<"m", i, Image[1].name>> \notin DOMAIN mem.region})

\* cached_module and load_and_cache in one: the module that is called.
Called == IF cache = NoModule THEN NextModule ELSE cache
initfs_module == IF cache = NoModule THEN load(mem, Called) ELSE mem

\* spawn of the next context from module i, in memory k, with its arguments of
\* n cells written while the table of context c is active.
WithArgs(k, c, n) == append_encode(k, NextId, n, table[c])

NewContext(d, i, t, caller) ==
    /\ status' = [c \in DOMAIN status |-> CASE c = d      -> "ready"
                                            [] c = caller -> "waiting"
                                            [] OTHER      -> status[c]]
    /\ table' = [table EXCEPT ![d] = t]
    /\ module' = [module EXCEPT ![d] = i]
    /\ ret_link' = [ret_link EXCEPT ![d] = caller]

\* fuse_inner and cast_inner: memory k with a new context, its arguments written
\* while the table of context c is active; it goes into the list.
Start(k, c, n, i, caller) ==
    /\ Becomes(WithArgs(k, c, n))
    /\ NewContext(NextId, i, NextId, caller)

User(c) == c # Kmain /\ status[c] = "ready" /\ module[c] # NoModule
Proxy(c) == c # Kmain /\ status[c] = "ready" /\ module[c] = NoModule
Spawned == spawn(initfs_module, NextId, Called)

\* sys_fuse or sys_cast of a user context, or sys_fuse of a fuse_proxy.
Call(c, caller, n) ==
    /\ Step
    /\ Unborn
    /\ User(c) \/ (Proxy(c) /\ caller = c)
    /\ LET k == Spawned
       IN  k.out # "none" /\ Start(k, c, n, Called, caller)
    /\ cache' = Called
    /\ UNCHANGED kmainVars
SysFuse(c, n) == Call(c, c, n)
SysCast(c, n) == Call(c, Nobody, n)

\* A call for which there is no kernel stack: a user context gets an error of n
\* cells, a fuse_proxy sends it to the host and exits.
CallFails(c, n) ==
    /\ Step
    /\ Unborn
    /\ User(c) \/ Proxy(c)
    /\ LET k == Spawned
       IN  /\ k.out = "none"
           /\ \/ /\ User(c)
                 /\ Becomes(append_encode(Out(k, "ok"), c, n, table[c]))
                 /\ UNCHANGED status
              \/ /\ Proxy(c)
                 /\ mem' = Out(k, "ok")
                 /\ status' = [status EXCEPT ![c] = "exited"]
    /\ cache' = Called
    /\ UNCHANGED <<table, module, ret_link, kmainVars>>

\* isr, in the context c that it interrupted: a Cast of the host.
IsrCast(c, n) ==
    /\ Step
    /\ Unborn
    /\ status[c] = "ready"
    /\ LET k == Spawned
       IN  IF k.out = "none" THEN mem' = Out(k, "ok") /\ UNCHANGED contexts
           ELSE Start(k, c, n, Called, Nobody)
    /\ cache' = Called
    /\ UNCHANGED kmainVars

\* isr: a Fuse of the host is a cast of fuse_proxy, which runs on the table of
\* the context that was interrupted.
IsrFuse(c, n) ==
    /\ Step
    /\ Unborn
    /\ status[c] = "ready"
    /\ Becomes(WithArgs(Expect(spawn_kernel(mem, NextId)), c, n))
    /\ NewContext(NextId, NoModule, table[c], Nobody)
    /\ UNCHANGED <<cache, kmainVars>>

\* kmain: cached_module, after which it may be interrupted before it goes on.
KmainLooks ==
    /\ Step
    /\ kpc = "look"
    /\ kpc' = IF cache = NoModule THEN "load" ELSE "cast"
    /\ found' = cache
    /\ UNCHANGED <<mem, contexts, cache>>

\* kmain: load_and_cache.  The module that was cached since is dropped when
\* nobody has it.
KmainLoads ==
    /\ Step
    /\ kpc = "load"
    /\ kpc' = "cast"
    /\ found' = NextModule
    /\ cache' = NextModule
    /\ LET held == {module[c] : c \in Contexts}
           k == load(mem, NextModule)
       IN  Becomes(IF Ok(k) /\ cache \notin held \cup {NoModule} THEN DropModule(k, cache) ELSE k)
    /\ UNCHANGED contexts

\* kmain: cast_name of passthrough, and then fuse_name of call.
KmainCalls(n) ==
    /\ Step
    /\ Unborn
    /\ kpc \in {"cast", "fuse"}
    /\ kpc' = IF kpc = "cast" THEN "fuse" ELSE "idle"
    /\ Becomes(WithArgs(Expect(spawn(mem, NextId, found)), Kmain, n))
    /\ NewContext(NextId, found, NextId, IF kpc = "cast" THEN Nobody ELSE Kmain)
    /\ UNCHANGED <<cache, found>>

\* A system call that returns n cells: SYS_WRITE.
SysWrite(c, n) ==
    /\ Step
    /\ User(c)
    /\ Becomes(append_encode(mem, c, n, table[c]))
    /\ UNCHANGED <<contexts, cache, kmainVars>>

\* sys_return of n cells and exit: a user context that waits gets them as the
\* result of its system call, fuse_proxy sends them to the host and exits.
SysReturn(c, n) ==
    /\ Step
    /\ User(c)
    /\ LET d == ret_link[c]
       IN  IF d \in {Nobody, Kmain} \/ module[d] = NoModule
             THEN /\ status' = [x \in DOMAIN status |->
                                   CASE x = c -> "exited"
                                     [] x = d -> IF d = Kmain THEN "ready" ELSE "exited"
                                     [] OTHER -> status[x]]
                  /\ UNCHANGED mem
             ELSE /\ status' = [status EXCEPT ![c] = "exited", ![d] = "ready"]
                  /\ Becomes(append_encode(mem, d, n, table[d]))
    /\ ret_link' = [ret_link EXCEPT ![c] = Nobody]
    /\ UNCHANGED <<table, module, cache, kmainVars>>

\* A function writes to memory of its own, through its page table.
Own(c) == {r \in DOMAIN mem.region : r[1] = "c" /\ r[2] = c /\ r[3] \notin {"args", "kstack"}
                                     /\ mem.region[r].writable}
Store(c, r) ==
    /\ Step
    /\ User(c)
    /\ r \in Own(c)
    /\ mem' = [mem EXCEPT !.ram[<<mem.space[table[c]][mem.region[r].address], 0>>] = c]
    /\ UNCHANGED <<contexts, cache, kmainVars>>

Next ==
    \/ \E c \in Contexts, n \in CallSizes : SysFuse(c, n) \/ SysCast(c, n)
    \/ \E c \in Contexts, n \in ReplySizes : CallFails(c, n) \/ SysWrite(c, n) \/ SysReturn(c, n)
    \/ \E c \in Contexts \cup {Kmain}, n \in CallSizes : IsrCast(c, n) \/ IsrFuse(c, n)
    \/ KmainLooks
    \/ KmainLoads
    \/ \E n \in CallSizes : KmainCalls(n)
    \/ \E c \in Contexts, r \in DOMAIN mem.region : Store(c, r)

Spec == Init /\ [][Next]_vars

------------------------------------------------------------------------------
(* Properties *)

OfContext(c) == {r \in DOMAIN mem.region : r[1] = "c" /\ r[2] = c}


\* A page of the kernel's area is free, or belongs to one mapping and shows the
\* frame of that mapping (Valloc, VallocMapping): resizing, copying, sharing and
\* failing leave no page mapped that may be handed out again, and lose none.
KernelPagesApart ==
    LET taken == DOMAIN mem.maps \cup {Held}
    IN  /\ \A a, b \in taken : a # b => Cells(a) \cap Cells(b) = {}
        /\ \A i, j \in DOMAIN mem.free : i # j => Cells(mem.free[i]) \cap Cells(mem.free[j]) = {}
        /\ UNION {Cells(a) : a \in taken} = DOMAIN mem.kspace
        /\ Listed(mem.free) \cap DOMAIN mem.kspace = {}
        /\ Cardinality(Listed(mem.free) \cup DOMAIN mem.kspace) = VallocPages
        /\ \A a \in DOMAIN mem.maps : \A p \in Cells(a) :
               mem.kspace[p] = mem.maps[a].frames[1] + p - a[1]

\* Every frame is with the allocator or in one block, and the counts of a block
\* and of a mapping are the numbers of those who have them: whatever succeeds or
\* fails half way, nothing is freed that is in use and nothing is kept that
\* nobody has (Frames, VallocMapping, ContextMemory and their drops).
FramesAccounted ==
    LET regions == DOMAIN mem.region
    IN  /\ \A a, b \in DOMAIN mem.arcs : a # b => Cells(a) \cap Cells(b) = {}
        /\ mem.pool = Frames \ UNION {Cells(b) : b \in DOMAIN mem.arcs}
        /\ \A b \in DOMAIN mem.arcs :
               mem.arcs[b] = Cardinality({r \in regions : mem.region[r].frames = b})
                             + Cardinality({m \in DOMAIN mem.maps : mem.maps[m].frames = b})
        /\ \A m \in DOMAIN mem.maps :
               mem.maps[m].count = Cardinality({r \in regions : mem.region[r].map = m})

\* What context c sees of a region, through the table that it runs on.
Sees(c, r) ==
    LET a == mem.region[r].address
        pages == Space(mem, table[c], a)
    IN  [j \in 1..Length(mem, r) |->
            LET p == a + (j - 1) \div PageSize
            IN  IF p \in DOMAIN pages THEN mem.ram[<<pages[p], (j - 1) % PageSize>>] ELSE Fault]
Seen(c) ==
    LET names == {r[3] : r \in OfContext(c)} \ {"kstack"}
    IN  [name \in names |-> Sees(c, <<"c", c, name>>)]

\* The image as its file has it, by section.
ImageOf ==
    LET seg(name) == CHOOSE x \in Range(Image) : x.name = name
        content(s) == Zeros(s.voff) \o [j \in 1..s.filesz |-> FromFile]
    IN  [name \in {s.name : s \in Range(Image)} |->
            LET s == content(seg(name))
            IN  s \o Zeros(Pages(Len(s)) * PageSize - Len(s))]

\* Through its table a context sees the segments it was given and nothing else:
\* arguments and results where the kernel said they are, also after the place
\* for them was moved to new frames; a clear stack and heap; an image that other
\* contexts of the module do not change (spawn, append_encode, resize).
AsSegments == INSTANCE Segments WITH seg <- [c \in Contexts |-> Seen(c)], used <- mem.offset
ImplementsSegments == AsSegments!Spec

===============================================================================
