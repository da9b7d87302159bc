------------------------------ MODULE FrameAlloc ------------------------------
(***************************************************************************)
(* Physical frames: BumpAllocator (kernel/src/memory/bump.rs), which hands *)
(* out the frames of the memory map in order, below RecycleAllocator       *)
(* (recycle.rs), which hands out again what was given back.  Both are      *)
(* behind one lock (memory/mod.rs), so a client never sees the middle of   *)
(* an allocation; the recursive calls of the bump allocator are single     *)
(* steps here because they need not end.                                   *)
(***************************************************************************)
EXTENDS Blocks

CONSTANTS
    Areas,      \* <<first, last>> frame of every free area of the memory map
    KernelEnd,  \* last frame of the kernel; kstart says that it begins at 0
    Counts      \* sizes that clients ask for

ASSUME FrameAssumption ==
    /\ Areas \subseteq Nat \X Nat
    /\ IsFiniteSet(Areas)
    /\ \A r \in Areas : r[1] <= r[2]
    /\ \A r, s \in Areas : r # s => r[2] < s[1] \/ s[2] < r[1]
    /\ KernelEnd \in Nat
    /\ Counts \subseteq Nat \ {0}

VARIABLES
    next_free_frame,    \* BumpAllocator
    current_area,       \* BumpAllocator: an area, or None
    free,               \* RecycleAllocator: the list of free blocks
    noncore,            \* RecycleAllocator: blocks may be kept in the list
    want,               \* count of the allocation in progress, 0 if there is none
    live,               \* blocks in the hands of clients
    lost                \* frames that nobody will get any more

bump == <<next_free_frame, current_area>>
vars == <<next_free_frame, current_area, free, noncore, want, live, lost>>

None == <<>>
KernelFrames == 0 .. KernelEnd
AreaFrames == UNION {r[1] .. r[2] : r \in Areas}
Usable == AreaFrames \ KernelFrames

-------------------------------------------------------------------------------
(* BumpAllocator *)

\* The areas that choose_next_area considers, and the one with the lowest base.
AreasLeft(next) == {r \in Areas : r[2] >= next}
NextArea(next) ==
    IF AreasLeft(next) = {} THEN None
    ELSE CHOOSE r \in AreasLeft(next) : \A s \in AreasLeft(next) : r[1] <= s[1]

\* choose_next_area
ChooseNextArea ==
    LET r == NextArea(next_free_frame)
    IN  /\ current_area' = r
        /\ next_free_frame' =
             IF r # None /\ next_free_frame < r[1] THEN r[1] ELSE next_free_frame

Init ==
    /\ current_area = NextArea(0)
    /\ next_free_frame = IF current_area # None THEN current_area[1] ELSE 0
    /\ free = <<>>
    /\ noncore = FALSE
    /\ want = 0
    /\ live = {}
    /\ lost = {}

EndFrame == next_free_frame + want - 1

\* allocate_frames when no area is left.
BumpNone ==
    /\ want # 0
    /\ current_area = None
    /\ want' = 0
    /\ UNCHANGED <<bump, free, noncore, live, lost>>

\* allocate_frames when the block reaches beyond the current area.
BumpNextArea ==
    /\ want # 0
    /\ current_area # None
    /\ EndFrame > current_area[2]
    /\ ChooseNextArea
    /\ UNCHANGED <<free, noncore, want, live, lost>>

\* Faulty test: only a block that is wholly in the kernel image is refused.
HitsKernelWhole == next_free_frame \in KernelFrames /\ EndFrame \in KernelFrames

\* The block begins or ends in the kernel image.
HitsKernel == next_free_frame \in KernelFrames \/ EndFrame \in KernelFrames

\* Faulty skip: to the last frame of the kernel.
BumpSkipKernelShort ==
    /\ want # 0
    /\ current_area # None
    /\ EndFrame <= current_area[2]
    /\ HitsKernel
    /\ next_free_frame' = KernelEnd
    /\ UNCHANGED <<current_area, free, noncore, want, live, lost>>

\* allocate_frames when the block is in the kernel image: go on behind it.
BumpSkipKernel ==
    /\ want # 0
    /\ current_area # None
    /\ EndFrame <= current_area[2]
    /\ HitsKernel
    /\ next_free_frame' = KernelEnd + 1
    /\ UNCHANGED <<current_area, free, noncore, want, live, lost>>

\* allocate_frames when the block is free.
BumpTake ==
    /\ want # 0
    /\ current_area # None
    /\ EndFrame <= current_area[2]
    /\ ~HitsKernel
    /\ next_free_frame' = next_free_frame + want
    /\ live' = live \cup {<<next_free_frame, want>>}
    /\ want' = 0
    /\ UNCHANGED <<current_area, free, noncore, lost>>

-------------------------------------------------------------------------------
(* RecycleAllocator *)

\* allocate_frames: from the list if a block is large enough, else from the
\* bump allocator.
Allocate(n) ==
    /\ want = 0
    /\ IF Fitting(free, n) # {}
         THEN /\ free' = Recycled(free, n)
              /\ live' = live \cup {<<RecycledFrame(free, n), n>>}
              /\ UNCHANGED want
         ELSE /\ want' = n
              /\ UNCHANGED <<free, live>>
    /\ UNCHANGED <<bump, noncore, lost>>

\* deallocate_frames, of a block as it was handed out.  Before set_noncore the
\* bump allocator is asked, which drops the block.
Deallocate(b) ==
    /\ want = 0
    /\ live' = live \ {b}
    /\ IF noncore
         THEN free' = GiveBack(free, b[1], b[2]) /\ UNCHANGED lost
         ELSE lost' = lost \cup Cells(b) /\ UNCHANGED free
    /\ UNCHANGED <<bump, noncore, want>>

\* set_noncore(true), by init_noncore once the heap exists.
SetNoncore ==
    /\ want = 0
    /\ ~noncore
    /\ noncore' = TRUE
    /\ UNCHANGED <<bump, free, want, live, lost>>

Bump == BumpNone \/ BumpNextArea \/ BumpSkipKernel \/ BumpTake

Next ==
    \/ Bump
    \/ \E n \in Counts : Allocate(n)
    \/ \E b \in live : Deallocate(b)
    \/ SetNoncore

Spec == Init /\ [][Next]_vars

\* The recursion of the bump allocator goes on.
FairSpec == Spec /\ WF_vars(Bump)

-------------------------------------------------------------------------------
(* free_frames and used_frames *)

FreeCount == SumFunction([i \in DOMAIN free |-> free[i][2]])

free_frames == Cardinality({f \in Usable : f >= next_free_frame}) + FreeCount

used_frames ==
    Cardinality({f \in AreaFrames : f \in KernelFrames \/ f < next_free_frame}) - FreeCount

-------------------------------------------------------------------------------
(* Properties *)

Blocked == UNION {Cells(b) : b \in live}

\* Two free blocks never touch, so the recursion of merge ends at its second
\* level; a third would use an index that the second one has made invalid.
MergeSettles ==
    \A b \in live : Settled(free, b[1], b[2])

\* free_frames is the number of frames that clients can still get, and with
\* used_frames it makes up all of memory: merging and splitting blocks neither
\* loses a frame nor lists one twice.
CountsAgree ==
    /\ free_frames = Cardinality(Usable \ (Blocked \cup lost))
    /\ free_frames + used_frames = Cardinality(AreaFrames)

\* It is a FramePool.
Pool == INSTANCE FramePool
ImplementsPool == Pool!Spec

\* Frames of the current area are left, but too few for the block.
AreaTail ==
    /\ current_area # None
    /\ next_free_frame <= current_area[2]
    /\ EndFrame > current_area[2]

\* The recursion of the bump allocator ends, but for one case.  A block that does
\* not fit is taken to mean that "all frames of current area are used, switch to
\* next area" (kernel/src/memory/bump.rs:121); when some are left, the same area
\* is chosen again, and allocate_frames calls itself for ever.
AllocationEnds == want # 0 ~> want = 0 \/ AreaTail

===============================================================================
