-------------------------------- MODULE Blocks --------------------------------
(***************************************************************************)
(* The list of free blocks that RecycleAllocator keeps, of frames, and     *)
(* Valloc, of pages.  A block is a pair <<first, count>> as in the code,   *)
(* which keeps the first as an address.  merge is the same function in     *)
(* recycle.rs and in valloc.rs.                                            *)
(***************************************************************************)
EXTENDS Integers, SequencesExt, FiniteSetsExt

Cells(b) == b[1] .. b[1] + b[2] - 1

\* The pages of all blocks of a list.
Listed(free) == UNION {Cells(free[i]) : i \in DOMAIN free}

\* The blocks of a list that end where <<a, n>> begins or begin where it ends.
Touching(free, a, n) ==
    {i \in DOMAIN free : a + n = free[i][1] \/ free[i][1] + free[i][2] = a}

\* A block after <<a, n>> was added to it.
Grown(b, a, n) == <<IF a + n = b[1] THEN a ELSE b[1], b[2] + n>>

\* What one call of merge does to the list before it calls itself.
MergeInto(free, a, n) ==
    LET i == Min(Touching(free, a, n))
    IN  [free EXCEPT ![i] = Grown(free[i], a, n)]

\* Faulty merge: the block that both were merged into is removed.
MergeDropping(free, a, n) ==
    LET i == Min(Touching(free, a, n))
        once == MergeInto(free, a, n)
    IN  IF Touching(once, once[i][1], once[i][2]) = {}
          THEN once
          ELSE RemoveAt(MergeInto(once, once[i][1], once[i][2]),
                        Min(Touching(once, once[i][1], once[i][2])))

\* merge, when <<a, n>> touches a block: the block that grew is merged again,
\* and is removed if that found another one.  The second call would call a
\* third time, which finds nothing (see Settled).
Merge(free, a, n) ==
    LET i == Min(Touching(free, a, n))
        once == MergeInto(free, a, n)
    IN  IF Touching(once, once[i][1], once[i][2]) = {}
          THEN once
          ELSE RemoveAt(MergeInto(once, once[i][1], once[i][2]), i)

\* The third call of merge for <<a, n>> would find nothing to do.
Settled(free, a, n) ==
    LET i == Min(Touching(free, a, n))
        once == MergeInto(free, a, n)
        j == Min(Touching(once, once[i][1], once[i][2]))
        twice == MergeInto(once, once[i][1], once[i][2])
    IN  \/ Touching(free, a, n) = {}
        \/ Touching(once, once[i][1], once[i][2]) = {}
        \/ Touching(twice, twice[j][1], twice[j][2]) = {}

\* Faulty release: blocks are never joined.
GiveBackUnmerged(free, a, n) == Append(free, <<a, n>>)

\* A block given back: deallocate_frames and deallocate_pages.
GiveBack(free, a, n) ==
    IF Touching(free, a, n) = {} THEN Append(free, <<a, n>>)
                                 ELSE Merge(free, a, n)

-------------------------------------------------------------------------------
(* The choice of a block *)

\* The smallest blocks with room for n pages.
Fitting(free, n) == {i \in DOMAIN free : free[i][2] >= n}
Smallest(free, n) ==
    {i \in Fitting(free, n) : \A j \in Fitting(free, n) : free[i][2] <= free[j][2]}

\* RecycleAllocator::allocate_frames: the last of the smallest blocks gives its
\* last n frames away.
RecycleIndex(free, n) == Max(Smallest(free, n))

Recycled(free, n) ==
    LET i == RecycleIndex(free, n)
    IN  IF free[i][2] = n THEN RemoveAt(free, i)
                          ELSE [free EXCEPT ![i] = <<free[i][1], free[i][2] - n>>]

RecycledFrame(free, n) ==
    LET b == free[RecycleIndex(free, n)] IN b[1] + b[2] - n

\* Valloc::allocate_pages: the first of the smallest blocks gives its last n
\* pages away; the last block of the list takes the place of one that is used up.
VallocIndex(free, n) == Min(Smallest(free, n))

\* Faulty removal: the last block of the list goes, instead of the one used up.
VallocedPops(free, n) ==
    LET i == VallocIndex(free, n)
    IN  IF free[i][2] > n THEN [free EXCEPT ![i] = <<free[i][1], free[i][2] - n>>]
                          ELSE Front(free)

Valloced(free, n) ==
    LET i == VallocIndex(free, n)
    IN  IF free[i][2] > n THEN [free EXCEPT ![i] = <<free[i][1], free[i][2] - n>>]
                          ELSE Front([free EXCEPT ![i] = Last(free)])

VallocPage(free, n) ==
    LET b == free[VallocIndex(free, n)] IN b[1] + b[2] - n

===============================================================================
