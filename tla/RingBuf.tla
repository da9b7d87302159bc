------------------------------- MODULE RingBuf -------------------------------
(***************************************************************************)
(* The single-producer single-consumer byte ring of the ringbuf crate.     *)
(*                                                                         *)
(* head and tail are the two shared atomics of the Header; shadow_head and *)
(* shadow_tail are the copies each side caches.  All four count bytes      *)
(* since the ring was created, so a byte is named by its position in the   *)
(* stream, and the value stored for a byte is that position: two bytes are *)
(* equal in the model only when they are the same byte.                    *)
(*                                                                         *)
(* One step is at most one access to an atomic of the other side.  A side  *)
(* is "idle", spinning in a blocking call ("spin"), inside the bounded     *)
(* loop of try_read ("try"), holding a handle ("held"), or has died in the *)
(* bounds check of the handle's slice ("dead").                            *)
(***************************************************************************)
EXTENDS Integers

CONSTANTS
    Capacity,    \* Header::capacity, which is also allocated_size
    WriteSizes,  \* the n of write and try_write
    ReadSizes,   \* the n of read, try_read and skip_n
    Tries,       \* the "times" argument of try_read
    Unwinds,     \* whether a panic unwinds and drops the handle: TRUE on the
                 \* host, FALSE in the kernel, where it stops the CPU
    MaxTotal     \* bound: bytes ever written

ASSUME RingAssumption ==
    /\ Capacity \in Nat \ {0}
    /\ WriteSizes \subseteq Nat \ {0}
    /\ ReadSizes \subseteq Nat \ {0}
    /\ Tries \subseteq Nat
    /\ Unwinds \subseteq BOOLEAN
    /\ MaxTotal \in Nat

VARIABLES
    head,         \* AtomicUsize, stored by the consumer only
    tail,         \* AtomicUsize, stored by the producer only
    shadow_head,  \* the producer's copy of head
    shadow_tail,  \* the consumer's copy of tail
    slots,        \* the byte array: the position last written to each slot
    torn,         \* positions published by a handle dropped while unwinding
    prod,         \* producer: [pc, n, filled]
    cons          \* consumer: [pc, n, times]

vars == <<head, tail, shadow_head, shadow_tail, slots, torn, prod, cons>>

Nobyte == -1

Slot(p) == p % Capacity

\* The slice buffer[offset .. offset + n] ends beyond the array.
Straddles(p, n) == Slot(p) + n > Capacity

\* Faulty space tests: one byte too generous, and a whole handle too generous.
FullLate(h, n) == h + Capacity < tail + n
FullIgnoringSize(h, n) == h + Capacity <= tail

\* The space test of write and try_write against a cached head h.
Full(h, n) == h + Capacity <= tail + n

\* Faulty data test: one byte too generous.
ShortLate(t, n) == t - head + 1 < n

\* The data test of read and try_read against a cached tail t.
Short(t, n) == t - head < n

ProdAt(pc, n, filled) == [pc |-> pc, n |-> n, filled |-> filled]
ConsAt(pc, n, times) == [pc |-> pc, n |-> n, times |-> times]
ProdIdle == ProdAt("idle", 0, 0)
ConsIdle == ConsAt("idle", 0, 0)

Init ==
    /\ head = 0 /\ tail = 0
    /\ shadow_head = 0 /\ shadow_tail = 0
    /\ slots = [i \in 0 .. Capacity - 1 |-> Nobyte]
    /\ torn = {}
    /\ prod = ProdIdle
    /\ cons = ConsIdle

-----------------------------------------------------------------------------
(* Producer *)

\* try_write: at most one load of head; None leaves only the cached copy.
TryWrite(n) ==
    /\ prod.pc = "idle"
    /\ tail + n <= MaxTotal
    /\ shadow_head' = IF Full(shadow_head, n) THEN head ELSE shadow_head
    /\ prod' = IF Full(shadow_head', n)
               THEN prod
               ELSE ProdAt("held", n, 0)
    /\ UNCHANGED <<head, tail, shadow_tail, slots, torn, cons>>

\* write, up to its first test of the cached copy.
Write(n) ==
    /\ prod.pc = "idle"
    /\ tail + n <= MaxTotal
    /\ prod' = ProdAt(IF Full(shadow_head, n) THEN "spin" ELSE "held", n, 0)
    /\ UNCHANGED <<head, tail, shadow_head, shadow_tail, slots, torn, cons>>

\* Faulty loop: the cached head is never refreshed.
WriteSpinStale ==
    /\ prod.pc = "spin"
    /\ prod' = IF Full(shadow_head, prod.n) THEN prod ELSE ProdAt("held", prod.n, 0)
    /\ UNCHANGED <<head, tail, shadow_head, shadow_tail, slots, torn, cons>>

\* One turn of the loop of write: load head, test again.
WriteSpin ==
    /\ prod.pc = "spin"
    /\ shadow_head' = head
    /\ prod' = IF Full(head, prod.n) THEN prod ELSE ProdAt("held", prod.n, 0)
    /\ UNCHANGED <<head, tail, shadow_tail, slots, torn, cons>>

\* DerefMut for WriteHandle, then one byte stored through the slice.
Fill ==
    /\ prod.pc = "held"
    /\ prod.filled < prod.n
    /\ ~Straddles(tail, prod.n)
    /\ slots' = [slots EXCEPT ![Slot(tail + prod.filled)] = tail + prod.filled]
    /\ prod' = ProdAt("held", prod.n, prod.filled + 1)
    /\ UNCHANGED <<head, tail, shadow_head, shadow_tail, torn, cons>>

\* DerefMut of a handle that straddles the end of the array: the slice
\* index panics.  In the kernel the CPU stops; in the host daemon the
\* thread unwinds, Drop runs and publishes bytes nobody stored.
WritePanic ==
    /\ prod.pc = "held"
    /\ Straddles(tail, prod.n)
    /\ \/ /\ TRUE \in Unwinds
          /\ tail' = tail + prod.n
          /\ torn' = torn \cup (tail .. tail + prod.n - 1)
          /\ prod' = ProdIdle
       \/ /\ FALSE \in Unwinds
          /\ prod' = ProdAt("dead", prod.n, prod.filled)
          /\ UNCHANGED <<tail, torn>>
    /\ UNCHANGED <<head, shadow_head, shadow_tail, slots, cons>>

\* Faulty drop: the handle is published before its bytes are stored.
DropWriteEarly ==
    /\ prod.pc = "held"
    /\ ~Straddles(tail, prod.n)
    /\ tail' = tail + prod.n
    /\ prod' = ProdIdle
    /\ UNCHANGED <<head, shadow_head, shadow_tail, slots, torn, cons>>

\* Drop for WriteHandle once the caller has filled the slice.
DropWrite ==
    /\ prod.pc = "held"
    /\ prod.filled = prod.n
    /\ tail' = tail + prod.n
    /\ prod' = ProdIdle
    /\ UNCHANGED <<head, shadow_head, shadow_tail, slots, torn, cons>>

-----------------------------------------------------------------------------
(* Consumer *)

\* read, up to its first test of the cached copy.
Read(n) ==
    /\ cons.pc = "idle"
    /\ cons' = ConsAt(IF Short(shadow_tail, n) THEN "spin" ELSE "held", n, 0)
    /\ UNCHANGED <<head, tail, shadow_head, shadow_tail, slots, torn, prod>>

\* Faulty loop: the cached tail is never refreshed.
ReadSpinStale ==
    /\ cons.pc = "spin"
    /\ cons' = IF Short(shadow_tail, cons.n) THEN cons ELSE ConsAt("held", cons.n, 0)
    /\ UNCHANGED <<head, tail, shadow_head, shadow_tail, slots, torn, prod>>

\* One turn of the loop of read: load tail, test again.
ReadSpin ==
    /\ cons.pc = "spin"
    /\ shadow_tail' = tail
    /\ cons' = IF Short(tail, cons.n) THEN cons ELSE ConsAt("held", cons.n, 0)
    /\ UNCHANGED <<head, tail, shadow_head, slots, torn, prod>>

\* try_read, up to its first test of the cached copy.
TryRead(n, times) ==
    /\ cons.pc = "idle"
    /\ cons' = ConsAt(IF Short(shadow_tail, n) THEN "try" ELSE "held", n, times)
    /\ UNCHANGED <<head, tail, shadow_head, shadow_tail, slots, torn, prod>>

\* One turn of the loop of try_read: load tail, give up when the tries are
\* spent (without testing what was just loaded), otherwise test again.
TryReadTurn ==
    /\ cons.pc = "try"
    /\ shadow_tail' = tail
    /\ cons' = IF cons.times = 0
               THEN ConsIdle
               ELSE ConsAt(IF Short(tail, cons.n) THEN "try" ELSE "held",
                           cons.n, cons.times - 1)
    /\ UNCHANGED <<head, tail, shadow_head, slots, torn, prod>>

\* Deref for ReadHandle of a range that straddles the end of the array.
ReadPanic ==
    /\ cons.pc = "held"
    /\ Straddles(head, cons.n)
    /\ \/ /\ TRUE \in Unwinds
          /\ head' = head + cons.n
          /\ cons' = ConsIdle
       \/ /\ FALSE \in Unwinds
          /\ cons' = ConsAt("dead", cons.n, cons.times)
          /\ UNCHANGED head
    /\ UNCHANGED <<tail, shadow_head, shadow_tail, slots, torn, prod>>

\* Drop for ReadHandle once the caller has read the slice.
DropRead ==
    /\ cons.pc = "held"
    /\ ~Straddles(head, cons.n)
    /\ head' = head + cons.n
    /\ cons' = ConsIdle
    /\ UNCHANGED <<tail, shadow_head, shadow_tail, slots, torn, prod>>

\* skip_n: one load of tail, then head moves over what is there.
SkipN(n) ==
    /\ cons.pc = "idle"
    /\ shadow_tail' = tail
    /\ head' = IF tail - head > n THEN head + n ELSE tail
    /\ UNCHANGED <<tail, shadow_head, slots, torn, prod, cons>>

-----------------------------------------------------------------------------
Producer ==
    \/ \E n \in WriteSizes : TryWrite(n) \/ Write(n)
    \/ WriteSpin \/ Fill \/ WritePanic \/ DropWrite

Consumer ==
    \/ \E n \in ReadSizes : Read(n) \/ SkipN(n)
    \/ \E n \in ReadSizes, times \in Tries : TryRead(n, times)
    \/ ReadSpin \/ TryReadTurn \/ ReadPanic \/ DropRead

Next == Producer \/ Consumer

Spec == Init /\ [][Next]_vars

\* A side that spins in write or read keeps spinning; nobody has to call.
FairSpec == Spec /\ WF_vars(WriteSpin) /\ WF_vars(ReadSpin)

-----------------------------------------------------------------------------
(* Properties *)

\* The variables have their types.
TypeOK ==
    /\ head \in Nat /\ tail \in Nat
    /\ shadow_head \in Nat /\ shadow_tail \in Nat
    /\ slots \in [0 .. Capacity - 1 -> Nat \cup {Nobyte}]
    /\ torn \subseteq Nat
    /\ prod \in [pc : {"idle", "spin", "held", "dead"}, n : Nat, filled : Nat]
    /\ cons \in [pc : {"idle", "spin", "try", "held", "dead"}, n : Nat, times : Nat]

\* Each cached copy lags its original and never passes the other side's
\* index: what makes wrapping_sub in read and try_read a true byte count.
ShadowsLag ==
    /\ shadow_head <= head
    /\ head <= shadow_tail
    /\ shadow_tail <= tail

\* The bytes of a live write handle and the unread bytes together never
\* fill the ring: the off-by-one of the <= in write and try_write.
NoOverrun ==
    /\ tail - head < Capacity
    /\ prod.pc = "held" => tail + prod.n - head < Capacity

\* A read handle covers only published bytes.
ReadPublished ==
    cons.pc = "held" => head + cons.n <= tail

\* The slots of a live write handle and of a live read handle are disjoint:
\* the data race the two unsafe Sync and Send impls promise away.
NoDataRace ==
    (prod.pc = "held" /\ cons.pc = "held") =>
        \A p \in tail .. tail + prod.n - 1, q \in head .. head + cons.n - 1 :
            Slot(p) # Slot(q)

\* Every published and unread byte is in its slot, unless the producer
\* published it while unwinding from the panic of a straddling write.
BytesIntact ==
    \A p \in head .. tail - 1 : p \in torn \/ slots[Slot(p)] = p

\* The unread bytes, oldest first.
Bytes(h, t, s) == [i \in 1 .. t - h |-> s[Slot(h + i - 1)]]
Unread == Bytes(head, tail, slots)

Pipe == INSTANCE FifoPipe WITH Limit <- Capacity, pipe <- Unread

\* The ring implements a bounded pipe: handles, cached indices and the bytes
\* being stored are invisible, a drop of a handle is the only visible step,
\* and no unread byte ever changes.
ImplementsPipe == Pipe!Spec

\* Once the consumer has freed enough room, a blocked write gets its handle
\* although it tests a cached head.
WriterUnblocks ==
    \A n \in WriteSizes :
        (prod.pc = "spin" /\ prod.n = n /\ tail + n - head < Capacity)
            ~> (prod.pc = "held")

\* Once the producer has published enough bytes, a blocked read gets its
\* handle although it tests a cached tail.
ReaderUnblocks ==
    \A n \in ReadSizes :
        (cons.pc = "spin" /\ cons.n = n /\ tail - head >= n)
            ~> (cons.pc = "held")

=============================================================================
