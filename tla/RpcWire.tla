------------------------------- MODULE RpcWire -------------------------------
(***************************************************************************)
(* What the kernel and ivshrpcd share: a ring of messages towards each     *)
(* side, an interrupt towards each side, and write_msg, which both have.   *)
(* A ring is the sequence of its published messages (RingBuf shows that it *)
(* behaves as one); prod[s] is the PRODUCER lock of side s together with   *)
(* the write_msg that holds it.                                            *)
(***************************************************************************)
EXTENDS Integers, Sequences

CONSTANTS
    RingSlots,  \* messages that fit into a ring
    Prompt      \* TRUE: a receiver's thousand polls outlast the few
                \* instructions from a sender's interrupt to its publication

ASSUME WireAssumption == RingSlots \in Nat \ {0} /\ Prompt \in BOOLEAN

VARIABLES
    ring,       \* ring[s]: messages on their way to side s
    notify,     \* notify[s]: the interrupt line or eventfd of s is raised
    prod        \* prod[s]: the write_msg in progress on side s

wireVars == <<ring, notify, prod>>

Sides == {"kernel", "host"}
Peer(s) == IF s = "kernel" THEN "host" ELSE "kernel"

\* MsgHeader and its values.  "of" names the call a message makes or answers.
Msg(type, id, func, of) == [type |-> type, id |-> id, func |-> func, of |-> of]
Call(s, id) == <<s, id>>
Answers == {"Return", "Error"}

Unlocked == [stage |-> "free"]

WireInit ==
    /\ ring = [s \in Sides |-> << >>]
    /\ notify = [s \in Sides |-> FALSE]
    /\ prod = [s \in Sides |-> Unlocked]

\* write_msg up to the lock of PRODUCER.
StartWrite(s, t, m) ==
    /\ prod[s].stage = "free"
    /\ prod' = [prod EXCEPT ![s] = [stage |-> "space", by |-> t, msg |-> m]]

Sending(s, t) == prod[s].stage # "free" /\ prod[s].by = t

At(s, stage, next) ==
    /\ prod[s].stage = stage
    /\ prod' = [prod EXCEPT ![s].stage = next]

\* Producer::write spins until the ring has room; the message is encoded into
\* the handle, where the peer does not see it yet.
WriteSpace(s) ==
    /\ At(s, "space", "interrupt")
    /\ Len(ring[Peer(s)]) < RingSlots
    /\ UNCHANGED <<ring, notify>>

\* Faulty: no interrupt.
SendInterruptNever(s) ==
    At(s, "interrupt", "publish") /\ UNCHANGED <<ring, notify>>

\* The doorbell register in the kernel, the peer's eventfd on the host.
SendInterrupt(s) ==
    /\ At(s, "interrupt", "publish")
    /\ notify' = [notify EXCEPT ![Peer(s)] = TRUE]
    /\ UNCHANGED ring

\* The end of write_msg drops the handle, which publishes the message, and
\* then the lock.
Publish(s) ==
    /\ prod[s].stage = "publish"
    /\ ring' = [ring EXCEPT ![Peer(s)] = Append(@, prod[s].msg)]
    /\ prod' = [prod EXCEPT ![s] = Unlocked]
    /\ UNCHANGED notify

\* Both try_read of a receive loop find nothing: the loop ends.
FindsNothing(s) ==
    /\ ring[s] = << >>
    /\ Prompt => prod[Peer(s)].stage # "publish"

Wire == \E s \in Sides : WriteSpace(s) \/ SendInterrupt(s) \/ Publish(s)

=============================================================================
