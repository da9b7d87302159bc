------------------------------ MODULE Segments -------------------------------
(***************************************************************************)
(* What a context sees of its memory: an image, a stack, a heap and the    *)
(* place where the kernel puts values for it, each a sequence of cells     *)
(* that nobody else changes.                                               *)
(***************************************************************************)
EXTENDS Integers, Sequences, TLC

CONSTANTS Contexts, PageSize, ImageOf, CallSizes, ReplySizes

VARIABLES
    seg,    \* seg[c]: the segments of context c, by name
    used    \* used[c]: cells of its arguments that hold values

Clear(n) == [j \in 1..n |-> 0]
Message(c, n) == [j \in 1..n |-> c]
RoundUp(n) == ((n + PageSize - 1) \div PageSize) * PageSize

Init == seg = [c \in Contexts |-> <<>>] /\ used = [c \in Contexts |-> 0]

\* A function begins with its arguments; what is behind them is clear.
Begin(c, new, n) ==
    new = [args |-> Message(c, n) \o Clear(RoundUp(n) - n + IF n = 0 THEN PageSize ELSE 0),
           stack |-> Clear(PageSize), heap |-> Clear(PageSize)] @@ ImageOf

\* fuse_proxy begins with its arguments; what is behind them is not.
BeginProxy(c, new, n) ==
    /\ DOMAIN new = {"args"}
    /\ SubSeq(new.args, 1, n) = Message(c, n)

\* The kernel adds a value to those that are there.
Add(c, old, new, n) ==
    LET size == IF Len(old.args) - used[c] < n THEN RoundUp(Len(old.args) + n)
                                               ELSE Len(old.args)
    IN  new = [old EXCEPT !.args =
                  SubSeq(@, 1, used[c]) \o Message(c, n) \o Clear(size - used[c] - n)]

\* The function writes.
Change(c, old, new) ==
    \E name \in DOMAIN old \ {"args"} : \E j \in DOMAIN old[name] :
        new = [old EXCEPT ![name][j] = c]

\* One context begins, gets a value or writes; the others see nothing of it.
Next ==
    LET before == seg
        after == seg'
    IN  \E c \in Contexts :
            /\ \A d \in Contexts \ {c} : after[d] = before[d]
            /\ \/ /\ before[c] = <<>>
                  /\ \E n \in CallSizes :
                         /\ Begin(c, after[c], n) \/ BeginProxy(c, after[c], n)
                         /\ used' = [used EXCEPT ![c] = n]
               \/ /\ before[c] # <<>>
                  /\ \E n \in ReplySizes :
                         /\ Add(c, before[c], after[c], n)
                         /\ used' = [used EXCEPT ![c] = @ + n]
               \/ Change(c, before[c], after[c]) /\ UNCHANGED used

Spec == Init /\ [][Next]_<<seg, used>>
==============================================================================
