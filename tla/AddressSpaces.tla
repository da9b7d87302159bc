----------------------------- MODULE AddressSpaces -----------------------------
(***************************************************************************)
(* What the page tables promise: every table is a function from pages to   *)
(* frames.  A page of a context is mapped in one table; a page of the      *)
(* kernel is the same in all of them.                                      *)
(***************************************************************************)
EXTENDS TLC

CONSTANTS KernelPages, UserPages, Root

VARIABLE space      \* space[t]: the mapping of table t

With(m, p, f) == (p :> f) @@ m
Without(m, p) == [q \in DOMAIN m \ {p} |-> m[q]]

Init == space = (Root :> <<>>)

\* A new table shares the kernel's pages.
New(t, m) ==
    /\ t \notin DOMAIN space
    /\ m = [p \in DOMAIN space[Root] \cap KernelPages |-> space[Root][p]]
    /\ space' = (t :> m) @@ space

MapUser(t, p, f) ==
    /\ p \in UserPages \ DOMAIN space[t]
    /\ space' = [space EXCEPT ![t] = With(@, p, f)]

UnmapUser(t, p) ==
    /\ p \in UserPages \cap DOMAIN space[t]
    /\ space' = [space EXCEPT ![t] = Without(@, p)]

MapKernel(p, f) ==
    /\ p \in KernelPages \ DOMAIN space[Root]
    /\ space' = [t \in DOMAIN space |-> With(space[t], p, f)]

UnmapKernel(p) ==
    /\ p \in KernelPages \cap DOMAIN space[Root]
    /\ space' = [t \in DOMAIN space |-> Without(space[t], p)]

Next ==
    \/ \E t \in DOMAIN space' : New(t, space'[t])
    \/ \E t \in DOMAIN space : \E p \in DOMAIN space'[t] : MapUser(t, p, space'[t][p])
    \/ \E t \in DOMAIN space, p \in UserPages : UnmapUser(t, p)
    \/ \E p \in DOMAIN space'[Root] : MapKernel(p, space'[Root][p])
    \/ \E p \in KernelPages : UnmapKernel(p)

Spec == Init /\ [][Next]_space

===============================================================================
