--------------------------- MODULE MCContextMemory ---------------------------
(* Instances of ContextMemory for TLC. *)
EXTENDS ContextMemory

\* Code that is shared, and data that begins in the middle of a page.
MCImage == << [name |-> "text", page |-> 0, voff |-> 0, memsz |-> 2, filesz |-> 2,
               write |-> TRUE, exec |-> TRUE],
              [name |-> "data", page |-> 2, voff |-> 1, memsz |-> 2, filesz |-> 2,
               write |-> TRUE, exec |-> FALSE] >>
MCFrames == 1..43
==============================================================================
