------------------------------ MODULE MCLoader ------------------------------
(***************************************************************************)
(* A small instance of Loader: four pages of four bytes, in leaves of two. *)
(***************************************************************************)
EXTENDS Loader

MCLevelDepths == <<0, 1, 2>>

Prog(type, vaddr, bytes, memsz) ==
    [type |-> type, vaddr |-> vaddr, bytes |-> bytes, memsz |-> memsz]

\* From the middle of a page over two of its ends; up to the end of a page; with
\* zeroes after it; only zeroes; nothing; around the end of memory; one that is
\* not loaded; sizes that do not fit.
MCProgs ==
    { Prog("load", 2, <<1, 2, 1, 2, 1, 2, 1>>, 7),
      Prog("load", 4, <<2, 2>>, 4),
      Prog("load", 3, <<1>>, 4),
      Prog("load", 5, << >>, 3),
      Prog("other", 8, << >>, 0),
      Prog("other", 14, <<1, 1, 2>>, 3),
      Prog("attributes", 0, <<2>>, 0),
      Prog("load", 0, <<1, 2>>, 1),
      Prog("other", 0, <<1>>, 2) }

MCSymbols ==
    { << >>,
      << [patch |-> "none", value |-> 0], [patch |-> "ret", value |-> 4] >>,
      << [patch |-> "profile", value |-> 7], [patch |-> "ret", value |-> 8] >> }

MCFiles ==
    [machine : {"riscv"}, progs : {<<p, q>> : p, q \in MCProgs} \union {<<p>> : p \in MCProgs},
     symbols : MCSymbols, symtab : {TRUE}]
    \union [machine : {"riscv", "other"}, progs : {<< >>}, symbols : {<< >>}, symtab : {FALSE}]

MCRetPatch == <<2, 0>>
MCMemProfile == <<0, 0>>

\* The stack: two words that fill a page up to its end.
MCStackWords == << <<1, 2>>, <<2, 2>> >>
=============================================================================
