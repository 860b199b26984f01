--------------------------- MODULE MCRadixMemory ---------------------------
(***************************************************************************)
(* A small instance of RadixMemory: eight pages of four leaves of two      *)
(* bytes.                                                                  *)
(***************************************************************************)
EXTENDS RadixMemory

\* A level of two bits above a level of one.
MCLevelDepths == <<0, 2, 3>>

\* The last byte of a page, with its next byte in the sibling page, and the last
\* byte of memory, whose next byte is the first: page zero has two leaves that
\* share no hash but the page's root.
MCAccesses ==
    { [leaf |-> <<0, 0, 0, 1, 1>>, byte |-> 1],
      [leaf |-> <<1, 1, 1, 1, 1>>, byte |-> 1] }
=============================================================================
