--------------------------- MODULE MCStepWitness ---------------------------
(***************************************************************************)
(* A small instance of StepWitness.                                        *)
(***************************************************************************)
EXTENDS StepWitness

\* A level of two bits above a level of one: eight pages.
MCLevelDepths == <<0, 2, 3>>

\* The last byte of a leaf whose successor is in another pair of the page, the
\* last byte of memory, whose successor is the first, and an aligned address.
MCAccesses ==
    { [leaf |-> <<0, 0, 0, 0, 1>>, byte |-> 1],
      [leaf |-> <<1, 1, 1, 1, 1>>, byte |-> 1],
      [leaf |-> <<0, 0, 0, 1, 0>>, byte |-> 0] }

\* An aligned PC in a page that is also written, and one across two pages.
MCPCs ==
    { [leaf |-> <<0, 0, 0, 1, 1>>, byte |-> 0],
      [leaf |-> <<0, 0, 0, 1, 1>>, byte |-> 1] }

MCStored == { <<1>>, <<0, 1>> }
=============================================================================
