--------------------------- MODULE MCGuestOutput ---------------------------
(***************************************************************************)
(* A small instance of GuestOutput: three pages of four bytes, with hints  *)
(* that have a length of two bytes.                                        *)
(***************************************************************************)
EXTENDS GuestOutput

\* From address 2 on: a hint of two bytes, an empty one, one of one byte; then,
\* around the end of memory, the longest of all.
MCRam == [a \in 0..11 |-> <<3, 0, 0, 2, 1, 2, 0, 0, 0, 1, 2, 3>>[a + 1]]
=============================================================================
