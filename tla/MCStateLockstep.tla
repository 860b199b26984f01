-------------------------- MODULE MCStateLockstep --------------------------
(***************************************************************************)
(* Values for StateLockstep: all bytes set, so that a field that runs into *)
(* another shows; all bytes different, so that an order shows; the exit    *)
(* codes 0 and 1 with higher bytes that must be cut off.                   *)
(***************************************************************************)
EXTENDS StateLockstep

MCValues == { [k \in 0 .. 7 |-> 255], [k \in 0 .. 7 |-> k], [k \in 0 .. 7 |-> k + 1] }

MCHashes == { [k \in 0 .. 31 |-> 255], [k \in 0 .. 31 |-> k + 1] }
=============================================================================
