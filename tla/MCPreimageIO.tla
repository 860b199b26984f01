---------------------------- MODULE MCPreimageIO ----------------------------
(***************************************************************************)
(* A small instance of PreimageIO: leaves and keys of four bytes.          *)
(***************************************************************************)
EXTENDS PreimageIO

\* A local key and two global ones that share bytes, so that a key put together
\* wrongly may be another.
MCKeys == { <<1, 2, 1, 2>>, <<2, 1, 2, 2>>, <<2, 2, 1, 2>> }

\* A value shorter than a leaf, one longer, and an empty one; the first byte is
\* the length of the rest.
MCPreimage == [k \in MCKeys |-> IF k[1] = 1 THEN <<2, 3, 4>>
                                ELSE IF k[2] = 1 THEN <<4, 1, 2, 3, 4>> ELSE <<0>>]
=============================================================================
