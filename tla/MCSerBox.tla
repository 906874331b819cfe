------------------------------ MODULE MCSerBox ------------------------------
(***************************************************************************)
(* A small instance of SerBox: two Consumer handles, of which the older    *)
(* one may still be about to wake the Sharer when the newer one is made.   *)
(***************************************************************************)
EXTENDS SerBox

CONSTANTS k1, k2
=============================================================================
