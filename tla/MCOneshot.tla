----------------------------- MODULE MCOneshot -----------------------------
(***************************************************************************)
(* A small instance of Oneshot: two sender handles, of which the older one *)
(* may still be about to wake the receiver when the newer one is made.     *)
(***************************************************************************)
EXTENDS Oneshot

CONSTANTS t1, t2
=============================================================================
