------------------------------- MODULE MCPipe -------------------------------
(***************************************************************************)
(* Small instances of TrickyPipe.                                          *)
(***************************************************************************)
EXTENDS TrickyPipe, TLC

CONSTANTS s1, s2

\* The two senders are interchangeable in the runs that put both in the same
\* sets.
SenderSymmetry == Permutations({s1, s2})
=============================================================================
