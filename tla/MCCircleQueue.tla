---------------------------- MODULE MCCircleQueue ----------------------------
(***************************************************************************)
(* CircleQueue on a ring of three two-task chunks: two of them belong to   *)
(* the first lap, the third is the one only an empty queue unlocks.        *)
(***************************************************************************)
EXTENDS CircleQueue
=============================================================================
