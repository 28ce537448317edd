-------------------------- MODULE MCCircularQueue --------------------------
(***************************************************************************)
(* CircularQueue for TLC.  Four slots make the indices wrap several times  *)
(* around a queue that is empty, part full and full; three descriptors     *)
(* tell every position of a full queue apart.                              *)
(***************************************************************************)
EXTENDS CircularQueue
=============================================================================
