----------------------------- MODULE MCHandoff -----------------------------
(***************************************************************************)
(* Handoff for TLC: a queue of two elements, so that enqueue_sock also     *)
(* meets a full queue, and three descriptors.                              *)
(***************************************************************************)
EXTENDS Handoff
=============================================================================
