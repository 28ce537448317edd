----------------------------- MODULE MCDispatch -----------------------------
(***************************************************************************)
(* Dispatch for TLC: two workers whose queues hold one socket, a table of  *)
(* two entries, three descriptors and four connections, so that queues     *)
(* fill, entries are remapped, descriptors run out and numbers are reused. *)
(***************************************************************************)
EXTENDS Dispatch
=============================================================================
