----------------------------- MODULE MCSession ------------------------------
(***************************************************************************)
(* Session for TLC: two streams at a time, each followed by others, over   *)
(* two addresses; offsets of three bits; files that are empty, that fit an *)
(* int and that do not.                                                    *)
(***************************************************************************)
EXTENDS Session

MCRequests ==
    {[method |-> "GET", path |-> "file", multipart |-> FALSE],
     [method |-> "POST", path |-> "files", multipart |-> TRUE],
     [method |-> "other", path |-> "files", multipart |-> FALSE],
     [method |-> "other", path |-> "none", multipart |-> FALSE],
     [method |-> "GET", path |-> "root", multipart |-> FALSE]}
=============================================================================
