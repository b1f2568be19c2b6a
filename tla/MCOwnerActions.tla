---------------------------- MODULE MCOwnerActions ----------------------------
(* An instance of OwnerActions: the web server's requests and a shell. *)
EXTENDS OwnerActions, TLC
===============================================================================
