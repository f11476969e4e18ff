---------------------------- MODULE MCAppServer ----------------------------
(* Small instances of AppServer for TLC. *)
EXTENDS AppServer

CONSTANTS d1, d2
=============================================================================
