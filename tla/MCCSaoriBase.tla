---------------------------- MODULE MCCSaoriBase ----------------------------
(* A small instance of CSaoriBase: the call id wraps after two requests. *)
EXTENDS CSaoriBase
=============================================================================
