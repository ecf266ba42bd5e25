----------------------------- MODULE MCFastCgi -----------------------------
(***************************************************************************)
(* FastCgi for TLC: how many records are sent to each kind of application. *)
(***************************************************************************)
EXTENDS FastCgi

Records == [callback |-> 7, responder |-> 3]
=============================================================================
