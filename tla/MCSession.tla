------------------------------- MODULE MCSession -------------------------------
(***************************************************************************)
(* Instances of Session for TLC.  Four conversation names are enough: a    *)
(* connect always finds one that neither a live conversation nor a handle  *)
(* still in use has.                                                       *)
(***************************************************************************)
EXTENDS Session

=============================================================================
