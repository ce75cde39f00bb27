-------------------------- MODULE MCAppRunControl ----------------------------
(***************************************************************************)
(* AppRunControl for TLC; the configurations give the bounds.              *)
(***************************************************************************)
EXTENDS AppRunControl
=============================================================================
