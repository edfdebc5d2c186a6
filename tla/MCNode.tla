------------------------------- MODULE MCNode -------------------------------
(***************************************************************************)
(* Values of the constants of Node for TLC.                                *)
(***************************************************************************)
EXTENDS Node

MCOnePath == { <<"scope", "slice", "plain", "plain">> }
=============================================================================
