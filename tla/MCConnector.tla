---------------------------- MODULE MCConnector ----------------------------
(***************************************************************************)
(* Instances of Connector for TLC.                                         *)
(***************************************************************************)
EXTENDS Connector

CONSTANTS main, job, health

InitialAndJob == {main, job}
OnlyJob       == {job}
OneHandler    == {health}
=============================================================================
