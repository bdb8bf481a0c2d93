--------------------------- MODULE MCSupervisor ---------------------------
(***************************************************************************)
(* Instances of Supervisor for TLC.                                        *)
(***************************************************************************)
EXTENDS Supervisor

OneConn == {0}
TwoConns == {0, 1}
=============================================================================
