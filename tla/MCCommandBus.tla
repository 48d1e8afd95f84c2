---------------------------- MODULE MCCommandBus ----------------------------
(* Instances of CommandBus for TLC.                                        *)
EXTENDS CommandBus, TLC

CONSTANTS x, y

OwnSnapshots == <<x, y>>
OneSnapshot == <<x>>
=============================================================================
