---------------------------- MODULE MCEventQueue ----------------------------
(* Instance of EventQueue for TLC: a keyboard and the controller's tick     *)
(* beside the main task.                                                    *)
EXTENDS EventQueue, TLC

CONSTANTS keyboard, tBaseRate, tMain, none, free, initSystem, other

MCProducers == {keyboard, tBaseRate}
MCEvents == {initSystem, other}
=============================================================================
