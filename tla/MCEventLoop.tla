---------------------------- MODULE MCEventLoop ----------------------------
(* Instances of EventLoop for TLC.                                         *)
EXTENDS EventLoop

CONSTANTS t1

OneTimer == <<t1>>
=============================================================================
