---------------------------- MODULE MCOrderDesk -----------------------------
(* Instances of OrderDesk for TLC: the left neighbour and other clients     *)
(* (the test program of another team, the master) order from one belt.      *)
EXTENDS OrderDesk, TLC

CONSTANTS a, b, c, nobody, free, noIp, junk, ipA, ipB, ipC

MCSfds == {a, b, c}

(* Three hosts, one more than there are slots. *)
ThreeHosts == [s \in {a, b, c} |-> IF s = a THEN ipA ELSE IF s = b THEN ipB ELSE ipC]
=============================================================================
