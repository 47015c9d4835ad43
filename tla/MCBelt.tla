------------------------------- MODULE MCBelt -------------------------------
(* Instances of Belt for TLC. *)
EXTENDS Belt, TLC

CONSTANTS a, b, operator, rightReader, nobody, none, noIp, junk, ipA, ipB

MCSfds == {a, b}
MCIpOf == [s \in {a, b} |-> IF s = a THEN ipA ELSE ipB]
NoSfds == {}
NoIps == [s \in {} |-> noIp]
OneSfd == {a}
OneIp == [s \in {a} |-> ipA]

ChainOnly == {"CHAIN"}
Driving == {"LOCALM", "LEFT", "RIGHT", "STOP", "PLUS", "MINUS"}
Modes == {"CHAIN", "LOCALM", "STOP", "NOTFOUND"}
=============================================================================
