---------------------------- MODULE MCPtpClient -----------------------------
(* Instances of PtpClient for TLC. *)
EXTENDS PtpClient

MCOffsets == {-3, -2, -1, 0, 1, 2, 3, 40, -40}
=============================================================================
