---------------------------- MODULE MCController ----------------------------
(* An instance of Controller for TLC; the constants are in the cfg.        *)
EXTENDS Controller
=============================================================================
