---------------------------- MODULE DrivePhases ----------------------------
(***************************************************************************)
(* What the controller promises the state machine: a phase of the drive    *)
(* lasts until it is complete or the main task ends it; a complete phase   *)
(* stops and is reported once.  The module Belt uses the drive this way.   *)
(***************************************************************************)
EXTENDS Naturals, Sequences

VARIABLES phase,      \* the phase, STOPMOTOR when there is none
          completions \* the reports the main task has not taken yet

vars == <<phase, completions>>

Completion == [RAMPUP |-> "rampupf", CONSTANTVELOCITY |-> "constf", RAMPDOWN |-> "rampdownf"]

Init == phase = "STOPMOTOR" /\ completions = <<>>

Begin(p) == phase' = p /\ UNCHANGED completions

Halt == phase' = "STOPMOTOR" /\ UNCHANGED completions

End == /\ phase # "STOPMOTOR"
       /\ phase' = "STOPMOTOR"
       /\ completions' = Append(completions, Completion[phase])

Take == /\ completions # <<>>
        /\ completions' = Tail(completions)
        /\ UNCHANGED phase

Next == (\E p \in DOMAIN Completion : Begin(p)) \/ Halt \/ End \/ Take

Spec == Init /\ [][Next]_vars /\ WF_vars(End)
=============================================================================
