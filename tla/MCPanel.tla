------------------------------ MODULE MCPanel ------------------------------
(* An instance of Panel for TLC: three keys in two columns, and two fields,*)
(* of which one is read in place.                                          *)
EXTENDS Panel, TLC

MCColumns == <<{"4", "5"}, {"C"}>>
MCCommand == "4" :> "LEFT" @@ "C" :> "STOP"
MCRows == <<"status", "direction">>
MCHeading == <<"H">>
MCLabel == "status" :> <<"S", ".", " ", " ", " ">> @@ "direction" :> <<"D", ".", " ", " ", " ">>
MCShape ==
  "status" :> ("not set" :> <<"n">> @@ "Idle" :> <<"I", "d">> @@ "Belt in Motion" :> <<"B", "e", "l">>)
  @@ "direction" :> ("left" :> <<"L">> @@ "right" :> <<"R", "r">>)
MCInitial == "status" :> "not set" @@ "direction" :> "right"
=============================================================================
