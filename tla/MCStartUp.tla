----------------------------- MODULE MCStartUp ------------------------------
(* Instances of StartUp for TLC: two boards in the table, one that is not; *)
(* motors that creep at the beginning of the search, that stand there and  *)
(* above, and that stand there but no more above.                          *)
EXTENDS StartUp

MCZeros == {-2, -1, 3}
MCTable == <<<<0, 0>>, <<0, 1>>>>
MCBoards == {<<0, 0>>, <<0, 1>>, <<1, 1>>}
=============================================================================
