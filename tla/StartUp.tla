------------------------------ MODULE StartUp -------------------------------
(***************************************************************************)
(* The start of a belt: initSystem, which the main task runs in the action *)
(* of the event InitSystem.  setLocalIp looks up the network card in a     *)
(* table and sets the belt's address; then the hardware is initialised and *)
(* the parts are made one after the other, most of them with a task that   *)
(* runs at once.  The controller, the last one, begins with the search for *)
(* the motor's standstill (Motor).                                         *)
(***************************************************************************)
EXTENDS Motor, Sequences

CONSTANTS
  Bytes,        \* of a hardware address, 6
  Rows,         \* how many rows are compared, 10
  Table,        \* macIDtable from row 1 on: it has no row Rows
  Boards        \* the hardware addresses of the boards

ASSUME StartUpAssumption ==
  /\ Bytes \in Nat \ {0} /\ Rows \in Nat \ {0}
  /\ DOMAIN Table = 1 .. Rows - 1
  /\ \A b \in Boards \cup {Table[r] : r \in DOMAIN Table} : b \in [1 .. Bytes -> Nat]
  /\ \A r, s \in DOMAIN Table : Table[r] = Table[s] => r = s

VARIABLES
  board,        \* the hardware address of this board
  row,          \* the row setLocalIp compares next
  ip,           \* the last number of the address that was set, or 0
  made          \* how many parts initSystem has made

startVars == <<board, row, ip, made>>
vars == <<searchVars, startVars>>

(* The order in which initSystem makes the parts. *)
Order == <<"hardware", "keyboard", "display", "telnet", "server", "ptp", "client",
           "controller">>
Made == {Order[i] : i \in 1 .. made}

Init == /\ SearchInit
        /\ board \in Boards
        /\ row = 1 /\ ip = 0 /\ made = 0

-----------------------------------------------------------------------------
(* The comparison byte by byte.  Row Rows lies behind the table: what is   *)
(* there may be anything.  Mutant: the last byte is not compared.          *)
IdenticalPrefix(r) ==
  IF r \in DOMAIN Table THEN {\A j \in 1 .. Bytes - 1 : board[j] = Table[r][j]} ELSE BOOLEAN

Identical(r) ==
  IF r \in DOMAIN Table THEN {\A j \in 1 .. Bytes : board[j] = Table[r][j]} ELSE BOOLEAN

(* A turn of setLocalIp's outer loop.  The test after the loop never holds:*)
(* a board that is not in the table keeps the address it has.              *)
CompareRow ==
  /\ row <= Rows
  /\ \E same \in Identical(row) :
       /\ ip' = IF same THEN row ELSE ip
       /\ row' = IF same THEN Rows + 1 ELSE row + 1
  /\ UNCHANGED <<searchVars, board, made>>

InitHardware ==
  /\ row > Rows /\ made = 0
  /\ initHardware
  /\ made' = 1
  /\ UNCHANGED <<encoderVars, speedVars, motorVars, board, row, ip>>

(* The next part.  Nobody reads the address later than the network's parts *)
(* are made; it is forgotten here.                                         *)
Make ==
  /\ made \in 1 .. Len(Order) - 1
  /\ made' = made + 1
  /\ IF made' = Len(Order) THEN board' = <<>> /\ ip' = 0 ELSE UNCHANGED <<board, ip>>
  /\ UNCHANGED <<searchVars, row>>

(* The controller's constructor. *)
Searching == made = Len(Order) /\ Search /\ UNCHANGED startVars

Next == CompareRow \/ InitHardware \/ Make \/ Searching

(* Time passes on counter 1, interrupts are served, the watchdog releases  *)
(* tEncoder.                                                               *)
Spec == /\ Init /\ [][Next]_vars
        /\ WF_vars(made = Len(Order) /\ Encode /\ UNCHANGED startVars)
        /\ WF_vars(made = Len(Order) /\ Measure /\ UNCHANGED startVars)

-----------------------------------------------------------------------------
(* A board that is in the table has the address of its own row, and none   *)
(* has the address of another board's row (setMyIP.cpp:47-65).             *)
AddressIsOwn ==
  \A r \in DOMAIN Table : Table[r] = board <=> ip = r

(* The tasks of the network run as soon as they are made, in the middle of *)
(* initSystem; by then the address is the board's own, whatever row was    *)
(* compared behind the table (setMyIP.cpp:47-65, systemManager.cpp:275-301)*)
NetworkHasOwnAddress == Made \cap {"telnet", "server", "ptp"} # {} => AddressIsOwn
=============================================================================
