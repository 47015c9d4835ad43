---------------------------- MODULE OrderBuffer ----------------------------
(***************************************************************************)
(* The order buffer myBufferSfd of class SystemManager: an array of N      *)
(* slots (N = 10 in the code), each with the connection that ordered, its  *)
(* IP address and the flag "a Wait is due".  The loop that removes the     *)
(* oldest order swaps one slot too far, so the memory after the array is   *)
(* modelled as slot N.  A buffer is a function on 0..N; none of these      *)
(* operators has state.                                                    *)
(***************************************************************************)
EXTENDS Integers

CONSTANTS N,       \* number of slots
          Sfds,    \* socket descriptors of the connected left neighbours
          IpOf,    \* the peer address of each descriptor (getpeername)
          Nobody,  \* the descriptor -2 of an empty slot
          NoIp,    \* the empty address
          Junk     \* the bytes found after the array before the first shift

ASSUME BufferAssumption == /\ N \in Nat \ {0}
                           /\ Nobody \notin Sfds
                           /\ NoIp # Junk
                           /\ \A s \in Sfds : IpOf[s] \notin {NoIp, Junk}

Slots == 0 .. N - 1
Ips == {IpOf[s] : s \in Sfds} \cup {NoIp, Junk}
Slot == [sfd : Sfds \cup {Nobody}, wait : BOOLEAN, ip : Ips]
Buffer == [0 .. N -> Slot]

FreeSlot == [sfd |-> Nobody, wait |-> FALSE, ip |-> NoIp]

(* The constructor clears the slots; what lies behind them is whatever the *)
(* memory held.                                                            *)
NewBuffers == {[j \in 0 .. N |-> IF j = N THEN [FreeSlot EXCEPT !.ip = i] ELSE FreeSlot]
                 : i \in {NoIp, Junk}}

Occupied(buf) == {j \in Slots : buf[j].sfd # Nobody}

(* The slots at which the search for a place stops: the client's own       *)
(* address, its own descriptor, or a free slot.                            *)

(* Mutant: an order the host has already is overlooked. *)
OwnOverlooked(buf, s) == {}

Own(buf, s) == {j \in Slots : buf[j].ip = IpOf[s] \/ buf[j].sfd = s}
Stops(buf, s) == Own(buf, s) \cup (Slots \ Occupied(buf))
Place(buf, s) == CHOOSE j \in Stops(buf, s) : \A k \in Stops(buf, s) : j <= k

(* A client that already has an order is refused; a buffer without a free  *)
(* slot neither refuses nor stores ("j > k" never holds).                  *)
Refused(buf, s) == Stops(buf, s) # {} /\ Place(buf, s) \in Own(buf, s)
Full(buf, s) == Stops(buf, s) = {}
Accepted(buf, s) == ~Full(buf, s) /\ ~Refused(buf, s)

(* The flag is the index converted to bool: only the first slot has none.  *)
NewOrder(s, j) == [sfd |-> s, wait |-> j # 0, ip |-> IpOf[s]]
Insert(buf, s) ==
  IF Accepted(buf, s)
  THEN [buf EXCEPT ![Place(buf, s)] = NewOrder(s, Place(buf, s))]
  ELSE buf

ActualSfd(buf) == buf[0].sfd

(* The first order with a Wait due; asking for it clears its flag.         *)
Waiting(buf) == {j \in Slots : buf[j].wait}
FirstWaiting(buf) == CHOOSE j \in Waiting(buf) : \A k \in Waiting(buf) : j <= k
WaitingSfd(buf) == IF Waiting(buf) = {} THEN Nobody ELSE buf[FirstWaiting(buf)].sfd
ClearWaiting(buf) ==
  IF Waiting(buf) = {} THEN buf ELSE [buf EXCEPT ![FirstWaiting(buf)].wait = FALSE]

(* Mutant: the last slot keeps its order. *)
ShiftKeepsLast(buf) ==
  [j \in 0 .. N |->
     IF j < N - 1 THEN buf[j + 1]
     ELSE IF j = N - 1 THEN buf[N]
     ELSE [buf[0] EXCEPT !.ip = NoIp]]

(* myAction42: N swaps of neighbours move every slot one down and slot 0   *)
(* behind the array; what came from there is marked free; the address that *)
(* is cleared is the one behind the array, not the freed slot's.           *)
Shift(buf) ==
  [j \in 0 .. N |->
     IF j < N - 1 THEN buf[j + 1]
     ELSE IF j = N - 1 THEN [buf[N] EXCEPT !.sfd = Nobody, !.wait = FALSE]
     ELSE [buf[0] EXCEPT !.ip = NoIp]]

(* The occupied slots are the first ones. *)
PrefixOccupied(buf) ==
  \A j, k \in Slots : j < k /\ buf[k].sfd # Nobody => buf[j].sfd # Nobody

(* No two orders of one host. *)
DistinctHosts(buf) ==
  \A j, k \in Occupied(buf) : buf[j].ip = buf[k].ip => j = k
=============================================================================
