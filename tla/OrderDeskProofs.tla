--------------------------- MODULE OrderDeskProofs ---------------------------
(***************************************************************************)
(* Proofs about OrderDesk for every number of slots above one, every set   *)
(* of connections and every assignment of addresses: the buffer fills from *)
(* the front and holds one order per host, the head stays while its        *)
(* package is handed over, no transport runs without an order, answers     *)
(* reach the clients they are for, and the orders implement OrderFifo.     *)
(***************************************************************************)
EXTENDS OrderDesk, FiniteSetTheorems, SequenceTheorems, WellFoundedInduction, TLAPS

-----------------------------------------------------------------------------
(* The operators of OrderBuffer: where an order is stored, what removing   *)
(* the oldest one leaves, and what a write of a field changes.             *)

Less == OpToRel(<, Nat)

LEMMA LessThan == \A x, y \in Nat : <<x, y>> \in Less <=> x < y
BY DEF Less, OpToRel

(* A set of naturals has a least element. *)
LEMMA Least ==
  ASSUME NEW T, T \subseteq Nat, T # {}
  PROVE  \E x \in T : \A y \in T : x <= y
<1>1. IsWellFoundedOn(Less, Nat)
  BY NatLessThanWellFounded DEF Less
<1>2. PICK x \in T : \A y \in T : ~(<<y, x>> \in Less)
  BY <1>1, WFMin
<1>3. \A y \in T : ~(y < x)
  BY <1>2, LessThan, Zenon
<1>4. \A y \in T : x <= y
  BY <1>3
<1> QED
  BY <1>4

(* The search stops at the first slot at which it can stop. *)
LEMMA PlaceIsFirst ==
  ASSUME NEW buf, NEW s, Stops(buf, s) # {}
  PROVE  /\ Place(buf, s) \in Stops(buf, s)
         /\ \A k \in Stops(buf, s) : Place(buf, s) <= k
<1>1. Stops(buf, s) \subseteq Nat
  BY BufferAssumption DEF Stops, Own, Slots
<1>2. PICK x \in Stops(buf, s) : \A y \in Stops(buf, s) : x <= y
  BY <1>1, Least
<1> QED
  BY <1>2 DEF Place

(* An accepted order gets a free slot behind orders of other hosts only.   *)
LEMMA PlaceIsFree ==
  ASSUME NEW buf, NEW s, Accepted(buf, s)
  PROVE  /\ Place(buf, s) \in Slots
         /\ buf[Place(buf, s)].sfd = Nobody
         /\ \A k \in Slots : k < Place(buf, s) =>
              buf[k].sfd # Nobody /\ buf[k].ip # IpOf[s]
<1>1. Stops(buf, s) # {} /\ Place(buf, s) \notin Own(buf, s)
  BY DEF Accepted, Full, Refused
<1>2. /\ Place(buf, s) \in Stops(buf, s)
      /\ \A k \in Stops(buf, s) : Place(buf, s) <= k
  BY <1>1, PlaceIsFirst
<1>3. Place(buf, s) \in Slots /\ buf[Place(buf, s)].sfd = Nobody
  BY <1>1, <1>2 DEF Stops, Occupied
<1>4. ASSUME NEW k \in Slots, k < Place(buf, s)
      PROVE  buf[k].sfd # Nobody /\ buf[k].ip # IpOf[s]
  <2>1. k \notin Stops(buf, s)
    BY <1>2, <1>3, <1>4, BufferAssumption DEF Slots
  <2> QED
    BY <2>1 DEF Stops, Own, Occupied
<1> QED
  BY <1>3, <1>4

(* Removing the head moves every order one slot down and frees the last.   *)
LEMMA ShiftMovesDown ==
  ASSUME NEW buf \in Buffer
  PROVE  /\ Shift(buf) \in Buffer
         /\ \A j \in Slots : j < N - 1 => Shift(buf)[j] = buf[j + 1]
         /\ Shift(buf)[N - 1].sfd = Nobody
<1> USE BufferAssumption
<1>1. \A j \in 0 .. N : buf[j] \in Slot
  BY DEF Buffer
<1>2. [buf[N] EXCEPT !.sfd = Nobody, !.wait = FALSE] \in Slot
  <2>1. buf[N] \in Slot
    BY <1>1
  <2>2. \A e \in Slot : [e EXCEPT !.sfd = Nobody, !.wait = FALSE] \in Slot
    BY DEF Slot
  <2> QED
    BY <2>1, <2>2, Zenon
<1>3. [buf[0] EXCEPT !.ip = NoIp] \in Slot
  <2>1. buf[0] \in Slot /\ NoIp \in Ips
    BY <1>1 DEF Ips
  <2>2. \A e \in Slot : \A i \in Ips : [e EXCEPT !.ip = i] \in Slot
    BY DEF Slot
  <2> QED
    BY <2>1, <2>2, Zenon
<1>4. Shift(buf) \in Buffer
  BY <1>1, <1>2, <1>3 DEF Shift, Buffer
<1>5. \A j \in Slots : j < N - 1 => Shift(buf)[j] = buf[j + 1]
  BY DEF Shift, Slots
<1>6. Shift(buf)[N - 1] = [buf[N] EXCEPT !.sfd = Nobody, !.wait = FALSE]
  BY DEF Shift
<1>7. Shift(buf)[N - 1].sfd = Nobody
  BY <1>1, <1>6 DEF Slot
<1> QED
  BY <1>4, <1>5, <1>7

(* Asking for a waiting order changes nothing but a flag. *)
LEMMA ClearKeepsOrders ==
  ASSUME NEW buf \in Buffer
  PROVE  /\ ClearWaiting(buf) \in Buffer
         /\ \A j \in Slots : /\ ClearWaiting(buf)[j].sfd = buf[j].sfd
                            /\ ClearWaiting(buf)[j].ip = buf[j].ip
<1> USE BufferAssumption
<1>1. CASE Waiting(buf) = {}
  BY <1>1 DEF ClearWaiting
<1>2. CASE Waiting(buf) # {}
  <2> DEFINE f == FirstWaiting(buf)
  <2>1. f \in Slots
    <3>1. Waiting(buf) \subseteq Nat
      BY DEF Waiting, Slots
    <3>2. PICK x \in Waiting(buf) : \A y \in Waiting(buf) : x <= y
      BY <1>2, <3>1, Least
    <3>3. f \in Waiting(buf)
      BY <3>2 DEF FirstWaiting
    <3> QED
      BY <3>3 DEF Waiting
  <2>2. ClearWaiting(buf) = [buf EXCEPT ![f].wait = FALSE]
    BY <1>2 DEF ClearWaiting
  <2>3. \A j \in 0 .. N : buf[j] \in Slot
    BY DEF Buffer
  <2> HIDE DEF f
  <2>4. f \in 0 .. N /\ buf[f] \in Slot
    BY <2>1, <2>3 DEF Slots
  <2>5. /\ [buf[f] EXCEPT !.wait = FALSE] \in Slot
        /\ [buf[f] EXCEPT !.wait = FALSE].sfd = buf[f].sfd
        /\ [buf[f] EXCEPT !.wait = FALSE].ip = buf[f].ip
    <3>1. \A e \in Slot : /\ [e EXCEPT !.wait = FALSE] \in Slot
                          /\ [e EXCEPT !.wait = FALSE].sfd = e.sfd
                          /\ [e EXCEPT !.wait = FALSE].ip = e.ip
      BY DEF Slot
    <3> QED
      BY <2>4, <3>1, Zenon
  <2>6. ClearWaiting(buf) = [buf EXCEPT ![f] = [buf[f] EXCEPT !.wait = FALSE]]
    BY <2>2
  <2> QED
    BY <2>4, <2>5, <2>6 DEF Buffer, Slots
<1> QED
  BY <1>1, <1>2

(* Writing one field of a slot leaves the others alone. *)
PutSfd(buf, j, s) == [buf EXCEPT ![j].sfd = s]
PutWait(buf, j, b) == [buf EXCEPT ![j].wait = b]
PutIp(buf, j, i) == [buf EXCEPT ![j].ip = i]

LEMMA WritesSfd ==
  ASSUME NEW buf \in Buffer, NEW j \in 0 .. N, NEW s \in Sfds
  PROVE  /\ PutSfd(buf, j, s) \in Buffer
         /\ PutSfd(buf, j, s)[j].sfd = s /\ PutSfd(buf, j, s)[j].ip = buf[j].ip
         /\ \A k \in 0 .. N : k # j => PutSfd(buf, j, s)[k] = buf[k]
<1>1. \A e \in Slot : /\ [e EXCEPT !.sfd = s] \in Slot
                      /\ [e EXCEPT !.sfd = s].sfd = s
                      /\ [e EXCEPT !.sfd = s].ip = e.ip
  BY DEF Slot
<1>2. PutSfd(buf, j, s) = [buf EXCEPT ![j] = [buf[j] EXCEPT !.sfd = s]] /\ buf[j] \in Slot
  BY DEF Buffer, PutSfd
<1>3. /\ [buf[j] EXCEPT !.sfd = s] \in Slot
      /\ [buf[j] EXCEPT !.sfd = s].sfd = s
      /\ [buf[j] EXCEPT !.sfd = s].ip = buf[j].ip
  BY <1>1, <1>2, Zenon
<1> QED
  BY <1>2, <1>3 DEF Buffer

LEMMA WritesWait ==
  ASSUME NEW buf \in Buffer, NEW j \in 0 .. N, NEW b \in BOOLEAN
  PROVE  /\ PutWait(buf, j, b) \in Buffer
         /\ \A k \in 0 .. N : /\ PutWait(buf, j, b)[k].sfd = buf[k].sfd
                              /\ PutWait(buf, j, b)[k].ip = buf[k].ip
<1>1. \A e \in Slot : /\ [e EXCEPT !.wait = b] \in Slot
                      /\ [e EXCEPT !.wait = b].sfd = e.sfd
                      /\ [e EXCEPT !.wait = b].ip = e.ip
  BY DEF Slot
<1>2. PutWait(buf, j, b) = [buf EXCEPT ![j] = [buf[j] EXCEPT !.wait = b]] /\ buf[j] \in Slot
  BY DEF Buffer, PutWait
<1>3. /\ [buf[j] EXCEPT !.wait = b] \in Slot
      /\ [buf[j] EXCEPT !.wait = b].sfd = buf[j].sfd
      /\ [buf[j] EXCEPT !.wait = b].ip = buf[j].ip
  BY <1>1, <1>2, Zenon
<1> QED
  BY <1>2, <1>3 DEF Buffer

LEMMA WritesIp ==
  ASSUME NEW buf \in Buffer, NEW j \in 0 .. N, NEW i \in Ips
  PROVE  /\ PutIp(buf, j, i) \in Buffer
         /\ PutIp(buf, j, i)[j].sfd = buf[j].sfd /\ PutIp(buf, j, i)[j].ip = i
         /\ \A k \in 0 .. N : /\ k # j => PutIp(buf, j, i)[k] = buf[k]
                              /\ PutIp(buf, j, i)[k].sfd = buf[k].sfd
<1>1. \A e \in Slot : /\ [e EXCEPT !.ip = i] \in Slot
                      /\ [e EXCEPT !.ip = i].sfd = e.sfd
                      /\ [e EXCEPT !.ip = i].ip = i
  BY DEF Slot
<1>2. PutIp(buf, j, i) = [buf EXCEPT ![j] = [buf[j] EXCEPT !.ip = i]] /\ buf[j] \in Slot
  BY DEF Buffer, PutIp
<1>3. /\ [buf[j] EXCEPT !.ip = i] \in Slot
      /\ [buf[j] EXCEPT !.ip = i].sfd = buf[j].sfd
      /\ [buf[j] EXCEPT !.ip = i].ip = i
  BY <1>1, <1>2, Zenon
<1> QED
  BY <1>2, <1>3 DEF Buffer

-----------------------------------------------------------------------------
(* A new buffer has its slots free, whatever lies behind them.             *)
LEMMA NewIsFree ==
  ASSUME NEW buf \in NewBuffers
  PROVE  buf \in Buffer /\ \A j \in Slots : buf[j].sfd = Nobody
<1> USE BufferAssumption
<1>1. PICK i \in {NoIp, Junk} :
        buf = [j \in 0 .. N |-> IF j = N THEN [FreeSlot EXCEPT !.ip = i] ELSE FreeSlot]
  BY DEF NewBuffers
<1>2. FreeSlot \in Slot /\ [FreeSlot EXCEPT !.ip = i] \in Slot
  BY DEF FreeSlot, Slot, Ips
<1>3. buf \in Buffer
  BY <1>1, <1>2 DEF Buffer
<1>4. \A j \in Slots : buf[j].sfd = Nobody
  BY <1>1 DEF Slots, FreeSlot
<1> QED
  BY <1>3, <1>4

-----------------------------------------------------------------------------
Holding == {"sfd", "wait", "ip", "give", "giveUp"}
Writing == {"wait", "ip"}

(* semOrder is held by the worker that is inside the guarded part. *)
Locked == \A c \in Sfds : pc[c] \in Holding <=> semOrder = c

(* The slot a worker has chosen: free and behind orders of other hosts     *)
(* before the descriptor is written, the last order afterwards.            *)
Chosen(c) ==
  /\ pc[c] = "sfd" => /\ myBufferSfd[at[c]].sfd = Nobody
                      /\ \A k \in Slots : k < at[c] => /\ myBufferSfd[k].sfd # Nobody
                                                       /\ myBufferSfd[k].ip # IpOf[c]
  /\ pc[c] \in Writing => /\ myBufferSfd[at[c]].sfd # Nobody
                          /\ \A k \in Slots : /\ k < at[c] => myBufferSfd[k].ip # IpOf[c]
                                              /\ k > at[c] => myBufferSfd[k].sfd = Nobody
SlotsChosen == \A c \in Sfds : Chosen(c)

(* The slots whose address is written. *)
BeingWritten(j) == \E c \in Sfds : pc[c] \in Writing /\ at[c] = j
HostsDistinct ==
  \A j, k \in Slots :
    /\ myBufferSfd[j].sfd # Nobody /\ ~BeingWritten(j)
    /\ myBufferSfd[k].sfd # Nobody /\ ~BeingWritten(k)
    /\ myBufferSfd[j].ip = myBufferSfd[k].ip
    => j = k

BufferInv == TypeOK /\ Locked /\ SlotsChosen /\ BufferIsPrefix /\ HostsDistinct

(* A worker that has stored an order, or found the buffer full, and has    *)
(* not announced it yet.                                                   *)
Pending == \E c \in Sfds : pc[c] \in {"wait", "ip", "give", "announce"}

(* The stages of a transport and its one "release". *)
Stages ==
  /\ stage = "none" <=> ~performing
  /\ stage # "gone" => \A i \in 1 .. Len(events) : events[i] # "release"
  /\ \A i, j \in 1 .. Len(events) : events[i] = "release" /\ events[j] = "release" => i = j

(* Whoever will start the next transport finds an order at the head.       *)
NextHasOrder ==
  /\ performing => myBufferSfd[0].sfd # Nobody
  /\ ~performing /\ (Pending \/ \E i \in 1 .. Len(events) : events[i] = "request")
       => myBufferSfd[0].sfd # Nobody
  /\ stage = "gone" /\ (Pending \/ \E i, j \in 1 .. Len(events) :
                                     i < j /\ events[i] = "release" /\ events[j] = "request")
       => myBufferSfd[1].sfd # Nobody

IInv == BufferInv /\ Stages /\ NextHasOrder

-----------------------------------------------------------------------------
(* The initial states *)

LEMMA InitIInv == Init => IInv
<1> SUFFICES ASSUME Init PROVE IInv
  OBVIOUS
<1> USE BufferAssumption, DeskAssumption
<1>1. myBufferSfd \in Buffer /\ \A j \in Slots : myBufferSfd[j].sfd = Nobody
  BY NewIsFree DEF Init
<1>2. TypeOK
  <2>1. 0 \in Slots
    BY DEF Slots
  <2>2. pc \in [Sfds -> Places] /\ semOrder \in Sfds \cup {Free} /\ performing \in BOOLEAN
    BY DEF Init, Places
  <2>3. at \in [Sfds -> Slots]
    BY <2>1 DEF Init
  <2>4. events \in Seq({"request", "release"}) /\ strays \in SUBSET Answers
    BY DEF Init
  <2>5. /\ stage \in {"none", "fromLeft", "onBelt", "gone"}
        /\ client \in [Sfds -> {"idle", "asked", "ready", "refused"}]
    BY DEF Init
  <2> QED
    BY <1>1, <2>2, <2>3, <2>4, <2>5 DEF TypeOK
<1>3. Locked /\ SlotsChosen
  BY DEF Init, Locked, SlotsChosen, Chosen, Holding, Writing
<1>4. BufferIsPrefix /\ HostsDistinct
  BY <1>1 DEF BufferIsPrefix, PrefixOccupied, HostsDistinct
<1>5. Stages /\ NextHasOrder
  BY DEF Init, Stages, NextHasOrder, Pending
<1> QED
  BY <1>2, <1>3, <1>4, <1>5 DEF IInv, BufferInv

-----------------------------------------------------------------------------
(* Type correctness *)

LEMMA HearsTypes ==
  ASSUME TypeOK, NEW c, NEW answer \in Answers, Hears(c, answer)
  PROVE  /\ client' \in [Sfds -> {"idle", "asked", "ready", "refused"}]
         /\ strays' \in SUBSET Answers
BY DEF TypeOK, Hears, clientVars

LEMMA NextTypes == TypeOK /\ [Next]_vars => TypeOK'
<1> SUFFICES ASSUME TypeOK, [Next]_vars PROVE TypeOK'
  OBVIOUS
<1> USE BufferAssumption, DeskAssumption DEF TypeOK, Places, mainVars, workerVars, clientVars
<1>0. Slots \subseteq 0 .. N
  BY DEF Slots
<1>1. ASSUME NEW c \in Sfds, Request(c) \/ GiveUp(c) PROVE TypeOK'
  BY <1>1 DEF Request, GiveUp
<1>2. ASSUME NEW c \in Sfds, Search(c) PROVE TypeOK'
  <2>1. client' \in [Sfds -> {"idle", "asked", "ready", "refused"}] /\ strays' \in SUBSET Answers
    BY <1>2, HearsTypes DEF Search, Answers
  <2>2. at' \in [Sfds -> Slots]
    BY <1>2, PlaceIsFree DEF Search
  <2>3. pc' \in [Sfds -> Places] /\ semOrder' \in Sfds \cup {Free}
    BY <1>2 DEF Search
  <2> QED
    BY <1>2, <2>1, <2>2, <2>3 DEF Search
<1>3. ASSUME NEW c \in Sfds, WriteSfd(c) PROVE TypeOK'
  BY <1>0, <1>3, WritesSfd DEF WriteSfd, PutSfd
<1>4. ASSUME NEW c \in Sfds, WriteWait(c) PROVE TypeOK'
  <2>1. (at[c] # 0) \in BOOLEAN
    OBVIOUS
  <2>2. myBufferSfd' \in Buffer
    BY <1>0, <1>4, <2>1, WritesWait DEF WriteWait, PutWait
  <2> QED
    BY <1>4, <2>2 DEF WriteWait
<1>5. ASSUME NEW c \in Sfds, WriteIp(c) PROVE TypeOK'
  <2>1. IpOf[c] \in Ips
    BY DEF Ips
  <2> QED
    BY <1>0, <1>5, <2>1, WritesIp DEF WriteIp, PutIp
<1>6. ASSUME NEW c \in Sfds, Give(c) \/ Announce(c) PROVE TypeOK'
  BY <1>6 DEF Give, Announce
<1>7. CASE StartOrder
  <2>1. client' \in [Sfds -> {"idle", "asked", "ready", "refused"}] /\ strays' \in SUBSET Answers
    BY <1>7, HearsTypes DEF StartOrder, Answers
  <2> QED
    BY <1>7, <2>1 DEF StartOrder, Event
<1>8. CASE AnswerWait
  <2>1. client' \in [Sfds -> {"idle", "asked", "ready", "refused"}] /\ strays' \in SUBSET Answers
    BY <1>8, HearsTypes DEF AnswerWait, Answers
  <2> QED
    BY <1>8, <2>1, ClearKeepsOrders DEF AnswerWait, Event
<1>9. CASE TakeOver
  <2>1. client' \in [Sfds -> {"idle", "asked", "ready", "refused"}] /\ strays' \in SUBSET Answers
    BY <1>9, HearsTypes DEF TakeOver, Answers
  <2> QED
    BY <1>9, <2>1 DEF TakeOver
<1>10. CASE HandedOn
  BY <1>10 DEF HandedOn
<1>11. CASE Complete
  <2>1. events' \in Seq({"request", "release"})
    BY <1>11 DEF Complete, Event
  <2> QED
    BY <1>11, <2>1, ShiftMovesDown DEF Complete
<1>12. CASE UNCHANGED vars
  BY <1>12 DEF vars
<1> QED
  BY <1>1, <1>2, <1>3, <1>4, <1>5, <1>6, <1>7, <1>8, <1>9, <1>10, <1>11, <1>12
     DEF Next, WorkerStep, MainStep

-----------------------------------------------------------------------------
(* The buffer part of the invariant *)

BufferParts == Locked /\ SlotsChosen /\ BufferIsPrefix /\ HostsDistinct

(* Only the sfd and ip fields of the slots matter to it. *)
LEMMA SameOrders ==
  ASSUME BufferParts,
         \A j \in Slots : /\ myBufferSfd'[j].sfd = myBufferSfd[j].sfd
                          /\ myBufferSfd'[j].ip = myBufferSfd[j].ip,
         at \in [Sfds -> Slots], at' = at, semOrder' = semOrder,
         \A d \in Sfds : /\ pc'[d] \in Holding <=> pc[d] \in Holding
                         /\ pc'[d] \in Writing <=> pc[d] \in Writing
                         /\ pc'[d] = "sfd" => pc[d] = "sfd"
  PROVE  BufferParts'
<1> USE DEF BufferParts
<1>1. Locked'
  BY DEF Locked
<1>2. SlotsChosen'
  <2> SUFFICES ASSUME NEW d \in Sfds PROVE Chosen(d)'
    BY DEF SlotsChosen
  <2>1. Chosen(d) /\ at[d] \in Slots /\ at'[d] = at[d]
    BY DEF SlotsChosen
  <2> QED
    BY <2>1 DEF Chosen
<1>3. BufferIsPrefix'
  BY DEF BufferIsPrefix, PrefixOccupied
<1>4. HostsDistinct'
  <2>1. \A j \in Slots : BeingWritten(j)' <=> BeingWritten(j)
    BY DEF BeingWritten
  <2> QED
    BY <2>1 DEF HostsDistinct
<1> QED
  BY <1>1, <1>2, <1>3, <1>4

(* While no worker is inside, no slot is being written. *)
LEMMA NobodyInside ==
  ASSUME Locked, semOrder = Free
  PROVE  /\ \A d \in Sfds : pc[d] \notin Holding
         /\ \A j : ~BeingWritten(j)
<1>1. \A d \in Sfds : pc[d] \notin Holding
  BY DeskAssumption DEF Locked
<1> QED
  BY <1>1 DEF BeingWritten, Holding, Writing

(* While c is inside, it is the only one. *)
LEMMA OnlyInside ==
  ASSUME Locked, NEW c \in Sfds, pc[c] \in Holding
  PROVE  /\ semOrder = c
         /\ \A d \in Sfds : d # c => pc[d] \notin Holding
         /\ \A j : BeingWritten(j) <=> pc[c] \in Writing /\ at[c] = j
<1>1. semOrder = c /\ \A d \in Sfds : d # c => pc[d] \notin Holding
  BY DEF Locked
<1> QED
  BY <1>1 DEF BeingWritten, Holding, Writing

LEMMA SearchKeeps ==
  ASSUME BufferInv, NEW c \in Sfds, Search(c)
  PROVE  BufferParts'
<1> USE DEF BufferInv, TypeOK, BufferParts
<1>1. /\ \A d \in Sfds : pc[d] \notin Holding
      /\ \A j : ~BeingWritten(j)
  BY NobodyInside DEF Search
<1>2. /\ pc'[c] \in {"sfd", "give", "giveUp"}
      /\ \A d \in Sfds : d # c => pc'[d] = pc[d]
      /\ semOrder' = c /\ myBufferSfd' = myBufferSfd
  BY DEF Search
<1>3. Locked'
  BY <1>1, <1>2 DEF Locked, Holding
<1>4. SlotsChosen'
  <2> SUFFICES ASSUME NEW d \in Sfds PROVE Chosen(d)'
    BY DEF SlotsChosen
  <2>1. CASE d = c /\ Accepted(myBufferSfd, c) /\ at'[c] = Place(myBufferSfd, c)
    BY <1>2, <2>1, PlaceIsFree DEF Chosen, Writing
  <2>2. CASE d = c /\ pc'[c] # "sfd"
    BY <1>2, <2>2 DEF Chosen, Writing
  <2>3. CASE d # c
    BY <1>1, <1>2, <2>3 DEF Chosen, Writing, Holding
  <2>4. \/ pc'[c] # "sfd"
        \/ Accepted(myBufferSfd, c) /\ at'[c] = Place(myBufferSfd, c)
    BY DEF Search
  <2> QED
    BY <2>1, <2>2, <2>3, <2>4
<1>5. BufferIsPrefix'
  BY <1>2 DEF BufferIsPrefix
<1>6. HostsDistinct'
  <2>1. \A d \in Sfds : pc'[d] \notin Writing
    BY <1>1, <1>2 DEF Writing, Holding
  <2>2. \A j \in Slots : ~BeingWritten(j)'
    BY <2>1 DEF BeingWritten
  <2> QED
    BY <1>1, <1>2, <2>2 DEF HostsDistinct
<1> QED
  BY <1>3, <1>4, <1>5, <1>6

LEMMA WriteSfdKeeps ==
  ASSUME BufferInv, NEW c \in Sfds, WriteSfd(c)
  PROVE  BufferParts'
<1> USE BufferAssumption DEF BufferInv, TypeOK, BufferParts
<1>0. PICK p : p = at[c]
  OBVIOUS
<1>1. /\ semOrder = c
      /\ \A d \in Sfds : d # c => pc[d] \notin Holding
      /\ \A j : ~BeingWritten(j)
  BY OnlyInside DEF WriteSfd, Holding, Writing
<1>2. /\ pc[c] = "sfd" /\ pc'[c] = "wait" /\ at' = at /\ semOrder' = c
      /\ \A d \in Sfds : d # c => pc'[d] = pc[d]
  BY <1>1 DEF WriteSfd
<1>3. /\ p \in Slots /\ p \in 0 .. N
      /\ myBufferSfd[p].sfd = Nobody
      /\ \A k \in Slots : k < p => /\ myBufferSfd[k].sfd # Nobody
                                   /\ myBufferSfd[k].ip # IpOf[c]
  BY <1>0, <1>2 DEF SlotsChosen, Chosen, Slots
<1>4. /\ myBufferSfd'[p].sfd = c /\ myBufferSfd'[p].ip = myBufferSfd[p].ip
      /\ \A k \in Slots : k # p => myBufferSfd'[k] = myBufferSfd[k]
  <2>1. myBufferSfd' = PutSfd(myBufferSfd, p, c) /\ myBufferSfd \in Buffer
    BY <1>0 DEF WriteSfd, PutSfd
  <2>2. /\ myBufferSfd'[p].sfd = c /\ myBufferSfd'[p].ip = myBufferSfd[p].ip
        /\ \A k \in 0 .. N : k # p => myBufferSfd'[k] = myBufferSfd[k]
    BY <1>3, <2>1, WritesSfd
  <2> QED
    BY <2>2 DEF Slots
<1>5. Locked'
  BY <1>1, <1>2 DEF Locked, Holding
<1>6. \A k \in Slots : k > p => myBufferSfd[k].sfd = Nobody
  BY <1>3 DEF BufferIsPrefix, PrefixOccupied
<1>7. \A k \in Slots : /\ k < p => myBufferSfd'[k] = myBufferSfd[k]
                       /\ k > p => myBufferSfd'[k] = myBufferSfd[k]
  BY <1>3, <1>4 DEF Slots
<1>8. SlotsChosen'
  <2> SUFFICES ASSUME NEW d \in Sfds PROVE Chosen(d)'
    BY DEF SlotsChosen
  <2>1. CASE d = c
    <3>1. at'[d] = p
      BY <1>0, <1>2, <2>1
    <3> QED
      BY <1>2, <1>3, <1>4, <1>6, <1>7, <2>1, <3>1 DEF Chosen
  <2>2. CASE d # c
    BY <1>1, <1>2, <2>2 DEF Chosen, Writing, Holding
  <2> QED
    BY <2>1, <2>2
<1>9. BufferIsPrefix'
  <2> SUFFICES ASSUME NEW j \in Slots, NEW k \in Slots, j < k, myBufferSfd'[k].sfd # Nobody
               PROVE  myBufferSfd'[j].sfd # Nobody
    BY DEF BufferIsPrefix, PrefixOccupied
  <2>1. CASE k = p
    BY <1>3, <1>7, <2>1
  <2>2. CASE k # p
    BY <1>3, <1>4, <2>2 DEF BufferIsPrefix, PrefixOccupied
  <2> QED
    BY <2>1, <2>2
<1>10. HostsDistinct'
  <2>1. BeingWritten(p)'
    BY <1>0, <1>2 DEF BeingWritten, Writing
  <2> SUFFICES ASSUME NEW j \in Slots, NEW k \in Slots,
                      myBufferSfd'[j].sfd # Nobody, ~BeingWritten(j)',
                      myBufferSfd'[k].sfd # Nobody, ~BeingWritten(k)',
                      myBufferSfd'[j].ip = myBufferSfd'[k].ip
               PROVE  j = k
    BY DEF HostsDistinct
  <2>2. j # p /\ k # p
    BY <2>1 DEF BeingWritten
  <2>3. myBufferSfd'[j] = myBufferSfd[j] /\ myBufferSfd'[k] = myBufferSfd[k]
    BY <1>4, <2>2
  <2> QED
    BY <1>1, <2>3, Zenon DEF HostsDistinct
<1> QED
  BY <1>5, <1>8, <1>9, <1>10

LEMMA WriteWaitKeeps ==
  ASSUME BufferInv, NEW c \in Sfds, WriteWait(c)
  PROVE  BufferParts'
<1> USE DEF BufferInv, TypeOK
<1>1. at[c] \in 0 .. N /\ (at[c] # 0) \in BOOLEAN
  BY BufferAssumption DEF Slots
<1>2. \A k \in 0 .. N : /\ myBufferSfd'[k].sfd = myBufferSfd[k].sfd
                        /\ myBufferSfd'[k].ip = myBufferSfd[k].ip
  BY <1>1, WritesWait DEF WriteWait, PutWait
<1>3. \A j \in Slots : /\ myBufferSfd'[j].sfd = myBufferSfd[j].sfd
                       /\ myBufferSfd'[j].ip = myBufferSfd[j].ip
  BY <1>2, BufferAssumption DEF Slots
<1>4. \A d \in Sfds : /\ pc'[d] \in Holding <=> pc[d] \in Holding
                      /\ pc'[d] \in Writing <=> pc[d] \in Writing
                      /\ pc'[d] = "sfd" => pc[d] = "sfd"
  BY DEF WriteWait, Holding, Writing
<1> QED
  BY <1>3, <1>4, SameOrders DEF WriteWait, BufferParts

LEMMA WriteIpKeeps ==
  ASSUME BufferInv, NEW c \in Sfds, WriteIp(c)
  PROVE  BufferParts'
<1> USE BufferAssumption DEF BufferInv, TypeOK, BufferParts
<1>0. PICK p : p = at[c]
  OBVIOUS
<1>1. /\ semOrder = c
      /\ \A d \in Sfds : d # c => pc[d] \notin Holding
      /\ \A j : BeingWritten(j) <=> p = j
  BY <1>0, OnlyInside DEF WriteIp, Holding, Writing
<1>2. /\ pc[c] = "ip" /\ pc'[c] = "give" /\ at' = at /\ semOrder' = c
      /\ \A d \in Sfds : d # c => pc'[d] = pc[d]
  BY <1>1 DEF WriteIp
<1>3. /\ p \in Slots /\ p \in 0 .. N
      /\ \A k \in Slots : /\ k < p => myBufferSfd[k].ip # IpOf[c]
                          /\ k > p => myBufferSfd[k].sfd = Nobody
  <2>1. Chosen(c) /\ pc[c] \in Writing
    BY <1>2 DEF SlotsChosen, Writing
  <2>2. p \in Slots /\ Slots \subseteq 0 .. N
    BY <1>0 DEF Slots
  <2> QED
    BY <1>0, <2>1, <2>2 DEF Chosen
<1>4. /\ myBufferSfd'[p].sfd = myBufferSfd[p].sfd /\ myBufferSfd'[p].ip = IpOf[c]
      /\ \A k \in Slots : k # p => myBufferSfd'[k] = myBufferSfd[k]
  <2>1. /\ myBufferSfd' = PutIp(myBufferSfd, p, IpOf[c]) /\ IpOf[c] \in Ips
        /\ myBufferSfd \in Buffer
    BY <1>0 DEF WriteIp, PutIp, Ips
  <2>2. /\ myBufferSfd'[p].sfd = myBufferSfd[p].sfd /\ myBufferSfd'[p].ip = IpOf[c]
        /\ \A k \in 0 .. N : k # p => myBufferSfd'[k] = myBufferSfd[k]
    <3>1. p \in 0 .. N
      BY <1>3
    <3> HIDE BufferAssumption DEF BufferInv, TypeOK, BufferParts
    <3> QED
      BY <2>1, <3>1, WritesIp
  <2> QED
    BY <2>2 DEF Slots
<1>5. Locked'
  BY <1>1, <1>2 DEF Locked, Holding
<1>6. SlotsChosen'
  <2> SUFFICES ASSUME NEW d \in Sfds PROVE Chosen(d)'
    BY DEF SlotsChosen
  <2>1. pc'[d] \notin Writing /\ pc'[d] # "sfd"
    BY <1>1, <1>2 DEF Writing, Holding
  <2> QED
    BY <2>1 DEF Chosen
<1>7. \A j \in Slots : myBufferSfd'[j].sfd = myBufferSfd[j].sfd
  BY <1>4
<1>8. BufferIsPrefix'
  BY <1>7 DEF BufferIsPrefix, PrefixOccupied
<1>9. HostsDistinct'
  <2> SUFFICES ASSUME NEW j \in Slots, NEW k \in Slots,
                      myBufferSfd'[j].sfd # Nobody, myBufferSfd'[k].sfd # Nobody,
                      myBufferSfd'[j].ip = myBufferSfd'[k].ip
               PROVE  j = k
    BY DEF HostsDistinct
  <2>1. j <= p /\ k <= p
    BY <1>3, <1>7 DEF Slots
  <2>2. CASE j < p /\ k < p
    <3>1. j # p /\ k # p
      BY <1>3, <2>2 DEF Slots
    <3>2. myBufferSfd'[j] = myBufferSfd[j] /\ myBufferSfd'[k] = myBufferSfd[k]
      BY <1>4, <3>1
    <3> QED
      BY <1>1, <3>1, <3>2, Zenon DEF HostsDistinct
  <2>3. CASE j = p /\ k < p
    BY <1>3, <1>4, <2>3
  <2>4. CASE j < p /\ k = p
    BY <1>3, <1>4, <2>4
  <2>5. CASE j = p /\ k = p
    BY <2>5
  <2> QED
    BY <1>3, <2>1, <2>2, <2>3, <2>4, <2>5 DEF Slots
<1> QED
  BY <1>5, <1>6, <1>8, <1>9

LEMMA GiveKeeps ==
  ASSUME BufferInv, NEW c \in Sfds, Give(c)
  PROVE  BufferParts'
<1> USE DEF BufferInv, TypeOK, BufferParts
<1>1. /\ semOrder = c
      /\ \A d \in Sfds : d # c => pc[d] \notin Holding
      /\ \A j : ~BeingWritten(j)
  BY OnlyInside DEF Give, Holding, Writing
<1>2. /\ pc'[c] \in {"announce", "idle"} /\ semOrder' = Free
      /\ \A d \in Sfds : d # c => pc'[d] = pc[d]
      /\ myBufferSfd' = myBufferSfd
  BY DEF Give
<1>3. \A d \in Sfds : pc'[d] \notin Holding
  BY <1>1, <1>2 DEF Holding
<1>4. Locked'
  BY <1>2, <1>3, DeskAssumption DEF Locked
<1>5. SlotsChosen'
  BY <1>3 DEF SlotsChosen, Chosen, Writing, Holding
<1>6. BufferIsPrefix'
  BY <1>2 DEF BufferIsPrefix
<1>7. HostsDistinct'
  BY <1>1, <1>2 DEF HostsDistinct
<1> QED
  BY <1>4, <1>5, <1>6, <1>7

LEMMA CompleteKeeps ==
  ASSUME BufferInv, Complete
  PROVE  BufferParts'
<1> USE BufferAssumption DEF BufferInv, TypeOK, BufferParts
<1>1. /\ \A d \in Sfds : pc[d] \notin Holding
      /\ \A j : ~BeingWritten(j)
  BY NobodyInside DEF Complete
<1>2. pc' = pc /\ semOrder' = semOrder /\ myBufferSfd' = Shift(myBufferSfd)
  BY DEF Complete, workerVars
<1>3. /\ \A j \in Slots : j < N - 1 => myBufferSfd'[j] = myBufferSfd[j + 1]
      /\ myBufferSfd'[N - 1].sfd = Nobody
  BY <1>2, ShiftMovesDown
<1>4. \A j \in Slots : myBufferSfd'[j].sfd # Nobody =>
        j < N - 1 /\ j + 1 \in Slots /\ myBufferSfd'[j] = myBufferSfd[j + 1]
  BY <1>3 DEF Slots
<1>5. Locked'
  BY <1>2 DEF Locked
<1>6. SlotsChosen'
  BY <1>1, <1>2 DEF SlotsChosen, Chosen, Writing, Holding
<1>7. BufferIsPrefix'
  <2> SUFFICES ASSUME NEW j \in Slots, NEW k \in Slots, j < k, myBufferSfd'[k].sfd # Nobody
               PROVE  myBufferSfd'[j].sfd # Nobody
    BY DEF BufferIsPrefix, PrefixOccupied
  <2>1. j < N - 1 /\ j + 1 \in Slots /\ k + 1 \in Slots /\ j + 1 < k + 1
    BY <1>4 DEF Slots
  <2>2. myBufferSfd[k + 1].sfd # Nobody
    BY <1>4
  <2>3. myBufferSfd[j + 1].sfd # Nobody
    BY <2>1, <2>2 DEF BufferIsPrefix, PrefixOccupied
  <2> QED
    BY <1>3, <2>1, <2>3
<1>8. HostsDistinct'
  <2> SUFFICES ASSUME NEW j \in Slots, NEW k \in Slots,
                      myBufferSfd'[j].sfd # Nobody, myBufferSfd'[k].sfd # Nobody,
                      myBufferSfd'[j].ip = myBufferSfd'[k].ip
               PROVE  j = k
    BY DEF HostsDistinct
  <2>1. /\ j + 1 \in Slots /\ myBufferSfd'[j] = myBufferSfd[j + 1]
        /\ k + 1 \in Slots /\ myBufferSfd'[k] = myBufferSfd[k + 1]
    BY <1>4
  <2>2. j + 1 = k + 1
    BY <1>1, <2>1 DEF HostsDistinct
  <2> QED
    BY <2>2 DEF Slots
<1> QED
  BY <1>5, <1>6, <1>7, <1>8

LEMMA BufferStep == BufferInv /\ [Next]_vars => BufferInv'
<1> SUFFICES ASSUME BufferInv, [Next]_vars PROVE BufferParts'
  BY NextTypes DEF BufferInv, BufferParts
<1> USE DEF BufferInv, TypeOK
<1>1. CASE UNCHANGED <<myBufferSfd, workerVars>>
  BY <1>1, SameOrders DEF BufferParts, workerVars
<1>2. ASSUME NEW c \in Sfds, Request(c) \/ Announce(c) PROVE BufferParts'
  <2>1. \A d \in Sfds : /\ pc'[d] \in Holding <=> pc[d] \in Holding
                        /\ pc'[d] \in Writing <=> pc[d] \in Writing
                        /\ pc'[d] = "sfd" => pc[d] = "sfd"
    BY <1>2 DEF Request, Announce, Holding, Writing
  <2>2. myBufferSfd' = myBufferSfd /\ at' = at /\ semOrder' = semOrder
    BY <1>2 DEF Request, Announce
  <2> QED
    BY <2>1, <2>2, SameOrders DEF BufferParts
<1>3. CASE AnswerWait
  BY <1>3, ClearKeepsOrders, SameOrders DEF AnswerWait, BufferParts, workerVars
<1>4. CASE \/ \E c \in Sfds : GiveUp(c)
           \/ StartOrder \/ TakeOver \/ HandedOn \/ UNCHANGED vars
  BY <1>1, <1>4 DEF GiveUp, StartOrder, TakeOver, HandedOn, vars, workerVars
<1> QED
  BY <1>2, <1>3, <1>4, SearchKeeps, WriteSfdKeeps, WriteWaitKeeps, WriteIpKeeps, GiveKeeps,
     CompleteKeeps DEF Next, WorkerStep, MainStep

-----------------------------------------------------------------------------
(* The stages of a transport and the order it is run for *)

StageParts == Stages /\ NextHasOrder

(* A step that leaves the main task alone and frees no slot only has to    *)
(* find the orders there that its announcement will be about.              *)
LEMMA WorkerKeeps ==
  ASSUME StageParts, UNCHANGED <<events, performing, stage>>,
         \A j \in {0, 1} : myBufferSfd[j].sfd # Nobody => myBufferSfd'[j].sfd # Nobody,
         Pending' => /\ ~performing => myBufferSfd'[0].sfd # Nobody
                     /\ stage = "gone" => myBufferSfd'[1].sfd # Nobody
  PROVE  StageParts'
BY DEF StageParts, Stages, NextHasOrder

LEMMA FullTakesTwo ==
  ASSUME NEW buf, NEW s, Full(buf, s)
  PROVE  buf[0].sfd # Nobody /\ buf[1].sfd # Nobody
<1>1. 0 \in Slots /\ 1 \in Slots
  BY BufferAssumption, DeskAssumption DEF Slots
<1> QED
  BY <1>1 DEF Full, Stops, Occupied

LEMMA SearchFindsOrders ==
  ASSUME BufferInv, StageParts, NEW c \in Sfds, Search(c)
  PROVE  StageParts'
<1> USE BufferAssumption, DeskAssumption DEF BufferInv, TypeOK
<1>1. CASE Full(myBufferSfd, c)
  <2>1. myBufferSfd[0].sfd # Nobody /\ myBufferSfd[1].sfd # Nobody
    BY <1>1, FullTakesTwo
  <2> QED
    BY <2>1, WorkerKeeps DEF Search, mainVars
<1>2. CASE ~Full(myBufferSfd, c)
  <2>1. \A d \in Sfds : pc'[d] \in {"wait", "ip", "give", "announce"} => pc'[d] = pc[d]
    BY <1>2 DEF Search
  <2>2. Pending' => Pending
    BY <2>1 DEF Pending
  <2> QED
    BY <2>2, WorkerKeeps DEF Search, mainVars, StageParts, NextHasOrder
<1> QED
  BY <1>1, <1>2

LEMMA WriteSfdFillsFront ==
  ASSUME BufferInv, StageParts, NEW c \in Sfds, WriteSfd(c)
  PROVE  StageParts'
<1> USE BufferAssumption, DeskAssumption DEF BufferInv, TypeOK
<1>0. PICK p : p = at[c]
  OBVIOUS
<1>1. /\ p \in Slots /\ p \in 0 .. N
      /\ \A k \in Slots : k < p => myBufferSfd[k].sfd # Nobody
  BY <1>0 DEF WriteSfd, SlotsChosen, Chosen, Slots
<1>2. myBufferSfd' = PutSfd(myBufferSfd, p, c) /\ myBufferSfd \in Buffer
  BY <1>0 DEF WriteSfd, PutSfd
<1>3. /\ myBufferSfd'[p].sfd = c
      /\ \A k \in 0 .. N : k # p => myBufferSfd'[k] = myBufferSfd[k]
  BY <1>1, <1>2, WritesSfd
<1>4. \A k \in Slots : /\ myBufferSfd[k].sfd # Nobody => myBufferSfd'[k].sfd # Nobody
                       /\ k <= p => myBufferSfd'[k].sfd # Nobody
  <2> SUFFICES ASSUME NEW k \in Slots
               PROVE  /\ myBufferSfd[k].sfd # Nobody => myBufferSfd'[k].sfd # Nobody
                      /\ k <= p => myBufferSfd'[k].sfd # Nobody
    OBVIOUS
  <2>1. CASE k = p
    BY <1>3, <2>1
  <2>2. CASE k # p
    <3>1. k \in 0 .. N /\ (k <= p => k < p)
      BY <1>1, <2>2 DEF Slots
    <3>2. myBufferSfd'[k] = myBufferSfd[k]
      BY <1>3, <2>2, <3>1
    <3> QED
      BY <1>1, <3>1, <3>2
  <2> QED
    BY <2>1, <2>2
<1>5. 0 \in Slots /\ 1 \in Slots /\ 0 <= p
  BY <1>1 DEF Slots
<1>6. myBufferSfd'[0].sfd # Nobody
  BY <1>4, <1>5
<1>7. stage = "gone" => myBufferSfd'[1].sfd # Nobody
  <2> SUFFICES ASSUME stage = "gone" PROVE myBufferSfd'[1].sfd # Nobody
    OBVIOUS
  <2>1. myBufferSfd[0].sfd # Nobody
    BY DEF StageParts, Stages, NextHasOrder
  <2>2. myBufferSfd[p].sfd = Nobody
    BY <1>0 DEF WriteSfd, SlotsChosen, Chosen
  <2>3. 1 <= p
    BY <1>1, <2>1, <2>2 DEF Slots
  <2> QED
    BY <1>4, <1>5, <2>3
<1> QED
  BY <1>4, <1>5, <1>6, <1>7, WorkerKeeps DEF WriteSfd, mainVars

(* Writing the flag or the address frees no slot and takes none. *)
LEMMA FieldsApart ==
  ASSUME TypeOK, NEW c \in Sfds, WriteWait(c) \/ WriteIp(c)
  PROVE  \A k \in 0 .. N : myBufferSfd'[k].sfd = myBufferSfd[k].sfd
<1>1. /\ at[c] \in 0 .. N /\ (at[c] # 0) \in BOOLEAN /\ IpOf[c] \in Ips
      /\ myBufferSfd \in Buffer
  BY BufferAssumption DEF TypeOK, Slots, Ips
<1>2. CASE WriteWait(c)
  BY <1>1, <1>2, WritesWait DEF WriteWait, PutWait
<1>3. CASE WriteIp(c)
  <2>1. myBufferSfd' = PutIp(myBufferSfd, at[c], IpOf[c])
    BY <1>3 DEF WriteIp, PutIp
  <2> QED
    BY <1>1, <2>1, WritesIp
<1> QED
  BY <1>2, <1>3

LEMMA AnnounceKeeps ==
  ASSUME BufferInv, StageParts, NEW c \in Sfds, Announce(c)
  PROVE  StageParts'
<1> USE DEF BufferInv, TypeOK, StageParts
<1>1. /\ Pending
      /\ UNCHANGED <<myBufferSfd, performing, stage>>
  BY DEF Announce, Pending, mainVars
<1>2. /\ Len(events') = Len(events) + 1 /\ Len(events) \in Nat
      /\ \A i \in 1 .. Len(events) : events'[i] = events[i]
      /\ events'[Len(events) + 1] = "request"
  BY DEF Announce
<1>3. \A i \in 1 .. Len(events') :
        events'[i] = "release" => i \in 1 .. Len(events) /\ events[i] = "release"
  BY <1>2
<1>4. Stages'
  BY <1>1, <1>3 DEF Stages
<1>5. \A i \in 1 .. Len(events') :
        (i \in 1 .. Len(events) /\ events'[i] = events[i]) \/ i = Len(events) + 1
  BY <1>2
<1>6. NextHasOrder'
  BY <1>1 DEF NextHasOrder
<1> QED
  BY <1>4, <1>6

LEMMA TailEvents ==
  ASSUME TypeOK, events # <<>>
  PROVE  /\ 1 \in 1 .. Len(events) /\ events[1] = Head(events)
         /\ \A i \in 1 .. Len(Tail(events)) :
              i + 1 \in 1 .. Len(events) /\ Tail(events)[i] = events[i + 1]
         /\ Tail(events) \in Seq({"request", "release"})
BY DEF TypeOK

LEMMA StartOrderKeeps ==
  ASSUME BufferInv, StageParts, StartOrder
  PROVE  StageParts'
<1> USE DEF BufferInv, StageParts
<1>1. /\ 1 \in 1 .. Len(events) /\ events[1] = "request"
      /\ \A i \in 1 .. Len(events') :
           i + 1 \in 1 .. Len(events) /\ events'[i] = events[i + 1]
  BY TailEvents DEF StartOrder, Event
<1>2. ~performing /\ performing' = TRUE /\ stage' = "fromLeft" /\ myBufferSfd' = myBufferSfd
  BY DEF StartOrder
<1>3. \A i \in 1 .. Len(events) : events[i] # "release"
  BY <1>2 DEF Stages
<1>4. myBufferSfd'[0].sfd # Nobody
  BY <1>1, <1>2 DEF NextHasOrder
<1> QED
  BY <1>1, <1>2, <1>3, <1>4 DEF Stages, NextHasOrder

LEMMA AnswerWaitKeeps ==
  ASSUME BufferInv, StageParts, AnswerWait
  PROVE  StageParts'
<1> USE DEF BufferInv, StageParts
<1>1. /\ \A i \in 1 .. Len(events') :
           i + 1 \in 1 .. Len(events) /\ events'[i] = events[i + 1]
  BY TailEvents DEF AnswerWait, Event
<1>2. performing /\ UNCHANGED <<performing, stage, pc>>
  BY DEF AnswerWait, workerVars, mainVars
<1>3. \A j \in {0, 1} : myBufferSfd'[j].sfd = myBufferSfd[j].sfd
  <2>1. 0 \in Slots /\ 1 \in Slots
    BY BufferAssumption, DeskAssumption DEF Slots
  <2>2. myBufferSfd \in Buffer /\ myBufferSfd' = ClearWaiting(myBufferSfd)
    BY DEF AnswerWait, TypeOK
  <2> HIDE DEF BufferInv, StageParts
  <2> QED
    BY <2>1, <2>2, ClearKeepsOrders
<1>4. Stages'
  <2>1. \A i, j \in 1 .. Len(events') : events'[i] = "release" /\ events'[j] = "release" => i = j
    <3> SUFFICES ASSUME NEW i \in 1 .. Len(events'), NEW j \in 1 .. Len(events'),
                        events'[i] = "release", events'[j] = "release"
                 PROVE  i = j
      OBVIOUS
    <3>1. i + 1 = j + 1
      BY <1>1 DEF Stages
    <3> QED
      BY <3>1
  <2> QED
    BY <1>1, <1>2, <2>1 DEF Stages
<1>5. stage' = "gone" /\ (Pending' \/ \E i, j \in 1 .. Len(events') :
                            i < j /\ events'[i] = "release" /\ events'[j] = "request")
        => myBufferSfd'[1].sfd # Nobody
  <2>1. CASE Pending'
    BY <1>2, <1>3, <2>1 DEF NextHasOrder, Pending
  <2>2. ASSUME NEW i \in 1 .. Len(events'), NEW j \in 1 .. Len(events'),
               i < j, events'[i] = "release", events'[j] = "request", stage' = "gone"
        PROVE  myBufferSfd'[1].sfd # Nobody
    <3>1. /\ i + 1 \in 1 .. Len(events) /\ j + 1 \in 1 .. Len(events) /\ i + 1 < j + 1
          /\ events[i + 1] = "release" /\ events[j + 1] = "request"
      BY <1>1, <2>2
    <3> QED
      BY <1>2, <1>3, <2>2, <3>1 DEF NextHasOrder
  <2> QED
    BY <2>1, <2>2
<1> QED
  BY <1>2, <1>3, <1>4, <1>5 DEF NextHasOrder

LEMMA HandedOnKeeps ==
  ASSUME BufferInv, StageParts, HandedOn
  PROVE  StageParts'
<1> USE DEF BufferInv, TypeOK, StageParts
<1>1. /\ stage = "onBelt" /\ stage' = "gone" /\ performing
      /\ UNCHANGED <<myBufferSfd, pc, performing>>
  BY DEF HandedOn, workerVars, Stages
<1>2. /\ Len(events') = Len(events) + 1 /\ Len(events) \in Nat
      /\ \A i \in 1 .. Len(events) : events'[i] = events[i] /\ events[i] # "release"
  BY <1>1 DEF HandedOn, Stages
<1>3. \A i \in 1 .. Len(events') : events'[i] = "release" => i = Len(events) + 1
  BY <1>2
<1>4. ~Pending'
  BY <1>1 DEF Pending, HandedOn, WorkersCaughtUp, Storing
<1>5. ~\E i, j \in 1 .. Len(events') :
         i < j /\ events'[i] = "release" /\ events'[j] = "request"
  BY <1>2, <1>3
<1> QED
  BY <1>1, <1>3, <1>4, <1>5 DEF Stages, NextHasOrder

LEMMA CompleteFindsNext ==
  ASSUME BufferInv, StageParts, Complete
  PROVE  StageParts'
<1> USE BufferAssumption, DeskAssumption DEF BufferInv, StageParts
<1> DEFINE rest == Tail(events)
<1>1. /\ 1 \in 1 .. Len(events) /\ events[1] = "release"
      /\ \A i \in 1 .. Len(rest) : i + 1 \in 1 .. Len(events) /\ rest[i] = events[i + 1]
      /\ rest \in Seq({"request", "release"})
  BY TailEvents DEF Complete, Event
<1>2. performing' = FALSE /\ stage' = "none" /\ pc' = pc /\ myBufferSfd' = Shift(myBufferSfd)
  BY DEF Complete, workerVars
<1>3. stage = "gone"
  BY <1>1 DEF Stages
<1>4. myBufferSfd'[0] = myBufferSfd[1]
  BY <1>2, ShiftMovesDown DEF TypeOK, Slots
<1> HIDE DEF rest
<1>5. \A i \in 1 .. Len(rest) : rest[i] # "release"
  BY <1>1 DEF Stages
<1>6. \/ events' = rest
      \/ events' = Append(rest, "request") /\ myBufferSfd'[0].sfd # Nobody
  BY <1>2 DEF Complete, ActualSfd, rest
<1>7. \A i \in 1 .. Len(events') : events'[i] # "release"
  BY <1>1, <1>5, <1>6
<1>8. Pending' => myBufferSfd'[0].sfd # Nobody
  BY <1>2, <1>3, <1>4 DEF NextHasOrder, Pending
<1>9. \A i \in 1 .. Len(events') : events'[i] = "request" => myBufferSfd'[0].sfd # Nobody
  <2>1. ASSUME NEW i \in 1 .. Len(rest), rest[i] = "request"
        PROVE  myBufferSfd'[0].sfd # Nobody
    <3>1. i + 1 \in 1 .. Len(events) /\ 1 < i + 1 /\ events[i + 1] = "request"
      BY <1>1, <2>1
    <3> QED
      BY <1>1, <1>3, <1>4, <3>1 DEF NextHasOrder
  <2> QED
    BY <1>6, <2>1
<1> QED
  BY <1>2, <1>7, <1>8, <1>9 DEF Stages, NextHasOrder

LEMMA StageStep == IInv /\ [Next]_vars => StageParts'
<1> SUFFICES ASSUME BufferInv, StageParts, [Next]_vars PROVE StageParts'
  BY DEF IInv, StageParts
<1> USE BufferAssumption, DeskAssumption DEF BufferInv, TypeOK
<1>1. ASSUME NEW c \in Sfds, Request(c) \/ GiveUp(c) \/ Give(c) PROVE StageParts'
  <2>1. Pending' => Pending
    BY <1>1 DEF Request, GiveUp, Give, Pending, workerVars
  <2> QED
    BY <1>1, <2>1, WorkerKeeps DEF Request, GiveUp, Give, mainVars, StageParts, NextHasOrder
<1>2. ASSUME NEW c \in Sfds, WriteWait(c) \/ WriteIp(c) PROVE StageParts'
  <2>1. Pending' => Pending
    BY <1>2 DEF WriteWait, WriteIp, Pending
  <2>2. \A k \in 0 .. N : myBufferSfd'[k].sfd = myBufferSfd[k].sfd
    BY <1>2, FieldsApart
  <2>3. \A k \in {0, 1} : myBufferSfd'[k].sfd = myBufferSfd[k].sfd
    BY <2>2
  <2> QED
    BY <1>2, <2>1, <2>3, WorkerKeeps DEF WriteWait, WriteIp, mainVars, StageParts, NextHasOrder
<1>3. CASE TakeOver
  <2>1. performing /\ stage = "fromLeft" /\ stage' = "onBelt"
    BY <1>3 DEF TakeOver, StageParts, Stages
  <2>2. UNCHANGED <<myBufferSfd, pc, events, performing>>
    BY <1>3 DEF TakeOver, workerVars
  <2> QED
    BY <2>1, <2>2 DEF StageParts, Stages, NextHasOrder
<1>4. CASE UNCHANGED vars
  BY <1>4 DEF vars, StageParts, Stages, NextHasOrder, Pending
<1> QED
  BY <1>1, <1>2, <1>3, <1>4, SearchFindsOrders, WriteSfdFillsFront, AnnounceKeeps,
     StartOrderKeeps, AnswerWaitKeeps, HandedOnKeeps, CompleteFindsNext
     DEF Next, WorkerStep, MainStep

-----------------------------------------------------------------------------
(* The theorems *)

LEMMA Inductive == Safety => []IInv
<1>1. IInv /\ [Next]_vars => IInv'
  BY BufferStep, StageStep DEF IInv, StageParts
<1> QED
  BY <1>1, InitIInv, PTL DEF Safety

(* The buffer, the mutex and the workers' places are well formed.          *)
THEOREM TypeCorrect == Safety => []TypeOK
<1>1. IInv => TypeOK
  BY DEF IInv, BufferInv
<1> QED
  BY <1>1, Inductive, PTL

(* Whatever the workers store field by field while the main task runs      *)
(* between their writes, the orders fill the slots from the front.         *)
THEOREM BufferFillsFromFront == Safety => []BufferIsPrefix
<1>1. IInv => BufferIsPrefix
  BY DEF IInv, BufferInv
<1> QED
  BY <1>1, Inductive, PTL

(* However many connections a host opens, the buffer holds one order of    *)
(* it: the search under semOrder never stores a second one.                *)
THEOREM HostsOrderOnce == Safety => []OneOrderPerHost
<1>1. IInv => OneOrderPerHost
  <2> SUFFICES ASSUME IInv, semOrder = Free PROVE DistinctHosts(myBufferSfd)
    BY DEF OneOrderPerHost
  <2>1. \A j : ~BeingWritten(j)
    BY NobodyInside DEF IInv, BufferInv
  <2> QED
    BY <2>1 DEF IInv, BufferInv, HostsDistinct, DistinctHosts, Occupied
<1> QED
  BY <1>1, Inductive, PTL

(* A transport always has an order at the head of the buffer: READY and    *)
(* RELEASE have an addressee.                                              *)
THEOREM TransportsAreOrdered == Safety => []NoPhantomTransport
<1>1. IInv => NoPhantomTransport
  BY DEF IInv, NextHasOrder, NoPhantomTransport, ActualSfd
<1> QED
  BY <1>1, Inductive, PTL

(* No step changes the client at the head while its package is handed      *)
(* over: neither a worker that stores an order nor a removal.              *)
THEOREM HeadIsKept == Safety => HeadStays
<1>1. IInv /\ [Next]_vars =>
        [stage = "fromLeft" => ActualSfd(myBufferSfd)' = ActualSfd(myBufferSfd)]_vars
  <2> SUFFICES ASSUME IInv, Next, stage = "fromLeft"
               PROVE  ActualSfd(myBufferSfd)' = ActualSfd(myBufferSfd)
    OBVIOUS
  <2> USE BufferAssumption, DeskAssumption DEF IInv, BufferInv, TypeOK, ActualSfd
  <2>1. performing /\ myBufferSfd[0].sfd # Nobody /\ 0 \in Slots
    BY DEF Stages, NextHasOrder, Slots
  <2>2. ASSUME NEW c \in Sfds, WriteSfd(c)
        PROVE  myBufferSfd'[0].sfd = myBufferSfd[0].sfd
    <3>1. at[c] # 0
      BY <2>1, <2>2 DEF WriteSfd, SlotsChosen, Chosen
    <3> QED
      BY <2>2, <3>1 DEF WriteSfd, Buffer
  <2>3. ASSUME NEW c \in Sfds, WriteWait(c) \/ WriteIp(c)
        PROVE  myBufferSfd'[0].sfd = myBufferSfd[0].sfd
    BY <2>3, FieldsApart DEF WriteWait, WriteIp
  <2>4. CASE AnswerWait
    BY <2>1, <2>4, ClearKeepsOrders DEF AnswerWait
  <2>5. ~Complete
    <3>1. \A i \in 1 .. Len(events) : events[i] # "release"
      BY DEF Stages
    <3> QED
      BY <3>1, TailEvents DEF Complete, Event
  <2> QED
    BY <2>2, <2>3, <2>4, <2>5 DEF Next, WorkerStep, MainStep, Request, GiveUp, Search, Give,
       Announce, StartOrder, TakeOver, HandedOn
<1> QED
  BY <1>1, Inductive, PTL DEF Safety, HeadStays

-----------------------------------------------------------------------------
(* The clients *)

(* An order is in the buffer once; its client waits for the Ready, unless  *)
(* it is the one being served.  Only that one, once it has its Release,    *)
(* can have asked again.                                                   *)
SfdIn == [j \in Slots |-> myBufferSfd[j].sfd]

OrderedOnce == \A j, k \in Slots : SfdIn[j] # Nobody /\ SfdIn[j] = SfdIn[k] => j = k

Askers ==
  \A c \in Sfds :
    /\ pc[c] \in {"search", "sfd"} => client[c] = "asked"
    /\ pc[c] = "sfd" => \A j \in Slots : SfdIn[j] # c
    /\ pc[c] = "search" =>
         \A j \in Slots : SfdIn[j] = c => j = 0 /\ stage \in {"onBelt", "gone"}

InLine ==
  \A j \in Slots : SfdIn[j] # Nobody /\ (j # 0 \/ stage = "none") => client[SfdIn[j]] = "asked"

Served == stage = "fromLeft" => client[SfdIn[0]] = "ready"

ClientInv == OrderedOnce /\ Askers /\ InLine /\ Served /\ TransportAnswersInPlace

LEMMA SfdsInSlots ==
  ASSUME TypeOK
  PROVE  /\ 0 \in Slots
         /\ \A j \in Slots : SfdIn[j] = myBufferSfd[j].sfd /\ SfdIn[j] \in Sfds \cup {Nobody}
<1>1. Slots \subseteq 0 .. N /\ 0 \in Slots
  BY BufferAssumption DEF Slots
<1>2. \A j \in 0 .. N : myBufferSfd[j] \in Slot
  BY DEF TypeOK, Buffer
<1>3. \A j \in 0 .. N : myBufferSfd[j].sfd \in Sfds \cup {Nobody}
  BY <1>2 DEF Slot
<1> QED
  BY <1>1, <1>3 DEF SfdIn

(* How a step changes the orders: one is stored in a free slot, the oldest *)
(* one is removed, or all stay.                                            *)
LEMMA StoredAtPlace ==
  ASSUME BufferInv, NEW c \in Sfds, WriteSfd(c)
  PROVE  /\ at[c] \in Slots /\ SfdIn[at[c]] = Nobody
         /\ \A j \in Slots : SfdIn'[j] = IF j = at[c] THEN c ELSE SfdIn[j]
<1> USE BufferAssumption DEF BufferInv, TypeOK
<1>1. PICK p : p = at[c]
  OBVIOUS
<1>2. /\ p \in Slots /\ Slots \subseteq 0 .. N
      /\ myBufferSfd' = PutSfd(myBufferSfd, p, c)
  BY <1>1 DEF WriteSfd, PutSfd, Slots
<1>3. SfdIn[p] = Nobody
  BY <1>1, <1>2 DEF WriteSfd, SlotsChosen, Chosen, SfdIn
<1>4. /\ myBufferSfd'[p].sfd = c
      /\ \A k \in 0 .. N : k # p => myBufferSfd'[k] = myBufferSfd[k]
  BY <1>2, WritesSfd
<1> QED
  BY <1>1, <1>2, <1>3, <1>4 DEF SfdIn

LEMMA RemovedFromFront ==
  ASSUME BufferInv, Complete
  PROVE  \A j \in Slots : IF j < N - 1 THEN j + 1 \in Slots /\ SfdIn'[j] = SfdIn[j + 1]
                                       ELSE SfdIn'[j] = Nobody
<1> USE BufferAssumption DEF BufferInv, TypeOK
<1>1. /\ \A j \in Slots : j < N - 1 => myBufferSfd'[j] = myBufferSfd[j + 1]
      /\ myBufferSfd'[N - 1].sfd = Nobody
  BY ShiftMovesDown DEF Complete
<1>2. \A j \in Slots : IF j < N - 1 THEN j + 1 \in Slots ELSE j = N - 1
  BY DEF Slots
<1> QED
  BY <1>1, <1>2 DEF SfdIn

LEMMA OrdersStay ==
  ASSUME BufferInv, [Next]_vars, ~Complete, \A c \in Sfds : ~WriteSfd(c)
  PROVE  SfdIn' = SfdIn
<1> USE BufferAssumption DEF BufferInv, TypeOK
<1>1. Slots \subseteq 0 .. N
  BY DEF Slots
<1>2. CASE AnswerWait
  BY <1>2, ClearKeepsOrders DEF AnswerWait, SfdIn
<1>3. ASSUME NEW c \in Sfds, WriteWait(c) \/ WriteIp(c)
      PROVE  SfdIn' = SfdIn
  <2>1. \A j \in Slots : myBufferSfd'[j].sfd = myBufferSfd[j].sfd
    BY <1>1, <1>3, FieldsApart
  <2> QED
    BY <2>1 DEF SfdIn
<1>4. \/ myBufferSfd' = myBufferSfd
      \/ AnswerWait
      \/ \E c \in Sfds : WriteWait(c) \/ WriteIp(c)
  BY DEF Next, WorkerStep, MainStep, Request, GiveUp, Search, Give, Announce,
         StartOrder, TakeOver, HandedOn, vars
<1> QED
  BY <1>2, <1>3, <1>4 DEF SfdIn

(* An accepted client has no order in the buffer. *)
LEMMA AcceptedIsNew ==
  ASSUME BufferInv, NEW c \in Sfds, Accepted(myBufferSfd, c)
  PROVE  \A j \in Slots : SfdIn[j] # c
<1>1. /\ Place(myBufferSfd, c) \in Slots /\ SfdIn[Place(myBufferSfd, c)] = Nobody
      /\ Place(myBufferSfd, c) \notin Own(myBufferSfd, c)
  BY PlaceIsFree DEF Accepted, Refused, Full, SfdIn
<1>2. Stops(myBufferSfd, c) # {}
  BY DEF Accepted, Full
<1> SUFFICES ASSUME NEW j \in Slots, SfdIn[j] = c
             PROVE  FALSE
  OBVIOUS
<1>3. j \in Stops(myBufferSfd, c) /\ j # Place(myBufferSfd, c)
  BY <1>1 DEF Stops, Own, SfdIn
<1>4. Place(myBufferSfd, c) < j
  BY <1>1, <1>2, <1>3, PlaceIsFirst DEF Slots
<1>5. SfdIn[j] = Nobody
  BY <1>1, <1>4 DEF BufferInv, BufferIsPrefix, PrefixOccupied, SfdIn
<1> QED
  BY <1>5, BufferAssumption

LEMMA ClientInit == Init => ClientInv
<1> SUFFICES ASSUME Init PROVE ClientInv
  OBVIOUS
<1>1. \A j \in Slots : SfdIn[j] = Nobody
  BY NewIsFree DEF Init, SfdIn
<1>2. /\ \A c \in Sfds : pc[c] = "idle"
      /\ stage = "none" /\ strays = {}
  BY DEF Init
<1>3. OrderedOnce /\ Askers /\ InLine /\ Served
  BY <1>1, <1>2, BufferAssumption DEF OrderedOnce, Askers, InLine, Served
<1>4. TransportAnswersInPlace
  BY <1>2 DEF TransportAnswersInPlace
<1> QED
  BY <1>3, <1>4 DEF ClientInv

(* What a client makes of an answer. *)
LEMMA HearsInPlace ==
  ASSUME NEW c \in Sfds
  PROVE  /\ Hears(c, "READY") /\ client[c] = "asked"
              => client' = [client EXCEPT ![c] = "ready"] /\ strays' = strays
         /\ Hears(c, "RELEASE") /\ client[c] = "ready"
              => client' = [client EXCEPT ![c] = "idle"] /\ strays' = strays
         /\ Hears(c, "NOTFOUND") /\ client[c] = "asked"
              => client' = [client EXCEPT ![c] = "refused"] /\ strays' = strays
BY DEF Hears

LEMMA HearsWait ==
  ASSUME NEW c, Hears(c, "WAIT")
  PROVE  client' = client /\ strays' \subseteq strays \cup {"WAIT"}
BY DEF Hears, clientVars

LEMMA StraysKept ==
  ASSUME TransportAnswersInPlace, strays' \subseteq strays \cup {"WAIT"}
  PROVE  TransportAnswersInPlace'
<1>1. "WAIT" \notin {"READY", "RELEASE", "NOTFOUND"}
  OBVIOUS
<1> QED
  BY <1>1, Zenon DEF TransportAnswersInPlace

(* A step that changes no order and no client, and lets nobody search.     *)
LEMMA ClientsKept ==
  ASSUME ClientInv, client' = client, strays' \subseteq strays \cup {"WAIT"}, SfdIn' = SfdIn,
         \A c \in Sfds : pc'[c] \in {"search", "sfd"} => pc'[c] = pc[c],
         stage' = stage \/ (stage = "onBelt" /\ stage' = "gone")
  PROVE  ClientInv'
<1> USE DEF ClientInv
<1>1. OrderedOnce'
  BY DEF OrderedOnce
<1>2. Askers'
  BY DEF Askers
<1>3. InLine' /\ Served'
  BY DEF InLine, Served
<1> QED
  BY <1>1, <1>2, <1>3, StraysKept

(* A client that asks has at most an order whose package is on the belt.   *)
LEMMA RequestClient ==
  ASSUME BufferInv, ClientInv, NEW c \in Sfds, Request(c)
  PROVE  ClientInv'
<1> USE DEF ClientInv
<1>1. /\ client[c] = "idle"
      /\ \A d \in Sfds : /\ pc'[d] = IF d = c THEN "search" ELSE pc[d]
                         /\ client'[d] = IF d = c THEN "asked" ELSE client[d]
      /\ UNCHANGED <<myBufferSfd, stage, strays>>
  BY DEF Request, mainVars, BufferInv, TypeOK
<1>2. SfdIn' = SfdIn
  BY <1>1 DEF SfdIn
<1>3. 0 \in Slots /\ \A j \in Slots : SfdIn[j] \in Sfds \cup {Nobody}
  BY SfdsInSlots DEF BufferInv
<1>4. stage \in {"none", "fromLeft", "onBelt", "gone"} /\ c # Nobody
  BY BufferAssumption DEF BufferInv, TypeOK
<1>5. \A j \in Slots : SfdIn[j] = c => j = 0 /\ stage \in {"onBelt", "gone"}
  BY <1>1, <1>4 DEF InLine, Served
<1>6. OrderedOnce'
  BY <1>2 DEF OrderedOnce
<1>7. Askers'
  BY <1>1, <1>2, <1>5 DEF Askers
<1>8. InLine'
  BY <1>1, <1>2, <1>3 DEF InLine
<1>9. Served'
  <2> SUFFICES ASSUME stage' = "fromLeft" PROVE client'[SfdIn'[0]] = "ready"
    BY DEF Served
  <2>1. client[SfdIn[0]] = "ready" /\ SfdIn[0] # c
    BY <1>1, <1>3, <1>5 DEF Served
  <2> QED
    BY <1>2, <2>1 DEF Request
<1> QED
  BY <1>1, <1>6, <1>7, <1>8, <1>9, StraysKept

LEMMA SearchClient ==
  ASSUME BufferInv, ClientInv, NEW c \in Sfds, Search(c)
  PROVE  ClientInv'
<1> USE DEF ClientInv
<1>1. pc[c] = "search" /\ client[c] = "asked" /\ UNCHANGED <<myBufferSfd, stage>>
  BY DEF Search, mainVars, Askers
<1>2. SfdIn' = SfdIn
  BY <1>1 DEF SfdIn
<1>3. 0 \in Slots /\ \A j \in Slots : SfdIn[j] \in Sfds \cup {Nobody}
  BY SfdsInSlots DEF BufferInv
<1>4. OrderedOnce'
  BY <1>2 DEF OrderedOnce
<1>5. CASE Accepted(myBufferSfd, c)
  <2>1. /\ client' = client /\ strays' = strays
        /\ \A d \in Sfds : pc'[d] = IF d = c THEN "sfd" ELSE pc[d]
    BY <1>5 DEF Search, Accepted, clientVars, BufferInv, TypeOK
  <2>2. \A j \in Slots : SfdIn[j] # c
    BY <1>5, AcceptedIsNew
  <2>3. Askers'
    BY <1>1, <1>2, <2>1, <2>2 DEF Askers
  <2>4. InLine' /\ Served'
    BY <1>1, <1>2, <2>1 DEF InLine, Served
  <2> QED
    BY <1>4, <2>1, <2>3, <2>4, StraysKept
<1>6. CASE Full(myBufferSfd, c)
  <2>1. /\ client' = client /\ strays' = strays
        /\ \A d \in Sfds : pc'[d] = IF d = c THEN "give" ELSE pc[d]
    BY <1>6 DEF Search, Accepted, Full, Refused, clientVars, BufferInv, TypeOK
  <2> QED
    BY <1>1, <1>2, <2>1, ClientsKept
<1>7. CASE Refused(myBufferSfd, c)
  <2>1. Hears(c, "NOTFOUND") /\ \A d \in Sfds : pc'[d] = IF d = c THEN "giveUp" ELSE pc[d]
    BY <1>7 DEF Search, Accepted, Full, Refused, BufferInv, TypeOK
  <2>2. client' = [client EXCEPT ![c] = "refused"] /\ strays' = strays
    BY <1>1, <2>1, HearsInPlace
  <2>3. \A d \in Sfds : client'[d] = IF d = c THEN "refused" ELSE client[d]
    BY <2>2 DEF BufferInv, TypeOK
  <2>4. \A j \in Slots : SfdIn[j] = c => j = 0 /\ stage \in {"onBelt", "gone"}
    BY <1>1 DEF Askers
  <2>5. Askers'
    BY <1>1, <1>2, <2>1, <2>3 DEF Askers
  <2>6. InLine'
    <3> SUFFICES ASSUME NEW j \in Slots, SfdIn[j] # Nobody, j # 0 \/ stage = "none"
                 PROVE  client'[SfdIn[j]] = "asked"
      BY <1>1, <1>2 DEF InLine
    <3>1. client[SfdIn[j]] = "asked" /\ SfdIn[j] # c /\ SfdIn[j] \in Sfds
      BY <1>3, <2>4 DEF InLine
    <3> QED
      BY <2>3, <3>1
  <2>7. Served'
    <3> SUFFICES ASSUME stage' = "fromLeft" PROVE client'[SfdIn'[0]] = "ready"
      BY DEF Served
    <3>1. client[SfdIn[0]] = "ready" /\ SfdIn[0] # c
      BY <1>1, <1>3, <2>4 DEF Served
    <3> QED
      BY <1>2, <2>2, <3>1
  <2> QED
    BY <1>4, <2>2, <2>5, <2>6, <2>7, StraysKept
<1> QED
  BY <1>5, <1>6, <1>7 DEF Accepted

LEMMA StoreClient ==
  ASSUME BufferInv, StageParts, ClientInv, NEW c \in Sfds, WriteSfd(c)
  PROVE  ClientInv'
<1> USE DEF ClientInv
<1>0. PICK p : p = at[c]
  OBVIOUS
<1>1. /\ p \in Slots /\ SfdIn[p] = Nobody
      /\ \A j \in Slots : SfdIn'[j] = IF j = p THEN c ELSE SfdIn[j]
  BY <1>0, StoredAtPlace
<1>2. /\ pc[c] = "sfd" /\ UNCHANGED <<stage, client, strays>>
      /\ \A d \in Sfds : pc'[d] = IF d = c THEN "wait" ELSE pc[d]
  BY DEF WriteSfd, mainVars, clientVars, BufferInv, TypeOK
<1>3. client[c] = "asked" /\ \A j \in Slots : SfdIn[j] # c
  BY <1>2 DEF Askers
<1>4. \A d \in Sfds : d # c => pc[d] # "sfd"
  BY <1>2 DEF BufferInv, Locked, Holding
<1>5. OrderedOnce'
  BY <1>1, <1>3 DEF OrderedOnce
<1>6. Askers'
  BY <1>1, <1>2, <1>4 DEF Askers
<1>7. InLine'
  <2> SUFFICES ASSUME NEW j \in Slots, SfdIn'[j] # Nobody, j # 0 \/ stage = "none"
               PROVE  client[SfdIn'[j]] = "asked"
    BY <1>2 DEF InLine
  <2>1. CASE j = p
    BY <1>1, <1>3, <2>1
  <2>2. CASE j # p
    BY <1>1, <2>2 DEF InLine
  <2> QED
    BY <2>1, <2>2
<1>8. Served'
  <2> SUFFICES ASSUME stage = "fromLeft" PROVE client[SfdIn'[0]] = "ready"
    BY <1>2 DEF Served
  <2>1. 0 \in Slots /\ SfdIn[0] # Nobody
    BY SfdsInSlots DEF BufferInv, StageParts, Stages, NextHasOrder
  <2> QED
    BY <1>1, <2>1 DEF Served
<1> QED
  BY <1>2, <1>5, <1>6, <1>7, <1>8, StraysKept

(* Ready or Release for the order at the head.                             *)
LEMMA StartClient ==
  ASSUME BufferInv, StageParts, ClientInv, StartOrder
  PROVE  ClientInv'
<1> USE DEF ClientInv
<1>1. 0 \in Slots /\ \A j \in Slots : SfdIn[j] = myBufferSfd[j].sfd /\ SfdIn[j] \in Sfds \cup {Nobody}
  BY SfdsInSlots DEF BufferInv
<1>2. PICK h : h = SfdIn[0]
  OBVIOUS
<1>3. /\ stage = "none" /\ stage' = "fromLeft" /\ Hears(h, "READY")
      /\ UNCHANGED <<myBufferSfd, pc>>
  BY <1>1, <1>2 DEF StartOrder, workerVars, StageParts, Stages, ActualSfd
<1>4. h \in Sfds
  <2>1. ~performing /\ \E i \in 1 .. Len(events) : events[i] = "request"
    BY TailEvents DEF StartOrder, Event, BufferInv, TypeOK
  <2>2. myBufferSfd[0].sfd # Nobody
    BY <2>1 DEF StageParts, NextHasOrder
  <2> QED
    BY <1>1, <1>2, <2>2
<1>5. client[h] = "asked"
  BY <1>1, <1>2, <1>3, <1>4, BufferAssumption DEF InLine
<1>6. client' = [client EXCEPT ![h] = "ready"] /\ strays' = strays
  BY <1>3, <1>4, <1>5, HearsInPlace
<1>7. \A d \in Sfds : client'[d] = IF d = h THEN "ready" ELSE client[d]
  BY <1>6 DEF BufferInv, TypeOK
<1>8. SfdIn' = SfdIn
  BY <1>3 DEF SfdIn
<1>9. pc[h] \notin {"search", "sfd"}
  BY <1>1, <1>2, <1>3, <1>4 DEF Askers
<1>10. OrderedOnce'
  BY <1>8 DEF OrderedOnce
<1>11. Askers'
  <2> SUFFICES ASSUME NEW d \in Sfds, pc[d] \in {"search", "sfd"}
               PROVE  client'[d] = "asked" /\ \A j \in Slots : SfdIn[j] # d
    BY <1>3, <1>8 DEF Askers
  <2> QED
    BY <1>3, <1>7, <1>9 DEF Askers
<1>12. InLine'
  <2> SUFFICES ASSUME NEW j \in Slots, SfdIn[j] # Nobody, j # 0
               PROVE  client'[SfdIn[j]] = "asked"
    BY <1>3, <1>8 DEF InLine
  <2>1. SfdIn[j] \in Sfds /\ SfdIn[j] # h
    BY <1>1, <1>2 DEF OrderedOnce
  <2> QED
    BY <1>7, <2>1 DEF InLine
<1>13. Served'
  BY <1>2, <1>4, <1>7, <1>8 DEF Served
<1> QED
  BY <1>6, <1>10, <1>11, <1>12, <1>13, StraysKept

LEMMA ReleaseClient ==
  ASSUME BufferInv, StageParts, ClientInv, TakeOver
  PROVE  ClientInv'
<1> USE DEF ClientInv
<1>1. 0 \in Slots /\ \A j \in Slots : SfdIn[j] = myBufferSfd[j].sfd /\ SfdIn[j] \in Sfds \cup {Nobody}
  BY SfdsInSlots DEF BufferInv
<1>2. PICK h : h = SfdIn[0]
  OBVIOUS
<1>3. /\ stage = "fromLeft" /\ stage' = "onBelt" /\ Hears(h, "RELEASE")
      /\ UNCHANGED <<myBufferSfd, pc>>
  BY <1>1, <1>2 DEF TakeOver, workerVars, ActualSfd
<1>4. h \in Sfds
  <2>1. performing
    BY <1>3 DEF StageParts, Stages
  <2>2. myBufferSfd[0].sfd # Nobody
    BY <2>1 DEF StageParts, NextHasOrder
  <2> QED
    BY <1>1, <1>2, <2>2
<1>5. client[h] = "ready"
  BY <1>2, <1>3 DEF Served
<1>6. client' = [client EXCEPT ![h] = "idle"] /\ strays' = strays
  BY <1>3, <1>4, <1>5, HearsInPlace
<1>7. \A d \in Sfds : client'[d] = IF d = h THEN "idle" ELSE client[d]
  BY <1>6 DEF BufferInv, TypeOK
<1>8. SfdIn' = SfdIn
  BY <1>3 DEF SfdIn
<1>9. pc[h] \notin {"search", "sfd"}
  BY <1>4, <1>5 DEF Askers
<1>10. OrderedOnce'
  BY <1>8 DEF OrderedOnce
<1>11. Askers'
  BY <1>3, <1>7, <1>8, <1>9 DEF Askers
<1>12. InLine'
  <2> SUFFICES ASSUME NEW j \in Slots, SfdIn[j] # Nobody, j # 0
               PROVE  client'[SfdIn[j]] = "asked"
    BY <1>3, <1>8 DEF InLine
  <2>1. SfdIn[j] \in Sfds /\ SfdIn[j] # h
    BY <1>1, <1>2 DEF OrderedOnce
  <2> QED
    BY <1>7, <2>1 DEF InLine
<1>13. Served'
  BY <1>3 DEF Served
<1> QED
  BY <1>6, <1>10, <1>11, <1>12, <1>13, StraysKept

(* The served client leaves the line, the others move up.                  *)
LEMMA CompleteClient ==
  ASSUME BufferInv, ClientInv, Complete
  PROVE  ClientInv'
<1> USE DEF ClientInv
<1>1. stage' = "none" /\ UNCHANGED <<pc, client, strays>>
  BY DEF Complete, workerVars, clientVars
<1>2. \A d \in Sfds : pc[d] # "sfd"
  BY NobodyInside DEF BufferInv, Complete, Holding
<1>3. \A j \in Slots : SfdIn'[j] # Nobody =>
        j + 1 \in Slots /\ j + 1 # 0 /\ SfdIn'[j] = SfdIn[j + 1]
  BY RemovedFromFront, BufferAssumption DEF Slots
<1>4. OrderedOnce'
  <2> SUFFICES ASSUME NEW j \in Slots, NEW k \in Slots,
                      SfdIn'[j] # Nobody, SfdIn'[j] = SfdIn'[k]
               PROVE  j = k
    BY DEF OrderedOnce
  <2>1. j + 1 = k + 1
    BY <1>3 DEF OrderedOnce
  <2> QED
    BY <2>1 DEF Slots
<1>5. InLine'
  BY <1>1, <1>3 DEF InLine
<1>6. Askers'
  <2> SUFFICES ASSUME NEW d \in Sfds, pc[d] = "search"
               PROVE  client[d] = "asked" /\ \A j \in Slots : SfdIn'[j] # d
    BY <1>1, <1>2 DEF Askers
  <2> QED
    BY <1>3, BufferAssumption DEF Askers
<1>7. Served'
  BY <1>1 DEF Served
<1> QED
  BY <1>1, <1>4, <1>5, <1>6, <1>7, StraysKept

(* The steps that touch neither the orders nor who is asking or served.    *)
LEMMA OthersClient ==
  ASSUME BufferInv, ClientInv, SfdIn' = SfdIn,
         \/ AnswerWait \/ HandedOn
         \/ \E c \in Sfds : GiveUp(c) \/ WriteWait(c) \/ WriteIp(c) \/ Give(c) \/ Announce(c)
  PROVE  ClientInv'
<1>1. CASE AnswerWait
  <2>1. client' = client /\ strays' \subseteq strays \cup {"WAIT"} /\ stage' = stage /\ pc' = pc
    BY <1>1, HearsWait DEF AnswerWait, mainVars, workerVars
  <2> QED
    BY <2>1, ClientsKept
<1>2. CASE HandedOn
  <2>1. /\ stage = "onBelt" /\ stage' = "gone"
        /\ client' = client /\ strays' = strays /\ pc' = pc
    BY <1>2 DEF HandedOn, workerVars, clientVars
  <2> QED
    BY <2>1, ClientsKept
<1>3. ASSUME NEW c \in Sfds, WriteWait(c) \/ WriteIp(c) \/ Give(c) \/ Announce(c)
      PROVE  ClientInv'
  <2>1. /\ UNCHANGED <<client, strays, stage>>
        /\ \A d \in Sfds : pc'[d] \in {"search", "sfd"} => pc'[d] = pc[d]
    BY <1>3 DEF WriteWait, WriteIp, Give, Announce, clientVars, mainVars, BufferInv, TypeOK
  <2> QED
    BY <2>1, ClientsKept
<1>4. ASSUME NEW c \in Sfds, GiveUp(c)
      PROVE  ClientInv'
  <2>1. /\ client[c] = "refused" /\ client' = [client EXCEPT ![c] = "idle"]
        /\ UNCHANGED <<pc, stage, strays>>
        /\ \A d \in Sfds : client'[d] = IF d = c THEN "idle" ELSE client[d]
    BY <1>4 DEF GiveUp, workerVars, mainVars, BufferInv, TypeOK
  <2>2. \A d : client[d] \in {"asked", "ready"} => client'[d] = client[d]
    BY <2>1
  <2>3. OrderedOnce' /\ Askers'
    BY <2>1, <2>2 DEF ClientInv, OrderedOnce, Askers
  <2>4. InLine' /\ Served'
    BY <2>1, <2>2 DEF ClientInv, InLine, Served
  <2> QED
    BY <2>1, <2>3, <2>4, StraysKept DEF ClientInv
<1> QED
  BY <1>1, <1>2, <1>3, <1>4

LEMMA ClientStep == IInv /\ ClientInv /\ [Next]_vars => ClientInv'
<1> SUFFICES ASSUME BufferInv, StageParts, ClientInv, [Next]_vars PROVE ClientInv'
  BY DEF IInv, StageParts
<1>1. CASE StartOrder \/ TakeOver \/ Complete \/ \E c \in Sfds : Request(c) \/ Search(c) \/ WriteSfd(c)
  BY <1>1, StartClient, ReleaseClient, CompleteClient, RequestClient, SearchClient, StoreClient
<1>2. CASE ~Complete /\ \A c \in Sfds : ~WriteSfd(c)
  <2>1. SfdIn' = SfdIn
    BY <1>2, OrdersStay
  <2>2. CASE UNCHANGED vars
    BY <2>1, <2>2, ClientsKept DEF vars
  <2>3. CASE \/ AnswerWait \/ HandedOn
             \/ \E c \in Sfds : GiveUp(c) \/ WriteWait(c) \/ WriteIp(c) \/ Give(c) \/ Announce(c)
    BY <2>1, <2>3, OthersClient
  <2> QED
    BY <1>1, <1>2, <2>2, <2>3 DEF Next, WorkerStep, MainStep
<1> QED
  BY <1>1, <1>2

(* For every number of slots, clients and hosts: Ready reaches a client    *)
(* that waits for it, Release one that has had its Ready, and only one     *)
(* that has just asked is refused (systemManager.cpp:409-433, 182-207).    *)
THEOREM AnswersReachTheirClients == Safety => []TransportAnswersInPlace
<1>1. ClientInv => TransportAnswersInPlace
  BY DEF ClientInv
<1> QED
  BY <1>1, ClientInit, ClientStep, Inductive, PTL DEF Safety

-----------------------------------------------------------------------------
(* The waiting line *)

OrdersIn(buf) == [i \in 1 .. Cardinality(Occupied(buf)) |-> buf[i - 1].sfd]

LEMMA OrdersInFront ==
  ASSUME NEW buf, PrefixOccupied(buf)
  PROVE  \E n \in 0 .. N : /\ OrdersIn(buf) = [i \in 1 .. n |-> buf[i - 1].sfd]
                           /\ \A j \in Slots : buf[j].sfd # Nobody <=> j < n
<1> USE BufferAssumption
<1> DEFINE T == (Slots \ Occupied(buf)) \cup {N}
<1>1. T \subseteq Nat /\ T # {}
  BY DEF Slots
<1>2. PICK n \in T : \A y \in T : n <= y
  BY <1>1, Least
<1>3. n \in 0 .. N
  BY <1>2 DEF Slots
<1>4. \A j \in Slots : buf[j].sfd # Nobody <=> j < n
  <2> SUFFICES ASSUME NEW j \in Slots PROVE buf[j].sfd # Nobody <=> j < n
    OBVIOUS
  <2>1. ASSUME j < n PROVE buf[j].sfd # Nobody
    BY <1>2, <1>3, <2>1 DEF Occupied, Slots
  <2>2. ASSUME buf[j].sfd # Nobody, ~(j < n) PROVE FALSE
    <3>1. n \in Slots /\ n < j
      BY <1>2, <1>3, <2>2 DEF Occupied, Slots
    <3>2. buf[n].sfd = Nobody
      BY <1>2, <3>1 DEF Occupied, Slots
    <3> QED
      BY <2>2, <3>1, <3>2 DEF PrefixOccupied
  <2> QED
    BY <2>1, <2>2
<1>5. Occupied(buf) = 0 .. n - 1
  BY <1>3, <1>4 DEF Occupied, Slots
<1>6. Cardinality(Occupied(buf)) = n
  BY <1>3, <1>5, FS_Interval
<1> QED
  BY <1>3, <1>4, <1>6 DEF OrdersIn

LEMMA LineGrows ==
  ASSUME NEW n \in Nat, NEW S, NEW f \in [1 .. n -> S], NEW e \in S
  PROVE  Append(f, e) = [i \in 1 .. n + 1 |-> IF i = n + 1 THEN e ELSE f[i]]
<1>1. f \in Seq(S) /\ Len(f) = n
  OBVIOUS
<1>2. PICK g \in Seq(S) : g = Append(f, e)
  BY <1>1, AppendProperties
<1>3. Len(g) = n + 1 /\ g[n + 1] = e /\ \A i \in 1 .. n : g[i] = f[i]
  BY <1>1, <1>2, AppendProperties
<1>4. g = [i \in 1 .. n + 1 |-> g[i]]
  BY <1>2, <1>3, LenProperties
<1>5. \A i \in 1 .. n + 1 : g[i] = IF i = n + 1 THEN e ELSE f[i]
  BY <1>3
<1> QED
  BY <1>2, <1>4, <1>5

LEMMA LineMoves ==
  ASSUME NEW n \in Nat, NEW S, NEW f \in [1 .. n -> S], n # 0
  PROVE  Tail(f) = [i \in 1 .. n - 1 |-> f[i + 1]]
<1>1. f \in Seq(S) /\ Len(f) = n /\ f # <<>>
  OBVIOUS
<1>2. PICK g \in Seq(S) : g = Tail(f)
  BY <1>1, HeadTailProperties
<1>3. Len(g) = n - 1 /\ \A i \in 1 .. n - 1 : g[i] = f[i + 1]
  BY <1>1, <1>2, HeadTailProperties
<1>4. g \in [1 .. n - 1 -> S]
  BY <1>2, <1>3, LenProperties
<1> QED
  BY <1>2, <1>3, <1>4

(* A step of the desk is a step of the waiting line or leaves it alone.    *)
LEMMA StepRefines == IInv /\ ClientInv /\ IInv' /\ [Next]_vars => [Line!Next]_(Line!vars)
<1> SUFFICES ASSUME IInv, ClientInv, IInv', [Next]_vars PROVE [Line!Next]_(Line!vars)
  OBVIOUS
<1> USE BufferAssumption
<1>1. /\ BufferInv /\ StageParts
      /\ PrefixOccupied(myBufferSfd) /\ PrefixOccupied(myBufferSfd')
  BY DEF IInv, StageParts, BufferInv, BufferIsPrefix, PrefixOccupied
<1>2. /\ 0 \in Slots
      /\ \A j \in Slots : SfdIn[j] = myBufferSfd[j].sfd /\ SfdIn[j] \in Sfds \cup {Nobody}
      /\ \A j \in Slots : SfdIn'[j] = myBufferSfd'[j].sfd
  BY <1>1, SfdsInSlots DEF BufferInv, SfdIn
<1>3. PICK n \in 0 .. N : /\ OrdersIn(myBufferSfd) = [i \in 1 .. n |-> myBufferSfd[i - 1].sfd]
                          /\ \A j \in Slots : myBufferSfd[j].sfd # Nobody <=> j < n
  BY <1>1, OrdersInFront
<1>4. PICK m \in 0 .. N : /\ OrdersIn(myBufferSfd') = [i \in 1 .. m |-> myBufferSfd'[i - 1].sfd]
                          /\ \A j \in Slots : myBufferSfd'[j].sfd # Nobody <=> j < m
  BY <1>1, OrdersInFront
<1>5. Orders = [i \in 1 .. n |-> SfdIn[i - 1]] /\ \A j \in Slots : SfdIn[j] # Nobody <=> j < n
  <2>1. \A i \in 1 .. n : i - 1 \in Slots
    BY DEF Slots
  <2> QED
    BY <1>2, <1>3, <2>1 DEF Orders, OrdersIn
<1>6. Orders' = [i \in 1 .. m |-> SfdIn'[i - 1]] /\ \A j \in Slots : SfdIn'[j] # Nobody <=> j < m
  <2>1. \A i \in 1 .. m : i - 1 \in Slots
    BY DEF Slots
  <2> QED
    BY <1>2, <1>4, <2>1 DEF Orders, OrdersIn
<1>7. Orders \in [1 .. n -> Sfds]
  <2>1. \A i \in 1 .. n : i - 1 \in Slots /\ i - 1 < n
    BY DEF Slots
  <2> QED
    BY <1>2, <1>5, <2>1
<1>8. ASSUME NEW c \in Sfds, WriteSfd(c) PROVE Line!Accept(c)
  <2>1. PICK p : p = at[c]
    OBVIOUS
  <2>2. /\ p \in Slots /\ SfdIn[p] = Nobody
        /\ \A j \in Slots : SfdIn'[j] = IF j = p THEN c ELSE SfdIn[j]
    BY <1>1, <1>8, <2>1, StoredAtPlace
  <2>3. \A j \in Slots : SfdIn[j] # c
    BY <1>8 DEF WriteSfd, ClientInv, Askers
  <2>4. p = n /\ m = n + 1
    <3>1. p >= n /\ p < m
      BY <1>5, <1>6, <2>2 DEF Slots
    <3>2. \A j \in Slots : j # p => (j < m <=> j < n)
      BY <1>5, <1>6, <2>2
    <3> QED
      BY <2>2, <3>1, <3>2 DEF Slots
  <2>5. \A i \in 1 .. n : i - 1 \in Slots /\ i - 1 # p
    BY <2>2, <2>4 DEF Slots
  <2>6. Append(Orders, c) = [i \in 1 .. n + 1 |-> IF i = n + 1 THEN c ELSE Orders[i]]
    BY <1>7, LineGrows
  <2>7. Orders' = Append(Orders, c)
    <3>1. \A i \in 1 .. n + 1 : SfdIn'[i - 1] = IF i = n + 1 THEN c ELSE Orders[i]
      BY <1>5, <2>2, <2>4, <2>5
    <3> QED
      BY <1>6, <2>4, <2>6, <3>1
  <2>8. \A i \in DOMAIN Orders : Orders[i] # c
    BY <1>5, <2>3, <2>5
  <2>9. performing' = performing
    BY <1>8 DEF WriteSfd, mainVars
  <2> QED
    BY <2>7, <2>8, <2>9 DEF Line!Accept
<1>9. CASE Complete
  <2>1. performing /\ performing' = FALSE
    BY <1>9 DEF Complete
  <2>2. n # 0
    BY <1>1, <1>2, <1>5, <2>1 DEF StageParts, NextHasOrder
  <2>3. \A j \in Slots : IF j < N - 1 THEN j + 1 \in Slots /\ SfdIn'[j] = SfdIn[j + 1]
                                      ELSE SfdIn'[j] = Nobody
    BY <1>1, <1>9, RemovedFromFront
  <2>4. m = n - 1
    <3>1. \A j \in Slots : j < m <=> j + 1 < n
      BY <1>5, <1>6, <2>3 DEF Slots
    <3> QED
      BY <2>2, <3>1 DEF Slots
  <2>5. Tail(Orders) = [i \in 1 .. n - 1 |-> Orders[i + 1]]
    <3>1. n \in Nat
      OBVIOUS
    <3> QED
      BY <1>7, <2>2, <3>1, LineMoves, Zenon
  <2>6. \A i \in 1 .. n - 1 : SfdIn'[i - 1] = Orders[i + 1]
    BY <1>5, <2>3 DEF Slots
  <2>7. Orders' = Tail(Orders)
    BY <1>6, <2>4, <2>5, <2>6
  <2> QED
    BY <2>1, <2>7, Zenon DEF Line!Complete, Line!Next
<1>10. CASE ~Complete /\ \A c \in Sfds : ~WriteSfd(c)
  <2>1. SfdIn' = SfdIn
    BY <1>1, <1>10, OrdersStay
  <2>2. n = m
    BY <1>5, <1>6, <2>1 DEF Slots
  <2>3. Orders' = Orders
    BY <1>5, <1>6, <2>1, <2>2
  <2>4. CASE StartOrder
    <3>1. ~performing /\ performing' = TRUE /\ \E i \in 1 .. Len(events) : events[i] = "request"
      BY <1>1, <2>4, TailEvents DEF StartOrder, Event, BufferInv, TypeOK
    <3>2. n # 0
      BY <1>1, <1>2, <1>5, <3>1 DEF StageParts, NextHasOrder
    <3>3. Orders # <<>>
      BY <1>7, <3>2
    <3> QED
      BY <2>3, <3>1, <3>3 DEF Line!Serve, Line!Next
  <2>5. CASE ~StartOrder
    <3>1. performing' = performing
      BY <1>10, <2>5 DEF Next, WorkerStep, MainStep, Request, GiveUp, Search, WriteWait, WriteIp,
         Give, Announce, AnswerWait, TakeOver, HandedOn, mainVars, vars
    <3> QED
      BY <2>3, <3>1 DEF Line!vars
  <2> QED
    BY <2>4, <2>5
<1> QED
  BY <1>8, <1>9, <1>10 DEF Line!Next

(* For every number of slots, clients and hosts: the orders form a waiting *)
(* line in which nobody stands twice; who is accepted joins its end, and   *)
(* only the oldest order is served and removed                             *)
(* (systemManager.cpp:175-211, 584-598).                                   *)
THEOREM OrdersFormLine == Safety => Line!Safety
<1>1. Init => Line!Init
  <2> SUFFICES ASSUME Init PROVE Line!Init
    OBVIOUS
  <2>1. \A j \in Slots : myBufferSfd[j].sfd = Nobody
    BY NewIsFree DEF Init
  <2>2. Occupied(myBufferSfd) = {}
    BY <2>1 DEF Occupied
  <2>3. Orders = <<>>
    BY <2>2, FS_EmptySet DEF Orders
  <2> QED
    BY <2>3 DEF Init, Line!Init
<1> QED
  BY <1>1, ClientInit, ClientStep, Inductive, StepRefines, PTL DEF Safety, Line!Safety
=============================================================================
