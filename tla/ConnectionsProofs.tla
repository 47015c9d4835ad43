-------------------------- MODULE ConnectionsProofs -------------------------
(***************************************************************************)
(* Proofs about Connections for every set of clients, every number of      *)
(* slots and every bound: an answer finds its connection, only failed      *)
(* calls cost slots, and no descriptor is shared unless a call has failed  *)
(* or two workers have connected to the right at once.                     *)
(***************************************************************************)
EXTENDS Connections, FiniteSetTheorems, WellFoundedInduction, TLAPS

-----------------------------------------------------------------------------
(* Bags of worker tasks *)

(* At most one task of the kind K exists. *)
Single(B, K) == \A v, w \in BagToSet(B) : v \in K /\ w \in K => v = w /\ B[w] = 1

One(u) == SetToBag({u})

LEMMA MinusOne ==
  ASSUME NEW B, IsABag(B), NEW w \in BagToSet(B)
  PROVE  /\ IsABag(B (-) One(w))
         /\ BagToSet(B (-) One(w)) \subseteq BagToSet(B)
         /\ \A v \in BagToSet(B) : v # w => v \in BagToSet(B (-) One(w))
         /\ \A v \in BagToSet(B (-) One(w)) : (B (-) One(w))[v] <= B[v]
         /\ B[w] = 1 => w \notin BagToSet(B (-) One(w))
<1> DEFINE D == [e \in DOMAIN B |-> IF e = w THEN B[e] - 1 ELSE B[e]]
<1>1. B (-) One(w) = [e \in {d \in DOMAIN B : D[d] > 0} |-> D[e]]
  BY DEF (-), One, SetToBag
<1>2. \A e \in DOMAIN B : B[e] \in Nat /\ B[e] > 0
  BY DEF IsABag
<1> QED
  BY <1>1, <1>2 DEF IsABag, BagToSet

LEMMA PlusOne ==
  ASSUME NEW B, IsABag(B), NEW u
  PROVE  /\ IsABag(B (+) One(u))
         /\ BagToSet(B (+) One(u)) = BagToSet(B) \cup {u}
         /\ \A v \in BagToSet(B) : v # u => (B (+) One(u))[v] = B[v]
         /\ u \notin BagToSet(B) => (B (+) One(u))[u] = 1
<1>1. B (+) One(u) = [e \in DOMAIN B \cup {u} |-> (IF e \in DOMAIN B THEN B[e] ELSE 0)
                                                + (IF e = u THEN 1 ELSE 0)]
  BY DEF (+), One, SetToBag
<1>2. \A e \in DOMAIN B : B[e] \in Nat /\ B[e] > 0
  BY DEF IsABag
<1> QED
  BY <1>1, <1>2 DEF IsABag, BagToSet
LEMMA SingleLess ==
  ASSUME NEW B, IsABag(B), NEW w \in BagToSet(B), NEW K, Single(B, K)
  PROVE  /\ Single(B (-) One(w), K)
         /\ w \in K => BagToSet(B (-) One(w)) \cap K = {}
<1> DEFINE C == B (-) One(w)
<1>1. /\ IsABag(C) /\ BagToSet(C) \subseteq BagToSet(B)
      /\ \A v \in BagToSet(C) : C[v] <= B[v]
      /\ B[w] = 1 => w \notin BagToSet(C)
  BY MinusOne
<1> HIDE DEF C
<1>2. \A v \in BagToSet(C) : C[v] \in Nat \ {0}
  BY <1>1 DEF IsABag, BagToSet
<1>3. Single(C, K)
  BY <1>1, <1>2 DEF Single
<1>4. w \in K => BagToSet(C) \cap K = {}
  BY <1>1 DEF Single
<1> QED
  BY <1>3, <1>4 DEF C

LEMMA SingleMore ==
  ASSUME NEW B, IsABag(B), NEW u, NEW K, Single(B, K), u \notin K \/ BagToSet(B) \cap K = {}
  PROVE  Single(B (+) One(u), K)
<1> DEFINE C == B (+) One(u)
<1>1. /\ BagToSet(C) = BagToSet(B) \cup {u}
      /\ \A v \in BagToSet(B) : v # u => C[v] = B[v]
      /\ u \notin BagToSet(B) => C[u] = 1
  BY PlusOne
<1> HIDE DEF C
<1>2. Single(C, K)
  BY <1>1 DEF Single
<1> QED
  BY <1>2 DEF C

(* A task that moves on is still the only one of its kind.                 *)
LEMMA SingleSwapped ==
  ASSUME NEW B, IsABag(B), NEW w \in BagToSet(B), NEW u, NEW K, Single(B, K), u \in K => w \in K
  PROVE  Single((B (-) One(w)) (+) One(u), K)
<1> DEFINE C == B (-) One(w)
<1>1. IsABag(C) /\ Single(C, K) /\ (w \in K => BagToSet(C) \cap K = {})
  BY MinusOne, SingleLess
<1> HIDE DEF C
<1>2. Single(C (+) One(u), K)
  BY <1>1, SingleMore
<1> QED
  BY <1>2 DEF C
-----------------------------------------------------------------------------
(* Slots and their tasks *)

Places == {"read", "parse", "start", "free", "close", "flag"} \cup Holding

TaskRecs == [pc : Places, fd : Fds \cup {Failed}, ix : Slots \cup {Readers}]

TypeInv ==
  /\ socket \in [Fds -> Clients \cup {"listening", "new", "right", "gone", "shut"}]
  /\ server \in [pc : {"search", "accept", "spawn"}, ix : Slots]
  /\ FdWorkerTask \in [Slots -> Fds \cup {Failed, Free}]
  /\ workerTaskDelete \in [Slots -> BOOLEAN]
  /\ IsABag(workers) /\ BagToSet(workers) \subseteq TaskRecs
  /\ textBuffer \in BOOLEAN
  /\ client \in [sFd : Fds \cup {Failed}, FdWorkerTask : Fds \cup {Failed}]
  /\ connecting \in [Slots -> Fds \cup {Failed}]
  /\ overlapped \in BOOLEAN /\ accepted \in Nat /\ faults \in Nat

(* The tasks that serve slot s.                                            *)
AtSlot(s) == {w \in TaskRecs : w.ix = s /\ w.pc \notin Ending}

(* A slot has one serving task, which finds its descriptor there; the slot *)
(* the accept loop has found is free and nobody serves it.                 *)
SlotInv ==
  /\ \A s \in Slots : Single(workers, AtSlot(s))
  /\ AnswerFindsConnection
  /\ server.pc = "accept" => FdWorkerTask[server.ix] = Free
  /\ server.pc = "spawn" => /\ FdWorkerTask[server.ix] # Free
                            /\ BagToSet(workers) \cap AtSlot(server.ix) = {}

LEMMA Numbers ==
  /\ Slots \subseteq Nat /\ Fds \subseteq Nat /\ Readers \notin Slots /\ 0 \in Slots /\ sFd \in Fds
  /\ Free \notin Fds /\ Failed \notin Fds /\ Free # Failed /\ Free < -1
  /\ \A f \in Fds \cup {Failed} : ~(f < -1)
BY ConnectionsAssumption DEF Slots, Fds, Readers, Free, Failed, sFd

Less == OpToRel(<, Nat)

(* A set of naturals has a least element. *)
LEMMA LeastNatural ==
  ASSUME NEW S, S \subseteq Nat, S # {}
  PROVE  \E n \in S : \A m \in S : n <= m
<1>1. PICK n \in S : \A m \in S : ~(<<m, n>> \in Less)
  <2>1. IsWellFoundedOn(Less, Nat)
    BY NatLessThanWellFounded DEF Less
  <2> QED
    BY <2>1, WFMin
<1>2. \A m \in S : ~(m < n)
  <2>1. \A x, y \in Nat : <<x, y>> \in Less <=> x < y
    BY DEF Less, OpToRel
  <2> QED
    BY <1>1, <2>1, Zenon
<1> QED
  BY <1>2

LEMMA LowestIsShut ==
  ASSUME FdLeft
  PROVE  LowestFree \in Fds /\ ~Open(LowestFree)
<1>1. Shut \subseteq Nat /\ Shut # {}
  BY Numbers DEF FdLeft, Shut
<1>2. PICK n \in Shut : \A m \in Shut : n <= m
  BY <1>1, LeastNatural
<1>3. LowestFree \in Shut
  BY <1>2 DEF LowestFree, Min
<1> QED
  BY <1>3 DEF Shut

LEMMA LowestSlot ==
  ASSUME \E s \in Slots : FdWorkerTask[s] < -1
  PROVE  /\ Min({s \in Slots : FdWorkerTask[s] < -1}) \in Slots
         /\ FdWorkerTask[Min({s \in Slots : FdWorkerTask[s] < -1})] < -1
<1> DEFINE S == {s \in Slots : FdWorkerTask[s] < -1}
<1>1. S \subseteq Nat /\ S # {}
  BY Numbers
<1>2. PICK n \in S : \A m \in S : n <= m
  <2> HIDE DEF S
  <2> QED
    BY <1>1, LeastNatural
<1>3. Min(S) \in S
  BY <1>2 DEF Min
<1> QED
  BY <1>3

(* What a step of a worker does to the tasks: one ends, or moves on, or    *)
(* moves on and starts a reader.                                           *)
Moved(w, pc) == [pc |-> pc, fd |-> w.fd, ix |-> w.ix]
Reader == [pc |-> "read", fd |-> client.FdWorkerTask, ix |-> Readers]

LEMMA WorkerMoves ==
  ASSUME TypeInv, NEW w \in BagToSet(workers), WorkerStep(w)
  PROVE  /\ w \in TaskRecs
         /\ \/ /\ workers' = workers (-) One(w)
               /\ (w.pc = "close" /\ w.ix = Readers) \/ w.pc = "flag"
            \/ \E pc \in Places :
                 /\ pc \notin Ending => w.pc \notin Ending
                 /\ w.pc # "flag" /\ (w.pc = "close" => pc = "flag")
                 /\ \/ workers' = (workers (-) One(w)) (+) One(Moved(w, pc))
                    \/ /\ Launch(w) /\ pc = "free"
                       /\ workers' = (workers (-) One(w)) (+) One(Moved(w, pc)) (+) One(Reader)
<1>1. w \in TaskRecs
  BY DEF TypeInv
<1>2. CASE CreateSocket(w) \/ LookUp(w) \/ Connected(w) \/ NotConnected(w)
  BY <1>1, <1>2 DEF CreateSocket, LookUp, Connected, NotConnected, Goto, Task, One, Moved, Ending,
                    Places, Holding
<1>3. CASE CloseRefused(w) \/ KeepRefused(w) \/ Launch(w) \/ LaunchFailed(w)
  BY <1>1, <1>3 DEF CloseRefused, KeepRefused, Launch, LaunchFailed, Goto, Task, One, Moved, Reader,
                    Ending, Places, Holding
<1>4. CASE Read(w) \/ ReadEnds(w) \/ Parse(w)
  BY <1>1, <1>4 DEF Read, ReadEnds, Parse, Goto, Task, One, Moved, Ending, Places
<1>5. CASE FreeSlot(w) \/ Close(w) \/ ClearFlag(w)
  BY <1>1, <1>5 DEF FreeSlot, Close, ClearFlag, Ends, Goto, Task, One, Moved, Ending, Places
<1> QED
  BY <1>1, <1>2, <1>3, <1>4, <1>5 DEF WorkerStep, StartClient

(* What tcpClientStart leaves alone. *)
LEMMA ClientOnly ==
  ASSUME NEW w, StartClient(w)
  PROVE  /\ UNCHANGED <<server, FdWorkerTask, textBuffer>>
         /\ faults' \in {faults, faults + 1}
         /\ w.pc \in {"start"} \cup Holding
<1>1. CASE CreateSocket(w) \/ LookUp(w)
  BY <1>1 DEF CreateSocket, LookUp, Fault, Holding
<1>2. CASE Connected(w) \/ NotConnected(w) \/ CloseRefused(w)
  BY <1>2 DEF Connected, NotConnected, CloseRefused, Fault, slotVars, Holding
<1>3. CASE KeepRefused(w) \/ Launch(w) \/ LaunchFailed(w)
  BY <1>3 DEF KeepRefused, Launch, LaunchFailed, Fault, slotVars, Holding
<1> QED
  BY <1>1, <1>2, <1>3 DEF StartClient

LEMMA TasksStayTasks ==
  ASSUME TypeInv, NEW w \in BagToSet(workers), WorkerStep(w)
  PROVE  IsABag(workers') /\ BagToSet(workers') \subseteq TaskRecs
<1>1. IsABag(workers) /\ BagToSet(workers) \subseteq TaskRecs /\ w \in TaskRecs
  BY DEF TypeInv
<1>2. PICK C : C = workers (-) One(w)
  OBVIOUS
<1>3. IsABag(C) /\ BagToSet(C) \subseteq TaskRecs
  BY <1>1, <1>2, MinusOne
<1>4. CASE workers' = C
  BY <1>3, <1>4
<1>5. ASSUME NEW pc \in Places
      PROVE  /\ IsABag(C (+) One(Moved(w, pc)))
             /\ BagToSet(C (+) One(Moved(w, pc))) \subseteq TaskRecs
  <2>1. Moved(w, pc) \in TaskRecs
    BY <1>1 DEF Moved, TaskRecs
  <2> QED
    BY <1>3, <2>1, PlusOne
<1>6. ASSUME NEW pc \in Places
      PROVE  /\ IsABag(C (+) One(Moved(w, pc)) (+) One(Reader))
             /\ BagToSet(C (+) One(Moved(w, pc)) (+) One(Reader)) \subseteq TaskRecs
  <2>1. Reader \in TaskRecs
    BY Numbers DEF Reader, TaskRecs, Places, TypeInv
  <2>2. PICK D : D = C (+) One(Moved(w, pc))
    OBVIOUS
  <2>3. IsABag(D) /\ BagToSet(D) \subseteq TaskRecs
    BY <1>5, <2>2
  <2>4. IsABag(D (+) One(Reader)) /\ BagToSet(D (+) One(Reader)) \subseteq TaskRecs
    BY <2>1, <2>3, PlusOne
  <2> QED
    BY <2>2, <2>4
<1> QED
  BY <1>2, <1>4, <1>5, <1>6, WorkerMoves

LEMMA InitTypes == Init => TypeInv
<1> SUFFICES ASSUME Init PROVE TypeInv
  OBVIOUS
<1>1. IsABag(workers) /\ BagToSet(workers) \subseteq TaskRecs
  BY DEF Init, EmptyBag, SetToBag, IsABag, BagToSet
<1>2. socket \in [Fds -> Clients \cup {"listening", "new", "right", "gone", "shut"}]
  BY DEF Init
<1>3. server \in [pc : {"search", "accept", "spawn"}, ix : Slots]
  BY Numbers DEF Init
<1>4. FdWorkerTask \in [Slots -> Fds \cup {Failed, Free}] /\ workerTaskDelete \in [Slots -> BOOLEAN]
  BY DEF Init
<1>5. faults \in Nat
  BY DEF Init
<1>6. textBuffer \in BOOLEAN /\ overlapped \in BOOLEAN
  BY Zenon DEF Init
<1>7. /\ client \in [sFd : Fds \cup {Failed}, FdWorkerTask : Fds \cup {Failed}]
      /\ connecting \in [Slots -> Fds \cup {Failed}]
  BY DEF Init, NoClient
<1>8. accepted \in Nat
  BY DEF Init
<1> QED
  BY <1>1, <1>2, <1>3, <1>4, <1>5, <1>6, <1>7, <1>8 DEF TypeInv

LEMMA NextTypes == TypeInv /\ SlotInv /\ [Next]_vars => TypeInv'
<1> SUFFICES ASSUME TypeInv, SlotInv, [Next]_vars PROVE TypeInv'
  OBVIOUS
<1> USE Numbers DEF slotVars, clientVars, Closed
<1>1. ASSUME NEW f \in Fds, Leave(f) PROVE TypeInv'
  BY <1>1 DEF Leave, TypeInv
<1>2. CASE SearchSlot
  <2>1. Min({s \in Slots : FdWorkerTask[s] < -1}) \in Slots
    BY <1>2, LowestSlot DEF SearchSlot
  <2> QED
    BY <1>2, <2>1 DEF SearchSlot, TypeInv
<1>3. ASSUME NEW c \in Clients, Accept(c) PROVE TypeInv'
  <2>1. LowestFree \in Fds
    BY <1>3, LowestIsShut DEF Accept
  <2> QED
    BY <1>3, <2>1 DEF Accept, TypeInv
<1>4. CASE AcceptFails
  BY <1>4 DEF AcceptFails, Fault, TypeInv, Failed
<1>5. CASE Spawn
  <2>1. FdWorkerTask[server.ix] \in Fds \cup {Failed}
    BY <1>5 DEF Spawn, SlotInv, TypeInv
  <2>2. Task("read", FdWorkerTask[server.ix], server.ix)
          = One([pc |-> "read", fd |-> FdWorkerTask[server.ix], ix |-> server.ix])
    BY DEF Task, One
  <2>3. [pc |-> "read", fd |-> FdWorkerTask[server.ix], ix |-> server.ix] \in TaskRecs
    BY <2>1 DEF TaskRecs, Places, TypeInv
  <2>4. IsABag(workers') /\ BagToSet(workers') \subseteq TaskRecs
    BY <1>5, <2>2, <2>3, PlusOne DEF Spawn, TypeInv
  <2> QED
    BY <1>5, <2>4 DEF Spawn, TypeInv
<1>6. CASE SpawnFails
  BY <1>6 DEF SpawnFails, Fault, TypeInv
<1>7. ASSUME NEW w \in BagToSet(workers), WorkerStep(w) PROVE TypeInv'
  <2>1. IsABag(workers') /\ BagToSet(workers') \subseteq TaskRecs
    BY <1>7, TasksStayTasks
  <2>2. CASE CreateSocket(w)
    <3>1. FdLeft => LowestFree \in Fds
      BY LowestIsShut
    <3>2. /\ socket' \in [Fds -> Clients \cup {"listening", "new", "right", "gone", "shut"}]
          /\ client' \in [sFd : Fds \cup {Failed}, FdWorkerTask : Fds \cup {Failed}]
      BY <2>2, <3>1 DEF CreateSocket, TypeInv
    <3>3. faults' \in Nat
      BY <2>2 DEF CreateSocket, Fault, TypeInv
    <3>4. workerTaskDelete' \in [Slots -> BOOLEAN]
      BY <2>2 DEF CreateSocket, TypeInv
    <3>5. overlapped' \in BOOLEAN
      BY <2>2, Zenon DEF CreateSocket, TypeInv
    <3> QED
      BY <2>1, <2>2, <3>2, <3>3, <3>4, <3>5 DEF CreateSocket, TypeInv
  <2>3. CASE LookUp(w) \/ LaunchFailed(w) \/ Launch(w)
    <3>1. /\ workerTaskDelete' \in [Slots -> BOOLEAN]
          /\ client' = client \/ client' = NoClient
      BY <2>3 DEF LookUp, LaunchFailed, Launch, Returns, TypeInv
    <3>a. client' \in [sFd : Fds \cup {Failed}, FdWorkerTask : Fds \cup {Failed}]
      BY <3>1 DEF NoClient, TypeInv
    <3>2. /\ socket' \in [Fds -> Clients \cup {"listening", "new", "right", "gone", "shut"}]
          /\ connecting' \in [Slots -> Fds \cup {Failed}]
      BY <2>3 DEF LookUp, LaunchFailed, Launch, TypeInv
    <3>3. faults' \in Nat
      BY <2>3 DEF LookUp, LaunchFailed, Launch, Fault, TypeInv
    <3> QED
      BY <2>1, <2>3, <3>1, <3>a, <3>2, <3>3 DEF LookUp, LaunchFailed, Launch, TypeInv
  <2>4. CASE Connected(w) \/ NotConnected(w)
    <3>1. /\ socket' \in [Fds -> Clients \cup {"listening", "new", "right", "gone", "shut"}]
          /\ client' \in [sFd : Fds \cup {Failed}, FdWorkerTask : Fds \cup {Failed}]
          /\ connecting' \in [Slots -> Fds \cup {Failed}]
      BY <2>4 DEF Connected, NotConnected, TypeInv
    <3>2. faults' \in Nat
      BY <2>4 DEF Connected, NotConnected, Fault, TypeInv
    <3> QED
      BY <2>1, <2>4, <3>1, <3>2 DEF Connected, NotConnected, TypeInv
  <2>5. CASE CloseRefused(w) \/ KeepRefused(w)
    BY <2>1, <2>5 DEF CloseRefused, KeepRefused, TypeInv
  <2>6. CASE Read(w) \/ ReadEnds(w)
    BY <2>1, <2>6 DEF Read, ReadEnds, returnIp, TypeInv
  <2>7. CASE Parse(w)
    <3>1. textBuffer' \in BOOLEAN
      BY <2>7, Zenon DEF Parse
    <3> QED
      BY <2>1, <2>7, <3>1 DEF Parse, TypeInv
  <2>8. CASE FreeSlot(w) \/ Close(w) \/ ClearFlag(w)
    BY <2>1, <2>8 DEF FreeSlot, Close, ClearFlag, TypeInv
  <2> QED
    BY <1>7, <2>2, <2>3, <2>4, <2>5, <2>6, <2>7, <2>8 DEF WorkerStep, StartClient
<1>8. CASE UNCHANGED vars
  BY <1>8 DEF vars, TypeInv
<1> QED
  BY <1>1, <1>2, <1>3, <1>4, <1>5, <1>6, <1>7, <1>8 DEF Next, ServerStep
-----------------------------------------------------------------------------
(* The accept loop and the slots *)

LEMMA InitSlots == Init => SlotInv
BY DEF Init, SlotInv, AnswerFindsConnection, Serving, Single, BagToSet, EmptyBag, SetToBag

(* A free slot has no serving task. *)
LEMMA FreeSlotIdle ==
  ASSUME TypeInv, SlotInv, NEW s \in Slots, FdWorkerTask[s] = Free
  PROVE  BagToSet(workers) \cap AtSlot(s) = {}
<1> SUFFICES ASSUME NEW v \in BagToSet(workers), v \in AtSlot(s)
             PROVE  FALSE
  OBVIOUS
<1>1. v \in Serving /\ v.ix = s /\ v.fd \in Fds \cup {Failed}
  BY Numbers DEF AtSlot, Serving, TaskRecs
<1> QED
  BY <1>1, Numbers DEF SlotInv, AnswerFindsConnection

LEMMA ServingAtSlot ==
  ASSUME TypeInv, NEW v
  PROVE  v \in Serving <=> v \in BagToSet(workers) /\ v.ix \in Slots /\ v \in AtSlot(v.ix)
BY Numbers DEF TypeInv, Serving, AtSlot, TaskRecs

LEMMA LoopKeepsSlots ==
  ASSUME TypeInv, SlotInv,
         SearchSlot \/ (\E c \in Clients : Accept(c)) \/ AcceptFails \/ SpawnFails
  PROVE  SlotInv'
<1> USE DEF slotVars
<1>1. server \in [pc : {"search", "accept", "spawn"}, ix : Slots] /\ workers' = workers
  BY DEF TypeInv, SearchSlot, Accept, AcceptFails, SpawnFails
<1>2. (\A s \in Slots : Single(workers, AtSlot(s)))' /\ Serving' = Serving
  BY <1>1 DEF SlotInv, Single, AtSlot, Serving
<1>3. CASE SearchSlot
  <2>1. /\ server'.ix \in Slots /\ server'.pc = "accept" /\ FdWorkerTask' = FdWorkerTask
        /\ FdWorkerTask[server'.ix] < -1
    BY <1>3, LowestSlot DEF SearchSlot
  <2>2. FdWorkerTask[server'.ix] = Free
    BY <2>1, Numbers DEF TypeInv
  <2> QED
    BY <1>2, <2>1, <2>2 DEF SlotInv, AnswerFindsConnection
<1>4. ASSUME NEW f \in Fds \cup {Failed}, server.pc = "accept",
             FdWorkerTask' = [FdWorkerTask EXCEPT ![server.ix] = f],
             server' = [server EXCEPT !.pc = "spawn"]
      PROVE  SlotInv'
  <2>1. /\ server'.ix = server.ix /\ server'.pc = "spawn" /\ server.ix \in Slots
        /\ FdWorkerTask'[server.ix] = f /\ f # Free
    BY <1>1, <1>4, Numbers DEF TypeInv
  <2>2. BagToSet(workers) \cap AtSlot(server.ix) = {}
    BY <1>4, <2>1, FreeSlotIdle DEF SlotInv
  <2>3. \A v \in Serving : v.ix # server.ix
    BY <2>2, ServingAtSlot
  <2>4. AnswerFindsConnection'
    BY <1>2, <1>4, <2>3 DEF SlotInv, AnswerFindsConnection
  <2>5. (BagToSet(workers) \cap AtSlot(server.ix) = {})'
    BY <1>1, <2>1, <2>2 DEF AtSlot
  <2> QED
    BY <1>2, <2>1, <2>4, <2>5 DEF SlotInv
<1>5. ASSUME NEW c \in Clients, Accept(c)
      PROVE  SlotInv'
  BY <1>4, <1>5, LowestIsShut DEF Accept
<1>6. CASE AcceptFails
  BY <1>4, <1>6 DEF AcceptFails
<1>7. CASE SpawnFails
  <2>1. FdWorkerTask' = FdWorkerTask /\ server'.pc = "search"
    BY <1>1, <1>7 DEF SpawnFails
  <2> QED
    BY <1>2, <2>1 DEF SlotInv, AnswerFindsConnection
<1> QED
  BY <1>3, <1>5, <1>6, <1>7

LEMMA SpawnKeepsSlots ==
  ASSUME TypeInv, SlotInv, Spawn
  PROVE  SlotInv'
<1> DEFINE u == [pc |-> "read", fd |-> FdWorkerTask[server.ix], ix |-> server.ix]
<1>1. /\ server \in [pc : {"search", "accept", "spawn"}, ix : Slots] /\ IsABag(workers)
      /\ FdWorkerTask' = FdWorkerTask /\ server'.pc = "search" /\ server.pc = "spawn"
      /\ workers' = workers (+) One(u)
  BY DEF TypeInv, Spawn, Task, One, slotVars
<1>2. BagToSet(workers) \cap AtSlot(server.ix) = {}
  BY <1>1 DEF SlotInv
<1>3. ASSUME NEW s \in Slots PROVE Single(workers', AtSlot(s))
  <2>1. u \notin AtSlot(s) \/ BagToSet(workers) \cap AtSlot(s) = {}
    BY <1>2 DEF AtSlot
  <2>2. Single(workers, AtSlot(s))
    BY DEF SlotInv
  <2> HIDE DEF u
  <2> QED
    BY <1>1, <2>1, <2>2, SingleMore
<1>4. BagToSet(workers') = BagToSet(workers) \cup {u}
  <2> HIDE DEF u
  <2> QED
    BY <1>1, PlusOne
<1>5. AnswerFindsConnection'
  BY <1>1, <1>4 DEF SlotInv, AnswerFindsConnection, Serving
<1>6. (\A s \in Slots : Single(workers, AtSlot(s)))'
  BY <1>3 DEF AtSlot
<1> QED
  BY <1>1, <1>5, <1>6 DEF SlotInv
(* Who serves a slot after a step of w served it before, or was w.         *)
LEMMA SameServer ==
  ASSUME TypeInv, SlotInv, NEW w \in BagToSet(workers), WorkerStep(w), NEW s \in Slots
  PROVE  /\ Single(workers', AtSlot(s))
         /\ \A v \in BagToSet(workers') \cap AtSlot(s) :
              \/ v \in BagToSet(workers)
              \/ v.fd = w.fd /\ w \in AtSlot(s)
<1>1. /\ IsABag(workers) /\ w \in TaskRecs /\ Single(workers, AtSlot(s))
  BY DEF TypeInv, SlotInv
<1>2. PICK C : C = workers (-) One(w)
  OBVIOUS
<1>3. /\ IsABag(C) /\ Single(C, AtSlot(s)) /\ BagToSet(C) \subseteq BagToSet(workers)
      /\ w \in AtSlot(s) => BagToSet(C) \cap AtSlot(s) = {}
  BY <1>1, <1>2, MinusOne, SingleLess
<1>4. CASE workers' = C
  BY <1>3, <1>4
<1>5. ASSUME NEW pc \in Places, pc \notin Ending => w.pc \notin Ending
      PROVE  \E D : /\ D = C (+) One(Moved(w, pc))
                    /\ IsABag(D) /\ BagToSet(D) = BagToSet(C) \cup {Moved(w, pc)}
                    /\ Moved(w, pc) \in AtSlot(s) => Moved(w, pc).fd = w.fd /\ w \in AtSlot(s)
                    /\ Single(D, AtSlot(s))
  <2>1. Moved(w, pc) \in AtSlot(s) => Moved(w, pc).fd = w.fd /\ w \in AtSlot(s)
    BY <1>1, <1>5 DEF Moved, AtSlot
  <2>2. Single(C (+) One(Moved(w, pc)), AtSlot(s))
    BY <1>3, <2>1, SingleMore
  <2> QED
    BY <1>3, <2>1, <2>2, PlusOne
<1>6. ASSUME NEW D, IsABag(D), Single(D, AtSlot(s))
      PROVE  /\ Single(D (+) One(Reader), AtSlot(s))
             /\ BagToSet(D (+) One(Reader)) \cap AtSlot(s) = BagToSet(D) \cap AtSlot(s)
  <2>1. Reader \notin AtSlot(s)
    BY Numbers DEF Reader, AtSlot
  <2> QED
    BY <1>6, <2>1, SingleMore, PlusOne
<1>7. CASE \E pc \in Places :
             /\ pc \notin Ending => w.pc \notin Ending
             /\ \/ workers' = C (+) One(Moved(w, pc))
                \/ workers' = C (+) One(Moved(w, pc)) (+) One(Reader)
  <2>1. PICK pc \in Places :
             /\ pc \notin Ending => w.pc \notin Ending
             /\ \/ workers' = C (+) One(Moved(w, pc))
                \/ workers' = C (+) One(Moved(w, pc)) (+) One(Reader)
    BY <1>7
  <2>2. PICK D : /\ D = C (+) One(Moved(w, pc))
                 /\ IsABag(D) /\ BagToSet(D) = BagToSet(C) \cup {Moved(w, pc)}
                 /\ Moved(w, pc) \in AtSlot(s) => Moved(w, pc).fd = w.fd /\ w \in AtSlot(s)
                 /\ Single(D, AtSlot(s))
    BY <1>5, <2>1
  <2>3. /\ Single(workers', AtSlot(s))
        /\ BagToSet(workers') \cap AtSlot(s) = BagToSet(D) \cap AtSlot(s)
    BY <1>6, <2>1, <2>2
  <2> QED
    BY <1>3, <2>2, <2>3
<1> QED
  BY <1>2, <1>4, <1>7, WorkerMoves

LEMMA WorkerKeepsSlots ==
  ASSUME TypeInv, SlotInv, NEW w \in BagToSet(workers), WorkerStep(w), TypeInv'
  PROVE  SlotInv'
<1> USE DEF slotVars
<1>1. /\ server' = server /\ server \in [pc : {"search", "accept", "spawn"}, ix : Slots]
      /\ w \in TaskRecs /\ IsABag(workers)
      /\ FdWorkerTask \in [Slots -> Fds \cup {Failed, Free}]
  BY ClientOnly DEF TypeInv, WorkerStep, Read, ReadEnds, Parse, FreeSlot, Close, ClearFlag
<1>2. (\A s \in Slots : Single(workers, AtSlot(s)))'
  <2>1. \A s \in Slots : Single(workers', AtSlot(s))
    BY SameServer
  <2> QED
    BY <2>1 DEF AtSlot
<1>3. server'.pc = "spawn" => BagToSet(workers') \cap AtSlot(server.ix) = {}
  BY <1>1, SameServer DEF SlotInv
<1>4. ASSUME NEW v \in Serving'
      PROVE  v \in BagToSet(workers') /\ v.ix \in Slots /\ v \in AtSlot(v.ix)
  BY <1>4, Numbers DEF TypeInv, Serving, AtSlot, TaskRecs
<1>5. ASSUME NEW s \in Slots, NEW v \in BagToSet(workers), v \in AtSlot(s)
      PROVE  FdWorkerTask[s] = v.fd
  <2>1. v \in Serving /\ v.ix = s
    BY <1>5, Numbers DEF AtSlot, Serving
  <2> QED
    BY <2>1 DEF SlotInv, AnswerFindsConnection
<1>6. CASE FdWorkerTask' = FdWorkerTask
  <2>1. AnswerFindsConnection'
    <3> SUFFICES ASSUME NEW v \in Serving' PROVE FdWorkerTask[v.ix] = v.fd
      BY <1>6 DEF AnswerFindsConnection
    <3> QED
      BY <1>4, <1>5, SameServer
  <2> QED
    BY <1>1, <1>2, <1>3, <1>6, <2>1 DEF SlotInv, AtSlot
<1>7. CASE FreeSlot(w) /\ FdWorkerTask' # FdWorkerTask
  <2>1. /\ w.pc = "free" /\ w.ix \in Slots
        /\ FdWorkerTask' = [FdWorkerTask EXCEPT ![w.ix] = Free]
        /\ workers' = (workers (-) One(w)) (+) One(Moved(w, "close"))
    BY <1>1, <1>7 DEF FreeSlot, Goto, Task, One, Moved
  <2>2. w \in AtSlot(w.ix)
    BY <1>1, <2>1 DEF AtSlot, Ending
  <2>3. PICK C : C = workers (-) One(w)
    OBVIOUS
  <2>4. IsABag(C) /\ BagToSet(C) \subseteq BagToSet(workers) /\ BagToSet(C) \cap AtSlot(w.ix) = {}
    BY <1>1, <2>1, <2>2, <2>3, MinusOne, SingleLess DEF SlotInv
  <2>5. BagToSet(workers') = BagToSet(C) \cup {Moved(w, "close")}
    BY <2>1, <2>3, <2>4, PlusOne
  <2>6. AnswerFindsConnection'
    <3> SUFFICES ASSUME NEW v \in Serving' PROVE FdWorkerTask'[v.ix] = v.fd
      BY DEF AnswerFindsConnection
    <3>1. v # Moved(w, "close")
      BY DEF Serving, Moved, Ending
    <3>2. v \in BagToSet(C) /\ v.ix # w.ix
      BY <1>4, <2>4, <2>5, <3>1
    <3>3. FdWorkerTask[v.ix] = v.fd
      BY <1>4, <1>5, <2>4, <3>2
    <3> QED
      BY <1>1, <1>4, <2>1, <3>2, <3>3
  <2>7. server.pc = "accept" => FdWorkerTask'[server.ix] = Free
    BY <1>1, <2>1 DEF SlotInv
  <2>8. server.pc = "spawn" => FdWorkerTask'[server.ix] # Free
    <3>1. server.pc = "spawn" => w.ix # server.ix
      BY <2>2 DEF SlotInv
    <3> QED
      BY <1>1, <2>1, <3>1 DEF SlotInv
  <2> QED
    BY <1>1, <1>2, <1>3, <2>6, <2>7, <2>8 DEF SlotInv, AtSlot
<1> QED
  BY <1>6, <1>7, ClientOnly DEF WorkerStep, Read, ReadEnds, Parse, Close, ClearFlag

LEMMA SlotStep == TypeInv /\ SlotInv /\ [Next]_vars => TypeInv' /\ SlotInv'
<1> SUFFICES ASSUME TypeInv, SlotInv, [Next]_vars, TypeInv' PROVE SlotInv'
  BY NextTypes
<1>1. CASE (\E f \in Fds : Leave(f)) \/ UNCHANGED vars
  BY <1>1 DEF Leave, vars, slotVars, SlotInv, AnswerFindsConnection, Serving, Single, AtSlot
<1>2. CASE ServerStep
  BY <1>2, LoopKeepsSlots, SpawnKeepsSlots DEF ServerStep
<1>3. ASSUME NEW w \in BagToSet(workers), WorkerStep(w) PROVE SlotInv'
  BY <1>3, WorkerKeepsSlots
<1> QED
  BY <1>1, <1>2, <1>3 DEF Next

LEMMA SlotsAlways == Spec => [](TypeInv /\ SlotInv)
BY InitTypes, InitSlots, SlotStep, PTL DEF Spec

(* For every set of clients, every number of slots and whatever fails:     *)
(* while a worker serves a connection its slot holds the descriptor, so    *)
(* that TcpServer::sendMsg finds it (TcpServer.cpp:59-78).                 *)
THEOREM AnswersFindConnections == Spec => []AnswerFindsConnection
<1>1. SlotInv => AnswerFindsConnection
  BY DEF SlotInv
<1> QED
  BY <1>1, SlotsAlways, PTL
-----------------------------------------------------------------------------
(* Lost slots *)

Busy == {v.ix : v \in Serving}

(* A slot loses its server when the server sets it free, not otherwise.    *)
LEMMA ServersStay ==
  ASSUME TypeInv, NEW w \in BagToSet(workers), WorkerStep(w), NEW s \in Busy \cap Slots,
         ~(FreeSlot(w) /\ w.ix = s)
  PROVE  s \in Busy'
<1>1. IsABag(workers) /\ w \in TaskRecs
  BY DEF TypeInv
<1>2. PICK v \in BagToSet(workers) : v.ix = s /\ v.ix # Readers /\ v.pc \notin Ending
  BY DEF Busy, Serving
<1>3. PICK C : C = workers (-) One(w)
  OBVIOUS
<1>4. IsABag(C) /\ (v # w => v \in BagToSet(C))
  BY <1>1, <1>3, MinusOne
<1>5. ASSUME NEW pc, workers' = C (+) One(Moved(w, pc))
      PROVE  /\ Moved(w, pc) \in BagToSet(workers')
             /\ BagToSet(C) \subseteq BagToSet(workers')
  BY <1>4, <1>5, PlusOne
<1>6. ASSUME NEW pc, workers' = C (+) One(Moved(w, pc)) (+) One(Reader)
      PROVE  /\ Moved(w, pc) \in BagToSet(workers')
             /\ BagToSet(C) \subseteq BagToSet(workers')
  <2>1. PICK D : D = C (+) One(Moved(w, pc))
    OBVIOUS
  <2>2. IsABag(D) /\ Moved(w, pc) \in BagToSet(D) /\ BagToSet(C) \subseteq BagToSet(D)
    BY <1>4, <2>1, PlusOne
  <2> QED
    BY <1>6, <2>1, <2>2, PlusOne
<1>7. CASE v # w
  <2>1. BagToSet(C) \subseteq BagToSet(workers')
    BY <1>3, <1>5, <1>6, WorkerMoves
  <2>2. v \in BagToSet(workers')
    BY <1>4, <1>7, <2>1
  <2> QED
    BY <1>2, <2>2 DEF Busy, Serving
<1>8. CASE v = w
  <2>1. w.ix = s /\ w.ix # Readers /\ w.pc \notin Ending
    BY <1>2, <1>8
  <2>2. \E pc \in Places \ Ending :
          \/ workers' = C (+) One(Moved(w, pc))
          \/ workers' = C (+) One(Moved(w, pc)) (+) One(Reader)
    <3>1. CASE StartClient(w)
      <4>1. CASE CreateSocket(w) \/ LookUp(w) \/ Connected(w) \/ NotConnected(w)
        BY <1>3, <4>1 DEF CreateSocket, LookUp, Connected, NotConnected, Goto, Task, One, Moved,
                          Ending, Places, Holding
      <4>2. CASE CloseRefused(w) \/ KeepRefused(w) \/ Launch(w) \/ LaunchFailed(w)
        BY <1>3, <4>2 DEF CloseRefused, KeepRefused, Launch, LaunchFailed, Goto, Task, One, Moved,
                          Reader, Ending, Places, Holding
      <4> QED
        BY <3>1, <4>1, <4>2 DEF StartClient
    <3>2. CASE Read(w) \/ ReadEnds(w) \/ Parse(w)
      BY <1>3, <2>1, <3>2 DEF Read, ReadEnds, Parse, Goto, Task, One, Moved, Ending, Places
    <3>3. ~Close(w) /\ ~ClearFlag(w) /\ ~FreeSlot(w)
      BY <1>8, <2>1 DEF Close, ClearFlag, Ending
    <3> QED
      BY <3>1, <3>2, <3>3 DEF WorkerStep
  <2>3. PICK pc \in Places \ Ending : Moved(w, pc) \in BagToSet(workers')
    BY <1>5, <1>6, <2>2
  <2>4. Moved(w, pc).ix = s /\ Moved(w, pc).pc \notin Ending
    BY <2>1 DEF Moved, Ending
  <2> QED
    BY <2>1, <2>3, <2>4 DEF Busy, Serving
<1> QED
  BY <1>7, <1>8

(* A step loses no slot, or one and a call fails.                          *)
LEMMA LossCosts ==
  ASSUME TypeInv, SlotInv, TypeInv', [Next]_vars
  PROVE  \/ Lost' \subseteq Lost /\ faults' \in {faults, faults + 1}
         \/ \E s \in Slots : Lost' \subseteq Lost \cup {s} /\ faults' = faults + 1
<1> USE DEF slotVars
<1>1. server \in [pc : {"search", "accept", "spawn"}, ix : Slots]
  BY DEF TypeInv
<1>2. \A s : s \in Lost <=> /\ s \in Slots /\ FdWorkerTask[s] # Free /\ s \notin Busy
                            /\ server # [pc |-> "spawn", ix |-> s]
  BY DEF Lost, Busy
<1>3. \A s : s \in Lost' <=> /\ s \in Slots /\ FdWorkerTask'[s] # Free /\ s \notin Busy'
                             /\ server' # [pc |-> "spawn", ix |-> s]
  BY DEF Lost, Busy
<1>4. CASE (\E f \in Fds : Leave(f)) \/ UNCHANGED vars
  BY <1>4 DEF Leave, vars, Lost, Serving
<1>5. CASE SearchSlot \/ (\E c \in Clients : Accept(c)) \/ AcceptFails
  <2>1. Busy' = Busy /\ faults' \in {faults, faults + 1}
    BY <1>5 DEF SearchSlot, Accept, AcceptFails, Fault, Busy, Serving
  <2>2. \/ FdWorkerTask' = FdWorkerTask /\ server.pc = "search"
        \/ /\ \E f : FdWorkerTask' = [FdWorkerTask EXCEPT ![server.ix] = f]
           /\ server' = [pc |-> "spawn", ix |-> server.ix] /\ server.pc = "accept"
    BY <1>1, <1>5 DEF SearchSlot, Accept, AcceptFails
  <2>3. \A s \in Slots : server' # [pc |-> "spawn", ix |-> s] => FdWorkerTask'[s] = FdWorkerTask[s]
    BY <1>1, <2>2 DEF TypeInv
  <2>4. Lost' \subseteq Lost
    BY <1>2, <1>3, <2>1, <2>2, <2>3
  <2> QED
    BY <2>1, <2>4
<1>6. CASE Spawn
  <2>1. /\ FdWorkerTask' = FdWorkerTask /\ faults' = faults /\ server.pc = "spawn"
        /\ server = [pc |-> "spawn", ix |-> server.ix]
    BY <1>1, <1>6 DEF Spawn
  <2>2. PICK u : /\ u.ix = server.ix /\ u.pc = "read"
                 /\ workers' = workers (+) One(u)
    BY <1>6 DEF Spawn, Task, One
  <2>3. BagToSet(workers') = BagToSet(workers) \cup {u}
    BY <2>2, PlusOne DEF TypeInv
  <2>4. Busy \subseteq Busy'
    BY <2>3 DEF Busy, Serving
  <2>5. server.ix \in Busy'
    BY <1>1, <2>2, <2>3, Numbers DEF Busy, Serving, Ending
  <2>6. Lost' \subseteq Lost
    BY <1>2, <1>3, <2>1, <2>4, <2>5
  <2> QED
    BY <2>1, <2>6
<1>7. CASE SpawnFails
  <2>1. /\ FdWorkerTask' = FdWorkerTask /\ faults' = faults + 1 /\ Busy' = Busy
    BY <1>7 DEF SpawnFails, Fault, Busy, Serving
  <2>2. Lost' \subseteq Lost \cup {server.ix}
    BY <1>2, <1>3, <2>1
  <2> QED
    BY <1>1, <2>1, <2>2
<1>8. ASSUME NEW w \in BagToSet(workers), WorkerStep(w)
      PROVE  Lost' \subseteq Lost /\ faults' \in {faults, faults + 1}
  <2>1. server' = server /\ faults' \in {faults, faults + 1}
    BY <1>8, ClientOnly DEF WorkerStep, Read, ReadEnds, Parse, FreeSlot, Close, ClearFlag
  <2>2. \A s \in Busy \cap Slots : s \notin Busy' => FreeSlot(w) /\ w.ix = s
    BY <1>8, ServersStay
  <2>3. CASE FreeSlot(w)
    <3>1. w.ix \in Slots => FdWorkerTask'[w.ix] = Free
      <4>1. w.ix \in Slots => w \in Serving
        BY <2>3, Numbers DEF FreeSlot, Serving, Ending
      <4> QED
        BY <2>3, <4>1 DEF FreeSlot, SlotInv, AnswerFindsConnection, TypeInv
    <3>2. \A s \in Slots : s # w.ix => FdWorkerTask'[s] = FdWorkerTask[s]
      BY <2>3 DEF FreeSlot, TypeInv
    <3> QED
      BY <1>2, <1>3, <2>1, <2>2, <3>1, <3>2
  <2>4. CASE ~FreeSlot(w)
    <3>1. FdWorkerTask' = FdWorkerTask
      BY <1>8, <2>4, ClientOnly DEF WorkerStep, Read, ReadEnds, Parse, Close, ClearFlag
    <3> QED
      BY <1>2, <1>3, <2>1, <2>2, <2>4, <3>1
  <2> QED
    BY <2>3, <2>4
<1> QED
  BY <1>4, <1>5, <1>6, <1>7, <1>8 DEF Next, ServerStep

LEMMA LostFinite == Slots \in SUBSET Nat /\ IsFiniteSet(Lost) /\ Cardinality(Lost) \in Nat
<1>1. IsFiniteSet(Slots)
  BY FS_Interval, ConnectionsAssumption DEF Slots
<1>2. Lost \subseteq Slots
  BY DEF Lost
<1> QED
  BY <1>1, <1>2, Numbers, FS_Subset, FS_CardinalityType

(* For every set of clients, every number of slots and every sequence of   *)
(* connections: not more slots are lost than calls have failed             *)
(* (TcpServer.cpp:131-143, 173-176).                                       *)
THEOREM FailuresCostSlots == Spec => []OnlyFailuresCostSlots
<1>1. Init => OnlyFailuresCostSlots
  <2> SUFFICES ASSUME Init PROVE OnlyFailuresCostSlots
    OBVIOUS
  <2>1. Lost = {}
    BY DEF Init, Lost
  <2> QED
    BY <2>1, FS_EmptySet DEF OnlyFailuresCostSlots, Init
<1>2. TypeInv /\ SlotInv /\ TypeInv' /\ OnlyFailuresCostSlots /\ [Next]_vars => OnlyFailuresCostSlots'
  <2> SUFFICES ASSUME TypeInv, SlotInv, TypeInv', OnlyFailuresCostSlots, [Next]_vars
               PROVE  OnlyFailuresCostSlots'
    OBVIOUS
  <2>1. IsFiniteSet(Lost) /\ Cardinality(Lost) \in Nat /\ faults \in Nat /\ Cardinality(Lost) <= faults
    BY LostFinite DEF OnlyFailuresCostSlots, TypeInv
  <2>2. CASE Lost' \subseteq Lost /\ faults' \in {faults, faults + 1}
    <3>1. Cardinality(Lost') <= Cardinality(Lost) /\ Cardinality(Lost') \in Nat
      BY <2>1, <2>2, FS_Subset, FS_CardinalityType
    <3> QED
      BY <2>1, <2>2, <3>1 DEF OnlyFailuresCostSlots
  <2>3. ASSUME NEW s \in Slots, Lost' \subseteq Lost \cup {s}, faults' = faults + 1
        PROVE  OnlyFailuresCostSlots'
    <3>1. /\ IsFiniteSet(Lost \cup {s})
          /\ Cardinality(Lost \cup {s}) \in {Cardinality(Lost), Cardinality(Lost) + 1}
      BY <2>1, FS_AddElement
    <3>2. Cardinality(Lost') <= Cardinality(Lost \cup {s}) /\ Cardinality(Lost') \in Nat
      BY <2>3, <3>1, FS_Subset, FS_CardinalityType
    <3> QED
      BY <2>1, <2>3, <3>1, <3>2 DEF OnlyFailuresCostSlots
  <2> QED
    BY <2>2, <2>3, LossCosts
<1> QED
  BY <1>1, <1>2, SlotsAlways, PTL DEF Spec
-----------------------------------------------------------------------------
(* Descriptors and their tasks *)

(* The tasks that read from descriptor f or will close it.                 *)
On(f) == {w \in TaskRecs : w.fd = f /\ w.pc # "flag"}

Unused(f) == Open(f) /\ f # sFd /\ BagToSet(workers) \cap On(f) = {}

(* As long as nothing has failed the descriptor of every task, and the one *)
(* a task is about to be spawned for, is an open connection with no other  *)
(* task, so that nobody closes the number of somebody else's.              *)
FdInv ==
  /\ socket[sFd] = "listening"
  /\ \A f \in Fds : Single(workers, On(f))
  /\ \A w \in BagToSet(workers) : w.pc # "flag" => Open(w.fd) /\ w.fd # sFd
  /\ server.pc = "spawn" => Unused(FdWorkerTask[server.ix])

(* The tasks that have a socket for the TcpClient, and the socket.         *)
Inside == {w \in TaskRecs : w.pc \in Holding}
Held(w) == IF w.pc = "launch" THEN client.FdWorkerTask ELSE client.sFd

HoldsOne(w) ==
  /\ w.pc \in {"lookup", "connect", "launch"}
  /\ Unused(Held(w))
  /\ server.pc = "spawn" => FdWorkerTask[server.ix] # Held(w)
  /\ w.pc # "launch" => socket[client.sFd] = "new"
  /\ w.pc = "connect" => connecting[w.ix] = client.sFd

(* As long as no two workers have been in tcpClientStart at once the one   *)
(* that is there finds in the members what it has put there: a socket that *)
(* no task has yet.                                                        *)
ClientInv ==
  /\ Single(workers, Inside)
  /\ \A w \in BagToSet(workers) : w.pc \notin {"read", "close"} => w.ix \in Slots
  /\ \A w \in Starters : HoldsOne(w)

FdInvUnlessFault == faults = 0 /\ ~overlapped => FdInv /\ ClientInv

LEMMA InitFds == Init => FdInvUnlessFault
BY Numbers DEF Init, FdInvUnlessFault, FdInv, ClientInv, Starters, Single, BagToSet, EmptyBag, SetToBag

(* A descriptor that is given away has no task yet, and nobody holds it.   *)
LEMMA LowestUnused ==
  ASSUME TypeInv, FdInv, FdLeft
  PROVE  /\ LowestFree \in Fds /\ LowestFree # sFd /\ ~Open(LowestFree)
         /\ BagToSet(workers) \cap On(LowestFree) = {}
<1>1. LowestFree \in Fds /\ ~Open(LowestFree)
  BY LowestIsShut
<1>2. Open(sFd)
  BY Numbers DEF FdInv, Open
<1>3. BagToSet(workers) \cap On(LowestFree) = {}
  BY <1>1 DEF FdInv, On
<1> QED
  BY <1>1, <1>2, <1>3

(* What is open stays so, but for the descriptor c.                        *)
Opens(c) == /\ \A f \in Fds : Open(f) /\ f # c => Open(f)'
            /\ socket'[sFd] = "listening"

(* A step of the accept loop or of a connection's other end.               *)
LoopStep == ServerStep \/ \E f \in Fds : Leave(f)

(* It leaves the tasks alone, or spawns one for the descriptor of its slot.*)
LEMMA LoopOpens ==
  ASSUME TypeInv, FdInv, faults = 0, faults' = 0, LoopStep
  PROVE  /\ Opens(Failed) /\ UNCHANGED clientVars
         /\ \A f \in Fds : socket[f] = "new" => socket'[f] = "new"
         /\ \/ workers' = workers /\ server' = server /\ FdWorkerTask' = FdWorkerTask
            \/ workers' = workers /\ server'.pc = "accept"
            \/ /\ workers' = workers
               /\ \E g \in Fds : FdWorkerTask'[server'.ix] = g /\ Unused(g)' /\ ~Open(g)
            \/ Spawn
<1> USE DEF slotVars
<1>1. /\ server \in [pc : {"search", "accept", "spawn"}, ix : Slots]
      /\ socket \in [Fds -> Clients \cup {"listening", "new", "right", "gone", "shut"}]
      /\ FdWorkerTask \in [Slots -> Fds \cup {Failed, Free}]
      /\ socket[sFd] = "listening" /\ sFd \in Fds
  BY Numbers DEF TypeInv, FdInv
<1>2. ASSUME NEW f \in Fds, Leave(f)
      PROVE  /\ Opens(Failed) /\ UNCHANGED clientVars
             /\ \A g \in Fds : socket[g] = "new" => socket'[g] = "new"
             /\ UNCHANGED <<workers, server, FdWorkerTask>>
  <2>1. socket[f] \notin {"new", "listening"} /\ socket' = [socket EXCEPT ![f] = "gone"]
    BY <1>2, ConnectionsAssumption DEF Leave
  <2> QED
    BY <1>1, <1>2, <2>1 DEF Leave, Opens, Open
<1>3. CASE SearchSlot
  BY <1>1, <1>3 DEF SearchSlot, Opens, Open
<1>4. ASSUME NEW c \in Clients, Accept(c)
      PROVE  /\ Opens(Failed) /\ UNCHANGED clientVars
             /\ \A f \in Fds : socket[f] = "new" => socket'[f] = "new"
             /\ workers' = workers
             /\ \E g \in Fds : FdWorkerTask'[server'.ix] = g /\ Unused(g)' /\ ~Open(g)
  <2>1. PICK g : g = LowestFree
    OBVIOUS
  <2>2. g \in Fds /\ g # sFd /\ ~Open(g) /\ BagToSet(workers) \cap On(g) = {}
    BY <1>4, <2>1, LowestUnused DEF Accept
  <2>3. /\ socket' = [socket EXCEPT ![g] = c] /\ FdWorkerTask' = [FdWorkerTask EXCEPT ![server.ix] = g]
        /\ server' = [server EXCEPT !.pc = "spawn"] /\ workers' = workers /\ UNCHANGED clientVars
        /\ c # "shut"
    BY <1>4, <2>1, ConnectionsAssumption DEF Accept
  <2>4. FdWorkerTask'[server'.ix] = g
    BY <1>1, <2>3
  <2>5. Opens(Failed) /\ \A f \in Fds : socket[f] = "new" => socket'[f] = "new"
    BY <1>1, <2>2, <2>3 DEF Opens, Open
  <2>6. Unused(g)'
    BY <1>1, <2>2, <2>3 DEF Unused, Open, On
  <2> QED
    BY <2>2, <2>3, <2>4, <2>5, <2>6
<1>5. CASE AcceptFails \/ SpawnFails
  BY <1>1, <1>5 DEF AcceptFails, SpawnFails, Fault
<1>6. CASE Spawn
  BY <1>1, <1>6 DEF Spawn, Opens, Open
<1> QED
  BY <1>2, <1>3, <1>4, <1>5, <1>6, Zenon DEF LoopStep, ServerStep

LEMMA LoopKeepsFds ==
  ASSUME TypeInv, FdInv, faults = 0, faults' = 0, LoopStep, ~Spawn
  PROVE  FdInv'
<1>1. /\ Opens(Failed) /\ workers' = workers
      /\ \/ server' = server /\ FdWorkerTask' = FdWorkerTask
         \/ server'.pc = "accept"
         \/ \E g \in Fds : FdWorkerTask'[server'.ix] = g /\ Unused(g)' /\ ~Open(g)
  BY LoopOpens
<1>2. \A f \in Fds : Open(f) => Open(f)'
  BY <1>1, Numbers DEF Opens
<1>3. /\ (\A f \in Fds : Single(workers, On(f)))'
      /\ \A w \in BagToSet(workers') : w.pc # "flag" => Open(w.fd)' /\ w.fd # sFd
      /\ socket'[sFd] = "listening"
  BY <1>1, <1>2 DEF FdInv, Single, On, Opens, Open
<1>4. PICK g : g = FdWorkerTask'[server'.ix]
  OBVIOUS
<1>5. server'.pc = "spawn" => Unused(g)'
  <2>1. CASE server' = server /\ FdWorkerTask' = FdWorkerTask
    <3>1. server.pc = "spawn" => Unused(g)
      BY <1>4, <2>1 DEF FdInv
    <3> QED
      BY <1>1, <1>2, <2>1, <3>1 DEF Unused, Open, On
  <2> QED
    BY <1>1, <1>4, <2>1
<1> QED
  BY <1>3, <1>4, <1>5 DEF FdInv, Unused, Open, On

LEMMA SpawnKeepsFds ==
  ASSUME TypeInv, FdInv, Spawn
  PROVE  FdInv'
<1> DEFINE g == FdWorkerTask[server.ix]
           u == [pc |-> "read", fd |-> g, ix |-> server.ix]
<1>1. /\ IsABag(workers) /\ socket' = socket /\ server'.pc = "search" /\ server.pc = "spawn"
      /\ workers' = workers (+) One(u)
  BY DEF TypeInv, Spawn, Task, One
<1>2. Open(g) /\ g # sFd /\ BagToSet(workers) \cap On(g) = {}
  BY <1>1 DEF FdInv, Unused
<1>3. u.fd = g
  OBVIOUS
<1> HIDE DEF u, g
<1>4. BagToSet(workers') = BagToSet(workers) \cup {u}
  BY <1>1, PlusOne
<1>5. ASSUME NEW f \in Fds PROVE Single(workers', On(f))
  <2>1. u \notin On(f) \/ BagToSet(workers) \cap On(f) = {}
    BY <1>2, <1>3 DEF On
  <2> QED
    BY <1>1, <2>1, SingleMore DEF FdInv
<1>6. (\A f \in Fds : Single(workers, On(f)))'
  BY <1>5 DEF On
<1>7. \A w \in BagToSet(workers') : w.pc # "flag" => Open(w.fd) /\ w.fd # sFd
  BY <1>2, <1>3, <1>4 DEF FdInv
<1> QED
  BY <1>1, <1>6, <1>7 DEF FdInv, Open

LEMMA LoopKeepsClient ==
  ASSUME TypeInv, FdInv, ClientInv, faults = 0, faults' = 0, LoopStep, ~Spawn
  PROVE  ClientInv'
<1>1. /\ Opens(Failed) /\ workers' = workers /\ UNCHANGED clientVars
      /\ \A f \in Fds : socket[f] = "new" => socket'[f] = "new"
      /\ \/ server' = server /\ FdWorkerTask' = FdWorkerTask
         \/ server'.pc = "accept"
         \/ \E g \in Fds : FdWorkerTask'[server'.ix] = g /\ ~Open(g)
  BY LoopOpens
<1>2. \A f \in Fds : Open(f) => Open(f)'
  BY <1>1, Numbers DEF Opens
<1>3. Starters' = Starters
  BY <1>1 DEF Starters
<1>4. ASSUME NEW v \in Starters
      PROVE  HoldsOne(v)'
  <2>1. PICK h : h = Held(v)
    OBVIOUS
  <2>2. /\ HoldsOne(v) /\ Open(h) /\ h \in Fds /\ h # sFd /\ BagToSet(workers) \cap On(h) = {}
        /\ server.pc = "spawn" => FdWorkerTask[server.ix] # h
    BY <2>1 DEF ClientInv, HoldsOne, Unused, Open
  <2>3. server'.pc = "spawn" => FdWorkerTask'[server'.ix] # h
    BY <1>1, <2>2
  <2>4. Open(h)' /\ BagToSet(workers') \cap On(h) = {}
    BY <1>1, <1>2, <2>2
  <2>5. socket[client.sFd] = "new" /\ client.sFd \in Fds => socket'[client.sFd] = "new"
    BY <1>1
  <2>6. v.pc # "launch" => client.sFd \in Fds /\ socket'[client.sFd] = "new"
    BY <2>1, <2>2, <2>5 DEF Held, HoldsOne
  <2>7. Held(v)' = h /\ client' = client /\ connecting' = connecting
    BY <1>1, <2>1 DEF Held, clientVars
  <2> QED
    BY <2>2, <2>3, <2>4, <2>6, <2>7 DEF HoldsOne, Unused, On, Open
<1> QED
  BY <1>1, <1>3, <1>4 DEF ClientInv, Single, Inside

LEMMA SpawnKeepsClient ==
  ASSUME TypeInv, FdInv, ClientInv, Spawn
  PROVE  ClientInv'
<1> DEFINE g == FdWorkerTask[server.ix]
           u == [pc |-> "read", fd |-> g, ix |-> server.ix]
<1>1. /\ IsABag(workers) /\ socket' = socket /\ server'.pc = "search" /\ server.pc = "spawn"
      /\ workers' = workers (+) One(u) /\ client' = client /\ connecting' = connecting
  BY DEF TypeInv, Spawn, Task, One, clientVars
<1>2. u.fd = g /\ u.pc = "read" /\ u \notin Inside
  BY DEF Inside, Holding
<1>3. \A v \in Starters : HoldsOne(v) /\ g # Held(v)
  BY <1>1 DEF ClientInv, HoldsOne
<1> HIDE DEF u, g
<1>4. BagToSet(workers') = BagToSet(workers) \cup {u}
  BY <1>1, PlusOne
<1>5. Single(workers', Inside)
  BY <1>1, <1>2, SingleMore DEF ClientInv
<1>6. Starters' = Starters
  BY <1>2, <1>4 DEF Starters, Holding
<1>7. ASSUME NEW v \in Starters PROVE HoldsOne(v)'
  <2>1. PICK h : h = Held(v)
    OBVIOUS
  <2>2. HoldsOne(v) /\ Open(h) /\ h # sFd /\ BagToSet(workers) \cap On(h) = {} /\ g # h
    BY <1>3, <2>1 DEF HoldsOne, Unused
  <2>3. BagToSet(workers') \cap On(h) = {}
    BY <1>2, <1>4, <2>2 DEF On
  <2>4. Held(v)' = h /\ Open(h)'
    BY <1>1, <2>1, <2>2 DEF Held, Open
  <2> QED
    BY <1>1, <2>2, <2>3, <2>4 DEF HoldsOne, Unused, On, Open
<1>8. \A w \in BagToSet(workers') : w.pc \notin {"read", "close"} => w.ix \in Slots
  BY <1>2, <1>4 DEF ClientInv
<1>9. Single(workers, Inside)'
  BY <1>5 DEF Inside
<1> QED
  BY <1>6, <1>7, <1>8, <1>9 DEF ClientInv

(* What D, the tasks after a step of w but for a new reader, is: w moves on*)
(* to one of the places P, or ends.                                        *)
Remaining(D, w, P) ==
  \/ D = workers (-) One(w)
  \/ \E pc \in P :
       /\ D = (workers (-) One(w)) (+) One(Moved(w, pc))
       /\ w.pc # "flag" /\ (w.pc = "close" => pc = "flag")

(* They share no descriptor; one that w closes has no task any more.       *)
LEMMA RemainingApart ==
  ASSUME TypeInv, FdInv, NEW w \in BagToSet(workers), NEW D, NEW P \in SUBSET Places, Remaining(D, w, P)
  PROVE  /\ IsABag(D)
         /\ \A f \in Fds : /\ Single(D, On(f))
                           /\ BagToSet(workers) \cap On(f) = {} => BagToSet(D) \cap On(f) = {}
         /\ \A v \in BagToSet(D) : v.pc # "flag" => /\ Open(v.fd) /\ v.fd # sFd
                                                    /\ w.pc = "close" => v.fd # w.fd
<1>1. IsABag(workers) /\ w \in TaskRecs /\ BagToSet(workers) \subseteq TaskRecs
  BY DEF TypeInv
<1>2. PICK C : C = workers (-) One(w)
  OBVIOUS
<1>3. /\ IsABag(C) /\ BagToSet(C) \subseteq BagToSet(workers)
      /\ \A f \in Fds : Single(C, On(f)) /\ (w \in On(f) => BagToSet(C) \cap On(f) = {})
  BY <1>1, <1>2, MinusOne, SingleLess DEF FdInv
<1>4. w.pc # "flag" => w.fd \in Fds /\ w.fd # sFd /\ w \in On(w.fd) /\ Open(w.fd)
  BY <1>1 DEF FdInv, Open, On
<1>5. ASSUME NEW v \in BagToSet(C), v.pc # "flag"
      PROVE  Open(v.fd) /\ v.fd # sFd /\ (w.pc = "close" => v.fd # w.fd)
  <2>1. Open(v.fd) /\ v.fd # sFd /\ v \in TaskRecs
    BY <1>1, <1>3, <1>5 DEF FdInv
  <2>2. w.pc = "close" => v.fd # w.fd
    BY <1>3, <1>4, <1>5, <2>1 DEF On
  <2> QED
    BY <2>1, <2>2
<1>6. CASE D = C
  BY <1>3, <1>5, <1>6
<1>7. ASSUME NEW pc \in P, D = C (+) One(Moved(w, pc)),
             w.pc # "flag", w.pc = "close" => pc = "flag"
      PROVE  /\ IsABag(D)
             /\ \A f \in Fds : /\ Single(D, On(f))
                               /\ BagToSet(workers) \cap On(f) = {} => BagToSet(D) \cap On(f) = {}
             /\ \A v \in BagToSet(D) : v.pc # "flag" => /\ Open(v.fd) /\ v.fd # sFd
                                                        /\ w.pc = "close" => v.fd # w.fd
  <2>1. PICK u : u = Moved(w, pc)
    OBVIOUS
  <2>2. u.fd = w.fd /\ u.pc = pc /\ \A f \in Fds : u \in On(f) => w \in On(f)
    BY <1>1, <1>7, <2>1 DEF Moved, On
  <2>3. D = C (+) One(u)
    BY <1>7, <2>1
  <2>4. IsABag(D) /\ BagToSet(D) = BagToSet(C) \cup {u}
    BY <1>3, <2>3, PlusOne
  <2>5. ASSUME NEW f \in Fds
        PROVE  /\ Single(D, On(f))
               /\ BagToSet(workers) \cap On(f) = {} => BagToSet(D) \cap On(f) = {}
    BY <1>3, <2>2, <2>3, <2>4, SingleMore
  <2>6. \A v \in BagToSet(D) : v.pc # "flag" => /\ Open(v.fd) /\ v.fd # sFd
                                                /\ w.pc = "close" => v.fd # w.fd
    BY <1>4, <1>5, <1>7, <2>2, <2>4
  <2> QED
    BY <2>4, <2>5, <2>6
<1> QED
  BY <1>2, <1>6, <1>7 DEF Remaining

(* Who is in tcpClientStart after the step was there before, or is w.      *)
LEMMA RemainingInside ==
  ASSUME TypeInv, ClientInv, NEW w \in BagToSet(workers), NEW D, NEW P \in SUBSET Places, Remaining(D, w, P),
         P \cap Holding = {} \/ w.pc \in Holding \/ Starters = {}
  PROVE  /\ Single(D, Inside) /\ IsABag(D)
         /\ BagToSet(D) \subseteq BagToSet(workers) \cup {Moved(w, pc) : pc \in P}
         /\ w \in Starters => \A v \in BagToSet(D) : v.pc \in Holding => v \in {Moved(w, pc) : pc \in P}
<1>1. IsABag(workers) /\ w \in TaskRecs /\ BagToSet(workers) \subseteq TaskRecs /\ Single(workers, Inside)
  BY DEF TypeInv, ClientInv
<1>2. PICK C : C = workers (-) One(w)
  OBVIOUS
<1>3. /\ IsABag(C) /\ BagToSet(C) \subseteq BagToSet(workers)
      /\ Single(C, Inside) /\ (w \in Inside => BagToSet(C) \cap Inside = {})
  BY <1>1, <1>2, MinusOne, SingleLess
<1>4. /\ w \in Starters <=> w \in Inside
      /\ \A v \in BagToSet(C) : v \in Inside <=> v.pc \in Holding
      /\ Starters = {} => BagToSet(C) \cap Inside = {}
  BY <1>1, <1>3 DEF Starters, Inside
<1>5. CASE D = C
  BY <1>3, <1>4, <1>5
<1>6. ASSUME NEW pc \in P, D = C (+) One(Moved(w, pc))
      PROVE  /\ Single(D, Inside) /\ IsABag(D)
             /\ BagToSet(D) = BagToSet(C) \cup {Moved(w, pc)}
  <2>1. PICK u : u = Moved(w, pc)
    OBVIOUS
  <2>2. u.pc = pc
    BY <2>1 DEF Moved
  <2>3. u \notin Inside \/ BagToSet(C) \cap Inside = {}
    BY <1>1, <1>3, <1>4, <2>2 DEF Inside
  <2> QED
    BY <1>3, <1>6, <2>1, <2>3, PlusOne, SingleMore
<1>7. CASE \E pc \in P : D = C (+) One(Moved(w, pc))
  BY <1>3, <1>4, <1>6, <1>7
<1> QED
  BY <1>2, <1>5, <1>7 DEF Remaining

(* The steps of a worker outside tcpClientStart.                           *)
LEMMA OutsideStep ==
  ASSUME TypeInv, NEW w \in BagToSet(workers), WorkerStep(w), ~StartClient(w)
  PROVE  /\ Remaining(workers', w, Places \ Holding)
         /\ socket' = IF w.pc = "close" THEN Closed(w.fd) ELSE socket
         /\ UNCHANGED clientVars /\ w.pc \notin Holding
<1>1. CASE Read(w) \/ ReadEnds(w) \/ Parse(w)
  <2>1. \E pc \in {"read", "parse", "start", "free", "close"} :
          workers' = (workers (-) One(w)) (+) One(Moved(w, pc))
    BY <1>1 DEF Read, ReadEnds, Parse, Goto, Task, One, Moved
  <2>2. w.pc \notin {"flag", "close"} \cup Holding /\ socket' = socket /\ UNCHANGED clientVars
    BY <1>1 DEF Read, ReadEnds, Parse, Holding
  <2> QED
    BY <2>1, <2>2 DEF Remaining, Places, Holding
<1>2. CASE FreeSlot(w)
  <2>1. /\ w.pc = "free" /\ socket' = socket /\ UNCHANGED clientVars
        /\ workers' = (workers (-) One(w)) (+) One(Moved(w, "close"))
    BY <1>2 DEF FreeSlot, Goto, Task, One, Moved
  <2> QED
    BY <2>1 DEF Remaining, Places, Holding
<1>3. CASE Close(w)
  <2>1. /\ w.pc = "close" /\ socket' = Closed(w.fd) /\ UNCHANGED clientVars
        /\ \/ workers' = workers (-) One(w)
           \/ workers' = (workers (-) One(w)) (+) One(Moved(w, "flag"))
    BY <1>3 DEF Close, Ends, Goto, Task, One, Moved
  <2> QED
    BY <2>1 DEF Remaining, Places, Holding
<1>4. CASE ClearFlag(w)
  BY <1>4 DEF ClearFlag, Ends, One, Remaining, Holding
<1> QED
  BY <1>1, <1>2, <1>3, <1>4 DEF WorkerStep

(* No step of a worker touches the slot a task is about to be spawned for. *)
LEMMA SpawnSlotStays ==
  ASSUME TypeInv, SlotInv, NEW w \in BagToSet(workers), WorkerStep(w)
  PROVE  /\ server' = server
         /\ server.pc = "spawn" => FdWorkerTask'[server.ix] = FdWorkerTask[server.ix]
<1>1. server' = server
  BY ClientOnly DEF WorkerStep, Read, ReadEnds, Parse, FreeSlot, Close, ClearFlag, slotVars
<1>2. ASSUME server.pc = "spawn"
      PROVE  FdWorkerTask'[server.ix] = FdWorkerTask[server.ix]
  <2>1. /\ server.ix \in Slots /\ BagToSet(workers) \cap AtSlot(server.ix) = {} /\ w \in TaskRecs
        /\ FdWorkerTask \in [Slots -> Fds \cup {Failed, Free}]
    BY <1>2 DEF SlotInv, TypeInv
  <2>2. FreeSlot(w) => w.ix # server.ix
    BY <2>1 DEF FreeSlot, AtSlot, Ending
  <2> QED
    BY <1>2, <2>1, <2>2, ClientOnly DEF WorkerStep, Read, ReadEnds, Parse, FreeSlot, Close, ClearFlag, slotVars
<1> QED
  BY <1>1, <1>2

(* The descriptors after a step of a worker: those of the tasks that       *)
(* remain, and of a new reader if its descriptor has had no task.          *)
LEMMA RemainingKeepsFds ==
  ASSUME TypeInv, SlotInv, FdInv, NEW w \in BagToSet(workers), WorkerStep(w),
         NEW P \in SUBSET Places, NEW D, Remaining(D, w, P),
         Opens(IF w.pc = "close" THEN w.fd ELSE Failed),
         \/ workers' = D
         \/ /\ workers' = D (+) One(Reader) /\ Unused(Reader.fd) /\ w.pc # "close"
            /\ server.pc = "spawn" => FdWorkerTask[server.ix] # Reader.fd
  PROVE  FdInv'
<1>1. /\ IsABag(D)
      /\ \A f \in Fds : /\ Single(D, On(f))
                        /\ BagToSet(workers) \cap On(f) = {} => BagToSet(D) \cap On(f) = {}
      /\ \A v \in BagToSet(D) : v.pc # "flag" => /\ Open(v.fd) /\ v.fd # sFd
                                                 /\ w.pc = "close" => v.fd # w.fd
  BY RemainingApart
<1>2. \A f : Open(f) /\ (w.pc = "close" => f # w.fd) => Open(f)'
  BY Numbers DEF Opens, Open
<1>3. /\ server' = server
      /\ server.pc = "spawn" => FdWorkerTask'[server.ix] = FdWorkerTask[server.ix]
  BY SpawnSlotStays
<1>4. PICK h : h = FdWorkerTask[server.ix]
  OBVIOUS
<1>5. server.pc = "spawn" => Open(h) /\ h # sFd /\ h \in Fds /\ BagToSet(workers) \cap On(h) = {}
  BY <1>4 DEF FdInv, Unused, Open
<1>6. w.pc = "close" => w.fd \in Fds /\ w \in On(w.fd)
  BY DEF FdInv, On, TypeInv, Open
<1>7. server.pc = "spawn" => Open(h)'
  BY <1>2, <1>5, <1>6
<1>8. CASE workers' = D
  <2>1. (\A f \in Fds : Single(workers, On(f)))'
    BY <1>1, <1>8 DEF On
  <2>2. \A v \in BagToSet(workers') : v.pc # "flag" => Open(v.fd)' /\ v.fd # sFd
    BY <1>1, <1>2, <1>8
  <2>3. server.pc = "spawn" => BagToSet(workers') \cap On(h) = {}
    BY <1>1, <1>5, <1>8
  <2> QED
    BY <1>3, <1>4, <1>5, <1>7, <2>1, <2>2, <2>3 DEF FdInv, Unused, On, Open, Opens
<1>9. CASE /\ workers' = D (+) One(Reader) /\ Unused(Reader.fd) /\ w.pc # "close"
           /\ server.pc = "spawn" => FdWorkerTask[server.ix] # Reader.fd
  <2>1. PICK r : r = Reader
    OBVIOUS
  <2>2. /\ BagToSet(workers') = BagToSet(D) \cup {r} /\ Open(r.fd) /\ r.fd \in Fds /\ r.fd # sFd
        /\ BagToSet(workers) \cap On(r.fd) = {}
    BY <1>1, <1>9, <2>1, PlusOne DEF Unused, Open
  <2>3. ASSUME NEW f \in Fds PROVE Single(workers', On(f))
    <3>1. r \notin On(f) \/ BagToSet(D) \cap On(f) = {}
      BY <1>1, <2>2 DEF On
    <3> QED
      BY <1>1, <1>9, <2>1, <3>1, SingleMore
  <2>4. (\A f \in Fds : Single(workers, On(f)))'
    BY <2>3 DEF On
  <2>5. \A v \in BagToSet(workers') : v.pc # "flag" => Open(v.fd)' /\ v.fd # sFd
    BY <1>1, <1>2, <1>9, <2>2
  <2>6. server.pc = "spawn" => BagToSet(workers') \cap On(h) = {}
    <3>1. server.pc = "spawn" => r \notin On(h)
      BY <1>4, <1>9, <2>1 DEF On
    <3> QED
      BY <1>1, <1>5, <2>2, <3>1
  <2> QED
    BY <1>3, <1>4, <1>5, <1>7, <2>4, <2>5, <2>6 DEF FdInv, Unused, On, Open, Opens
<1> QED
  BY <1>8, <1>9

(* What remains of tcpClientStart when no call fails and one worker at a   *)
(* time is there.                                                          *)
Creates(w) ==
  /\ w.pc = "start" /\ Starters = {} /\ FdLeft /\ Remaining(workers', w, {"lookup"})
  /\ socket' = [socket EXCEPT ![LowestFree] = "new"]
  /\ client' = [client EXCEPT !.sFd = LowestFree] /\ connecting' = connecting

HasNone(w) ==
  /\ w.pc = "start" /\ Starters = {} /\ Remaining(workers', w, {"free"}) /\ socket' = socket

Finds(w) ==
  /\ w.pc = "lookup" /\ Remaining(workers', w, {"connect"}) /\ socket' = socket /\ client' = client
  /\ connecting' = [connecting EXCEPT ![w.ix] = client.sFd]

Connects(w) ==
  /\ w.pc = "connect" /\ Remaining(workers', w, {"launch"})
  /\ socket' = [socket EXCEPT ![client.sFd] = "right"]
  /\ client' = [client EXCEPT !.FdWorkerTask = client.sFd]

Starts(w) ==
  /\ w.pc = "launch" /\ socket' = socket
  /\ \E D : Remaining(D, w, {"free"}) /\ workers' = D (+) One(Reader)

(* The only one in tcpClientStart finds its own socket.                    *)
LEMMA OnlyStarter ==
  ASSUME TypeInv, ClientInv, NEW w \in Starters
  PROVE  HoldsOne(w) /\ Starters = {w} /\ w \in TaskRecs
BY DEF TypeInv, ClientInv, Single, Starters, Inside

LEMMA InsideStep ==
  ASSUME TypeInv, ClientInv, NEW w \in BagToSet(workers), StartClient(w),
         faults = 0, faults' = 0, ~overlapped'
  PROVE  Creates(w) \/ HasNone(w) \/ Finds(w) \/ Connects(w) \/ Starts(w)
<1>1. faults' # faults + 1
  OBVIOUS
<1>2. CASE CreateSocket(w)
  <2>1. w.pc = "start" /\ Starters = {} /\ connecting' = connecting
    BY <1>2 DEF CreateSocket
  <2>2. CASE /\ FdLeft /\ socket' = [socket EXCEPT ![LowestFree] = "new"]
             /\ client' = [client EXCEPT !.sFd = LowestFree] /\ Goto(w, "lookup")
    BY <2>1, <2>2 DEF Creates, Remaining, Goto, Task, One, Moved
  <2>3. CASE Goto(w, "free") /\ socket' = socket
    BY <2>1, <2>3 DEF HasNone, Remaining, Goto, Task, One, Moved
  <2> QED
    BY <1>2, <2>2, <2>3 DEF CreateSocket
<1>3. ASSUME w.pc \in Holding
      PROVE  HoldsOne(w) /\ Starters = {w} /\ w \in TaskRecs
  BY <1>3, OnlyStarter DEF Starters
<1>4. CASE LookUp(w)
  BY <1>1, <1>4 DEF LookUp, Fault, Finds, Remaining, Goto, Task, One, Moved
<1>5. CASE Connected(w)
  <2>1. connecting[w.ix] = client.sFd
    BY <1>3, <1>5 DEF Connected, Holding, HoldsOne
  <2> QED
    BY <1>5, <2>1 DEF Connected, Connects, Remaining, Goto, Task, One, Moved
<1>6. CASE NotConnected(w)
  <2>1. w.pc = "connect" /\ HoldsOne(w) /\ Starters = {w}
    BY <1>3, <1>6 DEF NotConnected, Holding
  <2>2. connecting[w.ix] = client.sFd /\ Open(client.sFd) /\ socket[client.sFd] = "new"
    BY <2>1 DEF HoldsOne, Unused, Held
  <2> QED
    BY <1>1, <1>6, <2>1, <2>2 DEF NotConnected, Fault
<1>7. CASE CloseRefused(w) \/ KeepRefused(w) \/ LaunchFailed(w)
  BY <1>3, <1>7 DEF CloseRefused, KeepRefused, LaunchFailed, Holding, HoldsOne
<1>8. CASE Launch(w)
  <2>1. /\ w.pc = "launch" /\ socket' = socket
        /\ workers' = (workers (-) One(w)) (+) One(Moved(w, "free")) (+) One(Reader)
    BY <1>1, <1>8 DEF Launch, Fault, Task, One, Moved, Reader
  <2>2. PICK D : D = (workers (-) One(w)) (+) One(Moved(w, "free"))
    OBVIOUS
  <2>3. Remaining(D, w, {"free"}) /\ workers' = D (+) One(Reader)
    BY <2>1, <2>2 DEF Remaining
  <2> QED
    BY <2>1, <2>3 DEF Starts
<1> QED
  BY <1>2, <1>4, <1>5, <1>6, <1>7, <1>8 DEF StartClient

LEMMA WorkerKeepsFds ==
  ASSUME TypeInv, SlotInv, FdInv, ClientInv, NEW w \in BagToSet(workers), WorkerStep(w),
         faults = 0, faults' = 0, ~overlapped'
  PROVE  FdInv'
<1>1. /\ socket \in [Fds -> Clients \cup {"listening", "new", "right", "gone", "shut"}]
      /\ socket[sFd] = "listening" /\ sFd \in Fds /\ w \in TaskRecs
  BY Numbers DEF TypeInv, FdInv
<1>2. CASE ~StartClient(w)
  <2>1. Remaining(workers', w, Places \ Holding) /\ socket' = IF w.pc = "close" THEN Closed(w.fd) ELSE socket
    BY <1>2, OutsideStep
  <2>2. w.pc = "close" => w.fd # sFd
    BY DEF FdInv
  <2>3. Opens(IF w.pc = "close" THEN w.fd ELSE Failed)
    BY <1>1, <2>1, <2>2 DEF Opens, Open, Closed
  <2> QED
    BY <2>1, <2>3, RemainingKeepsFds, Zenon
<1>3. CASE Creates(w) /\ StartClient(w)
  <2>1. LowestFree # sFd
    BY <1>3, LowestUnused DEF Creates
  <2>2. Remaining(workers', w, {"lookup"}) /\ w.pc # "close" /\ Opens(Failed)
    BY <1>1, <1>3, <2>1 DEF Creates, Opens, Open
  <2> QED
    BY <2>2, RemainingKeepsFds DEF Places, Holding
<1>4. CASE HasNone(w) /\ StartClient(w)
  <2>1. Remaining(workers', w, {"free"}) /\ w.pc # "close" /\ Opens(Failed)
    BY <1>1, <1>4 DEF HasNone, Opens, Open
  <2> QED
    BY <2>1, RemainingKeepsFds DEF Places, Holding
<1>5. CASE Finds(w) /\ StartClient(w)
  <2>1. Remaining(workers', w, {"connect"}) /\ w.pc # "close" /\ Opens(Failed)
    BY <1>1, <1>5 DEF Finds, Opens, Open
  <2> QED
    BY <2>1, RemainingKeepsFds DEF Places, Holding
<1>6. ASSUME w.pc \in {"connect", "launch"}
      PROVE  Unused(Held(w)) /\ (server.pc = "spawn" => FdWorkerTask[server.ix] # Held(w))
  <2>1. HoldsOne(w)
    BY <1>6, OnlyStarter DEF Starters, Holding
  <2> QED
    BY <2>1 DEF HoldsOne
<1>7. CASE Connects(w) /\ StartClient(w)
  <2>1. client.sFd # sFd
    BY <1>6, <1>7 DEF Connects, Held, Unused
  <2>2. Remaining(workers', w, {"launch"}) /\ w.pc # "close" /\ Opens(Failed)
    BY <1>1, <1>7, <2>1 DEF Connects, Opens, Open
  <2> QED
    BY <2>2, RemainingKeepsFds DEF Places, Holding
<1>8. CASE Starts(w) /\ StartClient(w)
  <2>1. PICK D : Remaining(D, w, {"free"}) /\ workers' = D (+) One(Reader)
    BY <1>8 DEF Starts
  <2>2. /\ Unused(Reader.fd)
        /\ server.pc = "spawn" => FdWorkerTask[server.ix] # Reader.fd
    BY <1>6, <1>8 DEF Starts, Held, Reader
  <2>3. w.pc # "close" /\ Opens(Failed)
    BY <1>1, <1>8 DEF Starts, Opens, Open
  <2> QED
    BY <2>1, <2>2, <2>3, RemainingKeepsFds DEF Places, Holding
<1> QED
  BY <1>2, <1>3, <1>4, <1>5, <1>7, <1>8, InsideStep

(* Only the worker in tcpClientStart, and no reader, has left read and     *)
(* close.                                                                  *)
LEMMA SlotsOfTasks ==
  ASSUME TypeInv, ClientInv, NEW w \in BagToSet(workers), WorkerStep(w),
         NEW v \in BagToSet(workers'), v.pc \notin {"read", "close"}
  PROVE  v.ix \in Slots
<1>1. IsABag(workers) /\ w \in TaskRecs /\ \A u \in BagToSet(workers) : u.pc \notin {"read", "close"} => u.ix \in Slots
  BY DEF TypeInv, ClientInv
<1>2. PICK C : C = workers (-) One(w)
  OBVIOUS
<1>3. IsABag(C) /\ BagToSet(C) \subseteq BagToSet(workers)
  BY <1>1, <1>2, MinusOne
<1>4. ASSUME NEW pc, pc \in {"read", "close"} \/ w.ix \in Slots, workers' = C (+) One(Moved(w, pc))
      PROVE  v.ix \in Slots
  <2>1. BagToSet(workers') = BagToSet(C) \cup {Moved(w, pc)}
    BY <1>3, <1>4, PlusOne
  <2> QED
    BY <1>1, <1>3, <1>4, <2>1 DEF Moved
<1>5. ASSUME NEW pc, w.ix \in Slots, workers' = C (+) One(Moved(w, pc)) (+) One(Reader)
      PROVE  v.ix \in Slots
  <2>1. PICK D : D = C (+) One(Moved(w, pc))
    OBVIOUS
  <2>2. IsABag(D) /\ BagToSet(D) = BagToSet(C) \cup {Moved(w, pc)}
    BY <1>3, <2>1, PlusOne
  <2>3. BagToSet(workers') = BagToSet(D) \cup {Reader}
    BY <1>5, <2>1, <2>2, PlusOne
  <2> QED
    BY <1>1, <1>3, <1>5, <2>2, <2>3 DEF Moved, Reader
<1>6. w.ix # Readers => w.ix \in Slots
  BY <1>1 DEF TaskRecs
<1>7. CASE workers' = C
  BY <1>1, <1>3, <1>7
<1>8. CASE w.pc \notin {"read", "close"}
  BY <1>1, <1>2, <1>4, <1>5, <1>7, <1>8, WorkerMoves
<1>9. CASE w.pc \in {"read", "close"}
  <2>1. Read(w) \/ ReadEnds(w) \/ Close(w)
    BY <1>9, ClientOnly DEF WorkerStep, Parse, FreeSlot, ClearFlag, Holding
  <2>2. workers' = C \/ \E pc : /\ workers' = C (+) One(Moved(w, pc))
                                /\ pc \in {"read", "close"} \/ w.ix \in Slots
    BY <1>2, <1>6, <2>1 DEF Read, ReadEnds, Close, Goto, Ends, Task, One, Moved
  <2> QED
    BY <1>4, <1>7, <2>2
<1> QED
  BY <1>8, <1>9

LEMMA OutsideKeepsClient ==
  ASSUME TypeInv, SlotInv, FdInv, ClientInv, NEW w \in BagToSet(workers), WorkerStep(w), ~StartClient(w)
  PROVE  Single(workers', Inside) /\ \A v \in Starters' : HoldsOne(v)'
<1>1. /\ Remaining(workers', w, Places \ Holding)
      /\ socket' = IF w.pc = "close" THEN Closed(w.fd) ELSE socket
      /\ client' = client /\ connecting' = connecting
  BY OutsideStep DEF clientVars
<1>2. /\ Single(workers', Inside)
      /\ BagToSet(workers') \subseteq BagToSet(workers) \cup {Moved(w, pc) : pc \in Places \ Holding}
  BY <1>1, RemainingInside
<1>3. \A v \in Starters' : v \in Starters
  BY <1>2 DEF Starters, Moved
<1>4. \A f \in Fds : BagToSet(workers) \cap On(f) = {} => BagToSet(workers') \cap On(f) = {}
  BY <1>1, RemainingApart
<1>5. w.pc = "close" => w.fd \in Fds /\ w \in On(w.fd)
  BY DEF FdInv, On, TypeInv, Open
<1>6. socket \in [Fds -> Clients \cup {"listening", "new", "right", "gone", "shut"}]
  BY DEF TypeInv
<1>7. ASSUME NEW v \in Starters PROVE HoldsOne(v)'
  <2>1. PICK h : h = Held(v)
    OBVIOUS
  <2>2. /\ HoldsOne(v) /\ Open(h) /\ h \in Fds /\ h # sFd /\ BagToSet(workers) \cap On(h) = {}
        /\ server.pc = "spawn" => FdWorkerTask[server.ix] # h
    BY <2>1 DEF ClientInv, HoldsOne, Unused, Open
  <2>3. socket'[h] = socket[h]
    BY <1>1, <1>5, <1>6, <2>2 DEF Closed
  <2>4. Open(h)' /\ BagToSet(workers') \cap On(h) = {}
    BY <1>4, <2>2, <2>3 DEF Open
  <2>5. server'.pc = "spawn" => FdWorkerTask'[server'.ix] # h
    BY <2>2, SpawnSlotStays
  <2>6. v.pc # "launch" => socket'[client.sFd] = "new"
    BY <2>1, <2>2, <2>3 DEF Held, HoldsOne
  <2>7. Held(v)' = h
    BY <1>1, <2>1 DEF Held
  <2> QED
    BY <1>1, <2>2, <2>4, <2>5, <2>6, <2>7 DEF HoldsOne, Unused, On, Open
<1> QED
  BY <1>2, <1>3, <1>7

(* In tcpClientStart: w moves on to pc and holds the socket h there.       *)
LEMMA MovesOnHolding ==
  ASSUME TypeInv, SlotInv, FdInv, ClientInv, NEW w \in BagToSet(workers), WorkerStep(w),
         w \in Starters \/ Starters = {}, NEW pc \in {"lookup", "connect", "launch"},
         Remaining(workers', w, {pc}), NEW h \in Fds,
         h = IF pc = "launch" THEN client'.FdWorkerTask ELSE client'.sFd,
         Open(h)', h # sFd, BagToSet(workers) \cap On(h) = {},
         server.pc = "spawn" => FdWorkerTask[server.ix] # h,
         pc # "launch" => socket'[h] = "new",
         pc = "connect" => connecting'[w.ix] = h
  PROVE  Single(workers', Inside) /\ \A v \in Starters' : HoldsOne(v)'
<1>1. /\ Single(workers', Inside)
      /\ \A v \in BagToSet(workers') : v.pc \in Holding => v = Moved(w, pc)
  <2>1. /\ Single(workers', Inside)
        /\ BagToSet(workers') \subseteq BagToSet(workers) \cup {Moved(w, q) : q \in {pc}}
        /\ w \in Starters => \A v \in BagToSet(workers') : v.pc \in Holding => v \in {Moved(w, q) : q \in {pc}}
    BY RemainingInside DEF Starters, Places, Holding
  <2> QED
    BY <2>1 DEF Starters
<1>2. BagToSet(workers') \cap On(h) = {}
  BY RemainingApart DEF Places, Holding
<1>3. server'.pc = "spawn" => FdWorkerTask'[server'.ix] # h
  BY SpawnSlotStays
<1>4. ASSUME NEW v \in Starters' PROVE HoldsOne(v)'
  <2>1. v = Moved(w, pc)
    BY <1>1 DEF Starters
  <2>2. v.pc = pc /\ v.ix = w.ix
    BY <2>1 DEF Moved
  <2>3. Held(v)' = h
    BY <2>2 DEF Held
  <2> QED
    BY <1>2, <1>3, <2>2, <2>3 DEF HoldsOne, Unused, On, Open
<1> QED
  BY <1>1, <1>4

LEMMA InsideKeepsClient ==
  ASSUME TypeInv, SlotInv, FdInv, ClientInv, NEW w \in BagToSet(workers), WorkerStep(w), StartClient(w),
         faults = 0, faults' = 0, ~overlapped'
  PROVE  Single(workers', Inside) /\ \A v \in Starters' : HoldsOne(v)'
<1>1. /\ socket \in [Fds -> Clients \cup {"listening", "new", "right", "gone", "shut"}]
      /\ client \in [sFd : Fds \cup {Failed}, FdWorkerTask : Fds \cup {Failed}]
      /\ connecting \in [Slots -> Fds \cup {Failed}] /\ w \in TaskRecs
  BY DEF TypeInv
<1>2. CASE Creates(w)
  <2>1. PICK h : h = LowestFree
    OBVIOUS
  <2>2. h \in Fds /\ h # sFd /\ ~Open(h) /\ BagToSet(workers) \cap On(h) = {}
    BY <1>2, <2>1, LowestUnused DEF Creates
  <2>3. server.pc = "spawn" => FdWorkerTask[server.ix] # h
    BY <2>2 DEF FdInv, Unused
  <2>4. socket'[h] = "new" /\ client'.sFd = h /\ Open(h)'
    BY <1>1, <1>2, <2>1, <2>2 DEF Creates, Open
  <2> QED
    BY <1>2, <2>2, <2>3, <2>4, MovesOnHolding DEF Creates
<1>3. CASE HasNone(w)
  <2>1. /\ Single(workers', Inside)
        /\ BagToSet(workers') \subseteq BagToSet(workers) \cup {Moved(w, q) : q \in {"free"}}
    BY <1>3, RemainingInside DEF HasNone, Places, Holding
  <2>2. Starters' = {}
    BY <1>3, <2>1 DEF HasNone, Starters, Moved, Holding
  <2> QED
    BY <2>1, <2>2
<1>4. ASSUME w.pc \in {"lookup", "connect", "launch"}
      PROVE  /\ w \in Starters /\ w.ix \in Slots /\ HoldsOne(w)
             /\ Held(w) \in Fds /\ Open(Held(w)) /\ Held(w) # sFd /\ BagToSet(workers) \cap On(Held(w)) = {}
             /\ server.pc = "spawn" => FdWorkerTask[server.ix] # Held(w)
  <2>1. w \in Starters /\ w.ix \in Slots
    BY <1>4 DEF Starters, Holding, ClientInv
  <2> QED
    BY <2>1, OnlyStarter DEF HoldsOne, Unused, Open
<1>5. CASE Finds(w)
  <2>1. Held(w) = client.sFd /\ w.pc = "lookup"
    BY <1>5 DEF Held, Finds
  <2>2. /\ socket'[client.sFd] = "new" /\ client'.sFd = client.sFd /\ connecting'[w.ix] = client.sFd
        /\ Open(client.sFd)'
    BY <1>1, <1>4, <1>5, <2>1 DEF Finds, HoldsOne, Open
  <2> QED
    BY <1>4, <1>5, <2>1, <2>2, MovesOnHolding DEF Finds
<1>6. CASE Connects(w)
  <2>1. Held(w) = client.sFd /\ w.pc = "connect"
    BY <1>6 DEF Held, Connects
  <2>2. client'.FdWorkerTask = client.sFd /\ Open(client.sFd)'
    BY <1>1, <1>4, <1>6, <2>1 DEF Connects, Open
  <2> QED
    BY <1>4, <1>6, <2>1, <2>2, MovesOnHolding DEF Connects
<1>7. CASE Starts(w)
  <2>1. PICK D : Remaining(D, w, {"free"}) /\ workers' = D (+) One(Reader)
    BY <1>7 DEF Starts
  <2>2. /\ Single(D, Inside) /\ IsABag(D)
        /\ \A v \in BagToSet(D) : v.pc \in Holding => v \in {Moved(w, q) : q \in {"free"}}
    BY <1>4, <1>7, <2>1, RemainingInside DEF Starts, Places, Holding
  <2>3. PICK r : r = Reader
    OBVIOUS
  <2>4. r \notin Inside /\ r.pc = "read"
    BY <2>3 DEF Reader, Inside, Holding
  <2>5. Single(workers', Inside) /\ BagToSet(workers') = BagToSet(D) \cup {r}
    BY <2>1, <2>2, <2>3, <2>4, SingleMore, PlusOne
  <2>6. Starters' = {}
    BY <2>2, <2>4, <2>5 DEF Starters, Moved, Holding
  <2> QED
    BY <2>5, <2>6
<1> QED
  BY <1>2, <1>3, <1>5, <1>6, <1>7, InsideStep

LEMMA FdStep == TypeInv /\ SlotInv /\ TypeInv' /\ FdInvUnlessFault /\ [Next]_vars => FdInvUnlessFault'
<1> SUFFICES ASSUME TypeInv, SlotInv, FdInvUnlessFault, [Next]_vars, faults' = 0, ~overlapped', TypeInv'
             PROVE  FdInv' /\ ClientInv'
  BY DEF FdInvUnlessFault
<1>1. faults = 0
  <2>1. faults \in Nat /\ faults' \in {faults, faults + 1}
    BY LossCosts DEF TypeInv
  <2> QED
    BY <2>1
<1>2. CASE UNCHANGED vars
  <2>1. FdInv /\ ClientInv
    BY <1>1, <1>2 DEF FdInvUnlessFault, vars, clientVars
  <2> QED
    BY <1>2, <2>1 DEF vars, slotVars, clientVars, FdInv, ClientInv, Starters, HoldsOne, Held, Unused,
                      Open, Single, On, Inside
<1>3. CASE LoopStep
  <2>1. FdInv /\ ClientInv
    BY <1>1, <1>3 DEF FdInvUnlessFault, LoopStep, ServerStep, SearchSlot, Accept, AcceptFails, Spawn,
                      SpawnFails, Leave, clientVars
  <2> QED
    BY <1>1, <1>3, <2>1, LoopKeepsFds, LoopKeepsClient, SpawnKeepsFds, SpawnKeepsClient
<1>4. ASSUME NEW w \in BagToSet(workers), WorkerStep(w) PROVE FdInv' /\ ClientInv'
  <2>1. ~overlapped
    BY <1>4, OutsideStep DEF StartClient, CreateSocket, LookUp, Connected, NotConnected, CloseRefused,
                             KeepRefused, Launch, LaunchFailed, clientVars
  <2>2. FdInv /\ ClientInv
    BY <1>1, <2>1 DEF FdInvUnlessFault
  <2>3. FdInv'
    BY <1>1, <1>4, <2>2, WorkerKeepsFds
  <2>4. Single(workers', Inside) /\ \A v \in Starters' : HoldsOne(v)'
    BY <1>1, <1>4, <2>2, OutsideKeepsClient, InsideKeepsClient
  <2>5. \A v \in BagToSet(workers') : v.pc \notin {"read", "close"} => v.ix \in Slots
    BY <1>4, <2>2, SlotsOfTasks
  <2>6. Single(workers, Inside)'
    BY <2>4 DEF Inside
  <2>7. ClientInv'
    BY <2>4, <2>5, <2>6 DEF ClientInv
  <2> QED
    BY <2>3, <2>7
<1> QED
  BY <1>2, <1>3, <1>4 DEF Next, LoopStep

(* For every set of clients, every number of slots and every order in      *)
(* which numbers are used again: as long as no call has failed and no two  *)
(* workers have connected to the right at once, no two tasks read from or  *)
(* close one descriptor (TcpServer.cpp:172-178, TcpClient.cpp:65-138).     *)
THEOREM DescriptorsAreNotShared == Spec => []OneTaskPerConnection
<1>1. TypeInv /\ FdInvUnlessFault => OneTaskPerConnection
  <2> SUFFICES ASSUME TypeInv, FdInv,
                      NEW v \in BagToSet(workers), NEW w \in BagToSet(workers),
                      v.fd = w.fd, v.pc # "flag", w.pc # "flag"
               PROVE  v = w /\ workers[w] = 1
    BY DEF FdInvUnlessFault, OneTaskPerConnection
  <2>1. w.fd \in Fds /\ v \in On(w.fd) /\ w \in On(w.fd)
    BY DEF FdInv, TypeInv, Open, On
  <2> QED
    BY <2>1 DEF FdInv, Single
<1> QED
  BY <1>1, InitFds, FdStep, SlotsAlways, PTL DEF Spec
=============================================================================
