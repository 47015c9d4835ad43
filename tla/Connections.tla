---------------------------- MODULE Connections ----------------------------
(***************************************************************************)
(* The connections of a belt: the accept loop of a TcpServer, the worker   *)
(* task of each connection, and the TcpClient that a message of the master *)
(* connects to the right neighbour.  All of them draw their descriptors    *)
(* from one table, where a number is used again as soon as it is closed.   *)
(* All workers of the server read into one buffer, so that one message of  *)
(* the master may bring two of them into the TcpClient, whose members they *)
(* share there.  Tasks block in every socket call, printf and taskSpawn;   *)
(* between two of these a step is atomic.                                  *)
(***************************************************************************)
EXTENDS Integers, FiniteSets, FiniteSetsExt, Bags

CONSTANTS
  Clients,      \* those that connect to the server: left neighbours, master
  Master,       \* the client whose messages are "Right <address>"
  N,            \* the slots of FdWorkerTask, 11 in the code
  MaxFd,        \* the largest descriptor that occurs
  MaxTasks,     \* bound on the worker tasks that exist at a time
  MaxReaders,   \* bound on the tasks of the TcpClient among them
  MaxConnections,       \* bound on the connections that are accepted
  MaxFaults     \* bound on system calls that fail

Slots == 0 .. N - 1
Fds == 0 .. MaxFd
sFd == 0        \* the number of the listening socket
Free == -2      \* a slot that may be given away
Failed == -1    \* ERROR
Readers == N    \* in place of a slot: the worker belongs to the TcpClient

ASSUME ConnectionsAssumption ==
  /\ N \in Nat \ {0} /\ MaxFd \in Nat /\ MaxFaults \in Nat /\ {MaxTasks, MaxReaders, MaxConnections} \subseteq Nat
  /\ Clients \cap {"new", "right", "gone", "listening", "shut"} = {}

VARIABLES
  socket,       \* who is at the other end of each descriptor
  server,       \* the accept loop: where it is, and ix
  FdWorkerTask, workerTaskDelete,
  workers,      \* the bag of worker tasks: where each is, descriptor, slot
  textBuffer,   \* textBuffer_a: it holds a message of the master
  client,       \* the members sFd and FdWorkerTask[0] of the TcpClient
  connecting,   \* of each slot: the descriptor its worker called connect with
  overlapped,   \* two workers have had a socket for the TcpClient at once
  accepted,     \* connections so far
  faults        \* failed calls so far

slotVars == <<FdWorkerTask, workerTaskDelete>>
clientVars == <<client, connecting, overlapped>>
vars == <<socket, server, slotVars, workers, textBuffer, clientVars, accepted, faults>>

Open(f) == f \in Fds /\ socket[f] # "shut"
Closed(f) == [g \in Fds |-> IF g = f THEN "shut" ELSE socket[g]]
Shut == {f \in Fds : ~Open(f)}
FdLeft == Shut # {}     \* bound: there are no more descriptors than Fds
LowestFree == Min(Shut)

NoClient == [sFd |-> Failed, FdWorkerTask |-> Failed]

(* The server sets up its socket; when bind or listen fails it closes the  *)
(* socket and goes on.                                                     *)
Init == /\ faults \in {0, 1} /\ faults <= MaxFaults
        /\ socket = [f \in Fds |-> IF f = sFd /\ faults = 0 THEN "listening" ELSE "shut"]
        /\ server = [pc |-> "search", ix |-> 0]
        /\ FdWorkerTask = [s \in Slots |-> Free]
        /\ workerTaskDelete = [s \in Slots |-> FALSE]
        /\ workers = EmptyBag
        /\ textBuffer = FALSE
        /\ client = NoClient
        /\ connecting = [s \in Slots |-> Failed]
        /\ overlapped = FALSE
        /\ accepted = 0

MayFail == faults < MaxFaults
Fault == faults' = faults + 1

Task(pc, f, s) == SetToBag({[pc |-> pc, fd |-> f, ix |-> s]})
ReaderTasks == [w \in {v \in BagToSet(workers) : v.ix = Readers} |-> workers[w]]
Room == /\ BagCardinality(workers) < MaxTasks
        /\ BagCardinality(ReaderTasks) < MaxReaders

-----------------------------------------------------------------------------
(* A client or the right neighbour closes its end. *)
Leave(f) ==
  /\ socket[f] \in Clients \cup {"right"}
  /\ socket' = [socket EXCEPT ![f] = "gone"]
  /\ UNCHANGED <<server, slotVars, workers, textBuffer, clientVars, accepted, faults>>

-----------------------------------------------------------------------------
(* The accept loop.  Mutant: the search goes on with the last ix when no   *)
(* slot is free.                                                           *)
SearchAny ==
  /\ server.pc = "search"
  /\ \E s \in Slots : FdWorkerTask[s] < -1 \/ s = server.ix
  /\ server' = [pc |-> "accept", ix |-> IF \E s \in Slots : FdWorkerTask[s] < -1
                  THEN Min({s \in Slots : FdWorkerTask[s] < -1}) ELSE server.ix]
  /\ UNCHANGED <<socket, slotVars, workers, textBuffer, clientVars, accepted, faults>>

SearchSlot ==
  /\ server.pc = "search"
  /\ \E s \in Slots : FdWorkerTask[s] < -1
  /\ server' = [pc |-> "accept", ix |-> Min({s \in Slots : FdWorkerTask[s] < -1})]
  /\ UNCHANGED <<socket, slotVars, workers, textBuffer, clientVars, accepted, faults>>

Accept(c) ==
  /\ server.pc = "accept" /\ socket[sFd] = "listening" /\ FdLeft
  /\ accepted < MaxConnections /\ accepted' = accepted + 1
  /\ \A f \in Fds : socket[f] # c
  /\ socket' = [socket EXCEPT ![LowestFree] = c]
  /\ FdWorkerTask' = [FdWorkerTask EXCEPT ![server.ix] = LowestFree]
  /\ server' = [server EXCEPT !.pc = "spawn"]
  /\ UNCHANGED <<workerTaskDelete, workers, textBuffer, clientVars, faults>>

(* The number of the listening socket is closed, whatever it stands for by *)
(* then, and the loop goes on with descriptor -1.                          *)
AcceptFails ==
  /\ server.pc = "accept"
  /\ \/ socket[sFd] # "listening" /\ UNCHANGED faults
     \/ MayFail /\ Fault
  /\ socket' = Closed(sFd)
  /\ FdWorkerTask' = [FdWorkerTask EXCEPT ![server.ix] = Failed]
  /\ server' = [server EXCEPT !.pc = "spawn"]
  /\ UNCHANGED <<workerTaskDelete, workers, textBuffer, clientVars, accepted>>

Spawn ==
  /\ server.pc = "spawn" /\ BagCardinality(workers) < MaxTasks
  /\ workers' = workers (+) Task("read", FdWorkerTask[server.ix], server.ix)
  /\ server' = [server EXCEPT !.pc = "search"]
  /\ UNCHANGED <<socket, slotVars, textBuffer, clientVars, accepted, faults>>

(* The descriptor is closed; the slot keeps it. *)
SpawnFails ==
  /\ server.pc = "spawn" /\ MayFail /\ Fault
  /\ socket' = Closed(FdWorkerTask[server.ix])
  /\ server' = [server EXCEPT !.pc = "search"]
  /\ UNCHANGED <<slotVars, workers, textBuffer, clientVars, accepted>>

-----------------------------------------------------------------------------
(* A worker task; those of the TcpClient (ix = Readers) have a buffer of   *)
(* their own, and their messages become events.                            *)
Goto(w, pc) == workers' = (workers (-) SetToBag({w})) (+) Task(pc, w.fd, w.ix)
Ends(w) == workers' = workers (-) SetToBag({w})

(* Does the text of a client hold an address?  Only the master's messages  *)
(* are "Right <address>".                                                  *)
returnIp(c) == c = Master

(* A line is read; the text is in the buffer until another worker reads.   *)
Read(w) ==
  /\ w.pc = "read" /\ Open(w.fd) /\ socket[w.fd] \in Clients \cup {"right"}
  /\ w.ix # Readers
  /\ textBuffer' = returnIp(socket[w.fd])
  /\ Goto(w, "parse")
  /\ UNCHANGED <<socket, server, slotVars, clientVars, accepted, faults>>

(* fioRdString returns 0 or ERROR: the other end or the descriptor is gone.*)
ReadEnds(w) ==
  /\ w.pc = "read"
  /\ Open(w.fd) => socket[w.fd] \in {"gone", "listening", "new"}
  /\ Goto(w, IF w.ix = Readers THEN "close" ELSE "free")
  /\ UNCHANGED <<socket, server, slotVars, textBuffer, clientVars, accepted, faults>>

(* The message in the buffer, whoever sent it, is taken for this client's: *)
(* a Request is ordered under its descriptor, the master's has the         *)
(* TcpClient connect to the right neighbour.  A text nobody parses any     *)
(* more is forgotten.                                                      *)
Parse(w) ==
  /\ w.pc = "parse"
  /\ Goto(w, IF textBuffer THEN "start"
             ELSE IF workerTaskDelete[w.ix] THEN "free" ELSE "read")
  /\ textBuffer' = (textBuffer /\ \E v \in BagToSet(workers) \ {w} : v.pc = "parse")
  /\ UNCHANGED <<socket, server, slotVars, clientVars, accepted, faults>>

-----------------------------------------------------------------------------
(* tcpClientStart, which a worker runs.  The socket is kept in members     *)
(* that the next worker overwrites, and read from there after every call.  *)
Holding == {"lookup", "connect", "refused", "closed", "launch", "failed"}
Starters == {v \in BagToSet(workers) : v.pc \in Holding}

(* The end of it: the worker is told to end.  What no other worker reads   *)
(* any more is forgotten.                                                  *)
Returns(w) ==
  /\ workerTaskDelete' = [workerTaskDelete EXCEPT ![w.ix] = TRUE]
  /\ client' = IF Starters \ {w} = {} THEN NoClient ELSE client

CreateSocket(w) ==
  /\ w.pc = "start"
  /\ \/ /\ FdLeft
        /\ socket' = [socket EXCEPT ![LowestFree] = "new"]
        /\ client' = [client EXCEPT !.sFd = LowestFree]
        /\ Goto(w, "lookup")
        /\ UNCHANGED <<workerTaskDelete, faults>>
     \/ /\ IF FdLeft THEN MayFail /\ Fault ELSE UNCHANGED faults
        /\ workerTaskDelete' = [workerTaskDelete EXCEPT ![w.ix] = TRUE]
        /\ client' = [client EXCEPT !.sFd = Failed]
        /\ Goto(w, "free")
        /\ UNCHANGED socket
  /\ overlapped' = (overlapped \/ Starters # {})
  /\ UNCHANGED <<server, FdWorkerTask, textBuffer, connecting, accepted>>

(* Is the host known?  If not the socket is closed, else connect is called.*)
LookUp(w) ==
  /\ w.pc = "lookup"
  /\ \/ /\ connecting' = [connecting EXCEPT ![w.ix] = client.sFd]
        /\ Goto(w, "connect")
        /\ UNCHANGED <<socket, workerTaskDelete, client, faults>>
     \/ /\ MayFail /\ Fault
        /\ socket' = Closed(client.sFd)
        /\ Returns(w) /\ Goto(w, "free")
        /\ UNCHANGED connecting
  /\ UNCHANGED <<server, FdWorkerTask, textBuffer, overlapped, accepted>>

(* A socket is connected once.                                             *)
Connected(w) ==
  LET f == connecting[w.ix] IN
  /\ w.pc = "connect" /\ Open(f) /\ socket[f] = "new"
  /\ socket' = [socket EXCEPT ![f] = "right"]
  /\ client' = [client EXCEPT !.FdWorkerTask = client.sFd]
  /\ connecting' = [connecting EXCEPT ![w.ix] = Failed]
  /\ Goto(w, "launch")
  /\ UNCHANGED <<server, slotVars, textBuffer, overlapped, accepted, faults>>

NotConnected(w) ==
  LET f == connecting[w.ix] IN
  /\ w.pc = "connect"
  /\ \/ UNCHANGED faults /\ \/ ~(Open(f) /\ socket[f] = "new")
                            \/ \E v \in Starters \ {w} :
                                 v.pc = "connect" /\ connecting[v.ix] = f
     \/ MayFail /\ Fault
  /\ connecting' = [connecting EXCEPT ![w.ix] = Failed]
  /\ Goto(w, "refused")
  /\ UNCHANGED <<socket, server, slotVars, textBuffer, client, overlapped, accepted>>

(* The socket is closed, but goes on as the descriptor of the connection.  *)
CloseRefused(w) ==
  /\ w.pc = "refused"
  /\ socket' = Closed(client.sFd)
  /\ Goto(w, "closed")
  /\ UNCHANGED <<server, slotVars, textBuffer, clientVars, accepted, faults>>

KeepRefused(w) ==
  /\ w.pc = "closed"
  /\ client' = [client EXCEPT !.FdWorkerTask = client.sFd]
  /\ Goto(w, "launch")
  /\ UNCHANGED <<socket, server, slotVars, textBuffer, connecting, overlapped, accepted, faults>>

(* The reader of an earlier connection lives on.                           *)
Launch(w) ==
  /\ w.pc = "launch"
  /\ \/ /\ Room
        /\ workers' = (workers (-) SetToBag({w})) (+) Task("free", w.fd, w.ix)
                        (+) Task("read", client.FdWorkerTask, Readers)
        /\ Returns(w)
        /\ UNCHANGED faults
     \/ /\ MayFail /\ Fault
        /\ Goto(w, "failed")
        /\ UNCHANGED <<workerTaskDelete, client>>
  /\ UNCHANGED <<socket, server, FdWorkerTask, textBuffer, connecting, overlapped, accepted>>

LaunchFailed(w) ==
  /\ w.pc = "failed"
  /\ socket' = Closed(client.FdWorkerTask)
  /\ Returns(w) /\ Goto(w, "free")
  /\ UNCHANGED <<server, FdWorkerTask, textBuffer, connecting, overlapped, accepted, faults>>

StartClient(w) == CreateSocket(w) \/ LookUp(w) \/ Connected(w) \/ NotConnected(w)
                  \/ CloseRefused(w) \/ KeepRefused(w) \/ Launch(w) \/ LaunchFailed(w)

-----------------------------------------------------------------------------
(* Mutants: the descriptor is closed already here, and once more later; a  *)
(* slot is set free only by a worker that was told to end.                 *)
FreeSlotClosed(w) ==
  /\ w.pc = "free"
  /\ FdWorkerTask' = IF FdWorkerTask[w.ix] = w.fd
       THEN [FdWorkerTask EXCEPT ![w.ix] = Free] ELSE FdWorkerTask
  /\ socket' = Closed(w.fd)
  /\ Goto(w, "close")
  /\ UNCHANGED <<server, workerTaskDelete, textBuffer, clientVars, accepted, faults>>

FreeSlotIfTold(w) ==
  /\ w.pc = "free"
  /\ FdWorkerTask' = IF workerTaskDelete[w.ix]
       THEN [FdWorkerTask EXCEPT ![w.ix] = Free] ELSE FdWorkerTask
  /\ Goto(w, "close")
  /\ UNCHANGED <<socket, server, workerTaskDelete, textBuffer, clientVars, accepted, faults>>

FreeSlot(w) ==
  /\ w.pc = "free"
  /\ FdWorkerTask' = IF FdWorkerTask[w.ix] = w.fd
       THEN [FdWorkerTask EXCEPT ![w.ix] = Free] ELSE FdWorkerTask
  /\ Goto(w, "close")
  /\ UNCHANGED <<socket, server, workerTaskDelete, textBuffer, clientVars, accepted, faults>>

(* close() of a number that has been closed by another task closes what it *)
(* stands for now.                                                         *)
Close(w) ==
  /\ w.pc = "close"
  /\ socket' = Closed(w.fd)
  /\ IF w.ix = Readers THEN Ends(w) ELSE Goto(w, "flag")
  /\ UNCHANGED <<server, slotVars, textBuffer, clientVars, accepted, faults>>

(* The slot may belong to the next connection by now. *)
ClearFlag(w) ==
  /\ w.pc = "flag"
  /\ workerTaskDelete' = [workerTaskDelete EXCEPT ![w.ix] = FALSE]
  /\ Ends(w)
  /\ UNCHANGED <<socket, server, FdWorkerTask, textBuffer, clientVars, accepted, faults>>

ServerStep == SearchSlot \/ (\E c \in Clients : Accept(c)) \/ AcceptFails
              \/ Spawn \/ SpawnFails

WorkerStep(w) ==
  \/ Read(w) \/ ReadEnds(w) \/ Parse(w) \/ StartClient(w)
  \/ FreeSlot(w) \/ Close(w) \/ ClearFlag(w)

Next == \/ ServerStep
        \/ \E w \in BagToSet(workers) : WorkerStep(w)
        \/ \E f \in Fds : Leave(f)

Spec == Init /\ [][Next]_vars

-----------------------------------------------------------------------------
Ending == {"close", "flag"}
Serving == {w \in BagToSet(workers) : w.ix # Readers /\ w.pc \notin Ending}

(* While a worker serves a connection its slot holds the descriptor, so    *)
(* that an answer to it is sent, not dropped (TcpServer.cpp:59-78).        *)
AnswerFindsConnection ==
  \A w \in Serving : FdWorkerTask[w.ix] = w.fd

(* Unless a call has failed or two workers have connected to the right at  *)
(* once, no two tasks read from or close the same descriptor: nobody takes *)
(* or ends another one's connection, however the numbers are used again    *)
(* (TcpServer.cpp:172-178, TcpClient.cpp:65-138).                          *)
OneTaskPerConnection ==
  faults = 0 /\ ~overlapped => \A v, w \in BagToSet(workers) :
    v.fd = w.fd /\ "flag" \notin {v.pc, w.pc} => v = w /\ workers[w] = 1

(* A slot that is not free has a task, or the accept loop is about to      *)
(* start one; only a spawn that failed costs a slot (TcpServer.cpp:131-143,*)
(* 173-176), and the server takes new clients while one is left.           *)
Lost == {s \in Slots : /\ FdWorkerTask[s] # Free
                       /\ \A w \in Serving : w.ix # s
                       /\ server # [pc |-> "spawn", ix |-> s]}

OnlyFailuresCostSlots == Cardinality(Lost) <= faults
=============================================================================
