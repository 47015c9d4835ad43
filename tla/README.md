# The conveyor belt: models, checks and proofs

The program (`src/ConveyorBelt`) runs on VxWorks and controls one conveyor belt.  Belts stand in a
ring or a line; each is a TCP server for its left neighbours and a TCP client of its right one.  In
Local-Mode an operator drives the belt from the keyboard or by telnet; in Chain-Mode the belts hand
packages on to the right: the left belt sends `Request`, gets `Wait` or `Ready`, hands the package
over and gets `Release`.  The documentation is in `src/Documentation/tex` (in German); the
requirements cited below are the numbered rows of `1-Anforderungen.tex`.

## 1. Inventory

| Component | Source | State | Operations | Made correct by |
|---|---|---|---|---|
| Event queue | `Statemachine/stateMachine.cpp` | `queue`, `semQueue` (binary), `semEvent` (counting) | `sendEvent` by every task, `runToCompletion` by the main task | no event lost, doubled or reordered; the queue never accessed by two tasks; no token without an event |
| State machine | `stateMachine.cpp:49-71`, `systemManager.cpp:28-85` | `actualState` of five diagrams, `actualEvent` | one row of each diagram per event | the diagrams agree with one another and with the drive |
| System manager | `Statemachine/systemManager.cpp` | `localMode`, `chainMode`, profiles | `requestEvent`, `myAction00..42`, `initSystem` | one mode at a time; orders answered in turn; the network's tasks find the belt's own address |
| Order buffer | `systemManager.cpp:161-232, 584-598` | `myBufferSfd[10]`, `semOrder` | insertion by worker tasks, `getActualSfd`, `getWaitingSfd`, removal by the main task | a waiting line: no order lost, doubled or served out of turn |
| Controller | `Controller/Controller.cpp` | `myProfileState`, `motorIsOn`, counters, relay, PI state | the setters (main task), the 15 ms tick | each phase reports once; stopped means relay open and output zero |
| Velocity profile | `velocityProfile/VelocityProfile.cpp` | times, speed, direction | setters | the speed stays within its limits |
| TCP/telnet server | `Communication/TcpServer` | `FdWorkerTask[11]`, `workerTaskDelete`, shared `textBuffer_a` | accept loop, one worker per connection, `send` | a slot is in use exactly while its worker runs; an answer finds its connection |
| TCP client | `Communication/TcpClient` | `sFd`, `FdWorkerTask[0]` | connect, `send`, reader task | no two tasks on one descriptor, as long as one worker connects at a time |
| Parser, keyboard | `Communication/parser.cpp`, `Keyboard`, `kbd.c` | last key, static reply buffer | column scan, `parseCmd`, poll every 80 ms | one command per key stroke |
| Pulse counter | `hwFunc.c:200-260` | counter 2, value to be loaded, `pulsCnt` | `getEncoderPulsesZeroCorrected` | every pulse counted once |
| Encoder, Kalman filter | `Motor/encoder.cpp`, `Kalman.h` | pulse log, wraps, filtered speed | interrupt, 5 ms filter task | the log stays off the watchdog; standstill is seen |
| Motor | `Motor/Motor.cpp` | output at standstill | `setZero`, `drive` | the search ends at the first output at which the motor stands |
| PTP/UDP client | `Communication/PtpClient` | clock, t1..t3, last message | SYNC, FOLLOW-UP, DELAY rounds | the clock comes to the master's time and stays there |
| Display, console | `Display`, `disp.c` | the texts, cursor, cells | setters of every task, redraw | what is set is shown, on its own row |
| Network address | `Statemachine/setMyIP.cpp` | the table of boards | `setLocalIp` | a board gets its own address |
| Timers, generated code | `diaTimer.cpp`, `Controller/Subsystem*`, Simulink | - | - | - |

Who calls whom: the keyboard (priority 110), the telnet workers (102), the TCP workers (101) and the
TCP client's reader (107) turn input into `requestEvent`, which reads the mode flags and sends an
event; the tick (50) sends the completion event of each phase; the main task (100) alone dispatches
events and runs the transition actions, which send events, answer on sockets, set the controller and
set what the display shows.  Hard behaviours: tasks of five priorities around one queue and one
buffer; values read when an event is *sent* and out of date when it is *dispatched*; answers of two
neighbours and completions of the drive in any order; an order buffer that is read without its mutex
and shifted past its end; descriptors that are closed by one task and given out again before another
has let go of them; UDP messages that are lost, late or taken for others; fingers and a display that
change while they are read.

The hazards are listed, each at its line, in `PROJECT.json`.

## 2. Modules

| Module | Models | Correspondence |
|---|---|---|
| `EventQueue` | `sendEvent`, `putEvent`, `getEvent`, loop head of `runToCompletion` | one action per semaphore call and per access to the `std::queue`; `pc[t]` is the place of task `t` |
| `EventFifo` | what the queue promises | events are put, taken in order one at a time, and finished |
| `OrderBuffer` | the array and its pure operations | a buffer is a function on `0..N`; slot `N` is the memory behind the array, which the last `swap` touches |
| `OrderDesk` | `requestEvent(REQUEST, sFd)` of each worker, and the transitions 12, 13, 18, 40, 41, 42 that touch the buffer | a worker writes descriptor, flag and address in separate steps under `semOrder`; the main task runs between any two of them |
| `OrderFifo` | what the belt promises its left neighbours | accepted orders form a line without duplicates, the oldest is served |
| `StateTable` | the table the constructor of `SystemManager` fills | a set of rows per diagram; that at most one row matches is an assumption TLC evaluates |
| `Belt` | the whole belt: dispatch over the five diagrams, every transition action, both `requestEvent`s, the phases of the drive, the neighbours, the operator | one step per transition of one diagram; a task reads the mode in one step (`Command`, `Request`) and queues its event in a later one (`CallerSends`) |
| `Controller` | the setters, the transitions that call them, and the 15 ms tick | the main task executes one assignment at a time, `todo` holds the rest; `doing` is the state of the motion diagram or a hand-over; a tick is one step unless it blocks in `sendEvent` |
| `DrivePhases` | what the controller promises the state machine | a phase begins, is halted, or ends and is reported once |
| `Connections` | a server's accept loop and workers, the TCP client's start and reader, the table of descriptors | `workers` is a bag of tasks with their places; a step ends where a task can block, so `tcpClientStart` is eight actions, between which other workers may enter it and overwrite `client` (its two members); any call may fail |
| `PtpClient` | `syncClk`, `receiveUDP`, `sendUDP`, the master and the network | one step per returned `receiveUDP`; times are relative to the master's present time |
| `PulseCounter` | counter 2 and `getEncoderPulsesZeroCorrected` | latch and write are two steps, pulses come between them; the width is a constant |
| `Encoder`, `Speedometer` | the interrupt routine with its log; the filter task | the log's index may pass its end; only a wrap of counter 1 comes between two steps of the routine; of the filter, how far it is from the limit of 1 rpm, which each interval takes it up or down by more or less |
| `Motor` | `setZero` with the three above under it | one step per poll; the motor turns while its output is outside its range of standstill, `zero .. zero + Width` |
| `StartUp` | `setLocalIp` and `initSystem`, ending with `Motor`'s search | one step per row of the address table and per part that is made |
| `Console` | `disp.c` | a record of cursor and cells; one operator per control code |
| `Display` | the display task and the setters | one step per label, value, or character of a text that is read in place |
| `Keyboard` | `getKey` and `checkPressedKey` | one step per column; the fingers move between them |
| `Panel` | keypad, main task and display in Local-Mode | composes `Keyboard` and `Display` |
| `EventQueueProofs`, `OrderDeskProofs`, `BeltProofs`, `ControllerProofs`, `PtpClientProofs`, `StartUpProofs`, `ConnectionsProofs`, `PanelProofs` | theorems, each about the module it is named after (`OrderDeskProofs` also about `OrderBuffer`; `StartUpProofs` about `PulseCounter`, `Encoder` and `Motor`; `PanelProofs` about `Console`, `Display` and `Keyboard`) | section 6 |
| `MC*` | constants for TLC | |

`EventQueue` justifies the atomic queue of `OrderDesk` and `Belt` (`ImplementsFifo`), and `OrderDesk`
justifies the atomic insertion of `Belt` (`ImplementsLine`); `Controller` justifies its atomic setters
and its one-step end of a phase (`ImplementsPhases`).  Operators marked "Mutant" in the comment before
them are wrong variants that the properties must tell from the code; no specification uses them.

Abstractions.  A connection and an address are model values.  A message is its command.  The drive's
phase lasts any time in `Belt`; its end is one step there (`PhaseEnds`).  In `Controller` speeds and
voltages are reduced to zero or not zero, because that is what standing still means, and the
measured speed is any.  Its commands come at any time, as the diagrams that order them are in `Belt`.
The neighbours are belts of the same program: the left one asks once and waits for its answer, the
right one answers each order in the end.  `printf` and the time stamps are left out.

*Timing.*  A phase of the drive, a hand-over and an answer of the right neighbour last a second or
more; a worker needs microseconds from storing an order to queueing its event.  `WorkersCaughtUp`
says that no worker is in between when one of the former ends.  It is assumed in `OrderDesk`
(`TakeOver`, `HandedOn`) and `Belt` (`PhaseEnds`, `RightRelease`).  In `PtpClient` the messages of a
round take less than a second, the unit of the code's clock.  In `Motor` the interrupt routine runs
before the next pulse, and a motor that does not stand turns by a pulse within `Patience` polls.
These are the only uses of time.

## 3. Runs

All bounds are constants of the configurations.

| Run | Instance | States | Shows |
|---|---|---|---|
| `queue` | keyboard, tick and main task; two events, `QueueBound = 2` | 13 340 | the queue is guarded, tokens match events, every event is dispatched, fifo order |
| `desk` | three connections of three hosts, two slots | 119 962 | the buffer is a line without duplicates, also when it is full; the head stays while its package is handed over; answers reach the client they are for; no transport without an order; each stored order gets Ready |
| `chain` | two left neighbours, Chain-Mode only | 5 800 | diagrams, drive and buffer agree once all events are handled; slow while handing over; still while idle or waiting; accepted orders are served |
| `local` | nine commands, at most two typed ahead | 571 952 | drive and mode in Local-Mode; both limits of the speed are reached |
| `modes` | mode changes, cancellations, unknown commands, one left neighbour that orders at any time | 122 355 | one mode at a time; each change settles |
| `drive` | ramps of two ticks, constant velocity of three, a start delay and a wait for standstill of one | 240 832 | whatever the tick does between two assignments, and however late the main task is, each phase ends once and is reported once; a profile ends, fits the log, and leaves relay open and output zero |
| `ptp` | errors up to 3 s and of 40 s, four lost messages or failed calls | 18 071 | the error stays within one period per fault; a complete round sets the clock right; the clock is right again and again |
| `net` | a left neighbour and the master, two slots, five descriptors, three tasks (two of them readers of the TCP client), three connections, one failed call | 4 360 890 | slot, descriptor and worker stay together, also when two workers connect to the right at once; only failures cost slots; without either, a descriptor has one task |
| `start` | boards in and not in the table, a counter of 8 values, motors that creep at the first output, that stand there, and that stand there but no further up | 689 888 | the network's tasks find the board's own address; the search ends one above the first output of standstill, with every pulse counted and standstill seen |
| `panel` | three keys in two columns, two fields, a screen of four rows | 31 391 | a key stroke gives one command; the display shows what was set, on its own row |

Why the bounds are enough.  Two slots (`N = 2`) are the fewest that distinguish the head, a waiting
order and a full buffer; three connections are the fewest that fill it and ask again.  In `drive` each
counter reaches its limit and passes it; `ConstTicks` differs from `RampTicks`, because a late report of
a phase is answered by one more of the longer kind, and `LogSize = 11` is the least log that satisfies
`ControllerAssumption`.  In `net` one failure is enough to lose a slot and two slots to see the server
go on with the other; five descriptors are more than two slots, the listening socket and the reader
need, so that a number comes back while another task still holds it; when none is left (`FdLeft`) nobody
connects.  Three connections and two readers are the fewest with which two workers can be in
`tcpClientStart` at once, their readers both live on, and a client still comes afterwards.  `ptp` has as
many faults as a round has messages.  In `start` a counter of eight values wraps several times during a
search; `Toleranz` and `Patience` are both reached; of the three motors one stands at `faktorStop` but no
further up, and one just as far as the output at which the search ends; with `Rise` and `Lag` an interval
may or may not cross the limit of 1 rpm.  In `panel` the two fields are one of each kind, a text read in
place and one that is formatted first, and the values of each differ in length.

Runs that must fail show where the code differs from its documentation or comments; each is a
finding in `PROJECT.json`:

| Run | Property | What happens |
|---|---|---|
| `fullAnnounced` | `FullIsNotAnnounced` | the test for a full buffer (`j > k`) never holds; the order is dropped but announced |
| `ptpDrift` | `ClockStaysSet` | a round that does not measure the delay reuses `t2` and `t3` taken before the clock was last set: without any loss, a right clock is set wrong |

### Met while modelling

Behaviour that differs from a sentence of the documentation, or that a reader would not expect, and
that no run is about:

- A left neighbour that orders while its last package is still on the belt is answered NOTFOUND
  instead of Wait (`systemManager.cpp:185`, `1-Anforderungen.tex:233`): the slot is freed only when
  the package has left.
- LEFT and RIGHT test the mode when the key is read and are dispatched later, possibly during a change
  to Chain-Mode (`systemManager.cpp:119`, `3-model-of-behavior.tex:16`).
- An order stored before Chain-Mode has settled finds no row and is not announced again
  (`systemManager.cpp:168`, `1-Anforderungen.tex:232`).
- A cancelled order is started again by a queued request; the Release then goes to a client that has had
  no Ready (`systemManager.cpp:490`, `1-Anforderungen.tex:236`).
- A client may get a Wait after its Ready, because an order is stored before it is announced (so
  `TransportAnswersInPlace` leaves WAIT out).
- RIGHT pressed between the end of a run and its StopBelt starts diagram 3 alone, with the old direction.
- A tick between `motorOff` and the end of the phase closes the relay again.  A profile stops the drive
  twice, which opens it; the hand-over to the right stops it once (action 18), so its relay may stay
  closed, with the output zero.
- The hand-over to the right is repeated without clearing `countResponse`; after about fifteen
  repetitions the index leaves the log of 1000 entries.  What is written there is not modelled
  (`Logged` stays at `LogSize`), and `ProfileFitsLog` is about profiles.
- Reports left over from an interrupted profile are taken by the next one and may let a phase run on
  while the diagram is already at the next.  The code's log still has room: 62 + 2 * 401 + 11 = 875 of
  1000 entries.
- All workers of a server read into one buffer: a message of the master may be parsed by, and end, the
  worker of a neighbour (`TcpServer.cpp:159`).
- That buffer may bring two workers into `tcpClientStart` at once, by one message of the master.  They
  share `sFd` and `FdWorkerTask[0]` (`TcpClient.cpp:65`, `100-103`): without any failed call both start a
  reader on one descriptor, and the other socket stays without a reader.  `Connections` has these steps;
  `OneTaskPerConnection` excepts exactly the runs in which it happened (`overlapped`).
- The servers run (`systemManager.cpp:281-296`) before `myTCPClient` exists (`303`): a master's message in
  between calls it through a null pointer (`318-320`).  No property excludes that.
- A motor whose range of standstill ends at the output the search finds is left one above it, where it
  creeps: the search adds one at its end (`Motor.cpp:44-52`).  That is the only such motor
  (`SearchEndsAtStandstill`).
- `setLocalIp`'s fallback for an unknown board (`setMyIP.cpp:67`) never runs, because the counter it
  tests was reset; and the row compared last lies behind the table.
- The encoder's interrupts are enabled before the index of its log is set (`encoder.cpp:9-12`).
- DEL in the first column leaves the console's column at -1, one before its row; no text contains
  control codes.
- `getKey` compares a `char` with labels above 0x7F; the model takes `char` as unsigned.
- The master's text for the display's row of the initialisation may end with a carriage return
  (`systemManager.cpp:321`), which is harmless as its last character.
- The display shows the time of receiving under the label of sending and the other way round
  (`Display.cpp:107, 114`).

## 4. Fairness

No task is obliged to send, no client to order, no operator to act, no finger to move.  A task inside
`sendEvent` or `requestEvent` goes on and so does the main task (weak fairness): every task of the
program blocks again soon, so none starves the others.  `semQueue` and `semOrder` queue their waiters
by priority and are held for a few instructions: strong fairness for taking them.  A phase of the drive
ends, also when orders keep arriving (strong fairness, because `WorkersCaughtUp` is false now and
then).  The watchdog releases the tick for ever (weak fairness of `TickStep`).  The right neighbour
answers an order in the end; without that the belt waits, which the code intends.

`PtpClient`: the master keeps sending SYNC and what has arrived is received (weak).  A round measures
the delay when `rand()` returns a multiple of 13, which happens again and again with probability one:
strong fairness of the step that does.  `StartUp`: interrupts are served and the watchdog releases
`tEncoder` (weak).  `Panel`: the keyboard polls, the display redraws and the main task takes its events
(weak, each on the variables its step changes).

## 5. Deadlock

`queue`, `desk`, `drive`, `ptp` and `start` check for deadlock.  The others do not.  With the operator's
commands used up and no order, the belt (`chain`, `local`, `modes`) really stands still; the panel's bound
on waiting commands is one; and once the connections of `net` are used up its server waits for clients
that no longer come.

## 6. Proofs

All for every value of the constants that satisfies the named assumptions.

`EventQueueProofs`, for all sets of tasks and events and every bound: the type invariant, mutual
exclusion on the queue, the balance of tokens and events, that the main task never pops an empty
queue, and that every step is a step of `EventFifo` or none.  The inductive invariant adds to these
the places each task can be at and that a task in `sendEvent` has an event; mutual exclusion is what
makes the balance hold, since a push between the test and the pop would be lost.

`OrderDeskProofs`, for every number of slots above one, every set of connections and every
assignment of addresses: the type invariant, that the orders fill the buffer from the front, one
order per host, an order at the head of every transport, and (an action property) that no step
changes the head while its package is handed over.  The inductive invariant `IInv` has two parts.
`BufferInv` is about the workers: a worker is between `semTake` and `semGive` exactly while `semOrder`
is its; the slot it has chosen is free and behind the orders of other hosts until it writes the
descriptor, and the last order from then on; apart from slots whose address is being written, the
hosts are distinct.  A removal needs `semOrder` and therefore meets no half-written slot.
`Stages` and `NextHasOrder` are about the main task: there is at most one "release" and it belongs to
the stage `gone`; whoever will start the next transport (a queued "request", one behind the "release",
a worker that has not announced yet) finds an order in slot 0, or in slot 1 if a removal comes first.
A refused announcement of a full buffer needs the second slot: hence `N > 1`.  The assumptions are
`BufferAssumption` and `DeskAssumption`; the argument uses `WorkersCaughtUp` in one place, `HandedOn`.

Two more results rest on that invariant.  Answers reach their clients (`ClientInv`): a client that is
in the buffer waits for its Ready, the one at the head has had it while its package is on the way, and
no client is in the buffer twice, so that Ready, Release and NOTFOUND never meet a client in another
state.  And every step of `OrderDesk` is one of `OrderFifo` or none, under a mapping that reads the
line from the occupied slots: storing a descriptor appends, removing with its chain of swaps takes the
first, and writing a flag or an address changes nothing.  The lemmas about the array itself come first
in the module.

`BeltProofs`, for every buffer, every set of left neighbours and any number of commands: the types,
and that the two modes exclude each other.  The invariant of the latter treats the events that pass the
mode from one diagram to the next as a token: there is one at most, and where it is (in the queue,
worked on, before which other event) tells which diagrams are inactive and which flags are set.
The other invariants of `Belt` hold for some operators only, and the theorems say for which:

| Hypothesis | Says | Theorems | Without it |
|---|---|---|---|
| `NobodyDrives` | the belt never enters Local-Mode, or LEFT, RIGHT and STOP are not pressed | `StandsStill`, `HandsOverSlowly`, `DriveKeepsPace` | a LEFT accepted in Local-Mode and dispatched after the change of mode starts the drive while Chain-Mode is Idle, or speeds up a hand-over |
| `NobodyInterferes` | no cancellation, no return to Local-Mode, no order before Chain-Mode has settled | `PerformingFollows` | a `request` queued together with `LocalMode` makes the belt Performing while the Chain-Mode diagram is inactive |
| `NeverChain` | the belt is not put in Chain-Mode | `LocalIdleIsStill` | back in Local-Mode the diagram is Idle while a ramp of Chain-Mode still runs |

The counterexamples of the last column were found by TLC; the runs `chain` and `local` are instances of
the hypotheses, so that each theorem says of every belt what its run checks on one.  The invariant of
the drive (`DriveInv`) lists for each state of the Chain-Mode diagram what the drive may be doing: at
rest, handing over slowly, or in the phase of its diagram with its completion still to come, in which
case no other completion is queued.  That of the orders ties each of `request`, `Ready` and `Release`,
queued or worked on, to the one state of the two diagrams in which it can be.

`ControllerProofs`, for phases of any length and any number of queued reports: the output is that of
standstill whenever the main task has stopped the drive, the relay is open after a profile, a profile
fits the log, and every step is a step of `DrivePhases` or none.  The inductive invariant
`ControllerInv` follows a setter assignment by assignment: `SetterLeft` says that what is left of it
are its last assignments, so that `Len(todo)` tells what has been assigned.  `Stopped` and `Relay`
say from which assignment of `setSpeedToZero` on the phase, the output, the integral and the relay stay
as they are, because a tick leaves them alone once the phase is STOPMOTOR; the relay needs the second
of the two stops, and that a hand-over is marked by `handed`.  `Entries` bounds the entries of the log
by phase, with the assignments that set `count` to zero in between: a stale report may let a phase run
into the next one once, hence two phases of the longer kind in `ControllerAssumption`.

`PtpClientProofs`, for any threshold, period and clock at the start: the types, that a measured round
whose messages are paired rightly sets the clock right, and that each fault costs one period at most.
The error bound is a budget (`Settled`): each fault gives one period to spend; `start` is what had been
spent when the message read last was read, and its age, that of `t1` and of `t2`, and what is still on
its way (`Owed`) together never exceed the rest.  So an old message that is taken for a new one has
paid for its age before it moves the clock.  A clock that is badly wrong at the start is a case of its
own (`Unset`), which the first SYNC ends.

`ConnectionsProofs`, for every set of clients, any number of slots and all bounds: a worker's slot holds
its descriptor while it serves and failures alone cost slots, both also when workers are in
`tcpClientStart` together; and, while no call has failed and no two of them were, no two tasks have one
descriptor.  `SlotInv` says that a slot has one serving task at most and that the accept loop chooses
one that has none.  `FdInv` says that each descriptor of a task, of the slot to be served, of the server
and of the connection being made is open and in one hand, so that the lowest free number is new to all
of them; `ClientInv` that the only worker in `tcpClientStart` finds in the members the socket it has put
there, which no task has yet.  A step loses at most one slot, and one that does is a failed call
(`LossCosts`).

`StartUpProofs`, for a counter of any width: each call of `getEncoderPulsesZeroCorrected` returns the
pulses there were, alone and during the start.  `CounterInv` says that the value written last either
waits for a pulse, and then cannot be mistaken for a loaded one (`Distinct`), or that the counter has
counted down from it (`Between`).  What makes it work is that the two values written in turn lie in
different halves of the counter.  For a log of any size, the interrupt routine passes its end by two
entries and stops before the watchdog's rate (`LogInv`).  For any tolerance and any motor that
stands at `faktorStop` or further up, be it at one output only, the search ends one above the first output
at which it stands.  `ExactCount` says for each stage of a call what it will return, `MotorInv` that the
output is that first one and no pulse is on its way (`AtRest`), or is below it by at least the pulses that
a call may return (`Creeping`), where the polls without a pulse are fewer than `Patience` because the one
pulse that a call overlooks is returned by the next.  So the search never passes the first output, and
what it adds at its end leaves the range of standstill only if that is the last one
(`SearchEndsAtStandstill`).  And for any table without equal rows, any length of an address and any
board: the network's tasks find the board's own address.  The invariant follows the comparison
(`Comparing`: the rows compared so far are not the board's, so nothing has been set).

`PanelProofs`, for a screen, rows and texts of any size and any keypad: where texts land, that rows stay
apart, and that no command is given without a finger.  The first needs an induction over the characters
of a text, for which the provers have no rule.  It is by a least counterexample instead: a set of
naturals has a least element (`Least`), the text that is one character shorter has been written
correctly, and one more character (`PutPrintable`) completes it.  So a text fills the cells from the
cursor on (`WriteStringFills`), provided that the address is that of the cursor's row and column
(`Aligned`), which every text and control code but DEL keeps (`PutControl`).  `DisplayInv` adds to this
that every row holds letters of its own field (`RowsHold`), and what makes reading in place safe:
from where the reader stands, an array has an end before the row's end, and letters of its field until
then (`Readable`).  A copy keeps that (`CopyReadable`): a reader before the new end meets it, and one
that is past it finds the rest of the old text as it was.  The assumptions are that texts have no
control codes and fit between their column and the end of the row (`DisplayAssumption`; the labels are
47 characters wide, with blanks where the values come), that the main task sets values that have a text
(`PanelAssumption`), and that columns are finite and disjoint (`KeyboardAssumption`).  `KeypadInv` says
that since the last command, while no finger moves, a scan has found a key exactly if a column it has
read gives one, and that no column gives any if the memory of the last key is empty; and that a pad at
rest has no key down and none found.

Not proved, only model-checked: liveness and the fairness parts of the refinements, which are out of the
prover's reach (`EveryEventDispatched`, `AcceptedIsServed`, `ModeSettles`, `ProfileEnds`,
`ClockIsRightAgain`, `StandstillShown`, `PressIsTaken`, `ShowsCurrent`).  Every invariant and
every action property of a passing run is a theorem, some of those of `Belt` under the hypotheses above.

## 7. Not modelled

- The PI arithmetic (saturation at 18 V, cut to the converter's 12 V) and the scaling of speeds: sums and
  products of doubles; only zero or not zero is kept.
- The diagram timers: no row names a timer event and every event time is 0.
- The texts of answers and the static buffer they are built in (`parser.cpp:42`); the prefix comparison of
  commands; the formatting of numbers on the display.
- A write to a descriptor that was closed after a failed `connect` (`TcpClient.cpp:95`).
- A ring of belts in which each waits for the next: `Belt` models one, with a right neighbour that
  answers in the end.
- `deinitSystem` and the destructors, which nothing calls; register accesses that are one read or write.
- The generated step function apart from what `Controller` keeps of it, the Simulink models, the documents
  with their older copies of the sources.

## 8. Open ends

1. A ring of two or three `Belt`s joined by their protocol, to see when all wait for all.
2. The direction and `setProfile`, which may change while a phase of `Controller` runs.
