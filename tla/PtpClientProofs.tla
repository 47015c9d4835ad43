-------------------------- MODULE PtpClientProofs ---------------------------
(***************************************************************************)
(* Proofs about PtpClient, for every threshold, every period, every clock  *)
(* at the start and any number of lost messages and failed calls: the      *)
(* types, that a round whose messages are paired rightly sets the clock,   *)
(* and that each fault costs one period at most.                           *)
(***************************************************************************)
EXTENDS PtpClient, SequenceTheorems, TLAPS

MessageTypes == {"none", "SYNC", "FOLLOW_UP", "DELAY_REQ", "DELAY_RESP"}
Messages == [type : MessageTypes, seconds : Int]

(* How old the message read last is; how long ago t1 and t2 were taken.    *)
Age == 0 - myRequest.seconds
SinceSync == clock - t1
SinceAsk == clock - t2

(* What is on its way is new, and there is something behind every SYNC.    *)
Queue(q) ==
  /\ q \in Seq(Messages)
  /\ \A i \in 1..Len(q) : q[i].seconds = 0
  /\ q # <<>> => q[Len(q)].type # "SYNC"
DueInv == Queue(due)

TypeInv ==
  /\ TypeOK
  /\ myRequest \in Messages
  /\ DueInv

StepInv ==
  /\ Age = 0 \/ Age >= Period
  /\ step = "followUp" => myRequest.type = "SYNC"
  /\ step = "response" => myRequest.type = "DELAY_REQ" /\ lag = t1 + Age

(* As long as all messages are what they are taken for, none is old.       *)
PairedInv ==
  /\ step = "followUp" /\ paired => t1 = clock
  /\ step = "response" /\ paired => t1 = clock /\ t2 = clock /\ lag = clock

-----------------------------------------------------------------------------
(* The error.  Each fault gives one period to spend.  While no message is  *)
(* read, what was read last grows older by a period for two messages lost; *)
(* start is what had been spent when it was read.                          *)
Spent == Period * faults
Owed == IF Len(due) = 0 THEN 0 ELSE IF Len(due) = 1 THEN Period ELSE 2 * Period

(* Before the first SYNC the clock may have any error. *)
Unset == /\ step = "sync" /\ myRequest.type # "SYNC"
         /\ delay = 0 /\ Abs(clock) > Threshold

Within(x, bound) == 0 <= bound + x /\ x <= bound

(* The task waits for a SYNC and finds the last one in myRequest if it     *)
(* reads nothing.                                                          *)
OldSync(start) ==
  /\ Within(delay, MaxError + start)
  /\ 0 <= MaxError + start + 2 * Age + clock /\ clock <= MaxError + start
  /\ 2 * Age <= Spent - start + Owed

AwaitsFollowUp(start) ==
  /\ Within(delay, MaxError + start)
  /\ 0 <= SinceSync /\ SinceSync <= Age
  /\ 0 <= MaxError + start + 2 * (Age - SinceSync) + clock /\ clock <= MaxError + start
  /\ 2 * Age + Period <= Spent - start + Owed

AwaitsResponse(start) ==
  /\ SinceAsk = 0 \/ SinceAsk >= Period
  /\ SinceAsk <= SinceSync /\ SinceAsk <= Age
  /\ SinceSync - SinceAsk <= start + Age - SinceAsk
  /\ 0 <= MaxError + start + 2 * (Age - SinceAsk) + clock /\ clock <= MaxError + start
  /\ 2 * Age + Period <= Spent - start + Owed
  /\ SinceAsk < Age => 2 * Age + 2 * Period <= Spent - start + Owed

Settled ==
  /\ Within(clock, MaxError + Spent) /\ Within(delay, MaxError + Spent)
  /\ step = "sync" /\ myRequest.type = "SYNC" => \E start \in 0..Spent : OldSync(start)
  /\ step = "followUp" => \E start \in 0..Spent : AwaitsFollowUp(start)
  /\ step = "response" => \E start \in 0..Spent : AwaitsResponse(start)

ErrorInv == Unset \/ Settled

-----------------------------------------------------------------------------
(* Numbers and messages *)

LEMMA HalfIs ==
  ASSUME NEW x \in Int
  PROVE  /\ Half(x) \in Int
         /\ x - 1 <= 2 * Half(x) /\ 2 * Half(x) <= x + 1
         /\ Half(2 * x) = x
<1>1. /\ x \div 2 \in Int /\ (-x) \div 2 \in Int
      /\ x >= 0 => x - 1 <= 2 * (x \div 2) /\ 2 * (x \div 2) <= x
      /\ x < 0 => (-x) - 1 <= 2 * ((-x) \div 2) /\ 2 * ((-x) \div 2) <= -x
  OBVIOUS
<1>2. Half(2 * x) = x
  BY DEF Half
<1> QED
  BY <1>1, <1>2 DEF Half

LEMMA SpentIs ==
  ASSUME TypeOK
  PROVE  /\ Spent \in Nat
         /\ faults' = faults => Spent' = Spent
         /\ faults' = faults + 1 => Spent' = Spent + Period
         /\ Period \in Nat \ {0} /\ Threshold \in Nat /\ MaxError \in Nat
<1>1. /\ Period \in Nat \ {0} /\ Threshold \in Nat /\ MaxError \in Nat /\ MaxFaults \in Nat
      /\ faults \in Nat
  BY PtpAssumption DEF TypeOK
<1>2. \A f \in Nat : Period * f \in Nat /\ Period * (f + 1) = Period * f + Period
  BY <1>1
<1> QED
  BY <1>1, <1>2 DEF Spent

LEMMA EmptyQueue ==
  \A q \in Seq(Messages) : Len(q) \in Nat /\ (q = <<>> <=> Len(q) = 0)
  BY EmptySeq, LenProperties

(* Taking the first message and putting one in between. *)
LEMMA QueueTail ==
  ASSUME NEW q, Queue(q), q # <<>>
  PROVE  /\ Head(q) \in Messages /\ Head(q).seconds = 0 /\ Queue(Tail(q))
         /\ Head(q).type = "SYNC" => Tail(q) # <<>>
         /\ Len(Tail(q)) = Len(q) - 1
<1>1. /\ Tail(q) \in Seq(Messages) /\ Head(q) \in Messages /\ Head(q) = q[1]
      /\ Len(Tail(q)) = Len(q) - 1 /\ Len(q) \in Nat \ {0}
      /\ \A i \in 1..Len(Tail(q)) : Tail(q)[i] = q[i + 1]
  BY HeadTailProperties, EmptyQueue DEF Queue
<1>2. Tail(q) # <<>> <=> Len(q) # 1
  <2> DEFINE t == Tail(q)
  <2>1. t \in Seq(Messages) /\ Len(t) = Len(q) - 1 /\ Len(q) \in Nat
    BY <1>1
  <2> HIDE DEF t
  <2>2. t = <<>> <=> Len(t) = 0
    BY <2>1, EmptyQueue
  <2> QED
    BY <2>1, <2>2 DEF t
<1>3. q[Len(q)].type # "SYNC"
  BY DEF Queue
<1>4. \A i \in 1..Len(Tail(q)) : Tail(q)[i].seconds = 0
  BY <1>1 DEF Queue
<1>5. Tail(q) # <<>> => Tail(q)[Len(Tail(q))].type # "SYNC"
  BY <1>1, <1>2, <1>3
<1>6. Head(q).seconds = 0
  BY <1>1 DEF Queue
<1>7. Head(q).type = "SYNC" => Tail(q) # <<>>
  BY <1>1, <1>2, <1>3
<1> QED
  BY <1>1, <1>4, <1>5, <1>6, <1>7 DEF Queue

LEMMA QueueInsert ==
  ASSUME NEW q, Queue(q), NEW k \in 1..(Len(q) + 1), NEW m \in Messages,
         m.seconds = 0, m.type # "SYNC"
  PROVE  /\ Queue(InsertAt(q, k, m))
         /\ Len(InsertAt(q, k, m)) = Len(q) + 1 /\ InsertAt(q, k, m) # <<>>
<1> DEFINE b == SubSeq(q, 1, k - 1)
           c == SubSeq(q, k, Len(q))
           o == <<m>>
           r == b \o o \o c
<1>1. Len(q) \in Nat /\ q \in Seq(Messages)
  BY LenProperties DEF Queue
<1>2. /\ b \in Seq(Messages) /\ Len(b) = k - 1 /\ \A i \in 1..(k - 1) : b[i] = q[i]
      /\ c \in Seq(Messages) /\ Len(c) = Len(q) - k + 1
      /\ \A i \in 1..(Len(q) - k + 1) : c[i] = q[k + i - 1]
  BY <1>1, SubSeqProperties
<1>a. o \in Seq(Messages) /\ Len(o) = 1 /\ o[1] = m
  OBVIOUS
<1> HIDE DEF o
<1>b. /\ b \o o \in Seq(Messages) /\ Len(b \o o) = k
      /\ \A i \in 1..k : (b \o o)[i] = IF i < k THEN q[i] ELSE m
  <2> HIDE DEF b
  <2>0. Len(b) + Len(o) = k
    BY <1>1, <1>2, <1>a
  <2>1. /\ b \o o \in Seq(Messages) /\ Len(b \o o) = k
        /\ \A i \in 1..k : (b \o o)[i] = IF i <= k - 1 THEN b[i] ELSE o[i - (k - 1)]
    <3>1. /\ b \o o \in Seq(Messages) /\ Len(b \o o) = Len(b) + Len(o)
          /\ \A i \in 1..(Len(b) + Len(o)) :
               (b \o o)[i] = IF i <= Len(b) THEN b[i] ELSE o[i - Len(b)]
      <4>1. b \in Seq(Messages) /\ o \in Seq(Messages)
        BY <1>2, <1>a
      <4> QED
        BY <4>1, ConcatProperties, Zenon
    <3>2. Len(b) = k - 1
      BY <1>2
    <3> QED
      BY <2>0, <3>1, <3>2
  <2>2. ASSUME NEW i \in 1..k
        PROVE  (b \o o)[i] = IF i < k THEN q[i] ELSE m
    <3>1. CASE i < k
      BY <1>1, <1>2, <2>1, <3>1
    <3>2. CASE ~(i < k)
      <4>1. i - (k - 1) = 1 /\ ~(i <= k - 1)
        BY <1>1, <3>2
      <4> QED
        BY <1>a, <2>1, <3>2, <4>1
    <3> QED
      BY <3>1, <3>2
  <2> QED
    BY <2>1, <2>2
<1>3. /\ r \in Seq(Messages) /\ Len(r) = Len(q) + 1
      /\ \A i \in 1..(Len(q) + 1) :
           r[i] = IF i < k THEN q[i] ELSE IF i = k THEN m ELSE q[i - 1]
  <2> DEFINE bm == b \o o
  <2>1. /\ bm \in Seq(Messages) /\ Len(bm) = k /\ c \in Seq(Messages) /\ Len(c) = Len(q) - k + 1
        /\ \A i \in 1..k : bm[i] = IF i < k THEN q[i] ELSE m
        /\ \A i \in 1..(Len(q) - k + 1) : c[i] = q[k + i - 1]
        /\ r = bm \o c
    BY <1>2, <1>b
  <2> HIDE DEF bm, b, c, r
  <2>2. /\ r \in Seq(Messages) /\ Len(r) = Len(q) + 1
        /\ \A i \in 1..(Len(q) + 1) : r[i] = IF i <= k THEN bm[i] ELSE c[i - k]
    BY <1>1, <2>1, ConcatProperties
  <2>3. ASSUME NEW i \in 1..(Len(q) + 1)
        PROVE  r[i] = IF i < k THEN q[i] ELSE IF i = k THEN m ELSE q[i - 1]
    <3>1. CASE i <= k
      BY <1>1, <2>1, <2>2, <3>1
    <3>2. CASE ~(i <= k)
      <4>1. i - k \in 1..(Len(q) - k + 1) /\ k + (i - k) - 1 = i - 1
        BY <1>1, <3>2
      <4> QED
        BY <1>1, <2>1, <2>2, <3>2, <4>1
    <3> QED
      BY <3>1, <3>2
  <2> QED
    BY <2>2, <2>3
<1> HIDE DEF r, b, c
<1>4. \A i \in 1..Len(r) : r[i].seconds = 0
  <2>1. ASSUME NEW i \in 1..Len(r)
        PROVE  r[i].seconds = 0
    <3>1. i < k => i \in 1..Len(q)
      BY <1>1, <1>3
    <3>2. i > k => i - 1 \in 1..Len(q)
      BY <1>1, <1>3
    <3>3. r[i] = m \/ \E j \in 1..Len(q) : r[i] = q[j]
      BY <1>1, <1>3, <3>1, <3>2
    <3> QED
      BY <3>3 DEF Queue
  <2> QED
    BY <2>1
<1>5. r[Len(r)].type # "SYNC"
  <2>1. CASE k = Len(q) + 1
    BY <1>1, <1>3, <2>1
  <2>2. CASE k # Len(q) + 1
    <3>1. Len(q) # 0 /\ Len(r) > k /\ Len(r) - 1 = Len(q) /\ Len(r) \in 1..(Len(q) + 1)
      BY <1>1, <1>3, <2>2
    <3>2. r[Len(r)] = q[Len(q)]
      BY <1>1, <1>3, <3>1
    <3> QED
      BY <1>1, <3>1, <3>2, EmptyQueue DEF Queue
  <2> QED
    BY <2>1, <2>2
<1>6. InsertAt(q, k, m) = r
  BY DEF InsertAt, r, b, c, o
<1>7. r # <<>>
  BY <1>1, <1>3, EmptyQueue
<1> QED
  BY <1>3, <1>4, <1>5, <1>6, <1>7 DEF Queue

LEMMA OwedIs ==
  ASSUME TypeInv
  PROVE  /\ Owed \in Int /\ 0 <= Owed /\ Owed <= 2 * Period
         /\ due = <<>> => Owed = 0
         /\ due # <<>> => Owed >= Period
  BY SpentIs, EmptyQueue DEF Owed, TypeInv, DueInv, Queue

LEMMA OwedNext ==
  ASSUME TypeInv'
  PROVE  /\ Owed' \in Int /\ 0 <= Owed' /\ Owed' <= 2 * Period
         /\ due' # <<>> => Owed' >= Period
  BY PtpAssumption, EmptyQueue DEF Owed, TypeInv, DueInv, Queue

LEMMA OwedChange ==
  ASSUME TypeInv, TypeInv'
  PROVE  /\ due' = due => Owed' = Owed
         /\ due # <<>> /\ due' = Tail(due) => Owed' >= Owed - Period
         /\ due' # <<>> /\ Len(due') = Len(due) + 1 => Owed' >= Owed
<1>1. /\ due \in Seq(Messages) /\ due' \in Seq(Messages) /\ Period \in Nat \ {0}
      /\ Len(due) \in Nat /\ Len(due') \in Nat
      /\ due = <<>> <=> Len(due) = 0
      /\ due' = <<>> <=> Len(due') = 0
  BY SpentIs, EmptyQueue DEF TypeInv, DueInv, Queue
<1>2. due # <<>> => Len(Tail(due)) = Len(due) - 1
  BY <1>1, HeadTailProperties
<1>3. due # <<>> /\ due' = Tail(due) => Len(due') = Len(due) - 1
  BY <1>2
<1>4. Owed' = IF Len(due') = 0 THEN 0 ELSE IF Len(due') = 1 THEN Period ELSE 2 * Period
  BY DEF Owed
<1>5. due' = due => Owed' = Owed
  BY <1>4 DEF Owed
<1>6. Len(due') = Len(due) - 1 => Owed' >= Owed - Period
  BY <1>1, <1>4 DEF Owed
<1>7. Len(due') = Len(due) + 1 => Owed' >= Owed
  BY <1>1, <1>4 DEF Owed
<1> QED
  BY <1>3, <1>5, <1>6, <1>7

-----------------------------------------------------------------------------
(* The steps: either a message is read, or none is and what was read last  *)
(* is taken for it; or a message is lost; or a period ends.                *)
Acts(m) == \/ OtherThanSync(m) \/ Jump(m) \/ Sync(m) \/ Response(m) \/ Ask(m)
           \/ \E again \in BOOLEAN : Reuse(m, again)

Reads(m) == /\ m \in Messages /\ m.seconds = 0
            /\ faults' = faults
            /\ Ask(m) \/ m.type = "SYNC" => due' # <<>>

Repeats(m) == /\ m = myRequest
              /\ faults' = faults + 1
              /\ \/ due' = due
                 \/ Ask(m) /\ due' # <<>> /\ Len(due') = Len(due) + 1

LEMMA ReturnedIs ==
  ASSUME NEW m, NEW rest, Queue(rest), Returned(m, rest)
  PROVE  /\ Acts(m) /\ Queue(due')
         /\ due' = rest \/ (Ask(m) /\ due' # <<>> /\ Len(due') = Len(rest) + 1)
         /\ Ask(m) => due' # <<>>
<1>1. CASE Ask(m) /\ \E k \in 1..(Len(rest) + 1) : due' = InsertAt(rest, k, Message("DELAY_RESP"))
  <2>1. /\ Message("DELAY_RESP") \in Messages
        /\ Message("DELAY_RESP").seconds = 0 /\ Message("DELAY_RESP").type # "SYNC"
    BY DEF Message, Messages, MessageTypes
  <2>2. PICK k \in 1..(Len(rest) + 1) : due' = InsertAt(rest, k, Message("DELAY_RESP"))
    BY <1>1
  <2>3. Queue(due') /\ due' # <<>> /\ Len(due') = Len(rest) + 1
    BY <2>1, <2>2, QueueInsert
  <2> QED
    BY <1>1, <2>3 DEF Acts
<1>2. CASE /\ \/ OtherThanSync(m) \/ Jump(m) \/ Sync(m) \/ Response(m)
              \/ \E again \in BOOLEAN : Reuse(m, again)
           /\ due' = rest
  <2>1. Ask(m) => FALSE
    BY <1>2 DEF Ask, OtherThanSync, Jump, Sync, Response, Reuse
  <2> QED
    BY <1>2, <2>1 DEF Acts
<1> QED
  BY <1>1, <1>2 DEF Returned

LEMMA StepsAre ==
  ASSUME TypeInv, Next
  PROVE  /\ Queue(due')
         /\ \/ \E m \in Messages : Acts(m) /\ (Reads(m) \/ Repeats(m))
            \/ Lose \/ NextPeriod
<1>1. Queue(due) /\ myRequest \in Messages
  BY DEF TypeInv, DueInv
<1>2. CASE Receive
  <2>1. /\ due # <<>> /\ Returned(Head(due), Tail(due)) /\ faults' = faults
    BY <1>2 DEF Receive
  <2>2. /\ Head(due) \in Messages /\ Head(due).seconds = 0 /\ Queue(Tail(due))
        /\ Head(due).type = "SYNC" => Tail(due) # <<>>
    BY <1>1, <2>1, QueueTail
  <2>3. /\ Acts(Head(due)) /\ Queue(due')
        /\ due' = Tail(due) \/ due' # <<>>
        /\ Ask(Head(due)) => due' # <<>>
    <3>1. ASSUME NEW m, NEW rest, m = Head(due), rest = Tail(due)
          PROVE  /\ Acts(m) /\ Queue(due')
                 /\ due' = rest \/ due' # <<>>
                 /\ Ask(m) => due' # <<>>
      <4>1. Queue(rest) /\ Returned(m, rest)
        BY <2>1, <2>2, <3>1
      <4> QED
        BY <4>1, ReturnedIs
    <3> QED
      BY <3>1
  <2> QED
    BY <2>1, <2>2, <2>3 DEF Reads
<1>3. CASE ReceiveFails
  <2>1. Returned(myRequest, due) /\ faults' = faults + 1
    BY <1>3 DEF ReceiveFails
  <2> QED
    BY <1>1, <2>1, ReturnedIs DEF Repeats
<1>4. CASE Lose
  BY <1>1, <1>4, QueueTail DEF Lose
<1>5. CASE NextPeriod
  <2> DEFINE q == <<Message("SYNC"), Message("FOLLOW_UP")>>
  <2>1. /\ Message("SYNC") \in Messages /\ Message("FOLLOW_UP") \in Messages
        /\ Message("SYNC").seconds = 0 /\ Message("FOLLOW_UP").seconds = 0
        /\ Message("FOLLOW_UP").type # "SYNC"
    BY DEF Message, Messages, MessageTypes
  <2>2. q \in Seq(Messages) /\ Len(q) = 2 /\ \A i \in 1..2 : q[i].seconds = 0
    BY <2>1
  <2>3. Queue(q)
    BY <2>1, <2>2 DEF Queue
  <2> QED
    BY <1>5, <2>3 DEF NextPeriod
<1> QED
  BY <1>2, <1>3, <1>4, <1>5 DEF Next

LEMMA TypesInit == Init => TypeInv
<1> SUFFICES ASSUME Init PROVE TypeInv
  OBVIOUS
<1>1. /\ clock \in Int /\ t1 = 0 /\ lag = 0 /\ t2 = 0 /\ delay = 0 /\ step = "sync"
      /\ measured = FALSE /\ paired = TRUE /\ faults \in 0..MaxFaults
  BY PtpAssumption DEF Init
<1>2. myRequest \in Messages
  BY DEF Init, Message, Messages, MessageTypes
<1>3. Queue(due)
  BY DEF Init, Queue
<1>4. {clock, t1, lag, t2, delay} \subseteq Int
  BY <1>1
<1>5. measured \in BOOLEAN /\ paired \in BOOLEAN
  BY <1>1
<1> QED
  BY <1>1, <1>2, <1>3, <1>4, <1>5 DEF TypeInv, TypeOK, DueInv

LEMMA TypesStep == TypeInv /\ [Next]_vars => TypeInv'
<1> SUFFICES ASSUME TypeInv, [Next]_vars PROVE TypeInv'
  OBVIOUS
<1>1. CASE UNCHANGED vars
  BY <1>1 DEF vars, TypeInv, TypeOK, DueInv
<1>2. ASSUME Next
      PROVE  TypeInv'
  <2>1. /\ clock \in Int /\ t1 \in Int /\ lag \in Int /\ t2 \in Int /\ delay \in Int
        /\ step \in {"sync", "followUp", "response"}
        /\ measured \in BOOLEAN /\ paired \in BOOLEAN /\ faults \in 0..MaxFaults
        /\ myRequest \in Messages /\ Period \in Int /\ MaxFaults \in Nat
    BY PtpAssumption DEF TypeInv, TypeOK
  <2>2. Queue(due')
    BY <1>2, StepsAre
  <2>3. ASSUME NEW m \in Messages, Acts(m)
        PROVE  /\ clock' \in Int /\ t1' \in Int /\ lag' \in Int /\ t2' \in Int /\ delay' \in Int
               /\ step' \in {"sync", "followUp", "response"}
               /\ measured' \in BOOLEAN /\ paired' \in BOOLEAN
               /\ myRequest' \in Messages
    <3>1. m.seconds \in Int
      BY DEF Messages
    <3>2. ASSUME NEW at \in Int, NEW d10 \in Int, NEW d23 \in Int, SetClock(at, d10, d23)
          PROVE  /\ clock' \in Int /\ t1' \in Int /\ lag' \in Int /\ t2' \in Int
                 /\ delay' \in Int /\ step' = "sync"
      BY <3>2, HalfIs DEF SetClock
    <3>3. CASE OtherThanSync(m) \/ Jump(m) \/ Sync(m)
      BY <2>1, <3>1, <3>3 DEF OtherThanSync, Jump, Sync
    <3>4. CASE Ask(m)
      <4>1. [m EXCEPT !.type = "DELAY_REQ"] \in Messages
        BY DEF Messages, MessageTypes
      <4> QED
        BY <2>1, <3>1, <3>4, <4>1 DEF Ask
    <3>5. CASE Response(m)
      <4>1. SetClock(t1, lag, t2 - m.seconds)
        BY <3>5 DEF Response
      <4> QED
        BY <2>1, <3>1, <3>2, <3>5, <4>1 DEF Response
    <3>6. ASSUME NEW again \in BOOLEAN, Reuse(m, again)
          PROVE  /\ clock' \in Int /\ t1' \in Int /\ lag' \in Int /\ t2' \in Int
                 /\ delay' \in Int /\ step' = "sync"
                 /\ measured' \in BOOLEAN /\ paired' \in BOOLEAN
                 /\ myRequest' \in Messages
      <4>1. SetClock(t1, t1 - m.seconds, delay)
        BY <3>6 DEF Reuse
      <4>2. t1 - m.seconds \in Int
        BY <2>1, <3>1
      <4> QED
        BY <2>1, <3>2, <3>6, <4>1, <4>2 DEF Reuse
    <3> QED
      BY <2>3, <3>3, <3>4, <3>5, <3>6 DEF Acts
  <2>4. CASE NextPeriod
    <3>1. myRequest' \in Messages
      BY <2>1, <2>4 DEF NextPeriod, Messages
    <3> QED
      BY <2>1, <2>2, <2>4, <3>1 DEF NextPeriod, TypeInv, TypeOK, DueInv
  <2>5. CASE Lose
    BY <2>1, <2>2, <2>5 DEF Lose, TypeInv, TypeOK, DueInv
  <2>6. ASSUME NEW m \in Messages, Acts(m)
        PROVE  TypeInv'
    <3>1. faults' \in 0..MaxFaults
      BY <1>2, <2>1, <2>4, <2>5 DEF Next, Receive, ReceiveFails, Lose, NextPeriod
    <3> QED
      BY <2>2, <2>3, <2>6, <3>1 DEF TypeInv, TypeOK, DueInv
  <2> QED
    BY <1>2, <2>4, <2>5, <2>6, StepsAre
<1> QED
  BY <1>1, <1>2

(* Every variable holds a value of its type. *)
THEOREM TypeCorrect == Safety => []TypeOK
<1>1. TypeInv => TypeOK
  BY DEF TypeInv
<1> QED
  BY <1>1, TypesInit, TypesStep, PTL DEF Safety
-----------------------------------------------------------------------------
(* The rounds *)

LEMMA Typed ==
  ASSUME TypeInv
  PROVE  /\ clock \in Int /\ t1 \in Int /\ lag \in Int /\ t2 \in Int /\ delay \in Int
         /\ step \in {"sync", "followUp", "response"} /\ paired \in BOOLEAN
         /\ myRequest \in Messages /\ myRequest.seconds \in Int /\ Age \in Int
         /\ Period \in Nat /\ Period > 0
  BY PtpAssumption DEF TypeInv, TypeOK, Messages, Age

(* What a step leaves in myRequest. *)
LEMMA LastRead ==
  ASSUME TypeInv, NEW m \in Messages, Acts(m)
  PROVE  /\ myRequest'.seconds = m.seconds
         /\ ~Ask(m) => myRequest' = m
         /\ Ask(m) => myRequest'.type = "DELAY_REQ"
  BY DEF Acts, OtherThanSync, Jump, Sync, Response, Ask, Reuse, Messages

LEMMA Ages ==
  ASSUME TypeInv, StepInv, Next
  PROVE  /\ Age' = 0 \/ Age' >= Period
         /\ NextPeriod /\ myRequest.type # "none" => Age' = Age + Period
         /\ NextPeriod => myRequest'.type = myRequest.type
         /\ Lose => myRequest' = myRequest
<1>1. Age \in Int /\ Period \in Nat /\ myRequest \in Messages /\ (Age = 0 \/ Age >= Period)
  BY Typed DEF StepInv
<1>2. ASSUME NEW m \in Messages, Acts(m), Reads(m) \/ Repeats(m)
      PROVE  Age' = 0 \/ Age' = Age
  BY <1>2, LastRead DEF Age, Reads, Repeats
<1>3. ASSUME NextPeriod
      PROVE  /\ Age' = IF myRequest.type = "none" THEN 0 ELSE Age + Period
             /\ myRequest'.type = myRequest.type
  <2>1. myRequest' = [myRequest EXCEPT !.seconds =
                        IF myRequest.type = "none" THEN 0 ELSE @ - Period]
    BY <1>3 DEF NextPeriod
  <2>2. /\ myRequest'.seconds = IF myRequest.type = "none" THEN 0 ELSE myRequest.seconds - Period
        /\ myRequest'.type = myRequest.type
    BY <1>1, <2>1 DEF Messages
  <2> QED
    BY <2>2, Typed DEF Age
<1>4. Lose => myRequest' = myRequest
  BY DEF Lose
<1> QED
  BY <1>1, <1>2, <1>3, <1>4, StepsAre, Typed DEF Age

LEMMA RoundsInit == Init => StepInv /\ PairedInv
<1>1. ASSUME Init
      PROVE  Age = 0 /\ step = "sync"
  <2>1. myRequest.seconds = 0 /\ step = "sync"
    BY <1>1 DEF Init, Message
  <2> QED
    BY <2>1 DEF Age
<1> QED
  BY <1>1 DEF StepInv, PairedInv

LEMMA RoundsStep == TypeInv /\ StepInv /\ PairedInv /\ [Next]_vars => StepInv' /\ PairedInv'
<1> SUFFICES ASSUME TypeInv, StepInv, PairedInv, [Next]_vars PROVE StepInv' /\ PairedInv'
  OBVIOUS
<1>1. CASE UNCHANGED vars
  BY <1>1 DEF vars, StepInv, PairedInv, Age
<1>2. ASSUME Next
      PROVE  StepInv' /\ PairedInv'
  <2>1. Age' = 0 \/ Age' >= Period
    BY <1>2, Ages
  <2>2. ASSUME NEW m \in Messages, Acts(m), Reads(m) \/ Repeats(m)
        PROVE  StepInv' /\ PairedInv'
    <3>1. m.seconds \in Int /\ myRequest'.seconds = m.seconds
      BY <2>2, LastRead DEF Messages
    <3>2. CASE OtherThanSync(m) \/ Jump(m)
      BY <2>1, <3>2 DEF OtherThanSync, Jump, StepInv, PairedInv
    <3>3. CASE Sync(m)
      BY <2>1, <3>3 DEF Sync, StepInv, PairedInv
    <3>4. CASE Ask(m)
      <4>1. step' = "response" /\ myRequest'.type = "DELAY_REQ"
        BY <2>2, <3>4, LastRead DEF Ask
      <4>2. lag' = t1' + Age'
        BY <3>1, <3>4, Typed DEF Ask, Age
      <4>3. ASSUME paired'
            PROVE  t1' = clock' /\ t2' = clock' /\ lag' = clock'
        <5>1. paired /\ m.type = "FOLLOW_UP" /\ step = "followUp"
          BY <3>4, <4>3 DEF Ask
        <5>2. m # myRequest
          BY <5>1 DEF StepInv
        <5>3. m.seconds = 0
          BY <2>2, <5>2 DEF Reads, Repeats
        <5> QED
          BY <3>4, <5>1, <5>3, Typed DEF Ask, PairedInv
      <4> QED
        BY <2>1, <4>1, <4>2, <4>3 DEF StepInv, PairedInv
    <3>5. CASE Response(m) \/ \E again \in BOOLEAN : Reuse(m, again)
      <4>1. step' = "sync"
        BY <3>5 DEF Response, Reuse, SetClock
      <4> QED
        BY <2>1, <4>1 DEF StepInv, PairedInv
    <3> QED
      BY <2>2, <3>2, <3>3, <3>4, <3>5 DEF Acts
  <2>3. CASE Lose
    BY <2>1, <2>3, Ages DEF Lose, StepInv, PairedInv, Age
  <2>4. CASE NextPeriod
    <3>1. step' = step /\ myRequest'.type = myRequest.type /\ lag' = lag
      BY <1>2, <2>4, Ages DEF NextPeriod
    <3>2. ASSUME step = "response"
          PROVE  lag' = t1' + Age'
      <4>1. Age' = Age + Period /\ t1' = t1 - Period /\ lag = t1 + Age
        BY <1>2, <2>4, <3>2, Ages DEF NextPeriod, StepInv
      <4> QED
        BY <3>1, <4>1, Typed
    <3>3. step # "sync" => ~paired'
      BY <2>4, Typed DEF NextPeriod
    <3> QED
      BY <2>1, <3>1, <3>2, <3>3 DEF StepInv, PairedInv
  <2> QED
    BY <1>2, <2>2, <2>3, <2>4, StepsAre
<1> QED
  BY <1>1, <1>2

(* A round that measures the delay and pairs its messages rightly sets the *)
(* clock to the master's time, whatever was lost before it and whichever   *)
(* delay an earlier round has left (PTPClient.cpp:80-137).                 *)
THEOREM MeasuredRoundsSetTheClock == Safety => MeasuredRoundSetsClock
<1>1. ASSUME TypeInv, StepInv, PairedInv, Next, step = "response", step' = "sync", paired'
      PROVE  clock' = 0
  <2>1. PICK m \in Messages : Response(m) /\ (Reads(m) \/ Repeats(m))
    <3>1. ~Lose /\ ~NextPeriod
      BY <1>1 DEF Lose, NextPeriod
    <3>2. PICK m \in Messages : Acts(m) /\ (Reads(m) \/ Repeats(m))
      BY <1>1, <3>1, StepsAre
    <3>3. Response(m)
      BY <1>1, <3>2 DEF Acts, OtherThanSync, Jump, Sync, Ask, Reuse
    <3> QED
      BY <3>2, <3>3
  <2>2. paired /\ m.type = "DELAY_RESP"
    BY <1>1, <2>1 DEF Response
  <2>3. m # myRequest
    BY <1>1, <2>2 DEF StepInv
  <2>4. m.seconds = 0
    BY <2>1, <2>3 DEF Reads, Repeats
  <2>5. t1 = clock /\ t2 = clock /\ lag = clock /\ clock \in Int
    BY <1>1, <2>2, Typed DEF PairedInv
  <2>6. clock' = clock - Half(clock + (clock - 0))
    BY <2>1, <2>4, <2>5 DEF Response, SetClock
  <2>7. clock + (clock - 0) = 2 * clock
    BY <2>5
  <2> QED
    BY <2>5, <2>6, <2>7, HalfIs
<1>2. TypeInv /\ StepInv /\ PairedInv /\ [Next]_vars
        => [step = "response" /\ step' = "sync" /\ paired' => clock' = 0]_vars
  BY <1>1
<1> QED
  BY <1>2, TypesInit, TypesStep, RoundsInit, RoundsStep, PTL DEF Safety, MeasuredRoundSetsClock
-----------------------------------------------------------------------------
(* The error *)

LEMMA Distance ==
  ASSUME NEW x \in Int
  PROVE  /\ Abs(x) \in Int /\ x <= Abs(x) /\ -x <= Abs(x)
         /\ \A b \in Int : Abs(x) <= b <=> Within(x, b)
  BY DEF Abs, Within

(* The values of what the clock is set to. *)
LEMMA SetTo ==
  ASSUME NEW at \in Int, NEW d10 \in Int, NEW d23 \in Int, SetClock(at, d10, d23)
  PROVE  /\ clock' \in Int /\ delay' = d23 /\ step' = "sync"
         /\ 2 * at - d10 - d23 - 1 <= 2 * clock' /\ 2 * clock' <= 2 * at - d10 - d23 + 1
<1>1. d10 + d23 \in Int
  OBVIOUS
<1>2. /\ Half(d10 + d23) \in Int
      /\ (d10 + d23) - 1 <= 2 * Half(d10 + d23) /\ 2 * Half(d10 + d23) <= (d10 + d23) + 1
  BY <1>1, HalfIs
<1> QED
  BY <1>2 DEF SetClock

(* Back to waiting for a SYNC, within the bounds: if a message was read    *)
(* now, all that has been spent lies before it.                            *)
LEMMA Anew ==
  ASSUME TypeInv, TypeInv', NEW m \in Messages, Reads(m), myRequest'.seconds = m.seconds,
         step' = "sync", Within(clock', MaxError + Spent), Within(delay', MaxError + Spent)
  PROVE  ErrorInv'
<1>1. TypeOK /\ faults' = faults /\ m.seconds = 0
  BY DEF Reads, TypeInv
<1>2. Spent \in Nat /\ Spent' = Spent /\ MaxError \in Nat
  BY <1>1, SpentIs
<1>3. Age' = 0
  BY <1>1 DEF Age
<1>4. PICK c \in Int, d \in Int, o \in Int : clock' = c /\ delay' = d /\ Owed' = o /\ 0 <= o
  BY OwedNext DEF TypeInv, TypeOK
<1>5. PICK start \in Nat : Spent = start
  BY <1>2
<1>6. OldSync(start)'
  BY <1>2, <1>3, <1>4, <1>5 DEF OldSync, Within
<1>7. start \in 0..Spent'
  BY <1>2, <1>5
<1>8. Within(clock', MaxError + Spent') /\ Within(delay', MaxError + Spent')
  BY <1>2
<1> QED
  BY <1>6, <1>7, <1>8 DEF ErrorInv, Settled

(* The numbers of a state and of the next one. *)
LEMMA Numbers ==
  ASSUME TypeInv, StepInv
  PROVE  /\ clock \in Int /\ t1 \in Int /\ lag \in Int /\ t2 \in Int /\ delay \in Int
         /\ Age \in Int /\ (Age = 0 \/ Age >= Period) /\ myRequest.seconds = 0 - Age
         /\ Spent \in Nat /\ Period \in Nat /\ Period > 0 /\ MaxError \in Nat
         /\ Owed \in Int /\ 0 <= Owed /\ Owed <= 2 * Period
         /\ due = <<>> => Owed = 0
         /\ due # <<>> => Owed >= Period
<1>1. TypeOK
  BY DEF TypeInv
<1>2. Age \in Int /\ myRequest.seconds = 0 - Age /\ (Age = 0 \/ Age >= Period)
  BY Typed DEF Age, StepInv
<1> QED
  BY <1>1, <1>2, Typed, SpentIs, OwedIs

(* Nothing is read: Age and what is owed stay. *)
LEMMA Repeated ==
  ASSUME TypeInv, TypeInv', NEW m \in Messages, Acts(m), Repeats(m)
  PROVE  /\ Spent' = Spent + Period /\ Age' = Age
         /\ ~Ask(m) => Owed' = Owed
         /\ Ask(m) => Owed' >= Owed
<1>1. Spent' = Spent + Period
  BY SpentIs DEF Repeats, TypeInv
<1>2. Age' = Age
  BY LastRead DEF Repeats, Age
<1>3. due' = due \/ (Ask(m) /\ due' # <<>> /\ Len(due') = Len(due) + 1)
  BY DEF Repeats
<1>4. due' = due => Owed' = Owed
  BY OwedChange
<1>5. due' # <<>> /\ Len(due') = Len(due) + 1 => Owed' >= Owed
  BY OwedChange
<1>6. Owed \in Int
  BY OwedIs
<1> QED
  BY <1>1, <1>2, <1>3, <1>4, <1>5, <1>6

LEMMA SyncError ==
  ASSUME TypeInv, TypeInv', StepInv, ErrorInv, NEW m \in Messages, Sync(m),
         Reads(m) \/ Repeats(m)
  PROVE  ErrorInv'
<1>0. /\ clock \in Int /\ t1 \in Int /\ lag \in Int /\ t2 \in Int /\ delay \in Int
      /\ Age \in Int /\ (Age = 0 \/ Age >= Period) /\ myRequest.seconds = 0 - Age
      /\ Spent \in Nat /\ Period \in Nat /\ Period > 0 /\ MaxError \in Nat
      /\ Owed \in Int /\ 0 <= Owed /\ Owed <= 2 * Period
      /\ due = <<>> => Owed = 0
      /\ due # <<>> => Owed >= Period
  BY Numbers
<1>1. /\ clock' = clock /\ delay' = delay /\ t1' = clock /\ step' = "followUp" /\ step = "sync"
      /\ m.type = "SYNC" /\ Acts(m) /\ ~Ask(m)
  BY DEF Sync, Acts, Ask
<1>2. Settled
  <2>1. ASSUME Unset
        PROVE  FALSE
    <3>1. myRequest # m
      BY <1>1, <2>1 DEF Unset
    <3>2. m.seconds = 0 /\ clock \in Int
      BY <1>0, <3>1 DEF Reads, Repeats
    <3>3. Abs(0 - clock) <= Threshold
      BY <3>2 DEF Sync
    <3> QED
      BY <2>1, <3>2, <3>3, PtpAssumption DEF Unset, Abs
  <2> QED
    BY <2>1 DEF ErrorInv
<1>3. SinceSync' = 0
  BY <1>0, <1>1 DEF SinceSync
<1>4. ASSUME NEW start \in 0..Spent', AwaitsFollowUp(start)',
             Within(clock', MaxError + Spent'), Within(delay', MaxError + Spent')
      PROVE  ErrorInv'
  BY <1>1, <1>4 DEF ErrorInv, Settled
<1>5. CASE Reads(m)
  <2>1. Spent' = Spent /\ Age' = 0
    <3>1. TypeOK /\ faults' = faults /\ myRequest'.seconds = 0
      BY <1>1, <1>5, LastRead DEF Reads, TypeInv
    <3> QED
      BY <3>1, SpentIs DEF Age
  <2>2. PICK o \in Int : Owed' = o /\ Period <= o
    BY <1>1, <1>5, OwedNext DEF Reads
  <2>3. PICK start \in Nat : Spent = start
    BY <1>0
  <2>4. Within(clock', MaxError + Spent') /\ Within(delay', MaxError + Spent')
    BY <1>1, <1>2, <2>1 DEF Settled
  <2>5. AwaitsFollowUp(start)'
    BY <1>0, <1>1, <1>2, <1>3, <2>1, <2>2, <2>3 DEF AwaitsFollowUp, Settled, Within
  <2> QED
    BY <1>4, <2>1, <2>3, <2>4, <2>5
<1>6. CASE Repeats(m)
  <2>1. Spent' = Spent + Period /\ Age' = Age /\ Owed' = Owed
    BY <1>1, <1>6, Repeated
  <2>2. PICK start \in 0..Spent : OldSync(start)
    BY <1>1, <1>2, <1>6 DEF Settled, Repeats
  <2>3. Within(clock', MaxError + Spent') /\ Within(delay', MaxError + Spent')
    BY <1>0, <1>1, <1>2, <2>1 DEF Settled, Within
  <2>4. AwaitsFollowUp(start)'
    BY <1>0, <1>1, <1>3, <2>1, <2>2 DEF AwaitsFollowUp, OldSync, Within
  <2>5. start \in 0..Spent'
    BY <1>0, <2>1, <2>2
  <2> QED
    BY <1>4, <2>3, <2>4, <2>5
<1> QED
  BY <1>5, <1>6

LEMMA JumpError ==
  ASSUME TypeInv, TypeInv', StepInv, ErrorInv, NEW m \in Messages, Jump(m),
         Reads(m) \/ Repeats(m)
  PROVE  ErrorInv'
<1>0. /\ clock \in Int /\ t1 \in Int /\ lag \in Int /\ t2 \in Int /\ delay \in Int
      /\ Age \in Int /\ (Age = 0 \/ Age >= Period) /\ myRequest.seconds = 0 - Age
      /\ Spent \in Nat /\ Period \in Nat /\ Period > 0 /\ MaxError \in Nat
      /\ Owed \in Int /\ 0 <= Owed /\ Owed <= 2 * Period
      /\ due = <<>> => Owed = 0
      /\ due # <<>> => Owed >= Period
  BY Numbers
<1>1. /\ clock' = m.seconds /\ delay' = delay /\ step' = "sync" /\ step = "sync"
      /\ m.type = "SYNC" /\ Acts(m) /\ ~Ask(m) /\ myRequest' = m
  BY DEF Jump, Acts, Ask
<1>2. CASE Reads(m)
  <2>1. clock' = 0 /\ myRequest'.seconds = m.seconds
    BY <1>1, <1>2 DEF Reads
  <2>2. Within(delay, MaxError + Spent)
    BY <1>0 DEF ErrorInv, Unset, Settled, Within
  <2>3. Within(clock', MaxError + Spent) /\ Within(delay', MaxError + Spent)
    BY <1>0, <1>1, <2>1, <2>2 DEF Within
  <2> QED
    BY <1>1, <1>2, <2>1, <2>3, Anew
<1>3. CASE Repeats(m)
  <2>1. Settled
    BY <1>1, <1>3 DEF ErrorInv, Unset, Repeats
  <2>2. Spent' = Spent + Period /\ Age' = Age /\ Owed' = Owed
    BY <1>1, <1>3, Repeated
  <2>3. PICK start \in 0..Spent : OldSync(start)
    BY <1>1, <1>3, <2>1 DEF Settled, Repeats
  <2>4. clock' = 0 - Age
    BY <1>0, <1>1, <1>3 DEF Repeats
  <2>5. 0 <= Age /\ Age <= Spent + Period
    BY <1>0, <2>3 DEF OldSync
  <2>6. OldSync(start)'
    BY <1>0, <1>1, <2>2, <2>3, <2>4, <2>5 DEF OldSync, Within
  <2>7. Within(clock', MaxError + Spent') /\ Within(delay', MaxError + Spent')
    BY <1>0, <1>1, <2>1, <2>2, <2>4, <2>5 DEF Settled, Within
  <2>8. start \in 0..Spent'
    BY <1>0, <2>2, <2>3
  <2> QED
    BY <1>1, <2>6, <2>7, <2>8 DEF ErrorInv, Settled
<1> QED
  BY <1>2, <1>3

LEMMA OtherError ==
  ASSUME TypeInv, TypeInv', StepInv, ErrorInv, NEW m \in Messages, OtherThanSync(m),
         Reads(m) \/ Repeats(m)
  PROVE  ErrorInv'
<1>0. /\ clock \in Int /\ t1 \in Int /\ lag \in Int /\ t2 \in Int /\ delay \in Int
      /\ Age \in Int /\ (Age = 0 \/ Age >= Period) /\ myRequest.seconds = 0 - Age
      /\ Spent \in Nat /\ Period \in Nat /\ Period > 0 /\ MaxError \in Nat
      /\ Owed \in Int /\ 0 <= Owed /\ Owed <= 2 * Period
      /\ due = <<>> => Owed = 0
      /\ due # <<>> => Owed >= Period
  BY Numbers
<1>1. /\ clock' = clock /\ delay' = delay /\ step' = "sync" /\ myRequest'.type # "SYNC"
      /\ Spent' >= Spent
  BY SpentIs DEF OtherThanSync, Reads, Repeats, TypeInv
<1>2. Unset => Unset'
  BY <1>1 DEF Unset
<1>3. ASSUME Settled
      PROVE  Settled'
  <2>1. PICK s \in Nat : Spent' = s /\ Spent <= s
    BY <1>1, SpentIs DEF Reads, Repeats, TypeInv
  <2>2. Within(clock', MaxError + Spent') /\ Within(delay', MaxError + Spent')
    BY <1>0, <1>1, <1>3, <2>1 DEF Settled, Within
  <2> QED
    BY <1>1, <2>2 DEF Settled
<1> QED
  BY <1>2, <1>3 DEF ErrorInv

(* What is known of a message that is read now. *)
LEMMA ReadNow ==
  ASSUME TypeInv, TypeInv', NEW m \in Messages, Acts(m), Reads(m)
  PROVE  Spent' = Spent /\ Age' = 0 /\ m.seconds = 0 /\ (Ask(m) => Period <= Owed')
<1>1. TypeOK /\ faults' = faults /\ myRequest'.seconds = 0 /\ m.seconds = 0
  BY LastRead DEF Reads, TypeInv
<1> QED
  BY <1>1, SpentIs, OwedNext DEF Age, Reads

LEMMA AskError ==
  ASSUME TypeInv, TypeInv', StepInv, ErrorInv, NEW m \in Messages, Ask(m),
         Reads(m) \/ Repeats(m)
  PROVE  ErrorInv'
<1>0. /\ clock \in Int /\ t1 \in Int /\ lag \in Int /\ t2 \in Int /\ delay \in Int
      /\ Age \in Int /\ (Age = 0 \/ Age >= Period) /\ myRequest.seconds = 0 - Age
      /\ Spent \in Nat /\ Period \in Nat /\ Period > 0 /\ MaxError \in Nat
      /\ Owed \in Int /\ 0 <= Owed /\ Owed <= 2 * Period
      /\ due = <<>> => Owed = 0
      /\ due # <<>> => Owed >= Period
  BY Numbers
<1>1. /\ clock' = clock /\ delay' = delay /\ t1' = t1 /\ t2' = clock
      /\ step' = "response" /\ step = "followUp" /\ Acts(m)
  BY DEF Ask, Acts
<1>2. Settled
  BY <1>1 DEF ErrorInv, Unset
<1>3. PICK start \in 0..Spent : AwaitsFollowUp(start)
  BY <1>1, <1>2 DEF Settled
<1>4. PICK b \in Int : SinceSync = b
  BY <1>0 DEF SinceSync
<1>5. /\ 0 <= b /\ b <= Age /\ clock <= MaxError + start
      /\ 0 <= MaxError + start + 2 * (Age - b) + clock
      /\ 2 * Age + Period <= Spent - start + Owed
  BY <1>3, <1>4 DEF AwaitsFollowUp
<1>6. SinceSync' = b /\ SinceAsk' = 0
  BY <1>0, <1>1, <1>4 DEF SinceSync, SinceAsk
<1>7. ASSUME NEW s \in 0..Spent', AwaitsResponse(s)',
             Within(clock', MaxError + Spent'), Within(delay', MaxError + Spent')
      PROVE  ErrorInv'
  BY <1>1, <1>7 DEF ErrorInv, Settled
<1>8. CASE Reads(m)
  <2>1. Spent' = Spent /\ Age' = 0
    BY <1>1, <1>8, ReadNow
  <2>2. PICK o \in Int : Owed' = o /\ Period <= o
    BY <1>1, <1>8, OwedNext DEF Reads
  <2>3. PICK s \in Nat : Spent = s
    BY <1>0
  <2>4. Within(clock', MaxError + Spent') /\ Within(delay', MaxError + Spent')
    BY <1>1, <1>2, <2>1 DEF Settled
  <2>5. b <= s /\ Within(clock, MaxError + s)
    <3>1. b <= s
      BY <1>0, <1>5, <2>3
    <3> QED
      BY <1>2, <2>3, <3>1 DEF Settled
  <2>6. AwaitsResponse(s)'
    BY <1>0, <1>1, <1>5, <1>6, <2>1, <2>2, <2>3, <2>5 DEF AwaitsResponse, Within
  <2> QED
    BY <1>7, <2>1, <2>3, <2>4, <2>6
<1>9. CASE Repeats(m)
  <2>1. Spent' = Spent + Period /\ Age' = Age /\ Owed' >= Owed
    BY <1>1, <1>9, Repeated
  <2>2. PICK o \in Int : Owed' = o /\ o >= Owed
    BY <2>1, OwedNext
  <2>3. Within(clock', MaxError + Spent') /\ Within(delay', MaxError + Spent')
    BY <1>0, <1>1, <1>2, <2>1 DEF Settled, Within
  <2>4. AwaitsResponse(start)'
    BY <1>0, <1>1, <1>5, <1>6, <2>1, <2>2 DEF AwaitsResponse
  <2>5. start \in 0..Spent'
    BY <1>0, <2>1
  <2> QED
    BY <1>7, <2>3, <2>4, <2>5
<1> QED
  BY <1>8, <1>9

LEMMA ReuseError ==
  ASSUME TypeInv, TypeInv', StepInv, ErrorInv, NEW m \in Messages, NEW again \in BOOLEAN,
         Reuse(m, again), Reads(m) \/ Repeats(m)
  PROVE  ErrorInv'
<1>0. /\ clock \in Int /\ t1 \in Int /\ lag \in Int /\ t2 \in Int /\ delay \in Int
      /\ Age \in Int /\ (Age = 0 \/ Age >= Period) /\ myRequest.seconds = 0 - Age
      /\ Spent \in Nat /\ Period \in Nat /\ Period > 0 /\ MaxError \in Nat
      /\ Owed \in Int /\ 0 <= Owed /\ Owed <= 2 * Period
      /\ due = <<>> => Owed = 0
      /\ due # <<>> => Owed >= Period
  BY Numbers
<1>1. /\ SetClock(t1, t1 - m.seconds, delay)
      /\ step = "followUp" /\ Acts(m) /\ ~Ask(m) /\ myRequest' = m
  BY DEF Reuse, Acts, Ask
<1>2. Settled /\ myRequest.type = "SYNC"
  BY <1>1 DEF ErrorInv, Unset, StepInv
<1>3. PICK start \in 0..Spent : AwaitsFollowUp(start)
  BY <1>1, <1>2 DEF Settled
<1>4. PICK b \in Int : SinceSync = b /\ t1 = clock - b
  BY <1>0 DEF SinceSync
<1>5. /\ 0 <= b /\ b <= Age /\ clock <= MaxError + start
      /\ 0 <= MaxError + start + 2 * (Age - b) + clock
      /\ 0 <= MaxError + start + delay /\ delay <= MaxError + start
      /\ 2 * Age + Period <= Spent - start + Owed
  BY <1>3, <1>4 DEF AwaitsFollowUp, Within
<1>6. m.seconds \in Int /\ t1 - m.seconds \in Int
  BY <1>0 DEF Messages
<1>7. PICK c \in Int : /\ clock' = c /\ delay' = delay /\ step' = "sync"
                       /\ 2 * t1 - (t1 - m.seconds) - delay - 1 <= 2 * c
                       /\ 2 * c <= 2 * t1 - (t1 - m.seconds) - delay + 1
  <2>1. /\ clock' \in Int /\ delay' = delay /\ step' = "sync"
        /\ 2 * t1 - (t1 - m.seconds) - delay - 1 <= 2 * clock'
        /\ 2 * clock' <= 2 * t1 - (t1 - m.seconds) - delay + 1
    BY <1>0, <1>1, <1>6, SetTo
  <2>2. PICK c \in Int : clock' = c
    BY <2>1
  <2> QED
    BY <2>1, <2>2
<1>8. CASE Reads(m)
  <2>1. m.seconds = 0
    BY <1>8 DEF Reads
  <2>2. clock - b - delay - 1 <= 2 * c /\ 2 * c <= clock - b - delay + 1
    BY <1>0, <1>4, <1>7, <2>1
  <2>3. Age = 0 \/ Period <= Spent - start
    BY <1>0, <1>5
  <2>4. 2 * Age <= 2 * (Spent - start)
    BY <1>0, <1>5, <2>3
  <2>5. 0 <= MaxError + Spent + c /\ c <= MaxError + Spent
    BY <1>0, <1>5, <2>2, <2>4
  <2>6. Within(clock', MaxError + Spent) /\ Within(delay', MaxError + Spent)
    BY <1>2, <1>7, <2>5 DEF Settled, Within
  <2> QED
    BY <1>1, <1>7, <1>8, <2>6, Anew
<1>9. CASE Repeats(m)
  <2>1. Spent' = Spent + Period /\ Age' = Age /\ Owed' = Owed
    BY <1>1, <1>9, Repeated
  <2>2. m.seconds = 0 - Age
    BY <1>0, <1>9 DEF Repeats
  <2>3. clock - b - Age - delay - 1 <= 2 * c /\ 2 * c <= clock - b - Age - delay + 1
    BY <1>0, <1>4, <1>7, <2>2
  <2>4. 2 * Age <= (Spent + Period) - start
    BY <1>0, <1>5
  <2>5. c <= MaxError + start /\ 0 <= MaxError + start + 2 * Age + c
    BY <1>0, <1>5, <2>3
  <2>6. 0 <= MaxError + (Spent + Period) + c
    BY <1>0, <1>5, <2>3, <2>4
  <2>7. Within(clock', MaxError + Spent') /\ Within(delay', MaxError + Spent')
    BY <1>0, <1>2, <1>7, <2>1, <2>5, <2>6 DEF Settled, Within
  <2>8. OldSync(start)'
    BY <1>0, <1>5, <1>7, <2>1, <2>4, <2>5 DEF OldSync, Within
  <2>9. start \in 0..Spent'
    BY <1>0, <2>1
  <2> QED
    BY <1>7, <2>7, <2>8, <2>9 DEF ErrorInv, Settled
<1> QED
  BY <1>8, <1>9

LEMMA ResponseError ==
  ASSUME TypeInv, TypeInv', StepInv, ErrorInv, NEW m \in Messages, Response(m),
         Reads(m) \/ Repeats(m)
  PROVE  ErrorInv'
<1>0. /\ clock \in Int /\ t1 \in Int /\ lag \in Int /\ t2 \in Int /\ delay \in Int
      /\ Age \in Int /\ (Age = 0 \/ Age >= Period) /\ myRequest.seconds = 0 - Age
      /\ Spent \in Nat /\ Period \in Nat /\ Period > 0 /\ MaxError \in Nat
      /\ Owed \in Int /\ 0 <= Owed /\ Owed <= 2 * Period
      /\ due = <<>> => Owed = 0
      /\ due # <<>> => Owed >= Period
  BY Numbers
<1>1. /\ SetClock(t1, lag, t2 - m.seconds)
      /\ step = "response" /\ Acts(m) /\ ~Ask(m) /\ myRequest' = m
  BY DEF Response, Acts, Ask
<1>2. Settled /\ myRequest.type = "DELAY_REQ" /\ lag = t1 + Age
  BY <1>1 DEF ErrorInv, Unset, StepInv
<1>3. PICK start \in 0..Spent : AwaitsResponse(start)
  BY <1>1, <1>2 DEF Settled
<1>4. PICK b \in Int : SinceSync = b /\ t1 = clock - b
  BY <1>0 DEF SinceSync
<1>5. PICK r \in Int : SinceAsk = r /\ t2 = clock - r
  BY <1>0 DEF SinceAsk
<1>6. /\ r = 0 \/ r >= Period
      /\ r <= b /\ r <= Age /\ b - r <= start + Age - r
      /\ 0 <= MaxError + start + 2 * (Age - r) + clock /\ clock <= MaxError + start
      /\ 2 * Age + Period <= Spent - start + Owed
      /\ r < Age => 2 * Age + 2 * Period <= Spent - start + Owed
  BY <1>3, <1>4, <1>5 DEF AwaitsResponse
<1>7. m.seconds \in Int /\ t2 - m.seconds \in Int
  BY <1>0 DEF Messages
<1>8. PICK c \in Int : /\ clock' = c /\ delay' = t2 - m.seconds /\ step' = "sync"
                       /\ 2 * t1 - lag - (t2 - m.seconds) - 1 <= 2 * c
                       /\ 2 * c <= 2 * t1 - lag - (t2 - m.seconds) + 1
  <2>1. /\ clock' \in Int /\ delay' = t2 - m.seconds /\ step' = "sync"
        /\ 2 * t1 - lag - (t2 - m.seconds) - 1 <= 2 * clock'
        /\ 2 * clock' <= 2 * t1 - lag - (t2 - m.seconds) + 1
    BY <1>0, <1>1, <1>7, SetTo
  <2>2. PICK c \in Int : clock' = c
    BY <2>1
  <2> QED
    BY <2>1, <2>2
<1>9. CASE Reads(m)
  <2>1. m.seconds = 0
    BY <1>9 DEF Reads
  <2>2. r - b - Age - 1 <= 2 * c /\ 2 * c <= r - b - Age + 1 /\ delay' = clock - r
    BY <1>0, <1>2, <1>4, <1>5, <1>8, <2>1
  <2>3. start + 2 * Age <= 2 * Spent
    BY <1>0, <1>6
  <2>4. 0 <= MaxError + Spent + c /\ c <= MaxError + Spent
    BY <1>0, <1>6, <2>2, <2>3
  <2>5. 2 * Age - r <= Spent - start
    BY <1>0, <1>6
  <2>6. 0 <= MaxError + Spent + (clock - r) /\ clock - r <= MaxError + Spent
    BY <1>0, <1>6, <2>5
  <2>7. Within(clock', MaxError + Spent) /\ Within(delay', MaxError + Spent)
    BY <1>8, <2>2, <2>4, <2>6 DEF Within
  <2> QED
    BY <1>1, <1>8, <1>9, <2>7, Anew
<1>10. CASE Repeats(m)
  <2>1. Spent' = Spent + Period /\ myRequest'.type = "DELAY_REQ"
    BY <1>1, <1>2, <1>10, Repeated DEF Repeats
  <2>2. m.seconds = 0 - Age
    BY <1>0, <1>10 DEF Repeats
  <2>3. /\ r - b - 2 * Age - 1 <= 2 * c /\ 2 * c <= r - b - 2 * Age + 1
        /\ delay' = clock - r + Age
    BY <1>0, <1>2, <1>4, <1>5, <1>8, <2>2
  <2>4. 2 * Age <= (Spent + Period) - start
    BY <1>0, <1>6
  <2>5. 0 <= MaxError + (Spent + Period) + c /\ c <= MaxError + (Spent + Period)
    BY <1>0, <1>6, <2>3, <2>4
  <2>6. /\ 0 <= MaxError + (Spent + Period) + (clock - r + Age)
        /\ clock - r + Age <= MaxError + (Spent + Period)
    BY <1>0, <1>6, <2>4
  <2>7. Within(clock', MaxError + Spent') /\ Within(delay', MaxError + Spent')
    BY <1>8, <2>1, <2>3, <2>5, <2>6 DEF Within
  <2> QED
    BY <1>8, <2>1, <2>7 DEF ErrorInv, Settled
<1> QED
  BY <1>9, <1>10

LEMMA LoseError ==
  ASSUME TypeInv, TypeInv', StepInv, ErrorInv, Lose
  PROVE  ErrorInv'
<1>0. /\ clock \in Int /\ t1 \in Int /\ lag \in Int /\ t2 \in Int /\ delay \in Int
      /\ Age \in Int /\ (Age = 0 \/ Age >= Period) /\ myRequest.seconds = 0 - Age
      /\ Spent \in Nat /\ Period \in Nat /\ Period > 0 /\ MaxError \in Nat
      /\ Owed \in Int /\ 0 <= Owed /\ Owed <= 2 * Period
      /\ due = <<>> => Owed = 0
      /\ due # <<>> => Owed >= Period
  BY Numbers
<1>1. /\ clock' = clock /\ delay' = delay /\ t1' = t1 /\ t2' = t2 /\ step' = step
      /\ myRequest' = myRequest /\ Age' = Age
      /\ faults' = faults + 1 /\ due # <<>> /\ due' = Tail(due)
  BY DEF Lose, Age
<1>2. SinceSync' = SinceSync /\ SinceAsk' = SinceAsk
  BY <1>1 DEF SinceSync, SinceAsk
<1>3. Spent' = Spent + Period
  BY <1>1, SpentIs DEF TypeInv
<1>4. PICK o \in Int : Owed' = o /\ o >= Owed - Period
  BY <1>1, OwedChange, OwedNext
<1>5. Unset => Unset'
  BY <1>1 DEF Unset
<1>6. ASSUME Settled
      PROVE  Settled'
  <2>1. Within(clock', MaxError + Spent') /\ Within(delay', MaxError + Spent')
    BY <1>0, <1>1, <1>3, <1>6 DEF Settled, Within
  <2>2. \A start \in 0..Spent : start \in 0..Spent'
    BY <1>0, <1>3
  <2>3. ASSUME NEW start \in 0..Spent
        PROVE  /\ OldSync(start) => OldSync(start)'
               /\ AwaitsFollowUp(start) => AwaitsFollowUp(start)'
               /\ AwaitsResponse(start) => AwaitsResponse(start)'
    <3>1. \A x \in Int : x <= Spent - start + Owed => x <= (Spent + Period) - start + o
      BY <1>0, <1>4
    <3>2. 2 * Age \in Int /\ 2 * Age + Period \in Int /\ 2 * Age + 2 * Period \in Int
      BY <1>0
    <3>3. OldSync(start) => OldSync(start)'
      BY <1>1, <1>3, <1>4, <3>1, <3>2 DEF OldSync
    <3>4. AwaitsFollowUp(start) => AwaitsFollowUp(start)'
      BY <1>1, <1>2, <1>3, <1>4, <3>1, <3>2 DEF AwaitsFollowUp
    <3>5. AwaitsResponse(start) => AwaitsResponse(start)'
      BY <1>1, <1>2, <1>3, <1>4, <3>1, <3>2 DEF AwaitsResponse
    <3> QED
      BY <3>3, <3>4, <3>5
  <2> QED
    BY <1>1, <1>6, <2>1, <2>2, <2>3 DEF Settled
<1> QED
  BY <1>5, <1>6 DEF ErrorInv
(* What was read last, t1 and t2 grow older by a period; two new messages  *)
(* are on their way.                                                       *)
LEMMA PeriodError ==
  ASSUME TypeInv, TypeInv', StepInv, ErrorInv, NextPeriod
  PROVE  ErrorInv'
<1>0. /\ clock \in Int /\ t1 \in Int /\ lag \in Int /\ t2 \in Int /\ delay \in Int
      /\ Age \in Int /\ (Age = 0 \/ Age >= Period) /\ myRequest.seconds = 0 - Age
      /\ Spent \in Nat /\ Period \in Nat /\ Period > 0 /\ MaxError \in Nat
      /\ Owed \in Int /\ 0 <= Owed /\ Owed <= 2 * Period
      /\ due = <<>> => Owed = 0
      /\ due # <<>> => Owed >= Period
  BY Numbers
<1>1. /\ clock' = clock /\ delay' = delay /\ step' = step /\ faults' = faults
      /\ due = <<>> /\ due' = <<Message("SYNC"), Message("FOLLOW_UP")>>
      /\ step # "sync" => t1' = t1 - Period
      /\ step = "response" => t2' = t2 - Period
  BY DEF NextPeriod
<1>2. Spent' = Spent
  BY <1>1, SpentIs DEF TypeInv
<1>3. Owed = 0
  BY <1>0, <1>1
<1>4. Owed' = 2 * Period
  <2>1. Len(due') = 2
    BY <1>1
  <2> QED
    BY <2>1 DEF Owed
<1>5. /\ myRequest'.type = myRequest.type
      /\ myRequest.type # "none" => Age' = Age + Period
  BY Ages DEF Next
<1>6. step # "sync" => SinceSync' = SinceSync + Period
  BY <1>0, <1>1 DEF SinceSync
<1>7. step = "response" => SinceAsk' = SinceAsk + Period
  BY <1>0, <1>1 DEF SinceAsk
<1>8. Unset => Unset'
  BY <1>1, <1>5 DEF Unset
<1>9. ASSUME Settled
      PROVE  Settled'
  <2>0. SinceSync \in Int /\ SinceAsk \in Int
    BY <1>0 DEF SinceSync, SinceAsk
  <2>1. Within(clock', MaxError + Spent') /\ Within(delay', MaxError + Spent')
    BY <1>1, <1>2, <1>9 DEF Settled
  <2>2. ASSUME step' = "sync", myRequest'.type = "SYNC"
        PROVE  \E start \in 0..Spent' : OldSync(start)'
    <3>1. PICK start \in 0..Spent : OldSync(start)
      BY <1>1, <1>5, <1>9, <2>2 DEF Settled
    <3>2. Age' = Age + Period
      BY <1>5, <2>2
    <3>3. OldSync(start)'
      BY <1>0, <1>1, <1>2, <1>3, <1>4, <3>1, <3>2 DEF OldSync
    <3> QED
      BY <1>2, <3>3
  <2>3. ASSUME step' = "followUp"
        PROVE  \E start \in 0..Spent' : AwaitsFollowUp(start)'
    <3>1. PICK start \in 0..Spent : AwaitsFollowUp(start)
      BY <1>1, <1>9, <2>3 DEF Settled
    <3>2. Age' = Age + Period /\ SinceSync' = SinceSync + Period
      BY <1>1, <1>5, <1>6, <2>3 DEF StepInv
    <3>3. AwaitsFollowUp(start)'
      BY <1>0, <1>1, <1>2, <1>3, <1>4, <2>0, <3>1, <3>2 DEF AwaitsFollowUp
    <3> QED
      BY <1>2, <3>3
  <2>4. ASSUME step' = "response"
        PROVE  \E start \in 0..Spent' : AwaitsResponse(start)'
    <3>1. PICK start \in 0..Spent : AwaitsResponse(start)
      BY <1>1, <1>9, <2>4 DEF Settled
    <3>2. /\ Age' = Age + Period /\ SinceSync' = SinceSync + Period
          /\ SinceAsk' = SinceAsk + Period
      BY <1>1, <1>5, <1>6, <1>7, <2>4 DEF StepInv
    <3>3. AwaitsResponse(start)'
      BY <1>0, <1>1, <1>2, <1>3, <1>4, <2>0, <3>1, <3>2 DEF AwaitsResponse
    <3> QED
      BY <1>2, <3>3
  <2> QED
    BY <2>1, <2>2, <2>3, <2>4 DEF Settled
<1> QED
  BY <1>8, <1>9 DEF ErrorInv

LEMMA ErrorInit == Init => ErrorInv
<1> SUFFICES ASSUME Init PROVE ErrorInv
  OBVIOUS
<1>1. TypeInv
  BY TypesInit
<1>2. /\ clock \in Int /\ (Abs(clock) <= MaxError \/ Abs(clock) > Threshold)
      /\ step = "sync" /\ delay = 0 /\ faults = 0 /\ myRequest.type = "none"
      /\ MaxError \in Nat /\ Period \in Nat
  BY PtpAssumption DEF Init, Message
<1>3. Spent = 0
  BY <1>2 DEF Spent
<1>4. CASE Abs(clock) > Threshold
  BY <1>2, <1>4 DEF ErrorInv, Unset
<1>5. CASE Abs(clock) <= MaxError
  <2>1. Within(clock, MaxError)
    BY <1>2, <1>5, Distance
  <2>2. Within(clock, MaxError + Spent) /\ Within(delay, MaxError + Spent)
    BY <1>2, <1>3, <2>1 DEF Within
  <2> QED
    BY <1>2, <2>2 DEF ErrorInv, Settled
<1> QED
  BY <1>2, <1>4, <1>5

LEMMA ErrorStep == TypeInv /\ TypeInv' /\ StepInv /\ ErrorInv /\ [Next]_vars => ErrorInv'
<1> SUFFICES ASSUME TypeInv, TypeInv', StepInv, ErrorInv, [Next]_vars PROVE ErrorInv'
  OBVIOUS
<1>1. CASE UNCHANGED vars
  BY <1>1 DEF vars, ErrorInv, Unset, Settled, OldSync, AwaitsFollowUp, AwaitsResponse,
              Spent, Owed, Age, SinceSync, SinceAsk
<1>2. ASSUME NEW m \in Messages, Acts(m), Reads(m) \/ Repeats(m)
      PROVE  ErrorInv'
  BY <1>2, OtherError, JumpError, SyncError, AskError, ReuseError, ResponseError DEF Acts
<1>3. CASE Lose
  BY <1>3, LoseError
<1>4. CASE NextPeriod
  BY <1>4, PeriodError
<1> QED
  BY <1>1, <1>2, <1>3, <1>4, StepsAre

(* Each lost message and each failed call adds one period at most to the   *)
(* error of the clock, although what receiveUDP leaves in myRequest when   *)
(* it fails is taken for the message awaited, however old it is            *)
(* (PTPClient.cpp:65-140).  Only a clock that was badly wrong at the start *)
(* may still be so.                                                        *)
THEOREM EachFaultCostsOnePeriod == Safety => []ErrorBounded
<1>1. ASSUME TypeInv, ErrorInv
      PROVE  ErrorBounded
  <2>1. TypeOK /\ clock \in Int
    BY <1>1 DEF TypeInv, TypeOK
  <2>2. Spent = Period * faults /\ Spent \in Nat /\ MaxError \in Nat /\ Threshold \in Nat
    BY <2>1, SpentIs DEF Spent
  <2>3. CASE Unset
    BY <2>1, <2>2, <2>3, Distance DEF Unset, ErrorBounded
  <2>4. CASE Settled
    <3>1. Abs(clock) <= MaxError + Spent
      BY <2>1, <2>2, <2>4, Distance DEF Settled
    <3> QED
      BY <2>2, <3>1 DEF ErrorBounded
  <2> QED
    BY <1>1, <2>3, <2>4 DEF ErrorInv
<1> QED
  BY <1>1, TypesInit, TypesStep, RoundsInit, RoundsStep, ErrorInit, ErrorStep, PTL DEF Safety
=============================================================================
