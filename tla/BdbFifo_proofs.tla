--------------------------- MODULE BdbFifo_proofs ---------------------------
(* Proofs about BdbFifo, for any threads, any Size and any leftover file.  *)
EXTENDS BdbFifo, DataLemmas, TLAPS, SequenceTheorems, FiniteSetTheorems

-----------------------------------------------------------------------------
(* What a step does to the counters and the records.  Everything proved    *)
(* about them goes through these five cases.                               *)

CountInv ==
    /\ held \in Nat
    /\ held <= Len(db)
    /\ CountersMatchRecords

Put(v)  == ~IsFull /\ Enqueue(v) /\ UNCHANGED <<held, taken>>
Get(c)  == ~IsEmpty /\ Dequeue(c) /\ UNCHANGED held
Quiet   == UNCHANGED <<counters, db, held, taken>>

LEMMA PushCases ==
  ASSUME NEW p \in Producers, NEW v, PushBody(p, v), UNCHANGED <<held, taken>>
  PROVE  Put(v) \/ Quiet
BY DEF PushBody, Serving, Put, Quiet, DbFails, counters

LEMMA PopCases ==
  ASSUME NEW c \in Consumers, PopBody(c), UNCHANGED held
  PROVE  Get(c) \/ Quiet
BY DEF PopBody, Serving, Get, Quiet, DbFails, counters

LEMMA StepCases ==
  ASSUME TypeOK, [Next]_vars
  PROVE  \/ \E v \in Values : Put(v)
         \/ \E c \in Consumers : Get(c)
         \/ Quiet
         \/ Restart
<1>1. ASSUME NEW p \in Producers, NEW v \in Values, Push(p, v)
      PROVE  (\E w \in Values : Put(w)) \/ Quiet
  BY <1>1, PushCases DEF Push
<1>2. ASSUME NEW p \in Producers, PushWoken(p)
      PROVE  (\E w \in Values : Put(w)) \/ Quiet
  <2>1. arg[p] \in Values
    BY <1>2 DEF PushWoken, TypeOK
  <2>2. CASE status = "DISABLED"
    BY <1>2, <2>2 DEF PushWoken, Quiet, counters
  <2>3. CASE status # "DISABLED"
    BY <1>2, <2>1, <2>3, PushCases DEF PushWoken
  <2> QED
    BY <2>2, <2>3
<1>3. ASSUME NEW c \in Consumers, Pop(c)
      PROVE  Get(c) \/ Quiet
  BY <1>3, PopCases DEF Pop
<1>4. ASSUME NEW c \in Consumers, PopWoken(c)
      PROVE  Get(c) \/ Quiet
  <2>1. CASE status = "DISABLED"
    BY <1>4, <2>1 DEF PopWoken, Quiet, counters
  <2>2. CASE status # "DISABLED"
    BY <1>4, <2>2, PopCases DEF PopWoken
  <2> QED
    BY <2>1, <2>2
<1>5. ASSUME NEW t \in Threads, SpuriousWakeup(t) \/ WaitFails(t)
      PROVE  Quiet
  BY <1>5 DEF SpuriousWakeup, WaitFails, Quiet, counters
<1>6. ASSUME Open \/ Disabled \/ Enabled \/ UNCHANGED vars
      PROVE  Quiet
  BY <1>6 DEF Open, Disabled, Enabled, Quiet, vars, counters
<1> QED
  BY <1>1, <1>2, <1>3, <1>4, <1>5, <1>6 DEF Next

LEMMA FullEmptyCount ==
  ASSUME TypeOK, CountInv
  PROVE  /\ Count \in 0..Size
         /\ IsFull <=> Count = Size
         /\ IsEmpty <=> Count = 0
<1>1. Count \in 0..Size /\ tail = (head + Count) % Size
  BY DEF CountInv, CountersMatchRecords
<1>2. head = tail <=> Count = 0 \/ Count = Size
  BY <1>1, RingEnds, SizeAssumption DEF TypeOK
<1> QED
  BY <1>1, <1>2, SizeAssumption DEF IsFull, IsEmpty, CountInv, CountersMatchRecords, TypeOK

LEMMA CountStep ==
  ASSUME TypeOK, TypeOK', CountInv, [Next]_vars
  PROVE  CountInv'
<1> USE SizeAssumption
<1>1. ASSUME NEW v \in Values, Put(v)
      PROVE  CountInv'
  <2>1. Count \in 0..(Size - 1) /\ tail = (head + Count) % Size
    BY <1>1, FullEmptyCount DEF Put, CountInv, CountersMatchRecords
  <2>2. Len(db') = Len(db) + 1 /\ held' = held /\ Len(db) \in Nat /\ held \in Nat
    BY <1>1, LenProperties DEF Put, Enqueue, Advance, FullAfterPush, TypeOK
  <2>3. Count' = Count + 1
    BY <2>2 DEF Count
  <2>4. tail' = (head + (Count + 1)) % Size /\ (tail' = head <=> Count + 1 = Size)
    <3>1. tail' = (tail + 1) % Size
      BY <1>1 DEF Put, Enqueue, Advance, FullAfterPush
    <3>2. head \in 0..(Size - 1) /\ tail \in 0..(Size - 1)
      BY DEF TypeOK
    <3>3. \A c \in 0..(Size - 1) : tail = (head + c) % Size =>
             /\ (tail + 1) % Size = (head + (c + 1)) % Size
             /\ (tail + 1) % Size = head <=> c + 1 = Size
      BY <3>2
    <3> QED
      BY <3>1, <3>3, <2>1
  <2>5. head' = head /\ full' = IF tail' = head THEN 1 ELSE full
    BY <1>1 DEF Put, Enqueue, Advance, FullAfterPush
  <2> QED
    BY <2>1, <2>2, <2>3, <2>4, <2>5 DEF CountInv, CountersMatchRecords
<1>2. ASSUME NEW c \in Consumers, Get(c)
      PROVE  CountInv'
  <2>1. Count \in 1..Size /\ tail = (head + Count) % Size
    BY <1>2, FullEmptyCount DEF Get, CountInv, CountersMatchRecords
  <2>2. Len(db') = Len(db) - 1 /\ held' = held /\ Len(db) \in Nat /\ held \in Nat
    BY <1>2, LenProperties, HeadTailProperties DEF Get, Dequeue, Advance, TypeOK
  <2>3. Count' = Count - 1
    BY <2>2 DEF Count
  <2>4. tail = (head' + (Count - 1)) % Size /\ (head' = tail <=> Count = 1)
    BY <1>2, <2>1, RingDequeue, ZenonT(30) DEF Get, Dequeue, Advance, TypeOK
  <2>5. tail' = tail /\ full' = IF head' = tail THEN 0 ELSE full
    BY <1>2 DEF Get, Dequeue, Advance
  <2>6. held' <= Len(db')
    BY <2>1, <2>2 DEF Count
  <2> QED
    BY <2>1, <2>2, <2>3, <2>4, <2>5, <2>6 DEF CountInv, CountersMatchRecords
<1>3. CASE Quiet
  BY <1>3 DEF Quiet, counters, CountInv, CountersMatchRecords, Count
<1>4. CASE Restart
  <2>1. Len(db) \in Nat
    BY LenProperties DEF TypeOK
  <2>2. Count' = 0 /\ head' = 0 /\ tail' = 0 /\ full' = 0
    BY <1>4, <2>1 DEF Restart, Count
  <2> QED
    BY <1>4, <2>1, <2>2 DEF Restart, CountInv, CountersMatchRecords
<1> QED
  BY <1>1, <1>2, <1>3, <1>4, StepCases
-----------------------------------------------------------------------------
(* Types.                                                                  *)

LEMMA EnqueueType ==
  ASSUME TypeOK, NEW v \in Values, Enqueue(v)
  PROVE  /\ head' \in 0..(Size - 1) /\ tail' \in 0..(Size - 1) /\ full' \in {0, 1}
         /\ db' \in Seq(Values)
<1> USE SizeAssumption
<1>1. head' \in 0..(Size - 1) /\ tail' \in 0..(Size - 1) /\ full' \in {0, 1}
  BY DEF Enqueue, Advance, FullAfterPush, TypeOK
<1>2. db' \in Seq(Values)
  BY DEF Enqueue, Advance, FullAfterPush, TypeOK
<1> QED
  BY <1>1, <1>2

LEMMA DequeueType ==
  ASSUME TypeOK, NEW c \in Consumers, Dequeue(c)
  PROVE  /\ head' \in 0..(Size - 1) /\ tail' \in 0..(Size - 1) /\ full' \in {0, 1}
         /\ db' \in Seq(Values)
         /\ taken' \in [Consumers -> Values \cup {NoValue}]
<1> USE SizeAssumption
<1>1. head' \in 0..(Size - 1) /\ tail' \in 0..(Size - 1) /\ full' \in {0, 1}
  BY DEF Dequeue, Advance, TypeOK
<1>2. db' \in Seq(Values) /\ Head(db) \in Values
  BY HeadTailProperties DEF Dequeue, Advance, TypeOK
<1>3. taken' \in [Consumers -> Values \cup {NoValue}]
  BY <1>2 DEF Dequeue, Advance, TypeOK
<1> QED
  BY <1>1, <1>2, <1>3

(* Only a producer inside push_back holds an argument.                     *)
ThreadTypes ==
    /\ pc \in [Threads -> {"idle", "waiting", "woken"}]
    /\ arg \in [Producers -> Values \cup {NoValue}]
    /\ \A p \in Producers : pc[p] # "idle" <=> arg[p] \in Values

LEMMA SignalTypes ==
  ASSUME ThreadTypes, NEW p \in Producers, Forget(p),
         LeaveAndSignal(p, Consumers) \/ Leave(p)
  PROVE  ThreadTypes'
<1>1. arg' \in [Producers -> Values \cup {NoValue}] /\ arg'[p] \notin Values
  BY ValueAssumption DEF ThreadTypes, Forget
<1>2. \A q \in Producers : q # p => arg'[q] = arg[q]
  BY DEF ThreadTypes, Forget
<1>3. /\ pc' \in [Threads -> {"idle", "waiting", "woken"}]
      /\ pc'[p] = "idle"
      /\ \A q \in Producers : q # p => pc'[q] = pc[q]
  <2>1. CASE Leave(p)
    BY <2>1 DEF Leave, ThreadTypes, Threads
  <2>2. ASSUME NEW w \in Consumers, pc' = [pc EXCEPT ![p] = "idle", ![w] = "woken"]
        PROVE  <1>3
    BY <2>2, ThreadAssumption DEF ThreadTypes, Threads
  <2> QED
    BY <2>1, <2>2 DEF LeaveAndSignal, Waiting
<1> QED
  BY <1>1, <1>2, <1>3 DEF ThreadTypes

LEMMA PopThreadTypes ==
  ASSUME ThreadTypes, NEW c \in Consumers, UNCHANGED arg,
         \/ LeaveAndSignal(c, Producers)
         \/ Leave(c)
         \/ pc' = [pc EXCEPT ![c] = "waiting"]
  PROVE  ThreadTypes'
<1>1. CASE pc' = [pc EXCEPT ![c] = "waiting"] \/ Leave(c)
  BY <1>1, ThreadAssumption DEF Leave, ThreadTypes, Threads
<1>2. ASSUME NEW w \in Waiting(Producers), pc' = [pc EXCEPT ![c] = "idle", ![w] = "woken"]
      PROVE  ThreadTypes'
  BY <1>2, ThreadAssumption DEF Waiting, ThreadTypes, Threads
<1> QED
  BY <1>1, <1>2 DEF LeaveAndSignal

LEMMA PushBodyType ==
  ASSUME TypeOK, NEW p \in Producers, NEW v \in Values, PushBody(p, v),
         UNCHANGED <<status, bopen, taken, held>>
  PROVE  TypeOK'
<1>1. ThreadTypes
  BY DEF TypeOK, ThreadTypes
<1>2. CASE IsFull /\ pc' = [pc EXCEPT ![p] = "waiting"] /\ arg' = [arg EXCEPT ![p] = v]
           /\ UNCHANGED <<counters, db, spoiled>>
  BY <1>2 DEF TypeOK, counters, Threads
<1>3. CASE Leave(p) /\ Forget(p) /\ UNCHANGED <<counters, db, spoiled>>
  BY <1>1, <1>3, SignalTypes DEF TypeOK, ThreadTypes, counters
<1>4. CASE Enqueue(v) /\ LeaveAndSignal(p, Consumers) /\ Forget(p) /\ UNCHANGED spoiled
  BY <1>1, <1>4, SignalTypes, EnqueueType DEF TypeOK, ThreadTypes
<1>5. CASE DbFails /\ Leave(p) /\ Forget(p) /\ Spoil(p, "condNotfull")
  BY <1>1, <1>5, SignalTypes DEF TypeOK, ThreadTypes, DbFails, Spoil, counters
<1> QED
  BY <1>2, <1>3, <1>4, <1>5 DEF PushBody

LEMMA PopBodyType ==
  ASSUME TypeOK, NEW c \in Consumers, PopBody(c), UNCHANGED <<status, bopen, arg, held>>
  PROVE  TypeOK'
<1>1. ThreadTypes
  BY DEF TypeOK, ThreadTypes
<1>2. CASE /\ pc' = [pc EXCEPT ![c] = "waiting"] \/ Leave(c)
           /\ UNCHANGED <<counters, db, taken, spoiled>>
  BY <1>1, <1>2, PopThreadTypes DEF TypeOK, ThreadTypes, counters
<1>3. CASE Dequeue(c) /\ LeaveAndSignal(c, Producers) /\ UNCHANGED spoiled
  BY <1>1, <1>3, PopThreadTypes, DequeueType DEF TypeOK, ThreadTypes
<1>4. CASE DbFails /\ Leave(c) /\ Spoil(c, "condNotempty") /\ UNCHANGED taken
  BY <1>1, <1>4, PopThreadTypes DEF TypeOK, ThreadTypes, DbFails, Spoil, counters
<1> QED
  BY <1>2, <1>3, <1>4 DEF PopBody

LEMMA TypeStep ==
  ASSUME TypeOK, [Next]_vars
  PROVE  TypeOK'
<1> USE ThreadAssumption, ValueAssumption, SizeAssumption
<1>1. ASSUME NEW p \in Producers, NEW v \in Values, Push(p, v)
      PROVE  TypeOK'
  BY <1>1, PushBodyType DEF Push
<1>2. ASSUME NEW p \in Producers, PushWoken(p)
      PROVE  TypeOK'
  <2>1. ThreadTypes /\ arg[p] \in Values
    BY <1>2 DEF PushWoken, TypeOK, ThreadTypes
  <2>2. CASE status = "DISABLED"
    BY <1>2, <2>1, <2>2, SignalTypes DEF PushWoken, TypeOK, ThreadTypes, counters
  <2>3. CASE status # "DISABLED"
    BY <1>2, <2>1, <2>3, PushBodyType DEF PushWoken
  <2> QED
    BY <2>2, <2>3
<1>3. ASSUME NEW c \in Consumers, Pop(c)
      PROVE  TypeOK'
  BY <1>3, PopBodyType DEF Pop
<1>4. ASSUME NEW c \in Consumers, PopWoken(c)
      PROVE  TypeOK'
  <2>1. ThreadTypes
    BY DEF TypeOK, ThreadTypes
  <2>2. CASE status = "DISABLED"
    BY <1>4, <2>1, <2>2, PopThreadTypes DEF PopWoken, TypeOK, ThreadTypes, counters
  <2>3. CASE status # "DISABLED"
    BY <1>4, <2>3, PopBodyType DEF PopWoken
  <2> QED
    BY <2>2, <2>3
<1>5. ASSUME NEW t \in Threads, SpuriousWakeup(t)
      PROVE  TypeOK'
  BY <1>5 DEF SpuriousWakeup, TypeOK, Threads, counters
<1>6. ASSUME NEW t \in Threads, WaitFails(t)
      PROVE  TypeOK'
  <2>1. ThreadTypes
    BY DEF TypeOK, ThreadTypes
  <2>2. CASE t \in Producers
    BY <1>6, <2>1, <2>2, SignalTypes DEF WaitFails, Spoil, TypeOK, ThreadTypes, counters
  <2>3. CASE t \in Consumers
    BY <1>6, <2>1, <2>3, PopThreadTypes DEF WaitFails, Spoil, TypeOK, ThreadTypes, counters
  <2> QED
    BY <2>2, <2>3 DEF Threads
<1>7. CASE Open \/ Enabled \/ UNCHANGED vars
  BY <1>7 DEF Open, Enabled, vars, TypeOK, counters
<1>8. CASE Disabled
  BY <1>8 DEF Disabled, TypeOK, Threads, counters
<1>9. CASE Restart
  <2>1. db' \in Seq(Values) /\ held' \in Nat
    BY <1>9, LenProperties DEF Restart, TypeOK
  <2>2. head' \in 0..(Size - 1) /\ tail' \in 0..(Size - 1) /\ full' \in {0, 1}
    BY <1>9 DEF Restart
  <2>3. ThreadTypes'
    BY <1>9 DEF Restart, ThreadTypes, Threads
  <2> QED
    BY <1>9, <2>1, <2>2, <2>3 DEF Restart, TypeOK, ThreadTypes
<1> QED
  BY <1>1, <1>2, <1>3, <1>4, <1>5, <1>6, <1>7, <1>8, <1>9 DEF Next

LEMMA InitInv ==
  ASSUME Init
  PROVE  TypeOK /\ CountInv
<1> USE SizeAssumption, LeftoverAssumption, ValueAssumption
<1>1. db \in Seq(Values)
  <2>1. PICK n \in 0..MaxLeftover : db \in [1..n -> Values]
    BY DEF Init
  <2> QED
    BY <2>1
<1>2. held = Len(db) /\ Len(db) \in Nat
  BY <1>1, LenProperties DEF Init
<1>3. TypeOK
  <2>1. ThreadTypes
    BY DEF Init, ThreadTypes, Threads
  <2>2. head \in 0..(Size - 1) /\ tail \in 0..(Size - 1) /\ full \in {0, 1}
    BY DEF Init
  <2> QED
    BY <1>1, <1>2, <2>1, <2>2 DEF Init, TypeOK, ThreadTypes
<1>4. Count = 0
  BY <1>2 DEF Count
<1>5. CountInv
  BY <1>2, <1>4 DEF Init, CountInv, CountersMatchRecords
<1> QED
  BY <1>3, <1>5

(* Every variable of my_berkeleyDBbased_fifo keeps its type.               *)
THEOREM TypeCorrect == Spec => []TypeOK
<1>1. Init => TypeOK
  BY InitInv
<1>2. TypeOK /\ [Next]_vars => TypeOK'
  BY TypeStep
<1> QED
  BY <1>1, <1>2, PTL DEF Spec

(* head, tail and full of my_fifo always count the records this process    *)
(* pushed and has not popped; the flag that stays set after a pop from a   *)
(* full queue is never believed.                                           *)
THEOREM CountersCorrect == Spec => []CountersMatchRecords
<1>1. Init => TypeOK /\ CountInv
  BY InitInv
<1>2. TypeOK /\ CountInv /\ [Next]_vars => TypeOK' /\ CountInv'
  BY TypeStep, CountStep
<1>3. CountInv => CountersMatchRecords
  BY DEF CountInv
<1> QED
  BY <1>1, <1>2, <1>3, PTL DEF Spec

-----------------------------------------------------------------------------
(* Refinement.                                                             *)

LEMMA RefinementStep ==
  ASSUME TypeOK, CountInv, [Next]_vars
  PROVE  [Queue!Next]_(Queue!vars)
<1>1. ASSUME NEW v \in Values, Put(v)
      PROVE  Queue!Next
  <2>1. Len(db) < held + Size
    <3>1. Count # Size /\ Count \in 0..Size
      BY <1>1, FullEmptyCount DEF Put
    <3>2. Len(db) \in Nat /\ held \in Nat
      BY LenProperties DEF TypeOK
    <3> QED
      BY <3>1, <3>2, SizeAssumption DEF Count
  <2>2. Queue!Push(v)
    BY <1>1, <2>1 DEF Put, Enqueue, Advance, FullAfterPush, Queue!Push
  <2> QED
    BY <2>2 DEF Queue!Next
<1>2. ASSUME NEW c \in Consumers, Get(c)
      PROVE  Queue!Next
  <2>1. Len(db) > held
    <3>1. Count # 0 /\ Count \in 0..Size
      BY <1>2, FullEmptyCount DEF Get
    <3>2. Len(db) \in Nat /\ held \in Nat
      BY LenProperties DEF TypeOK
    <3> QED
      BY <3>1, <3>2, SizeAssumption DEF Count
  <2>2. Queue!Pop(c)
    BY <1>2, <2>1 DEF Get, Dequeue, Advance, Queue!Pop
  <2> QED
    BY <2>2 DEF Queue!Next
<1>3. CASE Quiet
  BY <1>3 DEF Quiet, Queue!vars
<1>4. CASE Restart
  BY <1>4 DEF Restart, Queue!Restart, Queue!Next
<1> QED
  BY <1>1, <1>2, <1>3, <1>4, StepCases

(* The database-backed fifo behaves as a bounded first-in first-out queue  *)
(* for any number of threads, through failed puts and gets, spurious       *)
(* wakeups, disabling and restarts; leftover records make it a delay line. *)
THEOREM Refinement == Spec => QueueSpec
<1>1. Init => Queue!Init
  BY InitInv DEF Init, Queue!Init, TypeOK
<1>2. TypeOK /\ CountInv /\ [Next]_vars => [Queue!Next]_(Queue!vars)
  BY RefinementStep
<1>3. Init => TypeOK /\ CountInv
  BY InitInv
<1>4. TypeOK /\ CountInv /\ [Next]_vars => TypeOK' /\ CountInv'
  BY TypeStep, CountStep
<1> QED
  BY <1>1, <1>2, <1>3, <1>4, PTL DEF Spec, QueueSpec, Queue!Spec

(* Nothing enters or leaves a disabled queue: push_back and pop_front see  *)
(* the status under the same mutex they use the file under.                *)
THEOREM ClosedTheorem == Spec => ClosedWhileDisabled
<1>1. ASSUME [Next]_vars, status = "DISABLED", status' = "DISABLED"
      PROVE  db' = db /\ counters' = counters
  BY <1>1 DEF Next, vars, counters, Push, PushWoken, PushBody, Pop, PopWoken, PopBody, Serving,
              DbFails, SpuriousWakeup, WaitFails, Open, Disabled, Enabled, Restart
<1> QED
  BY <1>1, PTL DEF Spec, ClosedWhileDisabled

-----------------------------------------------------------------------------
(* One signal per element is enough: the proof of WakeupsCoverItems.       *)

(* One side of the queue: S are the threads that sleep on the condition,   *)
(* n is what they wait for (elements, or free slots).  While the queue is  *)
(* disabled nothing arrives, so a new sleeper has nothing to miss.         *)
Side(S, cond, n) ==
    /\ cond \in spoiled \/ Waiting(S) = {} \/ n <= Cardinality(Woken(S))
    /\ status = "DISABLED" => Waiting(S) = {} \/ n = 0

WakeInv ==
    /\ Side(Consumers, "condNotempty", Count)
    /\ Side(Producers, "condNotfull", Size - Count)

-----------------------------------------------------------------------------
(* The steps, by what they do to the threads.                              *)

Condition(t) == IF t \in Producers THEN "condNotfull" ELSE "condNotempty"
Still == UNCHANGED <<counters, db, held, status>>

PutBy(p) ==
    /\ \E v \in Values : Put(v)
    /\ LeaveAndSignal(p, Consumers)
    /\ status = "ENABLED" /\ UNCHANGED <<status, spoiled>>

GetBy(c) ==
    /\ Get(c)
    /\ LeaveAndSignal(c, Producers)
    /\ status = "ENABLED" /\ UNCHANGED <<status, spoiled>>

WaitBy(t) ==
    /\ IF t \in Producers THEN IsFull ELSE IsEmpty
    /\ pc' = [pc EXCEPT ![t] = "waiting"]
    /\ Still /\ UNCHANGED spoiled

QuitBy(t) ==
    /\ Leave(t)
    /\ spoiled \subseteq spoiled'
    /\ pc[t] = "woken" => status = "DISABLED" \/ Condition(t) \in spoiled'
    /\ Still

WakeBy(t) ==
    /\ pc[t] = "waiting" /\ pc' = [pc EXCEPT ![t] = "woken"]
    /\ Still /\ UNCHANGED spoiled

Switch == UNCHANGED <<counters, db, held, pc, spoiled>> /\ status' \in {"ENABLED", status}

LEMMA PushBodyThreads ==
  ASSUME NEW p \in Producers, NEW v \in Values, PushBody(p, v),
         UNCHANGED <<status, bopen, taken, held>>, TypeOK
  PROVE  PutBy(p) \/ WaitBy(p) \/ QuitBy(p)
<1>1. CASE /\ IsFull
           /\ pc' = [pc EXCEPT ![p] = "waiting"]
           /\ UNCHANGED <<counters, db, spoiled>>
  BY <1>1 DEF WaitBy, Still
<1>2. CASE status = "DISABLED" /\ Leave(p) /\ UNCHANGED <<counters, db, spoiled>>
  BY <1>2 DEF QuitBy, Still
<1>3. CASE /\ ~IsFull /\ status = "ENABLED"
           /\ Enqueue(v) /\ LeaveAndSignal(p, Consumers) /\ UNCHANGED spoiled
  BY <1>3 DEF PutBy, Put
<1>4. CASE DbFails /\ Leave(p) /\ Spoil(p, "condNotfull")
  BY <1>4 DEF DbFails, QuitBy, Still, Spoil, Condition
<1> QED
  BY <1>1, <1>2, <1>3, <1>4 DEF PushBody, Serving

LEMMA PopBodyThreads ==
  ASSUME NEW c \in Consumers, PopBody(c), UNCHANGED <<status, bopen, arg, held>>, TypeOK
  PROVE  GetBy(c) \/ WaitBy(c) \/ QuitBy(c)
<1> USE ThreadAssumption
<1>1. CASE /\ IsEmpty
           /\ pc' = [pc EXCEPT ![c] = "waiting"]
           /\ UNCHANGED <<counters, db, spoiled>>
  BY <1>1 DEF WaitBy, Still
<1>2. CASE status = "DISABLED" /\ Leave(c) /\ UNCHANGED <<counters, db, spoiled>>
  BY <1>2 DEF QuitBy, Still
<1>3. CASE /\ ~IsEmpty /\ status = "ENABLED"
           /\ Dequeue(c) /\ LeaveAndSignal(c, Producers) /\ UNCHANGED spoiled
  BY <1>3 DEF GetBy, Get
<1>4. CASE DbFails /\ Leave(c) /\ Spoil(c, "condNotempty")
  BY <1>4 DEF DbFails, QuitBy, Still, Spoil, Condition
<1> QED
  BY <1>1, <1>2, <1>3, <1>4 DEF PopBody, Serving

LEMMA ThreadCases ==
  ASSUME TypeOK, [Next]_vars
  PROVE  \/ \E p \in Producers : PutBy(p)
         \/ \E c \in Consumers : GetBy(c)
         \/ \E t \in Threads : WaitBy(t) \/ QuitBy(t) \/ WakeBy(t)
         \/ Switch \/ Disabled \/ Restart
<1> USE ThreadAssumption DEF Threads
<1>1. ASSUME NEW p \in Producers, NEW v \in Values, Push(p, v)
      PROVE  PutBy(p) \/ WaitBy(p) \/ QuitBy(p)
  BY <1>1, PushBodyThreads DEF Push
<1>2. ASSUME NEW p \in Producers, PushWoken(p)
      PROVE  PutBy(p) \/ WaitBy(p) \/ QuitBy(p)
  <2>1. arg[p] \in Values
    BY <1>2 DEF PushWoken, TypeOK
  <2>2. CASE status = "DISABLED"
    BY <1>2, <2>2 DEF PushWoken, QuitBy, Still, Leave
  <2>3. CASE status # "DISABLED"
    BY <1>2, <2>1, <2>3, PushBodyThreads DEF PushWoken
  <2> QED
    BY <2>2, <2>3
<1>3. ASSUME NEW c \in Consumers, Pop(c)
      PROVE  GetBy(c) \/ WaitBy(c) \/ QuitBy(c)
  BY <1>3, PopBodyThreads DEF Pop
<1>4. ASSUME NEW c \in Consumers, PopWoken(c)
      PROVE  GetBy(c) \/ WaitBy(c) \/ QuitBy(c)
  <2>1. CASE status = "DISABLED"
    BY <1>4, <2>1 DEF PopWoken, QuitBy, Still, Leave
  <2>2. CASE status # "DISABLED"
    BY <1>4, <2>2, PopBodyThreads DEF PopWoken
  <2> QED
    BY <2>1, <2>2
<1>5. ASSUME NEW t \in Threads, SpuriousWakeup(t)
      PROVE  WakeBy(t)
  BY <1>5 DEF SpuriousWakeup, WakeBy, Still
<1>6. ASSUME NEW t \in Threads, WaitFails(t)
      PROVE  QuitBy(t)
  BY <1>6 DEF WaitFails, QuitBy, Still, Spoil, Condition
<1>7. ASSUME Open \/ Enabled \/ UNCHANGED vars
      PROVE  Switch
  BY <1>7 DEF Open, Enabled, vars, Switch, counters
<1> QED
  BY <1>1, <1>2, <1>3, <1>4, <1>5, <1>6, <1>7 DEF Next
-----------------------------------------------------------------------------
(* The threads of one side.                                                *)

LEMMA WokenFinite ==
  ASSUME NEW S, IsFiniteSet(S)
  PROVE  IsFiniteSet(Woken(S)) /\ IsFiniteSet(Woken(S)')
<1>1. Woken(S) \subseteq S /\ Woken(S)' \subseteq S
  BY DEF Woken
<1> QED
  BY <1>1, FS_Subset

(* A thread of A that leaves with a signal takes itself out of A's woken   *)
(* threads and, if anyone of B sleeps, adds one to B's.                    *)
LEMMA SignalThreads ==
  ASSUME NEW A, NEW B, A \cap B = {}, A \subseteq Threads, B \subseteq Threads,
         NEW p \in A, LeaveAndSignal(p, B), TypeOK
  PROVE  /\ Waiting(A)' \subseteq Waiting(A)
         /\ Woken(A) \ {p} \subseteq Woken(A)'
         /\ \/ Waiting(B)' = {}
            \/ \E w : w \notin Woken(B) /\ Waiting(B) # {} /\ Woken(B)' = Woken(B) \cup {w}
<1> USE DEF Waiting, Woken
<1>1. CASE Waiting(B) = {}
  <2>1. pc' = [pc EXCEPT ![p] = "idle"]
    BY <1>1 DEF LeaveAndSignal, Leave
  <2> QED
    BY <1>1, <2>1 DEF TypeOK
<1>2. ASSUME NEW w \in Waiting(B), pc' = [pc EXCEPT ![p] = "idle", ![w] = "woken"]
      PROVE  /\ Waiting(A)' \subseteq Waiting(A)
             /\ Woken(A) \ {p} \subseteq Woken(A)'
             /\ w \notin Woken(B) /\ Waiting(B) # {} /\ Woken(B)' = Woken(B) \cup {w}
  <2>1. w # p /\ w \in Threads /\ w \notin A /\ p \notin B
    BY <1>2
  <2>2. \A t \in Threads : pc'[t] = IF t = w THEN "woken" ELSE IF t = p THEN "idle" ELSE pc[t]
    BY <1>2, <2>1 DEF TypeOK
  <2>3. Waiting(A)' \subseteq Waiting(A) /\ Woken(A) \ {p} \subseteq Woken(A)'
    BY <2>1, <2>2
  <2>4. w \notin Woken(B) /\ Waiting(B) # {}
    BY <1>2
  <2>5. \A t \in B : pc'[t] = "woken" <=> t = w \/ pc[t] = "woken"
    BY <2>1, <2>2
  <2>6. Woken(B)' = Woken(B) \cup {w}
    BY <1>2, <2>5
  <2> QED
    BY <2>3, <2>4, <2>6
<1> QED
  BY <1>1, <1>2 DEF LeaveAndSignal

-----------------------------------------------------------------------------
(* What a step does to one side.                                           *)

LEMMA CoverSide ==
  ASSUME NEW S, NEW cond, NEW n \in Nat, Side(S, cond, n), cond \notin spoiled
  PROVE  Cover(Waiting(S), Woken(S), n)
BY DEF Side, Cover

(* An element arrives on the side of the sleepers B.                       *)
LEMMA ArriveSide ==
  ASSUME NEW A, NEW B, A \cap B = {}, A \subseteq Threads, B \subseteq Threads,
         IsFiniteSet(B), NEW p \in A, LeaveAndSignal(p, B), TypeOK,
         NEW cond, NEW n \in Nat, Side(B, cond, n), cond \notin spoiled
  PROVE  Cover(Waiting(B)', Woken(B)', n + 1)
<1>1. Cover(Waiting(B), Woken(B), n) /\ IsFiniteSet(Woken(B))
  BY CoverSide, WokenFinite
<1>2. CASE Waiting(B)' = {}
  BY <1>2 DEF Cover
<1>3. ASSUME NEW w, w \notin Woken(B), Waiting(B) # {}, Woken(B)' = Woken(B) \cup {w}
      PROVE  Cover(Waiting(B)', Woken(B)', n + 1)
  BY <1>1, <1>3, CoverSignal
<1> QED
  BY <1>2, <1>3, SignalThreads

(* The thread p of A uses up one of what A sleeps for.                     *)
LEMMA TakeSide ==
  ASSUME NEW A, NEW B, A \cap B = {}, A \subseteq Threads, B \subseteq Threads,
         IsFiniteSet(A), NEW p \in A, LeaveAndSignal(p, B), TypeOK,
         NEW cond, NEW n \in Nat, Side(A, cond, n + 1), cond \notin spoiled
  PROVE  Cover(Waiting(A)', Woken(A)', n)
<1>1. Cover(Waiting(A), Woken(A), n + 1)
  BY CoverSide
<1>2. IsFiniteSet(Woken(A)) /\ IsFiniteSet(Woken(A)')
  BY WokenFinite
<1>3. Waiting(A)' \subseteq Waiting(A) /\ Woken(A) \ {p} \subseteq Woken(A)'
  BY SignalThreads
<1> QED
  BY <1>1, <1>2, <1>3, CoverTake

(* A step that moves no element.                                           *)
LEMMA StillSide ==
  ASSUME NEW S, S \subseteq Threads, IsFiniteSet(S), TypeOK,
         NEW cond, \A u \in S : Condition(u) = cond,
         NEW n \in Nat, Side(S, cond, n),
         NEW t \in Threads,
         \/ WaitBy(t) /\ (t \in S => n = 0)
         \/ QuitBy(t) \/ WakeBy(t)
  PROVE  Side(S, cond, n)'
<1>1. IsFiniteSet(Woken(S)) /\ IsFiniteSet(Woken(S)')
  BY WokenFinite
<1>2. Cardinality(Woken(S)) \in Nat /\ Cardinality(Woken(S)') \in Nat
  BY <1>1, FS_CardinalityType
<1>3. CASE n = 0
  BY <1>2, <1>3 DEF Side
<1>4. ASSUME n # 0
      PROVE  /\ Waiting(S)' \subseteq Waiting(S)
             /\ Woken(S) \subseteq Woken(S)' \/ (pc[t] = "woken" /\ t \in S /\ QuitBy(t))
  BY <1>4 DEF WaitBy, QuitBy, WakeBy, Leave, Waiting, Woken, TypeOK
<1>5. spoiled \subseteq spoiled' /\ status' = status
  BY DEF WaitBy, QuitBy, WakeBy, Still
<1>6. CASE n # 0 /\ Woken(S) \subseteq Woken(S)'
  <2>1. cond \notin spoiled => Cover(Waiting(S)', Woken(S)', n)
    BY <1>1, <1>4, <1>6, CoverSide, CoverKeep
  <2> QED
    BY <1>4, <1>5, <1>6, <2>1 DEF Side, Cover
<1>7. CASE n # 0 /\ pc[t] = "woken" /\ t \in S /\ QuitBy(t)
  <2>1. status = "DISABLED" \/ cond \in spoiled'
    BY <1>7 DEF QuitBy
  <2> QED
    BY <1>4, <1>5, <1>7, <2>1 DEF Side
<1> QED
  BY <1>3, <1>4, <1>6, <1>7

LEMMA WakeStep ==
  ASSUME TypeOK, CountInv, TypeOK', CountInv', WakeInv, [Next]_vars
  PROVE  WakeInv'
<1> USE ThreadAssumption, SizeAssumption
<1>1. Count \in 0..Size /\ Count' \in 0..Size
  BY DEF CountInv, CountersMatchRecords
<1>2. Producers \subseteq Threads /\ Consumers \subseteq Threads
  BY DEF Threads
<1>3. Len(db) \in Nat /\ Len(db') \in Nat /\ held \in Nat
  BY LenProperties DEF TypeOK
<1>4. ASSUME NEW p \in Producers, PutBy(p)
      PROVE  WakeInv'
  <2>1. Count' = Count + 1
    <3>1. Len(db') = Len(db) + 1 /\ held' = held
      BY <1>4, LenProperties DEF PutBy, Put, Enqueue, TypeOK
    <3> QED
      BY <1>3, <3>1 DEF Count
  <2>2. LeaveAndSignal(p, Consumers) /\ spoiled' = spoiled /\ status' # "DISABLED"
    BY <1>4 DEF PutBy
  <2>3. "condNotempty" \notin spoiled => Cover(Waiting(Consumers)', Woken(Consumers)', Count + 1)
    BY <1>1, <1>2, <2>2, ArriveSide DEF WakeInv
  <2>4. Size - Count = (Size - Count') + 1 /\ Size - Count' \in Nat
    BY <1>1, <2>1
  <2>5. "condNotfull" \notin spoiled => Cover(Waiting(Producers)', Woken(Producers)', Size - Count')
    BY <1>2, <2>2, <2>4, TakeSide DEF WakeInv
  <2> QED
    BY <2>1, <2>2, <2>3, <2>5 DEF WakeInv, Side, Cover
<1>5. ASSUME NEW c \in Consumers, GetBy(c)
      PROVE  WakeInv'
  <2>1. Count = Count' + 1
    <3>1. Len(db') = Len(db) - 1 /\ held' = held
      BY <1>5, LenProperties, HeadTailProperties DEF GetBy, Get, Dequeue, TypeOK
    <3> QED
      BY <1>3, <3>1 DEF Count
  <2>2. LeaveAndSignal(c, Producers) /\ spoiled' = spoiled /\ status' # "DISABLED"
    BY <1>5 DEF GetBy
  <2>3. Size - Count \in Nat /\ Size - Count' = (Size - Count) + 1 /\ Count' \in Nat
    <3>1. \A m, n \in 0..Size : m = n + 1 =>
             Size - m \in Nat /\ Size - n = (Size - m) + 1 /\ n \in Nat
      OBVIOUS
    <3> QED
      BY <1>1, <2>1, <3>1
  <2>4. "condNotfull" \notin spoiled =>
           Cover(Waiting(Producers)', Woken(Producers)', (Size - Count) + 1)
    BY <1>2, <2>2, <2>3, ArriveSide DEF WakeInv
  <2>5. "condNotempty" \notin spoiled => Cover(Waiting(Consumers)', Woken(Consumers)', Count')
    BY <1>2, <2>1, <2>2, <2>3, TakeSide DEF WakeInv
  <2> QED
    BY <2>2, <2>3, <2>4, <2>5 DEF WakeInv, Side, Cover
<1>6. ASSUME NEW t \in Threads, WaitBy(t) \/ QuitBy(t) \/ WakeBy(t)
      PROVE  WakeInv'
  <2>1. Count' = Count
    BY <1>6 DEF WaitBy, QuitBy, WakeBy, Still, Count
  <2>2. /\ \A u \in Consumers : Condition(u) = "condNotempty"
        /\ \A u \in Producers : Condition(u) = "condNotfull"
    BY DEF Condition
  <2>3. WaitBy(t) => /\ t \in Consumers => Count = 0
                     /\ t \in Producers => Size - Count = 0
    BY <1>1, FullEmptyCount DEF WaitBy
  <2>4. Count \in Nat /\ Size - Count \in Nat
    BY <1>1
  <2>5. ASSUME NEW n, n = Count
        PROVE  Side(Consumers, "condNotempty", n)'
    BY <1>2, <1>6, <2>2, <2>3, <2>4, <2>5, StillSide DEF WakeInv
  <2>6. ASSUME NEW n, n = Size - Count
        PROVE  Side(Producers, "condNotfull", n)'
    BY <1>2, <1>6, <2>2, <2>3, <2>4, <2>6, StillSide DEF WakeInv
  <2> QED
    BY <2>1, <2>5, <2>6 DEF WakeInv, Side
<1>7. CASE Switch
  BY <1>7 DEF Switch, WakeInv, Side, Waiting, Woken, Count
<1>8. CASE Disabled \/ Restart
  <2>1. \A t \in Threads : pc'[t] # "waiting"
    BY <1>8 DEF Disabled, Restart
  <2>2. Waiting(Consumers)' = {} /\ Waiting(Producers)' = {}
    BY <1>2, <2>1 DEF Waiting
  <2> QED
    BY <2>2 DEF WakeInv, Side
<1> QED
  BY <1>4, <1>5, <1>6, <1>7, <1>8, ThreadCases

(* push_back and pop_front signal one thread, never all: no thread sleeps  *)
(* beside an element or a free slot that no woken thread is on its way to, *)
(* unless a woken thread has left by a failed put, get or wait.            *)
THEOREM WakeupsCorrect == Spec => []WakeupsCoverItems
<1>1. Init => TypeOK /\ CountInv /\ WakeInv
  <2>1. Init => Waiting(Consumers) = {} /\ Waiting(Producers) = {}
    BY DEF Init, Waiting, Threads
  <2> QED
    BY <2>1, InitInv DEF WakeInv, Side
<1>2. TypeOK /\ CountInv /\ WakeInv /\ [Next]_vars => TypeOK' /\ CountInv' /\ WakeInv'
  BY TypeStep, CountStep, WakeStep
<1>3. WakeInv => WakeupsCoverItems
  BY DEF WakeInv, Side, WakeupsCoverItems
<1> QED
  BY <1>1, <1>2, <1>3, PTL DEF Spec
=============================================================================
