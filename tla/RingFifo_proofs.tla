--------------------------- MODULE RingFifo_proofs ---------------------------
(* Proofs about RingFifo, for any threads and any Size.                    *)
EXTENDS RingFifo, DataLemmas, TLAPS, SequenceTheorems, FiniteSetTheorems

-----------------------------------------------------------------------------
(* What a step does to the slots and the counters: the five cases.         *)

(* Before init() nobody is inside the queue and nothing is in it.          *)
RingInv == base = NoRing => counters = <<0, 0, 0>> /\ \A t \in Threads : pc[t] = "idle"

PutSlot(v) ==
    /\ ~IsFull /\ base # NoRing
    /\ base' = [base EXCEPT ![tail] = v]
    /\ tail' = Advance(tail)
    /\ full' = IF head = tail' THEN 1 ELSE full
    /\ UNCHANGED <<head, taken>>

GetSlot(c) ==
    /\ ~IsEmpty /\ base # NoRing
    /\ taken' = [taken EXCEPT ![c] = base[head]]
    /\ head' = Advance(head)
    /\ full' = IF head' = tail THEN 0 ELSE full
    /\ UNCHANGED <<base, tail>>

Quiet == UNCHANGED <<base, counters, taken>>

(* ... and to the threads.                                                 *)
PutBy(p) == (\E v \in Values : PutSlot(v)) /\ LeaveAndSignal(p, Consumers) /\ UNCHANGED lapsed
GetBy(c) == GetSlot(c) /\ LeaveAndSignal(c, Producers) /\ UNCHANGED lapsed
WaitBy(t) ==
    /\ IF t \in Producers THEN IsFull ELSE IsEmpty
    /\ pc' = [pc EXCEPT ![t] = "waiting"] /\ UNCHANGED lapsed /\ Quiet
Condition(t) == IF t \in Producers THEN "condNotfull" ELSE "condNotempty"
QuitBy(t) ==
    /\ pc' = [pc EXCEPT ![t] = "idle"] /\ lapsed \subseteq lapsed'
    /\ pc[t] = "woken" => Condition(t) \in lapsed'
    /\ Quiet
WakeBy(t) ==
    /\ pc[t] = "waiting" /\ pc' = [pc EXCEPT ![t] = "woken"]
    /\ UNCHANGED lapsed /\ Quiet
Rest == UNCHANGED <<pc, lapsed>> /\ Quiet

LEMMA StepCases ==
  ASSUME TypeOK, RingInv, [Next]_vars
  PROVE  \/ \E p \in Producers : PutBy(p)
         \/ \E c \in Consumers : GetBy(c)
         \/ \E t \in Threads : WaitBy(t) \/ QuitBy(t) \/ WakeBy(t)
         \/ Allocate
         \/ Rest
<1> USE ThreadAssumption DEF Threads
<1>1. ASSUME NEW p \in Producers, NEW v \in Values, PushBody(p, v), base # NoRing,
             UNCHANGED <<taken, lapsed>>
      PROVE  PutBy(p) \/ WaitBy(p)
  BY <1>1 DEF PushBody, PutBy, PutSlot, WaitBy, Wait, Quiet, counters
<1>2. ASSUME NEW c \in Consumers, PopBody(c), base # NoRing, UNCHANGED <<base, arg, lapsed>>
      PROVE  GetBy(c) \/ WaitBy(c)
  BY <1>2 DEF PopBody, GetBy, GetSlot, WaitBy, Wait, Quiet, counters
<1>3. ASSUME NEW p \in Producers, NEW v \in Values, Push(p, v)
      PROVE  PutBy(p) \/ WaitBy(p)
  BY <1>1, <1>3 DEF Push
<1>4. ASSUME NEW p \in Producers, PushWoken(p)
      PROVE  PutBy(p) \/ WaitBy(p)
  <2>1. arg[p] \in Values /\ base # NoRing
    BY <1>4 DEF PushWoken, TypeOK, RingInv
  <2> QED
    BY <1>1, <1>4, <2>1 DEF PushWoken
<1>5. ASSUME NEW c \in Consumers, Pop(c) \/ PopWoken(c)
      PROVE  GetBy(c) \/ WaitBy(c)
  BY <1>2, <1>5 DEF Pop, PopWoken, RingInv
<1>6. ASSUME NEW t \in Threads, SpuriousWakeup(t)
      PROVE  WakeBy(t)
  BY <1>6 DEF SpuriousWakeup, WakeBy, Quiet
<1>7. ASSUME NEW t \in Threads, Expire(t)
      PROVE  Rest
  BY <1>7 DEF Expire, Rest, Quiet
<1>8. ASSUME NEW t \in Threads, TimeOut(t)
      PROVE  QuitBy(t)
  BY <1>8 DEF TimeOut, QuitBy, Leave, Quiet, Condition
<1>9. CASE UNCHANGED vars
  BY <1>9 DEF vars, Rest, Quiet
<1> QED
  BY <1>3, <1>4, <1>5, <1>6, <1>7, <1>8, <1>9 DEF Next

-----------------------------------------------------------------------------
(* The counters.                                                           *)

CountersType == head \in 0..(Size - 1) /\ tail \in 0..(Size - 1) /\ full \in {0, 1}

LEMMA CountFacts ==
  ASSUME CountersType
  PROVE  /\ Count \in 0..Size
         /\ tail = (head + Count) % Size
         /\ IsFull <=> Count = Size
         /\ IsEmpty <=> Count = 0
<1> USE SizeAssumption DEF CountersType
<1>1. CASE head = tail
  <2>1. Count = IF full = 1 THEN Size ELSE 0
    BY <1>1 DEF Count
  <2>2. (head + 0) % Size = head /\ (head + Size) % Size = head
    OBVIOUS
  <2> QED
    BY <1>1, <2>1, <2>2 DEF IsFull, IsEmpty
<1>2. CASE head < tail
  <2>1. Count = tail - head /\ Count \in 1..(Size - 1)
    BY <1>2 DEF Count
  <2>2. (head + (tail - head)) % Size = tail
    OBVIOUS
  <2> QED
    BY <1>2, <2>1, <2>2 DEF IsFull, IsEmpty
<1>3. CASE head > tail
  <2>1. Count = tail - head + Size /\ Count \in 1..(Size - 1)
    BY <1>3 DEF Count
  <2>2. (head + (tail - head + Size)) % Size = tail
    <3>1. head + (tail - head + Size) = tail + Size
      OBVIOUS
    <3>2. (tail + Size) % Size = tail
      OBVIOUS
    <3> QED
      BY <3>1, <3>2
  <2> QED
    BY <1>3, <2>1, <2>2 DEF IsFull, IsEmpty
<1> QED
  BY <1>1, <1>2, <1>3

LEMMA PutCount ==
  ASSUME CountersType, NEW v, PutSlot(v)
  PROVE  CountersType' /\ Count' = Count + 1
<1> USE SizeAssumption
<1>1. tail' = (tail + 1) % Size /\ head' = head
  BY DEF PutSlot, Advance
<1>2. tail' = IF tail + 1 < Size THEN tail + 1 ELSE 0
  BY <1>1 DEF CountersType
<1>3. CountersType'
  BY <1>1, <1>2 DEF CountersType, PutSlot
<1>4. full' = (IF head = tail' THEN 1 ELSE full) /\ ~IsFull
  BY DEF PutSlot
<1>5. \A h, t, u \in 0..(Size - 1), f \in {0, 1} :
         /\ u = IF t + 1 < Size THEN t + 1 ELSE 0
         /\ ~(f = 1 /\ h = t)
         => (IF h = u THEN Size ELSE IF h < u THEN u - h ELSE u - h + Size)
               = 1 + IF h = t THEN 0 ELSE IF h < t THEN t - h ELSE t - h + Size
  OBVIOUS
<1>6. Count' = IF head = tail' THEN Size ELSE IF head < tail' THEN tail' - head ELSE tail' - head + Size
  BY <1>1, <1>4 DEF Count
<1>7. Count = IF head = tail THEN 0 ELSE IF head < tail THEN tail - head ELSE tail - head + Size
  BY <1>4 DEF Count, IsFull, CountersType
<1>8. Count' = 1 + Count
  BY <1>1, <1>2, <1>3, <1>4, <1>5, <1>6, <1>7 DEF CountersType, IsFull
<1> QED
  BY <1>3, <1>8, CountFacts

LEMMA GetCount ==
  ASSUME CountersType, NEW c, GetSlot(c)
  PROVE  CountersType' /\ Count = Count' + 1 /\ Count' \in Nat
<1> USE SizeAssumption
<1>1. head' = (head + 1) % Size /\ tail' = tail
  BY DEF GetSlot, Advance
<1>2. head' = IF head + 1 < Size THEN head + 1 ELSE 0
  BY <1>1 DEF CountersType
<1>3. CountersType'
  BY <1>1, <1>2 DEF CountersType, GetSlot
<1>4. full' = (IF head' = tail THEN 0 ELSE full) /\ ~IsEmpty
  BY DEF GetSlot
<1>5. \A h, t, g \in 0..(Size - 1) :
         g = (IF h + 1 < Size THEN h + 1 ELSE 0)
         => (IF h = t THEN Size ELSE IF h < t THEN t - h ELSE t - h + Size)
               = 1 + IF g = t THEN 0 ELSE IF g < t THEN t - g ELSE t - g + Size
  OBVIOUS
<1>6. Count' = IF head' = tail THEN 0 ELSE IF head' < tail THEN tail - head' ELSE tail - head' + Size
  BY <1>1, <1>4 DEF Count
<1>7. Count = IF head = tail THEN Size ELSE IF head < tail THEN tail - head ELSE tail - head + Size
  BY <1>4 DEF Count, IsEmpty, CountersType
<1>8. Count = 1 + Count'
  BY <1>1, <1>2, <1>3, <1>5, <1>6, <1>7 DEF CountersType
<1>9. Count' \in Nat
  BY <1>1, <1>3, <1>6 DEF CountersType
<1> QED
  BY <1>3, <1>8, <1>9

-----------------------------------------------------------------------------
(* Types.                                                                  *)

ThreadTypes ==
    /\ pc \in [Threads -> {"idle", "waiting", "woken"}]
    /\ late \in SUBSET {t \in Threads : pc[t] # "idle"}
    /\ arg \in [Producers -> Values \cup {NoValue}]
    /\ \A p \in Producers : pc[p] # "idle" <=> arg[p] \in Values

LEMMA SignalTypes ==
  ASSUME ThreadTypes, NEW p \in Producers, Forget(p), LeaveAndSignal(p, Consumers) \/ Leave(p)
  PROVE  ThreadTypes'
<1>1. arg' \in [Producers -> Values \cup {NoValue}] /\ arg'[p] \notin Values
  BY ValueAssumption DEF ThreadTypes, Forget
<1>2. \A q \in Producers : q # p => arg'[q] = arg[q]
  BY DEF ThreadTypes, Forget
<1>3. /\ pc' \in [Threads -> {"idle", "waiting", "woken"}]
      /\ pc'[p] = "idle" /\ late' = late \ {p}
      /\ \A q \in Threads : q # p => pc'[q] = pc[q] \/ (q \in Consumers /\ pc'[q] = "woken")
  <2>1. CASE Leave(p)
    BY <2>1 DEF Leave, ThreadTypes, Threads
  <2>2. ASSUME NEW w \in Consumers, pc' = [pc EXCEPT ![p] = "idle", ![w] = "woken"], late' = late \ {p}
        PROVE  <1>3
    BY <2>2, ThreadAssumption DEF ThreadTypes, Threads
  <2> QED
    BY <2>1, <2>2 DEF LeaveAndSignal, Waiting
<1>4. late' \in SUBSET {t \in Threads : pc'[t] # "idle"}
  BY <1>3 DEF ThreadTypes
<1>5. \A q \in Producers : pc'[q] # "idle" <=> arg'[q] \in Values
  BY <1>1, <1>2, <1>3, ThreadAssumption DEF ThreadTypes, Threads
<1> QED
  BY <1>1, <1>3, <1>4, <1>5 DEF ThreadTypes

LEMMA ConsumerTypes ==
  ASSUME ThreadTypes, NEW c \in Consumers, UNCHANGED arg,
         LeaveAndSignal(c, Producers) \/ Leave(c) \/ Wait(c)
  PROVE  ThreadTypes'
<1>1. CASE Wait(c) \/ Leave(c)
  BY <1>1, ThreadAssumption DEF Wait, Leave, ThreadTypes, Threads
<1>2. ASSUME NEW w \in Waiting(Producers), pc' = [pc EXCEPT ![c] = "idle", ![w] = "woken"],
             late' = late \ {c}
      PROVE  ThreadTypes'
  <2>1. w \in Producers /\ w # c /\ pc[w] = "waiting"
    BY ThreadAssumption DEF Waiting
  <2>2. \A t \in Threads : pc'[t] = IF t = w THEN "woken" ELSE IF t = c THEN "idle" ELSE pc[t]
    BY <1>2, <2>1 DEF ThreadTypes, Threads
  <2>3. pc' \in [Threads -> {"idle", "waiting", "woken"}]
    BY <1>2 DEF ThreadTypes, Threads
  <2>4. late' \in SUBSET {t \in Threads : pc'[t] # "idle"}
    BY <1>2, <2>2 DEF ThreadTypes
  <2> QED
    BY <2>1, <2>2, <2>3, <2>4, ThreadAssumption DEF ThreadTypes, Threads
<1> QED
  BY <1>1, <1>2 DEF LeaveAndSignal

SlotTypes ==
    /\ base \in {NoRing} \cup [0..(Size - 1) -> Values \cup {NoValue}]
    /\ CountersType
    /\ taken \in [Consumers -> Values \cup {NoValue}]

LEMMA TypeParts == TypeOK <=> SlotTypes /\ ThreadTypes /\ lapsed \subseteq {"condNotempty", "condNotfull"}
BY DEF TypeOK, SlotTypes, ThreadTypes, CountersType

LEMMA SlotStep ==
  ASSUME TypeOK, RingInv, [Next]_vars
  PROVE  SlotTypes' /\ (base' = NoRing => base = NoRing)
<1> USE SizeAssumption, RingAssumption
<1>1. ASSUME NEW v \in Values, PutSlot(v)
      PROVE  SlotTypes' /\ (base' = NoRing => base = NoRing)
  <2>1. base \in [0..(Size - 1) -> Values \cup {NoValue}] /\ base # NoRing
    BY <1>1 DEF PutSlot, TypeOK
  <2>2. base' \in [0..(Size - 1) -> Values \cup {NoValue}]
    BY <1>1, <2>1 DEF PutSlot, TypeOK
  <2> QED
    BY <1>1, <2>2, PutCount DEF PutSlot, TypeOK, SlotTypes, CountersType
<1>2. ASSUME NEW c \in Consumers, GetSlot(c)
      PROVE  SlotTypes' /\ (base' = NoRing => base = NoRing)
  <2>1. base[head] \in Values \cup {NoValue} /\ base # NoRing
    BY <1>2 DEF GetSlot, TypeOK
  <2> QED
    BY <1>2, <2>1, GetCount DEF GetSlot, TypeOK, SlotTypes, CountersType
<1>3. CASE Allocate
  BY <1>3 DEF Allocate, TypeOK, SlotTypes, CountersType
<1>4. CASE Quiet
  BY <1>4 DEF Quiet, counters, TypeOK, SlotTypes, CountersType
<1> QED
  BY <1>1, <1>2, <1>3, <1>4, StepCases DEF PutBy, GetBy, WaitBy, QuitBy, WakeBy, Rest

LEMMA ThreadStep ==
  ASSUME TypeOK, RingInv, [Next]_vars
  PROVE  ThreadTypes' /\ lapsed' \subseteq {"condNotempty", "condNotfull"}
<1> DEFINE Goal == ThreadTypes' /\ lapsed' \subseteq {"condNotempty", "condNotfull"}
<1>1. ThreadTypes /\ lapsed \subseteq {"condNotempty", "condNotfull"}
  BY TypeParts
<1>2. ASSUME NEW p \in Producers, NEW v \in Values, PushBody(p, v), UNCHANGED <<taken, lapsed>>
      PROVE  Goal
  <2>1. CASE Wait(p) /\ arg' = [arg EXCEPT ![p] = v]
    BY <1>1, <1>2, <2>1, ThreadAssumption DEF Wait, ThreadTypes, Threads
  <2>2. CASE LeaveAndSignal(p, Consumers) /\ Forget(p)
    BY <1>1, <1>2, <2>2, SignalTypes
  <2> QED
    BY <1>2, <2>1, <2>2 DEF PushBody
<1>3. ASSUME NEW p \in Producers, NEW v \in Values, Push(p, v)
      PROVE  Goal
  BY <1>2, <1>3 DEF Push
<1>4. ASSUME NEW p \in Producers, PushWoken(p)
      PROVE  Goal
  <2>1. arg[p] \in Values
    BY <1>4 DEF PushWoken, TypeOK
  <2> QED
    BY <1>2, <1>4, <2>1 DEF PushWoken
<1>5. ASSUME NEW c \in Consumers, Pop(c) \/ PopWoken(c)
      PROVE  Goal
  BY <1>1, <1>5, ConsumerTypes DEF Pop, PopWoken, PopBody
<1>6. ASSUME NEW t \in Threads, SpuriousWakeup(t)
      PROVE  Goal
  BY <1>1, <1>6, ThreadAssumption DEF SpuriousWakeup, ThreadTypes, Threads
<1>7. ASSUME NEW t \in Threads, Expire(t)
      PROVE  Goal
  BY <1>1, <1>7 DEF Expire, ThreadTypes
<1>8. ASSUME NEW t \in Threads, TimeOut(t)
      PROVE  Goal
  <2>1. lapsed' \subseteq {"condNotempty", "condNotfull"}
    BY <1>1, <1>8 DEF TimeOut
  <2>2. CASE t \in Producers
    BY <1>1, <1>8, <2>1, <2>2, SignalTypes DEF TimeOut, Forget
  <2>3. CASE t \notin Producers
    BY <1>1, <1>8, <2>1, <2>3, ConsumerTypes DEF TimeOut, Threads
  <2> QED
    BY <2>2, <2>3
<1>9. CASE Allocate \/ UNCHANGED vars
  BY <1>1, <1>9 DEF Allocate, vars, ThreadTypes
<1> QED
  BY <1>3, <1>4, <1>5, <1>6, <1>7, <1>8, <1>9 DEF Next

LEMMA TypeStep ==
  ASSUME TypeOK, RingInv, [Next]_vars
  PROVE  TypeOK' /\ RingInv'
<1>1. TypeOK'
  BY SlotStep, ThreadStep DEF TypeOK, SlotTypes, ThreadTypes, CountersType
<1>2. ASSUME base' = NoRing
      PROVE  counters' = <<0, 0, 0>> /\ \A t \in Threads : pc'[t] = "idle"
  <2>1. base = NoRing /\ counters = <<0, 0, 0>> /\ \A t \in Threads : pc[t] = "idle"
    BY <1>2, SlotStep DEF RingInv
  <2>2. ~Allocate
    BY <1>2, RingAssumption DEF Allocate
  <2>3. ASSUME NEW t \in Threads
        PROVE  ~SpuriousWakeup(t) /\ ~Expire(t) /\ ~TimeOut(t)
    BY <2>1 DEF SpuriousWakeup, Expire, TimeOut
  <2>4. \A p \in Producers : ~PushWoken(p) /\ \A v \in Values : ~Push(p, v)
    BY <2>1 DEF PushWoken, Push, Threads
  <2>5. \A c \in Consumers : ~PopWoken(c) /\ ~Pop(c)
    BY <2>1 DEF PopWoken, Pop, Threads
  <2>6. UNCHANGED vars
    BY <2>2, <2>3, <2>4, <2>5 DEF Next
  <2> QED
    BY <2>1, <2>6 DEF vars
<1> QED
  BY <1>1, <1>2 DEF RingInv

LEMMA InitInv ==
  ASSUME Init
  PROVE  TypeOK /\ RingInv
<1> USE SizeAssumption, ValueAssumption
<1>1. SlotTypes
  BY DEF Init, SlotTypes, CountersType
<1>2. ThreadTypes
  BY DEF Init, ThreadTypes, Threads
<1> QED
  BY <1>1, <1>2, TypeParts DEF Init, RingInv, counters

(* Every variable of my_ringbuffbased_fifo keeps its type.                 *)
THEOREM TypeCorrect == Spec => []TypeOK
<1>1. Init => TypeOK /\ RingInv
  BY InitInv
<1>2. TypeOK /\ RingInv /\ [Next]_vars => TypeOK' /\ RingInv'
  BY TypeStep
<1> QED
  BY <1>1, <1>2, PTL DEF Spec

-----------------------------------------------------------------------------
(* Refinement.                                                             *)

LEMMA ItemsSeq ==
  ASSUME TypeOK, base # NoRing
  PROVE  /\ Items \in Seq(Values \cup {NoValue}) /\ Len(Items) = Count
         /\ \A i \in 1..Count : Items[i] = base[(head + i - 1) % Size]
<1> USE SizeAssumption
<1>1. Count \in 0..Size
  BY CountFacts DEF TypeOK, CountersType
<1>2. \A i \in 1..Count : (head + i - 1) % Size \in 0..(Size - 1)
  BY <1>1 DEF TypeOK
<1>3. \A i \in 1..Count : base[(head + i - 1) % Size] \in Values \cup {NoValue}
  BY <1>2 DEF TypeOK
<1> QED
  BY <1>1, <1>3 DEF Items

LEMMA PutItems ==
  ASSUME TypeOK, TypeOK', NEW v \in Values, PutSlot(v)
  PROVE  Items' = Append(Items, v) /\ Len(Items) < 0 + Size
<1> USE SizeAssumption
<1>1. CountersType /\ base # NoRing /\ base' # NoRing
  BY RingAssumption, SMTT(30) DEF TypeOK, CountersType, PutSlot
<1>2. Count \in 0..(Size - 1) /\ Count' = Count + 1 /\ tail = (head + Count) % Size
  <2>1. Count \in 0..Size /\ Count # Size
    BY <1>1, CountFacts DEF PutSlot
  <2> QED
    BY <1>1, <2>1, CountFacts, PutCount
<1>3. /\ Items \in Seq(Values \cup {NoValue}) /\ Len(Items) = Count
      /\ \A i \in 1..Count : Items[i] = base[(head + i - 1) % Size]
  BY <1>1, ItemsSeq
<1>4. Items' = [i \in 1..(Count + 1) |-> base'[(head + i - 1) % Size]]
  BY <1>2 DEF Items, PutSlot
<1>5. \A i \in 1..Count : base'[(head + i - 1) % Size] = Items[i]
  <2>1. \A i \in 1..Count : (head + i - 1) % Size \in 0..(Size - 1) /\ (head + i - 1) % Size # tail
    BY <1>1, <1>2, RingFree DEF CountersType
  <2> QED
    BY <1>1, <1>3, <2>1 DEF PutSlot, TypeOK
<1>6. base'[(head + (Count + 1) - 1) % Size] = v
  <2>1. head + (Count + 1) - 1 = head + Count
    BY <1>1, <1>2 DEF CountersType
  <2>2. base'[tail] = v
    BY <1>1 DEF PutSlot, TypeOK
  <2> QED
    BY <1>2, <2>1, <2>2
<1>7. Items' \in Seq(Values \cup {NoValue}) /\ Len(Items') = Count + 1
  <2>1. \A i \in 1..(Count + 1) : i \in 1..Count \/ i = Count + 1
    BY <1>2
  <2>2. \A i \in 1..(Count + 1) : base'[(head + i - 1) % Size] \in Values \cup {NoValue}
    <3> DEFINE In(i) == base'[(head + i - 1) % Size] \in Values \cup {NoValue}
    <3>1. ASSUME NEW i \in 1..Count PROVE In(i)
      <4>1. Items[i] \in Values \cup {NoValue}
        BY <1>3, ElementOfSeq
      <4> QED
        BY <1>5, <4>1
    <3>2. In(Count + 1)
      BY <1>6
    <3> HIDE DEF In
    <3>3. \A i \in 1..(Count + 1) : In(i)
      BY <2>1, <3>1, <3>2
    <3> QED
      BY <3>3 DEF In
  <2> QED
    BY <1>2, <1>4, <2>2
<1>8. /\ Append(Items, v) \in Seq(Values \cup {NoValue}) /\ Len(Append(Items, v)) = Count + 1
      /\ \A i \in 1..(Count + 1) : Append(Items, v)[i] = IF i <= Count THEN Items[i] ELSE v
  BY <1>2, <1>3
<1>9. \A i \in 1..(Count + 1) : Items'[i] = Append(Items, v)[i]
  <2>1. \A i \in 1..(Count + 1) : i \in 1..Count \/ i = Count + 1
    BY <1>2
  <2> QED
    BY <1>2, <1>4, <1>5, <1>6, <1>8, <2>1
<1>10. Items' = Append(Items, v)
  BY <1>7, <1>8, <1>9, SeqEqual
<1> QED
  BY <1>2, <1>3, <1>10

LEMMA GetItems ==
  ASSUME TypeOK, TypeOK', NEW c \in Consumers, GetSlot(c)
  PROVE  Items' = Tail(Items) /\ Len(Items) > 0 /\ Head(Items) = base[head]
<1> USE SizeAssumption
<1>1. CountersType /\ base # NoRing
  BY DEF TypeOK, CountersType, GetSlot
<1>2. Count \in 1..Size /\ Count' = Count - 1
  <2>1. Count \in 0..Size /\ Count # 0
    BY <1>1, CountFacts DEF GetSlot
  <2>2. Count = Count' + 1 /\ Count' \in Nat
    BY <1>1, GetCount
  <2>3. \A m \in 0..Size, n \in Nat : m # 0 /\ m = n + 1 => m \in 1..Size /\ n = m - 1
    OBVIOUS
  <2> QED
    BY <2>1, <2>2, <2>3
<1>3. /\ Items \in Seq(Values \cup {NoValue}) /\ Len(Items) = Count
      /\ \A i \in 1..Count : Items[i] = base[(head + i - 1) % Size]
  BY <1>1, ItemsSeq
<1>4. Items' = [i \in 1..(Count - 1) |-> base[(head' + i - 1) % Size]]
  BY <1>2 DEF Items, GetSlot
<1>5. \A i \in 1..(Count - 1) : base[(head' + i - 1) % Size] = Items[i + 1]
  <2>1. \A i \in 1..(Count - 1) : (head' + i - 1) % Size = (head + (i + 1) - 1) % Size
    <3>1. \A i \in 1..(Count - 1) : i \in 1..Size
      BY <1>2
    <3>2. head' = (head + 1) % Size
      BY DEF GetSlot, Advance
    <3> QED
      BY <1>1, <3>1, <3>2, RingShift DEF CountersType
  <2>2. \A i \in 1..(Count - 1) : i + 1 \in 1..Count
    BY <1>2
  <2> QED
    BY <1>3, <2>1, <2>2
<1>6. Items' \in Seq(Values \cup {NoValue}) /\ Len(Items') = Count - 1
  <2>1. \A i \in 1..(Count - 1) : i + 1 \in 1..Len(Items)
    BY <1>2, <1>3
  <2>2. \A i \in 1..(Count - 1) : base[(head' + i - 1) % Size] \in Values \cup {NoValue}
    BY <1>3, <1>5, <2>1, ElementOfSeq
  <2> QED
    BY <1>2, <1>4, <2>2
<1>7. Head(Items) = base[head]
  <2>1. Head(Items) = Items[1] /\ 1 \in 1..Count
    BY <1>2, <1>3
  <2>2. (head + 1 - 1) % Size = head
    BY <1>1 DEF CountersType
  <2> QED
    BY <1>3, <2>1, <2>2
<1>8. /\ Tail(Items) \in Seq(Values \cup {NoValue}) /\ Len(Tail(Items)) = Count - 1
      /\ \A i \in 1..(Count - 1) : Tail(Items)[i] = Items[i + 1]
  <2>1. Items # <<>>
    BY <1>2, <1>3
  <2> QED
    BY <1>3, <2>1, HeadTailProperties
<1>9. Items' = Tail(Items)
  <2>1. \A i \in 1..(Count - 1) : Items'[i] = Tail(Items)[i]
    BY <1>4, <1>5, <1>8
  <2> QED
    BY <1>6, <1>8, <2>1, SeqEqual
<1> QED
  BY <1>2, <1>3, <1>7, <1>9

LEMMA EmptyItems ==
  ASSUME counters = <<0, 0, 0>>
  PROVE  Items = <<>>
<1>1. Count = 0
  BY DEF counters, Count
<1> QED
  BY <1>1 DEF Items

LEMMA RefinementStep ==
  ASSUME TypeOK, TypeOK', RingInv, [Next]_vars
  PROVE  [Queue!Next]_(Queue!vars)
<1>1. ASSUME NEW v \in Values, PutSlot(v)
      PROVE  Queue!Next
  <2>1. Queue!Push(v)
    BY <1>1, PutItems DEF Queue!Push, PutSlot
  <2> QED
    BY <2>1 DEF Queue!Next
<1>2. ASSUME NEW c \in Consumers, GetSlot(c)
      PROVE  Queue!Next
  <2>1. Queue!Pop(c)
    BY <1>2, GetItems DEF Queue!Pop, GetSlot
  <2> QED
    BY <2>1 DEF Queue!Next
<1>3. CASE Allocate
  <2>1. counters = <<0, 0, 0>> /\ counters' = <<0, 0, 0>>
    BY <1>3 DEF Allocate, RingInv, counters
  <2>2. Items = <<>> /\ Items' = <<>>
    <3>1. Count = 0 /\ Count' = 0
      BY <2>1 DEF counters, Count
    <3> QED
      BY <3>1 DEF Items
  <2> QED
    BY <1>3, <2>2 DEF Allocate, Queue!vars
<1>4. CASE Quiet
  BY <1>4 DEF Quiet, counters, Queue!vars, Items, Count
<1> QED
  BY <1>1, <1>2, <1>3, <1>4, StepCases DEF PutBy, GetBy, WaitBy, QuitBy, WakeBy, Rest

(* The ring of slots behaves as a bounded first-in first-out queue, for    *)
(* any number of threads and any size: no wrap, no timed-out wait and no   *)
(* order of wakeups loses, repeats or overwrites an element.               *)
THEOREM Refinement == Spec => QueueSpec
<1>1. Init => Queue!Init
  <2>1. Init => Items = <<>>
    BY EmptyItems DEF Init, counters
  <2> QED
    BY <2>1 DEF Init, Queue!Init
<1>2. TypeOK /\ TypeOK' /\ RingInv /\ [Next]_vars => [Queue!Next]_(Queue!vars)
  BY RefinementStep
<1>3. Init => TypeOK /\ RingInv
  BY InitInv
<1>4. TypeOK /\ RingInv /\ [Next]_vars => TypeOK' /\ RingInv'
  BY TypeStep
<1> QED
  BY <1>1, <1>2, <1>3, <1>4, PTL DEF Spec, QueueSpec, Queue!Spec

-----------------------------------------------------------------------------
(* Wakeups.                                                                *)

(* One side of the queue: S are the threads that sleep on the condition,   *)
(* n is what they wait for (elements, or free slots).                      *)
Side(S, cond, n) == cond \in lapsed \/ Cover(Waiting(S), Woken(S), n)

WakeInv ==
    /\ Side(Consumers, "condNotempty", Count)
    /\ Side(Producers, "condNotfull", Size - Count)

LEMMA WokenFinite ==
  ASSUME NEW S, IsFiniteSet(S)
  PROVE  IsFiniteSet(Woken(S)) /\ IsFiniteSet(Woken(S)')
<1>1. Woken(S) \subseteq S /\ Woken(S)' \subseteq S
  BY DEF Woken
<1> QED
  BY <1>1, FS_Subset

(* A thread of A that leaves with a signal takes itself out of A's woken   *)
(* threads and, if anyone of B sleeps, adds one to B's.                    *)
LEMMA SignalThreads ==
  ASSUME NEW A, NEW B, A \cap B = {}, A \subseteq Threads, B \subseteq Threads,
         NEW p \in A, LeaveAndSignal(p, B), TypeOK
  PROVE  /\ Waiting(A)' \subseteq Waiting(A)
         /\ Woken(A) \ {p} \subseteq Woken(A)'
         /\ \/ Waiting(B)' = {}
            \/ \E w : w \notin Woken(B) /\ Waiting(B) # {} /\ Woken(B)' = Woken(B) \cup {w}
<1> USE DEF Waiting, Woken
<1>1. CASE Waiting(B) = {}
  <2>1. pc' = [pc EXCEPT ![p] = "idle"]
    BY <1>1 DEF LeaveAndSignal, Leave
  <2> QED
    BY <1>1, <2>1 DEF TypeOK
<1>2. ASSUME NEW w \in Waiting(B), pc' = [pc EXCEPT ![p] = "idle", ![w] = "woken"]
      PROVE  /\ Waiting(A)' \subseteq Waiting(A)
             /\ Woken(A) \ {p} \subseteq Woken(A)'
             /\ w \notin Woken(B) /\ Waiting(B) # {} /\ Woken(B)' = Woken(B) \cup {w}
  <2>1. w # p /\ w \in Threads /\ w \notin A /\ p \notin B
    BY <1>2
  <2>2. \A t \in Threads : pc'[t] = IF t = w THEN "woken" ELSE IF t = p THEN "idle" ELSE pc[t]
    BY <1>2, <2>1 DEF TypeOK
  <2>3. Waiting(A)' \subseteq Waiting(A) /\ Woken(A) \ {p} \subseteq Woken(A)'
    BY <2>1, <2>2
  <2>4. w \notin Woken(B) /\ Waiting(B) # {}
    BY <1>2
  <2>5. \A t \in B : pc'[t] = "woken" <=> t = w \/ pc[t] = "woken"
    BY <2>1, <2>2
  <2>6. Woken(B)' = Woken(B) \cup {w}
    BY <1>2, <2>5
  <2> QED
    BY <2>3, <2>4, <2>6
<1> QED
  BY <1>1, <1>2 DEF LeaveAndSignal

(* Thread p of A uses up one of A's n + 1 and leaves B one more than m.    *)
LEMMA ExchangeSides ==
  ASSUME NEW A, NEW B, A \cap B = {}, A \subseteq Threads, B \subseteq Threads,
         IsFiniteSet(A), IsFiniteSet(B), NEW p \in A, LeaveAndSignal(p, B), TypeOK,
         lapsed' = lapsed, NEW condA, NEW condB, NEW n \in Nat, NEW m \in Nat,
         Side(A, condA, n + 1), Side(B, condB, m)
  PROVE  /\ condA \in lapsed' \/ Cover(Waiting(A)', Woken(A)', n)
         /\ condB \in lapsed' \/ Cover(Waiting(B)', Woken(B)', m + 1)
<1>1. /\ IsFiniteSet(Woken(A)) /\ IsFiniteSet(Woken(A)')
      /\ IsFiniteSet(Woken(B)) /\ IsFiniteSet(Woken(B)')
  BY WokenFinite
<1>2. ASSUME condA \notin lapsed
      PROVE  Cover(Waiting(A)', Woken(A)', n)
  <2>1. Cover(Waiting(A), Woken(A), n + 1)
    BY <1>2 DEF Side
  <2>2. Waiting(A)' \subseteq Waiting(A) /\ Woken(A) \ {p} \subseteq Woken(A)'
    BY SignalThreads
  <2> QED
    BY <1>1, <2>1, <2>2, CoverTake
<1>3. ASSUME condB \notin lapsed
      PROVE  Cover(Waiting(B)', Woken(B)', m + 1)
  <2>1. Cover(Waiting(B), Woken(B), m)
    BY <1>3 DEF Side
  <2>2. CASE Waiting(B)' = {}
    BY <2>2 DEF Cover
  <2>3. ASSUME NEW w, w \notin Woken(B), Waiting(B) # {}, Woken(B)' = Woken(B) \cup {w}
        PROVE  Cover(Waiting(B)', Woken(B)', m + 1)
    BY <1>1, <2>1, <2>3, CoverSignal
  <2> QED
    BY <2>2, <2>3, SignalThreads
<1> QED
  BY <1>2, <1>3

(* A step that moves no element.                                           *)
LEMMA StillSide ==
  ASSUME NEW S, S \subseteq Threads, IsFiniteSet(S), TypeOK,
         NEW cond, \A u \in S : Condition(u) = cond,
         NEW n \in Nat, Side(S, cond, n),
         NEW t \in Threads,
         \/ WaitBy(t) /\ (t \in S => n = 0)
         \/ QuitBy(t) \/ WakeBy(t)
  PROVE  cond \in lapsed' \/ Cover(Waiting(S)', Woken(S)', n)
<1>1. IsFiniteSet(Woken(S)) /\ IsFiniteSet(Woken(S)')
  BY WokenFinite
<1>2. Cardinality(Woken(S)') \in Nat
  BY <1>1, FS_CardinalityType
<1>3. CASE n = 0
  BY <1>2, <1>3 DEF Cover
<1>4. ASSUME n # 0
      PROVE  /\ Waiting(S)' \subseteq Waiting(S)
             /\ Woken(S) \subseteq Woken(S)' \/ (pc[t] = "woken" /\ t \in S /\ QuitBy(t))
  BY <1>4 DEF WaitBy, QuitBy, WakeBy, Waiting, Woken, TypeOK
<1>5. lapsed \subseteq lapsed'
  BY DEF WaitBy, QuitBy, WakeBy
<1>6. CASE n # 0 /\ Woken(S) \subseteq Woken(S)'
  <2>1. cond \notin lapsed => Cover(Waiting(S)', Woken(S)', n)
    BY <1>1, <1>4, <1>6, CoverKeep DEF Side
  <2> QED
    BY <1>5, <2>1
<1>7. CASE n # 0 /\ pc[t] = "woken" /\ t \in S /\ QuitBy(t)
  BY <1>7 DEF QuitBy
<1> QED
  BY <1>3, <1>4, <1>6, <1>7

LEMMA WakeStep ==
  ASSUME TypeOK, TypeOK', RingInv, WakeInv, [Next]_vars
  PROVE  WakeInv'
<1> USE ThreadAssumption, SizeAssumption
<1>1. CountersType /\ Count \in 0..Size
  BY CountFacts DEF TypeOK, CountersType
<1>2. Producers \subseteq Threads /\ Consumers \subseteq Threads
  BY DEF Threads
<1>3. ASSUME NEW p \in Producers, PutBy(p)
      PROVE  WakeInv'
  <2>1. Count' = Count + 1 /\ Count # Size
    BY <1>1, <1>3, PutCount, CountFacts DEF PutBy, PutSlot
  <2>2. \A k \in 0..Size : k # Size =>
           Size - (k + 1) \in Nat /\ Size - k = (Size - (k + 1)) + 1 /\ k \in Nat
    OBVIOUS
  <2>3. /\ Size - Count' \in Nat /\ Size - Count = (Size - Count') + 1 /\ Count \in Nat
    BY <1>1, <2>1, <2>2
  <2>4. LeaveAndSignal(p, Consumers) /\ lapsed' = lapsed
    BY <1>3 DEF PutBy
  <2>5. Side(Producers, "condNotfull", (Size - Count') + 1) /\ Side(Consumers, "condNotempty", Count)
    BY <2>3 DEF WakeInv
  <2>6. /\ "condNotfull" \in lapsed' \/ Cover(Waiting(Producers)', Woken(Producers)', Size - Count')
        /\ "condNotempty" \in lapsed' \/ Cover(Waiting(Consumers)', Woken(Consumers)', Count + 1)
    BY <1>2, <2>3, <2>4, <2>5, ExchangeSides
  <2> QED
    BY <2>1, <2>6 DEF WakeInv, Side
<1>4. ASSUME NEW c \in Consumers, GetBy(c)
      PROVE  WakeInv'
  <2>1. Count = Count' + 1 /\ Count' \in Nat
    BY <1>1, <1>4, GetCount DEF GetBy
  <2>2. \A k \in 0..Size, n \in Nat : k = n + 1 =>
           Size - k \in Nat /\ Size - n = (Size - k) + 1
    OBVIOUS
  <2>3. Size - Count \in Nat /\ Size - Count' = (Size - Count) + 1
    BY <1>1, <2>1, <2>2
  <2>4. LeaveAndSignal(c, Producers) /\ lapsed' = lapsed
    BY <1>4 DEF GetBy
  <2>5. Side(Consumers, "condNotempty", Count' + 1) /\ Side(Producers, "condNotfull", Size - Count)
    BY <2>1 DEF WakeInv
  <2>6. /\ "condNotempty" \in lapsed' \/ Cover(Waiting(Consumers)', Woken(Consumers)', Count')
        /\ "condNotfull" \in lapsed'
              \/ Cover(Waiting(Producers)', Woken(Producers)', (Size - Count) + 1)
    BY <1>2, <2>1, <2>3, <2>4, <2>5, ExchangeSides
  <2> QED
    BY <2>3, <2>6 DEF WakeInv, Side
<1>5. ASSUME NEW t \in Threads, WaitBy(t) \/ QuitBy(t) \/ WakeBy(t)
      PROVE  WakeInv'
  <2>1. Count' = Count
    BY <1>5 DEF WaitBy, QuitBy, WakeBy, Quiet, counters, Count
  <2>2. /\ \A u \in Consumers : Condition(u) = "condNotempty"
        /\ \A u \in Producers : Condition(u) = "condNotfull"
    BY DEF Condition
  <2>3. WaitBy(t) => /\ t \in Consumers => Count = 0
                     /\ t \in Producers => Size - Count = 0
    BY <1>1, CountFacts DEF WaitBy
  <2>4. Count \in Nat /\ Size - Count \in Nat
    BY <1>1
  <2>5. "condNotempty" \in lapsed' \/ Cover(Waiting(Consumers)', Woken(Consumers)', Count)
    BY <1>2, <1>5, <2>2, <2>3, <2>4, StillSide DEF WakeInv
  <2>6. "condNotfull" \in lapsed' \/ Cover(Waiting(Producers)', Woken(Producers)', Size - Count)
    BY <1>2, <1>5, <2>2, <2>3, <2>4, StillSide DEF WakeInv
  <2> QED
    BY <2>1, <2>5, <2>6 DEF WakeInv, Side
<1>6. CASE Allocate
  <2>1. Count' = Count
    BY <1>6 DEF Allocate, RingInv, counters, Count
  <2> QED
    BY <1>6, <2>1 DEF Allocate, WakeInv, Side, Waiting, Woken
<1>7. CASE Rest
  BY <1>7 DEF Rest, Quiet, counters, WakeInv, Side, Waiting, Woken, Count
<1> QED
  BY <1>3, <1>4, <1>5, <1>6, <1>7, StepCases

(* One signal for each element and each slot is enough, for any number of  *)
(* threads: nobody sleeps beside one that no woken thread is on its way    *)
(* to, until a wait that timed out has used up a signal of that condition. *)
THEOREM WakeupsCorrect == Spec => []WakeupsCoverItems
<1>1. Init => TypeOK /\ RingInv /\ WakeInv
  <2>1. Init => Waiting(Consumers) = {} /\ Waiting(Producers) = {}
    BY DEF Init, Waiting, Threads
  <2> QED
    BY <2>1, InitInv DEF WakeInv, Side, Cover
<1>2. TypeOK /\ RingInv /\ WakeInv /\ [Next]_vars => TypeOK' /\ RingInv' /\ WakeInv'
  BY TypeStep, WakeStep
<1>3. WakeInv => WakeupsCoverItems
  BY DEF WakeInv, Side, Cover, WakeupsCoverItems
<1> QED
  BY <1>1, <1>2, <1>3, PTL DEF Spec
=============================================================================
