------------------------------ MODULE RingFifo ------------------------------
(***************************************************************************)
(* my_ringbuffbased_fifo: the bounded queue in memory.  It keeps the       *)
(* counters of my_fifo (head, tail, full) and an array base of Size slots, *)
(* and waits on the conditions of my_fifo with one deadline per call.  A   *)
(* step is one critical section of the mutex.                              *)
(***************************************************************************)
EXTENDS Integers, Sequences, FiniteSets

CONSTANTS Producers, Consumers, Values, NoValue,
          NoRing,       \* base before init()
          Size          \* maxSize

ASSUME SizeAssumption == Size \in Nat \ {0}
ASSUME ThreadAssumption ==
    Producers \cap Consumers = {} /\ IsFiniteSet(Producers) /\ IsFiniteSet(Consumers)
ASSUME ValueAssumption == NoValue \notin Values
ASSUME RingAssumption == NoRing \notin [0..(Size - 1) -> Values \cup {NoValue}]

Threads == Producers \cup Consumers

VARIABLES
    base,               \* the slots, NoRing until they are allocated
    head, tail, full,   \* the counters of my_fifo
    pc,                 \* "idle", "waiting" on its condition, or "woken"
    late,               \* the threads whose deadline (5 s after the call) has passed
    arg,                \* the content a producer is pushing
    taken,              \* the content a consumer got last
    lapsed              \* history: conditions with a signal that a timed-out wait used up

counters == <<head, tail, full>>
vars == <<base, counters, pc, late, arg, taken, lapsed>>

IsEmpty == full = 0 /\ head = tail
MutantIsFull == tail - head = Size - 1      \* one slot short, and only before the wrap
IsFull  == full = 1 /\ head = tail

Init ==
    /\ base = NoRing
    /\ head = 0 /\ tail = 0 /\ full = 0
    /\ pc = [t \in Threads |-> "idle"]
    /\ late = {}
    /\ arg = [p \in Producers |-> NoValue]
    /\ taken = [c \in Consumers |-> NoValue]
    /\ lapsed = {}

(* init(): the slots hold no element yet.  A second call returns -1.       *)
Allocate ==
    /\ base = NoRing
    /\ base' = [i \in 0..(Size - 1) |-> NoValue]
    /\ full' = 0
    /\ UNCHANGED <<head, tail, pc, late, arg, taken, lapsed>>

Waiting(S) == {t \in S : pc[t] = "waiting"}
Woken(S)   == {t \in S : pc[t] = "woken"}

Leave(t) == pc' = [pc EXCEPT ![t] = "idle"] /\ late' = late \ {t}

(* The mutant signals only a queue that was empty or full before.          *)
MutantLeaveAndSignal(t, S) ==
    IF Waiting(S) = {} \/ ~(IsEmpty \/ IsFull)
    THEN Leave(t)
    ELSE \E w \in Waiting(S) : pc' = [pc EXCEPT ![t] = "idle", ![w] = "woken"] /\ late' = late \ {t}
LeaveAndSignal(t, S) ==
    IF Waiting(S) = {}
    THEN Leave(t)
    ELSE /\ \E w \in Waiting(S) : pc' = [pc EXCEPT ![t] = "idle", ![w] = "woken"]
         /\ late' = late \ {t}

(* The wait of the while loop.  The deadline is that of the call; the      *)
(* mutant computes it anew for each wait.                                  *)
MutantWait(t) == pc' = [pc EXCEPT ![t] = "waiting"] /\ late' = late \ {t}
Wait(t) == pc' = [pc EXCEPT ![t] = "waiting"] /\ UNCHANGED late

MutantAdvance(i) == i + 1
Advance(i) == (i + 1) % Size

Forget(p) == arg' = [arg EXCEPT ![p] = NoValue]

PushBody(p, v) ==
    \/ /\ IsFull
       /\ Wait(p)
       /\ arg' = [arg EXCEPT ![p] = v]
       /\ UNCHANGED <<base, counters>>
    \/ /\ ~IsFull                                   \* returns 0
       /\ base' = [base EXCEPT ![tail] = v]
       /\ tail' = Advance(tail)
       /\ full' = IF head = tail' THEN 1 ELSE full
       /\ LeaveAndSignal(p, Consumers) /\ Forget(p)
       /\ UNCHANGED head

(* Without slots push_back and pop_front return -1 at once.                *)
Push(p, v) ==
    /\ pc[p] = "idle" /\ base # NoRing
    /\ PushBody(p, v)
    /\ UNCHANGED <<taken, lapsed>>

PushWoken(p) ==
    /\ pc[p] = "woken"
    /\ PushBody(p, arg[p])
    /\ UNCHANGED <<taken, lapsed>>

PopBody(c) ==
    \/ /\ IsEmpty
       /\ Wait(c)
       /\ UNCHANGED <<counters, taken>>
    \/ /\ ~IsEmpty                                  \* returns 0
       /\ taken' = [taken EXCEPT ![c] = base[head]]
       /\ head' = Advance(head)
       /\ full' = IF head' = tail THEN 0 ELSE full
       /\ LeaveAndSignal(c, Producers)
       /\ UNCHANGED tail

Pop(c) ==
    /\ pc[c] = "idle" /\ base # NoRing
    /\ PopBody(c)
    /\ UNCHANGED <<base, arg, lapsed>>

PopWoken(c) ==
    /\ pc[c] = "woken"
    /\ PopBody(c)
    /\ UNCHANGED <<base, arg, lapsed>>

SpuriousWakeup(t) ==
    /\ pc[t] = "waiting"
    /\ pc' = [pc EXCEPT ![t] = "woken"]
    /\ UNCHANGED <<base, counters, late, arg, taken, lapsed>>

Expire(t) ==
    /\ pc[t] # "idle" /\ t \notin late
    /\ late' = late \cup {t}
    /\ UNCHANGED <<base, counters, pc, arg, taken, lapsed>>

(* The wait returns -1 because the deadline has passed, and the call       *)
(* returns 1 without a look at the queue.  A wait that times out while it  *)
(* is signalled may use the signal up.                                     *)
TimeOut(t) ==
    /\ pc[t] \in {"waiting", "woken"} /\ t \in late
    /\ Leave(t)
    /\ arg' = IF t \in Producers THEN [arg EXCEPT ![t] = NoValue] ELSE arg
    /\ lapsed' = IF pc[t] = "waiting" THEN lapsed
                 ELSE lapsed \cup {IF t \in Producers THEN "condNotfull" ELSE "condNotempty"}
    /\ UNCHANGED <<base, counters, taken>>

Next ==
    \/ Allocate
    \/ \E p \in Producers : (\E v \in Values : Push(p, v)) \/ PushWoken(p)
    \/ \E c \in Consumers : Pop(c) \/ PopWoken(c)
    \/ \E t \in Threads : SpuriousWakeup(t) \/ Expire(t) \/ TimeOut(t)

(* Time passes, a woken thread gets the mutex, and a wait whose deadline   *)
(* has passed does not return 0 for ever.                                  *)
Fairness ==
    /\ \A p \in Producers : WF_vars(PushWoken(p))
    /\ \A c \in Consumers : WF_vars(PopWoken(c))
    /\ \A t \in Threads : WF_vars(Expire(t)) /\ WF_vars(TimeOut(t))

Spec == Init /\ [][Next]_vars /\ Fairness
-----------------------------------------------------------------------------
(* Every variable has its type.                                            *)
TypeOK ==
    /\ base \in {NoRing} \cup [0..(Size - 1) -> Values \cup {NoValue}]
    /\ head \in 0..(Size - 1) /\ tail \in 0..(Size - 1) /\ full \in {0, 1}
    /\ pc \in [Threads -> {"idle", "waiting", "woken"}]
    /\ late \in SUBSET {t \in Threads : pc[t] # "idle"}
    /\ arg \in [Producers -> Values \cup {NoValue}]
    /\ \A p \in Producers : pc[p] # "idle" <=> arg[p] \in Values
    /\ taken \in [Consumers -> Values \cup {NoValue}]
    /\ lapsed \subseteq {"condNotempty", "condNotfull"}

(* How many elements the counters stand for, and which ones.               *)
Count == IF head = tail THEN (IF full = 1 THEN Size ELSE 0)
         ELSE IF head < tail THEN tail - head ELSE tail - head + Size
Items == [i \in 1..Count |-> base[(head + i - 1) % Size]]

(* A consumer sleeps beside an element only if a woken one is on its way   *)
(* to it, and a producer beside a free slot likewise, unless a wait that   *)
(* timed out has used up a signal of that condition: then nothing wakes    *)
(* the sleeper before its own deadline.                                    *)
WakeupsCoverItems ==
    /\ "condNotempty" \in lapsed \/ Waiting(Consumers) = {}
          \/ Count <= Cardinality(Woken(Consumers))
    /\ "condNotfull" \in lapsed \/ Waiting(Producers) = {}
          \/ Size - Count <= Cardinality(Woken(Producers))

(* The slots from head on, as many as the counters stand for, are a first- *)
(* in first-out queue: no element is overwritten, lost or given twice.     *)
Queue == INSTANCE BoundedQueue WITH items <- Items, held <- 0
QueueSpec == Queue!Spec

(* Every push_back and pop_front returns, also when its thread is woken    *)
(* again and again and always finds the slot or the element gone.          *)
EveryCallReturns == \A t \in Threads : pc[t] # "idle" ~> pc[t] = "idle"
=============================================================================
