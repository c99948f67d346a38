------------------------------ MODULE BdbFifo ------------------------------
(***************************************************************************)
(* my_berkeleyDBbased_fifo: a bounded queue of captured blocks between the *)
(* nids thread and the parse threads.  A mutex and two condition variables *)
(* guard the ring counters of my_fifo (head, tail, full); the elements are *)
(* records of a Berkeley DB queue file that outlives the process, while    *)
(* the counters start at zero in every process.  A step is one critical    *)
(* section; a thread that waits gives the mutex up and runs again after a  *)
(* signal, a broadcast or a spurious wakeup.                               *)
(***************************************************************************)
EXTENDS Integers, Sequences, FiniteSets

CONSTANTS Producers, Consumers, Values, NoValue,
          Size,         \* maxSize
          MaxLeftover   \* bound: records in the file when a process starts

ASSUME SizeAssumption == Size \in Nat \ {0}
ASSUME ThreadAssumption ==
    Producers \cap Consumers = {} /\ IsFiniteSet(Producers) /\ IsFiniteSet(Consumers)
ASSUME ValueAssumption == NoValue \notin Values
ASSUME LeftoverAssumption == MaxLeftover \in Nat

Threads == Producers \cup Consumers

VARIABLES
    head, tail, full,   \* the counters of my_fifo
    status,             \* _status
    bopen,              \* _bopen of the my_berkeleyDB
    db,                 \* records of queue.db, oldest first
    pc,                 \* "idle", "waiting" on its condition, or "woken"
    arg,                \* the content a producer is pushing
    taken,              \* the content a consumer got last
    held,               \* history: records in the file when the process started
    spoiled             \* history: conditions of which a woken thread left without its job

counters == <<head, tail, full>>
vars == <<counters, status, bopen, db, pc, arg, taken, held, spoiled>>

IsEmpty == full = 0 /\ head = tail
MutantIsFull == tail - head = Size      \* the distance of a queue that does not wrap
IsFull  == full = 1 /\ head = tail

(* The constructors of my_fifo, my_berkeleyDB and this class.  The file may *)
(* hold records of an earlier process.                                     *)
Init ==
    /\ \E n \in 0..MaxLeftover : db \in [1..n -> Values]
    /\ held = Len(db)
    /\ head = 0 /\ tail = 0 /\ full = 0
    /\ status = "ENABLED" /\ bopen = FALSE
    /\ pc = [t \in Threads |-> "idle"]
    /\ arg = [p \in Producers |-> NoValue]
    /\ taken = [c \in Consumers |-> NoValue]
    /\ spoiled = {}

(* init(): opens queue.db with DB_CREATE, which keeps its records.         *)
Open ==
    /\ bopen' = TRUE
    /\ UNCHANGED <<counters, status, db, pc, arg, taken, held, spoiled>>

Waiting(S) == {t \in S : pc[t] = "waiting"}
Woken(S)   == {t \in S : pc[t] = "woken"}

(* Thread t returns from its call; what the caller makes of the value,     *)
(* 0 (done), 1 (disabled or wait failed) or -1 (database error), is not    *)
(* the concern of this module.  A success also signals one thread of S.    *)
Leave(t) == pc' = [pc EXCEPT ![t] = "idle"]

MutantLeaveSilently(t, S) == Leave(t)
LeaveAndSignal(t, S) ==
    IF Waiting(S) = {}
    THEN Leave(t)
    ELSE \E w \in Waiting(S) : pc' = [pc EXCEPT ![t] = "idle", ![w] = "woken"]

Forget(p) == arg' = [arg EXCEPT ![p] = NoValue]

(* A thread that was woken and leaves without using what it was woken for. *)
Spoil(t, cond) == spoiled' = IF pc[t] = "woken" THEN spoiled \cup {cond} ELSE spoiled

(* A record is stored or consumed, and the counters follow.  The mutants   *)
(* do not wrap, and do not see that the queue became full.                 *)
MutantAdvance(i) == i + 1
Advance(i) == (i + 1) % Size

MutantFullAfterPush(t) == full
FullAfterPush(t) == IF t = head THEN 1 ELSE full

Enqueue(v) ==
    /\ db' = Append(db, v)
    /\ tail' = Advance(tail)
    /\ full' = FullAfterPush(tail')
    /\ UNCHANGED head

Dequeue(c) ==
    /\ db # <<>>
    /\ taken' = [taken EXCEPT ![c] = Head(db)]
    /\ db' = Tail(db)
    /\ head' = Advance(head)
    /\ full' = IF head' = tail THEN 0 ELSE full
    /\ UNCHANGED tail

(* my_berkeleyDB::put and ::get fail when the file is not open, when there *)
(* is no record, and whenever Berkeley DB reports an error.                *)
DbFails == UNCHANGED <<counters, db>>

(* The file is used only in an enabled queue; a mutant does not ask.       *)
MutantServing == bopen
Serving == status = "ENABLED" /\ bopen

(* push_back from the test of the while loop on.  The status is not looked *)
(* at before the thread has waited once.                                   *)
PushBody(p, v) ==
    \/ /\ IsFull
       /\ pc' = [pc EXCEPT ![p] = "waiting"]
       /\ arg' = [arg EXCEPT ![p] = v]
       /\ UNCHANGED <<counters, db, spoiled>>
    \/ /\ ~IsFull /\ status = "DISABLED"                  \* returns 1
       /\ Leave(p) /\ Forget(p)
       /\ UNCHANGED <<counters, db, spoiled>>
    \/ /\ ~IsFull /\ Serving                              \* returns 0
       /\ Enqueue(v)
       /\ LeaveAndSignal(p, Consumers) /\ Forget(p)
       /\ UNCHANGED spoiled
    \/ /\ ~IsFull /\ status = "ENABLED"                   \* returns -1
       /\ DbFails
       /\ Leave(p) /\ Forget(p) /\ Spoil(p, "condNotfull")

Push(p, v) ==
    /\ pc[p] = "idle"
    /\ PushBody(p, v)
    /\ UNCHANGED <<status, bopen, taken, held>>

(* The thread wakes inside the loop: first the status, then the test again.*)
PushWoken(p) ==
    /\ pc[p] = "woken"
    /\ IF status = "DISABLED"
       THEN Leave(p) /\ Forget(p) /\ UNCHANGED <<counters, db, spoiled>>
       ELSE PushBody(p, arg[p])
    /\ UNCHANGED <<status, bopen, taken, held>>

(* pop_front, likewise.                                                    *)
PopBody(c) ==
    \/ /\ IsEmpty
       /\ pc' = [pc EXCEPT ![c] = "waiting"]
       /\ UNCHANGED <<counters, db, taken, spoiled>>
    \/ /\ ~IsEmpty /\ status = "DISABLED"
       /\ Leave(c)
       /\ UNCHANGED <<counters, db, taken, spoiled>>
    \/ /\ ~IsEmpty /\ Serving
       /\ Dequeue(c)
       /\ LeaveAndSignal(c, Producers)
       /\ UNCHANGED spoiled
    \/ /\ ~IsEmpty /\ status = "ENABLED"
       /\ DbFails
       /\ Leave(c) /\ Spoil(c, "condNotempty")
       /\ UNCHANGED taken

Pop(c) ==
    /\ pc[c] = "idle"
    /\ PopBody(c)
    /\ UNCHANGED <<status, bopen, arg, held>>

PopWoken(c) ==
    /\ pc[c] = "woken"
    /\ IF status = "DISABLED"
       THEN Leave(c) /\ UNCHANGED <<counters, db, taken, spoiled>>
       ELSE PopBody(c)
    /\ UNCHANGED <<status, bopen, arg, held>>

(* A condition may wake a thread without a signal.                         *)
SpuriousWakeup(t) ==
    /\ pc[t] = "waiting"
    /\ pc' = [pc EXCEPT ![t] = "woken"]
    /\ UNCHANGED <<counters, status, bopen, db, arg, taken, held, spoiled>>

(* wait returns -1: the call returns 1, signalled or not.                  *)
WaitFails(t) ==
    /\ pc[t] \in {"waiting", "woken"}
    /\ Leave(t)
    /\ IF t \in Producers
       THEN Forget(t) /\ Spoil(t, "condNotfull")
       ELSE UNCHANGED arg /\ Spoil(t, "condNotempty")
    /\ UNCHANGED <<counters, status, bopen, db, taken, held>>

Disabled ==
    /\ status' = "DISABLED"
    /\ pc' = [t \in Threads |-> IF pc[t] = "waiting" THEN "woken" ELSE pc[t]]
    /\ UNCHANGED <<counters, bopen, db, arg, taken, held, spoiled>>

Enabled ==
    /\ status' = "ENABLED"
    /\ UNCHANGED <<counters, bopen, db, pc, arg, taken, held, spoiled>>

(* The process ends at any moment and another one starts: new counters,    *)
(* old records.                                                            *)
Restart ==
    /\ Len(db) <= MaxLeftover
    /\ held' = Len(db)
    /\ head' = 0 /\ tail' = 0 /\ full' = 0
    /\ status' = "ENABLED" /\ bopen' = FALSE
    /\ pc' = [t \in Threads |-> "idle"]
    /\ arg' = [p \in Producers |-> NoValue]
    /\ taken' = [c \in Consumers |-> NoValue]
    /\ spoiled' = {}
    /\ UNCHANGED db

Next ==
    \/ \E p \in Producers : (\E v \in Values : Push(p, v)) \/ PushWoken(p)
    \/ \E c \in Consumers : Pop(c) \/ PopWoken(c)
    \/ \E t \in Threads : SpuriousWakeup(t) \/ WaitFails(t)
    \/ Open
    \/ Disabled
    \/ Enabled
    \/ Restart

Spec == Init /\ [][Next]_vars
-----------------------------------------------------------------------------
(* Every variable has its type.                                            *)
TypeOK ==
    /\ head \in 0..(Size - 1) /\ tail \in 0..(Size - 1) /\ full \in {0, 1}
    /\ status \in {"ENABLED", "DISABLED"}
    /\ bopen \in BOOLEAN
    /\ db \in Seq(Values)
    /\ pc \in [Threads -> {"idle", "waiting", "woken"}]
    /\ arg \in [Producers -> Values \cup {NoValue}]
    /\ \A p \in Producers : pc[p] # "idle" <=> arg[p] \in Values
    /\ taken \in [Consumers -> Values \cup {NoValue}]
    /\ held \in Nat
    /\ spoiled \subseteq {"condNotempty", "condNotfull"}

Count == Len(db) - held     \* elements of this process

(* The three counters say how many elements this process has in the file:  *)
(* the ring distance, and where head meets tail the flag full decides.     *)
(* full may stay 1 after a pop, but never where it would be believed.      *)
CountersMatchRecords ==
    /\ Count \in 0..Size
    /\ tail = (head + Count) % Size
    /\ head = tail => (full = 1 <=> Count = Size)

(* A consumer sleeps beside an element only if for every element some      *)
(* woken consumer is on its way to it, and a producer beside a free slot   *)
(* likewise: signal, not broadcast, is enough.  The one way to break this  *)
(* is a woken thread that leaves by a failed get, put or wait, because it  *)
(* does not pass its wakeup on.                                            *)
WakeupsCoverItems ==
    /\ "condNotempty" \in spoiled \/ Waiting(Consumers) = {}
          \/ Count <= Cardinality(Woken(Consumers))
    /\ "condNotfull" \in spoiled \/ Waiting(Producers) = {}
          \/ Size - Count <= Cardinality(Woken(Producers))

(* After disabled() no element enters or leaves the queue until enabled(). *)
ClosedWhileDisabled ==
    [][status = "DISABLED" /\ status' = "DISABLED" => db' = db /\ counters' = counters]_vars

(* The detailed fifo does what BoundedQueue promises.                      *)
Queue == INSTANCE BoundedQueue WITH items <- db
QueueSpec == Queue!Spec
=============================================================================
