---------------------------- MODULE BoundedQueue ----------------------------
(***************************************************************************)
(* What a my_fifo promises its callers, whatever stores the elements: a    *)
(* first-in first-out queue that never holds more than Size new elements,  *)
(* and hands each element to exactly one consumer.  An implementation that *)
(* finds old elements in its store when the process starts keeps `held' of *)
(* them back: the queue is a delay line that long.                         *)
(***************************************************************************)
EXTENDS Naturals, Sequences

CONSTANTS Size, Values, NoValue, Consumers

VARIABLES items,    \* elements in the store, oldest first
          held,     \* how many of them are kept back
          taken     \* the element each consumer got last

vars == <<items, held, taken>>

Init ==
    /\ items \in Seq(Values)
    /\ held = Len(items)
    /\ taken = [c \in Consumers |-> NoValue]

Push(v) ==
    /\ Len(items) < held + Size
    /\ items' = Append(items, v)
    /\ UNCHANGED <<held, taken>>

Pop(c) ==
    /\ Len(items) > held
    /\ taken' = [taken EXCEPT ![c] = Head(items)]
    /\ items' = Tail(items)
    /\ UNCHANGED held

(* The process starts again: what the store holds is old now.              *)
Restart ==
    /\ held' = Len(items)
    /\ taken' = [c \in Consumers |-> NoValue]
    /\ UNCHANGED items

Next ==
    \/ \E v \in Values : Push(v)
    \/ \E c \in Consumers : Pop(c)
    \/ Restart

Spec == Init /\ [][Next]_vars
=============================================================================
