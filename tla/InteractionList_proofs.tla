----------------------- MODULE InteractionList_proofs -----------------------
(* Proofs about InteractionList, for any threads, connections and bounds.  *)
EXTENDS InteractionList, TLAPS, SequenceTheorems, FiniteSetTheorems

USE DEF exitVars

-----------------------------------------------------------------------------
(* The content of one interaction: what each set_matched_client method     *)
(* keeps true of it.                                                       *)

Fits(info) ==
    /\ info \in ClientInfos
    /\ info.size = info.buffer /\ info.filled <= info.size
    /\ ~info.content => info.size = 0

LEMMA MallocFits ==
  ASSUME NEW info, Fits(info), NEW len \in Nat
  PROVE  Fits(Malloc(info, len))
<1>1. CASE info.complete \/ len = 0 \/ info.content
  BY <1>1 DEF Malloc
<1>2. CASE ~(info.complete \/ len = 0 \/ info.content)
  <2> DEFINE new == [info EXCEPT !.content = TRUE, !.buffer = len, !.size = len]
  <2>1. new \in ClientInfos
    BY DEF Fits, ClientInfos
  <2>2. new.content = TRUE /\ new.size = len /\ new.buffer = len /\ new.filled = info.filled
    BY DEF Fits, ClientInfos
  <2>3. info.filled <= 0 /\ info.filled \in Nat
    BY <1>2 DEF Fits, ClientInfos
  <2> QED
    BY <1>2, <2>1, <2>2, <2>3 DEF Malloc, Fits
<1> QED
  BY <1>1, <1>2

LEMMA AppendFits ==
  ASSUME NEW info, Fits(info), NEW len \in Nat
  PROVE  Fits(AppendChunk(info, len))
<1>1. CASE info.complete \/ ~info.chunked
  BY <1>1 DEF AppendChunk
<1>2. CASE ~(info.complete \/ ~info.chunked)
  <2> DEFINE was == IF info.content THEN info.size ELSE 0
             new == [info EXCEPT !.content = TRUE, !.buffer = was + len, !.size = info.size + len]
  <2>1. info.size \in Nat /\ info.filled \in Nat /\ info.filled <= info.size
    BY DEF Fits, ClientInfos
  <2>2. was = info.size
    BY DEF Fits
  <2>3. AppendChunk(info, len) = new
    BY <1>2, Zenon DEF AppendChunk
  <2> HIDE DEF was
  <2>4. was + len \in Nat /\ info.size + len \in Nat
    BY <2>1, <2>2
  <2>5. new \in ClientInfos
    BY <2>4 DEF Fits, ClientInfos
  <2>6. /\ new.content = TRUE /\ new.size = info.size + len
        /\ new.buffer = info.size + len /\ new.filled = info.filled
    BY <2>2 DEF Fits, ClientInfos
  <2> HIDE DEF new
  <2>7. new.filled <= new.size
    BY <2>1, <2>6
  <2> QED
    BY <2>3, <2>5, <2>6, <2>7 DEF Fits
<1> QED
  BY <1>1, <1>2

LEMMA FillFits ==
  ASSUME NEW info, Fits(info), NEW len \in Nat
  PROVE  Fits(FillContent(info, len))
<1>1. CASE info.chunked \/ info.complete
  BY <1>1 DEF FillContent
<1>2. CASE ~(info.chunked \/ info.complete)
  <2> DEFINE n == IF len < info.size - info.filled THEN len ELSE info.size - info.filled
             new == [info EXCEPT !.filled = @ + n, !.complete = (info.filled + n = info.size)]
  <2>1. info.size \in Nat /\ info.filled \in Nat /\ info.filled <= info.size
    BY DEF Fits, ClientInfos
  <2>2. info.filled + n \in Nat /\ info.filled + n <= info.size
    BY <2>1
  <2> HIDE DEF n
  <2>3. new \in ClientInfos
    BY <2>2 DEF Fits, ClientInfos
  <2>4. /\ new.content = info.content /\ new.size = info.size
        /\ new.buffer = info.buffer /\ new.filled = info.filled + n
    BY DEF Fits, ClientInfos
  <2>5. Fits(new)
    BY <2>2, <2>3, <2>4 DEF Fits
  <2> QED
    BY <1>2, <2>5 DEF FillContent, n
<1> QED
  BY <1>1, <1>2

LEMMA FlagFits ==
  ASSUME NEW info, Fits(info), NEW flag \in BOOLEAN
  PROVE  Fits([info EXCEPT !.chunked = flag]) /\ Fits([info EXCEPT !.complete = flag])
<1>1. Fits([info EXCEPT !.chunked = flag])
  BY DEF Fits, ClientInfos
<1>2. Fits([info EXCEPT !.complete = flag])
  BY DEF Fits, ClientInfos
<1> QED
  BY <1>1, <1>2

LEMMA BlankFits == Fits(Blank)
BY DEF Fits, Blank, ClientInfos

-----------------------------------------------------------------------------
(* The kinds of steps.                                                     *)

(* A thread that is about to put an interaction, or that uses one, has a   *)
(* pointer.                                                                *)
TypeInv ==
    /\ TypeOK
    /\ \A i \in Interactions : Fits(client[i])
    /\ \A p \in Parsers : parser[p] \in Using \cup {"put"} => target[p] \in Interactions

(* p does one step of parse_client_data after the match.                   *)
FileBy(p) ==
    /\ parser[p] \in Using /\ heap[target[p]] = "live"
    /\ UNCHANGED <<heap, conn, expired, listVars, outputVars, exitVars, misused, heard>>
    /\ \/ \E next \in Using : parser' = [parser EXCEPT ![p] = next] /\ UNCHANGED <<target, segment>>
       \/ Return(p)
    /\ timers' \in {timers, timers \ {target[p]}}
    /\ Filing(p)' => Filing(p) \/ target[p] \notin timers'
    /\ \/ UNCHANGED client
       \/ Filing(p) /\ \E info : Fits(info) /\ client' = [client EXCEPT ![target[p]] = info]

(* The output thread takes the front.                                      *)
Take ==
    /\ output \in {"pop", "woken"} /\ status # "DISABLED"
    /\ LongEnough(list)
    /\ output' = "print" /\ printed' = Head(list) /\ list' = Tail(list)
    /\ UNCHANGED <<heapVars, status, order, rejected, parserVars, exitVars, misused, heard>>

(* Nothing happens to an interaction.                                      *)
Turn ==
    /\ UNCHANGED <<heapVars, list, order, rejected, parserVars, printed, heard>>
    /\ output' \in {"pop", "waiting", "woken", "print", "done"}
    /\ output = "print" <=> output' = "print"
    /\ output = "done" => output' = "done"
    /\ status' \in {status, "DISABLED"} /\ exit' \in {"no", "quit", "ended"}
    /\ reacting' \in BOOLEAN /\ (~reacting => ~reacting')
    /\ misused' \in BOOLEAN

LEMMA SegmentLengths ==
  ASSUME NEW s \in Segments \cup {Idle}
  PROVE  s.size \in Nat /\ s.len \in Nat
<1>1. Sizes \subseteq Nat /\ Lens \subseteq Nat
  BY SizeAssumption
<1>2. CASE s \in [head : {"none", "chunked", "zero", "absent"}, size : {0}, len : Lens]
  <2>1. s.size \in Nat
    BY <1>2
  <2>2. s.len \in Lens
    BY <1>2
  <2> QED
    BY <1>1, <2>1, <2>2, Zenon
<1>3. CASE s \in [head : {"sized"}, size : Sizes, len : Lens]
  BY <1>1, <1>3
<1>4. CASE s = Idle
  BY <1>4 DEF Idle
<1> QED
  BY <1>2, <1>3, <1>4 DEF Segments

LEMMA FileCases ==
  ASSUME TypeInv, NEW p \in Parsers,
         \/ CheckStatus(p) \/ CancelTimer(p) \/ FileHead(p) \/ FileComplete(p)
         \/ FileSipInfo(p) \/ FileChunk(p) \/ FileBody(p)
  PROVE  FileBy(p)
<1> DEFINE info == client[target[p]]
<1> USE DEF FileBy, Filing, Using, Step, At
<1>1. parser[p] \in Using => Fits(info) /\ target[p] \in Interactions
  BY DEF TypeInv
<1>2. segment[p].size \in Nat /\ segment[p].len \in Nat
  BY SegmentLengths DEF TypeInv, TypeOK
<1> HIDE DEF info
<1>3. parser \in [Parsers -> {"idle", "put", "done"} \cup Using]
  BY DEF TypeInv, TypeOK
<1>4. CASE CheckStatus(p)
  BY <1>3, <1>4 DEF CheckStatus, Return
<1>5. CASE CancelTimer(p)
  BY <1>3, <1>5 DEF CancelTimer
<1>6. CASE FileHead(p)
  <2>1. Fits([info EXCEPT !.chunked = TRUE]) /\ Fits(Malloc(info, segment[p].size))
    BY <1>1, <1>2, <1>6, MallocFits, FlagFits DEF FileHead
  <2> QED
    BY <1>3, <1>6, <2>1 DEF FileHead, File, info
<1>7. CASE FileComplete(p)
  <2>1. Fits([info EXCEPT !.complete = segment[p].head = "zero"])
    BY <1>1, <1>7, FlagFits DEF FileComplete
  <2> QED
    BY <1>3, <1>7, <2>1 DEF FileComplete, File, info
<1>8. CASE FileSipInfo(p)
  BY <1>3, <1>8 DEF FileSipInfo
<1>9. CASE FileChunk(p)
  <2>1. Fits(AppendChunk(info, segment[p].len))
    BY <1>1, <1>2, <1>9, AppendFits DEF FileChunk
  <2> QED
    BY <1>3, <1>9, <2>1 DEF FileChunk, File, info
<1>10. CASE FileBody(p)
  <2>1. Fits(FillContent(info, segment[p].len))
    BY <1>1, <1>2, <1>10, FillFits DEF FileBody
  <2> QED
    BY <1>3, <1>10, <2>1 DEF FileBody, File, Return, info
<1> QED
  BY <1>4, <1>5, <1>6, <1>7, <1>8, <1>9, <1>10

LEMMA StepCases ==
  ASSUME TypeInv, [Next]_vars
  PROVE  \/ \E p \in Parsers : Create(p) \/ Put(p) \/ Match(p) \/ FileBy(p) \/ Leave(p)
         \/ \E i \in Interactions : HandleTimeout(i)
         \/ Take \/ Delete \/ Clear \/ Turn
<1>1. ASSUME NEW p \in Parsers, UseFreed(p)
      PROVE  Turn
  BY <1>1 DEF UseFreed, Turn, TypeInv, TypeOK, listVars, outputVars
<1>2. CASE Pop
  BY <1>2 DEF Pop, TakeFront, Take, Turn, TypeInv, TypeOK
<1>3. CASE Awake
  BY <1>3 DEF Awake, TakeFront, Take, Turn, TypeInv, TypeOK
<1>4. CASE SpuriousWakeup \/ SetQuit \/ EndEventLoop \/ LeaveEventLoop \/ Disabled \/ Quit
           \/ UNCHANGED vars
  BY <1>4 DEF SpuriousWakeup, SetQuit, EndEventLoop, LeaveEventLoop, Disabled, Quit, vars, Turn,
              TypeInv, TypeOK, listVars, outputVars
<1> QED
  BY <1>1, <1>2, <1>3, <1>4, FileCases DEF Next, Parse, Output
-----------------------------------------------------------------------------
(* Types, and the contents that fit.                                       *)

LEMMA TypeInit ==
  ASSUME Init
  PROVE  TypeInv
<1>1. Blank \in ClientInfos
  BY BlankFits DEF Fits
<1>2. \A i \in Interactions : client[i] = Blank
  BY DEF Init
<1>3. client \in [Interactions -> ClientInfos]
  BY <1>1 DEF Init
<1>4. \A p \in Parsers : parser[p] = "idle"
  BY DEF Init
<1>5. segment \in [Parsers -> Segments \cup {Idle}]
  BY DEF Init
<1>6. list \in Seq(Interactions) /\ order \in Seq(Interactions) /\ heard \in Nat
  BY DEF Init
<1>7. /\ heap \in [Interactions -> {"unborn", "live", "freed"}]
      /\ conn \in [Interactions -> Conns \cup {NoConn}]
      /\ parser \in [Parsers -> {"idle", "put", "done"} \cup Using]
      /\ target \in [Parsers -> Interactions \cup {None}]
      /\ printed \in Interactions \cup {None}
  BY DEF Init, Using
<1>8. TypeOK
  BY <1>3, <1>5, <1>6, <1>7 DEF Init, TypeOK
<1> QED
  BY <1>2, <1>4, <1>8, BlankFits DEF TypeInv, Using

(* A freed interaction has nothing filed.                                  *)
LEMMA FreeTypes ==
  ASSUME TypeInv, NEW S, Free(S)
  PROVE  /\ heap' \in [Interactions -> {"unborn", "live", "freed"}]
         /\ conn' \in [Interactions -> Conns \cup {NoConn}]
         /\ client' \in [Interactions -> ClientInfos]
         /\ expired' \subseteq Interactions
         /\ \A i \in Interactions : Fits(client'[i])
BY BlankFits DEF Free, TypeInv, TypeOK, Fits

LEMMA TypeStep ==
  ASSUME TypeInv, [Next]_vars
  PROVE  TypeInv'
<1> USE DEF TypeInv, TypeOK
<1>1. ASSUME NEW p \in Parsers, Create(p)
      PROVE  TypeInv'
  <2>1. PICK i \in Interactions :
            /\ CreateOneInteraction(i) /\ InitRequestInteraction(i)
            /\ target' = [target EXCEPT ![p] = i]
    BY <1>1 DEF Create
  <2> QED
    BY <1>1, <2>1 DEF Create, CreateOneInteraction, InitRequestInteraction, listVars, outputVars,
                      Using
<1>2. ASSUME NEW p \in Parsers, Put(p)
      PROVE  TypeInv'
  <2>1. target[p] \in Interactions
    BY <1>2 DEF Put
  <2>2. list' \in Seq(Interactions) /\ order' \in Seq(Interactions) /\ rejected' \subseteq Interactions
    <3>1. CASE status = "DISABLED"
      BY <1>2, <2>1, <3>1 DEF Put
    <3>2. CASE status # "DISABLED"
      <4>1. list' = Append(list, target[p]) /\ order' = Append(order, target[p]) /\ rejected' = rejected
        BY <1>2, <3>2 DEF Put
      <4> QED
        BY <2>1, <4>1
    <3> QED
      BY <3>1, <3>2
  <2>3. output' \in {"pop", "waiting", "woken", "print", "done"}
    BY <1>2 DEF Put, Signal
  <2> QED
    BY <1>2, <2>2, <2>3 DEF Put, Return, heapVars, Using
<1>3. ASSUME NEW p \in Parsers, Match(p)
      PROVE  TypeInv'
  <2>1. PICK s \in Segments, n \in DOMAIN list :
            /\ target' = [target EXCEPT ![p] = list[n]]
            /\ segment' = [segment EXCEPT ![p] = s]
    BY <1>3 DEF Match
  <2>2. list[n] \in Interactions
    OBVIOUS
  <2> QED
    BY <1>3, <2>1, <2>2 DEF Match, heapVars, listVars, outputVars, Using
<1>4. ASSUME NEW p \in Parsers, FileBy(p)
      PROVE  TypeInv'
  <2>1. target[p] \in Interactions
    BY <1>4 DEF FileBy
  <2>2. /\ client' \in [Interactions -> ClientInfos]
        /\ \A i \in Interactions : Fits(client'[i])
    <3>1. CASE UNCHANGED client
      BY <3>1 DEF Fits
    <3>2. CASE ~UNCHANGED client
      <4>1. PICK info : Fits(info) /\ client' = [client EXCEPT ![target[p]] = info]
        BY <1>4, <3>2 DEF FileBy
      <4>2. info \in ClientInfos
        BY <4>1 DEF Fits
      <4> QED
        BY <2>1, <4>1, <4>2
    <3> QED
      BY <3>1, <3>2
  <2>3. timers' \subseteq Interactions
    BY <1>4 DEF FileBy
  <2>4. /\ parser' \in [Parsers -> {"idle", "put", "done"} \cup Using]
        /\ target' \in [Parsers -> Interactions \cup {None}]
        /\ segment' \in [Parsers -> Segments \cup {Idle}]
        /\ \A q \in Parsers : parser'[q] \in Using \cup {"put"} => target'[q] \in Interactions
    <3>1. CASE Return(p)
      BY <1>4, <3>1 DEF Return, Using
    <3>2. CASE ~Return(p)
      BY <1>4, <2>1, <3>2 DEF FileBy
    <3> QED
      BY <3>1, <3>2
  <2> QED
    BY <1>4, <2>2, <2>3, <2>4 DEF FileBy, listVars, outputVars
<1>5. ASSUME NEW p \in Parsers, Leave(p)
      PROVE  TypeInv'
  BY <1>5 DEF Leave, heapVars, listVars, outputVars, Using
<1>6. ASSUME NEW i \in Interactions, HandleTimeout(i)
      PROVE  TypeInv'
  BY <1>6 DEF HandleTimeout, listVars, outputVars, parserVars
<1>7. CASE Take
  <2>1. list # <<>>
    BY <1>7, CountAssumption DEF Take, LongEnough
  <2>2. Head(list) \in Interactions /\ Tail(list) \in Seq(Interactions)
    BY <2>1
  <2> QED
    BY <1>7, <2>2 DEF Take, heapVars, parserVars
<1>8. CASE Delete
  BY <1>8, FreeTypes DEF Delete, listVars, parserVars
<1>9. CASE Clear
  BY <1>9, FreeTypes DEF Clear, outputVars, parserVars
<1>10. CASE Turn
  BY <1>10 DEF Turn, heapVars, parserVars
<1> QED
  BY <1>1, <1>2, <1>3, <1>4, <1>5, <1>6, <1>7, <1>8, <1>9, <1>10, StepCases

LEMMA TypeInvariant == Spec => []TypeInv
<1>1. Init => TypeInv
  BY TypeInit
<1>2. TypeInv /\ [Next]_vars => TypeInv'
  BY TypeStep
<1> QED
  BY <1>1, <1>2, PTL DEF Spec

(* The threads, the reactor and the program's shutdown keep every variable *)
(* in its type.                                                            *)
THEOREM TypeCorrect == Spec => []TypeOK
<1>1. TypeInv => TypeOK
  BY DEF TypeInv
<1> QED
  BY <1>1, TypeInvariant, PTL

(* However the heads and segments of several parse threads alternate on    *)
(* one interaction, the content pointer has room for what is filed.        *)
THEOREM ContentAlwaysFits == Spec => []ContentFits
<1>1. TypeInv => ContentFits
  BY DEF TypeInv, ContentFits, Fits
<1> QED
  BY <1>1, TypeInvariant, PTL
-----------------------------------------------------------------------------
(* Timers.                                                                 *)

(* delete_one_interaction cancels the timer it frees the handler of, and   *)
(* clear runs when the event loop is left.                                 *)
LEMMA TimerStep ==
  ASSUME TypeInv, TimersOnLive, [Next]_vars
  PROVE  TimersOnLive'
<1> USE DEF TypeInv, TypeOK, TimersOnLive
<1>1. ASSUME NEW p \in Parsers, Create(p)
      PROVE  TimersOnLive'
  <2>1. PICK i \in Interactions : CreateOneInteraction(i)
    BY <1>1 DEF Create
  <2> QED
    BY <1>1, <2>1 DEF Create, CreateOneInteraction, listVars
<1>2. ASSUME NEW p \in Parsers, Put(p) \/ Match(p) \/ Leave(p)
      PROVE  TimersOnLive'
  BY <1>2 DEF Put, Match, Leave, heapVars, listVars
<1>3. ASSUME NEW p \in Parsers, FileBy(p)
      PROVE  TimersOnLive'
  BY <1>3 DEF FileBy, listVars
<1>4. ASSUME NEW i \in Interactions, HandleTimeout(i)
      PROVE  TimersOnLive'
  BY <1>4 DEF HandleTimeout, listVars
<1>5. CASE Take
  BY <1>5 DEF Take, heapVars
<1>6. CASE Delete
  BY <1>6 DEF Delete, Free, listVars
<1>7. CASE Clear
  BY <1>7 DEF Clear, Joined
<1>8. CASE Turn
  BY <1>8 DEF Turn, heapVars
<1> QED
  BY <1>1, <1>2, <1>3, <1>4, <1>5, <1>6, <1>7, <1>8, StepCases

(* While the reactor's thread is in the event loop, no timer refers to a   *)
(* freed interaction.                                                      *)
THEOREM TimersLive == Spec => []TimersOnLive
<1>1. Init => TimersOnLive
  BY DEF Init, TimersOnLive
<1>2. TypeInv /\ TimersOnLive /\ [Next]_vars => TimersOnLive'
  BY TimerStep
<1> QED
  BY <1>1, <1>2, TypeInvariant, PTL DEF Spec

-----------------------------------------------------------------------------
(* An interaction a response was filed with has no timer.                  *)

(* A thread past check_status has cancelled the timer of its interaction,  *)
(* which is not scheduled again: a new one has an interaction of its own.  *)
FileInv ==
    /\ \A p \in Parsers : parser[p] \in Using \cup {"put"} => heap[target[p]] # "unborn"
    /\ \A n \in DOMAIN list : heap[list[n]] # "unborn"
    /\ \A i \in Interactions : heap[i] # "live" => client[i] = Blank
    /\ \A p \in Parsers : Filing(p) => target[p] \notin timers
    /\ FiledHasNoTimer

LEMMA FileStep ==
  ASSUME TypeInv, FileInv, [Next]_vars
  PROVE  FileInv'
<1> USE DEF FileInv, FiledHasNoTimer, Filing, Using
<1>t. /\ heap \in [Interactions -> {"unborn", "live", "freed"}]
      /\ client \in [Interactions -> ClientInfos]
      /\ timers \subseteq Interactions
      /\ list \in Seq(Interactions)
      /\ parser \in [Parsers -> {"idle", "put", "done"} \cup Using]
      /\ target \in [Parsers -> Interactions \cup {None}]
      /\ \A p \in Parsers : parser[p] \in Using \cup {"put"} => target[p] \in Interactions
  BY DEF TypeInv, TypeOK
<1>1. ASSUME NEW p \in Parsers, Create(p)
      PROVE  FileInv'
  <2>1. PICK i \in Interactions :
            CreateOneInteraction(i) /\ target' = [target EXCEPT ![p] = i]
    BY <1>1 DEF Create
  <2>2. heap[i] = "unborn" /\ client[i] = Blank
    BY <2>1 DEF CreateOneInteraction
  <2>3. \A q \in Parsers : Filing(q)' => target'[q] \notin timers'
    BY <1>1, <1>t, <2>1, <2>2 DEF Create, CreateOneInteraction
  <2> QED
    BY <1>1, <1>t, <2>1, <2>2, <2>3 DEF Create, CreateOneInteraction, listVars
<1>2. ASSUME NEW p \in Parsers, Put(p)
      PROVE  FileInv'
  <2>1. target[p] \in Interactions /\ heap[target[p]] # "unborn"
    BY <1>2, <1>t DEF Put
  <2>2. \A n \in DOMAIN list' : heap[list'[n]] # "unborn"
    <3>1. CASE list' = list
      BY <3>1
    <3>2. CASE list' = Append(list, target[p])
      BY <1>t, <2>1, <3>2
    <3> QED
      BY <1>2, <3>1, <3>2 DEF Put
  <2> QED
    BY <1>2, <1>t, <2>2 DEF Put, Return, heapVars
<1>3. ASSUME NEW p \in Parsers, Match(p)
      PROVE  FileInv'
  <2>1. PICK n \in DOMAIN list : target' = [target EXCEPT ![p] = list[n]]
    BY <1>3 DEF Match
  <2> QED
    BY <1>3, <1>t, <2>1 DEF Match, heapVars, listVars
<1>4. ASSUME NEW p \in Parsers, FileBy(p)
      PROVE  FileInv'
  <2>1. target[p] \in Interactions /\ heap[target[p]] = "live" /\ heap' = heap /\ list' = list
    BY <1>4, <1>t DEF FileBy, listVars
  <2>2. timers' \subseteq timers
    BY <1>4 DEF FileBy
  <2>3. \A i \in Interactions : client'[i] # client[i] => i = target[p] /\ Filing(p)
    BY <1>4, <1>t DEF FileBy
  <2>4. \A q \in Parsers \ {p} : parser'[q] = parser[q] /\ target'[q] = target[q]
    BY <1>4, <1>t DEF FileBy, Return
  <2>5. parser'[p] \in Using \cup {"put"} => target'[p] = target[p]
    BY <1>4, <1>t DEF FileBy, Return
  <2>6. Filing(p)' => target'[p] \notin timers'
    <3> SUFFICES ASSUME Filing(p)'
                 PROVE  target[p] \notin timers'
      BY <2>5
    <3> QED
      BY <1>4, <2>2 DEF FileBy
  <2>7. \A q \in Parsers : parser'[q] \in Using \cup {"put"} => heap'[target'[q]] # "unborn"
    BY <2>1, <2>4, <2>5
  <2>8. \A q \in Parsers : Filing(q)' => target'[q] \notin timers'
    BY <2>2, <2>4, <2>6
  <2>9. \A i \in Interactions : heap'[i] # "live" => client'[i] = Blank
    BY <2>1, <2>3
  <2>10. \A i \in Interactions : client'[i] # Blank => i \notin timers'
    BY <2>2, <2>3
  <2> QED
    BY <2>1, <2>7, <2>8, <2>9, <2>10
<1>5. ASSUME NEW p \in Parsers, Leave(p)
      PROVE  FileInv'
  BY <1>5, <1>t DEF Leave, heapVars, listVars
<1>6. ASSUME NEW i \in Interactions, HandleTimeout(i)
      PROVE  FileInv'
  BY <1>6, <1>t DEF HandleTimeout, listVars, parserVars
<1>7. CASE Take
  <2>1. list # <<>>
    BY <1>7, <1>t, CountAssumption DEF Take, LongEnough
  <2>2. \A n \in DOMAIN list' : n + 1 \in DOMAIN list /\ list'[n] = list[n + 1]
    BY <1>7, <1>t, <2>1 DEF Take
  <2> QED
    BY <1>7, <1>t, <2>2 DEF Take, heapVars, parserVars
<1>8. ASSUME NEW S, Free(S)
      PROVE  \A i \in Interactions :
                /\ heap'[i] = "unborn" => heap[i] = "unborn"
                /\ heap'[i] # "live" => client'[i] = Blank
                /\ client'[i] # Blank => client[i] # Blank
  BY <1>8, <1>t DEF Free
<1>9. CASE Delete
  BY <1>8, <1>9, <1>t DEF Delete, listVars, parserVars
<1>10. CASE Clear
  <2>1. list' = <<>> /\ timers' = timers /\ UNCHANGED parserVars
    BY <1>10 DEF Clear
  <2> QED
    BY <1>8, <1>10, <1>t, <2>1 DEF Clear, parserVars
<1>11. CASE Turn
  BY <1>11 DEF Turn, heapVars, parserVars
<1> QED
  BY <1>1, <1>2, <1>3, <1>4, <1>5, <1>6, <1>7, <1>9, <1>10, <1>11, StepCases

LEMMA FileInvariant == Spec => []FileInv
<1>1. Init => FileInv
  BY DEF Init, FileInv, FiledHasNoTimer, Filing, Using
<1>2. TypeInv /\ FileInv /\ [Next]_vars => FileInv'
  BY FileStep
<1> QED
  BY <1>1, <1>2, TypeInvariant, PTL DEF Spec

(* A timeout never marks an interaction a response is being filed with.    *)
THEOREM FiledIsTimeless == Spec => []FiledHasNoTimer
<1>1. FileInv => FiledHasNoTimer
  BY DEF FileInv
<1> QED
  BY <1>1, FileInvariant, PTL
-----------------------------------------------------------------------------
(* Owners.                                                                 *)

InList(i) == \E n \in DOMAIN list : list[n] = i
Holds(p, i) == parser[p] = "put" /\ target[p] = i
Held(i) == \E p \in Parsers : Holds(p, i)
Printing(i) == output = "print" /\ printed = i

(* OneOwner, place by place.                                               *)
OwnerInv ==
    /\ \A i \in Interactions :
          /\ heap[i] = "live" <=> (InList(i) \/ Held(i) \/ Printing(i) \/ i \in rejected)
          /\ InList(i) => ~Held(i) /\ ~Printing(i) /\ i \notin rejected
          /\ Held(i) => ~Printing(i) /\ i \notin rejected
          /\ Printing(i) => i \notin rejected
    /\ \A p, q \in Parsers : parser[p] = "put" /\ parser[q] = "put" /\ target[p] = target[q] => p = q
    /\ \A m, n \in DOMAIN list : list[m] = list[n] => m = n
    /\ output = "print" => printed \in Interactions

(* What a step does to the list as a set.                                  *)
LEMMA AppendIn ==
  ASSUME list \in Seq(Interactions), NEW j \in Interactions, list' = Append(list, j)
  PROVE  /\ \A i \in Interactions : InList(i)' <=> InList(i) \/ i = j
         /\ (\A m, n \in DOMAIN list : list[m] = list[n] => m = n) /\ ~InList(j)
            => (\A m, n \in DOMAIN list' : list'[m] = list'[n] => m = n)
<1>1. Len(list) \in Nat /\ DOMAIN list = 1..Len(list)
  OBVIOUS
<1>2. /\ DOMAIN list' = 1..(Len(list) + 1)
      /\ \A n \in DOMAIN list : list'[n] = list[n]
      /\ list'[Len(list) + 1] = j
  BY <1>1
<1>3. \A n \in DOMAIN list' : n \in DOMAIN list \/ n = Len(list) + 1
  BY <1>1, <1>2
<1>4. \A n \in DOMAIN list : n \in DOMAIN list'
  BY <1>1, <1>2
<1>5. Len(list) + 1 \in DOMAIN list'
  BY <1>1, <1>2
<1> QED
  BY <1>2, <1>3, <1>4, <1>5 DEF InList

LEMMA TailIn ==
  ASSUME list \in Seq(Interactions), list # <<>>, list' = Tail(list),
         \A m, n \in DOMAIN list : list[m] = list[n] => m = n
  PROVE  /\ Head(list) \in Interactions /\ InList(Head(list))
         /\ \A i \in Interactions : InList(i)' <=> InList(i) /\ i # Head(list)
         /\ \A m, n \in DOMAIN list' : list'[m] = list'[n] => m = n
<1>1. Len(list) \in Nat /\ Len(list) > 0 /\ DOMAIN list = 1..Len(list)
  OBVIOUS
<1>2. /\ Head(list) = list[1] /\ 1 \in DOMAIN list
      /\ \A n \in DOMAIN list' : n + 1 \in DOMAIN list /\ n + 1 # 1 /\ list'[n] = list[n + 1]
  BY <1>1
<1>3. \A n \in DOMAIN list : n = 1 \/ (n - 1 \in DOMAIN list' /\ list'[n - 1] = list[n])
  BY <1>1
<1>4. \A m, n \in DOMAIN list' : m + 1 = n + 1 => m = n
  BY <1>1
<1>5. Head(list) \in Interactions
  BY <1>1, <1>2
<1>6. ASSUME NEW i \in Interactions, InList(i)'
      PROVE  InList(i) /\ i # Head(list)
  <2>1. PICK n \in DOMAIN list' : list'[n] = i
    BY <1>6 DEF InList
  <2>2. n + 1 \in DOMAIN list /\ list[n + 1] = i /\ n + 1 # 1
    BY <1>2, <2>1
  <2>3. i # list[1]
    BY <1>2, <2>2
  <2> QED
    BY <1>2, <2>2, <2>3 DEF InList
<1>7. ASSUME NEW i \in Interactions, InList(i), i # Head(list)
      PROVE  InList(i)'
  <2>1. PICK n \in DOMAIN list : list[n] = i
    BY <1>7 DEF InList
  <2> QED
    BY <1>2, <1>3, <1>7, <2>1 DEF InList
<1>8. ASSUME NEW m \in DOMAIN list', NEW n \in DOMAIN list', list'[m] = list'[n]
      PROVE  m = n
  <2>1. m + 1 \in DOMAIN list /\ n + 1 \in DOMAIN list /\ list[m + 1] = list[n + 1]
    BY <1>2, <1>8
  <2>2. m + 1 = n + 1
    BY <2>1
  <2> QED
    BY <1>4, <2>2
<1> QED
  BY <1>2, <1>5, <1>6, <1>7, <1>8 DEF InList

LEMMA OwnerStep ==
  ASSUME TypeInv, OwnerInv, [Next]_vars
  PROVE  OwnerInv'
<1> USE DEF OwnerInv, Held, Holds, Printing
<1>t. /\ heap \in [Interactions -> {"unborn", "live", "freed"}]
      /\ list \in Seq(Interactions)
      /\ parser \in [Parsers -> {"idle", "put", "done"} \cup Using]
      /\ target \in [Parsers -> Interactions \cup {None}]
      /\ \A p \in Parsers : parser[p] \in Using \cup {"put"} => target[p] \in Interactions
  BY DEF TypeInv, TypeOK
<1>1. ASSUME NEW p \in Parsers, Create(p)
      PROVE  OwnerInv'
  <2>1. PICK i \in Interactions :
            CreateOneInteraction(i) /\ target' = [target EXCEPT ![p] = i]
    BY <1>1 DEF Create
  <2>2. heap[i] = "unborn" /\ heap' = [heap EXCEPT ![i] = "live"]
    BY <2>1 DEF CreateOneInteraction
  <2>3. ~InList(i) /\ ~Held(i) /\ ~Printing(i) /\ i \notin rejected
    BY <2>2
  <2>4. UNCHANGED <<list, output, printed, rejected>>
    BY <1>1 DEF Create, listVars, outputVars
  <2>5. parser' = [parser EXCEPT ![p] = "put"] /\ parser[p] = "idle"
    BY <1>1 DEF Create
  <2>6. \A k \in Interactions : Held(k)' <=> Held(k) \/ k = i
    BY <1>t, <2>1, <2>5
  <2>7. \A k \in Interactions :
            (InList(k)' <=> InList(k)) /\ (Printing(k)' <=> Printing(k)) /\ (k \in rejected' <=> k \in rejected)
    BY <2>4 DEF InList
  <2>8. \A k \in Interactions : heap'[k] = "live" <=> heap[k] = "live" \/ k = i
    BY <1>t, <2>2
  <2>9. \A q \in Parsers : q # p => parser'[q] = parser[q] /\ target'[q] = target[q]
    BY <1>t, <2>1, <2>5
  <2>10. \A q \in Parsers : q # p /\ parser'[q] = "put" => target'[q] # i
    BY <2>3, <2>9
  <2>11. target'[p] = i
    BY <1>t, <2>1
  <2>12. \A q, r \in Parsers :
            parser'[q] = "put" /\ parser'[r] = "put" /\ target'[q] = target'[r] => q = r
    BY <2>9, <2>10, <2>11
  <2> HIDE DEF Held, Printing
  <2> QED
    BY <2>3, <2>4, <2>6, <2>7, <2>8, <2>12
<1>2. ASSUME NEW p \in Parsers, Put(p)
      PROVE  OwnerInv'
  <2> DEFINE j == target[p]
  <2>1. j \in Interactions /\ Held(j) /\ parser[p] = "put"
    BY <1>2, <1>t DEF Put
  <2>2. ~InList(j) /\ ~Printing(j) /\ j \notin rejected /\ heap[j] = "live"
    BY <2>1
  <2>3. parser' = [parser EXCEPT ![p] = "idle"] /\ target' = [target EXCEPT ![p] = None]
    BY <1>2 DEF Put, Return
  <2>4. \A q \in Parsers :
            parser'[q] = "put" => q # p /\ parser[q] = "put" /\ target'[q] = target[q]
    BY <1>t, <2>3
  <2>5. \A q \in Parsers :
            q # p /\ parser[q] = "put" => parser'[q] = "put" /\ target'[q] = target[q] /\ target[q] # j
    BY <1>t, <2>1, <2>3
  <2>6. \A k \in Interactions : Held(k)' <=> Held(k) /\ k # j
    BY <2>1, <2>4, <2>5
  <2>7. heap' = heap /\ printed' = printed /\ (output' = "print" <=> output = "print")
    BY <1>2 DEF Put, Signal, heapVars
  <2>8. \A k \in Interactions : Printing(k)' <=> Printing(k)
    BY <2>7
  <2>9. \A q, r \in Parsers :
            parser'[q] = "put" /\ parser'[r] = "put" /\ target'[q] = target'[r] => q = r
    BY <2>4
  <2>10. \/ /\ \A k \in Interactions : InList(k)' <=> InList(k)
            /\ rejected' = rejected \cup {j} /\ list' = list
         \/ /\ \A k \in Interactions : InList(k)' <=> InList(k) \/ k = j
            /\ rejected' = rejected
            /\ \A m, n \in DOMAIN list' : list'[m] = list'[n] => m = n
    <3>1. CASE status = "DISABLED"
      BY <1>2, <3>1 DEF Put, InList
    <3>2. CASE status # "DISABLED"
      <4>1. list' = Append(list, j) /\ rejected' = rejected
        BY <1>2, <3>2 DEF Put
      <4> QED
        BY <1>t, <2>1, <2>2, <4>1, AppendIn
    <3> QED
      BY <3>1, <3>2
  <2> HIDE DEF Held, Printing, j
  <2> QED
    BY <2>1, <2>2, <2>6, <2>7, <2>8, <2>9, <2>10
<1>3. ASSUME NEW p \in Parsers, Match(p) \/ FileBy(p) \/ Leave(p)
      PROVE  OwnerInv'
  <2>1. UNCHANGED <<heap, list, rejected, output, printed>>
    BY <1>3 DEF Match, FileBy, Leave, heapVars, listVars, outputVars
  <2>2. \A q \in Parsers :
            /\ parser'[q] = "put" <=> parser[q] = "put"
            /\ parser[q] = "put" => target'[q] = target[q]
    <3>1. CASE Match(p)
      BY <1>t, <3>1 DEF Match
    <3>2. CASE FileBy(p)
      BY <1>t, <3>2 DEF FileBy, Return, Using
    <3>3. CASE Leave(p)
      BY <1>t, <3>3 DEF Leave
    <3> QED
      BY <1>3, <3>1, <3>2, <3>3
  <2>3. \A k \in Interactions : (InList(k)' <=> InList(k)) /\ (Held(k)' <=> Held(k))
    BY <2>1, <2>2 DEF InList
  <2> QED
    BY <2>1, <2>2, <2>3
<1>4. CASE Take
  <2>1. list # <<>>
    BY <1>4, <1>t, CountAssumption DEF Take, LongEnough
  <2>2. list' = Tail(list) /\ printed' = Head(list) /\ output' = "print" /\ output # "print"
    BY <1>4 DEF Take
  <2>3. UNCHANGED <<heap, parser, target, rejected>>
    BY <1>4 DEF Take, heapVars, parserVars
  <2>4. /\ Head(list) \in Interactions /\ InList(Head(list))
        /\ \A i \in Interactions : InList(i)' <=> InList(i) /\ i # Head(list)
        /\ \A m, n \in DOMAIN list' : list'[m] = list'[n] => m = n
    BY <1>t, <2>1, <2>2, TailIn
  <2>5. \A k \in Interactions :
            /\ Held(k)' <=> Held(k)
            /\ Printing(k)' <=> k = Head(list)
            /\ ~Printing(k)
    BY <2>2, <2>3
  <2>6. \A q, r \in Parsers :
            parser'[q] = "put" /\ parser'[r] = "put" /\ target'[q] = target'[r] => q = r
    BY <2>3
  <2> HIDE DEF Held, Printing
  <2> QED
    BY <2>2, <2>3, <2>4, <2>5, <2>6
<1>5. CASE Delete
  <2>1. output = "print" /\ output' = "pop" /\ UNCHANGED <<list, rejected, parser, target>>
    BY <1>5 DEF Delete, listVars, parserVars
  <2>2. printed \in Interactions /\ Printing(printed)
    BY <2>1
  <2>3. \A k \in Interactions : heap'[k] = "live" <=> heap[k] = "live" /\ k # printed
    BY <1>5, <1>t DEF Delete, Free
  <2>4. \A k \in Interactions :
            /\ InList(k)' <=> InList(k)
            /\ Held(k)' <=> Held(k)
            /\ ~Printing(k)' /\ (Printing(k) <=> k = printed)
    BY <2>1 DEF InList
  <2>5. \A q, r \in Parsers :
            parser'[q] = "put" /\ parser'[r] = "put" /\ target'[q] = target'[r] => q = r
    BY <2>1
  <2> HIDE DEF Held, Printing
  <2> QED
    BY <2>1, <2>2, <2>3, <2>4, <2>5
<1>6. CASE Clear
  <2>1. /\ list' = <<>> /\ output = "done"
        /\ UNCHANGED <<rejected, parser, target, output, printed>>
    BY <1>6 DEF Clear, Joined, outputVars, parserVars
  <2>2. \A k \in Interactions : heap'[k] = "live" <=> heap[k] = "live" /\ ~InList(k)
    BY <1>6, <1>t DEF Clear, Free, InList
  <2>3. \A k \in Interactions :
            ~InList(k)' /\ (Held(k)' <=> Held(k)) /\ (Printing(k)' <=> Printing(k))
    BY <2>1 DEF InList
  <2>4. \A q, r \in Parsers :
            parser'[q] = "put" /\ parser'[r] = "put" /\ target'[q] = target'[r] => q = r
    BY <2>1
  <2>5. \A m, n \in DOMAIN list' : list'[m] = list'[n] => m = n
    BY <2>1
  <2> HIDE DEF Held, Printing
  <2> QED
    BY <2>1, <2>2, <2>3, <2>4, <2>5
<1>7. ASSUME (\E i \in Interactions : HandleTimeout(i)) \/ Turn
      PROVE  OwnerInv'
  <2>1. /\ UNCHANGED <<heap, list, rejected, parser, target, printed>>
        /\ output' = "print" <=> output = "print"
    BY <1>7 DEF HandleTimeout, Turn, heapVars, listVars, outputVars, parserVars
  <2> QED
    BY <2>1 DEF InList
<1> QED
  BY <1>1, <1>2, <1>3, <1>4, <1>5, <1>6, <1>7, StepCases

LEMMA OwnerInvariant == Spec => []OwnerInv
<1>1. Init => OwnerInv
  BY DEF Init, OwnerInv, InList, Held, Holds, Printing
<1>2. TypeInv /\ OwnerInv /\ [Next]_vars => OwnerInv'
  BY OwnerStep
<1> QED
  BY <1>1, <1>2, TypeInvariant, PTL DEF Spec
(* An interaction is in exactly one place while it is allocated: it is     *)
(* freed once, and never while something else owns it.                     *)
THEOREM OwnedOnce == Spec => []OneOwner
<1>1. ASSUME OwnerInv, NEW i \in Interactions
      PROVE  IF heap[i] = "live" THEN Cardinality(Places(i)) = 1 ELSE Places(i) = {}
  <2> DEFINE listed == {<<"list", n>> : n \in {m \in DOMAIN list : list[m] = i}}
             held == {<<"parser", p>> : p \in {q \in Parsers : parser[q] = "put" /\ target[q] = i}}
             shown == IF output = "print" /\ printed = i THEN {<<"output", 0>>} ELSE {}
             refused == IF i \in rejected THEN {<<"rejected", 0>>} ELSE {}
  <2>1. Places(i) = ((listed \cup held) \cup shown) \cup refused
    BY Zenon DEF Places
  <2>2. IF InList(i) THEN \E x : listed = {x} ELSE listed = {}
    <3>1. ASSUME NEW m \in DOMAIN list, list[m] = i
          PROVE  {n \in DOMAIN list : list[n] = i} = {m}
      BY <1>1, <3>1 DEF OwnerInv
    <3>2. CASE InList(i)
      <4>1. PICK m \in DOMAIN list : list[m] = i
        BY <3>2 DEF InList
      <4>2. listed = {<<"list", m>>}
        BY <3>1, <4>1
      <4> QED
        BY <3>2, <4>2
    <3>3. CASE ~InList(i)
      BY <3>3 DEF InList
    <3> QED
      BY <3>2, <3>3
  <2>3. IF Held(i) THEN \E x : held = {x} ELSE held = {}
    <3>1. CASE Held(i)
      <4>1. PICK p \in Parsers : parser[p] = "put" /\ target[p] = i
        BY <3>1 DEF Held, Holds
      <4>2. {q \in Parsers : parser[q] = "put" /\ target[q] = i} = {p}
        BY <1>1, <4>1 DEF OwnerInv
      <4>3. held = {<<"parser", p>>}
        BY <4>2
      <4> QED
        BY <3>1, <4>3
    <3>2. CASE ~Held(i)
      BY <3>2 DEF Held, Holds
    <3> QED
      BY <3>1, <3>2
  <2>4. IF Printing(i) THEN \E x : shown = {x} ELSE shown = {}
    BY DEF Printing
  <2>5. IF i \in rejected THEN \E x : refused = {x} ELSE refused = {}
    OBVIOUS
  <2> HIDE DEF listed, held, shown, refused
  <2>6. CASE heap[i] = "live"
    <3>1. \E x : Places(i) = {x}
      <4>1. CASE InList(i)
        <5>1. held = {} /\ shown = {} /\ refused = {}
          BY <1>1, <2>3, <2>4, <2>5, <4>1 DEF OwnerInv
        <5>2. Places(i) = listed
          BY <2>1, <5>1
        <5> QED
          BY <2>2, <4>1, <5>2
      <4>2. CASE Held(i)
        <5>1. listed = {} /\ shown = {} /\ refused = {}
          BY <1>1, <2>2, <2>4, <2>5, <4>2 DEF OwnerInv
        <5>2. Places(i) = held
          BY <2>1, <5>1
        <5> QED
          BY <2>3, <4>2, <5>2
      <4>3. CASE Printing(i)
        <5>1. listed = {} /\ held = {} /\ refused = {}
          BY <1>1, <2>2, <2>3, <2>5, <4>3 DEF OwnerInv
        <5>2. Places(i) = shown
          BY <2>1, <5>1
        <5> QED
          BY <2>4, <4>3, <5>2
      <4>4. CASE i \in rejected
        <5>1. listed = {} /\ held = {} /\ shown = {}
          BY <1>1, <2>2, <2>3, <2>4, <4>4 DEF OwnerInv
        <5>2. Places(i) = refused
          BY <2>1, <5>1
        <5> QED
          BY <2>5, <4>4, <5>2
      <4> QED
        BY <1>1, <2>6, <4>1, <4>2, <4>3, <4>4 DEF OwnerInv
    <3> QED
      BY <2>6, <3>1, FS_Singleton
  <2>7. CASE heap[i] # "live"
    <3>1. ~InList(i) /\ ~Held(i) /\ ~Printing(i) /\ i \notin rejected
      BY <1>1, <2>7 DEF OwnerInv
    <3>2. listed = {} /\ held = {} /\ shown = {} /\ refused = {}
      BY <2>2, <2>3, <2>4, <2>5, <3>1
    <3> QED
      BY <2>1, <2>7, <3>2
  <2> QED
    BY <2>6, <2>7
<1>2. OwnerInv => OneOwner
  BY <1>1 DEF OneOwner
<1> QED
  BY <1>2, OwnerInvariant, PTL

-----------------------------------------------------------------------------
(* The order of the list, and the pointers taken from it.                  *)

(* The list is the end of what was put.                                    *)
Suffix(l, o) ==
    /\ Len(l) <= Len(o)
    /\ \A n \in 1..Len(l) : l[n] = o[n + (Len(o) - Len(l))]

LEMMA SuffixAppend ==
  ASSUME NEW S, NEW l \in Seq(S), NEW o \in Seq(S), NEW x \in S, Suffix(l, o)
  PROVE  Suffix(Append(l, x), Append(o, x))
<1> DEFINE l2 == Append(l, x)
           o2 == Append(o, x)
<1>1. /\ Len(l) \in Nat /\ Len(o) \in Nat
      /\ Len(l2) = Len(l) + 1 /\ Len(o2) = Len(o) + 1
  OBVIOUS
<1>2. /\ \A n \in 1..Len(l) : l2[n] = l[n]
      /\ \A n \in 1..Len(o) : o2[n] = o[n]
      /\ l2[Len(l) + 1] = x /\ o2[Len(o) + 1] = x
  OBVIOUS
<1> HIDE DEF l2, o2
<1>3. ASSUME NEW n \in 1..Len(l2)
      PROVE  l2[n] = o2[n + (Len(o2) - Len(l2))]
  <2>1. n + (Len(o2) - Len(l2)) = n + (Len(o) - Len(l))
    BY <1>1
  <2>2. CASE n = Len(l) + 1
    <3>1. n + (Len(o) - Len(l)) = Len(o) + 1
      BY <1>1, <2>2
    <3> QED
      BY <1>2, <2>1, <2>2, <3>1
  <2>3. CASE n # Len(l) + 1
    <3>1. n \in 1..Len(l) /\ n + (Len(o) - Len(l)) \in 1..Len(o)
      BY <1>1, <2>3 DEF Suffix
    <3> QED
      BY <1>2, <2>1, <3>1 DEF Suffix
  <2> QED
    BY <2>2, <2>3
<1>4. Len(l2) <= Len(o2)
  BY <1>1 DEF Suffix
<1> QED
  BY <1>3, <1>4 DEF Suffix, l2, o2

LEMMA SuffixTail ==
  ASSUME NEW S, NEW l \in Seq(S), NEW o \in Seq(S), l # <<>>, Suffix(l, o)
  PROVE  Suffix(Tail(l), o) /\ Len(Tail(l)) = Len(l) - 1
<1> DEFINE l2 == Tail(l)
<1>1. /\ Len(l) \in Nat \ {0} /\ Len(o) \in Nat /\ Len(l2) = Len(l) - 1
      /\ \A n \in 1..(Len(l) - 1) : l2[n] = l[n + 1]
  OBVIOUS
<1> HIDE DEF l2
<1>2. ASSUME NEW n \in 1..Len(l2)
      PROVE  l2[n] = o[n + (Len(o) - Len(l2))]
  <2>1. n + 1 \in 1..Len(l) /\ n \in 1..(Len(l) - 1)
    BY <1>1
  <2>2. (n + 1) + (Len(o) - Len(l)) = n + (Len(o) - Len(l2))
    BY <1>1
  <2> QED
    BY <1>1, <2>1, <2>2 DEF Suffix
<1>3. Len(l2) <= Len(o)
  BY <1>1 DEF Suffix
<1> QED
  BY <1>1, <1>2, <1>3 DEF Suffix, l2

LEMMA OrderStep ==
  ASSUME TypeInv, KeepsNewest, [Next]_vars
  PROVE  KeepsNewest'
<1>t. list \in Seq(Interactions) /\ order \in Seq(Interactions)
  BY DEF TypeInv, TypeOK
<1>1. CASE Joined /\ list = <<>>
  <2>1. Len(list) = 0 /\ DOMAIN list = {}
    BY <1>1
  <2>2. ASSUME NEW p \in Parsers
        PROVE  ~Create(p) /\ ~Put(p) /\ ~Match(p) /\ ~FileBy(p) /\ ~Leave(p)
    BY <1>1 DEF Joined, Create, Put, Match, FileBy, Using, Leave
  <2>3. ~Take /\ ~Delete /\ ~Clear
    BY <1>1 DEF Joined, Take, Delete, Clear
  <2>4. CASE \E i \in Interactions : HandleTimeout(i)
    BY <1>1, <2>4 DEF HandleTimeout, Joined, KeepsNewest, listVars, outputVars, parserVars
  <2>5. CASE Turn
    BY <1>1, <2>5 DEF Turn, Joined, KeepsNewest, parserVars
  <2> QED
    BY <2>2, <2>3, <2>4, <2>5, StepCases
<1>2. CASE ~(Joined /\ list = <<>>)
  <2>1. Suffix(list, order) /\ (Len(list) < Len(order) => Len(list) >= Keep)
    BY <1>2 DEF KeepsNewest, Suffix
  <2>2. CASE UNCHANGED <<list, order>>
    BY <2>1, <2>2 DEF KeepsNewest, Suffix
  <2>3. ASSUME NEW p \in Parsers, Put(p)
        PROVE  KeepsNewest'
    <3>1. CASE status = "DISABLED"
      BY <2>2, <2>3, <3>1 DEF Put
    <3>2. CASE status # "DISABLED"
      <4>1. target[p] \in Interactions
        BY <2>3 DEF Put, TypeInv
      <4>2. list' = Append(list, target[p]) /\ order' = Append(order, target[p])
        BY <2>3, <3>2 DEF Put
      <4>3. Suffix(list', order')
        <5>1. Suffix(Append(list, target[p]), Append(order, target[p]))
          BY <1>t, <2>1, <4>1, SuffixAppend
        <5> QED
          BY <4>2, <5>1
      <4>4. Len(list') < Len(order') => Len(list') >= Keep
        BY <1>t, <2>1, <4>1, <4>2, CountAssumption
      <4> QED
        BY <4>3, <4>4 DEF KeepsNewest, Suffix
    <3> QED
      BY <3>1, <3>2
  <2>4. CASE Take
    <3>1. list # <<>> /\ Len(list) > Keep
      BY <1>t, <2>4, CountAssumption DEF Take, LongEnough
    <3>2. list' = Tail(list) /\ order' = order
      BY <2>4 DEF Take
    <3>3. Suffix(list', order') /\ Len(list') = Len(list) - 1
      BY <1>t, <2>1, <3>1, <3>2, SuffixTail DEF Suffix
    <3>4. Len(list') >= Keep
      BY <1>t, <3>1, <3>3, CountAssumption
    <3> QED
      BY <3>3, <3>4 DEF KeepsNewest, Suffix
  <2>5. CASE Clear
    BY <2>5 DEF Clear, Joined, KeepsNewest, outputVars, parserVars
  <2>6. CASE \/ \E p \in Parsers : Create(p) \/ Match(p) \/ FileBy(p) \/ Leave(p)
             \/ \E i \in Interactions : HandleTimeout(i)
             \/ Delete \/ Turn
    BY <2>2, <2>6 DEF Create, Match, FileBy, Leave, HandleTimeout, Delete, Turn, listVars
  <2> QED
    BY <2>3, <2>4, <2>5, <2>6, StepCases
<1> QED
  BY <1>1, <1>2

(* Interactions are printed in the order they were put, and pop leaves     *)
(* Keep of them.                                                           *)
THEOREM NewestKept == Spec => []KeepsNewest
<1>1. Init => KeepsNewest
  BY DEF Init, KeepsNewest
<1>2. TypeInv /\ KeepsNewest /\ [Next]_vars => KeepsNewest'
  BY OrderStep
<1> QED
  BY <1>1, <1>2, TypeInvariant, PTL DEF Spec

(* A thread that uses an interaction took it from the list.                *)
PointerInv ==
    \A p \in Parsers : parser[p] \in Using => \E n \in DOMAIN order : order[n] = target[p]

LEMMA PointerStep ==
  ASSUME TypeInv, KeepsNewest, PointerInv, [Next]_vars
  PROVE  PointerInv'
<1> USE DEF PointerInv
<1>t. /\ list \in Seq(Interactions) /\ order \in Seq(Interactions)
      /\ parser \in [Parsers -> {"idle", "put", "done"} \cup Using]
      /\ target \in [Parsers -> Interactions \cup {None}]
  BY DEF TypeInv, TypeOK
<1>1. ASSUME NEW p \in Parsers, Put(p)
      PROVE  PointerInv'
  <2>1. \A n \in DOMAIN order : n \in DOMAIN order' /\ order'[n] = order[n]
    <3>1. CASE order' = order
      BY <3>1
    <3>2. CASE order' = Append(order, target[p])
      <4>1. target[p] \in Interactions
        BY <1>1 DEF Put, TypeInv
      <4> QED
        BY <1>t, <3>2, <4>1
    <3> QED
      BY <1>1, <3>1, <3>2 DEF Put
  <2>2. \A q \in Parsers :
            parser'[q] \in Using => parser[q] \in Using /\ target'[q] = target[q]
    BY <1>1, <1>t DEF Put, Return, Using
  <2> QED
    BY <2>1, <2>2
<1>2. ASSUME NEW p \in Parsers, Match(p)
      PROVE  PointerInv'
  <2>1. PICK n \in DOMAIN list : target' = [target EXCEPT ![p] = list[n]]
    BY <1>2 DEF Match
  <2>2. parser[p] = "idle" /\ parser' = [parser EXCEPT ![p] = "check"] /\ order' = order
    BY <1>2 DEF Match, listVars
  <2>3. ~Joined
    BY <2>2 DEF Joined
  <2>4. Suffix(list, order)
    BY <2>3 DEF KeepsNewest, Suffix
  <2>5. n + (Len(order) - Len(list)) \in DOMAIN order
    BY <1>t, <2>4 DEF Suffix
  <2>6. n \in 1..Len(list)
    BY <1>t
  <2>7. order[n + (Len(order) - Len(list))] = list[n]
    BY <2>4, <2>6 DEF Suffix
  <2> QED
    BY <1>t, <2>1, <2>2, <2>5, <2>7
<1>3. ASSUME NEW p \in Parsers, Create(p) \/ FileBy(p) \/ Leave(p)
      PROVE  PointerInv'
  <2>1. order' = order
    BY <1>3 DEF Create, FileBy, Leave, listVars
  <2>2. \A q \in Parsers :
            parser'[q] \in Using => parser[q] \in Using /\ target'[q] = target[q]
    <3>1. CASE Create(p)
      <4>1. PICK i \in Interactions : target' = [target EXCEPT ![p] = i]
        BY <3>1 DEF Create
      <4> QED
        BY <1>t, <3>1, <4>1 DEF Create, Using
    <3>2. CASE FileBy(p)
      BY <1>t, <3>2 DEF FileBy, Return, Using
    <3>3. CASE Leave(p)
      BY <1>t, <3>3 DEF Leave, Using
    <3> QED
      BY <1>3, <3>1, <3>2, <3>3
  <2> QED
    BY <2>1, <2>2
<1>4. CASE (\E i \in Interactions : HandleTimeout(i)) \/ Take \/ Delete \/ Clear \/ Turn
  BY <1>4 DEF HandleTimeout, Take, Delete, Clear, Turn, listVars, parserVars
<1> QED
  BY <1>1, <1>2, <1>3, <1>4, StepCases

LEMMA PointerInvariant == Spec => []PointerInv
<1>1. Init => PointerInv
  BY DEF Init, PointerInv, Using
<1>2. TypeInv /\ KeepsNewest /\ PointerInv /\ [Next]_vars => PointerInv'
  BY PointerStep
<1> QED
  BY <1>1, <1>2, TypeInvariant, NewestKept, PTL DEF Spec

(* A thread's pointer dangles only when Keep newer interactions were put   *)
(* since the one it points to.                                             *)
THEOREM OnlyOvertakenIsLost == Spec => []LostOnlyWhenOvertaken
<1>1. ASSUME TypeInv, OwnerInv, KeepsNewest, PointerInv
      PROVE  LostOnlyWhenOvertaken
  <2> SUFFICES ASSUME NEW p \in Parsers, parser[p] \in Using, heap[target[p]] # "live"
               PROVE  \E n \in DOMAIN order : order[n] = target[p] /\ n + Keep <= Len(order)
    BY DEF LostOnlyWhenOvertaken
  <2>1. PICK n \in DOMAIN order : order[n] = target[p]
    BY <1>1 DEF PointerInv
  <2>2. ~Joined
    <3>1. parser[p] # "done"
      BY DEF Using
    <3> QED
      BY <3>1 DEF Joined
  <2>3. Suffix(list, order) /\ (Len(list) < Len(order) => Len(list) >= Keep)
    BY <1>1, <2>2 DEF KeepsNewest, Suffix
  <2>4. Len(list) \in Nat /\ Len(order) \in Nat /\ DOMAIN list = 1..Len(list) /\ n \in 1..Len(order)
    BY <1>1 DEF TypeInv, TypeOK
  <2>5. ASSUME NEW m \in 1..Len(list)
        PROVE  heap[list[m]] = "live"
    <3>1. list[m] \in Interactions
      BY <1>1, ElementOfSeq DEF TypeInv, TypeOK
    <3>2. InList(list[m])
      BY <2>4 DEF InList
    <3> QED
      BY <1>1, <3>1, <3>2 DEF OwnerInv
  <2>6. n <= Len(order) - Len(list)
    <3> SUFFICES ASSUME n > Len(order) - Len(list)
                 PROVE  FALSE
      BY <2>4
    <3> DEFINE m == n - (Len(order) - Len(list))
    <3>1. m \in 1..Len(list) /\ m + (Len(order) - Len(list)) = n
      BY <2>3, <2>4 DEF Suffix
    <3>2. list[m] = order[n]
      BY <2>3, <3>1 DEF Suffix
    <3> QED
      BY <2>1, <2>5, <3>1, <3>2
  <2>7. n + Keep <= Len(order)
    BY <2>3, <2>4, <2>6, CountAssumption
  <2> QED
    BY <2>1, <2>7
<1> QED
  BY <1>1, TypeInvariant, OwnerInvariant, NewestKept, PointerInvariant, PTL
=============================================================================
