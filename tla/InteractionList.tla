--------------------------- MODULE InteractionList ---------------------------
(***************************************************************************)
(* The pipeline behind the fifo: parse threads put an interaction into the *)
(* list for each request (parse_server_data) and file responses with it    *)
(* (parse_client_data), a reactor timer marks it when no response comes,   *)
(* and the output thread pops it, prints it and deletes it.  Each method   *)
(* of Interaction_List is one critical section; between two of them a      *)
(* thread holds a raw pointer and no lock.                                 *)
(***************************************************************************)
EXTENDS Naturals, Sequences, FiniteSets

CONSTANTS
    Parsers,           \* parse threads
    Conns,             \* connections, as <source, destination, source port>
    NoConn,            \* before init_request_interaction
    Keep,              \* interactions pop leaves in the list (10 in the program)
    Sizes,             \* values of Content-Length
    Lens,              \* numbers of content bytes in one segment
    MaxInteractions,   \* bound: requests
    MaxResponses       \* bound: response segments filed

ASSUME SizeAssumption == Sizes \subseteq Nat \ {0} /\ Lens \subseteq Nat
ASSUME ConnAssumption == NoConn \notin Conns
ASSUME CountAssumption == Keep \in Nat /\ MaxInteractions \in Nat /\ MaxResponses \in Nat

Interactions == 1..MaxInteractions     \* in the order they are allocated
None == 0

(* What parse_client_data makes of a segment.  Without "HTTP" in front it  *)
(* continues a content.  A segment whose first four bytes only resemble    *)
(* "HTTP" is neither, and is treated as a head without any field.          *)
Segments ==
    [head : {"none", "chunked", "zero", "absent"}, size : {0}, len : Lens]
        \cup [head : {"sized"}, size : Sizes, len : Lens]

VARIABLES
    heap,      \* an interaction is "unborn", "live" or "freed"
    conn,      \* its connection, from init_request_interaction
    expired,   \* interactions whose status is INTERACTION_TIMEOUT
    timers,    \* interactions whose handler is scheduled with the reactor
    client,    \* its clientInfo
    list,      \* _inters
    status,    \* _status of the list
    parser,    \* a parse thread: the step it is about to execute
    target,    \* the interaction it holds a pointer to
    segment,   \* the response segment it is filing
    output,    \* the output thread: "pop", "waiting", "woken", "print" or "done"
    printed,   \* the interaction the output thread holds, or None
    exit,      \* cap_http::exit: "no", "quit" (_quit is set), "ended" (the event loop
               \* has been told to end)
    reacting,  \* the reactor's thread is in the event loop
    misused,   \* a thread used an interaction that was freed
    order,     \* history: interactions in the order put accepted them
    rejected,  \* history: interactions put refused
    heard      \* response segments so far

heapVars == <<heap, conn, expired, timers, client>>
listVars == <<list, status, order, rejected>>
parserVars == <<parser, target, segment>>
outputVars == <<output, printed>>
exitVars == <<exit, reacting>>
vars == <<heapVars, listVars, parserVars, outputVars, exitVars, misused, heard>>

Blank == [complete |-> FALSE, chunked |-> FALSE, content |-> FALSE,
          buffer |-> 0,      \* history: bytes the content pointer has room for
          size |-> 0, filled |-> 0]
Idle  == [head |-> "none", size |-> 0, len |-> 0]

Init ==
    /\ heap = [i \in Interactions |-> "unborn"]
    /\ conn = [i \in Interactions |-> NoConn]
    /\ expired = {} /\ timers = {}
    /\ client = [i \in Interactions |-> Blank]
    /\ list = <<>> /\ status = "ENABLED"
    /\ parser = [p \in Parsers |-> "idle"]
    /\ target = [p \in Parsers |-> None]
    /\ segment = [p \in Parsers |-> Idle]
    /\ output = "pop" /\ printed = None
    /\ exit = "no" /\ reacting = TRUE /\ misused = FALSE
    /\ order = <<>> /\ rejected = {} /\ heard = 0

-----------------------------------------------------------------------------
(* parse_server_data: a request line makes an interaction, whose timer     *)
(* runs from then on; put follows without a lock in between.               *)
CreateOneInteraction(i) ==
    /\ heap[i] = "unborn" /\ \A j \in 1..(i - 1) : heap[j] # "unborn"
    /\ heap' = [heap EXCEPT ![i] = "live"]
    /\ timers' = timers \cup {i}

InitRequestInteraction(i) == \E c \in Conns : conn' = [conn EXCEPT ![i] = c]

Create(p) ==
    /\ parser[p] = "idle"
    /\ \E i \in Interactions :
          /\ CreateOneInteraction(i)
          /\ InitRequestInteraction(i)
          /\ target' = [target EXCEPT ![p] = i]
    /\ parser' = [parser EXCEPT ![p] = "put"]
    /\ UNCHANGED <<expired, client, listVars, segment, outputVars, exitVars, misused, heard>>

(* parse_server_data or parse_client_data returns.                         *)
Return(p) ==
    /\ parser' = [parser EXCEPT ![p] = "idle"]
    /\ target' = [target EXCEPT ![p] = None]
    /\ segment' = [segment EXCEPT ![p] = Idle]

(* Both put and pop ask for more than Keep; a mutant is off by one.        *)
MutantLongEnough(l) == Len(l) >= Keep
LongEnough(l) == Len(l) > Keep

(* put signals each time the list is long enough; a mutant of put takes    *)
(* one interaction more.                                                   *)
MutantSignal(l) == IF Len(l) > Keep + 1 /\ output = "waiting" THEN "woken" ELSE output
Signal(l) == IF LongEnough(l) /\ output = "waiting" THEN "woken" ELSE output

(* The caller ignores what put returns, so a refused interaction is never  *)
(* freed.                                                                  *)
Put(p) ==
    /\ parser[p] = "put"
    /\ Return(p)
    /\ IF status = "DISABLED"
       THEN /\ rejected' = rejected \cup {target[p]}
            /\ UNCHANGED <<list, order, output>>
       ELSE /\ list' = Append(list, target[p])
            /\ order' = Append(order, target[p])
            /\ output' = Signal(list')
            /\ UNCHANGED rejected
    /\ UNCHANGED <<heapVars, status, printed, exitVars, misused, heard>>

-----------------------------------------------------------------------------
(* parse_client_data.  get_matched_interaction_m looks for the newest      *)
(* interaction of the connection that has not expired, gives the mutex up, *)
(* and returns the pointer.                                                *)
Matches(c) == {n \in DOMAIN list : conn[list[n]] = c /\ list[n] \notin expired}

Match(p) ==
    /\ parser[p] = "idle"
    /\ heard < MaxResponses
    /\ heard' = heard + 1
    /\ \E c \in Conns, s \in Segments, n \in DOMAIN list :
          /\ n \in Matches(c) /\ \A m \in Matches(c) : m <= n
          /\ target' = [target EXCEPT ![p] = list[n]]
          /\ segment' = [segment EXCEPT ![p] = s]
    /\ parser' = [parser EXCEPT ![p] = "check"]
    /\ UNCHANGED <<heapVars, listVars, outputVars, exitVars, misused>>

(* The steps after it use the pointer.  Step(p, at, next): p executes its  *)
(* step at, on an interaction that is still there, and goes to the next.   *)
Using == {"check", "cancel", "head", "complete", "sip", "chunk", "body"}

At(p, at) ==
    /\ parser[p] = at /\ heap[target[p]] = "live"
    /\ UNCHANGED <<heap, conn, expired, listVars, outputVars, exitVars, misused, heard>>

Step(p, at, next) ==
    /\ At(p, at)
    /\ parser' = [parser EXCEPT ![p] = next]
    /\ UNCHANGED <<target, segment>>

CheckStatus(p) ==
    /\ IF target[p] \in expired THEN At(p, "check") /\ Return(p) ELSE Step(p, "check", "cancel")
    /\ UNCHANGED <<timers, client>>

MutantCancelTimer(p) ==     \* the timer keeps running
    /\ Step(p, "cancel", IF segment[p].head = "none" THEN "chunk" ELSE "head")
    /\ UNCHANGED <<timers, client>>

CancelTimer(p) ==
    /\ Step(p, "cancel", IF segment[p].head = "none" THEN "chunk" ELSE "head")
    /\ timers' = timers \ {target[p]}
    /\ UNCHANGED client

(* From here to the end is the part between //lock and //unlock.           *)
File(p, info) ==
    /\ client' = [client EXCEPT ![target[p]] = info]
    /\ UNCHANGED timers

(* set_matched_client_isChunked, or malloc_matched_client_content.  The    *)
(* mutant allocates again when there is a content already.                 *)
MutantMalloc(info, len) ==
    IF info.complete \/ len = 0 THEN info
    ELSE [info EXCEPT !.content = TRUE, !.buffer = len, !.size = len]

Malloc(info, len) ==
    IF info.complete \/ len = 0 \/ info.content THEN info
    ELSE [info EXCEPT !.content = TRUE, !.buffer = len, !.size = len]

FileHead(p) ==
    LET info == client[target[p]] IN
    IF segment[p].head = "chunked"
    THEN Step(p, "head", "sip") /\ File(p, [info EXCEPT !.chunked = TRUE])
    ELSE Step(p, "head", "complete") /\ File(p, Malloc(info, segment[p].size))

(* set_matched_client_isComplete: only "Content-Length: 0" is complete.    *)
FileComplete(p) ==
    /\ Step(p, "complete", "sip")
    /\ File(p, [client[target[p]] EXCEPT !.complete = segment[p].head = "zero"])

(* set_matched_client_new_sip_info copies identifiers.                     *)
FileSipInfo(p) == Step(p, "sip", "chunk") /\ UNCHANGED <<timers, client>>

(* set_matched_client_chunked_content moves what is there into a buffer    *)
(* with room for the new bytes; a mutant counts them the wrong way.        *)
MutantAppendChunk(info, len) ==
    IF info.complete \/ ~info.chunked THEN info
    ELSE [info EXCEPT !.content = TRUE,
                      !.buffer = (IF info.content THEN info.size ELSE 0) + len,
                      !.size = info.size - len]

AppendChunk(info, len) ==
    IF info.complete \/ ~info.chunked THEN info
    ELSE [info EXCEPT !.content = TRUE,
                      !.buffer = (IF info.content THEN info.size ELSE 0) + len,
                      !.size = info.size + len]

FileChunk(p) ==
    /\ Step(p, "chunk", "body")
    /\ File(p, AppendChunk(client[target[p]], segment[p].len))

(* set_matched_client_not_chunked_content fills what malloc has allocated; *)
(* a response without Content-Length is complete at once.                  *)
FillContent(info, len) ==
    LET room == info.size - info.filled
        n    == IF len < room THEN len ELSE room
    IN
    IF info.chunked \/ info.complete THEN info
    ELSE [info EXCEPT !.filled = @ + n, !.complete = (info.filled + n = info.size)]

FileBody(p) ==
    /\ At(p, "body") /\ Return(p)
    /\ File(p, FillContent(client[target[p]], segment[p].len))

(* The interaction was popped and deleted since it was matched.  What the  *)
(* step reads and writes then is undefined, and the model stops.           *)
UseFreed(p) ==
    /\ parser[p] \in Using /\ heap[target[p]] = "freed"
    /\ misused' = TRUE
    /\ UNCHANGED <<heapVars, listVars, parserVars, outputVars, exitVars, heard>>

-----------------------------------------------------------------------------
(* handle_timeout, in the reactor's thread.  The reactor dispatches and    *)
(* cancels timers under one lock, and calls no handler it has cancelled.   *)
(* Told to end, it still calls the handlers that are due in this round.    *)
HandleTimeout(i) ==
    /\ reacting /\ i \in timers
    /\ timers' = timers \ {i}
    /\ expired' = expired \cup {i}
    /\ UNCHANGED <<heap, conn, client, listVars, parserVars, outputVars, exitVars, misused, heard>>

(* output_interaction_data.  pop waits while the list is too short, and    *)
(* looks at the status when it wakes and before it takes the front.  The   *)
(* mutant forgets pop_front.                                               *)
MutantTakeFront ==
    IF LongEnough(list)
    THEN IF status = "DISABLED"
         THEN output' = "done" /\ UNCHANGED <<list, printed>>
         ELSE output' = "print" /\ printed' = Head(list) /\ UNCHANGED list
    ELSE output' = "waiting" /\ UNCHANGED <<list, printed>>

TakeFront ==
    IF LongEnough(list)
    THEN IF status = "DISABLED"
         THEN output' = "done" /\ UNCHANGED <<list, printed>>
         ELSE output' = "print" /\ printed' = Head(list) /\ list' = Tail(list)
    ELSE output' = "waiting" /\ UNCHANGED <<list, printed>>

Pop ==
    /\ output = "pop"
    /\ TakeFront
    /\ UNCHANGED <<heapVars, status, order, rejected, parserVars, exitVars, misused, heard>>

Awake ==
    /\ output = "woken"
    /\ IF status = "DISABLED"
       THEN output' = "done" /\ UNCHANGED <<list, printed>>
       ELSE TakeFront
    /\ UNCHANGED <<heapVars, status, order, rejected, parserVars, exitVars, misused, heard>>

SpuriousWakeup ==
    /\ output = "waiting"
    /\ output' = "woken"
    /\ UNCHANGED <<heapVars, listVars, parserVars, printed, exitVars, misused, heard>>

(* The structs behind a pointer are given back.                            *)
Free(S) ==
    /\ heap' = [i \in Interactions |-> IF i \in S THEN "freed" ELSE heap[i]]
    /\ conn' = [i \in Interactions |-> IF i \in S THEN NoConn ELSE conn[i]]
    /\ client' = [i \in Interactions |-> IF i \in S THEN Blank ELSE client[i]]
    /\ expired' = expired \ S

(* After printing, delete_one_interaction cancels the timer and frees.     *)
MutantDelete ==             \* leaves the timer scheduled
    /\ output = "print" /\ output' = "pop"
    /\ Free({printed})
    /\ printed' = None
    /\ UNCHANGED <<timers, listVars, parserVars, exitVars, misused, heard>>

Delete ==
    /\ output = "print" /\ output' = "pop"
    /\ Free({printed})
    /\ timers' = timers \ {printed}
    /\ printed' = None
    /\ UNCHANGED <<listVars, parserVars, exitVars, misused, heard>>

-----------------------------------------------------------------------------
(* cap_http::exit sets _quit, on which the loops may be left, ends the     *)
(* event loop, and then disables the list.                                 *)
SetQuit ==
    /\ exit = "no" /\ exit' = "quit"
    /\ UNCHANGED <<heapVars, listVars, parserVars, outputVars, reacting, misused, heard>>

EndEventLoop ==
    /\ exit = "quit" /\ exit' = "ended"
    /\ UNCHANGED <<heapVars, listVars, parserVars, outputVars, reacting, misused, heard>>

(* handle_ace_event returns from run_reactor_event_loop.                   *)
LeaveEventLoop ==
    /\ exit = "ended" /\ reacting /\ reacting' = FALSE
    /\ UNCHANGED <<heapVars, listVars, parserVars, outputVars, exit, misused, heard>>

Disabled ==
    /\ exit = "ended" /\ status = "ENABLED"
    /\ status' = "DISABLED"
    /\ output' = IF output = "waiting" THEN "woken" ELSE output
    /\ UNCHANGED <<heapVars, list, order, rejected, parserVars, printed, exitVars, misused, heard>>

Quit ==
    /\ exit # "no"
    /\ output = "pop" /\ output' = "done"
    /\ UNCHANGED <<heapVars, listVars, parserVars, printed, exitVars, misused, heard>>

Leave(p) ==
    /\ exit # "no"
    /\ parser[p] = "idle" /\ parser' = [parser EXCEPT ![p] = "done"]
    /\ UNCHANGED <<heapVars, listVars, target, segment, outputVars, exitVars, misused, heard>>

(* ~Interaction_List, when main has joined every thread: clear frees what  *)
(* is left in the list and leaves the timers alone.                        *)
Joined ==
    /\ status = "DISABLED" /\ ~reacting
    /\ output = "done" /\ \A p \in Parsers : parser[p] = "done"

Clear ==
    /\ Joined
    /\ list # <<>> /\ list' = <<>>
    /\ Free({i \in Interactions : \E n \in DOMAIN list : list[n] = i})
    /\ UNCHANGED <<timers, status, order, rejected, parserVars,
                   outputVars, exitVars, misused, heard>>

Parse(p) ==
    \/ Create(p) \/ Put(p)
    \/ Match(p) \/ CheckStatus(p) \/ CancelTimer(p)
    \/ FileHead(p) \/ FileComplete(p) \/ FileSipInfo(p) \/ FileChunk(p) \/ FileBody(p)
    \/ UseFreed(p)
    \/ Leave(p)

Output == Pop \/ Awake \/ Delete

Next ==
    /\ ~misused
    /\ \/ \E p \in Parsers : Parse(p)
       \/ \E i \in Interactions : HandleTimeout(i)
       \/ Output \/ SpuriousWakeup
       \/ SetQuit \/ EndEventLoop \/ LeaveEventLoop \/ Disabled \/ Quit \/ Clear

(* The output thread is scheduled; nothing else has to happen.             *)
Spec == Init /\ [][Next]_vars /\ WF_vars(~misused /\ Output)
-----------------------------------------------------------------------------
(* Every variable has its type.                                            *)
ClientInfos ==
    [complete : BOOLEAN, chunked : BOOLEAN, content : BOOLEAN,
     buffer : Nat, size : Nat, filled : Nat]

TypeOK ==
    /\ heap \in [Interactions -> {"unborn", "live", "freed"}]
    /\ conn \in [Interactions -> Conns \cup {NoConn}]
    /\ expired \subseteq Interactions /\ timers \subseteq Interactions
    /\ client \in [Interactions -> ClientInfos]
    /\ list \in Seq(Interactions) /\ order \in Seq(Interactions)
    /\ status \in {"ENABLED", "DISABLED"}
    /\ parser \in [Parsers -> {"idle", "put", "done"} \cup Using]
    /\ target \in [Parsers -> Interactions \cup {None}]
    /\ segment \in [Parsers -> Segments \cup {Idle}]
    /\ output \in {"pop", "waiting", "woken", "print", "done"}
    /\ printed \in Interactions \cup {None}
    /\ exit \in {"no", "quit", "ended"} /\ reacting \in BOOLEAN
    /\ misused \in BOOLEAN
    /\ rejected \subseteq Interactions
    /\ heard \in Nat

(* Every interaction has one owner at a time: the thread about to put it,  *)
(* the list, the output thread, or nobody when put refused it.  So it is   *)
(* freed once, and only a refused one is leaked.                           *)
Places(i) ==
    {<<"list", n>> : n \in {m \in DOMAIN list : list[m] = i}}
        \cup {<<"parser", p>> : p \in {q \in Parsers : parser[q] = "put" /\ target[q] = i}}
        \cup (IF output = "print" /\ printed = i THEN {<<"output", 0>>} ELSE {})
        \cup (IF i \in rejected THEN {<<"rejected", 0>>} ELSE {})

OneOwner ==
    \A i \in Interactions :
        IF heap[i] = "live" THEN Cardinality(Places(i)) = 1 ELSE Places(i) = {}

(* The list is the newest part of what was put, in that order, and once    *)
(* the output thread has popped anything, pop leaves Keep interactions,    *)
(* until clear empties the list.                                           *)
KeepsNewest ==
    \/ Joined /\ list = <<>>
    \/ /\ Len(list) <= Len(order)
       /\ \A n \in 1..Len(list) : list[n] = order[n + (Len(order) - Len(list))]
       /\ Len(list) < Len(order) => Len(list) >= Keep

(* parse_client_data uses a pointer it took under a mutex it has given up. *)
(* The interaction behind it can be deleted meanwhile, but only after      *)
(* Keep newer ones were put: the 10 in pop is the only protection there is.*)
LostOnlyWhenOvertaken ==
    \A p \in Parsers :
        parser[p] \in Using /\ heap[target[p]] # "live" =>
            \E n \in DOMAIN order : order[n] = target[p] /\ n + Keep <= Len(order)

(* As long as the reactor's thread is in the event loop, also when it has  *)
(* been told to end, a scheduled timer belongs to an interaction that is   *)
(* not freed: handle_timeout never writes to a deleted one.                *)
TimersOnLive ==
    reacting => \A i \in timers : heap[i] = "live"

(* An interaction any part of a response was filed with has no timer left, *)
(* so it cannot expire under a response that is still coming in.           *)
FiledHasNoTimer ==
    \A i \in Interactions : client[i] # Blank => i \notin timers

(* The content pointer has room for exactly contentSize bytes, and         *)
(* currentSize stays within them, however heads and segments of several    *)
(* parse threads alternate on one interaction: the memcpys stay inside,    *)
(* and contentSize - currentSize, which is unsigned, does not wrap.        *)
ContentFits ==
    \A i \in Interactions :
        /\ client[i].size = client[i].buffer
        /\ client[i].filled <= client[i].size

(* An interaction with Keep newer ones in the list is popped, while the    *)
(* program is not told to exit: put wakes the output thread each time the  *)
(* list is long enough.                                                    *)
Overtaken(i) == \E n \in DOMAIN list : list[n] = i /\ n + Keep <= Len(list)

OutputProgress ==
    \A i \in Interactions :
        Overtaken(i) ~> (~Overtaken(i) \/ exit # "no" \/ misused)

(* The writes to clientInfo stand between //lock and //unlock: while a     *)
(* thread is between them, no other thread changes the clientInfo it is    *)
(* writing to.                                                             *)
Filing(p) == parser[p] \in {"head", "complete", "sip", "chunk", "body"}

FiledUnderLock ==
    [][\A p \in Parsers :
          Filing(p) /\ parser'[p] = parser[p] => client'[target[p]] = client[target[p]]]_vars
=============================================================================
