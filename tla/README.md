# A TLA+ model of http_sensor

http_sensor watches web traffic with libnids, follows the TCP connections to port
80, and writes sessions, requests and responses to PostgreSQL. These modules model
the parts of it that keep state across events: what they do, in which order, and
what can go wrong between two steps.

Run everything from this directory:

    tlc -config HttpSession.cfg MCHttpSession.tla                  (run session)
    tlc -config HttpSession_reconnect.cfg MCHttpSession.tla        (pq_reconnect, ends in a violation)
    tlc -config BdbFifo.cfg MCBdbFifo.tla                          (fifo)
    tlc -config RingFifo.cfg MCRingFifo.tla                        (ring)
    tlc -config Shutdown.cfg MCShutdown.tla                        (quit)
    tlc -config Shutdown_quit.cfg MCShutdown.tla                   (quit_hang, ends in a violation)
    tlc -config InteractionList.cfg MCInteractionList.tla          (pipeline)
    tlc -config InteractionList_content.cfg MCInteractionList.tla  (content)
    tlc -config InteractionList_lock.cfg MCInteractionList.tla     (file_lock, ends in a violation)
    tlc -config BlockReassembly.cfg MCBlockReassembly.tla          (blocks)
    tlc -config RegexRules.cfg MCRegexRules.tla                    (rules)
    tlc -config OutputPath.cfg MCOutputPath.tla                    (sinks)
    tlapm DataLemmas.tla         and HttpSession_proofs, BdbFifo_proofs, RingFifo_proofs,
                                 InteractionList_proofs, OutputPath_proofs,
                                 BlockReassembly_proofs (with Shutdown),
                                 RegexRules_proofs

## Inventory

| Component | State | Operations | Hard behaviours | Module |
|---|---|---|---|---|
| Session tracking: `httpSession`, `http_protocol_callback` | `_session_table` (four-tuple to `http_session`), interactions on the heap, compiled rules, the stream of the backup file | `create_session`, `update_session`, `destroy_session`, `init`, `fini` | order of libnids events, four-tuples used again, `NIDS_TIMED_OUT`, pipelining, segments taken for heads, a stream nobody checks, a restart that truncates the backup file | HttpSession |
| PostgreSQL: `PQ` | the libpq connection | `connect`, `exec`, `disconnect`, `copy`; `reconnect`, `execQuery` and the other copy functions have no caller | an answer lost after the commit, a dead connection never replaced | statements in HttpSession, `copy` in OutputPath |
| Parsing: `httpUtil`, `Pcre` | fields of the last head; rules that pile up | `parse_request`, `parse_response`, `AddRule`, `MatchAllRule` | heads split over segments, searches that run past a segment | what the table sees of it, in HttpSession; the list of rules in RegexRules |
| Fifo: `my_fifo`, `my_berkeleyDBbased_fifo`, `my_berkeleyDB` | ring counters, status, records of queue.db | `init`, `push_back`, `pop_front`, `disabled`, `enabled` | two conditions with `signal`, failed database calls, records that outlive the process | BdbFifo, BoundedQueue |
| Threads: `cap_http::run`, `exit`, `monitor_thread`, the loops | `_quit`, the status of both queues, the capture handle, the connection | spawn, loop, `exit` | a broadcast before the wait it was meant for; a callback under way while the connection is deleted | Shutdown |
| Ring-buffer fifo: `my_ringbuffbased_fifo` | ring counters, an array of elements | `init`, `push_back`, `pop_front`; `disabled` and `enabled` return -1 | timed waits on two conditions with `signal`: a timeout racing a signal | RingFifo, BoundedQueue |
| Interaction list, `interaction`, `TimeOut_Handler` | a list of interactions with status, a timer each | `put`, `pop`, matching, content | raw pointers used after the mutex is given up, timer against response, several threads filing one response | InteractionList; the hang of `pop` is in Shutdown |
| Block reassembly: `proc_capCnt_block` | `_capBlocks`, `_nextBlockNum`, one of each for all connections | `append_block_to_proccess` | blocks of two contents interleaved by five threads, blocks lost on a full or broken fifo | BlockReassembly |
| Content of the pipeline: `parse_server_data`, `parse_client_data`, `extract_chunked_data` | fields of an interaction | parse, append, decode | contents in pieces, no lock, bodies that are cut | the shared state in InteractionList, decoding in ChunkedBody |
| Regex rules: `regex_rules`, `proc_reg_rules`, `Pcre` | systems with rules by name, one Pcre object, results, sort nodes | `open_rules_xml`, `excute_regex_rules` | state shared by all calls and patterns; an attribute that is never read | RegexRules |
| Output sinks: `output_to_db`, `output_to_file`, `process_output_method` | the connection, the file, the registered sinks | `init`, `process`, `fini` | the second COPY fails after the first, a write that fails or is cut, an end between two writes | OutputPath |
| `my_ace_guard`, tinyxml | none | | | not modelled: a scoped lock is one step of what it encloses; tinyxml is third-party |

How they interact. libnids calls `http_protocol_callback` on the nids thread, and
that calls httpSession, which calls PQ, all synchronously. A second path was meant
to put captured blocks into a fifo, take them out in five parse threads, build
interactions in a list, expire them by reactor timers, and write them from an output
thread. In the program as built the pushes into the fifo (cap_http.cpp:156-212), its
`init` and the output sinks are commented out: the threads run and wait, and so they
matter for the shutdown; the classes of that path are modelled as they are, with the
callers they were written for.

What makes each part correct, in a sentence: a session is recorded whatever the
database answers as long as the backup file can be written (afterwards its
statements are dropped without a word), and a request is attributed to the
connection that carried it; the fifo is a bounded first-in first-out queue that
leaves nobody asleep beside an element; an interaction has one owner, is deleted
once, and its content and timer agree with what was filed; a content is parsed as it
was captured, with stale bytes of its own behind it where the last of several blocks
is short, unless a block of it or of its neighbour was lost or overtaken; a reply
has what the rules find and nothing else; the tables and the output file hold an
interaction as a pair; after 'q' and not before it the workers end, and the process
does unless one of them was caught in a window.

## Modules

**HttpSession** (runs `session`, `pq_reconnect`; proofs in HttpSession_proofs). One
step is one callback, because all of this runs on the nids thread. `stream` is what
libnids follows, `table` is `_session_table`, `session` and `inter` are the structs,
`traffic` and `reqrow` the two tables of the database, `backup` the backup file.
`Exec` gives the outcomes of `PQ::exec`: success; an error on a good connection
(-1); a connection lost before or after the commit (-2), after which every statement
fails. A session statement that fails goes to the backup file through `Write`:
nobody looks at the stream `out`, neither when it is opened (httpSession.cpp:233;
the repository has no directory `data`) nor when it is written, and once it has
failed it drops every later statement. InsertRecorded and EndRecorded are claimed up
to then. The statement, the map operation and the frees of one call are one action,
in `CreateSession`, `NewRequest`, `FirstResponse` and `DestroySession`. `TimedOut`
is the event the callback has no branch for. `fini` and the end of main are one
step, `Down`, with the kill of the process: no callback starts between them
(Shutdown has the one under way).

A segment is a new request or a first response when strstr finds the words in it.
The search looks at this segment only and runs to the next NUL, so a head that is
split is missed, and a piece of a body, or what memory holds behind the segment, can
be taken for a head: `Segments` lets every segment be either, and PairingWindow says
what then still holds of the order of requests and responses. The payload of a
request is read in the same way. The UPDATE of a response changes a column that is
not modelled, and the rules, which pile up with the same pattern, come down to one
here; RegexRules has the list. The history variables say what the program cannot
know: `wire` numbers the requests and responses that really travelled on a
connection and names the session made for it, `expired` and `closed` say how a
session left libnids.

**BdbFifo** (run `fifo`; proofs in BdbFifo_proofs). One step is one critical section
of `push_back` or `pop_front`: from the call, or from a wakeup, to the next wait or
the return. `pc` has a thread idle, waiting or woken. `db` is the queue file, which
survives `Restart` while the counters do not.

**RingFifo** (run `ring`; proofs in RingFifo_proofs). The other implementation of
`my_fifo`, step for step like BdbFifo. A call fixes one deadline (`late`); when a
wait ends because of it the call returns 1 without a look at the queue, and a signal
that arrived at the same moment may be used up (`lapsed`).

**BoundedQueue** is what any `my_fifo` promises, and both implement it; `held` makes
a queue that finds old records the delay line it is. DataLemmas has what both proofs
need, the arithmetic of a ring and the counting argument on sleepers, wakeups and
elements, and the facts about data the other proofs share.

**Shutdown** (runs `quit`, `quit_hang`; proofs in BlockReassembly_proofs, beside
those of the other module about parse threads, and for that its Init, Next and Spec
are called ProcessInit, ProcessNext and ProcessSpec). Every thread is a program
counter. The workers' test of `_quit` and their wait are separate steps, and `exit`
is its six statements. Both queues stay empty: nothing fills them.
WorkersEndAfterQuit holds each wakeup, spurious or meant, to the test of the status
that follows it.

**InteractionList** (runs `pipeline`, `content`, `file_lock`; proofs in
InteractionList_proofs). One step is one critical section of `Interaction_List`, one
unlocked access through a pointer, or one timer upcall. A parse thread either
creates an interaction and puts it (`Create`, `Put`) or files a segment of a
response (`Match`, then the steps in `Using`). `heap` says which interactions exist;
freed ones keep their number, and the first use of one (`UseFreed`) stops the model,
because what follows is undefined in C++. `client` is `clientInfo` with the content
reduced to sizes; `buffer` is what was really allocated. `exit` orders `_quit`, the
end of the event loop and `disabled()` as cap_http::exit does. The reactor's thread
is in the event loop (`reacting`) until `LeaveEventLoop`, some time after it was
told to end; handlers that are due still run until then. `Clear` is the destructor
after the threads are joined. The reactor's timer queue is modelled from its use:
dispatching and cancelling exclude each other.

**BlockReassembly** (run `blocks`; proofs in BlockReassembly_proofs). A content is
captured, cut into blocks, pushed into the fifo (as BoundedQueue describes it) or
lost, popped by a parse thread, and appended when that thread gets the mutex.
`capBlocks` and `next` are `_capBlocks` and `_nextBlockNum`; `parsed` is what the
parsers were given. `lost` and `overtaken` count the faults, so that the properties
can say what happens without any and how far one spreads.

The code that fills and pushes the blocks stands in comments (cap_http.cpp:156-212)
and is modelled from there. It fills one block for all of a content: cleared once,
overwritten from the beginning each time, its CntBlockSize added up. The appending
side copies as many bytes as that sum says, up to a whole block (`Copied`). So the
last block of several, when it is short, brings bytes of the block before it, with
nothing lost or overtaken. `Whole` says what a parser then gets: the captured bytes,
and behind them the stale ones from one block before the end of the content to the
end of that block. A content of one block has none, since its sum is its length. The
fifo is empty at the start here; records an earlier process left in it are modelled
in BdbFifo. Each call brings data of one direction, as libnids calls back, so
`writebegin` and `blockNum` start anew with each content.

**RegexRules** (run `rules`; proofs in RegexRules_proofs). A content is the set of
patterns that occur in it. `pcre` is the one compiled object, `regexResults` and
`sortNodes` the two lists a call fills. Two facts show here. `excute_regex_rules`
never clears `_sort_nodes`, so the n-th reply says everything n times; ReplyComplete
says exactly that, and that nothing else is repeated or missing. rules.xml writes an
element `echoseq` where the code reads `echoswi`, so that `echo_switch` of such a
rule is never set: `OpenRulesXml` chooses its value (`garbage`).

**ChunkedBody** is `extract_chunked_data` on a sequence of symbols, index by index
as the code walks it, and the chunked coding to compare it with. A size line has as
many hexadecimal digits as the size needs. `Unknown` is a byte behind the captured
part, which the code copies when a chunk is cut: it compares the size of the chunk
with the size of the whole body, not with what is left of it. Letter case of the
digits makes no difference to strtol; size lines of more than 31 characters, which
the code cuts, and sizes of 2^31 and above do not occur. After a size above
MAX_BUFF_SIZE the loop goes on at the next line and takes it for a size; strtol
skips the line feed that line begins with. The proofs about it are in
OutputPath_proofs, whose module uses it.

**OutputPath** (run `sinks`; proofs in OutputPath_proofs). `Take` decodes a popped
interaction, then `CopyRow` and `WritePart` write its two parts to the sink `at`
names. Every COPY can fail before or after the server commits, every write can fail
or be cut, and the process can end between any two of them. A COPY that loses the
connection leaves it lost, because nothing calls `reconnect`. A failed write returns
-1, which the code compares with `sizeof` as an unsigned number: it counts as
complete (`WritePart`, third case), and the file then lacks a part (`torn`).

The definitions called `Mutant...` stand before the definition they are a faulty
version of. They are not part of the specifications; each shows that a property
notices the fault.

## Runs and bounds

| Run | Shows | Bounds and why they are enough |
|---|---|---|
| `session` | InsertRecorded, EndRecorded: what reaches the database or the backup file. TrackedWhileOpen, RowAttribution, NoRowsAfterEnd: which session rows belong to. NoInteractionLeak. PairingWindow: how far a response can be from its request. AccountOfEndedRow | Two web four-tuples (symmetric) and one to another port, 2 sessions, 2 requests, 2 accounts (symmetric), no pipelining (the theorem has any window). A four-tuple can be used again after a close, a reset or a timeout, a restart can come between the two sessions, the stream can fail at each open and write, and a piece of a body can stand in the list beside the request it is taken for the next of. The bounds count over all runs of the process |
| `pq_reconnect` | after -2 the next statement is tried on the same connection | one connection, two sessions: the first statement loses the connection, the second is the witness |
| `fifo` | CountersMatchRecords, WakeupsCoverItems, ClosedWhileDisabled, and QueueSpec, the refinement of BoundedQueue | two producers, two consumers (consumers symmetric), 2 slots, 2 values, 1 leftover record: the queue fills, wraps, empties, and two threads sleep on the same condition |
| `ring` | WakeupsCoverItems, QueueSpec, and EveryCallReturns, a liveness property | one producer, two consumers, 2 slots, 2 values, no symmetry: the ring wraps, a consumer takes the element another was woken for, and the deadline of one of two sleepers meets a signal |
| `quit` | WorkersEndAfterQuit, OnlyWindowWaits, NoCallbackAfterFini, and QuitUnlessCaught, a liveness property | three parse threads; the program has five, all alike, and they interact only through the status |
| `quit_hang` | the process can hang after 'q' | one parse thread |
| `pipeline` | OneOwner, KeepsNewest, LostOnlyWhenOvertaken, TimersOnLive, and OutputProgress, a liveness property | two parse threads, one connection, three requests, one response (its sizes are the matter of `content`), Keep = 1 for the 10 of the program, no symmetry: the matched interaction can be popped and deleted before, between and after any two steps of the response, and the output thread sleeps and is woken more than once |
| `content` | FiledHasNoTimer, ContentFits | two parse threads, two connections (symmetric), one interaction, three segments of 0 to 2 bytes, Content-Length 1 or 2, chunked, 0 or none: a second and a third head can meet a content that is empty, partly filled or complete; Keep = 0, so that the interaction can also be popped and deleted |
| `file_lock` | a response is not written as a unit | one interaction, two responses |
| `blocks` | FaithfulWhileOrderly, DamageBounded | three parse threads (symmetric), four contents of one byte or three, so of one block or two, of both directions, BlockSize 2, fifo of 2: a fault in one content, its effect on the next, and the recovery in those after it. A content of three bytes has a short last block with one stale byte and just fits into the buffer of 5, one of which is never used; two that a fault joins are cut |
| `rules` | ResultsAttributed, ReplyComplete | three rules files with one or two systems, at most two systems, three calls, every subset of three patterns of which one does not compile: the same rule name in two systems, empty names and a trailing comma in seqrel, each switch, a file loaded between two calls |
| `sinks` | RowsPaired, FileFollowsDb, ContentDecoded | two interactions, two starts, chunks that look like sizes or line ends and one of 16 bytes, whose size has two digits, cut after every byte, also inside a size line: each failure in each place, before and after another interaction. MaxBuff is 30, so that only the longest encoded response does not fit |

Deadlock is checked in `fifo` and `ring`, where some thread can always move. It is
off for `quit` and `quit_hang`, where the process ends, and for the rest, where the
bounds stop the behaviour.

Three runs find a disagreement with what the program says of itself. `pq_reconnect`:
PQ.cpp:73 says that -2 needs a reconnect, and no caller makes one. `quit_hang`:
`pop_front` waits on an empty queue before it looks at the status, so a thread that
tested `_quit` just before `exit` waits for ever, and main waits for it.
`file_lock`: //lock and //unlock (cap_http.cpp:510, 536) enclose statements that
hold no lock together, so two threads mix two responses.

The run `pipeline` lets a parse thread use a deleted interaction, and
LostOnlyWhenOvertaken says when: only after Keep newer ones were put.

**Fairness** is assumed in Shutdown, InteractionList and RingFifo: weak fairness of
each thread's own steps, because the operating system schedules every runnable
thread. That `nids_run` returns once `nids_exit` has closed its handle is part of
it. Packets, capture errors, spurious wakeups and the user are never forced. In
InteractionList only the output thread is assumed to be scheduled. In RingFifo a
woken thread runs, a deadline passes, and a wait whose deadline has passed ends; no
call is ever forced to begin, and no other thread is assumed to help.

## Proofs

For all values of the constants, with the assumptions each module names on its
constants (the bounds are naturals, Size is positive, producers and consumers are
finite disjoint sets, NoValue is no value):

* HttpSession: TypeOK, TrackedWhileOpen, InsertRecorded, EndRecorded,
  RowAttribution, and the action property NoRowsAfterEnd. None of the last
  three is inductive by itself. The strengthening `Linked` says that session
  numbers are given out in order, that a session in the table is not closed and
  in one entry only, that an entry without a connection belongs to an expired
  session (this is what makes the entry a new connection finds harmless or
  excused), and that an ended row belongs to a closed session. EndRecorded
  needs InsertRecorded: an UPDATE that finds no row is excused because the
  INSERT is then in the backup file. Both are about an open stream; that a failed one
  never recovers within a run is what makes them inductive. `CreateEffect`, `DestroyEffect`,
  `RequestEffect` and `ResponseEffect` say once what each operation does to the
  rows.
* BdbFifo: TypeOK, CountersMatchRecords, the refinement Spec => QueueSpec, and
  ClosedWhileDisabled. `StepCases` reduces every step to a put, a get, a quiet
  step or a restart; `RingDequeue` and `RingEnds` are the arithmetic of the
  ring; `CountInv` adds that the file never holds fewer records than it held at
  the start.
* BdbFifo, WakeupsCoverItems. The strengthening `Side` adds that in a disabled
  queue a sleeper has nothing to miss, which is why a woken thread may leave it
  without passing its wakeup on. `CoverKeep`, `CoverSignal` and `CoverTake` of
  DataLemmas are the counting argument on sets.
* RingFifo: TypeOK, the refinement Spec => QueueSpec and WakeupsCoverItems.
  `RingInv` says that nobody is inside the queue before init(); the abstract
  queue is then empty although there is no array yet. `WakeInv` is simpler than
  that of BdbFifo because this queue cannot be disabled, and needs `lapsed`
  because a timeout can swallow a signal.
* Shutdown: WorkersEndAfterQuit, OnlyWindowWaits and NoCallbackAfterFini, from
  ProcessTypeOK, `ExitOrder` (what the order of the statements of exit makes true) and `InWindow`. They are
  proved in BlockReassembly_proofs, which extends both modules about parse threads.
* HttpSession, on the lists: NoInteractionLeak, PairingWindow and
  AccountOfEndedRow. `ListInv` adds that a session outside the table has an empty
  list and that no interaction stands twice in the lists, which is why
  destroy_session frees each once; `PairInv` adds that no request or response in a
  list has a number above the last request its connection has sent, which is
  what bounds the window when the next response comes; `AccountInv` holds the session's account to its list at all
  times, not only at the end.
* InteractionList: TypeOK and the six safety invariants. `Fits` (in `TypeInv`) is
  the strengthening behind ContentFits: it holds between any two unlocked steps
  of any threads, because each step reads the sizes again. TimersOnLive needs that
  the handler is cancelled before it is freed and that clear runs after the thread of the
  event loop is joined; `FileInv` that a thread past check_status has cancelled the timer of its
  interaction, and that a new timer belongs to a new interaction; `OwnerInv` is
  OneOwner place by place; `PointerInv` says that a pointer in use was taken from
  the list, from which LostOnlyWhenOvertaken follows with KeepsNewest.
* OutputPath: RowsPaired and FileFollowsDb, for any contents, failures and
  restarts. `RowInv` says in which tables the interaction under way already is,
  `FileInv` how the file ends while the second part is due. TypeOK, from `TypeInv`.
* OutputPath, ContentDecoded: for chunks of any data and any number, of any size,
  cut anywhere. `SizeRead` says that HexValue reads what SizeLine writes.
  `Placed` gives the positions of a chunk in the encoded response, `Reads` what the loop
  returns from the start of a chunk's size line. `ScanReads` shows `Reads` for the
  last chunk first and then for the chunk before (`ReadsEnd`, `ReadsChunk`,
  `ReadsNothing` behind the captured part), and `DecodedCorrect` puts that into
  the three parts of the property.
* BlockReassembly: TypeOK, FaithfulWhileOrderly and DamageBounded, for any number of
  parse threads and contents, any block size and any size of the buffer. None is inductive.
  `Transit` says that blocks are popped in the order they were cut.
  `Reassembled` says that there is a set of contents, at most 2 * lost + 3 * overtaken of
  them, outside of which everything goes well: the blocks not yet appended are
  in transit, `_capBlocks` holds the beginning of the current content,
  `_nextBlockNum` is its next block, and each earlier content was given to the
  parser as `Whole` says. `Arriving` is what the blocks of a content
  come to when each is copied up to its sum, and `ArrivingIs` shows that this is the content
  with its stale bytes. A loss adds its content and the next one to the
  set. A parser that appends a block early adds at most three for each block it
  overtakes, `Stragglers` says that they then are in the set when they are appended late.

* RegexRules: TypeOK, ResultsAttributed and ReplyComplete, for any rules files, any
  contents and any number of calls. The run compares the code with a definition of
  its own for the reply; the proof shows that the two agree on all inputs.
  `SeqRelationCorrect`: get_seq_relation, a recursion from comma to comma, gives the
  names `NamesIn` finds by their rank, shown from the last comma backwards
  (`LastBegins`, `NextBegins`). `NodeGives` and `CallResults`: since the Pcre object
  is cleared before each node, the results of a call are the list of what each try
  gives on its own (`Gives`), joined, whatever was compiled before. `ToldIs` then
  takes out the results of one rule (`FoundIs`), because mapping a joined list is
  joining the mapped ones. The invariant behind ReplyComplete is `SortInv`: the sort nodes
  are the names of all calls so far, each with the systems there were at that call. It
  outlives the load of another file because systems are only added behind those that are
  there (`PrefixStays`, `ListsStay`).

The assumptions on constants behind these: MaxBuff and BlockSize are positive,
lengths are positive, no block is NoBlock, the digits and line ends are characters,
the unknown byte is not a character, a chunk is not empty (an empty one would be the
end of the body), and a rules file is a list of systems of the shape of system_node,
in which no pattern is NoText (FilesAssumption, PatternAssumption).

DataLemmas has what proofs about sequences and recursive functions need: the library
states induction for an operator, which no prover here can instantiate, so
`InductionOnNat` and `StrongInduction` state it for a set of naturals (from
`SmallestNat`, the least element of a set), `RecursionOnNat` and
`RecursionOnHistory` that a function defined by recursion on its last or on all its
earlier values exists, and `FlattenIs`, `FlattenAppend` and their like what the
FlattenSeq of the community modules computes. On lists, `SeqInduction` adds one
element at a time, and `MappedConcat`, `MappedFlatten` and `MappedTwice` are the
laws of a list whose elements are each replaced by a list (`Mapped`). `HexValueIs`
and `ScanIs` of OutputPath_proofs are instances of the recursion: from them on, a
recursive definition of the model can be unfolded in a proof.

Only model-checked: QuitUnlessCaught, OutputProgress and EveryCallReturns, because
liveness under fairness is out of the prover's reach. Every other property of a
passing run is a theorem.

## Not modelled, and why

* Wording of SQL, header fields, logging and uuids: no property depends on them.
* Time: end times and start times are only present or absent.
* gzip decompression and what a regular expression matches: library calls; a
  pattern matches or does not, and pcre_compile rejects it or not.
* The maintenance threads of my_berkeleyDB: they change no record.
* `reconnect`, `execQuery` and the other copy functions of PQ, `enabled` and
  `flush` of the list: nothing calls them.
* `my_ace_guard`: a scoped lock, one step of what it encloses.
* tinyxml.h and tinystr.h: third-party headers.
* Allocation failures end the process, as `Down` does at any moment.
* The request_protocol_str that the UPDATE for a response fills, and the fields
  behind a search that ran past its segment: what they hold is not constrained.
* Records an earlier process left in the queue, in BlockReassembly (BdbFifo has them),
  and chunk sizes of more than 31 characters or of 2^31 and above, in ChunkedBody.
* The list of rules that httpSession lets grow: all have the same pattern, and only
  the first result is used.

## Plan

What is left, in order of value:

1. The whole second path in one module: capture, fifo, reassembly, list and
   sinks composed, with the abstract queue for the fifo.
2. Records an earlier process left in the queue meeting the reassembly of a new one.
3. Header fields, as far as two of them contradict each other (a content length
   beside a transfer encoding).

Each new component gets one passing run with its safety properties, and a run more
only where it answers a question of its own.
