------------------------------ MODULE Shutdown ------------------------------
(***************************************************************************)
(* The life of the process: main starts the threads (cap_http::run) and    *)
(* waits for all of them; the monitor thread reads 'q' and runs            *)
(* cap_http::exit while the others are wherever they happen to be.  The    *)
(* workers are the parse threads, which take blocks from the fifo, and the *)
(* output thread, which takes interactions from the list; both queues stay *)
(* empty here because nothing in the program as built fills them.          *)
(***************************************************************************)
EXTENDS Naturals, FiniteSets

CONSTANTS ParseThreads, OutputThread

ASSUME WorkerAssumption == OutputThread \notin ParseThreads

Workers == ParseThreads \cup {OutputThread}
Queues  == {"fifo", "list"}
QueueOf(w) == IF w = OutputThread THEN "list" ELSE "fifo"

VARIABLES
    main,      \* "run" (and the thread it starts next), "wait", "done"
    worker,    \* where a worker is in its loop
    nids,      \* nids thread: "unborn", "capture", "callback" or "done"
    reactor,   \* reactor thread: "unborn", "loop" or "done"
    monitor,   \* monitor thread: the statement it is about to execute
    quit,      \* _quit
    status,    \* _status of each queue
    capture,   \* libnids has its capture handle open
    looping,   \* the reactor's event loop has not been ended
    conn,      \* _out_session_conn: "open" or "deleted"
    crashed,   \* an exec went through the deleted connection
    window     \* history: workers past their _quit test when their queue was disabled

threads == <<main, worker, nids, reactor, monitor>>
shared  == <<quit, status, capture, looping, conn>>
processVars == <<threads, shared, crashed, window>>

ProcessInit ==
    /\ main = "reactor"
    /\ worker = [w \in Workers |-> "unborn"]
    /\ nids = "unborn" /\ reactor = "unborn" /\ monitor = "unborn"
    /\ quit = FALSE
    /\ status = [q \in Queues |-> "ENABLED"]
    /\ capture = TRUE /\ looping = TRUE
    /\ conn = "open" /\ crashed = FALSE
    /\ window = {}

-----------------------------------------------------------------------------
(* cap_http::run: the threads in the order it spawns them.                 *)
SpawnReactor ==
    /\ main = "reactor" /\ main' = "nids" /\ reactor' = "loop"
    /\ UNCHANGED <<worker, nids, monitor, shared, crashed, window>>

SpawnNids ==
    /\ main = "nids" /\ main' = "output" /\ nids' = "capture"
    /\ UNCHANGED <<worker, reactor, monitor, shared, crashed, window>>

SpawnOutput ==
    /\ main = "output" /\ main' = "parse"
    /\ worker' = [worker EXCEPT ![OutputThread] = "loop"]
    /\ UNCHANGED <<nids, reactor, monitor, shared, crashed, window>>

SpawnParse ==
    /\ main = "parse" /\ main' = "monitor"
    /\ worker' = [w \in Workers |-> IF w \in ParseThreads THEN "loop" ELSE worker[w]]
    /\ UNCHANGED <<nids, reactor, monitor, shared, crashed, window>>

SpawnMonitor ==
    /\ main = "monitor" /\ main' = "wait" /\ monitor' = "getchar"
    /\ UNCHANGED <<worker, nids, reactor, shared, crashed, window>>

(* ACE_Thread_Manager::wait returns when every thread has; then main       *)
(* destroys the instance and returns.                                      *)
Join ==
    /\ main = "wait"
    /\ \A w \in Workers : worker[w] = "done"
    /\ nids = "done" /\ reactor = "done" /\ monitor = "done"
    /\ main' = "done"
    /\ UNCHANGED <<worker, nids, reactor, monitor, shared, crashed, window>>

(* The loop of parse_content and of output_interaction_data: test _quit,   *)
(* call pop_front or pop, wait in it.  The mutex is taken after the test.  *)
TestQuit(w) ==
    /\ worker[w] = "loop"
    /\ worker' = [worker EXCEPT ![w] = IF quit THEN "done" ELSE "pop"]
    /\ UNCHANGED <<main, nids, reactor, monitor, shared, crashed, window>>

(* The queue is empty (the list: too short), so the call waits first.      *)
PopWaits(w) ==
    /\ worker[w] = "pop"
    /\ worker' = [worker EXCEPT ![w] = "waiting"]
    /\ UNCHANGED <<main, nids, reactor, monitor, shared, crashed, window>>

(* Woken: a disabled queue makes pop return 1, on which both loops break;  *)
(* otherwise the loop in pop goes round and waits again.  The mutant does  *)
(* not look at the status, so that any wakeup ends the worker.             *)
MutantAwake(w) ==
    /\ worker[w] = "woken"
    /\ worker' = [worker EXCEPT ![w] = "done"]
    /\ UNCHANGED <<main, nids, reactor, monitor, shared, crashed, window>>

Awake(w) ==
    /\ worker[w] = "woken"
    /\ worker' = [worker EXCEPT ![w] =
                    IF status[QueueOf(w)] = "DISABLED" THEN "done" ELSE "waiting"]
    /\ UNCHANGED <<main, nids, reactor, monitor, shared, crashed, window>>

SpuriousWakeup(w) ==
    /\ worker[w] = "waiting"
    /\ worker' = [worker EXCEPT ![w] = "woken"]
    /\ UNCHANGED <<main, nids, reactor, monitor, shared, crashed, window>>

(* nids_run: a packet of a followed connection runs a callback, which      *)
(* reads _out_session_conn and executes statements through it.             *)
Packet ==
    /\ nids = "capture" /\ capture
    /\ nids' = "callback"
    /\ UNCHANGED <<main, worker, reactor, monitor, shared, crashed, window>>

Statement ==
    /\ nids = "callback"
    /\ nids' = "capture"
    /\ crashed' = (conn = "deleted")
    /\ UNCHANGED <<main, worker, reactor, monitor, shared, window>>

(* nids_run returns once its handle is closed, or on a capture error.      *)
NidsReturns ==
    /\ nids = "capture" /\ ~capture
    /\ nids' = "done"
    /\ UNCHANGED <<main, worker, reactor, monitor, shared, crashed, window>>

CaptureError ==
    /\ nids = "capture" /\ capture
    /\ nids' = "done"
    /\ UNCHANGED <<main, worker, reactor, monitor, shared, crashed, window>>

ReactorReturns ==
    /\ reactor = "loop" /\ ~looping
    /\ reactor' = "done"
    /\ UNCHANGED <<main, worker, nids, monitor, shared, crashed, window>>

-----------------------------------------------------------------------------
(* monitor_thread and the six statements of cap_http::exit.                *)
TypeQ ==
    /\ monitor = "getchar"
    /\ monitor' = "nids_exit"
    /\ UNCHANGED <<main, worker, nids, reactor, shared, crashed, window>>

MutantNidsExit ==           \* leaves the capture handle open
    /\ monitor = "nids_exit" /\ monitor' = "set_quit"
    /\ UNCHANGED <<main, worker, nids, reactor, shared, crashed, window>>

NidsExit ==
    /\ monitor = "nids_exit" /\ monitor' = "set_quit"
    /\ capture' = FALSE
    /\ UNCHANGED <<main, worker, nids, reactor, quit, status, looping, conn, crashed, window>>

MutantSetQuit ==            \* forgets _quit
    /\ monitor = "set_quit" /\ monitor' = "end_loop"
    /\ UNCHANGED <<main, worker, nids, reactor, shared, crashed, window>>

SetQuit ==
    /\ monitor = "set_quit" /\ monitor' = "end_loop"
    /\ quit' = TRUE
    /\ UNCHANGED <<main, worker, nids, reactor, status, capture, looping, conn, crashed, window>>

EndEventLoop ==
    /\ monitor = "end_loop" /\ monitor' = "disable_list"
    /\ looping' = FALSE
    /\ UNCHANGED <<main, worker, nids, reactor, quit, status, capture, conn, crashed, window>>

(* disabled(): set the status and wake whoever waits.  The mutant wakes    *)
(* nobody.                                                                 *)
SetDisabled(q) == [status EXCEPT ![q] = "DISABLED"]

MutantWakeNone(q) == worker
WakeAll(q) ==
    [w \in Workers |-> IF QueueOf(w) = q /\ worker[w] = "waiting" THEN "woken" ELSE worker[w]]

Disable(q, next) ==
    /\ monitor' = next
    /\ status' = SetDisabled(q)
    /\ worker' = WakeAll(q)
    /\ window' = window \cup {w \in Workers : QueueOf(w) = q /\ worker[w] = "pop"}
    /\ UNCHANGED <<main, nids, reactor, quit, capture, looping, conn, crashed>>

DisableList == monitor = "disable_list" /\ Disable("list", "disable_fifo")
DisableFifo == monitor = "disable_fifo" /\ Disable("fifo", "fini")

Fini ==
    /\ monitor = "fini" /\ monitor' = "done"
    /\ conn' = "deleted"
    /\ UNCHANGED <<main, worker, nids, reactor, quit, status, capture, looping, crashed, window>>

-----------------------------------------------------------------------------
Main == SpawnReactor \/ SpawnNids \/ SpawnOutput \/ SpawnParse \/ SpawnMonitor \/ Join
Worker(w) == TestQuit(w) \/ PopWaits(w) \/ Awake(w)
Nids == Statement \/ NidsReturns
Exit == NidsExit \/ SetQuit \/ EndEventLoop \/ DisableList \/ DisableFifo \/ Fini

ProcessNext ==
    /\ ~crashed
    /\ \/ Main
       \/ \E w \in Workers : Worker(w) \/ SpuriousWakeup(w)
       \/ Nids \/ Packet \/ CaptureError
       \/ ReactorReturns
       \/ TypeQ
       \/ Exit

(* Every thread that can run is scheduled.  Nothing forces packets, a      *)
(* capture error, a spurious wakeup or the user.                           *)
Fairness ==
    /\ WF_processVars(~crashed /\ Main)
    /\ \A w \in Workers : WF_processVars(~crashed /\ Worker(w))
    /\ WF_processVars(~crashed /\ Nids)
    /\ WF_processVars(~crashed /\ ReactorReturns)
    /\ WF_processVars(~crashed /\ Exit)

ProcessSpec == ProcessInit /\ [][ProcessNext]_processVars /\ Fairness
-----------------------------------------------------------------------------
(* Every variable has its type.                                            *)
ProcessTypeOK ==
    /\ main \in {"reactor", "nids", "output", "parse", "monitor", "wait", "done"}
    /\ worker \in [Workers -> {"unborn", "loop", "pop", "waiting", "woken", "done"}]
    /\ nids \in {"unborn", "capture", "callback", "done"}
    /\ reactor \in {"unborn", "loop", "done"}
    /\ monitor \in {"unborn", "getchar", "nids_exit", "set_quit", "end_loop",
                    "disable_list", "disable_fifo", "fini", "done"}
    /\ quit \in BOOLEAN /\ capture \in BOOLEAN /\ looping \in BOOLEAN /\ crashed \in BOOLEAN
    /\ status \in [Queues -> {"ENABLED", "DISABLED"}]
    /\ conn \in {"open", "deleted"}
    /\ window \subseteq Workers

(* A worker ends only after exit has set _quit: no wakeup, spurious or     *)
(* meant for another, ends it before, and neither does disabled(), which   *)
(* comes after _quit is set.                                               *)
WorkersEndAfterQuit == \A w \in Workers : worker[w] = "done" => quit

(* A worker waits on a disabled queue only if disabled() ran between its   *)
(* test of _quit and its wait: setting _quit before disabling the queues   *)
(* is what keeps every other worker out.                                   *)
OnlyWindowWaits ==
    \A w \in Workers :
        worker[w] = "waiting" /\ status[QueueOf(w)] = "DISABLED" => w \in window

(* If no worker is ever caught in that window, 'q' ends the process: main  *)
(* joins every thread, unless a callback still under way runs into the     *)
(* connection fini deleted.                                                *)
QuitUnlessCaught ==
    monitor = "nids_exit" ~> (main = "done" \/ crashed \/ window # {})

(* The only statement that can hit the deleted connection is that of a     *)
(* callback libnids had started before its handle was closed, so at most   *)
(* one, and none once the nids thread is back in nids_run.                 *)
NoCallbackAfterFini ==
    [][conn = "deleted" /\ nids # "callback" => nids' # "callback"]_processVars

(* "type in 'q'to quit system": after a 'q' the process ends.              *)
QuitEnds == monitor = "nids_exit" ~> (main = "done" \/ crashed)
=============================================================================
