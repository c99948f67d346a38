---------------------------- MODULE HttpSession ----------------------------
(***************************************************************************)
(* The live path of the sensor: libnids calls http_protocol_callback, and  *)
(* httpSession keeps one entry per TCP four-tuple, writes it to PostgreSQL *)
(* through PQ::exec, and falls back to a backup file when a session        *)
(* statement fails.  Everything here runs on the single nids thread, so    *)
(* one callback is one step; what makes it hard is the order in which      *)
(* libnids events, database failures and restarts arrive.                  *)
(***************************************************************************)
EXTENDS Integers, Sequences, FiniteSets

CONSTANTS
    Keys,            \* four-tuples of TCP connections
    WebKeys,         \* those whose destination port is 80
    Accounts,        \* values the pattern account=\w+ can extract
    NoAccount,       \* an empty loginAccount / appaccount
    MaxSessions,     \* bound: sessions created over all runs of the process
    MaxRequests,     \* bound: recognised requests over all runs, and requests per connection
    MaxOutstanding   \* environment: unanswered requests a client may have (1 = no pipelining)

ASSUME KeysAssumption  == WebKeys \subseteq Keys
ASSUME AccountAssumption == NoAccount \notin Accounts
ASSUME BoundAssumption ==
    MaxSessions \in Nat /\ MaxRequests \in Nat /\ MaxOutstanding \in Nat \ {0}

Sids == 1..MaxSessions       \* Session_id values, numbered in the order of creation
Rids == 1..MaxRequests       \* request_id values, likewise
None == 0                    \* no session, no response

VARIABLES
    proc,       \* "up" or "down"
    stream,     \* libnids: is the connection on this four-tuple followed
    table,      \* _session_table: the session a four-tuple maps to, or None
    session,    \* the reachable http_session structs: account and interactions
    inter,      \* http_interaction structs on the heap
    pq,         \* libpq connection: "ok", "bad" or "deleted"
    traffic,    \* rows of nms_traffic
    reqrow,     \* rows of nms_traffic_request
    backup,     \* statements in the backup file
    out,        \* the ofstream of the backup file: "open" or "failed"
    made,       \* sessions created so far
    asked,      \* recognised requests so far
    wire,       \* history: what really travelled on the current connection
    closed,     \* history: sessions destroy_session was called for
    expired,    \* history: sessions in the table when libnids dropped their connection
    runStart    \* history: value of made when the process started

volatile == <<stream, table, session, inter, wire>>
database == <<traffic, reqrow>>
file == <<backup, out>>
vars == <<proc, volatile, pq, database, file, made, asked, closed, expired, runStart>>

EmptySession == [account |-> NoAccount, inters |-> <<>>]
Freed        == [live |-> FALSE, no |-> 0, account |-> NoAccount, resp |-> 0]
NoRow        == [state |-> "none", account |-> NoAccount]
NoRequest    == [sid |-> None, conn |-> None]
Silent       == [sent |-> 0, answered |-> 0, owner |-> None]

SessionRecords == [account : Accounts \cup {NoAccount}, inters : Seq(Rids)]
InterRecords   == [live : BOOLEAN, no : Nat, account : Accounts \cup {NoAccount}, resp : Nat]
TrafficRows    == [state : {"none", "open", "ended"}, account : Accounts \cup {NoAccount}]
RequestRows    == [sid : Sids \cup {None}, conn : Sids \cup {None}]
Wires          == [sent : Nat, answered : Nat, owner : Sids \cup {None}]
Statements     == {"insert", "update"} \X Sids

-----------------------------------------------------------------------------
(* cap_http::init and httpSession::init with a database that answers; a    *)
(* failed connect makes main return before run.  Nobody looks at whether   *)
(* the backup file could be opened.                                        *)
Init ==
    /\ proc = "up"
    /\ stream = [k \in Keys |-> "none"]
    /\ table = [k \in Keys |-> None]
    /\ session = [s \in Sids |-> EmptySession]
    /\ inter = [r \in Rids |-> Freed]
    /\ wire = [k \in Keys |-> Silent]
    /\ pq = "ok"
    /\ traffic = [s \in Sids |-> NoRow]
    /\ reqrow = [r \in Rids |-> NoRequest]
    /\ backup = {} /\ out \in {"open", "failed"}
    /\ made = 0 /\ asked = 0 /\ runStart = 0
    /\ closed = {} /\ expired = {}

(***************************************************************************)
(* PQ::exec.  ret is its return value, done says whether the server        *)
(* committed the statement, conn is the state PQstatus reports afterwards. *)
(* The connection can be lost before or after the commit; nothing ever     *)
(* calls PQ::reconnect, so a bad connection refuses every later statement. *)
(***************************************************************************)
Exec ==
    IF pq = "ok"
    THEN {[ret |-> 0,  done |-> TRUE,  conn |-> "ok"],
          [ret |-> -1, done |-> FALSE, conn |-> "ok"],
          [ret |-> -2, done |-> FALSE, conn |-> "bad"],
          [ret |-> -2, done |-> TRUE,  conn |-> "bad"]}
    ELSE {[ret |-> -2, done |-> FALSE, conn |-> "bad"]}

(* out<<sql<<endl writes the statement, or fails and leaves the stream     *)
(* failed; a failed stream drops every later statement, and nobody looks.  *)
Write(kind, s) ==
    \/ out = "open" /\ backup' = backup \cup {<<kind, s>>} /\ out' = "open"
    \/ UNCHANGED backup /\ out' = "failed"

(* A failed session statement is written to the backup file; a mutant      *)
(* keeps only the fatal failures, another one only the inserts.            *)
MutantBackupFatalOnly(o, kind, s) ==
    IF o.ret = -2 THEN Write(kind, s) ELSE UNCHANGED file

MutantBackupInsertOnly(o, kind, s) ==
    IF o.ret < 0 /\ kind = "insert" THEN Write(kind, s) ELSE UNCHANGED file

BackUp(o, kind, s) ==
    IF o.ret < 0 THEN Write(kind, s) ELSE UNCHANGED file

(* create_session: map::insert keeps an entry that is already there, and   *)
(* then the new struct is unreachable; its row is inserted all the same.   *)
CreateSession(k) ==
    LET s == made + 1 IN
    /\ made < MaxSessions
    /\ made' = s
    /\ table' = IF table[k] = None THEN [table EXCEPT ![k] = s] ELSE table
    /\ wire' = [wire EXCEPT ![k] = [Silent EXCEPT !.owner = s]]
    /\ \E o \in Exec :
          /\ pq' = o.conn
          /\ traffic' = IF o.done THEN [traffic EXCEPT ![s].state = "open"] ELSE traffic
          /\ BackUp(o, "insert", s)
    /\ UNCHANGED <<session, inter, reqrow, asked, closed, expired>>

(* The entry leaves _session_table; a mutant forgets the erase.            *)
MutantKeepEntry(k) == table
EraseEntry(k) == [table EXCEPT ![k] = None]

(* Every interaction of the session's list is freed; a mutant frees none.  *)
MutantFreeNothing(s) == inter
FreeInteractions(s) ==
    [r \in Rids |-> IF \E n \in DOMAIN session[s].inters : session[s].inters[n] = r
                    THEN Freed ELSE inter[r]]

(* destroy_session: the UPDATE touches the row only if it exists, and an   *)
(* UPDATE of no row is still a success.  The struct itself is not deleted, *)
(* but nothing points to it any more.                                      *)
DestroySession(k) ==
    LET s == table[k] IN
    IF s = None
    THEN UNCHANGED <<table, session, inter, pq, traffic, file, closed>>
    ELSE /\ table' = EraseEntry(k)
         /\ session' = [session EXCEPT ![s] = EmptySession]
         /\ inter' = FreeInteractions(s)
         /\ closed' = closed \cup {s}
         /\ \E o \in Exec :
               /\ pq' = o.conn
               /\ traffic' = IF o.done /\ traffic[s].state # "none"
                             THEN [traffic EXCEPT ![s] =
                                     [state |-> "ended", account |-> session[s].account]]
                             ELSE traffic
               /\ BackUp(o, "update", s)

(* Every request with a payload adds the rule account=\w+ to _pcre once    *)
(* more (RegexRules models the list), so all rules have the same pattern   *)
(* and the first result decides, if there is one; a mutant takes it        *)
(* without looking whether there is one.                                   *)
MutantFirstResult(req) == IF req.account = NoAccount THEN "garbage" ELSE req.account
MatchAllRule(req) == IF req.body THEN req.account ELSE NoAccount

(* An empty login does not replace the account of the session; in a mutant *)
(* it does.                                                                *)
MutantLatestLogin(old, login) == login
LoginAccount(old, login) == IF login = NoAccount THEN old ELSE login

(* Whether strstr finds the end of a head in a segment and the word (GET   *)
(* or POST, HTTP/) somewhere before it.  The search looks at one segment   *)
(* only and runs to the next NUL, past the length if there is none before: *)
(* a head that is split is not found, and any segment, the middle of a     *)
(* body too, may have both.                                                *)
Segments == {"both found", "not found"}
IsOneNewRequest(segment) == segment = "both found"
IsFirstResponse(segment) == segment = "both found"

(* parse_request: a request has an account only in its payload, which is   *)
(* what follows the end of the head, up to the next NUL.                   *)
ParsedRequests ==
    {[body |-> FALSE, account |-> NoAccount]}
        \cup [body : {TRUE}, account : Accounts \cup {NoAccount}]

CreateInteraction(no, login) == [live |-> TRUE, no |-> no, account |-> login, resp |-> 0]

(* insert_value_into_requesttable: the return value of exec is ignored.    *)
InsertRequest(r, k) ==
    \E o \in Exec :
        /\ pq' = o.conn
        /\ reqrow' = IF o.done
                     THEN [reqrow EXCEPT ![r] =
                             [sid |-> table[k], conn |-> wire[k].owner]]
                     ELSE reqrow

(* update_session(fromclient) on a segment taken for a new request; no is  *)
(* the request of the connection that the segment belongs to.              *)
NewRequest(k, no, req) ==
    LET r     == asked + 1
        login == MatchAllRule(req)
    IN
    /\ asked < MaxRequests
    /\ asked' = r
    /\ inter' = [inter EXCEPT ![r] = CreateInteraction(no, login)]
    /\ session' = [session EXCEPT ![table[k]] =
                     [account |-> LoginAccount(@.account, login),
                      inters  |-> Append(@.inters, r)]]
    /\ InsertRequest(r, k)

(* The interaction a response is filed with: the last one of the session,  *)
(* whichever that is; in a mutant the first one.                           *)
MutantOldest(his) == his[1]
Latest(his) == his[Len(his)]

(* update_session(fromserver) on a segment taken for a first response; n   *)
(* is the response of the connection that the segment belongs to.  The     *)
(* UPDATE fills the request_protocol_str of the row, which is not modelled.*)
FirstResponse(k, n) ==
    LET his == session[table[k]].inters
        i   == Latest(his)
    IN
    IF his = <<>>
    THEN UNCHANGED <<inter, pq>>
    ELSE /\ inter' = [inter EXCEPT ![i].resp = n]
         /\ \E o \in Exec : pq' = o.conn     \* a failure is printed and forgotten

-----------------------------------------------------------------------------
(* The callbacks, one per libnids event.                                   *)

(* NIDS_JUST_EST: a connection to another port is not collected, and       *)
(* libnids then never reports it again.                                    *)
JustEst(k) ==
    /\ proc = "up" /\ stream[k] = "none"
    /\ IF k \notin WebKeys
       THEN UNCHANGED vars
       ELSE /\ stream' = [stream EXCEPT ![k] = "est"]
            /\ CreateSession(k)
            /\ UNCHANGED <<proc, runStart>>

(* NIDS_DATA with server.count_new: the segment continues the last request *)
(* or starts new ones, as many as the client may have unanswered.          *)
DataFromClient(k) ==
    /\ proc = "up" /\ stream[k] = "est"
    /\ \E no, last \in Rids, segment \in Segments :
          /\ wire[k].sent <= no /\ no <= last
          /\ last <= wire[k].answered + MaxOutstanding
          /\ wire' = [wire EXCEPT ![k].sent = last]
          /\ IF table[k] # None /\ IsOneNewRequest(segment)
             THEN \E req \in ParsedRequests : NewRequest(k, no, req)
             ELSE UNCHANGED <<asked, inter, session, pq, reqrow>>
    /\ UNCHANGED <<proc, stream, table, traffic, file, made, closed, expired, runStart>>

(* NIDS_DATA with client.count_new: the segment is part of a response to a *)
(* request that was sent, and may be the end of it and of later ones.      *)
DataFromServer(k) ==
    /\ proc = "up" /\ stream[k] = "est"
    /\ \E n \in (wire[k].answered + 1)..wire[k].sent, segment \in Segments :
          /\ \E ended \in (n - 1)..wire[k].sent :
                wire' = [wire EXCEPT ![k].answered = ended]
          /\ IF table[k] # None /\ IsFirstResponse(segment)
             THEN FirstResponse(k, n)
             ELSE UNCHANGED <<inter, pq>>
    /\ UNCHANGED <<proc, stream, table, session, database, file, made, asked,
                   closed, expired, runStart>>

(* NIDS_CLOSE and NIDS_RESET; a mutant leaves the session alone.           *)
MutantCloseOnly(k) ==
    /\ proc = "up" /\ stream[k] = "est"
    /\ stream' = [stream EXCEPT ![k] = "none"]
    /\ wire' = [wire EXCEPT ![k] = Silent]
    /\ UNCHANGED <<proc, table, session, inter, pq, traffic, reqrow, file, made,
                   asked, closed, expired, runStart>>

CloseOrReset(k) ==
    /\ proc = "up" /\ stream[k] = "est"
    /\ stream' = [stream EXCEPT ![k] = "none"]
    /\ wire' = [wire EXCEPT ![k] = Silent]
    /\ DestroySession(k)
    /\ UNCHANGED <<proc, reqrow, made, asked, expired, runStart>>

(* NIDS_TIMED_OUT: libnids gives the connection up, no branch of the       *)
(* callback handles it, and the table entry stays.                         *)
TimedOut(k) ==
    /\ proc = "up" /\ stream[k] = "est"
    /\ stream' = [stream EXCEPT ![k] = "none"]
    /\ wire' = [wire EXCEPT ![k] = Silent]
    /\ expired' = expired \cup {table[k]}
    /\ UNCHANGED <<proc, table, session, inter, pq, traffic, reqrow, file, made,
                   asked, closed, runStart>>

(* The process ends: cap_http::exit runs nids_exit and httpSession::fini,  *)
(* which deletes the connection, and main returns (no callback starts in   *)
(* between), or the process is killed at any time.  Its memory is gone.    *)
Down ==
    /\ proc = "up"
    /\ proc' = "down" /\ pq' = "deleted"
    /\ stream' = [k \in Keys |-> "none"]
    /\ table' = [k \in Keys |-> None]
    /\ session' = [s \in Sids |-> EmptySession]
    /\ inter' = [r \in Rids |-> Freed]
    /\ wire' = [k \in Keys |-> Silent]
    /\ UNCHANGED <<database, file, made, asked, closed, expired, runStart>>

(* A new process: the backup file is opened with ios::out, so truncated,   *)
(* or the open fails and nobody looks.                                     *)
Restart ==
    /\ proc = "down"
    /\ proc' = "up" /\ pq' = "ok" /\ runStart' = made
    /\ \/ backup' = {} /\ out' = "open"
       \/ UNCHANGED backup /\ out' = "failed"
    /\ UNCHANGED <<volatile, database, made, asked, closed, expired>>

Next ==
    \/ \E k \in Keys : \/ JustEst(k)
                       \/ DataFromClient(k)
                       \/ DataFromServer(k)
                       \/ CloseOrReset(k)
                       \/ TimedOut(k)
    \/ Down
    \/ Restart

Spec == Init /\ [][Next]_vars
-----------------------------------------------------------------------------
(* Every variable has its type.                                            *)
TypeOK ==
    /\ proc \in {"up", "down"}
    /\ stream \in [Keys -> {"none", "est"}]
    /\ table \in [Keys -> Sids \cup {None}]
    /\ session \in [Sids -> SessionRecords]
    /\ inter \in [Rids -> InterRecords]
    /\ pq \in {"ok", "bad", "deleted"}
    /\ traffic \in [Sids -> TrafficRows]
    /\ reqrow \in [Rids -> RequestRows]
    /\ backup \subseteq Statements
    /\ out \in {"open", "failed"}
    /\ made \in Sids \cup {0}
    /\ asked \in Rids \cup {0}
    /\ wire \in [Keys -> Wires]
    /\ closed \subseteq Sids
    /\ expired \subseteq Sids
    /\ runStart \in Sids \cup {0}

(* While libnids follows a connection, create_session, update_session and  *)
(* destroy_session find a table entry for it, and the entry is the one     *)
(* made for this very connection unless an earlier connection on the same  *)
(* four-tuple timed out and left its entry behind.                         *)
TrackedWhileOpen ==
    \A k \in Keys : stream[k] = "est" =>
        /\ table[k] # None
        /\ table[k] = wire[k].owner \/ table[k] \in expired

(* As long as the stream of the backup file has not failed, create_session *)
(* loses no session of this run: whatever PQ::exec answered, the row is in *)
(* nms_traffic or the INSERT is in the backup file.                        *)
InsertRecorded ==
    proc = "up" /\ out = "open" =>
        \A s \in (runStart + 1)..made :
            traffic[s].state # "none" \/ <<"insert", s>> \in backup

(* As long as that stream has not failed, the end of a session is in its   *)
(* row or in the backup file, except when the row itself went to the       *)
(* backup file: then destroy_session's UPDATE can succeed on no row at     *)
(* all, and only the start can be recovered.                               *)
EndRecorded ==
    out = "open" => \A s \in closed : s > runStart =>
        \/ traffic[s].state = "ended"
        \/ <<"update", s>> \in backup
        \/ traffic[s].state = "none" /\ <<"insert", s>> \in backup

(* A request row names the session of the connection that carried the      *)
(* request, or a session whose own connection timed out before: no other   *)
(* order of events on the four-tuples mixes two connections up.            *)
RowAttribution ==
    \A r \in Rids : reqrow[r].sid # reqrow[r].conn => reqrow[r].sid \in expired

(* The interactions on the heap are exactly those of the sessions in the   *)
(* table, each in one list once: destroy_session frees them all, and none  *)
(* is reachable after it is freed.                                         *)
NoInteractionLeak ==
    /\ \A r \in Rids : inter[r].live =>
          \E k \in Keys : table[k] # None
                           /\ \E n \in DOMAIN session[table[k]].inters :
                                 session[table[k]].inters[n] = r
    /\ \A k \in Keys : table[k] # None =>
          \A n \in DOMAIN session[table[k]].inters : inter[session[table[k]].inters[n]].live
    /\ \A j, k \in Keys : j # k /\ table[j] # None => table[j] # table[k]

(* update_session files a segment of response n with the last request it   *)
(* recognised, rightly or from a piece of a body.  If at most              *)
(* MaxOutstanding requests of a client are unanswered, that segment        *)
(* belongs to a request before n + MaxOutstanding, and no segment          *)
(* recognised between the two was passed over: those recognised later      *)
(* belong to request n or to later ones.                                   *)
PairingWindow ==
    \A k \in Keys : stream[k] = "est" /\ table[k] \notin expired =>
        LET his == session[table[k]].inters IN
        \A n \in DOMAIN his : inter[his[n]].resp # 0 =>
            /\ inter[his[n]].no < inter[his[n]].resp + MaxOutstanding
            /\ \A m \in DOMAIN his : m > n => inter[his[m]].no >= inter[his[n]].resp

(* Once a row of nms_traffic has an end time, no request row is added to   *)
(* its session and it is not ended a second time.                          *)
NoRowsAfterEnd ==
    [][\A s \in Sids : traffic[s].state = "ended" =>
          /\ traffic'[s] = traffic[s]
          /\ \A r \in Rids : reqrow'[r].sid = s => reqrow[r].sid = s]_vars

LastAccount(his) ==
    LET named == {n \in DOMAIN his : inter[his[n]].account # NoAccount} IN
    IF named = {} THEN NoAccount
    ELSE inter[his[CHOOSE n \in named : \A m \in named : m <= n]].account

(* The app_account written with the end time is the last account any       *)
(* request of the session logged in with.                                  *)
AccountOfEndedRow ==
    [][\A s \in Sids : traffic[s].state # "ended" /\ traffic'[s].state = "ended" =>
          traffic'[s].account = LastAccount(session[s].inters)]_vars

(* "-2 means fatal error, need reconnect": after it, no statement is tried *)
(* on the same connection.  (A statement that reaches the backup file was  *)
(* tried, and it was the first to find the connection bad.)                *)
ReconnectAfterFatal ==
    [][\A q \in backup' \ backup : pq = "ok"]_vars
=============================================================================
