------------------------- MODULE HttpSession_proofs -------------------------
(* Proofs about HttpSession, for any connections and any bounds.           *)
EXTENDS HttpSession, TLAPS, SequenceTheorems

-----------------------------------------------------------------------------
(* Types of the records.                                                   *)

LEMMA ConstantTypes ==
  /\ EmptySession \in SessionRecords
  /\ Freed \in InterRecords
  /\ NoRow \in TrafficRows
  /\ NoRequest \in RequestRows
  /\ Silent \in Wires
<1>1. <<>> \in Seq(Rids)
  OBVIOUS
<1> QED
  BY <1>1 DEF EmptySession, SessionRecords, Freed, InterRecords, NoRow, TrafficRows,
              NoRequest, RequestRows, Silent, Wires, None

LEMMA ExecType ==
  ASSUME NEW o \in Exec
  PROVE  /\ o.conn \in {"ok", "bad"}
         /\ o.done \in BOOLEAN
         /\ o.ret \in {0, -1, -2}
         /\ ~o.done => o.ret < 0
         /\ o.ret = 0 \/ o.ret < 0
<1>2. \/ o = [ret |-> 0,  done |-> TRUE,  conn |-> "ok"]
      \/ o = [ret |-> -1, done |-> FALSE, conn |-> "ok"]
      \/ o = [ret |-> -2, done |-> FALSE, conn |-> "bad"]
      \/ o = [ret |-> -2, done |-> TRUE,  conn |-> "bad"]
  BY Zenon DEF Exec
<1>3. CASE o = [ret |-> 0,  done |-> TRUE,  conn |-> "ok"]
  BY <1>3
<1>4. CASE o = [ret |-> -1, done |-> FALSE, conn |-> "ok"]
  BY <1>4
<1>5. CASE o = [ret |-> -2, done |-> FALSE, conn |-> "bad"]
  BY <1>5
<1>6. CASE o = [ret |-> -2, done |-> TRUE,  conn |-> "bad"]
  BY <1>6
<1> QED
  BY <1>2, <1>3, <1>4, <1>5, <1>6

(* What a statement does to the backup file and its stream.                *)
LEMMA BackUpEffect ==
  ASSUME TypeOK, NEW o \in Exec, NEW kind \in {"insert", "update"}, NEW s \in Sids,
         BackUp(o, kind, s)
  PROVE  /\ backup \subseteq backup' /\ backup' \subseteq Statements
         /\ out' \in {"open", "failed"}
         /\ out' = "open" => out = "open"
         /\ out' = "open" /\ ~o.done => <<kind, s>> \in backup'
<1>1. <<kind, s>> \in Statements
  BY DEF Statements
<1>2. CASE o.ret < 0
  <2>1. Write(kind, s)
    BY <1>2 DEF BackUp
  <2> QED
    BY <1>1, <2>1 DEF Write, TypeOK
<1>3. CASE ~(o.ret < 0)
  <2>1. o.done
    BY <1>3, ExecType
  <2>2. UNCHANGED file
    BY <1>3 DEF BackUp
  <2> QED
    BY <2>1, <2>2 DEF file, TypeOK
<1> QED
  BY <1>2, <1>3

(* What create_session changes keeps its type.                             *)
LEMMA CreateType ==
  ASSUME TypeOK, NEW k \in Keys, CreateSession(k)
  PROVE  /\ made' \in Sids \cup {0}
         /\ table' \in [Keys -> Sids \cup {None}]
         /\ wire' \in [Keys -> Wires]
         /\ pq' \in {"ok", "bad", "deleted"}
         /\ traffic' \in [Sids -> TrafficRows]
         /\ backup' \subseteq Statements /\ out' \in {"open", "failed"}
<1> USE BoundAssumption
<1>1. made + 1 \in Sids
  BY DEF CreateSession, TypeOK, Sids
<1>2. made' \in Sids \cup {0} /\ table' \in [Keys -> Sids \cup {None}]
  BY <1>1 DEF CreateSession, TypeOK
<1>3. [Silent EXCEPT !.owner = made + 1] \in Wires
  BY <1>1 DEF Silent, Wires
<1>4. wire' \in [Keys -> Wires]
  BY <1>3 DEF CreateSession, TypeOK
<1>5. PICK o \in Exec :
         /\ pq' = o.conn
         /\ traffic' = IF o.done THEN [traffic EXCEPT ![made + 1].state = "open"] ELSE traffic
         /\ BackUp(o, "insert", made + 1)
  BY DEF CreateSession
<1>6. pq' \in {"ok", "bad", "deleted"}
  BY <1>5, ExecType
<1>7. traffic' \in [Sids -> TrafficRows]
  BY <1>1, <1>5 DEF TypeOK, TrafficRows
<1>8. backup' \subseteq Statements /\ out' \in {"open", "failed"}
  BY <1>1, <1>5, BackUpEffect
<1> QED
  BY <1>2, <1>4, <1>6, <1>7, <1>8

(* What destroy_session changes keeps its type.                            *)
LEMMA DestroyType ==
  ASSUME TypeOK, NEW k \in Keys, DestroySession(k)
  PROVE  /\ table' \in [Keys -> Sids \cup {None}]
         /\ session' \in [Sids -> SessionRecords]
         /\ inter' \in [Rids -> InterRecords]
         /\ closed' \subseteq Sids
         /\ pq' \in {"ok", "bad", "deleted"}
         /\ traffic' \in [Sids -> TrafficRows]
         /\ backup' \subseteq Statements /\ out' \in {"open", "failed"}
<1> DEFINE s == table[k]
<1>1. CASE s = None
  BY <1>1 DEF DestroySession, TypeOK, file
<1>2. CASE s # None
  <2>1. s \in Sids
    BY <1>2 DEF TypeOK
  <2>2. table' \in [Keys -> Sids \cup {None}] /\ closed' \subseteq Sids
    BY <1>2, <2>1 DEF DestroySession, EraseEntry, TypeOK
  <2>3. session' \in [Sids -> SessionRecords]
    BY <1>2, <2>1, ConstantTypes DEF DestroySession, TypeOK
  <2>4. inter' \in [Rids -> InterRecords]
    BY <1>2, <2>1, ConstantTypes DEF DestroySession, FreeInteractions, TypeOK
  <2>5. PICK o \in Exec :
           /\ pq' = o.conn
           /\ traffic' = IF o.done /\ traffic[s].state # "none"
                         THEN [traffic EXCEPT ![s] =
                                 [state |-> "ended", account |-> session[s].account]]
                         ELSE traffic
           /\ BackUp(o, "update", s)
    BY <1>2 DEF DestroySession
  <2>6. pq' \in {"ok", "bad", "deleted"}
    BY <2>5, ExecType
  <2>7. [state |-> "ended", account |-> session[s].account] \in TrafficRows
    BY <2>1 DEF TypeOK, SessionRecords, TrafficRows
  <2>8. traffic' \in [Sids -> TrafficRows]
    BY <2>1, <2>5, <2>7 DEF TypeOK
  <2>9. backup' \subseteq Statements /\ out' \in {"open", "failed"}
    BY <2>1, <2>5, BackUpEffect
  <2> QED
    BY <2>2, <2>3, <2>4, <2>6, <2>8, <2>9
<1> QED
  BY <1>1, <1>2

(* What a new request changes keeps its type.                              *)
LEMMA RequestType ==
  ASSUME TypeOK, NEW k \in Keys, table[k] # None,
         NEW no \in Rids, NEW req \in ParsedRequests, NewRequest(k, no, req)
  PROVE  /\ asked' \in Rids \cup {0}
         /\ inter' \in [Rids -> InterRecords]
         /\ session' \in [Sids -> SessionRecords]
         /\ pq' \in {"ok", "bad", "deleted"}
         /\ reqrow' \in [Rids -> RequestRows]
<1> USE BoundAssumption
<1> DEFINE s == table[k]
           r == asked + 1
           login == MatchAllRule(req)
<1>1. s \in Sids /\ r \in Rids
  BY DEF NewRequest, TypeOK, Sids, Rids
<1>2. req.account \in Accounts \cup {NoAccount} /\ req.body \in BOOLEAN
  <2>1. CASE req = [body |-> FALSE, account |-> NoAccount]
    BY <2>1
  <2>2. CASE req \in [body : {TRUE}, account : Accounts \cup {NoAccount}]
    BY <2>2
  <2> QED
    BY <2>1, <2>2 DEF ParsedRequests
<1>3. login \in Accounts \cup {NoAccount}
  BY <1>2 DEF MatchAllRule
<1>4. asked' \in Rids \cup {0}
  BY <1>1, <1>2 DEF NewRequest, TypeOK
<1>5. no \in Nat /\ wire[k].owner \in Sids \cup {None}
  BY DEF TypeOK, Wires, Rids
<1>6. /\ inter' = [inter EXCEPT ![r] =
                     [live |-> TRUE, no |-> no, account |-> login, resp |-> 0]]
      /\ session' = [session EXCEPT ![s] =
                       [account |-> LoginAccount(session[s].account, login),
                        inters  |-> Append(session[s].inters, r)]]
  BY <1>1 DEF NewRequest, CreateInteraction, TypeOK
<1> HIDE DEF login
<1>7. inter' \in [Rids -> InterRecords]
  BY <1>1, <1>5, <1>6, <1>3 DEF TypeOK, InterRecords
<1>8. session' \in [Sids -> SessionRecords]
  <2>1. session[s].inters \in Seq(Rids) /\ session[s].account \in Accounts \cup {NoAccount}
    BY <1>1 DEF TypeOK, SessionRecords
  <2>2. Append(session[s].inters, r) \in Seq(Rids)
    BY <1>1, <2>1
  <2>3. LoginAccount(session[s].account, login) \in Accounts \cup {NoAccount}
    BY <1>3, <2>1 DEF LoginAccount
  <2>4. [account |-> LoginAccount(session[s].account, login),
         inters  |-> Append(session[s].inters, r)] \in SessionRecords
    BY <2>2, <2>3 DEF SessionRecords
  <2> QED
    BY <1>1, <1>6, <2>4 DEF TypeOK
<1>9. PICK o \in Exec :
         /\ pq' = o.conn
         /\ reqrow' = IF o.done
                      THEN [reqrow EXCEPT ![r] = [sid |-> s, conn |-> wire[k].owner]]
                      ELSE reqrow
  BY DEF NewRequest, InsertRequest
<1>10. pq' \in {"ok", "bad", "deleted"} /\ reqrow' \in [Rids -> RequestRows]
  BY <1>1, <1>5, <1>9, ExecType DEF TypeOK, RequestRows
<1> QED
  BY <1>4, <1>7, <1>8, <1>10

(* What a new response changes keeps its type.                             *)
LEMMA ResponseType ==
  ASSUME TypeOK, NEW k \in Keys, table[k] # None, NEW n \in Nat, FirstResponse(k, n)
  PROVE  /\ inter' \in [Rids -> InterRecords]
         /\ pq' \in {"ok", "bad", "deleted"}
<1> DEFINE his == session[table[k]].inters
           i == Latest(his)
<1>1. his \in Seq(Rids)
  BY DEF TypeOK, SessionRecords
<1>2. CASE his = <<>>
  BY <1>2 DEF FirstResponse, TypeOK
<1>3. CASE his # <<>>
  <2>1. i \in Rids
    BY <1>1, <1>3, LenProperties DEF Latest
  <2>2. inter' \in [Rids -> InterRecords]
    <3>1. inter' = [inter EXCEPT ![i].resp = n] /\ inter[i] \in InterRecords
      BY <1>3, <2>1 DEF FirstResponse, TypeOK
    <3>2. [inter[i] EXCEPT !.resp = n] \in InterRecords
      BY <3>1 DEF InterRecords
    <3> QED
      BY <2>1, <3>1, <3>2 DEF TypeOK
  <2>3. pq' \in {"ok", "bad", "deleted"}
    BY <1>3, ExecType DEF FirstResponse
  <2> QED
    BY <2>2, <2>3
<1> QED
  BY <1>2, <1>3

LEMMA TypeStep ==
  ASSUME TypeOK, TrackedWhileOpen, [Next]_vars
  PROVE  TypeOK'
<1>1. ASSUME NEW k \in Keys, JustEst(k)
      PROVE  TypeOK'
  <2>1. CASE k \in WebKeys
    BY <1>1, <2>1, CreateType DEF JustEst, CreateSession, TypeOK
  <2>2. CASE k \notin WebKeys
    BY <1>1, <2>2 DEF JustEst, vars, volatile, database, file, TypeOK
  <2> QED
    BY <2>1, <2>2
<1>2. ASSUME NEW k \in Keys, DataFromClient(k)
      PROVE  TypeOK'
  <2>1. PICK no \in Rids, last \in Rids :
           /\ wire' = [wire EXCEPT ![k].sent = last]
           /\ \/ /\ table[k] # None
                 /\ \E req \in ParsedRequests : NewRequest(k, no, req)
              \/ UNCHANGED <<asked, inter, session, pq, reqrow>>
    BY <1>2 DEF DataFromClient
  <2>2. wire' \in [Keys -> Wires]
    <3>1. last \in Nat
      BY DEF Rids
    <3>2. [wire[k] EXCEPT !.sent = last] \in Wires
      BY <3>1 DEF TypeOK, Wires
    <3> QED
      BY <2>1, <3>2 DEF TypeOK
  <2>3. UNCHANGED <<proc, stream, table, traffic, file, made, closed, expired, runStart>>
    BY <1>2 DEF DataFromClient
  <2>4. ASSUME NEW req \in ParsedRequests, table[k] # None, NewRequest(k, no, req)
        PROVE  TypeOK'
    <3>1. /\ asked' \in Rids \cup {0}
          /\ inter' \in [Rids -> InterRecords] /\ session' \in [Sids -> SessionRecords]
          /\ pq' \in {"ok", "bad", "deleted"} /\ reqrow' \in [Rids -> RequestRows]
      BY <2>4, RequestType
    <3> QED
      BY <2>2, <2>3, <3>1 DEF TypeOK, file
  <2>5. CASE UNCHANGED <<asked, inter, session, pq, reqrow>>
    BY <2>2, <2>3, <2>5 DEF TypeOK, file
  <2> QED
    BY <2>1, <2>4, <2>5
<1>3. ASSUME NEW k \in Keys, DataFromServer(k)
      PROVE  TypeOK'
  <2>1. wire[k].answered \in Nat /\ wire[k].sent \in Nat
    BY DEF TypeOK, Wires
  <2>2. PICK n \in (wire[k].answered + 1)..wire[k].sent :
           /\ \E ended \in (n - 1)..wire[k].sent : wire' = [wire EXCEPT ![k].answered = ended]
           /\ \/ table[k] # None /\ FirstResponse(k, n)
              \/ UNCHANGED <<inter, pq>>
    BY <1>3 DEF DataFromServer
  <2>3. n \in Nat /\ \A ended \in (n - 1)..wire[k].sent : ended \in Nat
    BY <2>1
  <2>4. wire' \in [Keys -> Wires]
    BY <2>2, <2>3 DEF TypeOK, Wires
  <2>5. /\ UNCHANGED <<proc, stream, table, session, traffic, reqrow, backup, out, made>>
        /\ UNCHANGED <<asked, closed, expired, runStart>>
    BY <1>3 DEF DataFromServer, file, database
  <2>6. inter' \in [Rids -> InterRecords] /\ pq' \in {"ok", "bad", "deleted"}
    BY <2>2, <2>3, ResponseType DEF TypeOK
  <2> QED
    BY <2>4, <2>5, <2>6 DEF TypeOK
<1>4. ASSUME NEW k \in Keys, CloseOrReset(k)
      PROVE  TypeOK'
  BY <1>4, DestroyType, ConstantTypes DEF CloseOrReset, TypeOK
<1>5. ASSUME NEW k \in Keys, TimedOut(k)
      PROVE  TypeOK'
  <2>1. table[k] \in Sids
    BY <1>5 DEF TimedOut, TrackedWhileOpen, TypeOK
  <2> QED
    BY <1>5, <2>1, ConstantTypes DEF TimedOut, TypeOK, file
<1>7. CASE Down
  BY <1>7, ConstantTypes DEF Down, database, file, TypeOK
<1>8. CASE Restart
  BY <1>8 DEF Restart, volatile, database, TypeOK
<1>9. CASE UNCHANGED vars
  BY <1>9 DEF vars, volatile, database, file, TypeOK
<1> QED
  BY <1>1, <1>2, <1>3, <1>4, <1>5, <1>7, <1>8, <1>9 DEF Next

-----------------------------------------------------------------------------
(* What the operations of httpSession do to the rows and the backup file.  *)

LEMMA CreateEffect ==
  ASSUME TypeOK, NEW k \in Keys, CreateSession(k)
  PROVE  /\ made' = made + 1 /\ made + 1 \in Sids
         /\ table' = IF table[k] = None THEN [table EXCEPT ![k] = made + 1] ELSE table
         /\ wire'[k].owner = made + 1
         /\ \A j \in Keys : j # k => wire'[j] = wire[j]
         /\ \A s \in Sids : s # made + 1 => traffic'[s] = traffic[s]
         /\ traffic'[made + 1].state \in {"open", traffic[made + 1].state}
         /\ out' = "open" => out = "open"
         /\ out' = "open" /\ traffic'[made + 1].state = "none" => <<"insert", made + 1>> \in backup'
         /\ backup \subseteq backup'
<1> USE BoundAssumption
<1>1. made' = made + 1 /\ made + 1 \in Sids
  BY DEF CreateSession, TypeOK, Sids
<1>2. wire'[k] = [Silent EXCEPT !.owner = made + 1] /\ \A j \in Keys : j # k => wire'[j] = wire[j]
  BY DEF CreateSession, TypeOK
<1>3. wire'[k].owner = made + 1
  BY <1>2 DEF Silent
<1>4. PICK o \in Exec :
         /\ traffic' = IF o.done THEN [traffic EXCEPT ![made + 1].state = "open"] ELSE traffic
         /\ BackUp(o, "insert", made + 1)
  BY DEF CreateSession
<1>5. /\ \A s \in Sids : s # made + 1 => traffic'[s] = traffic[s]
      /\ traffic'[made + 1].state = IF o.done THEN "open" ELSE traffic[made + 1].state
  BY <1>1, <1>4 DEF TypeOK, TrafficRows
<1>6. /\ backup \subseteq backup' /\ (out' = "open" => out = "open")
      /\ out' = "open" /\ ~o.done => <<"insert", made + 1>> \in backup'
  BY <1>1, <1>4, BackUpEffect
<1> QED
  BY <1>1, <1>2, <1>3, <1>5, <1>6 DEF CreateSession

LEMMA DestroyEffect ==
  ASSUME TypeOK, NEW k \in Keys, table[k] # None, DestroySession(k)
  PROVE  /\ table' = [table EXCEPT ![k] = None]
         /\ closed' = closed \cup {table[k]}
         /\ \A s \in Sids : s # table[k] => traffic'[s] = traffic[s]
         /\ traffic[table[k]].state = "none" => traffic'[table[k]] = traffic[table[k]]
         /\ \/ traffic'[table[k]].state = "ended"
            \/ out' = "open" => <<"update", table[k]>> \in backup'
            \/ traffic[table[k]].state = "none"
         /\ out' = "open" => out = "open"
         /\ backup \subseteq backup'
<1> DEFINE s == table[k]
<1>1. s \in Sids
  BY DEF TypeOK
<1>2. PICK o \in Exec :
         /\ traffic' = IF o.done /\ traffic[s].state # "none"
                       THEN [traffic EXCEPT ![s] =
                               [state |-> "ended", account |-> session[s].account]]
                       ELSE traffic
         /\ BackUp(o, "update", s)
  BY DEF DestroySession
<1>3. /\ \A t \in Sids : t # s => traffic'[t] = traffic[t]
      /\ traffic[s].state = "none" => traffic'[s] = traffic[s]
      /\ o.done /\ traffic[s].state # "none" => traffic'[s].state = "ended"
  BY <1>1, <1>2 DEF TypeOK
<1>4. /\ backup \subseteq backup' /\ (out' = "open" => out = "open")
      /\ out' = "open" /\ ~o.done => <<"update", s>> \in backup'
  BY <1>1, <1>2, BackUpEffect
<1>5. table' = [table EXCEPT ![k] = None] /\ closed' = closed \cup {s}
  BY DEF DestroySession, EraseEntry
<1>6. o.done \in BOOLEAN
  BY ExecType
<1> QED
  BY <1>3, <1>4, <1>5, <1>6

LEMMA RequestEffect ==
  ASSUME TypeOK, NEW k \in Keys, table[k] # None, NEW no, NEW req, NewRequest(k, no, req),
         NEW q \in Rids
  PROVE  \/ reqrow'[q] = reqrow[q]
         \/ reqrow'[q].sid = table[k] /\ reqrow'[q].conn = wire[k].owner
<1> DEFINE row == [sid |-> table[k], conn |-> wire[k].owner]
<1>1. reqrow' = [reqrow EXCEPT ![asked + 1] = row] \/ reqrow' = reqrow
  BY DEF NewRequest, InsertRequest
<1>2. row.sid = table[k] /\ row.conn = wire[k].owner
  OBVIOUS
<1> HIDE DEF row
<1>3. reqrow'[q] = reqrow[q] \/ reqrow'[q] = row
  BY <1>1 DEF TypeOK
<1> QED
  BY <1>2, <1>3

-----------------------------------------------------------------------------
(* The strengthening: session numbers are given out in order, a session in *)
(* the table is not closed and in one entry only, an entry without a       *)
(* connection belongs to a session that timed out, and an ended row        *)
(* belongs to a closed session.                                            *)

Numbered ==
    /\ runStart \in 0..made
    /\ \A k \in Keys : table[k] <= made
    /\ \A s \in closed : s <= made

TableOpen ==
    /\ \A k \in Keys : table[k] \notin closed
    /\ \A j, k \in Keys : j # k /\ table[j] # None => table[j] # table[k]

StaleExpired ==
    \A k \in Keys : stream[k] = "none" /\ table[k] # None => table[k] \in expired

EndedClosed == \A s \in Sids : traffic[s].state = "ended" => s \in closed

Linked == Numbered /\ TableOpen /\ StaleExpired /\ EndedClosed

IInv ==
    /\ TypeOK /\ TrackedWhileOpen /\ Linked
    /\ InsertRecorded /\ EndRecorded /\ RowAttribution

LEMMA InitIInv ==
  ASSUME Init
  PROVE  IInv
<1> USE BoundAssumption
<1>1. TypeOK
  BY ConstantTypes DEF Init, TypeOK, Sids, Rids, None
<1>2. TrackedWhileOpen /\ StaleExpired /\ TableOpen /\ EndedClosed
  BY DEF Init, TrackedWhileOpen, StaleExpired, TableOpen, EndedClosed, None, NoRow
<1>3. Numbered
  BY DEF Init, Numbered, None
<1>4. InsertRecorded /\ EndRecorded /\ RowAttribution
  BY DEF Init, InsertRecorded, EndRecorded, RowAttribution, NoRequest
<1> QED
  BY <1>1, <1>2, <1>3, <1>4 DEF IInv, Linked

LEMMA JustEstStep ==
  ASSUME IInv, TypeOK', NEW k \in Keys, JustEst(k), k \in WebKeys
  PROVE  IInv'
<1> USE DEF IInv, Linked
<1>1. /\ made' = made + 1 /\ made + 1 \in Sids
      /\ table' = IF table[k] = None THEN [table EXCEPT ![k] = made + 1] ELSE table
      /\ wire'[k].owner = made + 1
      /\ \A j \in Keys : j # k => wire'[j] = wire[j]
      /\ \A s \in Sids : s # made + 1 => traffic'[s] = traffic[s]
      /\ traffic'[made + 1].state \in {"open", traffic[made + 1].state}
      /\ out' = "open" => out = "open"
      /\ out' = "open" /\ traffic'[made + 1].state = "none" => <<"insert", made + 1>> \in backup'
      /\ backup \subseteq backup'
  BY CreateEffect DEF JustEst
<1>2. /\ stream[k] = "none" /\ stream' = [stream EXCEPT ![k] = "est"]
      /\ UNCHANGED <<proc, runStart, session, inter, reqrow, asked, closed, expired>>
  BY DEF JustEst, CreateSession
<1>3. made \in Nat /\ \A j \in Keys : table[j] \in Sids \cup {None}
  BY BoundAssumption DEF TypeOK, Sids
<1>4. \A j \in Keys : table'[j] = IF j = k /\ table[k] = None THEN made + 1 ELSE table[j]
  BY <1>1 DEF TypeOK
<1>5. Numbered'
  <2>1. \A s \in closed : s \in Nat /\ s <= made
    BY DEF Numbered, TypeOK, Sids
  <2>2. runStart \in 0..made /\ \A j \in Keys : table[j] \in Nat /\ table[j] <= made
    BY <1>3 DEF Numbered, Sids, None
  <2>3. \A j \in Keys : table'[j] <= made + 1
    BY <1>3, <1>4, <2>2
  <2>4. \A s \in closed : s <= made + 1
    BY <1>3, <2>1
  <2>5. runStart \in 0..(made + 1)
    BY <1>3, <2>2
  <2> QED
    BY <1>1, <1>2, <2>3, <2>4, <2>5 DEF Numbered
<1>6. made + 1 \notin closed /\ \A j \in Keys : table[j] # made + 1
  BY <1>3 DEF Numbered, TypeOK, Sids
<1>7. TableOpen'
  BY <1>2, <1>4, <1>6 DEF TableOpen
<1>8. TrackedWhileOpen' /\ StaleExpired'
  <2>1. \A j \in Keys : stream'[j] = IF j = k THEN "est" ELSE stream[j]
    BY <1>2 DEF TypeOK
  <2>2. made + 1 # None
    BY <1>3 DEF None
  <2>3. table[k] # None => table[k] \in expired
    BY <1>2 DEF StaleExpired
  <2>4. TrackedWhileOpen'
    BY <1>1, <1>2, <1>4, <2>1, <2>2, <2>3 DEF TrackedWhileOpen
  <2>5. StaleExpired'
    BY <1>2, <1>4, <2>1 DEF StaleExpired
  <2> QED
    BY <2>4, <2>5
<1>9. EndedClosed'
  <2>1. ASSUME NEW s \in Sids, traffic'[s].state = "ended"
        PROVE  traffic[s].state = "ended"
    <3>1. CASE s = made + 1
      <4>1. traffic'[s].state = "open" \/ traffic'[s].state = traffic[s].state
        BY <1>1, <3>1
      <4> QED
        BY <2>1, <4>1
    <3>2. CASE s # made + 1
      BY <1>1, <2>1, <3>2
    <3> QED
      BY <3>1, <3>2
  <2> QED
    BY <1>2, <2>1 DEF EndedClosed
<1>10. InsertRecorded'
  <2>1. ASSUME proc' = "up", out' = "open", NEW s \in (runStart' + 1)..made'
        PROVE  traffic'[s].state # "none" \/ <<"insert", s>> \in backup'
    <3>1. CASE s = made + 1
      BY <1>1, <2>1, <3>1
    <3>2. CASE s # made + 1
      <4>1. s \in (runStart + 1)..made /\ s \in Sids
        <5>1. s \in (runStart + 1)..(made + 1) /\ runStart \in 0..made
          BY <1>1, <1>2, <2>1 DEF Numbered
        <5> QED
          BY <1>3, <3>2, <5>1, BoundAssumption DEF TypeOK, Sids
      <4> QED
        BY <1>1, <1>2, <2>1, <3>2, <4>1 DEF InsertRecorded
    <3> QED
      BY <3>1, <3>2
  <2> QED
    BY <2>1 DEF InsertRecorded
<1>11. EndRecorded'
  <2>1. \A s \in closed : s \in Sids /\ s # made + 1
    BY <1>6 DEF TypeOK
  <2> QED
    BY <1>1, <1>2, <2>1 DEF EndRecorded
<1>12. RowAttribution'
  BY <1>2 DEF RowAttribution
<1> QED
  BY <1>5, <1>7, <1>8, <1>9, <1>10, <1>11, <1>12

(* The data callbacks touch neither the table nor the session rows.        *)
LEMMA DataStep ==
  ASSUME IInv, TypeOK', NEW k \in Keys, DataFromClient(k) \/ DataFromServer(k)
  PROVE  IInv'
<1> USE DEF IInv, Linked
<1>1. /\ UNCHANGED <<proc, stream, table, traffic, backup, out, made, closed, expired, runStart>>
      /\ stream[k] = "est"
  BY DEF DataFromClient, DataFromServer, file, database
<1>2. \A j \in Keys : wire'[j].owner = wire[j].owner
  BY DEF DataFromClient, DataFromServer, TypeOK, Wires
<1>3. Linked'
  BY <1>1 DEF Numbered, TableOpen, StaleExpired, EndedClosed
<1>4. TrackedWhileOpen'
  BY <1>1, <1>2 DEF TrackedWhileOpen
<1>5. InsertRecorded' /\ EndRecorded'
  BY <1>1 DEF InsertRecorded, EndRecorded
<1>6. ASSUME NEW q \in Rids
      PROVE  \/ reqrow'[q].sid = reqrow[q].sid /\ reqrow'[q].conn = reqrow[q].conn
             \/ reqrow'[q].sid = table[k] /\ reqrow'[q].conn = wire[k].owner
  <2>1. CASE DataFromClient(k)
    BY <2>1, RequestEffect DEF DataFromClient
  <2>2. CASE DataFromServer(k)
    BY <2>2 DEF DataFromServer, database
  <2> QED
    BY <2>1, <2>2
<1>7. RowAttribution'
  BY <1>1, <1>6 DEF RowAttribution, TrackedWhileOpen
<1> QED
  BY <1>3, <1>4, <1>5, <1>7

LEMMA CloseStep ==
  ASSUME IInv, TypeOK', NEW k \in Keys, CloseOrReset(k)
  PROVE  IInv'
<1> USE DEF IInv, Linked
<1>1. /\ proc = "up" /\ stream[k] = "est" /\ stream' = [stream EXCEPT ![k] = "none"]
      /\ wire' = [wire EXCEPT ![k] = Silent]
      /\ UNCHANGED <<proc, reqrow, made, asked, expired, runStart>>
      /\ DestroySession(k)
  BY DEF CloseOrReset
<1> DEFINE s == table[k]
<1>2. s # None /\ s \in Sids
  BY <1>1 DEF TrackedWhileOpen, TypeOK
<1>3. /\ table' = [table EXCEPT ![k] = None]
      /\ closed' = closed \cup {s}
      /\ \A t \in Sids : t # s => traffic'[t] = traffic[t]
      /\ traffic[s].state = "none" => traffic'[s] = traffic[s]
      /\ \/ traffic'[s].state = "ended"
         \/ out' = "open" => <<"update", s>> \in backup'
         \/ traffic[s].state = "none"
      /\ out' = "open" => out = "open"
      /\ backup \subseteq backup'
  BY <1>1, <1>2, DestroyEffect
<1>4. \A j \in Keys : /\ table'[j] = IF j = k THEN None ELSE table[j]
                      /\ stream'[j] = IF j = k THEN "none" ELSE stream[j]
                      /\ wire'[j] = IF j = k THEN Silent ELSE wire[j]
  BY <1>1, <1>3 DEF TypeOK
<1>5. made \in Nat /\ runStart \in 0..made
  BY BoundAssumption DEF TypeOK, Sids, Numbered
<1>6. Numbered'
  BY <1>1, <1>3, <1>4, <1>5 DEF Numbered, None
<1>7. TableOpen'
  <2>1. None \notin closed'
    BY <1>2, <1>3 DEF TypeOK, Sids, None
  <2> QED
    BY <1>2, <1>3, <1>4, <2>1 DEF TableOpen
<1>8. StaleExpired' /\ TrackedWhileOpen'
  BY <1>1, <1>4 DEF StaleExpired, TrackedWhileOpen
<1>9. EndedClosed'
  BY <1>3 DEF EndedClosed
<1>10. InsertRecorded'
  <2>1. ASSUME out' = "open", NEW t \in (runStart + 1)..made
        PROVE  traffic'[t].state # "none" \/ <<"insert", t>> \in backup'
    <3>1. t \in Sids
      BY <1>5, BoundAssumption DEF TypeOK, Sids
    <3>2. traffic[t].state # "none" \/ <<"insert", t>> \in backup
      BY <1>1, <1>3, <2>1 DEF InsertRecorded
    <3>3. CASE t # s
      BY <1>3, <3>1, <3>2, <3>3
    <3>4. CASE t = s
      <4>1. traffic[s].state # "none" => traffic'[s].state # "none"
        BY <1>1, <1>2 DEF DestroySession, TypeOK
      <4> QED
        BY <1>3, <3>2, <3>4, <4>1
    <3> QED
      BY <3>3, <3>4
  <2> QED
    BY <1>1, <2>1 DEF InsertRecorded
<1>11. EndRecorded'
  <2>1. ASSUME out' = "open", NEW t \in closed', t > runStart
        PROVE  \/ traffic'[t].state = "ended"
               \/ <<"update", t>> \in backup'
               \/ traffic'[t].state = "none" /\ <<"insert", t>> \in backup'
    <3>1. CASE t # s
      <4>1. t \in closed /\ t \in Sids
        BY <1>3, <3>1 DEF TypeOK
      <4> QED
        BY <1>3, <2>1, <3>1, <4>1 DEF EndRecorded
    <3>2. CASE t = s
      <4>1. t \in (runStart + 1)..made
        BY <1>2, <1>5, <2>1, <3>2 DEF Numbered, Sids
      <4>2. traffic[s].state # "none" \/ <<"insert", s>> \in backup
        BY <1>1, <1>3, <2>1, <3>2, <4>1 DEF InsertRecorded
      <4> QED
        BY <1>3, <2>1, <3>2, <4>2
    <3> QED
      BY <3>1, <3>2
  <2> QED
    BY <1>1, <2>1 DEF EndRecorded
<1>12. RowAttribution'
  BY <1>1 DEF RowAttribution
<1> QED
  BY <1>6, <1>7, <1>8, <1>9, <1>10, <1>11, <1>12

LEMMA IInvStep ==
  ASSUME IInv, [Next]_vars
  PROVE  IInv'
<1> USE DEF IInv, Linked
<1>1. TypeOK'
  BY TypeStep
<1>2. ASSUME NEW k \in Keys, JustEst(k)
      PROVE  IInv' \/ UNCHANGED vars
  BY <1>1, <1>2, JustEstStep DEF JustEst
<1>3. ASSUME NEW k \in Keys, DataFromClient(k) \/ DataFromServer(k)
      PROVE  IInv'
  BY <1>1, <1>3, DataStep
<1>4. ASSUME NEW k \in Keys, CloseOrReset(k)
      PROVE  IInv'
  BY <1>1, <1>4, CloseStep
<1>5. ASSUME NEW k \in Keys, TimedOut(k)
      PROVE  IInv'
  <2>1. \A j \in Keys : /\ stream'[j] = IF j = k THEN "none" ELSE stream[j]
                        /\ wire'[j] = IF j = k THEN Silent ELSE wire[j]
    BY <1>5 DEF TimedOut, TypeOK
  <2>2. /\ expired' = expired \cup {table[k]}
        /\ UNCHANGED <<proc, table, traffic, reqrow, backup, out, made, closed, runStart>>
    BY <1>5 DEF TimedOut, file
  <2>3. TrackedWhileOpen' /\ StaleExpired' /\ RowAttribution'
    BY <2>1, <2>2 DEF TrackedWhileOpen, StaleExpired, RowAttribution
  <2>4. Numbered' /\ TableOpen' /\ EndedClosed' /\ InsertRecorded' /\ EndRecorded'
    BY <2>2 DEF Numbered, TableOpen, EndedClosed, InsertRecorded, EndRecorded
  <2> QED
    BY <1>1, <2>3, <2>4
<1>6. CASE UNCHANGED vars
  <2>1. TrackedWhileOpen' /\ StaleExpired' /\ RowAttribution'
    BY <1>6 DEF TrackedWhileOpen, StaleExpired, RowAttribution, vars, volatile, database
  <2>2. Numbered' /\ TableOpen' /\ EndedClosed' /\ InsertRecorded' /\ EndRecorded'
    BY <1>6 DEF Numbered, TableOpen, EndedClosed, InsertRecorded, EndRecorded,
                vars, volatile, database, file
  <2> QED
    BY <1>1, <2>1, <2>2
<1>8. CASE Down
  <2>1. /\ \A k \in Keys : stream'[k] = "none" /\ table'[k] = None
        /\ proc' = "down"
        /\ UNCHANGED <<traffic, reqrow, backup, out, made, closed, expired, runStart>>
    BY <1>8 DEF Down, database, file
  <2>2. made \in Nat /\ None \notin closed
    BY BoundAssumption DEF TypeOK, Sids, None
  <2>3. TrackedWhileOpen' /\ StaleExpired' /\ RowAttribution'
    BY <2>1 DEF TrackedWhileOpen, StaleExpired, RowAttribution
  <2>4. Numbered' /\ TableOpen' /\ EndedClosed'
    BY <2>1, <2>2 DEF Numbered, TableOpen, EndedClosed, None
  <2>5. InsertRecorded' /\ EndRecorded'
    BY <2>1 DEF InsertRecorded, EndRecorded
  <2> QED
    BY <1>1, <2>3, <2>4, <2>5
<1>9. CASE Restart
  <2>1. /\ UNCHANGED <<stream, table, wire, traffic, reqrow, made, closed, expired>>
        /\ runStart' = made
    BY <1>9 DEF Restart, volatile, database
  <2>2. made \in Nat /\ \A s \in closed : s \in Nat /\ s <= made
    BY BoundAssumption DEF TypeOK, Sids, Numbered
  <2>3. TrackedWhileOpen' /\ StaleExpired' /\ RowAttribution'
    BY <2>1 DEF TrackedWhileOpen, StaleExpired, RowAttribution
  <2>4. Numbered' /\ TableOpen' /\ EndedClosed'
    BY <2>1, <2>2 DEF Numbered, TableOpen, EndedClosed
  <2>5. InsertRecorded' /\ EndRecorded'
    BY <2>1, <2>2 DEF InsertRecorded, EndRecorded
  <2> QED
    BY <1>1, <2>3, <2>4, <2>5
<1> QED
  BY <1>2, <1>3, <1>4, <1>5, <1>6, <1>8, <1>9 DEF Next

-----------------------------------------------------------------------------
(* The results.                                                            *)

(* Every variable of the live path keeps its type, through any order of    *)
(* libnids events, failures of PQ::exec and restarts.                      *)
THEOREM TypeCorrect == Spec => []TypeOK
<1>1. IInv => TypeOK
  BY DEF IInv
<1> QED
  BY <1>1, InitIInv, IInvStep, PTL DEF Spec

(* While libnids follows a connection, _session_table has an entry for it: *)
(* its own, or that of a session that timed out on the same four-tuple.    *)
THEOREM TrackedCorrect == Spec => []TrackedWhileOpen
<1>1. IInv => TrackedWhileOpen
  BY DEF IInv
<1> QED
  BY <1>1, InitIInv, IInvStep, PTL DEF Spec

(* create_session loses no session of this run, row or backup file, before *)
(* the stream of the backup file fails.                                    *)
THEOREM InsertCorrect == Spec => []InsertRecorded
<1>1. IInv => InsertRecorded
  BY DEF IInv
<1> QED
  BY <1>1, InitIInv, IInvStep, PTL DEF Spec

(* destroy_session loses no end before the stream fails, except where the  *)
(* UPDATE found no row because the INSERT had gone to the backup file.     *)
THEOREM EndCorrect == Spec => []EndRecorded
<1>1. IInv => EndRecorded
  BY DEF IInv
<1> QED
  BY <1>1, InitIInv, IInvStep, PTL DEF Spec

(* insert_value_into_requesttable attributes a request to the connection   *)
(* that carried it, unless that four-tuple had timed out before.           *)
THEOREM AttributionCorrect == Spec => []RowAttribution
<1>1. IInv => RowAttribution
  BY DEF IInv
<1> QED
  BY <1>1, InitIInv, IInvStep, PTL DEF Spec

LEMMA EndedStep ==
  ASSUME IInv, [Next]_vars, NEW s \in Sids, traffic[s].state = "ended"
  PROVE  /\ traffic'[s] = traffic[s]
         /\ \A r \in Rids : reqrow'[r].sid = s => reqrow[r].sid = s
<1> USE DEF IInv, Linked
<1>1. s \in closed /\ s <= made /\ \A k \in Keys : table[k] # s
  BY DEF EndedClosed, Numbered, TableOpen
<1>2. made \in Nat /\ s # made + 1 /\ s # None
  BY <1>1, BoundAssumption DEF TypeOK, Sids, None
<1>3. ASSUME NEW k \in Keys, JustEst(k)
      PROVE  traffic'[s] = traffic[s] /\ reqrow' = reqrow
  <2>1. CASE k \in WebKeys
    BY <1>2, <1>3, <2>1, CreateEffect DEF JustEst, CreateSession
  <2>2. CASE k \notin WebKeys
    BY <1>3, <2>2 DEF JustEst, vars, database
  <2> QED
    BY <2>1, <2>2
<1>4. ASSUME NEW k \in Keys, DataFromClient(k)
      PROVE  /\ traffic' = traffic
             /\ \A r \in Rids : reqrow'[r].sid = reqrow[r].sid \/ reqrow'[r].sid = table[k]
  BY <1>4, RequestEffect DEF DataFromClient
<1>5. ASSUME NEW k \in Keys, DataFromServer(k)
      PROVE  traffic' = traffic /\ \A r \in Rids : reqrow'[r].sid = reqrow[r].sid
  BY <1>5 DEF DataFromServer, database
<1>6. ASSUME NEW k \in Keys, CloseOrReset(k)
      PROVE  traffic'[s] = traffic[s] /\ reqrow' = reqrow
  <2>1. table[k] # None /\ DestroySession(k) /\ reqrow' = reqrow
    BY <1>6 DEF CloseOrReset, TrackedWhileOpen
  <2> QED
    BY <1>1, <2>1, DestroyEffect
<1>7. ASSUME NEW k \in Keys, TimedOut(k)
      PROVE  traffic' = traffic /\ reqrow' = reqrow
  BY <1>7 DEF TimedOut
<1>8. ASSUME Down \/ Restart \/ UNCHANGED vars
      PROVE  traffic' = traffic /\ reqrow' = reqrow
  BY <1>8 DEF Down, Restart, vars, database
<1> QED
  BY <1>1, <1>3, <1>4, <1>5, <1>6, <1>7, <1>8 DEF Next

(* After destroy_session wrote the end time of a row, nothing more is      *)
(* attributed to it and it is not ended again.                             *)
THEOREM EndedTheorem == Spec => NoRowsAfterEnd
<1>1. ASSUME IInv, [Next]_vars
      PROVE  \A s \in Sids : traffic[s].state = "ended" =>
                /\ traffic'[s] = traffic[s]
                /\ \A r \in Rids : reqrow'[r].sid = s => reqrow[r].sid = s
  BY <1>1, EndedStep
<1> QED
  BY <1>1, InitIInv, IInvStep, PTL DEF Spec, NoRowsAfterEnd

-----------------------------------------------------------------------------
(* The lists of interactions, for any connections and numbers of requests. *)

His(s) == session[s].inters

(* Lists hold interactions that were made, no interaction stands twice in  *)
(* the lists, a session outside the table has none, and what is allocated  *)
(* is what stands in a list.                                               *)
ListInv ==
    /\ \A s \in Sids : \A n \in DOMAIN His(s) : His(s)[n] <= asked
    /\ \A s, t \in Sids : \A m \in DOMAIN His(s), n \in DOMAIN His(t) :
          His(s)[m] = His(t)[n] => s = t /\ m = n
    /\ \A s \in Sids : His(s) # <<>> => \E k \in Keys : table[k] = s
    /\ \A s \in Sids : \A n \in DOMAIN His(s) : inter[His(s)[n]].live
    /\ \A r \in Rids : inter[r].live => \E s \in Sids : \E n \in DOMAIN His(s) : His(s)[n] = r

(* The account of a session is that of the last interaction that has one.  *)
AccountInv ==
    \A s \in Sids :
        \/ /\ session[s].account = NoAccount
           /\ \A n \in DOMAIN His(s) : inter[His(s)[n]].account = NoAccount
        \/ \E n \in DOMAIN His(s) :
              /\ inter[His(s)[n]].account # NoAccount
              /\ session[s].account = inter[His(s)[n]].account
              /\ \A m \in DOMAIN His(s) : m > n => inter[His(s)[m]].account = NoAccount

(* Requests and responses are numbered by what travelled on connection k.  *)
Paired(k) ==
    /\ wire[k].answered <= wire[k].sent
    /\ wire[k].sent <= wire[k].answered + MaxOutstanding
    /\ stream[k] = "est" /\ table[k] \notin expired =>
          \A n \in DOMAIN His(table[k]) :
              LET i == inter[His(table[k])[n]] IN
              /\ i.no <= wire[k].sent /\ i.resp <= wire[k].sent
              /\ i.resp # 0 =>
                    /\ i.no < i.resp + MaxOutstanding
                    /\ \A m \in DOMAIN His(table[k]) : m > n => inter[His(table[k])[m]].no >= i.resp

PairInv == \A k \in Keys : Paired(k)

-----------------------------------------------------------------------------
(* What the operations do to the lists.                                    *)

LEMMA HisType ==
  ASSUME TypeOK, NEW s \in Sids
  PROVE  /\ His(s) \in Seq(Rids) /\ Len(His(s)) \in Nat /\ DOMAIN His(s) = 1..Len(His(s))
         /\ \A n \in DOMAIN His(s) : His(s)[n] \in Rids
<1>1. His(s) \in Seq(Rids)
  BY DEF His, TypeOK, SessionRecords
<1> QED
  BY <1>1

(* Request no of the session's connection is the new last one of its list.*)
RequestListed(s, no, login) ==
    /\ asked' = asked + 1 /\ asked + 1 \in Rids
    /\ \A t \in Sids : t # s => session'[t] = session[t]
    /\ session'[s].account = LoginAccount(session[s].account, login)
    /\ Len(His(s)') = Len(His(s)) + 1
    /\ DOMAIN His(s)' = 1..(Len(His(s)) + 1)
    /\ \A n \in DOMAIN His(s) : His(s)'[n] = His(s)[n]
    /\ His(s)'[Len(His(s)) + 1] = asked + 1
    /\ \A q \in Rids : q # asked + 1 => inter'[q] = inter[q]
    /\ inter'[asked + 1].live /\ inter'[asked + 1].account = login
    /\ inter'[asked + 1].no = no /\ inter'[asked + 1].resp = 0

LEMMA RequestLists ==
  ASSUME TypeOK, NEW k \in Keys, NEW s \in Sids, table[k] = s,
         NEW no \in Rids, NEW req \in ParsedRequests, NewRequest(k, no, req)
  PROVE  \E login : RequestListed(s, no, login)
<1> DEFINE r == asked + 1
           login == MatchAllRule(req)
           new == [live |-> TRUE, no |-> no, account |-> login, resp |-> 0]
<1>1. r \in Rids /\ asked' = r
  BY BoundAssumption DEF NewRequest, TypeOK, Rids
<1>2. inter' = [inter EXCEPT ![r] = new]
  BY DEF NewRequest, CreateInteraction
<1>3. session' = [session EXCEPT ![s] = [account |-> LoginAccount(session[s].account, login),
                                         inters  |-> Append(session[s].inters, r)]]
  BY DEF NewRequest, TypeOK
<1> HIDE DEF login
<1>4. /\ new.live /\ new.account = login /\ new.no = no /\ new.resp = 0
  OBVIOUS
<1> HIDE DEF new
<1>5. \A q \in Rids : q # r => inter'[q] = inter[q]
  BY <1>2 DEF TypeOK
<1>6. inter'[r] = new
  BY <1>1, <1>2 DEF TypeOK
<1>7. /\ \A t \in Sids : t # s => session'[t] = session[t]
      /\ session'[s].account = LoginAccount(session[s].account, login)
      /\ session'[s].inters = Append(session[s].inters, r)
  BY <1>3 DEF TypeOK
<1>8. session[s].inters \in Seq(Rids)
  BY DEF TypeOK, SessionRecords
<1>9. /\ Len(His(s)') = Len(His(s)) + 1
      /\ DOMAIN His(s)' = 1..(Len(His(s)) + 1)
      /\ \A n \in DOMAIN His(s) : His(s)'[n] = His(s)[n]
      /\ His(s)'[Len(His(s)) + 1] = r
  BY <1>1, <1>7, <1>8 DEF His
<1>10. RequestListed(s, no, login)
  BY <1>1, <1>4, <1>5, <1>6, <1>7, <1>9 DEF RequestListed
<1> QED
  BY <1>10

(* A response changes one interaction of the connection's session, the     *)
(* last, and only its number.                                              *)
LEMMA ResponseLists ==
  ASSUME TypeOK, NEW k \in Keys, NEW s \in Sids, table[k] = s, NEW n \in Nat, FirstResponse(k, n)
  PROVE  \/ inter' = inter
         \/ \E i \in Rids :
               /\ Len(His(s)) \in DOMAIN His(s) /\ i = His(s)[Len(His(s))]
               /\ \A q \in Rids : q # i => inter'[q] = inter[q]
               /\ inter'[i].live = inter[i].live /\ inter'[i].account = inter[i].account
               /\ inter'[i].no = inter[i].no /\ inter'[i].resp = n
<1>1. CASE His(s) = <<>>
  BY <1>1 DEF FirstResponse, His
<1>2. CASE His(s) # <<>>
  <2> DEFINE i == His(s)[Len(His(s))]
  <2>1. Len(His(s)) \in DOMAIN His(s) /\ i \in Rids
    BY <1>2, HisType
  <2>2. inter' = [inter EXCEPT ![i].resp = n]
    BY <1>2 DEF FirstResponse, Latest, His
  <2>3. inter[i] \in InterRecords
    BY <2>1 DEF TypeOK
  <2> HIDE DEF i
  <2>4. /\ \A q \in Rids : q # i => inter'[q] = inter[q]
        /\ inter'[i].live = inter[i].live /\ inter'[i].account = inter[i].account
        /\ inter'[i].no = inter[i].no /\ inter'[i].resp = n
    BY <2>1, <2>2, <2>3 DEF TypeOK, InterRecords
  <2> QED
    BY <2>1, <2>4 DEF i
<1> QED
  BY <1>1, <1>2

LEMMA DestroyLists ==
  ASSUME TypeOK, NEW k \in Keys, NEW s \in Sids, table[k] = s, s # None, DestroySession(k)
  PROVE  /\ table' = [table EXCEPT ![k] = None]
         /\ \A t \in Sids : t # s => session'[t] = session[t]
         /\ session'[s].account = NoAccount /\ His(s)' = <<>>
         /\ \A r \in Rids : (\E n \in DOMAIN His(s) : His(s)[n] = r) => inter'[r] = Freed
         /\ \A r \in Rids : (~ \E n \in DOMAIN His(s) : His(s)[n] = r) => inter'[r] = inter[r]
<1>1. /\ table' = [table EXCEPT ![k] = None]
      /\ session' = [session EXCEPT ![s] = EmptySession]
      /\ inter' = FreeInteractions(s)
  BY DEF DestroySession, EraseEntry
<1> QED
  BY <1>1 DEF FreeInteractions, EmptySession, His, TypeOK
-----------------------------------------------------------------------------
(* The kinds of steps, as the lists see them.                              *)

(* No list changes; a connection may get its table entry.                  *)
Quiet ==
    /\ UNCHANGED <<session, inter, asked>>
    /\ \A k \in Keys : table[k] # None => table'[k] = table[k]

(* The process ends.                                                       *)
Emptied ==
    /\ \A s \in Sids : session'[s].account = NoAccount /\ His(s)' = <<>>
    /\ \A r \in Rids : inter'[r] = Freed

LEMMA ListCases ==
  ASSUME IInv, [Next]_vars
  PROVE  \/ Quiet
         \/ \E k \in Keys, no \in Rids, req \in ParsedRequests :
               DataFromClient(k) /\ table[k] \in Sids /\ NewRequest(k, no, req) /\ table' = table
         \/ \E k \in Keys, n \in Nat :
               /\ DataFromServer(k) /\ table[k] \in Sids /\ FirstResponse(k, n)
               /\ UNCHANGED <<table, session, asked>>
         \/ \E k \in Keys :
               CloseOrReset(k) /\ table[k] \in Sids /\ table[k] # None /\ DestroySession(k) /\ asked' = asked
         \/ Emptied
<1>t. TypeOK
  BY DEF IInv
<1>0. \A k \in Keys : table[k] # None => table[k] \in Sids
  BY <1>t DEF TypeOK
<1>1. ASSUME NEW k \in Keys, JustEst(k)
      PROVE  Quiet
  <2>1. CASE k \in WebKeys
    BY <1>1, <1>t, <2>1, CreateEffect DEF JustEst, CreateSession, Quiet, TypeOK
  <2>2. CASE k \notin WebKeys
    BY <1>1, <2>2 DEF JustEst, vars, volatile, Quiet
  <2> QED
    BY <2>1, <2>2
<1>2. ASSUME NEW k \in Keys, DataFromClient(k)
      PROVE  Quiet \/ \E no \in Rids, req \in ParsedRequests :
                         table[k] \in Sids /\ NewRequest(k, no, req) /\ table' = table
  BY <1>0, <1>2 DEF DataFromClient, Quiet
<1>3. ASSUME NEW k \in Keys, DataFromServer(k)
      PROVE  \/ Quiet
             \/ \E n \in Nat : /\ table[k] \in Sids /\ FirstResponse(k, n)
                               /\ UNCHANGED <<table, session, asked>>
  <2>1. /\ UNCHANGED <<table, session, asked>>
        /\ \/ UNCHANGED inter
           \/ \E n \in (wire[k].answered + 1)..wire[k].sent : table[k] # None /\ FirstResponse(k, n)
    BY <1>3 DEF DataFromServer
  <2>2. \A n \in (wire[k].answered + 1)..wire[k].sent : n \in Nat
    BY <1>t DEF TypeOK, Wires
  <2> QED
    BY <1>0, <2>1, <2>2 DEF Quiet
<1>4. ASSUME NEW k \in Keys, CloseOrReset(k)
      PROVE  table[k] \in Sids /\ table[k] # None /\ DestroySession(k) /\ asked' = asked
  BY <1>0, <1>4 DEF CloseOrReset, IInv, TrackedWhileOpen
<1>5. ASSUME NEW k \in Keys, TimedOut(k)
      PROVE  Quiet
  BY <1>5 DEF TimedOut, Quiet
<1>6. CASE Restart \/ UNCHANGED vars
  BY <1>6 DEF Restart, vars, volatile, Quiet
<1>7. CASE Down
  BY <1>7 DEF Down, Emptied, EmptySession, His
<1> QED
  BY <1>1, <1>2, <1>3, <1>4, <1>5, <1>6, <1>7 DEF Next

-----------------------------------------------------------------------------
(* The lists.                                                              *)

LEMMA ListStep ==
  ASSUME IInv, ListInv, [Next]_vars
  PROVE  ListInv'
<1>t. TypeOK
  BY DEF IInv
<1>0. /\ asked \in Nat
      /\ \A s \in Sids : /\ Len(His(s)) \in Nat /\ DOMAIN His(s) = 1..Len(His(s))
                         /\ \A n \in DOMAIN His(s) : His(s)[n] \in Rids
  BY <1>t, HisType, BoundAssumption DEF TypeOK, Rids
<1>1. CASE Quiet
  <2>1. \A s \in Sids : His(s)' = His(s)
    BY <1>1 DEF Quiet, His
  <2>2. \A s \in Sids : His(s)' # <<>> => \E k \in Keys : table'[k] = s
    <3> SUFFICES ASSUME NEW s \in Sids, His(s) # <<>>
                 PROVE  \E k \in Keys : table'[k] = s
      BY <2>1
    <3>1. PICK k \in Keys : table[k] = s
      BY DEF ListInv
    <3>2. s # None
      BY DEF Sids, None
    <3> QED
      BY <1>1, <3>1, <3>2 DEF Quiet
  <2>3. asked' = asked /\ inter' = inter
    BY <1>1 DEF Quiet
  <2> QED
    BY <2>1, <2>2, <2>3 DEF ListInv
<1>2. ASSUME NEW k \in Keys, NEW no \in Rids, NEW req \in ParsedRequests,
             table[k] \in Sids, NewRequest(k, no, req), table' = table
      PROVE  ListInv'
  <2>1. PICK s \in Sids : table[k] = s
    BY <1>2
  <2> DEFINE r == asked + 1
             e == Len(His(s)) + 1
  <2>0. PICK login : RequestListed(s, no, login)
    BY <1>t, <1>2, <2>1, RequestLists
  <2>2. /\ asked' = r /\ r \in Rids
        /\ \A t \in Sids : t # s => session'[t] = session[t]
        /\ DOMAIN His(s)' = 1..e
        /\ \A n \in DOMAIN His(s) : His(s)'[n] = His(s)[n]
        /\ His(s)'[e] = r
        /\ \A q \in Rids : q # r => inter'[q] = inter[q]
        /\ inter'[r].live
    BY <2>0 DEF RequestListed
  <2>3. \A t \in Sids : t # s => His(t)' = His(t)
    BY <2>2 DEF His
  <2>4. \A n \in DOMAIN His(s)' : n \in DOMAIN His(s) \/ n = e
    BY <1>0, <2>2
  <2>5. e \notin DOMAIN His(s) /\ \A n \in DOMAIN His(s) : n \in DOMAIN His(s)'
    BY <1>0, <2>2
  <2>6. e \in DOMAIN His(s)'
    BY <1>0, <2>2
  <2>7. \A t \in Sids : \A n \in DOMAIN His(t) : His(t)[n] <= r /\ His(t)[n] # r
    <3>1. \A a \in Rids : a <= asked => a <= r /\ a # r
      BY <1>0 DEF Rids
    <3> QED
      BY <1>0, <3>1 DEF ListInv
  <2> HIDE DEF e, r
  <2>8. r <= r
    BY <2>2 DEF Rids
  <2>9. \A t \in Sids : \A n \in DOMAIN His(t)' :
           \/ n \in DOMAIN His(t) /\ His(t)'[n] = His(t)[n]
           \/ t = s /\ n = e /\ His(t)'[n] = r
    BY <2>2, <2>3, <2>4
  <2>10. \A t \in Sids : \A n \in DOMAIN His(t)' : His(t)'[n] <= asked'
    BY <2>2, <2>7, <2>8, <2>9
  <2>11. \A t, u \in Sids : \A m \in DOMAIN His(t)', n \in DOMAIN His(u)' :
            His(t)'[m] = His(u)'[n] => t = u /\ m = n
    BY <2>7, <2>9 DEF ListInv
  <2>12. \A t \in Sids : His(t)' # <<>> => \E j \in Keys : table'[j] = t
    BY <1>2, <2>1, <2>3 DEF ListInv
  <2>13. \A t \in Sids : \A n \in DOMAIN His(t)' : inter'[His(t)'[n]].live
    BY <1>0, <2>2, <2>7, <2>9 DEF ListInv
  <2>14. ASSUME NEW q \in Rids, inter'[q].live
         PROVE  \E t \in Sids : \E n \in DOMAIN His(t)' : His(t)'[n] = q
    <3>1. CASE q = r
      BY <2>2, <2>6, <3>1
    <3>2. CASE q # r
      <4>1. PICK t \in Sids : \E n \in DOMAIN His(t) : His(t)[n] = q
        BY <2>2, <2>14, <3>2 DEF ListInv
      <4>2. CASE t = s
        <5>1. PICK n \in DOMAIN His(s) : His(s)[n] = q
          BY <4>1, <4>2
        <5>2. n \in DOMAIN His(s)' /\ His(s)'[n] = q
          BY <2>2, <2>5, <5>1
        <5> QED
          BY <5>2
      <4>3. CASE t # s
        BY <2>3, <4>1, <4>3
      <4> QED
        BY <4>2, <4>3
    <3> QED
      BY <3>1, <3>2
  <2> QED
    BY <2>10, <2>11, <2>12, <2>13, <2>14 DEF ListInv
<1>3. ASSUME NEW k \in Keys, NEW a \in Nat, table[k] \in Sids, FirstResponse(k, a),
             UNCHANGED <<table, session, asked>>
      PROVE  ListInv'
  <2>1. PICK s \in Sids : table[k] = s
    BY <1>3
  <2>3. \A q \in Rids : inter'[q].live = inter[q].live
    BY <1>t, <1>3, <2>1, ResponseLists
  <2>4. \A t \in Sids : His(t)' = His(t)
    BY <1>3 DEF His
  <2> QED
    BY <1>0, <1>3, <2>3, <2>4 DEF ListInv
<1>4. ASSUME NEW k \in Keys, table[k] \in Sids, table[k] # None, DestroySession(k), asked' = asked
      PROVE  ListInv'
  <2>1. PICK s \in Sids : table[k] = s /\ s # None
    BY <1>4
  <2>2. /\ table' = [table EXCEPT ![k] = None]
        /\ \A t \in Sids : t # s => session'[t] = session[t]
        /\ His(s)' = <<>>
        /\ \A r \in Rids : (\E n \in DOMAIN His(s) : His(s)[n] = r) => inter'[r] = Freed
        /\ \A r \in Rids : (~ \E n \in DOMAIN His(s) : His(s)[n] = r) => inter'[r] = inter[r]
    BY <1>t, <1>4, <2>1, DestroyLists
  <2>3. \A t \in Sids : t # s => His(t)' = His(t)
    BY <2>2 DEF His
  <2>4. \A t \in Sids : \A n \in DOMAIN His(t)' : t # s /\ n \in DOMAIN His(t) /\ His(t)'[n] = His(t)[n]
    BY <2>2, <2>3
  <2>5. \A t \in Sids : \A n \in DOMAIN His(t) :
            t # s => ~ \E m \in DOMAIN His(s) : His(s)[m] = His(t)[n]
    BY DEF ListInv
  <2>6. \A t \in Sids : \A n \in DOMAIN His(t)' : His(t)'[n] <= asked'
    BY <1>4, <2>4 DEF ListInv
  <2>7. \A t, u \in Sids : \A m \in DOMAIN His(t)', n \in DOMAIN His(u)' :
           His(t)'[m] = His(u)'[n] => t = u /\ m = n
    BY <2>4 DEF ListInv
  <2>8. ASSUME NEW t \in Sids, His(t)' # <<>>
        PROVE  \E j \in Keys : table'[j] = t
    <3>1. t # s /\ His(t) # <<>>
      BY <2>2, <2>3, <2>8
    <3>2. PICK j \in Keys : table[j] = t
      BY <3>1 DEF ListInv
    <3>3. table'[j] = t
      BY <1>t, <2>1, <2>2, <3>1, <3>2 DEF TypeOK
    <3> QED
      BY <3>3
  <2>9. \A t \in Sids : \A n \in DOMAIN His(t)' : inter'[His(t)'[n]].live
    BY <1>0, <2>2, <2>4, <2>5 DEF ListInv
  <2>10. ASSUME NEW q \in Rids, inter'[q].live
         PROVE  \E t \in Sids : \E n \in DOMAIN His(t)' : His(t)'[n] = q
    <3>1. ~ \E n \in DOMAIN His(s) : His(s)[n] = q
      BY <2>2, <2>10 DEF Freed
    <3>2. PICK t \in Sids : \E n \in DOMAIN His(t) : His(t)[n] = q
      BY <2>2, <2>10, <3>1 DEF ListInv
    <3>3. t # s
      BY <3>1, <3>2
    <3> QED
      BY <2>3, <3>2, <3>3
  <2> QED
    BY <2>6, <2>7, <2>8, <2>9, <2>10 DEF ListInv
<1>5. CASE Emptied
  <2>1. \A s \in Sids : DOMAIN His(s)' = {} /\ His(s)' = <<>>
    BY <1>5 DEF Emptied
  <2>2. \A r \in Rids : ~inter'[r].live
    BY <1>5 DEF Emptied, Freed
  <2> QED
    BY <2>1, <2>2 DEF ListInv
<1> QED
  BY <1>1, <1>2, <1>3, <1>4, <1>5, ListCases

LEMMA ListInvariant == Spec => [](IInv /\ ListInv)
<1>1. Init => ListInv
  BY DEF Init, ListInv, His, EmptySession, Freed
<1>2. IInv /\ ListInv /\ [Next]_vars => ListInv'
  BY ListStep
<1> QED
  BY <1>1, <1>2, InitIInv, IInvStep, PTL DEF Spec

(* destroy_session frees every interaction of its session, and nothing in  *)
(* a list of the table is freed.                                           *)
THEOREM NothingLeaks == Spec => []NoInteractionLeak
<1>1. ASSUME IInv, ListInv
      PROVE  NoInteractionLeak
  <2>1. ASSUME NEW r \in Rids, inter[r].live
        PROVE  \E k \in Keys : table[k] # None /\ \E n \in DOMAIN His(table[k]) : His(table[k])[n] = r
    <3>1. PICK s \in Sids : \E n \in DOMAIN His(s) : His(s)[n] = r
      BY <1>1, <2>1 DEF ListInv
    <3>2. His(s) # <<>>
      BY <3>1
    <3>3. PICK k \in Keys : table[k] = s
      BY <1>1, <3>2 DEF ListInv
    <3>4. s # None
      BY DEF Sids, None
    <3> QED
      BY <3>1, <3>3, <3>4
  <2>2. ASSUME NEW k \in Keys, table[k] # None, NEW n \in DOMAIN His(table[k])
        PROVE  inter[His(table[k])[n]].live
    <3>1. table[k] \in Sids
      BY <1>1, <2>2 DEF IInv, TypeOK
    <3> QED
      BY <1>1, <2>2, <3>1 DEF ListInv
  <2>3. \A j, k \in Keys : j # k /\ table[j] # None => table[j] # table[k]
    BY <1>1 DEF IInv, Linked, TableOpen
  <2> QED
    BY <2>1, <2>2, <2>3 DEF NoInteractionLeak, His
<1> QED
  BY <1>1, ListInvariant, PTL
-----------------------------------------------------------------------------
(* The accounts.                                                           *)

LEMMA AccountStep ==
  ASSUME IInv, ListInv, AccountInv, [Next]_vars
  PROVE  AccountInv'
<1>t. TypeOK
  BY DEF IInv
<1>0. /\ asked \in Nat
      /\ \A s \in Sids : /\ Len(His(s)) \in Nat /\ DOMAIN His(s) = 1..Len(His(s))
                         /\ \A n \in DOMAIN His(s) : His(s)[n] \in Rids
  BY <1>t, HisType, BoundAssumption DEF TypeOK, Rids
<1>1. ASSUME NEW t \in Sids, session'[t].account = session[t].account, His(t)' = His(t),
             \A n \in DOMAIN His(t) : inter'[His(t)[n]].account = inter[His(t)[n]].account
      PROVE  \/ /\ session'[t].account = NoAccount
                /\ \A n \in DOMAIN His(t)' : inter'[His(t)'[n]].account = NoAccount
             \/ \E n \in DOMAIN His(t)' :
                   /\ inter'[His(t)'[n]].account # NoAccount
                   /\ session'[t].account = inter'[His(t)'[n]].account
                   /\ \A m \in DOMAIN His(t)' : m > n => inter'[His(t)'[m]].account = NoAccount
  BY <1>1 DEF AccountInv
<1>2. ASSUME NEW t \in Sids, session'[t].account = NoAccount, His(t)' = <<>>
      PROVE  /\ session'[t].account = NoAccount
             /\ \A n \in DOMAIN His(t)' : inter'[His(t)'[n]].account = NoAccount
  BY <1>2
<1>3. CASE Quiet
  <2>1. \A t \in Sids : session'[t].account = session[t].account /\ His(t)' = His(t)
    BY <1>3 DEF Quiet, His
  <2>2. inter' = inter
    BY <1>3 DEF Quiet
  <2> QED
    BY <1>1, <2>1, <2>2 DEF AccountInv
<1>4. ASSUME NEW k \in Keys, NEW no \in Rids, NEW req \in ParsedRequests, table[k] \in Sids,
             NewRequest(k, no, req)
      PROVE  AccountInv'
  <2>1. PICK s \in Sids : table[k] = s
    BY <1>4
  <2>r. PICK login : RequestListed(s, no, login)
    BY <1>t, <1>4, <2>1, RequestLists
  <2> DEFINE r == asked + 1
             e == Len(His(s)) + 1
  <2>2. /\ \A t \in Sids : t # s => session'[t] = session[t]
        /\ session'[s].account = LoginAccount(session[s].account, login)
        /\ DOMAIN His(s)' = 1..e
        /\ \A n \in DOMAIN His(s) : His(s)'[n] = His(s)[n]
        /\ His(s)'[e] = r
        /\ \A q \in Rids : q # r => inter'[q] = inter[q]
        /\ inter'[r].account = login
    BY <2>r DEF RequestListed
  <2>3. \A t \in Sids : \A n \in DOMAIN His(t) : His(t)[n] # r
    <3>1. \A a \in Rids : a <= asked => a # r
      BY <1>0 DEF Rids
    <3> QED
      BY <1>0, <3>1 DEF ListInv
  <2>4. \A t \in Sids : \A n \in DOMAIN His(t) : inter'[His(t)[n]].account = inter[His(t)[n]].account
    BY <1>0, <2>2, <2>3
  <2>5. \A t \in Sids : t # s => session'[t].account = session[t].account /\ His(t)' = His(t)
    BY <2>2 DEF His
  <2>6. /\ e \in DOMAIN His(s)'
        /\ \A n \in DOMAIN His(s) : n \in DOMAIN His(s)' /\ e > n /\ ~(n > e)
        /\ \A n \in DOMAIN His(s)' : n \in DOMAIN His(s) \/ n = e
        /\ ~(e > e)
    BY <1>0, <2>2
  <2> HIDE DEF r, e
  <2>7. \/ /\ session'[s].account = NoAccount
           /\ \A n \in DOMAIN His(s)' : inter'[His(s)'[n]].account = NoAccount
        \/ \E n \in DOMAIN His(s)' :
              /\ inter'[His(s)'[n]].account # NoAccount
              /\ session'[s].account = inter'[His(s)'[n]].account
              /\ \A m \in DOMAIN His(s)' : m > n => inter'[His(s)'[m]].account = NoAccount
    <3>1. CASE login # NoAccount
      <4>1. \A m \in DOMAIN His(s)' : ~(m > e)
        BY <2>6
      <4> QED
        BY <2>2, <2>6, <3>1, <4>1 DEF LoginAccount
    <3>2. CASE login = NoAccount
      <4>1. session'[s].account = session[s].account
        BY <2>2, <3>2 DEF LoginAccount
      <4>2. \A n \in DOMAIN His(s) : inter'[His(s)'[n]].account = inter[His(s)[n]].account
        BY <2>2, <2>4
      <4>3. inter'[His(s)'[e]].account = NoAccount
        BY <2>2, <3>2
      <4>4. CASE /\ session[s].account = NoAccount
                 /\ \A n \in DOMAIN His(s) : inter[His(s)[n]].account = NoAccount
        BY <2>6, <4>1, <4>2, <4>3, <4>4
      <4>5. ASSUME NEW n \in DOMAIN His(s),
                   /\ inter[His(s)[n]].account # NoAccount
                   /\ session[s].account = inter[His(s)[n]].account
                   /\ \A m \in DOMAIN His(s) : m > n => inter[His(s)[m]].account = NoAccount
            PROVE  /\ n \in DOMAIN His(s)'
                   /\ inter'[His(s)'[n]].account # NoAccount
                   /\ session'[s].account = inter'[His(s)'[n]].account
                   /\ \A m \in DOMAIN His(s)' : m > n => inter'[His(s)'[m]].account = NoAccount
        BY <2>6, <4>1, <4>2, <4>3, <4>5
      <4> QED
        BY <4>4, <4>5 DEF AccountInv
    <3> QED
      BY <3>1, <3>2
  <2> QED
    BY <1>1, <2>4, <2>5, <2>7 DEF AccountInv
<1>5. ASSUME NEW k \in Keys, NEW a \in Nat, table[k] \in Sids, FirstResponse(k, a),
             session' = session
      PROVE  AccountInv'
  <2>1. PICK s \in Sids : table[k] = s
    BY <1>5
  <2>3. \A q \in Rids : inter'[q].account = inter[q].account
    BY <1>t, <1>5, <2>1, ResponseLists
  <2>4. \A t \in Sids : session'[t].account = session[t].account /\ His(t)' = His(t)
    BY <1>5 DEF His
  <2> QED
    BY <1>0, <1>1, <2>3, <2>4 DEF AccountInv
<1>6. ASSUME NEW k \in Keys, table[k] \in Sids, table[k] # None, DestroySession(k)
      PROVE  AccountInv'
  <2>1. PICK s \in Sids : table[k] = s /\ s # None
    BY <1>6
  <2>2. /\ \A t \in Sids : t # s => session'[t] = session[t]
        /\ session'[s].account = NoAccount /\ His(s)' = <<>>
        /\ \A r \in Rids : (~ \E n \in DOMAIN His(s) : His(s)[n] = r) => inter'[r] = inter[r]
    BY <1>t, <1>6, <2>1, DestroyLists
  <2>3. \A t \in Sids : t # s => session'[t].account = session[t].account /\ His(t)' = His(t)
    BY <2>2 DEF His
  <2>4. \A t \in Sids : \A n \in DOMAIN His(t) :
            t # s => ~ \E m \in DOMAIN His(s) : His(s)[m] = His(t)[n]
    BY DEF ListInv
  <2>5. \A t \in Sids : \A n \in DOMAIN His(t) :
            t # s => inter'[His(t)[n]].account = inter[His(t)[n]].account
    BY <1>0, <2>2, <2>4
  <2> QED
    BY <1>1, <1>2, <2>2, <2>3, <2>5 DEF AccountInv
<1>7. CASE Emptied
  BY <1>2, <1>7 DEF Emptied, AccountInv
<1> QED
  BY <1>3, <1>4, <1>5, <1>6, <1>7, ListCases

LEMMA AccountInvariant == Spec => [](IInv /\ ListInv /\ AccountInv)
<1>1. Init => AccountInv
  BY DEF Init, AccountInv, His, EmptySession
<1>2. IInv /\ ListInv /\ AccountInv /\ [Next]_vars => AccountInv'
  BY AccountStep
<1> QED
  BY <1>1, <1>2, ListInvariant, PTL DEF Spec

LEMMA LastIs ==
  ASSUME IInv, AccountInv, NEW s \in Sids
  PROVE  session[s].account = LastAccount(His(s))
<1> DEFINE named == {n \in DOMAIN His(s) : inter[His(s)[n]].account # NoAccount}
<1>1. LastAccount(His(s)) =
        IF named = {} THEN NoAccount
        ELSE inter[His(s)[CHOOSE n \in named : \A m \in named : m <= n]].account
  BY DEF LastAccount
<1>2. \A n \in DOMAIN His(s) : n \in Nat
  BY HisType DEF IInv
<1>3. CASE /\ session[s].account = NoAccount
           /\ \A n \in DOMAIN His(s) : inter[His(s)[n]].account = NoAccount
  BY <1>1, <1>3
<1>4. ASSUME NEW n \in DOMAIN His(s),
             /\ inter[His(s)[n]].account # NoAccount
             /\ session[s].account = inter[His(s)[n]].account
             /\ \A m \in DOMAIN His(s) : m > n => inter[His(s)[m]].account = NoAccount
      PROVE  session[s].account = LastAccount(His(s))
  <2>1. n \in named /\ \A m \in named : m <= n
    BY <1>2, <1>4
  <2> DEFINE last == CHOOSE l \in named : \A m \in named : m <= l
  <2>2. last \in named /\ \A m \in named : m <= last
    BY <2>1
  <2>3. \A l \in named : l \in Nat
    BY <1>2
  <2> HIDE DEF last, named
  <2>4. last = n
    BY <2>1, <2>2, <2>3
  <2>5. named # {}
    BY <2>1
  <2>6. LastAccount(His(s)) = inter[His(s)[last]].account
    BY <1>1, <2>5 DEF last
  <2> QED
    BY <1>4, <2>4, <2>6
<1> QED
  BY <1>3, <1>4 DEF AccountInv

(* The account destroy_session writes is the one of the last request that  *)
(* logged in, whatever requests without a login came after it.             *)
THEOREM AccountCorrect == Spec => AccountOfEndedRow
<1>1. ASSUME IInv, AccountInv, [Next]_vars, NEW s \in Sids,
             traffic[s].state # "ended", traffic'[s].state = "ended"
      PROVE  traffic'[s].account = LastAccount(session[s].inters)
  <2> USE DEF IInv
  <2>1. ASSUME NEW k \in Keys, JustEst(k)
        PROVE  FALSE
    <3>1. CASE k \in WebKeys
      <4>1. /\ \A t \in Sids : t # made + 1 => traffic'[t] = traffic[t]
            /\ traffic'[made + 1].state \in {"open", traffic[made + 1].state}
        BY <1>1, <2>1, <3>1, CreateEffect DEF JustEst
      <4> QED
        BY <1>1, <4>1
    <3>2. CASE k \notin WebKeys
      BY <1>1, <2>1, <3>2 DEF JustEst, vars, database
    <3> QED
      BY <3>1, <3>2
  <2>2. ASSUME NEW k \in Keys, DataFromClient(k) \/ DataFromServer(k) \/ TimedOut(k)
        PROVE  FALSE
    BY <1>1, <2>2 DEF DataFromClient, DataFromServer, TimedOut, database
  <2>3. CASE Down \/ Restart \/ UNCHANGED vars
    BY <1>1, <2>3 DEF Down, Restart, vars, volatile, database
  <2>4. ASSUME NEW k \in Keys, CloseOrReset(k)
        PROVE  traffic'[s].account = session[s].account
    <3>1. table[k] # None /\ DestroySession(k)
      BY <1>1, <2>4 DEF CloseOrReset, TrackedWhileOpen
    <3>2. PICK t \in Sids : table[k] = t
      BY <1>1, <3>1 DEF TypeOK
    <3>3. \/ traffic' = traffic
          \/ traffic' = [traffic EXCEPT ![t] = [state |-> "ended", account |-> session[t].account]]
      BY <3>1, <3>2 DEF DestroySession
    <3>4. t = s /\ traffic'[s] = [state |-> "ended", account |-> session[s].account]
      BY <1>1, <3>3 DEF TypeOK
    <3> QED
      BY <3>4
  <2> QED
    BY <1>1, <2>1, <2>2, <2>3, <2>4, LastIs DEF Next, His
<1>2. IInv /\ AccountInv /\ [Next]_vars =>
        \A s \in Sids : traffic[s].state # "ended" /\ traffic'[s].state = "ended" =>
            traffic'[s].account = LastAccount(session[s].inters)
  BY <1>1
<1> QED
  BY <1>2, AccountInvariant, PTL DEF Spec, AccountOfEndedRow
-----------------------------------------------------------------------------
(* Requests and responses.                                                 *)

(* A step that leaves the list of a connection's session alone, or ends    *)
(* the connection, keeps it paired.                                        *)
LEMMA PairedKept ==
  ASSUME NEW k \in Keys, Paired(k), NEW s \in Sids, table[k] = s, table'[k] = s,
         wire'[k].sent = wire[k].sent, wire'[k].answered = wire[k].answered,
         stream'[k] = "est" => stream[k] = "est", expired \subseteq expired',
         His(s)' = His(s), \A n \in DOMAIN His(s) : inter'[His(s)[n]] = inter[His(s)[n]]
  PROVE  Paired(k)'
<1>1. His(table[k]) = His(s) /\ His(table[k])' = His(s)
  BY DEF His
<1>2. /\ wire'[k].answered <= wire'[k].sent
      /\ wire'[k].sent <= wire'[k].answered + MaxOutstanding
  BY DEF Paired
<1>3. ASSUME stream'[k] = "est", table'[k] \notin expired'
      PROVE  stream[k] = "est" /\ table[k] \notin expired
  BY <1>3
<1> QED
  BY <1>1, <1>2, <1>3 DEF Paired

LEMMA ClosedPaired ==
  ASSUME NEW k \in Keys, wire'[k] = Silent \/ wire'[k] = wire[k], stream'[k] # "est", Paired(k)
  PROVE  Paired(k)'
<1>1. Silent.sent = 0 /\ Silent.answered = 0
  BY DEF Silent
<1>2. 0 <= 0 /\ 0 <= 0 + MaxOutstanding
  BY BoundAssumption
<1>3. /\ wire'[k].answered <= wire'[k].sent
      /\ wire'[k].sent <= wire'[k].answered + MaxOutstanding
  BY <1>1, <1>2 DEF Paired
<1> QED
  BY <1>3 DEF Paired

LEMMA PairStep ==
  ASSUME IInv, ListInv, PairInv, [Next]_vars
  PROVE  PairInv'
<1> SUFFICES ASSUME NEW j \in Keys
             PROVE  Paired(j)'
  BY DEF PairInv
<1>t. TypeOK /\ TrackedWhileOpen /\ Paired(j)
  BY DEF IInv, PairInv
<1>0. /\ asked \in Nat
      /\ \A s \in Sids : /\ Len(His(s)) \in Nat /\ DOMAIN His(s) = 1..Len(His(s))
                         /\ \A n \in DOMAIN His(s) : His(s)[n] \in Rids
      /\ wire[j].sent \in Nat /\ wire[j].answered \in Nat
  BY <1>t, HisType, BoundAssumption DEF TypeOK, Rids, Wires
(* A step that does not concern the connection.                            *)
<1>1. ASSUME wire'[j] = wire[j], stream'[j] = stream[j], table'[j] = table[j], expired' = expired,
             UNCHANGED <<session, inter>>
      PROVE  Paired(j)'
  BY <1>1, <1>t DEF Paired, His
<1>2. ASSUME wire'[j] = wire[j], stream'[j] = stream[j], stream[j] # "est"
      PROVE  Paired(j)'
  BY <1>2, <1>t, ClosedPaired
<1>3. ASSUME NEW k \in Keys, JustEst(k)
      PROVE  Paired(j)'
  <2>1. CASE k \notin WebKeys
    BY <1>1, <1>3, <2>1 DEF JustEst, vars, volatile
  <2>2. CASE k \in WebKeys /\ j # k
    <3>1. CreateSession(k) /\ stream'[j] = stream[j]
      BY <1>3, <1>t, <2>2 DEF JustEst, TypeOK
    <3>2. wire'[j] = wire[j] /\ table'[j] = table[j] /\ UNCHANGED <<session, inter, expired>>
      BY <1>t, <2>2, <3>1 DEF CreateSession, TypeOK
    <3> QED
      BY <1>1, <3>1, <3>2
  <2>3. CASE k \in WebKeys /\ j = k
    <3>1. CreateSession(k) /\ stream[k] = "none"
      BY <1>3, <2>3 DEF JustEst
    <3>2. /\ wire'[j] = [Silent EXCEPT !.owner = made + 1] /\ made + 1 \in Sids
          /\ table'[j] = IF table[j] = None THEN made + 1 ELSE table[j]
          /\ UNCHANGED <<session, inter, expired>>
      BY <1>t, <2>3, <3>1, BoundAssumption DEF CreateSession, TypeOK, Sids
    <3>3. wire'[j].sent = 0 /\ wire'[j].answered = 0
      BY <3>2 DEF Silent
    <3>4. 0 <= 0 /\ 0 <= 0 + MaxOutstanding
      BY BoundAssumption
    <3>5. CASE table[j] = None
      <4>1. \A i \in Keys : table[i] # made + 1
        <5>1. \A i \in Keys : table[i] <= made /\ table[i] \in Nat
          BY <1>t DEF IInv, Linked, Numbered, TypeOK, Sids, None
        <5>2. made \in Nat
          BY <1>t, BoundAssumption DEF TypeOK, Sids
        <5> QED
          BY <5>1, <5>2
      <4>2. His(made + 1) = <<>>
        BY <3>2, <4>1 DEF ListInv
      <4>3. His(table[j])' = <<>>
        BY <3>2, <3>5, <4>2 DEF His
      <4> QED
        BY <3>3, <3>4, <4>3 DEF Paired
    <3>6. CASE table[j] # None
      <4>1. table'[j] \in expired'
        BY <2>3, <3>1, <3>2, <3>6 DEF IInv, Linked, StaleExpired
      <4> QED
        BY <3>3, <3>4, <4>1 DEF Paired
    <3> QED
      BY <3>5, <3>6
  <2> QED
    BY <2>1, <2>2, <2>3
<1>4. ASSUME NEW k \in Keys, DataFromClient(k)
      PROVE  Paired(j)'
  <2>1. PICK no \in Rids, last \in Rids :
           /\ wire[k].sent <= no /\ no <= last
           /\ last <= wire[k].answered + MaxOutstanding
           /\ wire' = [wire EXCEPT ![k].sent = last]
           /\ \/ UNCHANGED <<session, inter>>
              \/ \E req \in ParsedRequests : table[k] # None /\ NewRequest(k, no, req)
    BY <1>4 DEF DataFromClient
  <2>2. stream[k] = "est" /\ UNCHANGED <<stream, table, expired>>
    BY <1>4 DEF DataFromClient
  <2>3. CASE UNCHANGED <<session, inter>> /\ j # k
    BY <1>1, <1>t, <2>1, <2>2, <2>3 DEF TypeOK
  <2>4. ASSUME j = k
        PROVE  /\ wire'[j].sent = last /\ wire'[j].answered = wire[j].answered
               /\ wire'[j].answered <= wire'[j].sent /\ wire[j].sent <= last
               /\ wire'[j].sent <= wire'[j].answered + MaxOutstanding
    <3>1. wire'[j].sent = last /\ wire'[j].answered = wire[j].answered
      BY <1>t, <2>1, <2>4 DEF TypeOK, Wires
    <3>2. wire[j].answered <= wire[j].sent /\ no \in Nat /\ last \in Nat
      BY <1>t DEF Paired, Rids
    <3> QED
      BY <1>0, <2>1, <2>4, <3>1, <3>2, BoundAssumption
  <2>5. CASE UNCHANGED <<session, inter>> /\ j = k
    <3>1. \A a \in Nat : a <= wire[j].sent => a <= wire'[j].sent
      BY <1>0, <2>4, <2>5 DEF Rids
    <3>2. table[j] \in Sids
      BY <1>t, <2>2, <2>5 DEF TrackedWhileOpen, TypeOK
    <3>3. \A n \in DOMAIN His(table[j]) : /\ inter[His(table[j])[n]].no \in Nat
                                         /\ inter[His(table[j])[n]].resp \in Nat
      BY <1>0, <1>t, <3>2 DEF TypeOK, InterRecords
    <3>4. His(table[j])' = His(table[j])
      BY <2>2, <2>5 DEF His
    <3> QED
      BY <1>t, <2>2, <2>4, <2>5, <3>1, <3>3, <3>4 DEF Paired
  <2>6. ASSUME NEW req \in ParsedRequests, table[k] # None, NewRequest(k, no, req)
        PROVE  Paired(j)'
    <3>1. PICK s \in Sids : table[k] = s
      BY <1>t, <2>6 DEF TypeOK
    <3> DEFINE r == asked + 1
               e == Len(His(s)) + 1
    <3>0. PICK login : RequestListed(s, no, login)
      BY <1>t, <2>6, <3>1, RequestLists
    <3>2. /\ r \in Rids
          /\ \A t \in Sids : t # s => session'[t] = session[t]
          /\ DOMAIN His(s)' = 1..e
          /\ \A n \in DOMAIN His(s) : His(s)'[n] = His(s)[n]
          /\ His(s)'[e] = r
          /\ \A q \in Rids : q # r => inter'[q] = inter[q]
          /\ inter'[r].no = no /\ inter'[r].resp = 0
      BY <3>0 DEF RequestListed
    <3>3. \A t \in Sids : \A n \in DOMAIN His(t) : His(t)[n] # r
      <4>1. \A a \in Rids : a <= asked => a # r
        BY <1>0 DEF Rids
      <4> QED
        BY <1>0, <4>1 DEF ListInv
    <3>4. \A t \in Sids : \A n \in DOMAIN His(t) : inter'[His(t)[n]] = inter[His(t)[n]]
      BY <1>0, <3>2, <3>3
    <3>5. CASE j # k
      <4>1. CASE stream[j] = "est"
        <5>1. PICK t \in Sids : table[j] = t
          BY <1>t, <4>1 DEF TrackedWhileOpen, TypeOK
        <5>2. t # s
          BY <2>6, <3>1, <3>5, <5>1 DEF IInv, Linked, TableOpen
        <5>3. His(t)' = His(t)
          BY <3>2, <5>2 DEF His
        <5>4. wire'[j] = wire[j]
          BY <1>t, <2>1, <3>5 DEF TypeOK
        <5> QED
          BY <1>t, <2>2, <3>4, <5>1, <5>3, <5>4, PairedKept
      <4>2. CASE stream[j] # "est"
        BY <1>2, <1>t, <2>1, <2>2, <3>5, <4>2 DEF TypeOK
      <4> QED
        BY <4>1, <4>2
    <3>6. CASE j = k
      <4>1. His(table[j]) = His(s) /\ His(table[j])' = His(s)'
        BY <2>2, <3>1, <3>6 DEF His
      <4>2. /\ e \in DOMAIN His(s)' /\ ~(e > e)
            /\ \A n \in DOMAIN His(s) : n \in DOMAIN His(s)' /\ e > n /\ ~(n > e)
            /\ \A n \in DOMAIN His(s)' : n \in DOMAIN His(s) \/ n = e
        BY <1>0, <3>2
      <4>3. \A n \in DOMAIN His(s) : inter[His(s)[n]].no \in Nat /\ inter[His(s)[n]].resp \in Nat
        BY <1>0, <1>t DEF TypeOK, InterRecords
      <4>4. wire'[j].sent = last /\ wire[j].sent <= last
        BY <2>4, <3>6
      <4>5. /\ \A a \in Nat : a <= wire[j].sent => a <= wire'[j].sent
            /\ \A a \in Nat : a <= wire[j].sent => no >= a
            /\ no <= wire'[j].sent /\ 0 <= wire'[j].sent
        BY <1>0, <2>1, <3>6, <4>4 DEF Rids
      <4> HIDE DEF e, r
      <4>6. ASSUME stream[j] = "est", table[j] \notin expired, NEW n \in DOMAIN His(s)'
            PROVE  LET i == inter'[His(s)'[n]] IN
                   /\ i.no <= wire'[j].sent /\ i.resp <= wire'[j].sent
                   /\ i.resp # 0 =>
                         /\ i.no < i.resp + MaxOutstanding
                         /\ \A m \in DOMAIN His(s)' : m > n => inter'[His(s)'[m]].no >= i.resp
        <5>1. CASE n = e
          BY <3>2, <3>6, <4>5, <5>1
        <5>2. CASE n # e
          <6> DEFINE i == inter[His(s)[n]]
          <6>1. n \in DOMAIN His(s) /\ inter'[His(s)'[n]] = i
            BY <3>2, <3>4, <4>2, <5>2
          <6>2. /\ i.no <= wire[j].sent /\ i.resp <= wire[j].sent
                /\ i.resp # 0 =>
                      /\ i.no < i.resp + MaxOutstanding
                      /\ \A m \in DOMAIN His(s) : m > n => inter[His(s)[m]].no >= i.resp
            BY <1>t, <4>1, <4>6, <6>1 DEF Paired
          <6>3. i.no \in Nat /\ i.resp \in Nat
            BY <4>3, <6>1
          <6> HIDE DEF i
          <6>4. i.no <= wire'[j].sent /\ i.resp <= wire'[j].sent
            BY <4>4, <4>5, <6>2, <6>3
          <6>5. ASSUME i.resp # 0, NEW m \in DOMAIN His(s)', m > n
                PROVE  inter'[His(s)'[m]].no >= i.resp
            <7>1. CASE m = e
              BY <3>2, <3>6, <4>5, <6>2, <6>3, <7>1
            <7>2. CASE m # e
              <8>1. m \in DOMAIN His(s) /\ inter'[His(s)'[m]] = inter[His(s)[m]]
                BY <3>2, <3>4, <4>2, <7>2
              <8> QED
                BY <6>2, <6>5, <8>1
            <7> QED
              BY <7>1, <7>2
          <6> QED
            BY <6>1, <6>2, <6>4, <6>5
        <5> QED
          BY <5>1, <5>2
      <4> QED
        BY <2>2, <2>4, <3>6, <4>1, <4>6 DEF Paired
    <3> QED
      BY <3>5, <3>6
  <2> QED
    BY <2>1, <2>3, <2>5, <2>6
<1>5. ASSUME NEW k \in Keys, DataFromServer(k)
      PROVE  Paired(j)'
  <2>1. stream[k] = "est" /\ UNCHANGED <<stream, table, session, expired>>
    BY <1>5 DEF DataFromServer
  <2>w. PICK a \in (wire[k].answered + 1)..wire[k].sent :
           /\ \E ended \in (a - 1)..wire[k].sent : wire' = [wire EXCEPT ![k].answered = ended]
           /\ FirstResponse(k, a) \/ inter' = inter
    BY <1>5 DEF DataFromServer
  <2>v. PICK ended \in (a - 1)..wire[k].sent : wire' = [wire EXCEPT ![k].answered = ended]
    BY <2>w
  <2>k. wire[k].sent \in Nat /\ wire[k].answered \in Nat
    BY <1>t DEF TypeOK, Wires
  <2>2. PICK s \in Sids : table[k] = s
    BY <1>t, <2>1 DEF TrackedWhileOpen, TypeOK
  <2>3. His(s)' = His(s) /\ \A t \in Sids : His(t)' = His(t)
    BY <2>1 DEF His
  <2> DEFINE e == Len(His(s))
  <2>4. a \in Nat /\ ended \in Nat
    BY <2>k
  <2>5. \/ inter' = inter
        \/ \E i \in Rids :
              /\ e \in DOMAIN His(s) /\ i = His(s)[e]
              /\ \A q \in Rids : q # i => inter'[q] = inter[q]
              /\ inter'[i].no = inter[i].no /\ inter'[i].resp = a
    <3>1. CASE FirstResponse(k, a)
      BY <1>t, <2>2, <2>4, <3>1, ResponseLists
    <3>2. CASE inter' = inter
      BY <3>2
    <3> QED
      BY <2>w, <3>1, <3>2
  <2>6. CASE j # k
    <3>1. CASE stream[j] = "est"
      <4>1. PICK t \in Sids : table[j] = t
        BY <1>t, <3>1 DEF TrackedWhileOpen, TypeOK
      <4>2. t # s
        BY <2>2, <2>6, <4>1 DEF IInv, Linked, TableOpen, Sids, None
      <4>3. \A n \in DOMAIN His(t) : inter'[His(t)[n]] = inter[His(t)[n]]
        BY <1>0, <2>5, <4>2 DEF ListInv
      <4>4. wire'[j] = wire[j]
        BY <1>t, <2>v, <2>6 DEF TypeOK
      <4> QED
        BY <1>t, <2>1, <2>3, <4>1, <4>3, <4>4, PairedKept
    <3>2. CASE stream[j] # "est"
      BY <1>2, <1>t, <2>1, <2>v, <2>6, <3>2 DEF TypeOK
    <3> QED
      BY <3>1, <3>2
  <2>7. CASE j = k
    <3>1. wire'[j].sent = wire[j].sent /\ wire'[j].answered = ended
      BY <1>t, <2>v, <2>7 DEF TypeOK, Wires
    <3>2. /\ ended <= wire[j].sent /\ wire[j].sent <= ended + MaxOutstanding
          /\ \A b \in Nat : b <= wire[j].sent => b < a + MaxOutstanding
          /\ a <= wire[j].sent /\ a # 0
      <4>1. wire[j].sent <= wire[j].answered + MaxOutstanding
        BY <1>t DEF Paired
      <4>2. /\ wire[j].answered + 1 <= a /\ a <= wire[j].sent /\ a - 1 <= ended /\ ended <= wire[j].sent
            /\ MaxOutstanding \in Nat
        BY <2>w, <2>v, <2>k, <2>7, BoundAssumption
      <4> QED
        BY <1>0, <2>4, <4>1, <4>2, SMTT(30)
    <3>3. His(table[j]) = His(s) /\ His(table[j])' = His(s)
      BY <2>1, <2>2, <2>3, <2>7 DEF His
    <3>4. \A n \in DOMAIN His(s) : inter[His(s)[n]].no \in Nat /\ inter[His(s)[n]].resp \in Nat
      BY <1>0, <1>t DEF TypeOK, InterRecords
    <3>5. \A n \in DOMAIN His(s) : ~(n > e)
      BY <1>0
    <3>6. \A n \in DOMAIN His(s) :
             /\ inter'[His(s)[n]].no = inter[His(s)[n]].no
             /\ inter'[His(s)[n]].resp = inter[His(s)[n]].resp \/ (n = e /\ inter'[His(s)[n]].resp = a)
      BY <1>0, <2>5 DEF ListInv
    <3> HIDE DEF e
    <3>7. ASSUME stream[j] = "est", table[j] \notin expired, NEW n \in DOMAIN His(s)
          PROVE  LET i == inter'[His(s)[n]] IN
                 /\ i.no <= wire'[j].sent /\ i.resp <= wire'[j].sent
                 /\ i.resp # 0 =>
                       /\ i.no < i.resp + MaxOutstanding
                       /\ \A m \in DOMAIN His(s) : m > n => inter'[His(s)[m]].no >= i.resp
      <4> DEFINE i == inter[His(s)[n]]
      <4>1. /\ i.no <= wire[j].sent /\ i.resp <= wire[j].sent
            /\ i.resp # 0 =>
                  /\ i.no < i.resp + MaxOutstanding
                  /\ \A m \in DOMAIN His(s) : m > n => inter[His(s)[m]].no >= i.resp
        BY <1>t, <3>3, <3>7 DEF Paired
      <4>2. CASE inter'[His(s)[n]].resp = i.resp
        BY <3>1, <3>2, <3>4, <3>6, <3>7, <4>1, <4>2
      <4>3. CASE n = e /\ inter'[His(s)[n]].resp = a
        BY <3>1, <3>2, <3>4, <3>5, <3>6, <3>7, <4>1, <4>3
      <4> QED
        BY <3>6, <3>7, <4>2, <4>3
    <3> QED
      BY <2>1, <3>1, <3>2, <3>3, <3>7 DEF Paired
  <2> QED
    BY <2>6, <2>7
<1>6. ASSUME NEW k \in Keys, CloseOrReset(k)
      PROVE  Paired(j)'
  <2>1. /\ stream[k] = "est" /\ stream' = [stream EXCEPT ![k] = "none"]
        /\ wire' = [wire EXCEPT ![k] = Silent] /\ DestroySession(k) /\ expired' = expired
    BY <1>6 DEF CloseOrReset
  <2>2. CASE j = k
    <3>1. wire'[j] = Silent /\ stream'[j] = "none"
      BY <1>t, <2>1, <2>2 DEF TypeOK
    <3> QED
      BY <1>t, <3>1, ClosedPaired
  <2>3. CASE j # k
    <3>1. wire'[j] = wire[j] /\ stream'[j] = stream[j]
      BY <1>t, <2>1, <2>3 DEF TypeOK
    <3>2. CASE stream[j] = "est"
      <4>1. PICK s \in Sids : table[k] = s /\ s # None
        BY <1>t, <2>1 DEF TrackedWhileOpen, TypeOK
      <4>2. PICK t \in Sids : table[j] = t
        BY <1>t, <3>2 DEF TrackedWhileOpen, TypeOK
      <4>3. t # s
        BY <2>3, <4>1, <4>2 DEF IInv, Linked, TableOpen
      <4>4. /\ table' = [table EXCEPT ![k] = None]
            /\ \A u \in Sids : u # s => session'[u] = session[u]
            /\ \A r \in Rids : (~ \E n \in DOMAIN His(s) : His(s)[n] = r) => inter'[r] = inter[r]
        BY <1>t, <2>1, <4>1, DestroyLists
      <4>5. His(t)' = His(t) /\ table'[j] = t
        BY <1>t, <2>3, <4>2, <4>3, <4>4 DEF His, TypeOK
      <4>6. \A n \in DOMAIN His(t) : ~ \E m \in DOMAIN His(s) : His(s)[m] = His(t)[n]
        BY <4>3 DEF ListInv
      <4>7. \A n \in DOMAIN His(t) : inter'[His(t)[n]] = inter[His(t)[n]]
        BY <1>0, <4>4, <4>6
      <4> QED
        BY <1>t, <2>1, <3>1, <4>2, <4>5, <4>7, PairedKept
    <3>3. CASE stream[j] # "est"
      BY <1>2, <3>1, <3>3
    <3> QED
      BY <3>2, <3>3
  <2> QED
    BY <2>2, <2>3
<1>7. ASSUME NEW k \in Keys, TimedOut(k)
      PROVE  Paired(j)'
  <2>1. /\ stream' = [stream EXCEPT ![k] = "none"] /\ wire' = [wire EXCEPT ![k] = Silent]
        /\ expired' = expired \cup {table[k]} /\ UNCHANGED <<table, session, inter>>
    BY <1>7 DEF TimedOut
  <2>2. CASE j = k
    <3>1. wire'[j] = Silent /\ stream'[j] = "none"
      BY <1>t, <2>1, <2>2 DEF TypeOK
    <3> QED
      BY <1>t, <3>1, ClosedPaired
  <2>3. CASE j # k
    <3>1. wire'[j] = wire[j] /\ stream'[j] = stream[j]
      BY <1>t, <2>1, <2>3 DEF TypeOK
    <3> QED
      BY <1>t, <2>1, <3>1 DEF Paired, His
  <2> QED
    BY <2>2, <2>3
<1>8. CASE Restart \/ UNCHANGED vars
  BY <1>1, <1>8 DEF Restart, vars, volatile
<1>9. CASE Down
  <2>1. wire'[j] = Silent /\ stream'[j] = "none"
    BY <1>9 DEF Down
  <2> QED
    BY <1>t, <2>1, ClosedPaired
<1> QED
  BY <1>3, <1>4, <1>5, <1>6, <1>7, <1>8, <1>9 DEF Next

(* A segment of a response is filed with a request less than               *)
(* MaxOutstanding after its own, and past no segment recognised between.   *)
THEOREM PairingCorrect == Spec => []PairingWindow
<1>1. Init => PairInv
  BY BoundAssumption DEF Init, PairInv, Paired, Silent
<1>2. IInv /\ ListInv /\ PairInv /\ [Next]_vars => PairInv'
  BY PairStep
<1>3. PairInv => PairingWindow
  BY DEF PairInv, Paired, PairingWindow, His
<1> QED
  BY <1>1, <1>2, <1>3, ListInvariant, PTL DEF Spec
=============================================================================
