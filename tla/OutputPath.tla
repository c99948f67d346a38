----------------------------- MODULE OutputPath -----------------------------
(***************************************************************************)
(* What becomes of a popped interaction: its chunked body is decoded, and  *)
(* process_output_method gives it to the sinks, output_to_db and then      *)
(* output_to_file.  Each writes the server part and the client part, the   *)
(* first with two COPY commands on one connection, the second with two     *)
(* writes.  In the program as built no sink is registered and the output   *)
(* thread deletes the interaction at once; Start and Take are the calls    *)
(* that stand in comments.                                                 *)
(***************************************************************************)
EXTENDS Integers, Sequences, FiniteSets, SequencesExt, ChunkedBody

CONSTANTS Contents,         \* bound: the contents of responses, each a sequence of chunks
          MaxInteractions,  \* bound: interactions popped
          MaxStarts         \* bound: starts of the process

ASSUME BoundAssumption == MaxInteractions \in Nat /\ MaxStarts \in Nat
ASSUME ContentsAssumption ==
    \A response \in Contents :
        response \in Seq(Seq(Chars)) /\ \A i \in DOMAIN response : response[i] # <<>>

Idle == [sink |-> 0, part |-> 0]

VARIABLES
    sinks,      \* _proc_outputs; a registered sink has its _flag set
    conn,       \* conn_ of output_to_db: "null", "ok" or "lost"
    rows,       \* the interactions in each table of the database
    file,       \* the parts in the output file of this process
    at,         \* the sink and the part process_output_method is about to write
    id,         \* the interaction, counted from 1
    chunks,     \* what its response was made of
    captured,   \* how much of the encoded body was captured
    content,    \* pclt->content
    complete,   \* complete, of output_interaction_data
    starts,     \* history: starts of the process
    torn        \* history: a write to this file did not write everything

sinkVars == <<sinks, conn, rows, file, torn>>
bodyVars == <<chunks, captured, content, complete>>
vars == <<sinkVars, at, id, bodyVars, starts>>

(* The order of the two COPYs and of the two writes; a mutant swaps them.  *)
MutantParts == <<"clientinfo", "serverinfo">>
Parts == <<"serverinfo", "clientinfo">>

Init ==
    /\ sinks = <<>> /\ conn = "null"
    /\ rows = [table \in ToSet(Parts) |-> <<>>]
    /\ file = <<>> /\ torn = FALSE
    /\ at = Idle /\ id = 0 /\ starts = 0
    /\ chunks = <<>> /\ captured = 0 /\ content = <<>> /\ complete = 0

(* init_proc_interactions: both sinks, or the program gives up.  The file  *)
(* is a new one.                                                           *)
Start ==
    /\ sinks = <<>> /\ starts < MaxStarts
    /\ sinks' = <<"db", "file">> /\ conn' = "ok"
    /\ file' = <<>> /\ torn' = FALSE
    /\ starts' = starts + 1
    /\ UNCHANGED <<rows, at, id, bodyVars>>

(* ~cap_http, or a crash at any moment: what is written stays.             *)
End ==
    /\ sinks # <<>>
    /\ sinks' = <<>> /\ conn' = "null" /\ at' = Idle
    /\ UNCHANGED <<rows, file, torn, id, bodyVars, starts>>

(* output_interaction_data takes a response of which all or a part was     *)
(* captured; if it is chunked its content is replaced by the data.         *)
Take(response, size) ==
    /\ sinks # <<>> /\ at = Idle /\ id < MaxInteractions
    /\ LET entity    == SubSeq(Encoded(response), 1, size)
           extracted == ExtractChunkedData(entity)
       IN  /\ content' = IF extracted.ret = 0
                         THEN SubSeq(extracted.out, 1, Smaller(Len(extracted.out), size))
                         ELSE entity
           /\ complete' = extracted.complete
    /\ chunks' = response /\ captured' = size
    /\ id' = id + 1
    /\ at' = [sink |-> 1, part |-> 1]
    /\ UNCHANGED <<sinkVars, starts>>

(* process_output_method stops at the first sink that does not return 0.   *)
MutantGiveUp == IF at.sink < Len(sinks) THEN [sink |-> at.sink + 1, part |-> 1] ELSE Idle
GiveUp == Idle
MutantOnward == IF at.part = 1 THEN [at EXCEPT !.part = 2] ELSE [sink |-> at.sink + 1, part |-> 1]
Onward == IF at.part = 1 THEN [at EXCEPT !.part = 2]
          ELSE IF at.sink < Len(sinks) THEN [sink |-> at.sink + 1, part |-> 1]
          ELSE Idle

Writing(sink) == at # Idle /\ sinks[at.sink] = sink

(* PQ::copy commits one row and returns 0; or refuses (-1, -3); or loses   *)
(* the connection, before or after the server has committed (-5, -6).      *)
(* Nothing calls reconnect, so the connection stays lost.                  *)
CopyRow ==
    /\ Writing("db")
    /\ \/ /\ conn = "ok"
          /\ rows' = [rows EXCEPT ![Parts[at.part]] = Append(@, id)]
          /\ at' = Onward
          /\ UNCHANGED conn
       \/ /\ at' = GiveUp
          /\ UNCHANGED <<rows, conn>>
       \/ /\ conn = "ok" /\ conn' = "lost"
          /\ rows' \in {rows, [rows EXCEPT ![Parts[at.part]] = Append(@, id)]}
          /\ at' = GiveUp
    /\ UNCHANGED <<sinks, file, torn, id, bodyVars, starts>>

(* ACE_OS::write writes the whole part; or a piece of it, and process      *)
(* returns -1; or nothing and returns -1, which compares as not less than  *)
(* the size of the structure, so that process goes on.                     *)
WritePart ==
    /\ Writing("file")
    /\ \/ /\ file' = Append(file, [part |-> Parts[at.part], id |-> id, whole |-> TRUE])
          /\ at' = Onward
          /\ UNCHANGED torn
       \/ /\ file' = Append(file, [part |-> Parts[at.part], id |-> id, whole |-> FALSE])
          /\ at' = GiveUp /\ torn' = TRUE
       \/ /\ at' = Onward /\ torn' = TRUE
          /\ UNCHANGED file
    /\ UNCHANGED <<sinks, conn, rows, id, bodyVars, starts>>

Next ==
    \/ Start
    \/ End
    \/ \E response \in Contents : \E size \in 1..Len(Encoded(response)) : Take(response, size)
    \/ CopyRow
    \/ WritePart

Spec == Init /\ [][Next]_vars
-----------------------------------------------------------------------------
(* Every variable has its type: rows and parts are those of interactions   *)
(* that were popped, a part is only due at a sink that is registered, and  *)
(* no more of a body was captured than there is.                           *)
TypeOK ==
    /\ sinks \in {<<>>, <<"db", "file">>}
    /\ conn \in {"null", "ok", "lost"} /\ (conn = "null" <=> sinks = <<>>)
    /\ at \in {Idle} \cup [sink : 1..Len(sinks), part : {1, 2}]
    /\ rows \in [ToSet(Parts) -> Seq(1..id)]
    /\ file \in Seq([part : ToSet(Parts), id : 1..id, whole : BOOLEAN])
    /\ id \in 0..MaxInteractions /\ starts \in 0..MaxStarts
    /\ chunks \in Contents \cup {<<>>} /\ captured \in 0..Len(Encoded(chunks))
    /\ content \in Seq(Chars \cup {Unknown})
    /\ complete \in {0, 1} /\ torn \in BOOLEAN

(* The two COPYs are two transactions.  Whatever fails between them, and   *)
(* whenever the process ends, a row of clientinfo has its row of           *)
(* serverinfo, and no interaction has two rows in a table.                 *)
RowsPaired ==
    /\ ToSet(rows["clientinfo"]) \subseteq ToSet(rows["serverinfo"])
    /\ \A table \in DOMAIN rows : Cardinality(ToSet(rows[table])) = Len(rows[table])

(* The file never has what the database refused, and as long as every      *)
(* write was complete it is pairs of a server and a client part, as its    *)
(* readers must assume: there is no mark between the structures.           *)
FileFollowsDb ==
    /\ \A i \in DOMAIN file : \A table \in DOMAIN rows : file[i].id \in ToSet(rows[table])
    /\ ~torn => \A i \in DOMAIN file :
           IF i % 2 = 1 THEN file[i].part = "serverinfo"
           ELSE file[i].part = "clientinfo" /\ file[i].id = file[i - 1].id

(* A body captured as a whole is decoded to its data and reported as       *)
(* complete.  Of one that is cut the content is a first part of the data,  *)
(* with what memory holds behind the body where a chunk is cut; it is      *)
(* reported complete only if no data is missing, or if the cut makes the   *)
(* size of a chunk look like the last one.  A body the buffer has no room  *)
(* for stays as it is; a chunk it has no room for is the exception.        *)
DataThenUnknown(data, n) ==
    /\ n <= Len(data) /\ n <= Len(content)
    /\ \A j \in 1..Len(content) : content[j] = IF j <= n THEN data[j] ELSE Unknown
Fits(chunk) == Len(chunk) <= MaxBuff
ContentDecoded ==
    /\ captured > MaxBuff => content = SubSeq(Encoded(chunks), 1, captured) /\ complete = 0
    /\ captured \in 1..MaxBuff /\ (\A i \in DOMAIN chunks : Fits(chunks[i])) =>
          LET data == FlattenSeq(chunks)
          IN  /\ captured = Len(Encoded(chunks)) => content = data /\ complete = 1
              /\ \E n \in 0..Len(data) : DataThenUnknown(data, n)
              /\ complete = 1 => content = data \/ CutAfterZero(chunks, captured)
=============================================================================
