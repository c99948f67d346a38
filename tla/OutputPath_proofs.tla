------------------------- MODULE OutputPath_proofs -------------------------
(* Proofs about OutputPath: what the two sinks keep of an interaction,     *)
(* for any contents, numbers of interactions and starts.                   *)
EXTENDS OutputPath, DataLemmas

Tables == {"serverinfo", "clientinfo"}
Stored(table) == ToSet(rows[table])
Positions == [sink : {1, 2}, part : {1, 2}]

(* Each table has one row per interaction, none for one that is to come,   *)
(* and the interaction under way is in the tables it was written to.       *)
RowInv ==
    /\ id \in Nat
    /\ rows \in [Tables -> Seq(Nat)]
    /\ \A table \in Tables :
          /\ IsFiniteSet(Stored(table)) /\ Cardinality(Stored(table)) = Len(rows[table])
          /\ \A i \in Stored(table) : i <= id
    /\ Stored("clientinfo") \subseteq Stored("serverinfo")
    /\ at \in {Idle} \cup Positions
    /\ at = [sink |-> 1, part |-> 1] => \A table \in Tables : id \notin Stored(table)
    /\ at = [sink |-> 1, part |-> 2] => id \in Stored("serverinfo") /\ id \notin Stored("clientinfo")
    /\ at \in Positions /\ at.sink = 2 => \A table \in Tables : id \in Stored(table)

SinkInv ==
    /\ sinks \in {<<>>, <<"db", "file">>}
    /\ sinks = <<>> => at = Idle

Parts2 == [part : Tables, id : Nat, whole : BOOLEAN]

(* The file holds what the tables hold, and unless a write failed it ends  *)
(* with a whole pair, except while the second of two parts is due.         *)
FileInv ==
    /\ file \in Seq(Parts2)
    /\ \A i \in DOMAIN file : \A table \in Tables : file[i].id \in Stored(table)
    /\ ~torn /\ sinks # <<>> =>
          IF at = [sink |-> 2, part |-> 2]
          THEN Len(file) % 2 = 1 /\ file[Len(file)].id = id
          ELSE Len(file) % 2 = 0
    /\ ~torn => \A i \in DOMAIN file :
           IF i % 2 = 1 THEN file[i].part = "serverinfo"
           ELSE file[i].part = "clientinfo" /\ file[i].id = file[i - 1].id

OutputInv == RowInv /\ SinkInv /\ FileInv

-----------------------------------------------------------------------------
(* Sequences.                                                              *)

LEMMA TableNames == ToSet(Parts) = Tables
<1>1. DOMAIN Parts = {1, 2} /\ Parts[1] = "serverinfo" /\ Parts[2] = "clientinfo"
  BY DEF Parts
<1> QED
  BY <1>1 DEF ToSet, Tables

LEMMA AppendSet ==
  ASSUME NEW S, NEW s \in Seq(S), NEW x \in S
  PROVE  ToSet(Append(s, x)) = ToSet(s) \cup {x}
<1> DEFINE t == Append(s, x)
<1>1. /\ Len(s) \in Nat /\ DOMAIN s = 1..Len(s) /\ DOMAIN t = 1..(Len(s) + 1)
      /\ \A i \in 1..Len(s) : t[i] = s[i]
      /\ t[Len(s) + 1] = x
  OBVIOUS
<1> HIDE DEF t
<1>2. \A i \in DOMAIN t : i \in DOMAIN s \/ i = Len(s) + 1
  BY <1>1
<1>3. \A i \in DOMAIN s : i \in DOMAIN t
  BY <1>1
<1>4. Len(s) + 1 \in DOMAIN t
  BY <1>1
<1> QED
  BY <1>1, <1>2, <1>3, <1>4 DEF ToSet, t

(* A row more, of an interaction that has none yet.                        *)
LEMMA RowAdded ==
  ASSUME RowInv, NEW table \in Tables, id \notin Stored(table),
         rows' = [rows EXCEPT ![table] = Append(@, id)]
  PROVE  /\ rows' \in [Tables -> Seq(Nat)]
         /\ Stored(table)' = Stored(table) \cup {id}
         /\ \A other \in Tables : other # table => rows'[other] = rows[other]
         /\ IsFiniteSet(Stored(table)') /\ Cardinality(Stored(table)') = Len(rows'[table])
<1>1. rows[table] \in Seq(Nat) /\ id \in Nat /\ rows'[table] = Append(rows[table], id)
  BY DEF RowInv
<1>2. Stored(table)' = Stored(table) \cup {id}
  BY <1>1, AppendSet DEF Stored
<1>3. IsFiniteSet(Stored(table)') /\ Cardinality(Stored(table)') = Cardinality(Stored(table)) + 1
  BY <1>2, FS_AddElement DEF RowInv
<1>4. Len(rows'[table]) = Len(rows[table]) + 1
  BY <1>1
<1> QED
  BY <1>1, <1>2, <1>3, <1>4 DEF RowInv
-----------------------------------------------------------------------------
(* The steps.                                                              *)

LEMMA WhereAt ==
  ASSUME OutputInv, at # Idle
  PROVE  /\ sinks = <<"db", "file">> /\ Len(sinks) = 2
         /\ \/ Writing("db") /\ ~Writing("file") /\ at.sink = 1
            \/ Writing("file") /\ ~Writing("db") /\ at.sink = 2
         /\ at.part \in {1, 2} /\ at = [sink |-> at.sink, part |-> at.part]
<1>1. sinks = <<"db", "file">> /\ at \in Positions
  BY DEF OutputInv, RowInv, SinkInv
<1>2. at.sink \in {1, 2} /\ at.part \in {1, 2} /\ at = [sink |-> at.sink, part |-> at.part]
  BY <1>1 DEF Positions
<1>3. Len(sinks) = 2 /\ sinks[1] = "db" /\ sinks[2] = "file"
  BY <1>1
<1> QED
  BY <1>1, <1>2, <1>3 DEF Writing

(* What CopyRow does: the row is there or not, and the next part is due    *)
(* only if it is.                                                          *)
LEMMA CopyEffect ==
  ASSUME OutputInv, CopyRow
  PROVE  /\ \/ at = [sink |-> 1, part |-> 1] /\ Parts[at.part] = "serverinfo"
            \/ at = [sink |-> 1, part |-> 2] /\ Parts[at.part] = "clientinfo"
         /\ \/ /\ rows' = [rows EXCEPT ![Parts[at.part]] = Append(@, id)]
               /\ \/ at = [sink |-> 1, part |-> 1] /\ at' = [sink |-> 1, part |-> 2]
                  \/ at = [sink |-> 1, part |-> 2] /\ at' = [sink |-> 2, part |-> 1]
                  \/ at' = Idle
            \/ rows' = rows /\ at' = Idle
         /\ UNCHANGED <<sinks, file, torn, id>>
<1>1. at # Idle /\ Writing("db")
  BY DEF CopyRow, Writing
<1>2. at.sink = 1 /\ Len(sinks) = 2 /\ at.part \in {1, 2} /\ at = [sink |-> 1, part |-> at.part]
  BY <1>1, WhereAt
<1>3. /\ at.part = 1 => Onward = [sink |-> 1, part |-> 2]
      /\ at.part = 2 => Onward = [sink |-> 2, part |-> 1]
  <2>1. CASE at.part = 1
    <3>1. Onward = [at EXCEPT !.part = 2]
      BY <2>1 DEF Onward
    <3> QED
      BY <1>2, <2>1, <3>1
  <2>2. CASE at.part = 2
    BY <1>2, <2>2 DEF Onward
  <2> QED
    BY <1>2, <2>1, <2>2
<1>4. Parts[1] = "serverinfo" /\ Parts[2] = "clientinfo"
  BY DEF Parts
<1> QED
  BY <1>2, <1>3, <1>4 DEF CopyRow, GiveUp

(* What WritePart does: a whole part is followed by the next one, and any  *)
(* other outcome tears the file.                                           *)
LEMMA WriteEffect ==
  ASSUME OutputInv, WritePart
  PROVE  /\ \/ at = [sink |-> 2, part |-> 1] /\ Parts[at.part] = "serverinfo"
            \/ at = [sink |-> 2, part |-> 2] /\ Parts[at.part] = "clientinfo"
         /\ at' \in {Idle, [sink |-> 2, part |-> 2]}
         /\ \/ /\ file' = Append(file, [part |-> Parts[at.part], id |-> id, whole |-> TRUE])
               /\ \/ at = [sink |-> 2, part |-> 1] /\ at' = [sink |-> 2, part |-> 2]
                  \/ at = [sink |-> 2, part |-> 2] /\ at' = Idle
               /\ torn' = torn
            \/ /\ file' = Append(file, [part |-> Parts[at.part], id |-> id, whole |-> FALSE])
               /\ torn'
            \/ file' = file /\ torn'
         /\ UNCHANGED <<sinks, rows, id>>
<1>1. at # Idle /\ Writing("file")
  BY DEF WritePart, Writing
<1>2. at.sink = 2 /\ Len(sinks) = 2 /\ at.part \in {1, 2} /\ at = [sink |-> 2, part |-> at.part]
  BY <1>1, WhereAt
<1>3. /\ at.part = 1 => Onward = [sink |-> 2, part |-> 2]
      /\ at.part = 2 => Onward = Idle
  <2>1. CASE at.part = 1
    <3>1. Onward = [at EXCEPT !.part = 2]
      BY <2>1 DEF Onward
    <3> QED
      BY <1>2, <2>1, <3>1
  <2>2. CASE at.part = 2
    BY <1>2, <2>2 DEF Onward
  <2> QED
    BY <1>2, <2>1, <2>2
<1>4. Parts[1] = "serverinfo" /\ Parts[2] = "clientinfo"
  BY DEF Parts
<1> QED
  BY <1>2, <1>3, <1>4 DEF WritePart, GiveUp

(* A step of CopyRow keeps the rows in pairs.                              *)
LEMMA CopyStep ==
  ASSUME OutputInv, CopyRow
  PROVE  RowInv'
<1>0. RowInv
  BY DEF OutputInv
<1>a. Parts[at.part] \in Tables
  BY CopyEffect DEF Tables
<1>1. PICK table \in Tables :
      /\ \/ at = [sink |-> 1, part |-> 1] /\ table = "serverinfo"
         \/ at = [sink |-> 1, part |-> 2] /\ table = "clientinfo"
      /\ \/ /\ rows' = [rows EXCEPT ![table] = Append(@, id)]
            /\ \/ at = [sink |-> 1, part |-> 1] /\ at' = [sink |-> 1, part |-> 2]
               \/ at = [sink |-> 1, part |-> 2] /\ at' = [sink |-> 2, part |-> 1]
               \/ at' = Idle
         \/ rows' = rows /\ at' = Idle
      /\ id' = id
  BY <1>a, CopyEffect
<1>2. CASE rows' = rows /\ at' = Idle
  BY <1>0, <1>1, <1>2 DEF RowInv, Stored, Idle, Positions
<1>3. ASSUME rows' = [rows EXCEPT ![table] = Append(@, id)],
             \/ at = [sink |-> 1, part |-> 1] /\ at' = [sink |-> 1, part |-> 2]
             \/ at = [sink |-> 1, part |-> 2] /\ at' = [sink |-> 2, part |-> 1]
             \/ at' = Idle
      PROVE  RowInv'
  <2>1. table \in Tables /\ id \notin Stored(table)
    BY <1>0, <1>1 DEF RowInv, Tables
  <2>2. /\ rows' \in [Tables -> Seq(Nat)]
        /\ Stored(table)' = Stored(table) \cup {id}
        /\ \A other \in Tables : other # table => rows'[other] = rows[other]
        /\ IsFiniteSet(Stored(table)') /\ Cardinality(Stored(table)') = Len(rows'[table])
    BY <1>0, <1>3, <2>1, RowAdded
  <2>3. \A other \in Tables : other # table => Stored(other)' = Stored(other)
    BY <2>2 DEF Stored
  <2>4. \A other \in Tables :
           IsFiniteSet(Stored(other)') /\ Cardinality(Stored(other)') = Len(rows'[other])
    BY <1>0, <2>2, <2>3 DEF RowInv
  <2>5. \A other \in Tables : \A i \in Stored(other)' : i <= id'
    <3>1. id <= id
      BY <1>0 DEF RowInv
    <3> QED
      BY <1>0, <1>1, <2>2, <2>3, <3>1 DEF RowInv
  <2>6. CASE table = "serverinfo"
    <3>1. Stored("serverinfo")' = Stored("serverinfo") \cup {id}
          /\ Stored("clientinfo")' = Stored("clientinfo")
      BY <2>2, <2>3, <2>6 DEF Tables
    <3>2. at = [sink |-> 1, part |-> 1]
      BY <1>1, <2>6
    <3>3. at' = [sink |-> 1, part |-> 2] \/ at' = Idle
      BY <1>3, <3>2
    <3>4. id \notin Stored("clientinfo")
      BY <1>0, <3>2 DEF RowInv, Tables
    <3>5. Stored("clientinfo")' \subseteq Stored("serverinfo")'
      BY <1>0, <3>1 DEF RowInv
    <3> QED
      BY <1>0, <1>1, <2>2, <2>4, <2>5, <3>1, <3>3, <3>4, <3>5 DEF RowInv, Idle, Positions
  <2>7. CASE table = "clientinfo"
    <3>1. Stored("clientinfo")' = Stored("clientinfo") \cup {id}
          /\ Stored("serverinfo")' = Stored("serverinfo")
      BY <2>2, <2>3, <2>7 DEF Tables
    <3>2. at = [sink |-> 1, part |-> 2]
      BY <1>1, <2>7
    <3>3. at' = [sink |-> 2, part |-> 1] \/ at' = Idle
      BY <1>3, <3>2
    <3>4. id \in Stored("serverinfo")
      BY <1>0, <3>2 DEF RowInv
    <3>5. Stored("clientinfo")' \subseteq Stored("serverinfo")'
      BY <1>0, <3>1, <3>4 DEF RowInv
    <3>6. \A other \in Tables : id \in Stored(other)'
      BY <3>1, <3>4 DEF Tables
    <3> QED
      BY <1>0, <1>1, <2>2, <2>4, <2>5, <3>1, <3>3, <3>5, <3>6 DEF RowInv, Idle, Positions
  <2> QED
    BY <1>1, <2>6, <2>7
<1> QED
  BY <1>1, <1>2, <1>3

(* A step of WritePart keeps the file in pairs.                            *)
LEMMA WriteStep ==
  ASSUME OutputInv, WritePart
  PROVE  FileInv'
<1>0. RowInv /\ SinkInv /\ FileInv
  BY DEF OutputInv
<1>1. /\ \/ at = [sink |-> 2, part |-> 1] /\ Parts[at.part] = "serverinfo"
         \/ at = [sink |-> 2, part |-> 2] /\ Parts[at.part] = "clientinfo"
      /\ at' \in {Idle, [sink |-> 2, part |-> 2]}
      /\ \/ /\ file' = Append(file, [part |-> Parts[at.part], id |-> id, whole |-> TRUE])
            /\ \/ at = [sink |-> 2, part |-> 1] /\ at' = [sink |-> 2, part |-> 2]
               \/ at = [sink |-> 2, part |-> 2] /\ at' = Idle
            /\ torn' = torn
         \/ /\ file' = Append(file, [part |-> Parts[at.part], id |-> id, whole |-> FALSE])
            /\ torn'
         \/ file' = file /\ torn'
      /\ UNCHANGED <<sinks, rows, id>>
  BY WriteEffect
<1>2. sinks # <<>>
  BY <1>0, <1>1 DEF SinkInv, Idle
<1>3. \A table \in Tables : id \in Stored(table) /\ Stored(table)' = Stored(table)
  BY <1>0, <1>1 DEF RowInv, Positions, Stored
<1>4. CASE file' = file /\ torn'
  BY <1>0, <1>1, <1>3, <1>4 DEF FileInv
<1>5. ASSUME NEW b \in BOOLEAN,
             file' = Append(file, [part |-> Parts[at.part], id |-> id, whole |-> b]),
             torn' \/ /\ torn' = torn
                      /\ \/ at = [sink |-> 2, part |-> 1] /\ at' = [sink |-> 2, part |-> 2]
                         \/ at = [sink |-> 2, part |-> 2] /\ at' = Idle
      PROVE  FileInv'
  <2> DEFINE new == [part |-> Parts[at.part], id |-> id, whole |-> b]
             e == Len(file) + 1
  <2>1. new \in Parts2 /\ new.part = Parts[at.part] /\ new.id = id
    BY <1>0, <1>1 DEF Parts2, RowInv, Tables
  <2>2. file' = Append(file, new)
    BY <1>5
  <2> HIDE DEF new
  <2>3. /\ file' \in Seq(Parts2) /\ Len(file) \in Nat /\ Len(file') = e
        /\ DOMAIN file' = 1..e /\ DOMAIN file = 1..Len(file)
        /\ \A i \in DOMAIN file : file'[i] = file[i]
        /\ file'[e] = new
    BY <1>0, <2>1, <2>2 DEF FileInv
  <2>4. \A i \in DOMAIN file' : i \in DOMAIN file \/ i = e
    BY <2>3
  <2>5. \A i \in DOMAIN file' : \A table \in Tables : file'[i].id \in Stored(table)'
    BY <1>0, <1>3, <2>1, <2>3, <2>4 DEF FileInv
  <2>6. CASE torn'
    BY <2>3, <2>5, <2>6 DEF FileInv
  <2>7. CASE ~torn'
    <3>1. ~torn
      BY <1>5, <2>7
    <3>2. CASE at = [sink |-> 2, part |-> 1]
      <4>1. at # [sink |-> 2, part |-> 2]
        BY <3>2
      <4>2. Len(file) % 2 = 0
        BY <1>0, <1>2, <3>1, <4>1 DEF FileInv
      <4>3. e % 2 = 1
        BY <2>3, <4>2
      <4>4. at' = [sink |-> 2, part |-> 2] /\ new.part = "serverinfo" /\ new.id = id'
        BY <1>1, <1>5, <2>1, <2>7, <4>1
      <4>5. \A i \in DOMAIN file' :
               IF i % 2 = 1 THEN file'[i].part = "serverinfo"
               ELSE file'[i].part = "clientinfo" /\ file'[i].id = file'[i - 1].id
        <5>1. ASSUME NEW i \in DOMAIN file
              PROVE  IF i % 2 = 1 THEN file'[i].part = "serverinfo"
                     ELSE file'[i].part = "clientinfo" /\ file'[i].id = file'[i - 1].id
          <6>1. CASE i % 2 = 1
            BY <1>0, <2>3, <3>1, <6>1 DEF FileInv
          <6>2. CASE i % 2 # 1
            <7>1. i - 1 \in DOMAIN file
              BY <2>3, <6>2
            <7> QED
              BY <1>0, <2>3, <3>1, <6>2, <7>1 DEF FileInv
          <6> QED
            BY <6>1, <6>2
        <5> QED
          BY <2>3, <2>4, <4>3, <4>4, <5>1
      <4> QED
        BY <1>1, <2>3, <2>5, <4>3, <4>4, <4>5 DEF FileInv
    <3>3. CASE at = [sink |-> 2, part |-> 2]
      <4>1. Len(file) % 2 = 1 /\ file[Len(file)].id = id
        BY <1>0, <1>2, <3>1, <3>3 DEF FileInv
      <4>2. e % 2 = 0 /\ e - 1 = Len(file) /\ Len(file) \in DOMAIN file
        BY <2>3, <4>1
      <4>3. at' = Idle /\ Idle # [sink |-> 2, part |-> 2] /\ new.part = "clientinfo" /\ new.id = id
        BY <1>1, <1>5, <2>1, <2>7, <3>3 DEF Idle
      <4>4. \A i \in DOMAIN file' :
               IF i % 2 = 1 THEN file'[i].part = "serverinfo"
               ELSE file'[i].part = "clientinfo" /\ file'[i].id = file'[i - 1].id
        <5>1. ASSUME NEW i \in DOMAIN file
              PROVE  IF i % 2 = 1 THEN file'[i].part = "serverinfo"
                     ELSE file'[i].part = "clientinfo" /\ file'[i].id = file'[i - 1].id
          <6>1. CASE i % 2 = 1
            BY <1>0, <2>3, <3>1, <6>1 DEF FileInv
          <6>2. CASE i % 2 # 1
            <7>1. i - 1 \in DOMAIN file
              BY <2>3, <6>2
            <7> QED
              BY <1>0, <2>3, <3>1, <6>2, <7>1 DEF FileInv
          <6> QED
            BY <6>1, <6>2
        <5>2. file'[e].part = "clientinfo" /\ file'[e].id = file'[e - 1].id
          BY <2>3, <4>1, <4>2, <4>3
        <5> QED
          BY <2>4, <4>2, <5>1, <5>2
      <4> QED
        BY <2>3, <2>5, <4>2, <4>3, <4>4 DEF FileInv
    <3> QED
      BY <1>1, <3>2, <3>3
  <2> QED
    BY <2>6, <2>7
<1> QED
  BY <1>1, <1>4, <1>5

LEMMA OutputStep ==
  ASSUME OutputInv, [Next]_vars
  PROVE  OutputInv'
<1>0. RowInv /\ SinkInv /\ FileInv
  BY DEF OutputInv
<1>1. CASE Start
  <2>1. sinks = <<>> /\ sinks' = <<"db", "file">> /\ file' = <<>> /\ UNCHANGED <<rows, at, id>>
    BY <1>1 DEF Start
  <2>2. RowInv'
    BY <1>0, <2>1 DEF RowInv, Stored
  <2>3. SinkInv' /\ at' = Idle
    BY <1>0, <2>1 DEF SinkInv
  <2>4. at' # [sink |-> 2, part |-> 2]
    BY <2>3 DEF Idle
  <2>5. FileInv'
    BY <2>1, <2>4 DEF FileInv
  <2> QED
    BY <2>2, <2>3, <2>5 DEF OutputInv
<1>2. CASE End
  <2>1. sinks' = <<>> /\ at' = Idle /\ UNCHANGED <<rows, file, torn, id>>
    BY <1>2 DEF End
  <2>2. RowInv'
    BY <1>0, <2>1 DEF RowInv, Stored, Idle, Positions
  <2>3. SinkInv' /\ FileInv'
    BY <1>0, <2>1 DEF SinkInv, FileInv, Stored
  <2> QED
    BY <2>2, <2>3 DEF OutputInv
<1>3. ASSUME NEW response, NEW size, Take(response, size)
      PROVE  OutputInv'
  <2>1. /\ sinks # <<>> /\ at = Idle /\ id' = id + 1 /\ at' = [sink |-> 1, part |-> 1]
        /\ UNCHANGED <<sinks, rows, file, torn>>
    BY <1>3 DEF Take, sinkVars
  <2>2. id' \in Nat
    BY <1>0, <2>1 DEF RowInv
  <2>3. \A table \in Tables : \A i \in Stored(table) : i \in Nat /\ i <= id
    <3>1. \A table \in Tables : rows[table] \in Seq(Nat)
      BY <1>0 DEF RowInv
    <3>2. \A table \in Tables : \A n \in DOMAIN rows[table] : rows[table][n] \in Nat
      BY <3>1
    <3> QED
      BY <1>0, <3>2 DEF RowInv, Stored, ToSet
  <2>4. \A table \in Tables : \A i \in Stored(table) : i <= id' /\ i # id'
    BY <1>0, <2>1, <2>3 DEF RowInv
  <2>5. RowInv'
    BY <1>0, <2>1, <2>2, <2>4 DEF RowInv, Stored, Positions
  <2>6. SinkInv'
    BY <1>0, <2>1 DEF SinkInv
  <2>7. at # [sink |-> 2, part |-> 2] /\ at' # [sink |-> 2, part |-> 2]
    BY <2>1 DEF Idle
  <2>8. FileInv'
    BY <1>0, <2>1, <2>7 DEF FileInv, Stored
  <2> QED
    BY <2>5, <2>6, <2>8 DEF OutputInv
<1>4. CASE CopyRow
  <2>1. RowInv'
    BY <1>4, CopyStep
  <2>2. /\ at \in {[sink |-> 1, part |-> 1], [sink |-> 1, part |-> 2]}
        /\ at' \in {Idle, [sink |-> 1, part |-> 2], [sink |-> 2, part |-> 1]}
        /\ UNCHANGED <<sinks, file, torn, id>>
    BY <1>4, CopyEffect
  <2>3. sinks # <<>>
    BY <1>0, <2>2 DEF SinkInv, Idle
  <2>4. at # [sink |-> 2, part |-> 2] /\ at' # [sink |-> 2, part |-> 2]
    BY <2>2 DEF Idle
  <2>5. \A table \in Tables : Stored(table) \subseteq Stored(table)'
    <3>1. CASE rows' = rows
      BY <3>1 DEF Stored
    <3>2. CASE rows' = [rows EXCEPT ![Parts[at.part]] = Append(@, id)]
      <4>1. PICK t \in Tables : t = Parts[at.part]
        BY <1>4, CopyEffect DEF Tables
      <4>2. rows[t] \in Seq(Nat) /\ id \in Nat
        BY <1>0 DEF RowInv
      <4>3. ToSet(Append(rows[t], id)) = ToSet(rows[t]) \cup {id}
        BY <4>2, AppendSet
      <4>4. rows'[t] = Append(rows[t], id) /\ \A u \in Tables : u # t => rows'[u] = rows[u]
        BY <1>0, <3>2, <4>1 DEF RowInv
      <4> QED
        BY <4>3, <4>4 DEF Stored
    <3> QED
      BY <1>4, <3>1, <3>2, CopyEffect
  <2>6. SinkInv'
    BY <1>0, <2>2, <2>3 DEF SinkInv
  <2>7. FileInv'
    BY <1>0, <2>2, <2>4, <2>5 DEF FileInv
  <2> QED
    BY <2>1, <2>6, <2>7 DEF OutputInv
<1>5. CASE WritePart
  <2>1. FileInv'
    BY <1>5, WriteStep
  <2>2. /\ at \in {[sink |-> 2, part |-> 1], [sink |-> 2, part |-> 2]}
        /\ at' \in {Idle, [sink |-> 2, part |-> 2]}
        /\ UNCHANGED <<sinks, rows, id>>
    BY <1>5, WriteEffect
  <2>3. at \in Positions /\ at.sink = 2
    BY <2>2 DEF Positions
  <2>4. RowInv'
    BY <1>0, <2>2, <2>3 DEF RowInv, Stored, Idle, Positions
  <2>5. SinkInv'
    BY <1>0, <2>2 DEF SinkInv, Idle
  <2> QED
    BY <2>1, <2>4, <2>5 DEF OutputInv
<1>6. CASE UNCHANGED vars
  BY <1>0, <1>6 DEF vars, sinkVars, OutputInv, RowInv, SinkInv, FileInv, Stored
<1> QED
  BY <1>1, <1>2, <1>3, <1>4, <1>5, <1>6 DEF Next

LEMMA OutputInit ==
  ASSUME Init
  PROVE  OutputInv
<1>1. rows = [table \in Tables |-> <<>>]
  BY TableNames DEF Init
<1>2. \A table \in Tables : rows[table] = <<>>
  BY <1>1
<1>3. \A table \in Tables : Stored(table) = {} /\ Len(rows[table]) = 0
  BY <1>2 DEF Stored, ToSet
<1>4. rows \in [Tables -> Seq(Nat)]
  BY <1>1
<1>5. IsFiniteSet({}) /\ Cardinality({}) = 0
  BY FS_EmptySet
<1>6. RowInv
  <2>1. at = [sink |-> 0, part |-> 0] /\ at.sink = 0 /\ at.part = 0 /\ id = 0
    BY DEF Init, Idle
  <2>2. at # [sink |-> 1, part |-> 1] /\ at # [sink |-> 1, part |-> 2]
        /\ at # [sink |-> 2, part |-> 1] /\ at # [sink |-> 2, part |-> 2]
    BY <2>1
  <2>3. at \in {Idle} \cup Positions /\ id \in Nat
    BY <2>1 DEF Idle
  <2>4. \A table \in Tables : IsFiniteSet(Stored(table)) /\ Cardinality(Stored(table)) = Len(rows[table])
    BY <1>3, <1>5
  <2>5. \A table \in Tables : \A i \in Stored(table) : i <= id
    BY <1>3
  <2>6. Stored("clientinfo") \subseteq Stored("serverinfo")
    BY <1>3 DEF Tables
  <2>7. ~(at \in Positions /\ at.sink = 2)
    BY <2>1
  <2> QED
    BY <1>4, <2>2, <2>3, <2>4, <2>5, <2>6, <2>7 DEF RowInv
<1>7. SinkInv /\ FileInv
  BY DEF Init, SinkInv, FileInv
<1> QED
  BY <1>6, <1>7 DEF OutputInv

LEMMA OutputInvariant == Spec => []OutputInv
<1> QED
  BY OutputInit, OutputStep, PTL DEF Spec

(* Whatever fails between the two COPYs, a row of clientinfo has its row   *)
(* of serverinfo, and no interaction has two.                              *)
THEOREM RowsCorrect == Spec => []RowsPaired
<1>1. OutputInv => RowsPaired
  BY DEF OutputInv, RowInv, RowsPaired, Stored, Tables
<1> QED
  BY <1>1, OutputInvariant, PTL

(* The file has nothing the database refused, and pairs only, until a      *)
(* write fails.                                                            *)
THEOREM FileCorrect == Spec => []FileFollowsDb
<1>1. OutputInv => FileFollowsDb
  BY DEF OutputInv, RowInv, FileInv, FileFollowsDb, Stored
<1> QED
  BY <1>1, OutputInvariant, PTL
-----------------------------------------------------------------------------
(* Hexadecimal digits and numbers.                                         *)
HexSet == ToSet(Digits)

LEMMA SixteenDigits ==
  /\ Digits \in Seq(HexSet) /\ Len(Digits) = 16
  /\ \A i, j \in 1..16 : Digits[i] = Digits[j] => i = j
  /\ \A i \in 1..16 : Digits[i] # "CR" /\ Digits[i] # "LF" /\ (Digits[i] = "0" <=> i = 1)
<1>1. Digits \in Seq(HexSet) /\ Len(Digits) = 16
  <2>1. Len(Digits) = 16 /\ Digits = [i \in 1..16 |-> Digits[i]]
    BY DEF Digits
  <2>2. \A i \in 1..16 : Digits[i] \in HexSet
    BY <2>1 DEF HexSet, ToSet
  <2> QED
    BY <2>1, <2>2
<1>2. \A i \in 1..16 : Digits[i] # "CR" /\ Digits[i] # "LF" /\ (Digits[i] = "0" <=> i = 1)
  BY DEF Digits
<1>3. \A i, j \in 1..16 : Digits[i] = Digits[j] => i = j
  BY DEF Digits
<1> QED
  BY <1>1, <1>2, <1>3

LEMMA MinOfNat ==
  ASSUME NEW S \in SUBSET Nat, S # {}
  PROVE  Min(S) \in S /\ \A n \in S : Min(S) <= n
<1>1. \E m \in S : \A n \in S : m <= n
  BY SmallestNat
<1> QED
  BY <1>1 DEF Min

LEMMA DigitIs ==
  ASSUME NEW k \in 0..15
  PROVE  Digits[k + 1] \in HexSet /\ DigitValue(Digits[k + 1]) = k
<1> DEFINE I == {i \in 1..Len(Digits) : Digits[i] = Digits[k + 1]}
<1>1. k + 1 \in 1..16
  OBVIOUS
<1>2. I = {k + 1}
  BY <1>1, SixteenDigits
<1>3. Min(I) = k + 1
  BY <1>2, MinIs
<1>4. SelectInSeq(Digits, LAMBDA d : d = Digits[k + 1]) = k + 1
  BY <1>2, <1>3 DEF SelectInSeq
<1>5. DigitValue(Digits[k + 1]) = k
  BY <1>4 DEF DigitValue
<1> QED
  BY <1>1, <1>5, SixteenDigits, SMTT(30) DEF HexSet, ToSet

LEMMA DigitOf ==
  ASSUME NEW c \in HexSet
  PROVE  /\ c \in Chars /\ c # "CR" /\ c # "LF"
         /\ DigitValue(c) \in 0..15 /\ c = Digits[DigitValue(c) + 1]
<1>1. PICK i \in 1..16 : c = Digits[i]
  BY SixteenDigits DEF HexSet, ToSet
<1>2. i - 1 \in 0..15 /\ (i - 1) + 1 = i
  BY <1>1
<1>3. DigitValue(c) = i - 1
  BY <1>1, <1>2, DigitIs
<1>4. c \in Chars
  BY CharsAssumption DEF HexSet
<1> QED
  BY <1>1, <1>2, <1>3, <1>4, SixteenDigits
(* HexValue and HexDigits are recursive; HexRun is the recursion of the    *)
(* first as a formula.                                                     *)
HexRun(f, s) ==
  f = [i \in 0..Len(s) |-> IF i = 0 THEN 0 ELSE 16 * f[i - 1] + DigitValue(s[i])]

LEMMA DigitInt == \A c : DigitValue(c) \in Int
<1>1. SUFFICES ASSUME NEW c PROVE DigitValue(c) \in Int
  OBVIOUS
<1> DEFINE I == {i \in 1..Len(Digits) : Digits[i] = c}
<1>2. I \in SUBSET Nat
  BY SixteenDigits
<1>3. I # {} => Min(I) \in Nat
  BY <1>2, MinOfNat
<1>4. SelectInSeq(Digits, LAMBDA d : d = c) \in Int
  BY <1>3 DEF SelectInSeq
<1> QED
  BY <1>4 DEF DigitValue

LEMMA HexRunExists ==
  ASSUME NEW s, Len(s) \in Nat
  PROVE  \E f : HexRun(f, s)
<1> DEFINE step == [p \in Nat \X Int |-> 16 * p[2] + DigitValue(s[p[1] + 1])]
<1>1. step \in [Nat \X Int -> Int]
  <2>1. \A n \in Nat, x \in Int : 16 * x + DigitValue(s[n + 1]) \in Int
    BY DigitInt
  <2> QED
    BY <2>1
<1>2. \A n \in Nat, x \in Int : step[<<n, x>>] = 16 * x + DigitValue(s[n + 1])
  OBVIOUS
<1> HIDE DEF step
<1>3. PICK g \in [Nat -> Int] : Iterates(g, 0, step)
  <2>1. 0 \in Int
    OBVIOUS
  <2> QED
    BY <1>1, <2>1, RecursionOnNat
<1> DEFINE f == [i \in 0..Len(s) |-> g[i]]
<1>4. ASSUME NEW i \in 0..Len(s)
      PROVE  f[i] = IF i = 0 THEN 0 ELSE 16 * f[i - 1] + DigitValue(s[i])
  <2>1. CASE i = 0
    BY <1>3, <2>1 DEF Iterates
  <2>2. CASE i # 0
    <3>1. i - 1 \in Nat /\ (i - 1) + 1 = i /\ i - 1 \in 0..Len(s)
      BY <2>2
    <3>2. g[(i - 1) + 1] = step[<<i - 1, g[i - 1]>>]
      BY <1>3, <3>1 DEF Iterates
    <3>3. step[<<i - 1, g[i - 1]>>] = 16 * g[i - 1] + DigitValue(s[(i - 1) + 1])
      BY <1>2, <1>3, <3>1
    <3> QED
      BY <2>2, <3>1, <3>2, <3>3
  <2> QED
    BY <2>1, <2>2
<1> QED
  BY <1>4 DEF HexRun

LEMMA HexRunSteps ==
  ASSUME NEW s, Len(s) \in Nat, NEW f, HexRun(f, s)
  PROVE  f[0] = 0 /\ \A i \in 1..Len(s) : f[i] = 16 * f[i - 1] + DigitValue(s[i])
<1>1. \A i \in 0..Len(s) : f[i] = IF i = 0 THEN 0 ELSE 16 * f[i - 1] + DigitValue(s[i])
  BY DEF HexRun
<1> QED
  BY <1>1

LEMMA HexRunAgrees ==
  ASSUME NEW s, NEW t, Len(s) \in Nat, Len(t) \in Nat,
         NEW k \in Nat, k <= Len(s), k <= Len(t), \A i \in 1..k : s[i] = t[i],
         NEW f, NEW g, HexRun(f, s), HexRun(g, t)
  PROVE  f[k] = g[k]
<1> DEFINE G == {i \in Nat : i <= k => f[i] = g[i]}
<1>1. 0 \in G
  BY HexRunSteps
<1>2. ASSUME NEW i \in G PROVE i + 1 \in G
  <2>1. SUFFICES ASSUME i + 1 <= k PROVE f[i + 1] = g[i + 1]
    BY <1>2
  <2>2. i + 1 \in 1..Len(s) /\ i + 1 \in 1..Len(t) /\ i + 1 \in 1..k /\ (i + 1) - 1 = i
    BY <1>2, <2>1
  <2>3. f[i + 1] = 16 * f[(i + 1) - 1] + DigitValue(s[i + 1])
    BY <2>2, HexRunSteps
  <2>4. g[i + 1] = 16 * g[(i + 1) - 1] + DigitValue(t[i + 1])
    BY <2>2, HexRunSteps
  <2>5. f[i] = g[i]
    BY <1>2, <2>1
  <2> QED
    BY <2>2, <2>3, <2>4, <2>5
<1> HIDE DEF G
<1>3. G = Nat
  <2>1. G \in SUBSET Nat
    BY DEF G
  <2> QED
    BY <1>1, <1>2, <2>1, InductionOnNat
<1> QED
  BY <1>3 DEF G

LEMMA HexRunNat ==
  ASSUME NEW s, Len(s) \in Nat, NEW k \in 0..Len(s), \A i \in 1..k : s[i] \in HexSet,
         NEW f, HexRun(f, s)
  PROVE  f[k] \in Nat
<1> DEFINE G == {i \in Nat : i <= k => f[i] \in Nat}
<1>1. 0 \in G
  BY HexRunSteps
<1>2. ASSUME NEW i \in G PROVE i + 1 \in G
  <2>1. SUFFICES ASSUME i + 1 <= k PROVE f[i + 1] \in Nat
    BY <1>2
  <2>2. i + 1 \in 1..Len(s) /\ i + 1 \in 1..k /\ (i + 1) - 1 = i
    BY <1>2, <2>1
  <2>3. f[i + 1] = 16 * f[(i + 1) - 1] + DigitValue(s[i + 1])
    BY <2>2, HexRunSteps
  <2>4. f[i] \in Nat
    BY <1>2, <2>1
  <2>5. s[i + 1] \in HexSet
    BY <2>2
  <2>6. DigitValue(s[i + 1]) \in 0..15
    BY <2>5, DigitOf
  <2> QED
    <3>1. f[i + 1] = 16 * f[i] + DigitValue(s[i + 1])
      BY <2>2, <2>3
    <3>2. \A x \in Nat, y \in 0..15 : 16 * x + y \in Nat
      OBVIOUS
    <3> QED
      BY <2>4, <2>6, <3>1, <3>2
<1> HIDE DEF G
<1>3. G = Nat
  <2>1. G \in SUBSET Nat
    BY DEF G
  <2> QED
    BY <1>1, <1>2, <2>1, InductionOnNat
<1> QED
  BY <1>3 DEF G

LEMMA HexValueIs ==
  ASSUME NEW s, Len(s) \in Nat
  PROVE  \E f : \E k \in 0..Len(s) :
             /\ HexRun(f, s) /\ HexValue(s) = f[k]
             /\ \A i \in 1..k : s[i] \in HexSet
             /\ (\A i \in 1..Len(s) : s[i] \in HexSet) => k = Len(s)
<1> DEFINE F == CHOOSE f : HexRun(f, s)
           first == {i \in 1..Len(s) : s[i] \notin HexSet}
           k == IF first = {} THEN Len(s) ELSE Min(first) - 1
<1>1. HexRun(F, s)
  BY HexRunExists
<1>2. HexValue(s) = F[k]
  BY DEF HexValue, HexRun, HexSet
<1>3. k \in 0..Len(s) /\ \A i \in 1..k : s[i] \in HexSet
  <2>1. CASE first = {}
    BY <2>1
  <2>2. CASE first # {}
    <3>1. first \in SUBSET Nat
      OBVIOUS
    <3>2. Min(first) \in first /\ \A n \in first : Min(first) <= n
      BY <2>2, <3>1, MinOfNat
    <3>3. k = Min(first) - 1 /\ Min(first) \in 1..Len(s)
      BY <2>2, <3>2
    <3>4. ASSUME NEW i \in 1..k PROVE s[i] \in HexSet
      <4>1. i \in 1..Len(s) /\ ~(Min(first) <= i)
        BY <3>3
      <4> QED
        BY <3>2, <4>1
    <3> QED
      BY <3>3, <3>4
  <2> QED
    BY <2>1, <2>2
<1>4. (\A i \in 1..Len(s) : s[i] \in HexSet) => k = Len(s)
  OBVIOUS
<1> HIDE DEF F, k
<1> QED
  BY <1>1, <1>2, <1>3, <1>4

LEMMA HexNat ==
  ASSUME NEW s, Len(s) \in Nat
  PROVE  HexValue(s) \in Nat
<1>1. PICK f : \E k \in 0..Len(s) : /\ HexRun(f, s) /\ HexValue(s) = f[k]
                                    /\ \A i \in 1..k : s[i] \in HexSet
  BY HexValueIs
<1>2. PICK k \in 0..Len(s) : /\ HexRun(f, s) /\ HexValue(s) = f[k]
                             /\ \A i \in 1..k : s[i] \in HexSet
  BY <1>1
<1> QED
  BY <1>2, HexRunNat

LEMMA HexOne ==
  ASSUME NEW d \in HexSet
  PROVE  HexValue(<<d>>) = DigitValue(d)
<1>1. Len(<<d>>) = 1 /\ <<d>>[1] = d /\ \A i \in 1..1 : <<d>>[i] \in HexSet
  OBVIOUS
<1>2. PICK f : HexRun(f, <<d>>) /\ HexValue(<<d>>) = f[1]
  BY <1>1, HexValueIs
<1>3. f[0] = 0 /\ \A i \in 1..1 : f[i] = 16 * f[i - 1] + DigitValue(<<d>>[i])
  <2>1. Len(<<d>>) \in Nat
    BY <1>1
  <2> QED
    BY <1>1, <1>2, <2>1, HexRunSteps
<1>4. f[1] = DigitValue(d)
  <2>1. f[1] = 16 * f[1 - 1] + DigitValue(<<d>>[1]) /\ DigitValue(d) \in Int
    BY <1>3, DigitInt
  <2> QED
    BY <1>1, <1>3, <2>1
<1> QED
  BY <1>2, <1>4

LEMMA HexAppend ==
  ASSUME NEW s \in Seq(HexSet), NEW d \in HexSet
  PROVE  HexValue(Append(s, d)) = 16 * HexValue(s) + DigitValue(d)
<1> DEFINE t == Append(s, d)
           n == Len(s)
<1>1. n \in Nat /\ \A i \in 1..n : s[i] \in HexSet
  BY LenProperties, ElementOfSeq
<1>2. Len(t) = n + 1 /\ t[n + 1] = d /\ \A i \in 1..n : t[i] = s[i]
  BY AppendProperties
<1> HIDE DEF t
<1>3. \A i \in 1..Len(t) : t[i] \in HexSet
  BY <1>1, <1>2
<1>4. PICK f : HexRun(f, s) /\ HexValue(s) = f[n]
  BY <1>1, HexValueIs
<1>5. PICK g : HexRun(g, t) /\ HexValue(t) = g[n + 1]
  BY <1>1, <1>2, <1>3, HexValueIs
<1>6. f[n] = g[n]
  BY <1>1, <1>2, <1>4, <1>5, HexRunAgrees
<1>7. n + 1 \in 1..Len(t) /\ (n + 1) - 1 = n
  BY <1>1, <1>2
<1>8. g[n + 1] = 16 * g[(n + 1) - 1] + DigitValue(t[n + 1])
  BY <1>1, <1>2, <1>5, <1>7, HexRunSteps
<1> QED
  BY <1>2, <1>4, <1>5, <1>6, <1>7, <1>8 DEF t
LEMMA HexDigitsIs ==
  ASSUME NEW n \in Nat
  PROVE  HexDigits[n] = IF n < 16 THEN <<Digits[n + 1]>>
                        ELSE Append(HexDigits[n \div 16], Digits[(n % 16) + 1])
<1> DEFINE X == Seq(HexSet)
           body(m, f) == IF m < 16 THEN <<Digits[m + 1]>>
                         ELSE Append(f[m \div 16], Digits[(m % 16) + 1])
           step == [p \in Nat \X [Nat -> X] |-> body(p[1], p[2])]
<1>1. ASSUME NEW m \in Nat
      PROVE  /\ m < 16 => m \in 0..15
             /\ m % 16 \in 0..15
             /\ m >= 16 => m \div 16 \in 0..(m - 1)
  OBVIOUS
<1>2. ASSUME NEW m \in Nat, NEW f \in [Nat -> X] PROVE body(m, f) \in X
  <2>1. CASE m < 16
    <3>1. Digits[m + 1] \in HexSet
      BY <1>1, <2>1, DigitIs
    <3> QED
      BY <2>1, <3>1
  <2>2. CASE ~(m < 16)
    <3>1. Digits[(m % 16) + 1] \in HexSet
      BY <1>1, DigitIs
    <3>2. f[m \div 16] \in X
      BY <1>1, <2>2
    <3>3. Append(f[m \div 16], Digits[(m % 16) + 1]) \in X
      BY <3>1, <3>2, AppendProperties
    <3> QED
      BY <2>2, <3>3
  <2> QED
    BY <2>1, <2>2
<1>3. \A m \in Nat, f \in [Nat -> X] : step[<<m, f>>] = body(m, f)
  OBVIOUS
<1>4. LooksBack(step, X)
  <2> SUFFICES ASSUME NEW m \in Nat, NEW f \in [Nat -> X], NEW g \in [Nat -> X],
                      \A k \in 0..(m - 1) : f[k] = g[k]
               PROVE  step[<<m, f>>] = step[<<m, g>>]
    BY DEF LooksBack
  <2>1. m >= 16 => f[m \div 16] = g[m \div 16]
    BY <1>1
  <2>2. body(m, f) = body(m, g)
    BY <2>1
  <2> HIDE DEF body, step
  <2> QED
    BY <1>3, <2>2
<1>5. <<>> \in X
  OBVIOUS
<1> HIDE DEF body
<1>6. step \in [Nat \X [Nat -> X] -> X]
  BY <1>2
<1> HIDE DEF step, X
<1>7. PICK f \in [Nat -> X] : ByHistory(f, step)
  BY <1>4, <1>5, <1>6, RecursionOnHistory
<1>8. \A m \in Nat : f[m] = body(m, f)
  BY <1>3, <1>7 DEF ByHistory
<1>9. f = [m \in Nat |-> IF m < 16 THEN <<Digits[m + 1]>>
                         ELSE Append(f[m \div 16], Digits[(m % 16) + 1])]
  BY <1>7, <1>8 DEF body
<1>10. HexDigits = [m \in Nat |-> IF m < 16 THEN <<Digits[m + 1]>>
                         ELSE Append(HexDigits[m \div 16], Digits[(m % 16) + 1])]
  BY <1>9, Zenon DEF HexDigits
<1> QED
  BY <1>10

(* The size of a chunk is read as it was written.                          *)
LEMMA SizeRead ==
  ASSUME NEW n \in Nat
  PROVE  /\ SizeLine(n) \in Seq(HexSet) /\ Len(SizeLine(n)) \in Nat \ {0}
         /\ HexValue(SizeLine(n)) = n
<1> DEFINE G == {m \in Nat : /\ HexDigits[m] \in Seq(HexSet) /\ Len(HexDigits[m]) \in Nat \ {0}
                             /\ HexValue(HexDigits[m]) = m}
<1>1. ASSUME NEW m \in Nat, \A k \in 0..(m - 1) : k \in G PROVE m \in G
  <2>1. CASE m < 16
    <3> DEFINE d == Digits[m + 1]
    <3>1. m \in 0..15
      BY <2>1
    <3>2. d \in HexSet /\ DigitValue(d) = m
      BY <3>1, DigitIs
    <3>3. HexDigits[m] = <<d>>
      BY <2>1, HexDigitsIs
    <3> HIDE DEF d
    <3>4. <<d>> \in Seq(HexSet) /\ Len(<<d>>) = 1
      BY <3>2
    <3>5. HexValue(<<d>>) = m
      BY <3>2, HexOne
    <3>6. HexDigits[m] \in Seq(HexSet) /\ Len(HexDigits[m]) \in Nat \ {0}
      BY <3>3, <3>4
    <3>7. HexValue(HexDigits[m]) = m
      BY <3>3, <3>5
    <3> QED
      BY <3>6, <3>7
  <2>2. CASE ~(m < 16)
    <3> DEFINE d == Digits[(m % 16) + 1]
               s == HexDigits[m \div 16]
    <3>1. m % 16 \in 0..15 /\ m \div 16 \in 0..(m - 1) /\ m = 16 * (m \div 16) + (m % 16)
      BY <2>2
    <3>2. d \in HexSet /\ DigitValue(d) = m % 16
      BY <3>1, DigitIs
    <3>3. s \in Seq(HexSet) /\ HexValue(s) = m \div 16
      BY <1>1, <3>1
    <3>4. HexDigits[m] = Append(s, d)
      BY <2>2, HexDigitsIs
    <3> HIDE DEF d, s
    <3>5. HexValue(Append(s, d)) = 16 * HexValue(s) + DigitValue(d)
      BY <3>2, <3>3, HexAppend
    <3>6. Append(s, d) \in Seq(HexSet) /\ Len(Append(s, d)) = Len(s) + 1 /\ Len(s) \in Nat
      BY <3>2, <3>3, AppendProperties, LenProperties
    <3>7. HexValue(HexDigits[m]) = m
      BY <3>1, <3>2, <3>3, <3>4, <3>5
    <3>8. HexDigits[m] \in Seq(HexSet) /\ Len(HexDigits[m]) \in Nat \ {0}
      BY <3>4, <3>6
    <3> QED
      BY <3>7, <3>8
  <2> QED
    BY <2>1, <2>2
<1> HIDE DEF G
<1>2. G = Nat
  <2>1. G \in SUBSET Nat
    BY DEF G
  <2> QED
    BY <1>1, <2>1, StrongInduction
<1> QED
  BY <1>2 DEF G, SizeLine
-----------------------------------------------------------------------------
(* The scan of a body, one size line at a time.                            *)
AllChars == Chars \cup {Unknown}
Outcomes == [out : Seq(AllChars), complete : {0, 1}]

ScanStep(entity, i, scan) ==
  IF i = Len(entity) THEN [out |-> <<>>, complete |-> 0]
  ELSE IF LineEnds(entity, i) = {}
       THEN [out |-> <<>>, complete |-> IF entity[Len(entity)] = "0" THEN 1 ELSE 0]
  ELSE LET end        == Min(LineEnds(entity, i))
           contentLen == HexValue(SubSeq(entity, i + 1, end))
       IN  IF contentLen = 0 THEN [out |-> <<>>, complete |-> 1]
           ELSE IF contentLen > MaxBuff THEN scan[end + 2]
           ELSE LET rest == scan[Smaller(After(end, contentLen), Len(entity))]
                IN  [rest EXCEPT !.out = ChunkData(entity, end + 2, contentLen) \o @]
Scans(f, entity) == f = [i \in 0..Len(entity) |-> ScanStep(entity, i, f)]

LEMMA LineEnd ==
  ASSUME NEW entity \in Seq(Chars), NEW i \in 0..Len(entity), LineEnds(entity, i) # {}
  PROVE  /\ Min(LineEnds(entity, i)) \in i..(Len(entity) - 2)
         /\ Min(LineEnds(entity, i)) + 2 \in (i + 1)..Len(entity)
         /\ HexValue(SubSeq(entity, i + 1, Min(LineEnds(entity, i)))) \in Nat
         /\ \A n \in Nat : Smaller(After(Min(LineEnds(entity, i)), n), Len(entity)) \in (i + 1)..Len(entity)
<1> DEFINE e == Min(LineEnds(entity, i))
<1>1. Len(entity) \in Nat
  BY LenProperties
<1>2. LineEnds(entity, i) \in SUBSET Nat
  BY <1>1 DEF LineEnds
<1>3. e \in LineEnds(entity, i)
  BY <1>2, MinOfNat
<1> HIDE DEF e
<1>4. e \in i..(Len(entity) - 2)
  BY <1>3 DEF LineEnds
<1>5. e + 2 \in (i + 1)..Len(entity)
  BY <1>1, <1>4
<1>6. \A n \in Nat : Smaller(After(e, n), Len(entity)) \in (i + 1)..Len(entity)
  BY <1>1, <1>4 DEF Smaller, After
<1>7. SubSeq(entity, i + 1, e) \in Seq(Chars)
  <2>1. \A j \in (i + 1)..e : entity[j] \in Chars
    <3>1. \A j \in (i + 1)..e : j \in 1..Len(entity)
      BY <1>1, <1>4
    <3> QED
      BY <3>1, ElementOfSeq
  <2>2. i + 1 \in Int /\ e \in Int
    BY <1>4
  <2> QED
    BY <2>1, <2>2, SubSeqProperties
<1>8. HexValue(SubSeq(entity, i + 1, e)) \in Nat
  BY <1>7, LenProperties, HexNat
<1> QED
  BY <1>4, <1>5, <1>6, <1>8 DEF e

LEMMA ChunkDataIs ==
  ASSUME NEW entity \in Seq(Chars), NEW k \in Nat, NEW n \in Nat
  PROVE  /\ ChunkData(entity, k, n) \in Seq(AllChars)
         /\ Len(ChunkData(entity, k, n)) = Smaller(Len(entity), n)
         /\ \A j \in 1..Smaller(Len(entity), n) :
               ChunkData(entity, k, n)[j] = IF k + j - 1 < Len(entity) THEN entity[k + j] ELSE Unknown
<1>1. Len(entity) \in Nat /\ Smaller(Len(entity), n) \in Nat
  BY LenProperties DEF Smaller
<1>2. ASSUME NEW j \in 1..Smaller(Len(entity), n)
      PROVE  CharAt(entity, k + j - 1) = IF k + j - 1 < Len(entity) THEN entity[k + j] ELSE Unknown
  <2>1. (k + j - 1) + 1 = k + j
    BY <1>1
  <2> QED
    BY <2>1 DEF CharAt
<1>3. ASSUME NEW j \in 1..Smaller(Len(entity), n) PROVE CharAt(entity, k + j - 1) \in AllChars
  <2>1. CASE k + j - 1 < Len(entity)
    <3>1. k + j \in 1..Len(entity)
      BY <1>1, <2>1
    <3>2. entity[k + j] \in Chars
      BY <3>1, ElementOfSeq
    <3> QED
      BY <1>2, <2>1, <3>2 DEF AllChars
  <2>2. CASE ~(k + j - 1 < Len(entity))
    BY <1>2, <2>2 DEF AllChars
  <2> QED
    BY <2>1, <2>2
<1> HIDE DEF AllChars
<1>4. [j \in 1..Smaller(Len(entity), n) |-> CharAt(entity, k + j - 1)] \in Seq(AllChars)
  BY <1>1, <1>3
<1> QED
  BY <1>1, <1>2, <1>4 DEF ChunkData

LEMMA ScanStepTyped ==
  ASSUME NEW entity \in Seq(Chars), NEW i \in 0..Len(entity), NEW scan,
         \A j \in (i + 1)..Len(entity) : scan[j] \in Outcomes
  PROVE  ScanStep(entity, i, scan) \in Outcomes
<1>1. [out |-> <<>>, complete |-> 0] \in Outcomes /\ [out |-> <<>>, complete |-> 1] \in Outcomes
  BY DEF Outcomes
<1>2. CASE i = Len(entity) \/ LineEnds(entity, i) = {}
  BY <1>1, <1>2 DEF ScanStep
<1>3. CASE i # Len(entity) /\ LineEnds(entity, i) # {}
  <2> DEFINE e == Min(LineEnds(entity, i))
             n == HexValue(SubSeq(entity, i + 1, e))
             next == Smaller(After(e, n), Len(entity))
             data == ChunkData(entity, e + 2, n)
  <2>1. e \in i..(Len(entity) - 2) /\ e + 2 \in (i + 1)..Len(entity) /\ n \in Nat
    BY <1>3, LineEnd
  <2>2. next \in (i + 1)..Len(entity)
    BY <1>3, <2>1, LineEnd
  <2>3. ScanStep(entity, i, scan) =
          IF n = 0 THEN [out |-> <<>>, complete |-> 1]
          ELSE IF n > MaxBuff THEN scan[e + 2]
          ELSE [scan[next] EXCEPT !.out = data \o @]
    BY <1>3 DEF ScanStep
  <2>4. e + 2 \in Nat
    BY <2>1
  <2>5. data \in Seq(AllChars)
    BY <2>1, <2>4, ChunkDataIs
  <2>6. scan[next] \in Outcomes /\ scan[e + 2] \in Outcomes
    BY <2>1, <2>2
  <2> HIDE DEF data, next, n, e
  <2>7. [scan[next] EXCEPT !.out = data \o @] \in Outcomes
    <3>1. data \o scan[next].out \in Seq(AllChars)
      BY <2>5, <2>6, ConcatProperties DEF Outcomes
    <3> QED
      BY <2>6, <3>1 DEF Outcomes
  <2> QED
    BY <1>1, <2>3, <2>6, <2>7
<1> QED
  BY <1>2, <1>3

LEMMA ScanStepLocal ==
  ASSUME NEW entity \in Seq(Chars), NEW i \in 0..Len(entity), NEW f, NEW g,
         \A j \in (i + 1)..Len(entity) : f[j] = g[j]
  PROVE  ScanStep(entity, i, f) = ScanStep(entity, i, g)
<1>1. CASE i = Len(entity) \/ LineEnds(entity, i) = {}
  BY <1>1 DEF ScanStep
<1>2. CASE i # Len(entity) /\ LineEnds(entity, i) # {}
  <2> DEFINE e == Min(LineEnds(entity, i))
             n == HexValue(SubSeq(entity, i + 1, e))
             next == Smaller(After(e, n), Len(entity))
  <2>1. e \in i..(Len(entity) - 2) /\ e + 2 \in (i + 1)..Len(entity) /\ n \in Nat
    BY <1>2, LineEnd
  <2>2. next \in (i + 1)..Len(entity)
    BY <1>2, <2>1, LineEnd
  <2>3. f[next] = g[next] /\ f[e + 2] = g[e + 2]
    BY <2>1, <2>2
  <2> QED
    BY <1>2, <2>3 DEF ScanStep
<1> QED
  BY <1>1, <1>2

LEMMA ScanExists ==
  ASSUME NEW entity \in Seq(Chars)
  PROVE  \E f : Scans(f, entity)
<1> DEFINE number == Len(entity)
           flip(h) == [j \in 0..number |-> h[number - j]]
           none == [out |-> <<>>, complete |-> 0]
           step == [p \in Nat \X [Nat -> Outcomes] |->
                      IF p[1] <= number THEN ScanStep(entity, number - p[1], flip(p[2])) ELSE none]
<1>1. number \in Nat
  BY LenProperties
<1>2. none \in Outcomes
  BY DEF Outcomes
<1>3. \A d \in Nat, h \in [Nat -> Outcomes] :
         step[<<d, h>>] = IF d <= number THEN ScanStep(entity, number - d, flip(h)) ELSE none
  OBVIOUS
<1> HIDE DEF number, none
<1>4. step \in [Nat \X [Nat -> Outcomes] -> Outcomes]
  <2>1. ASSUME NEW d \in Nat, NEW h \in [Nat -> Outcomes], d <= number
        PROVE  ScanStep(entity, number - d, flip(h)) \in Outcomes
    <3>1. number - d \in 0..Len(entity)
      BY <1>1, <2>1 DEF number
    <3>2. \A j \in 0..number : flip(h)[j] \in Outcomes
      BY <1>1
    <3>3. \A j \in ((number - d) + 1)..Len(entity) : flip(h)[j] \in Outcomes
      BY <1>1, <2>1, <3>2 DEF number
    <3> HIDE DEF flip
    <3> QED
      BY <3>1, <3>3, ScanStepTyped
  <2> HIDE DEF flip
  <2> QED
    BY <1>2, <2>1
<1>5. LooksBack(step, Outcomes)
  <2> SUFFICES ASSUME NEW d \in Nat, NEW f \in [Nat -> Outcomes], NEW g \in [Nat -> Outcomes],
                      \A k \in 0..(d - 1) : f[k] = g[k]
               PROVE  step[<<d, f>>] = step[<<d, g>>]
    BY DEF LooksBack
  <2>1. ASSUME d <= number
        PROVE  ScanStep(entity, number - d, flip(f)) = ScanStep(entity, number - d, flip(g))
    <3>1. number - d \in 0..Len(entity)
      BY <1>1, <2>1 DEF number
    <3>2. ASSUME NEW j \in ((number - d) + 1)..Len(entity) PROVE flip(f)[j] = flip(g)[j]
      <4>1. j \in 0..number /\ number - j \in 0..(d - 1)
        BY <1>1, <2>1 DEF number
      <4> QED
        BY <4>1
    <3> HIDE DEF flip
    <3> QED
      BY <3>1, <3>2, ScanStepLocal
  <2> HIDE DEF flip, step
  <2> QED
    BY <1>3, <2>1
<1> HIDE DEF step
<1>6. PICK h \in [Nat -> Outcomes] : ByHistory(h, step)
  BY <1>2, <1>4, <1>5, RecursionOnHistory
<1> DEFINE F == flip(h)
<1>7. ASSUME NEW i \in 0..Len(entity) PROVE F[i] = ScanStep(entity, i, F)
  <2>1. i \in 0..number /\ number - i \in Nat /\ number - i <= number /\ number - (number - i) = i
    BY <1>1 DEF number
  <2>2. h[number - i] = step[<<number - i, h>>]
    BY <1>6, <2>1 DEF ByHistory
  <2>3. step[<<number - i, h>>] = ScanStep(entity, number - (number - i), F)
    BY <1>3, <2>1
  <2>4. F[i] = h[number - i]
    BY <2>1
  <2> HIDE DEF F
  <2> QED
    BY <2>1, <2>2, <2>3, <2>4
<1>8. F = [i \in 0..Len(entity) |-> F[i]]
  BY DEF number
<1> HIDE DEF F
<1>9. F = [i \in 0..Len(entity) |-> ScanStep(entity, i, F)]
  BY <1>7, <1>8
<1> QED
  BY <1>9 DEF Scans

LEMMA ScanIs ==
  ASSUME NEW entity \in Seq(Chars)
  PROVE  \E f : /\ Scan(entity) = f[0]
                /\ \A i \in 0..Len(entity) : f[i] \in Outcomes /\ f[i] = ScanStep(entity, i, f)
<1> DEFINE F == CHOOSE f : Scans(f, entity)
<1>1. Scans(F, entity)
  BY ScanExists
<1>2. Scan(entity) = F[0]
  BY DEF Scan, Scans, ScanStep
<1> HIDE DEF F
<1>3. \A i \in 0..Len(entity) : F[i] = ScanStep(entity, i, F)
  BY <1>1 DEF Scans
<1>4. Len(entity) \in Nat
  BY LenProperties
<1> DEFINE G == {d \in Nat : d <= Len(entity) => F[Len(entity) - d] \in Outcomes}
<1>5. ASSUME NEW d \in Nat, \A k \in 0..(d - 1) : k \in G PROVE d \in G
  <2>1. SUFFICES ASSUME d <= Len(entity) PROVE F[Len(entity) - d] \in Outcomes
    OBVIOUS
  <2>2. Len(entity) - d \in 0..Len(entity)
    BY <1>4, <2>1
  <2>3. ASSUME NEW j \in ((Len(entity) - d) + 1)..Len(entity) PROVE F[j] \in Outcomes
    <3>1. Len(entity) - j \in 0..(d - 1) /\ Len(entity) - (Len(entity) - j) = j
      BY <1>4, <2>1
    <3>2. Len(entity) - j \in Nat /\ Len(entity) - j <= Len(entity)
      BY <1>4, <2>1
    <3> QED
      BY <1>5, <3>1, <3>2
  <2> QED
    BY <1>3, <2>2, <2>3, ScanStepTyped
<1> HIDE DEF G
<1>6. G = Nat
  <2>1. G \in SUBSET Nat
    BY DEF G
  <2> QED
    BY <1>5, <2>1, StrongInduction
<1>7. ASSUME NEW i \in 0..Len(entity) PROVE F[i] \in Outcomes
  <2>1. Len(entity) - i \in Nat /\ Len(entity) - i <= Len(entity) /\ Len(entity) - (Len(entity) - i) = i
    BY <1>4
  <2>2. Len(entity) - i \in G
    BY <1>6, <2>1
  <2>3. F[Len(entity) - (Len(entity) - i)] \in Outcomes
    BY <2>1, <2>2 DEF G
  <2> QED
    BY <2>1, <2>3
<1> QED
  BY <1>2, <1>3, <1>7
-----------------------------------------------------------------------------
(* Where the parts of an encoded body are.                                 *)
Joined(s, t, u) ==
  /\ Len(u) = Len(s) + Len(t)
  /\ \A j \in 1..Len(s) : u[j] = s[j]
  /\ \A j \in 1..Len(t) : u[Len(s) + j] = t[j]

LEMMA JoinedParts ==
  ASSUME NEW A, NEW s \in Seq(A), NEW t \in Seq(A)
  PROVE  s \o t \in Seq(A) /\ Joined(s, t, s \o t)
<1> DEFINE u == s \o t
<1>1. /\ u \in Seq(A) /\ Len(u) = Len(s) + Len(t)
      /\ \A i \in 1..(Len(s) + Len(t)) : u[i] = IF i <= Len(s) THEN s[i] ELSE t[i - Len(s)]
  BY ConcatProperties
<1> HIDE DEF u
<1>2. Len(s) \in Nat /\ Len(t) \in Nat
  BY LenProperties
<1>3. \A j \in 1..Len(s) : u[j] = s[j]
  BY <1>1, <1>2
<1>4. ASSUME NEW j \in 1..Len(t) PROVE u[Len(s) + j] = t[j]
  <2>1. Len(s) + j \in 1..(Len(s) + Len(t)) /\ ~(Len(s) + j <= Len(s)) /\ (Len(s) + j) - Len(s) = j
    BY <1>2
  <2> QED
    BY <1>1, <2>1
<1> QED
  BY <1>1, <1>3, <1>4 DEF Joined, u

LEMMA ChunkLayout ==
  ASSUME NEW c \in Seq(Chars)
  PROVE  /\ EncodedChunk(c) \in Seq(Chars)
         /\ Len(EncodedChunk(c)) = Len(SizeLine(Len(c))) + Len(c) + 4
         /\ \A j \in 1..Len(SizeLine(Len(c))) : EncodedChunk(c)[j] = SizeLine(Len(c))[j]
         /\ EncodedChunk(c)[Len(SizeLine(Len(c))) + 1] = "CR"
         /\ EncodedChunk(c)[Len(SizeLine(Len(c))) + 2] = "LF"
         /\ \A j \in 1..Len(c) : EncodedChunk(c)[Len(SizeLine(Len(c))) + 2 + j] = c[j]
<1> DEFINE line == SizeLine(Len(c))
           crlf == <<"CR", "LF">>
           w == Len(line)
           L == Len(c)
<1>1. L \in Nat
  BY LenProperties
<1>2. line \in Seq(HexSet) /\ w \in Nat
  BY <1>1, SizeRead
<1>3. line \in Seq(Chars)
  <2>1. HexSet \subseteq Chars
    BY CharsAssumption DEF HexSet
  <2> QED
    BY <1>2, <2>1, SeqMonotonic
<1>4. crlf \in Seq(Chars) /\ Len(crlf) = 2 /\ crlf[1] = "CR" /\ crlf[2] = "LF"
  BY CharsAssumption
<1>5. EncodedChunk(c) = ((line \o crlf) \o c) \o crlf
  BY DEF EncodedChunk
<1> HIDE DEF line, crlf
<1> DEFINE one == line \o crlf
           two == one \o c
           all == two \o crlf
<1>6. one \in Seq(Chars) /\ Joined(line, crlf, one)
  BY <1>3, <1>4, JoinedParts, ZenonT(30)
<1> HIDE DEF one
<1>7. two \in Seq(Chars) /\ Joined(one, c, two)
  BY <1>6, JoinedParts, ZenonT(30)
<1> HIDE DEF two
<1>8. all \in Seq(Chars) /\ Joined(two, crlf, all)
  BY <1>4, <1>7, JoinedParts, ZenonT(30)
<1>9. EncodedChunk(c) = all
  BY <1>5 DEF two, one
<1> HIDE DEF all
<1>10. Len(one) = w + 2 /\ Len(two) = w + 2 + L /\ Len(all) = w + L + 4
  BY <1>1, <1>2, <1>4, <1>6, <1>7, <1>8 DEF Joined
<1>11. \A j \in 1..w : all[j] = line[j]
  <2>1. \A j \in 1..w : j \in 1..Len(one) /\ j \in 1..Len(two)
    BY <1>1, <1>2, <1>10
  <2> QED
    BY <1>6, <1>7, <1>8, <2>1 DEF Joined
<1>12. all[w + 1] = "CR" /\ all[w + 2] = "LF"
  <2>1. w + 1 \in 1..Len(one) /\ w + 2 \in 1..Len(one) /\ w + 1 \in 1..Len(two) /\ w + 2 \in 1..Len(two)
    BY <1>1, <1>2, <1>10
  <2>2. 1 \in 1..Len(crlf) /\ 2 \in 1..Len(crlf)
    BY <1>4
  <2> QED
    BY <1>4, <1>6, <1>7, <1>8, <2>1, <2>2 DEF Joined
<1>13. ASSUME NEW j \in 1..L PROVE all[w + 2 + j] = c[j]
  <2>1. w + 2 + j \in 1..Len(two)
    BY <1>1, <1>2, <1>10
  <2>2. two[Len(one) + j] = c[j]
    BY <1>7 DEF Joined
  <2> QED
    BY <1>8, <1>10, <2>1, <2>2 DEF Joined
<1> QED
  BY <1>8, <1>9, <1>10, <1>11, <1>12, <1>13 DEF line

LEMMA PrefixesGrow ==
  ASSUME NEW A, NEW n \in Nat, NEW g \in [0..n -> Seq(A)],
         \A k \in 0..(n - 1) : \E e \in Seq(A) : g[k + 1] = g[k] \o e,
         NEW m \in 0..n, NEW k \in m..n
  PROVE  Len(g[m]) <= Len(g[k]) /\ \A j \in 1..Len(g[m]) : g[k][j] = g[m][j]
<1> DEFINE G == {d \in Nat : m + d <= n =>
                   Len(g[m]) <= Len(g[m + d]) /\ \A j \in 1..Len(g[m]) : g[m + d][j] = g[m][j]}
<1>1. \A i \in 0..n : g[i] \in Seq(A) /\ Len(g[i]) \in Nat
  BY LenProperties
<1>2. 0 \in G
  BY <1>1
<1>3. ASSUME NEW d \in G PROVE d + 1 \in G
  <2>1. SUFFICES ASSUME m + (d + 1) <= n
                 PROVE  /\ Len(g[m]) <= Len(g[m + (d + 1)])
                        /\ \A j \in 1..Len(g[m]) : g[m + (d + 1)][j] = g[m][j]
    BY <1>3
  <2>2. /\ m + d \in 0..(n - 1) /\ m + d \in 0..n /\ (m + d) + 1 = m + (d + 1)
    BY <1>3, <2>1
  <2>3. Len(g[m]) <= Len(g[m + d]) /\ \A j \in 1..Len(g[m]) : g[m + d][j] = g[m][j]
    BY <1>3, <2>2
  <2>4. PICK e \in Seq(A) : g[m + (d + 1)] = g[m + d] \o e
    BY <2>2
  <2>5. Len(g[m]) \in Nat /\ Len(g[m + d]) \in Nat /\ Len(e) \in Nat /\ g[m + d] \in Seq(A)
    BY <1>1, <2>2, LenProperties
  <2>6. /\ Len(g[m + (d + 1)]) = Len(g[m + d]) + Len(e)
        /\ \A j \in 1..Len(g[m + d]) : g[m + (d + 1)][j] = g[m + d][j]
    BY <2>4, <2>5, ConcatProperties
  <2> QED
    BY <2>3, <2>5, <2>6, SMTT(30)
<1> HIDE DEF G
<1>4. G = Nat
  <2>1. G \in SUBSET Nat
    BY DEF G
  <2> QED
    BY <1>2, <1>3, <2>1, InductionOnNat
<1>5. k - m \in Nat /\ m + (k - m) = k /\ k <= n
  OBVIOUS
<1> QED
  BY <1>4, <1>5 DEF G

(* The first m chunks of a response, encoded and as data.                  *)
Coded(r, m) == EncodedChunks(SubSeq(r, 1, m))
Plain(r, m) == FlattenSeq(SubSeq(r, 1, m))

LEMMA SubSeqOneMore ==
  ASSUME NEW A, NEW r \in Seq(A), NEW m \in 0..(Len(r) - 1)
  PROVE  /\ SubSeq(r, 1, m) \in Seq(A) /\ Len(SubSeq(r, 1, m)) = m /\ r[m + 1] \in A
         /\ SubSeq(r, 1, m + 1) = Append(SubSeq(r, 1, m), r[m + 1])
<1>1. Len(r) \in Nat
  BY LenProperties
<1>2. \A i \in 1..(m + 1) : r[i] \in A
  <2>1. \A i \in 1..(m + 1) : i \in 1..Len(r)
    BY <1>1
  <2> QED
    BY <2>1, ElementOfSeq
<1> DEFINE s == SubSeq(r, 1, m)
           t == SubSeq(r, 1, m + 1)
<1>3. s \in Seq(A) /\ Len(s) = m /\ \A i \in 1..m : s[i] = r[i]
  BY <1>1, <1>2, SubSeqProperties
<1>4. t \in Seq(A) /\ Len(t) = m + 1 /\ \A i \in 1..(m + 1) : t[i] = r[i]
  BY <1>1, <1>2, SubSeqProperties
<1> HIDE DEF s, t
<1>5. r[m + 1] \in A
  BY <1>1, <1>2
<1> DEFINE u == Append(s, r[m + 1])
<1>6. u \in Seq(A) /\ Len(u) = m + 1 /\ \A i \in 1..(m + 1) : u[i] = r[i]
  BY <1>1, <1>3, <1>5, AppendProperties
<1> HIDE DEF u
<1>7. t = u
  BY <1>4, <1>6, SeqEqual
<1> QED
  BY <1>3, <1>5, <1>7 DEF s, t, u

LEMMA PiecesOf ==
  ASSUME NEW r \in Seq(Seq(Chars))
  PROVE  [i \in DOMAIN r |-> EncodedChunk(r[i])] \in Seq(Seq(Chars))
<1>1. Len(r) \in Nat /\ DOMAIN r = 1..Len(r)
  BY LenProperties
<1>2. \A i \in 1..Len(r) : EncodedChunk(r[i]) \in Seq(Chars)
  BY ElementOfSeq, ChunkLayout
<1> QED
  BY <1>1, <1>2

LEMMA OneMoreChunk ==
  ASSUME NEW r \in Seq(Seq(Chars)), NEW m \in 0..(Len(r) - 1)
  PROVE  /\ Coded(r, m) \in Seq(Chars) /\ Plain(r, m) \in Seq(Chars) /\ r[m + 1] \in Seq(Chars)
         /\ Coded(r, m + 1) = Coded(r, m) \o EncodedChunk(r[m + 1])
         /\ Plain(r, m + 1) = Plain(r, m) \o r[m + 1]
<1> DEFINE s == SubSeq(r, 1, m)
           t == SubSeq(r, 1, m + 1)
           c == r[m + 1]
           ps == [i \in DOMAIN s |-> EncodedChunk(s[i])]
           pt == [i \in DOMAIN t |-> EncodedChunk(t[i])]
<1>1. s \in Seq(Seq(Chars)) /\ Len(s) = m /\ c \in Seq(Chars) /\ t = Append(s, c)
  BY SubSeqOneMore
<1>2. t \in Seq(Seq(Chars)) /\ Len(t) = m + 1 /\ t[m + 1] = c /\ \A i \in 1..m : t[i] = s[i]
  BY <1>1, AppendProperties
<1>3. ps \in Seq(Seq(Chars)) /\ pt \in Seq(Seq(Chars))
  BY <1>1, <1>2, PiecesOf
<1>4. DOMAIN s = 1..m /\ DOMAIN t = 1..(m + 1)
  BY <1>1, <1>2, LenProperties
<1> HIDE DEF s, t, c
<1>5. Len(ps) = m /\ \A i \in 1..m : ps[i] = EncodedChunk(s[i])
  BY <1>4
<1>6. Len(pt) = m + 1 /\ \A i \in 1..(m + 1) : pt[i] = EncodedChunk(t[i])
  BY <1>4
<1> HIDE DEF ps, pt
<1>7. EncodedChunk(c) \in Seq(Chars)
  BY <1>1, ChunkLayout
<1> DEFINE e == EncodedChunk(c)
           u == Append(ps, e)
<1> HIDE DEF e
<1>8. u \in Seq(Seq(Chars)) /\ Len(u) = m + 1 /\ u[m + 1] = e /\ \A i \in 1..m : u[i] = ps[i]
  <2>1. e \in Seq(Chars)
    BY <1>7 DEF e
  <2>2. u \in Seq(Seq(Chars)) /\ Len(u) = Len(ps) + 1 /\ u[Len(ps) + 1] = e
        /\ \A i \in 1..Len(ps) : u[i] = ps[i]
    <3> DEFINE A == Seq(Chars)
    <3>1. ps \in Seq(A) /\ e \in A
      BY <1>3, <2>1
    <3> HIDE DEF A
    <3>2. /\ u \in Seq(A) /\ Len(u) = Len(ps) + 1
          /\ u[Len(ps) + 1] = e /\ \A i \in 1..Len(ps) : u[i] = ps[i]
      BY <3>1, AppendProperties
    <3> QED
      BY <3>2 DEF A
  <2> QED
    BY <1>5, <2>2
<1> HIDE DEF u
<1>9. \A i \in 1..(m + 1) : pt[i] = u[i]
  <2>1. pt[m + 1] = u[m + 1]
    BY <1>2, <1>6, <1>8 DEF e
  <2>2. \A i \in 1..m : i \in 1..(m + 1) /\ pt[i] = u[i]
    BY <1>2, <1>5, <1>6, <1>8
  <2>3. \A i \in 1..(m + 1) : i \in 1..m \/ i = m + 1
    OBVIOUS
  <2> QED
    BY <2>1, <2>2, <2>3
<1>10. pt = u
  BY <1>3, <1>6, <1>8, <1>9, SeqEqual
<1>11. FlattenSeq(pt) = FlattenSeq(ps) \o EncodedChunk(c) /\ FlattenSeq(ps) \in Seq(Chars)
  BY <1>3, <1>7, <1>10, FlattenAppend DEF u, e
<1>12. FlattenSeq(t) = FlattenSeq(s) \o c /\ FlattenSeq(s) \in Seq(Chars)
  BY <1>1, FlattenAppend
<1> QED
  BY <1>1, <1>11, <1>12 DEF Coded, Plain, EncodedChunks, ps, pt, s, t, c

LEMMA NoChunk ==
  ASSUME NEW r \in Seq(Seq(Chars))
  PROVE  Coded(r, 0) = <<>> /\ Plain(r, 0) = <<>>
<1>1. SubSeq(r, 1, 0) = <<>>
  OBVIOUS
<1>2. [i \in DOMAIN <<>> |-> EncodedChunk(<<>>[i])] = <<>>
  OBVIOUS
<1> QED
  BY <1>1, <1>2, FlattenEmpty DEF Coded, Plain, EncodedChunks

LEMMA AllChunks ==
  ASSUME NEW r \in Seq(Seq(Chars))
  PROVE  /\ EncodedChunks(r) = Coded(r, Len(r)) /\ FlattenSeq(r) = Plain(r, Len(r))
         /\ \A m \in 0..Len(r) : Coded(r, m) \in Seq(Chars) /\ Plain(r, m) \in Seq(Chars)
<1>1. Len(r) \in Nat
  BY LenProperties
<1>2. SubSeq(r, 1, Len(r)) = r
  OBVIOUS
<1>3. ASSUME NEW m \in 0..Len(r) PROVE Coded(r, m) \in Seq(Chars) /\ Plain(r, m) \in Seq(Chars)
  <2>1. CASE m = 0
    <3>1. <<>> \in Seq(Chars)
      BY EmptySeq
    <3> QED
      BY <2>1, <3>1, NoChunk
  <2>2. CASE m # 0
    <3>1. m - 1 \in 0..(Len(r) - 1) /\ (m - 1) + 1 = m
      BY <1>1, <2>2
    <3>2. /\ Coded(r, m - 1) \in Seq(Chars) /\ Plain(r, m - 1) \in Seq(Chars) /\ r[m] \in Seq(Chars)
          /\ Coded(r, m) = Coded(r, m - 1) \o EncodedChunk(r[m])
          /\ Plain(r, m) = Plain(r, m - 1) \o r[m]
      <4>1. PICK k \in 0..(Len(r) - 1) : k = m - 1 /\ k + 1 = m
        BY <3>1
      <4> QED
        BY <4>1, OneMoreChunk
    <3>3. EncodedChunk(r[m]) \in Seq(Chars)
      BY <3>2, ChunkLayout
    <3> QED
      BY <3>2, <3>3, ConcatProperties
  <2> QED
    BY <2>1, <2>2
<1> QED
  BY <1>2, <1>3 DEF Coded, Plain
(* Where the m first chunks end, in the encoded body and in the data.      *)
EndOf(r, m) == Len(Coded(r, m))
DataOf(r, m) == Len(Plain(r, m))

LEMMA EndsNat ==
  ASSUME NEW r \in Seq(Seq(Chars)), NEW m \in 0..Len(r)
  PROVE  EndOf(r, m) \in Nat /\ DataOf(r, m) \in Nat
<1>1. Coded(r, m) \in Seq(Chars) /\ Plain(r, m) \in Seq(Chars)
  BY AllChunks
<1> QED
  BY <1>1, LenProperties DEF EndOf, DataOf

LEMMA Grows ==
  ASSUME NEW r \in Seq(Seq(Chars)), NEW m \in 0..Len(r)
  PROVE  /\ EndOf(r, m) <= EndOf(r, Len(r)) /\ DataOf(r, m) <= DataOf(r, Len(r))
         /\ \A j \in 1..EndOf(r, m) : EncodedChunks(r)[j] = Coded(r, m)[j]
         /\ \A j \in 1..DataOf(r, m) : FlattenSeq(r)[j] = Plain(r, m)[j]
<1> DEFINE n == Len(r)
           g == [i \in 0..n |-> Coded(r, i)]
           h == [i \in 0..n |-> Plain(r, i)]
<1>1. n \in Nat /\ n \in m..n
  BY LenProperties
<1>2. g \in [0..n -> Seq(Chars)] /\ h \in [0..n -> Seq(Chars)]
  BY AllChunks
<1>3. ASSUME NEW k \in 0..(n - 1)
      PROVE  (\E e \in Seq(Chars) : g[k + 1] = g[k] \o e) /\ (\E e \in Seq(Chars) : h[k + 1] = h[k] \o e)
  <2>1. k \in 0..n /\ k + 1 \in 0..n
    BY <1>1
  <2>2. r[k + 1] \in Seq(Chars) /\ EncodedChunk(r[k + 1]) \in Seq(Chars)
    BY OneMoreChunk, ChunkLayout
  <2>3. Coded(r, k + 1) = Coded(r, k) \o EncodedChunk(r[k + 1])
        /\ Plain(r, k + 1) = Plain(r, k) \o r[k + 1]
    BY OneMoreChunk
  <2> QED
    BY <2>1, <2>2, <2>3
<1>4. g[m] = Coded(r, m) /\ g[n] = Coded(r, n) /\ h[m] = Plain(r, m) /\ h[n] = Plain(r, n)
  BY <1>1
<1>8. m \in 0..n
  OBVIOUS
<1> HIDE DEF g, h, n
<1>5. Len(g[m]) <= Len(g[n]) /\ \A j \in 1..Len(g[m]) : g[n][j] = g[m][j]
  <2>1. \A k \in 0..(n - 1) : \E e \in Seq(Chars) : g[k + 1] = g[k] \o e
    BY <1>3
  <2> QED
    BY <1>1, <1>2, <1>8, <2>1, PrefixesGrow, ZenonT(60)
<1>6. Len(h[m]) <= Len(h[n]) /\ \A j \in 1..Len(h[m]) : h[n][j] = h[m][j]
  <2>1. \A k \in 0..(n - 1) : \E e \in Seq(Chars) : h[k + 1] = h[k] \o e
    BY <1>3
  <2> QED
    BY <1>1, <1>2, <1>8, <2>1, PrefixesGrow, ZenonT(60)
<1>7. EncodedChunks(r) = Coded(r, n) /\ FlattenSeq(r) = Plain(r, n)
  BY AllChunks DEF n
<1> QED
  BY <1>4, <1>5, <1>6, <1>7 DEF EndOf, DataOf, n

LEMMA EncodedIs ==
  ASSUME NEW r \in Seq(Seq(Chars))
  PROVE  /\ Encoded(r) \in Seq(Chars) /\ FlattenSeq(r) \in Seq(Chars)
         /\ Len(FlattenSeq(r)) = DataOf(r, Len(r))
         /\ Len(Encoded(r)) = EndOf(r, Len(r)) + 5
         /\ \A j \in 1..EndOf(r, Len(r)) : Encoded(r)[j] = EncodedChunks(r)[j]
         /\ Encoded(r)[EndOf(r, Len(r)) + 1] = "0"
         /\ Encoded(r)[EndOf(r, Len(r)) + 2] = "CR" /\ Encoded(r)[EndOf(r, Len(r)) + 3] = "LF"
<1> DEFINE last == <<"0", "CR", "LF", "CR", "LF">>
           codes == EncodedChunks(r)
           E == codes \o last
<1>1. "0" \in Chars
  <2>1. 0 \in 0..15 /\ Digits[0 + 1] = "0"
    BY DEF Digits
  <2> QED
    BY <2>1, DigitIs, CharsAssumption DEF HexSet
<1>2. last \in Seq(Chars) /\ Len(last) = 5 /\ last[1] = "0" /\ last[2] = "CR" /\ last[3] = "LF"
  <2>1. "CR" \in Chars /\ "LF" \in Chars
    BY CharsAssumption
  <2> QED
    BY <1>1, <2>1
<1>3. Len(r) \in 0..Len(r)
  BY LenProperties
<1>4. codes = Coded(r, Len(r)) /\ codes \in Seq(Chars) /\ FlattenSeq(r) = Plain(r, Len(r))
      /\ FlattenSeq(r) \in Seq(Chars)
  BY <1>3, AllChunks
<1> HIDE DEF last, codes
<1>5. E \in Seq(Chars) /\ Joined(codes, last, E)
  BY <1>2, <1>4, JoinedParts, ZenonT(30)
<1>6. Encoded(r) = E
  BY DEF Encoded, last, codes
<1> HIDE DEF E
<1>7. 1 \in 1..Len(last) /\ 2 \in 1..Len(last) /\ 3 \in 1..Len(last)
  BY <1>2
<1>8. Len(codes) = EndOf(r, Len(r))
  BY <1>4 DEF EndOf
<1>9. Len(E) = Len(codes) + 5
  BY <1>2, <1>5 DEF Joined
<1>10. \A j \in 1..Len(codes) : E[j] = codes[j]
  BY <1>5 DEF Joined
<1>11. E[Len(codes) + 1] = "0" /\ E[Len(codes) + 2] = "CR" /\ E[Len(codes) + 3] = "LF"
  BY <1>2, <1>5, <1>7 DEF Joined
<1>12. Len(FlattenSeq(r)) = DataOf(r, Len(r))
  BY <1>4 DEF DataOf
<1> QED
  BY <1>4, <1>5, <1>6, <1>8, <1>9, <1>10, <1>11, <1>12 DEF codes

(* The chunk behind the m first ones, with w characters of size.           *)
Placed(r, m, c, w) ==
  /\ EndOf(r, m + 1) = EndOf(r, m) + w + Len(c) + 4 /\ EndOf(r, m + 1) + 5 <= Len(Encoded(r))
  /\ DataOf(r, m + 1) = DataOf(r, m) + Len(c) /\ DataOf(r, m + 1) <= Len(FlattenSeq(r))
  /\ \A j \in 1..w : Encoded(r)[EndOf(r, m) + j] = SizeLine(Len(c))[j]
  /\ Encoded(r)[EndOf(r, m) + w + 1] = "CR" /\ Encoded(r)[EndOf(r, m) + w + 2] = "LF"
  /\ \A j \in 1..Len(c) : /\ Encoded(r)[EndOf(r, m) + w + 2 + j] = c[j]
                          /\ FlattenSeq(r)[DataOf(r, m) + j] = c[j]

LEMMA ChunkPlaced ==
  ASSUME NEW r \in Seq(Seq(Chars)), NEW m \in 0..(Len(r) - 1)
  PROVE  Placed(r, m, r[m + 1], Len(SizeLine(Len(r[m + 1]))))
<1> DEFINE c == r[m + 1]
           w == Len(SizeLine(Len(c)))
           code == EncodedChunk(c)
           a == EndOf(r, m)
           b == DataOf(r, m)
<1>1. Len(r) \in Nat /\ m \in 0..Len(r) /\ m + 1 \in 0..Len(r) /\ Len(r) \in 0..Len(r)
  BY LenProperties
<1>2. /\ Coded(r, m) \in Seq(Chars) /\ Plain(r, m) \in Seq(Chars) /\ c \in Seq(Chars)
      /\ Coded(r, m + 1) = Coded(r, m) \o code
      /\ Plain(r, m + 1) = Plain(r, m) \o c
  BY OneMoreChunk
<1>3. a \in Nat /\ b \in Nat /\ Len(c) \in Nat /\ w \in Nat
  BY <1>1, <1>2, EndsNat, LenProperties, SizeRead
<1>4. /\ code \in Seq(Chars) /\ Len(code) = w + Len(c) + 4
      /\ \A j \in 1..w : code[j] = SizeLine(Len(c))[j]
      /\ code[w + 1] = "CR" /\ code[w + 2] = "LF"
      /\ \A j \in 1..Len(c) : code[w + 2 + j] = c[j]
  BY <1>2, ChunkLayout
<1> HIDE DEF c, w, code
<1>5. Joined(Coded(r, m), code, Coded(r, m + 1))
  <2>1. Coded(r, m) \in Seq(Chars) /\ code \in Seq(Chars)
    BY <1>2, <1>4
  <2>2. Joined(Coded(r, m), code, Coded(r, m) \o code)
    BY <2>1, JoinedParts, ZenonT(30)
  <2> QED
    BY <1>2, <2>2
<1>6. Joined(Plain(r, m), c, Plain(r, m + 1))
  BY <1>2, JoinedParts
<1>7. EndOf(r, m + 1) = a + w + Len(c) + 4
  BY <1>3, <1>4, <1>5 DEF Joined, EndOf
<1>8. DataOf(r, m + 1) = b + Len(c)
  BY <1>6 DEF Joined, DataOf
<1>9. /\ EndOf(r, m + 1) <= EndOf(r, Len(r)) /\ DataOf(r, m + 1) <= DataOf(r, Len(r))
      /\ \A j \in 1..EndOf(r, m + 1) : EncodedChunks(r)[j] = Coded(r, m + 1)[j]
      /\ \A j \in 1..DataOf(r, m + 1) : FlattenSeq(r)[j] = Plain(r, m + 1)[j]
  BY <1>1, Grows
<1>10. EndOf(r, Len(r)) \in Nat
  BY <1>1, EndsNat
<1>11. ASSUME NEW j \in 1..(w + Len(c) + 4) PROVE Encoded(r)[a + j] = code[j]
  <2>1. j \in 1..Len(code) /\ a + j \in 1..EndOf(r, m + 1)
    <3> HIDE DEF a
    <3>1. j \in 1..Len(code)
      BY <1>4
    <3>2. a + j \in 1..(a + w + Len(c) + 4)
      BY <1>3
    <3> QED
      BY <1>7, <3>1, <3>2
  <2>2. a + j \in 1..EndOf(r, Len(r))
    <3> DEFINE place == a + j
               here == EndOf(r, m + 1)
               end == EndOf(r, Len(r))
    <3>1. place \in 1..here /\ here <= end
      BY <1>9, <2>1
    <3>2. here \in Nat /\ end \in Nat
      BY <1>1, EndsNat
    <3> HIDE DEF place, here, end
    <3>3. place \in 1..end
      BY <3>1, <3>2
    <3> QED
      BY <3>3 DEF place, end
  <2>3. Coded(r, m + 1)[a + j] = code[j]
    BY <1>5, <2>1 DEF Joined, EndOf
  <2> QED
    BY <1>9, <2>1, <2>2, <2>3, EncodedIs
<1>12. ASSUME NEW j \in 1..Len(c) PROVE FlattenSeq(r)[b + j] = c[j]
  <2>1. b + j \in 1..DataOf(r, m + 1)
    BY <1>3, <1>8
  <2> QED
    BY <1>6, <1>9, <2>1 DEF Joined, DataOf
<1>13. \A j \in 1..w : Encoded(r)[a + j] = SizeLine(Len(c))[j]
  <2>1. \A j \in 1..w : j \in 1..(w + Len(c) + 4)
    BY <1>3
  <2> QED
    BY <1>4, <1>11, <2>1
<1>14. Encoded(r)[a + w + 1] = "CR" /\ Encoded(r)[a + w + 2] = "LF"
  <2>1. w + 1 \in 1..(w + Len(c) + 4) /\ w + 2 \in 1..(w + Len(c) + 4)
    BY <1>3
  <2>2. a + (w + 1) = a + w + 1 /\ a + (w + 2) = a + w + 2
    BY <1>3, SMTT(30)
  <2> QED
    BY <1>4, <1>11, <2>1, <2>2
<1>15. ASSUME NEW j \in 1..Len(c) PROVE Encoded(r)[a + w + 2 + j] = c[j]
  <2>1. w + 2 + j \in 1..(w + Len(c) + 4) /\ a + (w + 2 + j) = a + w + 2 + j
    <3> DEFINE L == Len(c)
    <3>1. a \in Nat /\ w \in Nat /\ L \in Nat /\ j \in 1..L
      BY <1>3
    <3> HIDE DEF L, a
    <3>2. w + 2 + j \in 1..(w + L + 4) /\ a + (w + 2 + j) = a + w + 2 + j
      BY <3>1
    <3> QED
      BY <3>2 DEF L
  <2> QED
    BY <1>4, <1>11, <2>1
<1>16. EndOf(r, m + 1) + 5 <= Len(Encoded(r)) /\ DataOf(r, m + 1) <= Len(FlattenSeq(r))
  <2>1. Len(Encoded(r)) = EndOf(r, Len(r)) + 5 /\ Len(FlattenSeq(r)) = DataOf(r, Len(r))
    BY EncodedIs
  <2>2. EndOf(r, m + 1) \in Nat
    BY <1>1, EndsNat
  <2> QED
    BY <1>9, <1>10, <2>1, <2>2
<1>17. Placed(r, m, c, w)
  BY <1>7, <1>8, <1>12, <1>13, <1>14, <1>15, <1>16 DEF Placed
<1> QED
  BY <1>17 DEF c, w

LEMMA DataShorter ==
  ASSUME NEW r \in Seq(Seq(Chars))
  PROVE  Len(FlattenSeq(r)) <= EndOf(r, Len(r))
<1> DEFINE G == {m \in Nat : m <= Len(r) => DataOf(r, m) <= EndOf(r, m)}
<1>1. Len(r) \in Nat
  BY LenProperties
<1>2. 0 \in G
  BY NoChunk DEF EndOf, DataOf
<1>3. ASSUME NEW m \in G PROVE m + 1 \in G
  <2>1. SUFFICES ASSUME m + 1 <= Len(r) PROVE DataOf(r, m + 1) <= EndOf(r, m + 1)
    BY <1>3
  <2>2. m \in 0..(Len(r) - 1) /\ m \in 0..Len(r) /\ DataOf(r, m) <= EndOf(r, m)
    BY <1>1, <1>3, <2>1
  <2> DEFINE c == r[m + 1]
             w == Len(SizeLine(Len(c)))
  <2>3. Placed(r, m, c, w)
    BY <2>2, ChunkPlaced
  <2>4. c \in Seq(Chars)
    BY <2>2, OneMoreChunk
  <2>5. Len(c) \in Nat /\ w \in Nat /\ EndOf(r, m) \in Nat /\ DataOf(r, m) \in Nat
    BY <2>2, <2>4, LenProperties, SizeRead, EndsNat
  <2> HIDE DEF c, w
  <2>6. EndOf(r, m + 1) = EndOf(r, m) + w + Len(c) + 4 /\ DataOf(r, m + 1) = DataOf(r, m) + Len(c)
    BY <2>3 DEF Placed
  <2> QED
    BY <2>2, <2>5, <2>6, SMTT(30)
<1> HIDE DEF G
<1>4. G = Nat
  <2>1. G \in SUBSET Nat
    BY DEF G
  <2> QED
    BY <1>2, <1>3, <2>1, InductionOnNat
<1>5. DataOf(r, Len(r)) <= EndOf(r, Len(r))
  BY <1>1, <1>4 DEF G
<1> QED
  BY <1>5, EncodedIs
-----------------------------------------------------------------------------
(* What the scan makes of a body of which a part was captured: from the    *)
(* end of the m first chunks on, it gives the rest of the data, or a part  *)
(* of it and then what memory holds.                                       *)
Whole(r, m, out) ==
  /\ Len(out) = Len(FlattenSeq(r)) - DataOf(r, m)
  /\ \A j \in 1..Len(out) : out[j] = FlattenSeq(r)[DataOf(r, m) + j]
Part(r, m, out) ==
  \E n \in 0..(Len(FlattenSeq(r)) - DataOf(r, m)) :
     /\ n <= Len(out)
     /\ \A j \in 1..Len(out) : out[j] = IF j <= n THEN FlattenSeq(r)[DataOf(r, m) + j] ELSE Unknown
Reads(r, m, number, o) ==
  /\ Part(r, m, o.out)
  /\ number = Len(Encoded(r)) => o.complete = 1 /\ Whole(r, m, o.out)
  /\ o.complete = 1 => \/ CutAfterZero(r, number)
                       \/ EndOf(r, Len(r)) < number /\ Whole(r, m, o.out)

LEMMA EntityIs ==
  ASSUME NEW r \in Seq(Seq(Chars)), NEW number \in 1..Len(Encoded(r))
  PROVE  /\ SubSeq(Encoded(r), 1, number) \in Seq(Chars)
         /\ Len(SubSeq(Encoded(r), 1, number)) = number
         /\ \A j \in 1..number : SubSeq(Encoded(r), 1, number)[j] = Encoded(r)[j]
<1>1. Encoded(r) \in Seq(Chars)
  BY EncodedIs
<1>2. Len(Encoded(r)) \in Nat
  BY <1>1, LenProperties
<1>3. \A j \in 1..number : j \in 1..Len(Encoded(r))
  BY <1>2
<1>4. \A j \in 1..number : Encoded(r)[j] \in Chars
  BY <1>1, <1>3, ElementOfSeq
<1> QED
  BY <1>1, <1>2, <1>4, SubSeqProperties

LEMMA Piece ==
  ASSUME NEW S, NEW s \in Seq(S), NEW n \in Nat, NEW k \in Nat \ {0}, n + k <= Len(s)
  PROVE  /\ SubSeq(s, n + 1, n + k) \in Seq(S) /\ Len(SubSeq(s, n + 1, n + k)) = k
         /\ \A j \in 1..k : SubSeq(s, n + 1, n + k)[j] = s[n + j]
<1> DEFINE from == n + 1
           to == n + k
<1>1. Len(s) \in Nat
  BY LenProperties
<1>2. from \in Int /\ to \in Int /\ from <= to /\ to - from + 1 = k
  OBVIOUS
<1>3. \A j \in from..to : j \in 1..Len(s) /\ s[j] \in S
  BY <1>1, ElementOfSeq
<1>4. \A j \in 1..k : from + j - 1 = n + j
  OBVIOUS
<1> HIDE DEF from, to
<1>5. /\ SubSeq(s, from, to) \in Seq(S)
      /\ Len(SubSeq(s, from, to)) = IF from <= to THEN to - from + 1 ELSE 0
      /\ \A j \in 1..(to - from + 1) : SubSeq(s, from, to)[j] = s[from + j - 1]
  BY <1>2, <1>3, SubSeqProperties
<1> QED
  BY <1>2, <1>4, <1>5 DEF from, to

LEMMA ReadsNothing ==
  ASSUME NEW r \in Seq(Seq(Chars)), NEW m \in 0..Len(r), NEW number, number # Len(Encoded(r)),
         DataOf(r, m) <= Len(FlattenSeq(r)), NEW done \in {0, 1},
         done = 1 => CutAfterZero(r, number)
  PROVE  Reads(r, m, number, [out |-> <<>>, complete |-> done])
<1>1. Len(<<>>) = 0 /\ Len(FlattenSeq(r)) \in Nat /\ DataOf(r, m) \in Nat
  BY EncodedIs, EndsNat, LenProperties
<1>2. Part(r, m, <<>>)
  <2>1. 0 \in 0..(Len(FlattenSeq(r)) - DataOf(r, m))
    BY <1>1
  <2> QED
    BY <1>1, <2>1 DEF Part
<1> QED
  BY <1>2 DEF Reads

LEMMA ReadsEnd ==
  ASSUME NEW r \in Seq(Seq(Chars)), NEW number \in 1..Len(Encoded(r)), EndOf(r, Len(r)) <= number,
         NEW f
  PROVE  Reads(r, Len(r), number, ScanStep(SubSeq(Encoded(r), 1, number), EndOf(r, Len(r)), f))
<1> DEFINE a == EndOf(r, Len(r))
           E == SubSeq(Encoded(r), 1, number)
           o == ScanStep(E, a, f)
<1>1. Len(r) \in 0..Len(r) /\ a \in Nat
  BY LenProperties, EndsNat
<1>2. Len(Encoded(r)) = a + 5 /\ number \in a..(a + 5)
  BY <1>1, EncodedIs
<1>3. /\ E \in Seq(Chars) /\ Len(E) = number
      /\ \A j \in 1..number : E[j] = Encoded(r)[j]
  BY EntityIs
<1>4. DataOf(r, Len(r)) = Len(FlattenSeq(r)) /\ DataOf(r, Len(r)) \in Nat
  BY <1>1, EncodedIs, EndsNat
<1>5. /\ Encoded(r)[a + 1] = "0" /\ Encoded(r)[a + 2] = "CR" /\ Encoded(r)[a + 3] = "LF"
  BY EncodedIs
<1> HIDE DEF E
<1>6. CASE number = a
  <2>1. o = [out |-> <<>>, complete |-> 0]
    BY <1>3, <1>6 DEF ScanStep
  <2>2. number # Len(Encoded(r)) /\ DataOf(r, Len(r)) <= Len(FlattenSeq(r))
    BY <1>1, <1>2, <1>4, <1>6
  <2>3. Reads(r, Len(r), number, [out |-> <<>>, complete |-> 0])
    BY <1>1, <2>2, ReadsNothing
  <2> QED
    BY <2>1, <2>3 DEF E
<1>7. CASE number # a
  <2>1. Part(r, Len(r), <<>>) /\ Whole(r, Len(r), <<>>)
    <3>1. Len(<<>>) = 0 /\ 0 \in 0..(Len(FlattenSeq(r)) - DataOf(r, Len(r)))
          /\ Len(FlattenSeq(r)) - DataOf(r, Len(r)) = 0
      BY <1>4
    <3> QED
      BY <3>1 DEF Part, Whole
  <2>2. a < number
    BY <1>1, <1>2, <1>7
  <2>3. /\ o = [out |-> <<>>, complete |-> 0] \/ o = [out |-> <<>>, complete |-> 1]
        /\ number = a + 5 => o.complete = 1
    <3>1. CASE number \in {a + 1, a + 2}
      <4>1. LineEnds(E, a) = {}
        <5>1. SUFFICES ASSUME NEW j \in a..(number - 2), E[j + 1] = "CR" PROVE FALSE
          BY <1>3 DEF LineEnds
        <5>2. j = a /\ a + 1 \in 1..number
          BY <1>1, <3>1
        <5> QED
          BY <1>3, <1>5, <5>1, <5>2
      <4>2. o = [out |-> <<>>, complete |-> IF E[Len(E)] = "0" THEN 1 ELSE 0]
        BY <1>3, <1>7, <4>1 DEF ScanStep
      <4>3. number # a + 5
        BY <1>1, <3>1
      <4> QED
        BY <4>2, <4>3
    <3>2. CASE number \notin {a + 1, a + 2}
      <4>1. a + 3 <= number /\ a + 2 \in 1..number /\ a + 3 \in 1..number /\ a + 1 \in 1..number
        BY <1>1, <1>2, <1>7, <3>2, SMTT(30)
      <4>2. a + 1 \in LineEnds(E, a)
        <5>1. a + 1 \in a..(number - 2) /\ (a + 1) + 1 = a + 2 /\ (a + 1) + 2 = a + 3
          BY <1>1, <1>2, <4>1, SMTT(30)
        <5> QED
          BY <1>3, <1>5, <4>1, <5>1 DEF LineEnds
      <4>3. a \notin LineEnds(E, a)
        BY <1>3, <1>5, <4>1 DEF LineEnds
      <4>4. Min(LineEnds(E, a)) = a + 1
        <5>1. \A j \in LineEnds(E, a) : j \in Int /\ a + 1 <= j
          <6>1. \A j \in LineEnds(E, a) : j \in a..(Len(E) - 2)
            BY DEF LineEnds
          <6> QED
            BY <1>1, <1>3, <4>3, <6>1
        <5> QED
          BY <4>2, <5>1, MinIs
      <4>5. SubSeq(E, a + 1, a + 1) = <<"0">>
        <5>1. E[a + 1] = "0"
          BY <1>3, <1>5, <4>1
        <5>2. \A j \in (a + 1)..(a + 1) : j = a + 1
          BY <1>1
        <5>3. \A j \in (a + 1)..(a + 1) : E[j] \in Chars
          BY <1>3, <4>1, <5>2, ElementOfSeq
        <5>4. a + 1 \in Int /\ a + 1 <= (a + 1) + 1
          BY <1>1
        <5> DEFINE s == SubSeq(E, a + 1, a + 1)
        <5>5. s \in Seq(Chars) /\ Len(s) = 1 /\ s[1] = E[a + 1]
          BY <1>1, <5>3, <5>4, SubSeqProperties
        <5> HIDE DEF s
        <5>6. s = <<"0">>
          BY <5>1, <5>5
        <5> QED
          BY <5>6 DEF s
      <4>6. HexValue(<<"0">>) = 0
        <5>1. 0 \in 0..15 /\ Digits[0 + 1] = "0"
          BY DEF Digits
        <5>2. "0" \in HexSet /\ DigitValue("0") = 0
          BY <5>1, DigitIs
        <5> QED
          BY <5>2, HexOne
      <4>7. LineEnds(E, a) # {}
        BY <4>2
      <4> QED
        BY <1>3, <1>7, <4>4, <4>5, <4>6, <4>7 DEF ScanStep
    <3> QED
      BY <3>1, <3>2
  <2>4. o.out = <<>>
    BY <2>3
  <2>5. number = Len(Encoded(r)) => o.complete = 1
    BY <1>2, <2>3
  <2> HIDE DEF o
  <2> QED
    BY <2>1, <2>2, <2>4, <2>5 DEF Reads, o, E
<1> QED
  BY <1>6, <1>7 DEF E

LEMMA WithinSize ==
  ASSUME NEW a \in Nat, NEW w \in Nat, NEW n \in Nat,
         a <= n, n # a, n # a + w + 1, n <= a + w + 1
  PROVE  n - a \in 1..w /\ a + (n - a) = n
OBVIOUS

LEMMA WithinData ==
  ASSUME NEW a \in Nat, NEW w \in Nat, NEW j \in Nat, NEW n \in Nat
  PROVE  a + w + 2 + j - 1 < n <=> a + w + 2 + j <= n
OBVIOUS

LEMMA ReadsChunk ==
  ASSUME NEW r \in Seq(Seq(Chars)), NEW m \in 0..(Len(r) - 1), NEW number \in 1..Len(Encoded(r)),
         EndOf(r, m) <= number, r[m + 1] # <<>>, Len(r[m + 1]) <= MaxBuff, NEW f,
         f[number] = [out |-> <<>>, complete |-> 0],
         EndOf(r, m + 1) <= number =>
             f[EndOf(r, m + 1)] \in Outcomes /\ Reads(r, m + 1, number, f[EndOf(r, m + 1)])
  PROVE  Reads(r, m, number, ScanStep(SubSeq(Encoded(r), 1, number), EndOf(r, m), f))
<1> DEFINE E == SubSeq(Encoded(r), 1, number)
           a == EndOf(r, m)
           b == DataOf(r, m)
           c == r[m + 1]
           line == SizeLine(Len(c))
           w == Len(line)
           L == Len(c)
           o == ScanStep(E, a, f)
           D == FlattenSeq(r)
<1>1. Len(r) \in Nat /\ m \in 0..Len(r) /\ m + 1 \in 0..Len(r)
  BY LenProperties
<1>2. c \in Seq(Chars) /\ L \in Nat \ {0} /\ MaxBuff \in Nat
  <2>1. c \in Seq(Chars)
    BY OneMoreChunk
  <2> QED
    BY <2>1, EmptySeq, BuffAssumption
<1>3. line \in Seq(HexSet) /\ w \in Nat \ {0} /\ HexValue(line) = L
  BY <1>2, SizeRead
<1>4. Placed(r, m, c, w)
  BY ChunkPlaced
<1>5. a \in Nat /\ b \in Nat /\ Len(D) \in Nat /\ D \in Seq(Chars) /\ Len(Encoded(r)) \in Nat
  BY <1>1, EndsNat, EncodedIs, LenProperties
<1>6. /\ E \in Seq(Chars) /\ Len(E) = number
      /\ \A j \in 1..number : E[j] = Encoded(r)[j]
  BY EntityIs
<1>7. a <= number /\ number \in Nat /\ L <= MaxBuff /\ f[number] = [out |-> <<>>, complete |-> 0]
  BY <1>5
<1>8. EndOf(r, m + 1) <= number =>
             f[EndOf(r, m + 1)] \in Outcomes /\ Reads(r, m + 1, number, f[EndOf(r, m + 1)])
  OBVIOUS
<1>9. DOMAIN line = 1..w
  BY <1>3, LenProperties
<1>10. /\ EndOf(r, m + 1) = a + w + L + 4 /\ EndOf(r, m + 1) + 5 <= Len(Encoded(r))
       /\ DataOf(r, m + 1) = b + L /\ b + L <= Len(D)
       /\ \A j \in 1..w : Encoded(r)[a + j] = line[j]
       /\ Encoded(r)[a + w + 1] = "CR" /\ Encoded(r)[a + w + 2] = "LF"
       /\ \A j \in 1..L : Encoded(r)[a + w + 2 + j] = c[j] /\ D[b + j] = c[j]
  BY <1>4 DEF Placed
<1>11. \A j \in 1..w : line[j] \in HexSet /\ line[j] # "CR"
  BY <1>3, <1>9, ElementOfSeq, DigitOf
<1>17. /\ a \in Nat /\ b \in Nat /\ w \in Nat /\ 1 <= w /\ L \in Nat /\ 1 <= L
       /\ number \in Nat /\ a <= number /\ Len(D) \in Nat
  <2>1. 1 <= w /\ w \in Nat
    <3> HIDE DEF w
    <3> QED
      BY <1>3
  <2>2. 1 <= L /\ L \in Nat
    <3> HIDE DEF L
    <3> QED
      BY <1>2
  <2> QED
    BY <1>5, <1>7, <2>1, <2>2
<1>18. EndOf(r, m + 1) = a + w + L + 4 /\ b + L <= Len(D)
  BY <1>10
<1>12. b <= Len(D)
  <2> HIDE DEF a, b, w, L, D
  <2> QED
    BY <1>17, <1>18
<1>13. \A k \in 1..w : line[k] = "0" /\ number = a + k => CutAfterZero(r, number)
  <2>1. SUFFICES ASSUME NEW k \in 1..w, line[k] = "0", number = a + k PROVE CutAfterZero(r, number)
    OBVIOUS
  <2>2. m + 1 \in DOMAIN r /\ (m + 1) - 1 = m /\ k \in DOMAIN SizeLine(Len(r[m + 1]))
    BY <1>1, <1>9, LenProperties
  <2>3. number = Len(EncodedChunks(SubSeq(r, 1, (m + 1) - 1))) + k
    BY <2>1, <2>2 DEF EndOf, Coded
  <2> QED
    BY <2>1, <2>2, <2>3 DEF CutAfterZero
<1> HIDE DEF E, c, line, w, L, D, a, b
(* The part ends in the size of the chunk.                                 *)
<1>14. CASE number <= a + w + 1
  <2>1. number # Len(Encoded(r))
    BY <1>2, <1>3, <1>5, <1>10, <1>14, SMTT(30)
  <2>2. CASE number = a
    <3>1. o = [out |-> <<>>, complete |-> 0]
      BY <1>6, <2>2 DEF ScanStep
    <3>2. Reads(r, m, number, [out |-> <<>>, complete |-> 0])
      BY <1>1, <1>12, <2>1, ReadsNothing DEF b, D
    <3> QED
      BY <3>1, <3>2 DEF E, a
  <2>3. CASE number # a
    <3>1. LineEnds(E, a) = {}
      <4>1. SUFFICES ASSUME NEW j \in a..(number - 2), E[j + 1] = "CR" PROVE FALSE
        BY <1>6 DEF LineEnds
      <4>2. (j + 1) - a \in 1..w /\ a + ((j + 1) - a) = j + 1 /\ j + 1 \in 1..number
        BY <1>3, <1>5, <1>7, <1>14
      <4>3. E[j + 1] = line[(j + 1) - a]
        BY <1>6, <1>10, <4>2, ZenonT(30)
      <4> QED
        BY <1>11, <4>1, <4>2, <4>3
    <3> DEFINE done == IF E[number] = "0" THEN 1 ELSE 0
    <3>2. o = [out |-> <<>>, complete |-> done]
      BY <1>6, <2>3, <3>1 DEF ScanStep
    <3>3. ASSUME E[number] = "0" PROVE CutAfterZero(r, number)
      <4>1. number \in 1..number /\ E[number] = Encoded(r)[number]
        <5> HIDE DEF done, o
        <5>1. number \in Nat /\ 1 <= number
          BY <1>17
        <5>2. number \in 1..number
          BY <5>1
        <5> QED
          BY <1>6, <5>2, Zenon
      <4>2. number # a + w + 1
        BY <1>10, <3>3, <4>1
      <4>3. number - a \in 1..w /\ a + (number - a) = number
        <5> HIDE DEF done, o
        <5>1. number # a
          BY <2>3
        <5> QED
          BY <1>14, <1>17, <4>2, <5>1, WithinSize
      <4>4. line[number - a] = "0"
        BY <1>10, <3>3, <4>1, <4>3
      <4> QED
        BY <1>13, <4>3, <4>4
    <3>4. done \in {0, 1} /\ (done = 1 => CutAfterZero(r, number))
      BY <3>3
    <3> HIDE DEF done
    <3>5. Reads(r, m, number, [out |-> <<>>, complete |-> done])
      BY <1>1, <1>12, <2>1, <3>4, ReadsNothing DEF b, D
    <3> QED
      BY <3>2, <3>5 DEF E, a
  <2> QED
    BY <2>2, <2>3
(* The size is there: what follows is taken for data.                      *)
<1>15. CASE a + w + 2 <= number
  <2>1. a + w \in LineEnds(E, a) /\ Min(LineEnds(E, a)) = a + w
    <3>1. a + w \in a..(number - 2) /\ a + w + 1 \in 1..number /\ a + w + 2 \in 1..number
      BY <1>3, <1>5, <1>7, <1>15
    <3>2. a + w \in LineEnds(E, a)
      BY <1>6, <1>10, <3>1 DEF LineEnds
    <3>3. \A j \in LineEnds(E, a) : j \in Int /\ a + w <= j
      <4>1. SUFFICES ASSUME NEW j \in a..(number - 2), E[j + 1] = "CR", j < a + w PROVE FALSE
        BY <1>3, <1>5, <1>6, <1>7, SMTT(30) DEF LineEnds
      <4>2. (j + 1) - a \in 1..w /\ a + ((j + 1) - a) = j + 1 /\ j + 1 \in 1..number
        BY <1>3, <1>5, <1>7, <4>1
      <4>3. E[j + 1] = line[(j + 1) - a]
        BY <1>6, <1>10, <4>2, ZenonT(30)
      <4> QED
        BY <1>11, <4>1, <4>2, <4>3
    <3> QED
      BY <3>2, <3>3, MinIs
  <2>2. SubSeq(E, a + 1, a + w) = line
    <3> DEFINE s == SubSeq(E, a + 1, a + w)
    <3>1. a + w <= Len(E) /\ w \in Nat \ {0}
      BY <1>6, <1>15, <1>17, SMTT(30)
    <3>4. s \in Seq(Chars) /\ Len(s) = w /\ \A j \in 1..w : s[j] = E[a + j]
      BY <1>6, <1>17, <3>1, Piece
    <3> HIDE DEF s
    <3>5. ASSUME NEW j \in 1..w PROVE s[j] = line[j]
      <4>1. a + j \in 1..number
        BY <1>15, <1>17, SMTT(30)
      <4> QED
        BY <1>6, <1>10, <3>4, <4>1
    <3>6. line \in Seq(Chars) /\ Len(line) = w
      <4>1. HexSet \subseteq Chars
        BY CharsAssumption DEF HexSet
      <4> QED
        BY <1>3, <4>1, SeqMonotonic DEF w
    <3>7. s = line
      BY <3>4, <3>5, <3>6, SeqEqual
    <3> QED
      BY <3>7 DEF s
  <2> DEFINE next == Smaller(After(a + w, L), number)
             data == ChunkData(E, a + w + 2, L)
             k == Smaller(number, L)
  <2>3. o = [f[next] EXCEPT !.out = data \o @]
    <3>1. a # number /\ LineEnds(E, a) # {}
      BY <1>3, <1>5, <1>15, <2>1
    <3>2. L # 0 /\ ~(L > MaxBuff)
      BY <1>2, <1>7
    <3> QED
      BY <1>3, <1>6, <2>1, <2>2, <3>1, <3>2 DEF ScanStep
  <2>4. /\ data \in Seq(AllChars) /\ Len(data) = k
        /\ \A j \in 1..k : data[j] = IF a + w + 2 + j - 1 < number THEN E[a + w + 2 + j] ELSE Unknown
    <3>1. a + w + 2 \in Nat /\ L \in Nat
      BY <1>2, <1>3, <1>5
    <3> QED
      BY <1>6, <3>1, ChunkDataIs
  <2>5. k \in Nat /\ k <= L /\ k <= number
    BY <1>2, <1>7 DEF Smaller
  <2>6. ASSUME NEW j \in 1..k
        PROVE  data[j] = IF a + w + 2 + j <= number THEN D[b + j] ELSE Unknown
    <3>1. j \in 1..L /\ (a + w + 2 + j - 1 < number <=> a + w + 2 + j <= number)
      <4> HIDE DEF k, data, next, o
      <4>1. j \in Nat /\ 1 <= j /\ j <= L
        BY <1>17, <2>5, SMTT(30)
      <4>2. a + w + 2 + j - 1 < number <=> a + w + 2 + j <= number
        BY <1>17, <4>1, WithinData
      <4> QED
        BY <1>17, <4>1, <4>2
    <3>2. CASE a + w + 2 + j <= number
      <4>1. a + w + 2 + j \in 1..number
        <5> HIDE DEF k, data, next, o
        <5>1. j \in Nat
          BY <3>1
        <5> QED
          BY <1>17, <3>2, <5>1, SMTT(30)
      <4>2. E[a + w + 2 + j] = c[j] /\ D[b + j] = c[j]
        BY <1>6, <1>10, <3>1, <4>1
      <4> QED
        BY <2>4, <3>1, <3>2, <4>2
    <3>3. CASE ~(a + w + 2 + j <= number)
      BY <2>4, <3>1, <3>3
    <3> QED
      BY <3>2, <3>3
  <2> HIDE DEF data, k
  <2>7. CASE EndOf(r, m + 1) <= number
    <3> DEFINE rest == f[EndOf(r, m + 1)]
               all == data \o rest.out
    <3>1. next = EndOf(r, m + 1)
      <4> HIDE DEF rest, all
      <4>1. After(a + w, L) = EndOf(r, m + 1)
        BY <1>17, <1>18 DEF After
      <4>2. EndOf(r, m + 1) \in Nat
        BY <1>17, <1>18
      <4> QED
        BY <1>17, <2>7, <4>1, <4>2 DEF Smaller
    <3>2. rest \in Outcomes /\ Reads(r, m + 1, number, rest)
      BY <1>8, <2>7
    <3>3. k = L
      BY <1>17, <1>18, <2>7, SMTT(30) DEF k, Smaller
    <3>4. \A j \in 1..L : data[j] = D[b + j]
      <4>1. \A j \in 1..L : a + w + 2 + j <= number
        BY <1>2, <1>3, <1>5, <1>7, <1>10, <2>7
      <4> QED
        BY <2>6, <3>3, <4>1
    <3> HIDE DEF rest
    <3>5. rest.out \in Seq(AllChars) /\ rest.complete \in {0, 1} /\ Len(rest.out) \in Nat
      BY <3>2, LenProperties DEF Outcomes
    <3>6. o.out = all /\ o.complete = rest.complete
      <4>1. o = [rest EXCEPT !.out = data \o @]
        BY <2>3, <3>1 DEF rest
      <4>2. rest \in [out : Seq(AllChars), complete : {0, 1}]
        BY <3>2 DEF Outcomes
      <4> HIDE DEF o
      <4> QED
        BY <4>1, <4>2
    <3>7. Joined(data, rest.out, all)
      BY <2>4, <3>5, JoinedParts, ZenonT(30)
    <3> HIDE DEF all, o
    <3>8. Len(data) = L
      BY <2>4, <3>3
    <3>9. /\ Len(all) = L + Len(rest.out)
          /\ \A j \in 1..L : all[j] = D[b + j]
          /\ \A j \in 1..Len(rest.out) : all[L + j] = rest.out[j]
      BY <3>4, <3>7, <3>8 DEF Joined
    <3>10. DataOf(r, m + 1) = b + L
      BY <1>10
    <3>11. ASSUME Whole(r, m + 1, rest.out) PROVE Whole(r, m, all)
      <4>1. Len(rest.out) = Len(D) - (b + L) /\ \A j \in 1..Len(rest.out) : rest.out[j] = D[(b + L) + j]
        BY <3>10, <3>11 DEF Whole, D
      <4>2. Len(all) = Len(D) - b
        BY <1>2, <1>5, <3>5, <3>9, <4>1
      <4>3. ASSUME NEW j \in 1..Len(all) PROVE all[j] = D[b + j]
        <5>1. CASE j <= L
          BY <1>2, <3>9, <5>1, SMTT(30)
        <5>2. CASE ~(j <= L)
          <6>1. j - L \in 1..Len(rest.out) /\ L + (j - L) = j /\ (b + L) + (j - L) = b + j
            BY <1>2, <1>5, <3>5, <3>9, <5>2
          <6> QED
            BY <3>9, <4>1, <6>1, SMTT(30)
        <5> QED
          BY <5>1, <5>2
      <4> QED
        BY <4>2, <4>3 DEF Whole, D, b
    <3>12. Part(r, m, all)
      <4>1. PICK n \in 0..(Len(D) - (b + L)) :
               /\ n <= Len(rest.out)
               /\ \A j \in 1..Len(rest.out) : rest.out[j] = IF j <= n THEN D[(b + L) + j] ELSE Unknown
        BY <3>2, <3>10 DEF Reads, Part, D
      <4>2. L + n \in 0..(Len(D) - b) /\ L + n <= Len(all)
        BY <1>2, <1>5, <1>10, <3>5, <3>9, <4>1
      <4>3. ASSUME NEW j \in 1..Len(all) PROVE all[j] = IF j <= L + n THEN D[b + j] ELSE Unknown
        <5>1. CASE j <= L
          <6>1. j \in 1..L /\ j <= L + n
            BY <1>2, <5>1
          <6> QED
            BY <3>9, <6>1
        <5>2. CASE ~(j <= L)
          <6>1. /\ j - L \in 1..Len(rest.out) /\ L + (j - L) = j /\ (b + L) + (j - L) = b + j
                /\ (j - L <= n <=> j <= L + n)
            BY <1>2, <1>5, <3>5, <3>9, <5>2
          <6> QED
            BY <3>9, <4>1, <6>1, SMTT(30)
        <5> QED
          BY <5>1, <5>2
      <4> QED
        BY <4>2, <4>3 DEF Part, D, b
    <3>13. Reads(r, m, number, o)
      BY <3>2, <3>6, <3>11, <3>12 DEF Reads
    <3> QED
      BY <3>13 DEF o, E, a
  <2>8. CASE ~(EndOf(r, m + 1) <= number)
    <3>1. next = number
      BY <1>17, <1>18, <2>8, SMTT(30) DEF Smaller, After
    <3>2. o = [out |-> data \o <<>>, complete |-> 0]
      <4> DEFINE none == [out |-> <<>>, complete |-> 0]
      <4>1. o = [none EXCEPT !.out = data \o @]
        BY <1>7, <2>3, <3>1
      <4> HIDE DEF o
      <4> QED
        BY <4>1
    <3>3. data \o <<>> = data
      BY <2>4, ConcatEmptySeq
    <3>4. number # Len(Encoded(r))
      BY <1>2, <1>3, <1>5, <1>7, <1>10, <2>8
    <3> DEFINE q == Smaller(number - (a + w + 2), L)
               n == Smaller(q, k)
    <3>5. q \in Nat /\ q <= L /\ n \in Nat /\ n <= k /\ n <= q
      BY <1>15, <1>17, <2>5 DEF Smaller
    <3>6. ASSUME NEW j \in 1..k PROVE (a + w + 2 + j <= number) <=> (j <= n)
      BY <1>15, <1>17, <2>5 DEF Smaller
    <3> HIDE DEF n, q
    <3>7. Part(r, m, data)
      <4>1. n \in 0..(Len(D) - b) /\ n <= Len(data)
        <5>1. Len(data) = k
          BY <2>4
        <5> QED
          BY <1>17, <1>18, <3>5, <5>1
      <4>2. \A j \in 1..Len(data) : data[j] = IF j <= n THEN D[b + j] ELSE Unknown
        BY <2>4, <2>6, <3>6
      <4> QED
        BY <4>1, <4>2 DEF Part, D, b
    <3>8. o.out = data /\ o.complete = 0
      BY <3>2, <3>3
    <3> HIDE DEF o
    <3>9. Reads(r, m, number, o)
      BY <3>4, <3>7, <3>8 DEF Reads
    <3> QED
      BY <3>9 DEF o, E, a
  <2> QED
    BY <2>7, <2>8
<1>16. number <= a + w + 1 \/ a + w + 2 <= number
  BY <1>3, <1>5, <1>7
<1> QED
  BY <1>14, <1>15, <1>16
(* The whole scan, from the last chunk back to the first.                  *)
LEMMA ScanReads ==
  ASSUME NEW r \in Seq(Seq(Chars)), \A i \in DOMAIN r : r[i] # <<>> /\ Len(r[i]) <= MaxBuff,
         NEW number \in 1..Len(Encoded(r))
  PROVE  /\ Scan(SubSeq(Encoded(r), 1, number)) \in Outcomes
         /\ Reads(r, 0, number, Scan(SubSeq(Encoded(r), 1, number)))
<1> DEFINE E == SubSeq(Encoded(r), 1, number)
<1>1. E \in Seq(Chars) /\ Len(E) = number /\ number \in Nat
  BY EntityIs, SMTT(30)
<1>2. PICK f : /\ Scan(E) = f[0]
               /\ \A i \in 0..Len(E) : f[i] \in Outcomes /\ f[i] = ScanStep(E, i, f)
  BY <1>1, ScanIs
<1>3. Len(r) \in Nat /\ DOMAIN r = 1..Len(r)
  BY LenProperties
<1>4. f[number] = [out |-> <<>>, complete |-> 0]
  <2> HIDE DEF E
  <2>1. number \in 0..Len(E) /\ f[number] = ScanStep(E, number, f)
    BY <1>1, <1>2
  <2> QED
    BY <1>1, <2>1 DEF ScanStep
<1> DEFINE G == {d \in Nat : d <= Len(r) /\ EndOf(r, Len(r) - d) <= number =>
                     /\ f[EndOf(r, Len(r) - d)] \in Outcomes
                     /\ Reads(r, Len(r) - d, number, f[EndOf(r, Len(r) - d)])}
<1>5. ASSUME NEW m \in 0..Len(r), EndOf(r, m) <= number
      PROVE  f[EndOf(r, m)] \in Outcomes /\ f[EndOf(r, m)] = ScanStep(E, EndOf(r, m), f)
  <2>1. EndOf(r, m) \in 0..number
    BY <1>1, <1>5, EndsNat
  <2> HIDE DEF E
  <2> QED
    BY <1>1, <1>2, <2>1
<1>6. 0 \in G
  <2>1. SUFFICES ASSUME EndOf(r, Len(r)) <= number
                 PROVE  f[EndOf(r, Len(r))] \in Outcomes /\ Reads(r, Len(r), number, f[EndOf(r, Len(r))])
    BY <1>3
  <2>2. Len(r) \in 0..Len(r)
    BY <1>3
  <2>3. Reads(r, Len(r), number, ScanStep(E, EndOf(r, Len(r)), f))
    BY <2>1, ReadsEnd
  <2> HIDE DEF E
  <2> QED
    BY <1>5, <2>1, <2>2, <2>3
<1>7. ASSUME NEW d \in G PROVE d + 1 \in G
  <2> DEFINE m == Len(r) - (d + 1)
  <2>1. SUFFICES ASSUME d + 1 <= Len(r), EndOf(r, m) <= number
                 PROVE  f[EndOf(r, m)] \in Outcomes /\ Reads(r, m, number, f[EndOf(r, m)])
    BY <1>7
  <2>2. m \in 0..(Len(r) - 1) /\ m \in 0..Len(r) /\ m + 1 = Len(r) - d /\ m + 1 \in DOMAIN r /\ d <= Len(r)
    BY <1>3, <1>7, <2>1
  <2>3. EndOf(r, m + 1) <= number =>
             f[EndOf(r, m + 1)] \in Outcomes /\ Reads(r, m + 1, number, f[EndOf(r, m + 1)])
    BY <1>7, <2>2
  <2>4. r[m + 1] # <<>> /\ Len(r[m + 1]) <= MaxBuff
    BY <2>2
  <2> HIDE DEF m, G
  <2>5. Reads(r, m, number, ScanStep(E, EndOf(r, m), f))
    BY <1>4, <2>1, <2>2, <2>3, <2>4, ReadsChunk
  <2> HIDE DEF E
  <2> QED
    BY <1>5, <2>1, <2>2, <2>5
<1> HIDE DEF G
<1>8. G = Nat
  <2>1. G \in SUBSET Nat
    BY DEF G
  <2> QED
    BY <1>6, <1>7, <2>1, InductionOnNat
<1>9. EndOf(r, 0) = 0
  BY NoChunk DEF EndOf
<1>10. Len(r) \in G /\ Len(r) - Len(r) = 0 /\ 0 <= number
  BY <1>1, <1>3, <1>8
<1>11. f[EndOf(r, 0)] \in Outcomes /\ Reads(r, 0, number, f[EndOf(r, 0)])
  BY <1>9, <1>10 DEF G
<1> QED
  BY <1>2, <1>9, <1>11

(* What output_interaction_data makes of the part of a body it takes.      *)
Decoded(r, size) ==
  LET entity    == SubSeq(Encoded(r), 1, size)
      extracted == ExtractChunkedData(entity)
  IN  IF extracted.ret = 0 THEN SubSeq(extracted.out, 1, Smaller(Len(extracted.out), size)) ELSE entity
Complete(r, size) == ExtractChunkedData(SubSeq(Encoded(r), 1, size)).complete

(* A body the buffer has no room for is left as it is.                     *)
LEMMA TooLong ==
  ASSUME NEW r \in Seq(Seq(Chars)), NEW size \in 1..Len(Encoded(r)), size > MaxBuff
  PROVE  Decoded(r, size) = SubSeq(Encoded(r), 1, size) /\ Complete(r, size) = 0
<1> DEFINE E == SubSeq(Encoded(r), 1, size)
<1>1. Len(E) = size
  BY EntityIs
<1> HIDE DEF E
<1>2. ExtractChunkedData(E) = [ret |-> -1, out |-> <<>>, complete |-> 0]
  BY <1>1 DEF ExtractChunkedData
<1>3. ExtractChunkedData(E).ret # 0 /\ ExtractChunkedData(E).complete = 0
  BY <1>2
<1> QED
  BY <1>3 DEF Decoded, Complete, E

LEMMA FirstPart ==
  ASSUME NEW S, NEW s \in Seq(S), NEW n \in 0..Len(s)
  PROVE  SubSeq(s, 1, n) \in Seq(S) /\ Len(SubSeq(s, 1, n)) = n /\ \A j \in 1..n : SubSeq(s, 1, n)[j] = s[j]
<1>1. Len(s) \in Nat
  BY LenProperties
<1>2. \A j \in 1..n : j \in 1..Len(s) /\ s[j] \in S
  BY <1>1, ElementOfSeq
<1>3. n \in Int /\ 1 \in Int
  BY <1>1
<1>4. /\ SubSeq(s, 1, n) \in Seq(S)
      /\ Len(SubSeq(s, 1, n)) = IF 1 <= n THEN n - 1 + 1 ELSE 0
      /\ \A j \in 1..(n - 1 + 1) : SubSeq(s, 1, n)[j] = s[1 + j - 1]
  BY <1>2, <1>3, SubSeqProperties
<1> QED
  BY <1>1, <1>4

(* The output buffer takes a first part of what was scanned.               *)
LEMMA DecodedIs ==
  ASSUME NEW r \in Seq(Seq(Chars)), NEW size \in 1..Len(Encoded(r)), size <= MaxBuff,
         NEW scanned, scanned = Scan(SubSeq(Encoded(r), 1, size)), scanned \in Outcomes
  PROVE  /\ Complete(r, size) = scanned.complete
         /\ Decoded(r, size) \in Seq(AllChars)
         /\ Len(Decoded(r, size)) \in 0..Len(scanned.out)
         /\ \A j \in 1..Len(Decoded(r, size)) : Decoded(r, size)[j] = scanned.out[j]
         /\ Len(scanned.out) < size => Len(Decoded(r, size)) = Len(scanned.out)
<1> DEFINE E == SubSeq(Encoded(r), 1, size)
           out == scanned.out
           p == Smaller(Len(out), MaxBuff - 1)
           s == SubSeq(out, 1, p)
           q == Smaller(Len(s), size)
<1>1. Len(E) = size /\ size # 0
  BY EntityIs
<1>2. out \in Seq(AllChars) /\ Len(out) \in Nat /\ MaxBuff \in Nat \ {0} /\ size \in Nat
  BY BuffAssumption, LenProperties DEF Outcomes
<1>3. p \in 0..Len(out) /\ (Len(out) < size => p = Len(out))
  BY <1>2 DEF Smaller
<1>4. s \in Seq(AllChars) /\ Len(s) = p /\ \A j \in 1..p : s[j] = out[j]
  <2> HIDE DEF p, out
  <2> QED
    BY <1>2, <1>3, FirstPart
<1>5. ExtractChunkedData(E) = [ret |-> 0, complete |-> scanned.complete, out |-> s]
  <2> HIDE DEF E
  <2>1. scanned = Scan(E)
    BY DEF E
  <2>2. ~(Len(E) = 0 \/ Len(E) > MaxBuff)
    BY <1>1, <1>2
  <2>3. ExtractChunkedData(E) =
           [ret |-> 0, complete |-> Scan(E).complete,
            out |-> SubSeq(Scan(E).out, 1, Smaller(Len(Scan(E).out), MaxBuff - 1))]
    BY <2>2 DEF ExtractChunkedData
  <2> QED
    BY <2>1, <2>3
<1>6. Decoded(r, size) = SubSeq(s, 1, q) /\ Complete(r, size) = scanned.complete
  <2> DEFINE x == ExtractChunkedData(E)
  <2> HIDE DEF s
  <2>1. x.ret = 0 /\ x.complete = scanned.complete /\ x.out = s
    BY <1>5
  <2> HIDE DEF x
  <2>2. Decoded(r, size) = IF x.ret = 0 THEN SubSeq(x.out, 1, Smaller(Len(x.out), size)) ELSE E
    BY DEF Decoded, x, E
  <2>3. Complete(r, size) = x.complete
    BY DEF Complete, x, E
  <2> QED
    BY <2>1, <2>2, <2>3
<1> HIDE DEF s, p, out, E
<1>7. q \in 0..Len(s) /\ (Len(out) < size => q = Len(out))
  BY <1>2, <1>3, <1>4 DEF Smaller
<1> HIDE DEF q
<1>8. /\ SubSeq(s, 1, q) \in Seq(AllChars) /\ Len(SubSeq(s, 1, q)) = q
      /\ \A j \in 1..q : SubSeq(s, 1, q)[j] = s[j]
  BY <1>4, <1>7, FirstPart
<1>9. q \in 0..Len(out) /\ \A j \in 1..q : j \in 1..p
  BY <1>2, <1>3, <1>4, <1>7
<1> QED
  BY <1>4, <1>6, <1>7, <1>8, <1>9 DEF out

(* A body whose chunks fit: all of the data, or a part of it and then what *)
(* memory holds.                                                           *)
LEMMA DecodedCorrect ==
  ASSUME NEW r \in Seq(Seq(Chars)), \A i \in DOMAIN r : r[i] # <<>> /\ Len(r[i]) <= MaxBuff,
         NEW size \in 1..Len(Encoded(r)), size <= MaxBuff
  PROVE  LET data == FlattenSeq(r)
             got  == Decoded(r, size)
         IN  /\ size = Len(Encoded(r)) => got = data /\ Complete(r, size) = 1
             /\ \E n \in 0..Len(data) :
                   /\ n <= Len(data) /\ n <= Len(got)
                   /\ \A j \in 1..Len(got) : got[j] = IF j <= n THEN data[j] ELSE Unknown
             /\ Complete(r, size) = 1 => got = data \/ CutAfterZero(r, size)
<1> DEFINE scanned == Scan(SubSeq(Encoded(r), 1, size))
           data == FlattenSeq(r)
           got == Decoded(r, size)
<1>1. scanned \in Outcomes /\ Reads(r, 0, size, scanned)
  BY ScanReads
<1>2. /\ Complete(r, size) = scanned.complete
      /\ got \in Seq(AllChars) /\ Len(got) \in 0..Len(scanned.out)
      /\ \A j \in 1..Len(got) : got[j] = scanned.out[j]
      /\ Len(scanned.out) < size => Len(got) = Len(scanned.out)
  BY <1>1, DecodedIs
<1>3. DataOf(r, 0) = 0
  BY NoChunk DEF DataOf
<1>4. data \in Seq(Chars) /\ Len(data) \in Nat /\ size \in Nat /\ Len(scanned.out) \in Nat
  BY <1>1, EncodedIs, LenProperties DEF Outcomes
<1>5. EndOf(r, Len(r)) \in Nat /\ Len(data) <= EndOf(r, Len(r)) /\ Len(Encoded(r)) = EndOf(r, Len(r)) + 5
  <2>1. Len(r) \in 0..Len(r)
    BY LenProperties
  <2> QED
    BY <2>1, EndsNat, DataShorter, EncodedIs
<1> HIDE DEF scanned, got, data
<1>6. ASSUME EndOf(r, Len(r)) < size, Whole(r, 0, scanned.out) PROVE got = data
  <2>1. Len(scanned.out) = Len(data) /\ \A j \in 1..Len(data) : scanned.out[j] = data[j]
    BY <1>3, <1>4, <1>6 DEF Whole, data
  <2>2. Len(got) = Len(data)
    BY <1>2, <1>4, <1>5, <1>6, <2>1
  <2>3. \A j \in 1..Len(got) : got[j] = data[j]
    BY <1>2, <2>1, <2>2
  <2>4. data \in Seq(AllChars)
    BY <1>4, SeqMonotonic DEF AllChars
  <2> QED
    BY <1>2, <2>2, <2>3, <2>4, SeqEqual
<1>7. size = Len(Encoded(r)) => got = data /\ Complete(r, size) = 1
  BY <1>1, <1>2, <1>5, <1>6 DEF Reads
<1>8. Complete(r, size) = 1 => got = data \/ CutAfterZero(r, size)
  BY <1>1, <1>2, <1>6 DEF Reads
<1>9. \E n \in 0..Len(data) :
         /\ n <= Len(data) /\ n <= Len(got)
         /\ \A j \in 1..Len(got) : got[j] = IF j <= n THEN data[j] ELSE Unknown
  <2>1. PICK k \in 0..Len(data) :
           /\ k <= Len(scanned.out)
           /\ \A j \in 1..Len(scanned.out) : scanned.out[j] = IF j <= k THEN data[j] ELSE Unknown
    <3>1. Part(r, 0, scanned.out)
      BY <1>1 DEF Reads
    <3>2. \E n \in 0..(Len(data) - 0) :
            /\ n <= Len(scanned.out)
            /\ \A j \in 1..Len(scanned.out) : scanned.out[j] = IF j <= n THEN data[0 + j] ELSE Unknown
      BY <1>3, <3>1 DEF Part, data
    <3>3. Len(data) - 0 = Len(data) /\ \A j \in 1..Len(scanned.out) : 0 + j = j
      BY <1>4
    <3> QED
      BY <3>2, <3>3
  <2> DEFINE n == Smaller(k, Len(got))
  <2>2. Len(got) \in Nat
    BY <1>2, <1>4
  <2>3. n \in 0..Len(data) /\ n <= Len(data) /\ n <= Len(got) /\ \A j \in 1..Len(got) : (j <= n <=> j <= k)
    BY <1>4, <2>1, <2>2 DEF Smaller
  <2> HIDE DEF n
  <2>4. \A j \in 1..Len(got) : j \in 1..Len(scanned.out)
    BY <1>2, <1>4
  <2>5. \A j \in 1..Len(got) : got[j] = IF j <= n THEN data[j] ELSE Unknown
    BY <1>2, <2>1, <2>3, <2>4
  <2> QED
    BY <2>3, <2>5
<1> QED
  BY <1>7, <1>8, <1>9 DEF got, data
-----------------------------------------------------------------------------
(* The types.  A row has the number of an interaction that was popped, a   *)
(* part in the file that of one with a row, and what comes out of the      *)
(* decoder are characters, complete or not.                                *)
TypeInv ==
    /\ id \in 0..MaxInteractions /\ starts \in 0..MaxStarts
    /\ conn \in {"null", "ok", "lost"} /\ (conn = "null" <=> sinks = <<>>)
    /\ rows \in [Tables -> Seq(1..id)]
    /\ file \in Seq([part : Tables, id : 1..id, whole : BOOLEAN])
    /\ at # Idle => id \in 1..MaxInteractions
    /\ chunks \in Contents \cup {<<>>} /\ captured \in 0..Len(Encoded(chunks))
    /\ content \in Seq(AllChars)
    /\ complete \in {0, 1} /\ torn \in BOOLEAN

LEMMA CompleteIs ==
  ASSUME NEW r \in Contents, NEW size \in 1..Len(Encoded(r))
  PROVE  Complete(r, size) \in {0, 1} /\ Decoded(r, size) \in Seq(AllChars)
<1>1. r \in Seq(Seq(Chars))
  BY ContentsAssumption
<1>2. CASE size > MaxBuff
  <2>1. SubSeq(Encoded(r), 1, size) \in Seq(AllChars)
    BY <1>1, EntityIs, SeqMonotonic DEF AllChars
  <2> QED
    BY <1>1, <1>2, <2>1, TooLong
<1>3. CASE ~(size > MaxBuff)
  <2> DEFINE E == SubSeq(Encoded(r), 1, size)
  <2>1. E \in Seq(Chars)
    BY <1>1, EntityIs
  <2>2. Scan(E) \in Outcomes
    <3> HIDE DEF E
    <3>1. PICK f : Scan(E) = f[0] /\ \A i \in 0..Len(E) : f[i] \in Outcomes
      BY <2>1, ScanIs
    <3>2. 0 \in 0..Len(E)
      BY <2>1, LenProperties
    <3> QED
      BY <3>1, <3>2
  <2>3. size <= MaxBuff
    <3>1. Encoded(r) \in Seq(Chars)
      BY <1>1, EncodedIs
    <3>2. Len(Encoded(r)) \in Nat
      BY <3>1, LenProperties
    <3> QED
      BY <1>3, <3>2, BuffAssumption
  <2>4. Complete(r, size) = Scan(E).complete /\ Decoded(r, size) \in Seq(AllChars)
    BY <1>1, <2>2, <2>3, DecodedIs
  <2> QED
    BY <2>2, <2>4 DEF Outcomes
<1> QED
  BY <1>2, <1>3

LEMMA TypeInit ==
  ASSUME Init
  PROVE  TypeInv
<1>1. rows \in [Tables -> Seq(1..id)]
  <2>1. rows = [table \in Tables |-> <<>>]
    BY TableNames DEF Init
  <2>2. <<>> \in Seq(1..id)
    BY EmptySeq
  <2> QED
    BY <2>1, <2>2
<1>2. id \in 0..MaxInteractions /\ starts \in 0..MaxStarts
  BY BoundAssumption DEF Init
<1>3. /\ file \in Seq([part : Tables, id : 1..id, whole : BOOLEAN])
      /\ content \in Seq(AllChars)
  BY EmptySeq DEF Init
<1>4. chunks \in Contents \cup {<<>>} /\ captured \in 0..Len(Encoded(chunks))
  <2>1. <<>> \in Seq(Seq(Chars)) /\ chunks = <<>> /\ captured = 0
    BY EmptySeq DEF Init
  <2>2. Encoded(<<>>) \in Seq(Chars)
    BY <2>1, EncodedIs
  <2>3. Len(Encoded(<<>>)) \in Nat
    BY <2>2, LenProperties
  <2> QED
    BY <2>1, <2>3
<1> QED
  BY <1>1, <1>2, <1>3, <1>4 DEF Init, TypeInv

LEMMA TypeStep ==
  ASSUME OutputInv, TypeInv, [Next]_vars
  PROVE  TypeInv'
<1>1. CASE Start
  <2>1. /\ sinks' # <<>> /\ conn' = "ok" /\ torn' = FALSE
        /\ UNCHANGED <<rows, at, id, chunks, captured, content, complete>>
        /\ starts < MaxStarts /\ starts' = starts + 1 /\ file' = <<>>
    BY <1>1 DEF Start, bodyVars
  <2>2. starts' \in 0..MaxStarts
    BY <2>1, BoundAssumption DEF TypeInv
  <2>3. file' \in Seq([part : Tables, id : 1..id', whole : BOOLEAN])
    BY <2>1, EmptySeq
  <2> QED
    BY <2>1, <2>2, <2>3 DEF TypeInv
<1>2. CASE End
  BY <1>2 DEF End, bodyVars, TypeInv
<1>3. ASSUME NEW response \in Contents, NEW size \in 1..Len(Encoded(response)), Take(response, size)
      PROVE  TypeInv'
  <2>1. /\ id < MaxInteractions /\ id' = id + 1 /\ complete' = Complete(response, size)
        /\ content' = Decoded(response, size) /\ chunks' = response /\ captured' = size
        /\ UNCHANGED <<sinks, conn, rows, file, torn, starts>>
    BY <1>3 DEF Take, Decoded, Complete, sinkVars
  <2>2. id' \in 1..MaxInteractions /\ 1..id \subseteq 1..id'
    BY <2>1, BoundAssumption DEF TypeInv
  <2>3. \A table \in Tables : rows[table] \in Seq(1..id')
    BY <2>2, SeqMonotonic DEF TypeInv
  <2>4. rows' \in [Tables -> Seq(1..id')]
    BY <2>1, <2>3 DEF TypeInv
  <2>5. complete' \in {0, 1} /\ content' \in Seq(AllChars)
    BY <2>1, CompleteIs
  <2>6. file' \in Seq([part : Tables, id : 1..id', whole : BOOLEAN])
    <3> DEFINE S == [part : Tables, id : 1..id, whole : BOOLEAN]
               T == [part : Tables, id : 1..id', whole : BOOLEAN]
    <3>1. S \subseteq T
      BY <2>2
    <3>2. file \in Seq(S) /\ file' = file
      BY <2>1 DEF TypeInv
    <3> HIDE DEF S, T
    <3>3. file' \in Seq(T)
      BY <3>1, <3>2, SeqMonotonic
    <3> QED
      BY <3>3 DEF T
  <2>7. chunks' \in Contents \cup {<<>>} /\ captured' \in 0..Len(Encoded(chunks'))
    <3>1. size \in 0..Len(Encoded(response))
      OBVIOUS
    <3> QED
      BY <2>1, <3>1
  <2> QED
    BY <2>1, <2>2, <2>4, <2>5, <2>6, <2>7 DEF TypeInv
<1>4. CASE CopyRow
  <2>1. at # Idle
    BY <1>4 DEF CopyRow, Writing
  <2>2. id \in 1..id /\ id \in 1..MaxInteractions
    BY <2>1 DEF TypeInv
  <2>3. /\ Parts[at.part] \in Tables
        /\ UNCHANGED <<sinks, file, torn, id, chunks, captured, content, complete, starts>>
    BY <1>4, CopyEffect DEF Tables, CopyRow, bodyVars
  <2>4. rows' \in [Tables -> Seq(1..id)]
    <3>1. CASE rows' = rows
      BY <3>1 DEF TypeInv
    <3>2. CASE rows' = [rows EXCEPT ![Parts[at.part]] = Append(@, id)]
      <4>1. Append(rows[Parts[at.part]], id) \in Seq(1..id)
        BY <2>2, <2>3, AppendProperties DEF TypeInv
      <4> QED
        BY <3>2, <4>1 DEF TypeInv
    <3> QED
      BY <1>4, <3>1, <3>2, CopyEffect
  <2>5. conn' \in {"null", "ok", "lost"} /\ (conn' = "null" <=> sinks' = <<>>)
    BY <1>4, <2>3 DEF CopyRow, TypeInv
  <2> QED
    BY <2>2, <2>3, <2>4, <2>5 DEF TypeInv
<1>5. CASE WritePart
  <2>1. at # Idle /\ id \in 1..MaxInteractions
    BY <1>5 DEF WritePart, Writing, TypeInv
  <2>2. /\ UNCHANGED <<sinks, conn, rows, id, chunks, captured, content, complete, starts>>
        /\ torn' \in BOOLEAN
    BY <1>5 DEF WritePart, bodyVars, TypeInv
  <2>3. file' \in Seq([part : Tables, id : 1..id, whole : BOOLEAN])
    <3> DEFINE S == [part : Tables, id : 1..id, whole : BOOLEAN]
               whole == [part |-> Parts[at.part], id |-> id, whole |-> TRUE]
               piece == [part |-> Parts[at.part], id |-> id, whole |-> FALSE]
    <3>1. Parts[at.part] \in Tables
      BY <1>5, WriteEffect DEF Tables
    <3>2. whole \in S /\ piece \in S
      <4>1. id \in 1..id
        BY <2>1
      <4> QED
        BY <3>1, <4>1
    <3>3. file' = Append(file, whole) \/ file' = Append(file, piece) \/ file' = file
      BY <1>5, WriteEffect
    <3>4. file \in Seq(S)
      BY DEF TypeInv
    <3> HIDE DEF S, whole, piece
    <3>5. file' \in Seq(S)
      BY <3>2, <3>3, <3>4, AppendProperties
    <3> QED
      BY <3>5 DEF S
  <2> QED
    BY <2>1, <2>2, <2>3 DEF TypeInv
<1>6. CASE UNCHANGED vars
  BY <1>6 DEF vars, sinkVars, bodyVars, TypeInv
<1> QED
  BY <1>1, <1>2, <1>3, <1>4, <1>5, <1>6 DEF Next

LEMMA TypeInvariant == Spec => [](OutputInv /\ TypeInv)
<1>1. Init => OutputInv /\ TypeInv
  BY OutputInit, TypeInit
<1>2. (OutputInv /\ TypeInv) /\ [Next]_vars => (OutputInv /\ TypeInv)'
  BY OutputStep, TypeStep
<1> QED
  BY <1>1, <1>2, PTL DEF Spec

(* Every variable has its type: in particular the rows of a table are      *)
(* those of interactions that were popped, and only a registered sink is   *)
(* written to.                                                             *)
THEOREM TypeCorrect == Spec => []TypeOK
<1>1. OutputInv /\ TypeInv => TypeOK
  <2> SUFFICES ASSUME OutputInv, TypeInv PROVE TypeOK
    OBVIOUS
  <2>1. at \in {Idle} \cup [sink : 1..Len(sinks), part : {1, 2}]
    <3>1. CASE sinks = <<>>
      BY <3>1 DEF OutputInv, SinkInv
    <3>2. CASE sinks = <<"db", "file">>
      <4>1. 1..Len(sinks) = {1, 2}
        BY <3>2
      <4> QED
        BY <4>1 DEF OutputInv, RowInv, Positions
    <3> QED
      BY <3>1, <3>2 DEF OutputInv, SinkInv
  <2> QED
    BY <2>1, TableNames DEF OutputInv, SinkInv, TypeInv, TypeOK, AllChars
<1> QED
  BY <1>1, TypeInvariant, PTL

(* Whatever response is popped, and however much of it was captured, the   *)
(* content is what ContentDecoded says: the data, a first part of it with  *)
(* what memory holds behind it, or the body as it was.                     *)
LEMMA ContentStep ==
  ASSUME ContentDecoded, [Next]_vars
  PROVE  ContentDecoded'
<1>1. ASSUME NEW response \in Contents, NEW size \in 1..Len(Encoded(response)), Take(response, size)
      PROVE  ContentDecoded'
  <2>1. /\ content' = Decoded(response, size) /\ complete' = Complete(response, size)
        /\ chunks' = response /\ captured' = size
    BY <1>1 DEF Take, Decoded, Complete
  <2>2. response \in Seq(Seq(Chars)) /\ \A i \in DOMAIN response : response[i] # <<>>
    BY ContentsAssumption
  <2>3. captured' > MaxBuff => content' = SubSeq(Encoded(chunks'), 1, captured') /\ complete' = 0
    BY <2>1, <2>2, TooLong
  <2>4. ASSUME captured' \in 1..MaxBuff, \A i \in DOMAIN chunks' : Fits(chunks'[i])
        PROVE  LET data == FlattenSeq(chunks')
               IN  /\ captured' = Len(Encoded(chunks')) => content' = data /\ complete' = 1
                   /\ \E n \in 0..Len(data) :
                         /\ n <= Len(data) /\ n <= Len(content')
                         /\ \A j \in 1..Len(content') :
                               content'[j] = IF j <= n THEN data[j] ELSE Unknown
                   /\ complete' = 1 => content' = data \/ CutAfterZero(chunks', captured')
    <3>1. \A i \in DOMAIN response : response[i] # <<>> /\ Len(response[i]) <= MaxBuff
      BY <2>1, <2>2, <2>4 DEF Fits
    <3>2. size <= MaxBuff
      BY <2>1, <2>4, BuffAssumption
    <3>3. LET data == FlattenSeq(response)
              got  == Decoded(response, size)
          IN  /\ size = Len(Encoded(response)) => got = data /\ Complete(response, size) = 1
              /\ \E n \in 0..Len(data) :
                    /\ n <= Len(data) /\ n <= Len(got)
                    /\ \A j \in 1..Len(got) : got[j] = IF j <= n THEN data[j] ELSE Unknown
              /\ Complete(response, size) = 1 => got = data \/ CutAfterZero(response, size)
      BY <2>2, <3>1, <3>2, DecodedCorrect
    <3> QED
      BY <2>1, <3>3
  <2> QED
    BY <2>3, <2>4 DEF ContentDecoded, DataThenUnknown
<1>2. ASSUME UNCHANGED bodyVars PROVE ContentDecoded'
  BY <1>2 DEF bodyVars, ContentDecoded, DataThenUnknown
<1> QED
  BY <1>1, <1>2 DEF Next, Start, End, CopyRow, WritePart, vars

(* ContentDecoded, for any responses and any size of the buffer.           *)
THEOREM ContentCorrect == Spec => []ContentDecoded
<1>1. Init => ContentDecoded
  BY BuffAssumption DEF Init, ContentDecoded
<1> QED
  BY <1>1, ContentStep, PTL DEF Spec
=============================================================================
