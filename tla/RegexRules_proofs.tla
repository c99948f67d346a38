-------------------------- MODULE RegexRules_proofs --------------------------
(* Proofs about RegexRules, for any rules files, contents and bounds.  The *)
(* results of a call are first shown to be a list of what each try gives   *)
(* on its own, joined; that list can then be taken apart by rule, and the  *)
(* sort nodes by call and by system.                                       *)
EXTENDS RegexRules, DataLemmas

-----------------------------------------------------------------------------
(* The names in seqrel, one comma at a time.                               *)
Names == Seq(Seq(Symbols))

NameStep(text, i, names) ==
  IF i > Len(text) THEN <<>>
  ELSE IF Commas(text, i) = {} THEN <<SubSeq(text, i, Len(text))>>
  ELSE LET n == Min(Commas(text, i))
       IN  <<SubSeq(text, i, n - 1)>> \o names[n + 1]
SplitsAt(f, text) == f = [i \in 1..(Len(text) + 1) |-> NameStep(text, i, f)]

LEMMA FirstComma ==
  ASSUME NEW text \in Seq(Symbols), NEW i \in 1..(Len(text) + 1), Commas(text, i) # {}
  PROVE  /\ Min(Commas(text, i)) \in i..Len(text) /\ text[Min(Commas(text, i))] = ","
         /\ \A n \in i..Len(text) : text[n] = "," => Min(Commas(text, i)) <= n
<1> DEFINE S == Commas(text, i)
<1>1. Len(text) \in Nat
  BY LenProperties
<1>a. S \subseteq i..Len(text) /\ \A n \in S : text[n] = ","
  BY DEF Commas
<1>b. \A n \in i..Len(text) : n \in Nat
  BY <1>1
<1>2. S \in SUBSET Nat /\ S \subseteq i..Len(text) /\ \A n \in S : text[n] = ","
  BY <1>a, <1>b
<1>3. \A n \in i..Len(text) : text[n] = "," => n \in S
  BY DEF Commas
<1> HIDE DEF S
<1>4. \E m \in S : \A n \in S : m <= n
  BY <1>2, SmallestNat DEF S
<1>5. Min(S) \in S /\ \A n \in S : Min(S) <= n
  BY <1>4 DEF Min
<1> QED
  BY <1>2, <1>3, <1>5 DEF S

LEMMA PieceType ==
  ASSUME NEW text \in Seq(Symbols), NEW i \in 1..(Len(text) + 1), NEW n \in Nat, n <= Len(text)
  PROVE  SubSeq(text, i, n) \in Seq(Symbols)
<1>1. Len(text) \in Nat
  BY LenProperties
<1>2. \A j \in i..n : j \in 1..Len(text)
  BY <1>1
<1>3. \A j \in i..n : text[j] \in Symbols
  BY <1>2, ElementOfSeq
<1>4. i \in Int /\ n \in Int
  BY <1>1
<1> QED
  BY <1>3, <1>4, SubSeqProperties

LEMMA NameStepTyped ==
  ASSUME NEW text \in Seq(Symbols), NEW i \in 1..(Len(text) + 1), NEW f,
         \A j \in (i + 1)..(Len(text) + 1) : f[j] \in Names
  PROVE  NameStep(text, i, f) \in Names
<1>1. Len(text) \in Nat
  BY LenProperties
<1>2. CASE i > Len(text)
  <2>1. <<>> \in Names
    BY EmptySeq DEF Names
  <2> QED
    BY <1>2, <2>1 DEF NameStep
<1>3. CASE ~(i > Len(text)) /\ Commas(text, i) = {}
  <2>1. SubSeq(text, i, Len(text)) \in Seq(Symbols)
    BY <1>1, PieceType
  <2>2. <<SubSeq(text, i, Len(text))>> \in Names
    BY <2>1 DEF Names
  <2> QED
    BY <1>3, <2>2 DEF NameStep
<1>4. CASE ~(i > Len(text)) /\ Commas(text, i) # {}
  <2> DEFINE n == Min(Commas(text, i))
             piece == SubSeq(text, i, n - 1)
  <2>1. n \in i..Len(text)
    BY <1>4, FirstComma
  <2>2. n + 1 \in (i + 1)..(Len(text) + 1) /\ n - 1 \in Nat /\ n - 1 <= Len(text)
    BY <1>1, <2>1
  <2>3. f[n + 1] \in Seq(Seq(Symbols))
    BY <2>2 DEF Names
  <2>4. NameStep(text, i, f) = <<piece>> \o f[n + 1]
    BY <1>4 DEF NameStep
  <2>5. piece \in Seq(Symbols)
    BY <2>2, PieceType
  <2> HIDE DEF piece, n
  <2>6. <<piece>> \in Seq(Seq(Symbols))
    BY <2>5
  <2>7. <<piece>> \o f[n + 1] \in Seq(Seq(Symbols))
    BY <2>3, <2>6, ConcatProperties
  <2> QED
    BY <2>4, <2>7 DEF Names
<1> QED
  BY <1>2, <1>3, <1>4

LEMMA NameStepLocal ==
  ASSUME NEW text \in Seq(Symbols), NEW i \in 1..(Len(text) + 1), NEW f, NEW g,
         \A j \in (i + 1)..(Len(text) + 1) : f[j] = g[j]
  PROVE  NameStep(text, i, f) = NameStep(text, i, g)
<1>1. CASE i > Len(text) \/ Commas(text, i) = {}
  BY <1>1 DEF NameStep
<1>2. CASE ~(i > Len(text)) /\ Commas(text, i) # {}
  <2> DEFINE n == Min(Commas(text, i))
  <2>1. n \in i..Len(text) /\ Len(text) \in Nat
    BY <1>2, FirstComma, LenProperties
  <2>2. n + 1 \in (i + 1)..(Len(text) + 1)
    BY <2>1
  <2>3. f[n + 1] = g[n + 1]
    BY <2>2
  <2> QED
    BY <1>2, <2>3 DEF NameStep
<1> QED
  BY <1>1, <1>2

LEMMA NamesExist ==
  ASSUME NEW text \in Seq(Symbols)
  PROVE  \E f : SplitsAt(f, text)
<1> DEFINE number == Len(text) + 1
           flip(h) == [j \in 1..number |-> h[number - j]]
           none == <<>>
           step == [p \in Nat \X [Nat -> Names] |->
                      IF p[1] < number THEN NameStep(text, number - p[1], flip(p[2])) ELSE none]
<1>1. number \in Nat
  BY LenProperties
<1>2. none \in Names
  BY EmptySeq DEF Names
<1>3. \A d \in Nat, h \in [Nat -> Names] :
         step[<<d, h>>] = IF d < number THEN NameStep(text, number - d, flip(h)) ELSE none
  OBVIOUS
<1> HIDE DEF number, none
<1>4. step \in [Nat \X [Nat -> Names] -> Names]
  <2>1. ASSUME NEW d \in Nat, NEW h \in [Nat -> Names], d < number
        PROVE  NameStep(text, number - d, flip(h)) \in Names
    <3>1. number - d \in 1..(Len(text) + 1)
      BY <1>1, <2>1 DEF number
    <3>2. \A j \in 1..number : flip(h)[j] \in Names
      BY <1>1
    <3>3. \A j \in ((number - d) + 1)..(Len(text) + 1) : flip(h)[j] \in Names
      BY <1>1, <2>1, <3>2 DEF number
    <3> HIDE DEF flip
    <3> QED
      BY <3>1, <3>3, NameStepTyped
  <2> HIDE DEF flip
  <2> QED
    BY <1>2, <2>1
<1>5. LooksBack(step, Names)
  <2> SUFFICES ASSUME NEW d \in Nat, NEW f \in [Nat -> Names], NEW g \in [Nat -> Names],
                      \A k \in 0..(d - 1) : f[k] = g[k]
               PROVE  step[<<d, f>>] = step[<<d, g>>]
    BY DEF LooksBack
  <2>1. ASSUME d < number
        PROVE  NameStep(text, number - d, flip(f)) = NameStep(text, number - d, flip(g))
    <3>1. number - d \in 1..(Len(text) + 1)
      BY <1>1, <2>1 DEF number
    <3>2. ASSUME NEW j \in ((number - d) + 1)..(Len(text) + 1) PROVE flip(f)[j] = flip(g)[j]
      <4>1. j \in 1..number /\ number - j \in 0..(d - 1)
        BY <1>1, <2>1 DEF number
      <4> QED
        BY <4>1
    <3> HIDE DEF flip
    <3> QED
      BY <3>1, <3>2, NameStepLocal
  <2> HIDE DEF flip, step
  <2> QED
    BY <1>3, <2>1
<1> HIDE DEF step
<1>6. PICK h \in [Nat -> Names] : ByHistory(h, step)
  BY <1>2, <1>4, <1>5, RecursionOnHistory
<1> DEFINE F == flip(h)
<1>7. ASSUME NEW i \in 1..(Len(text) + 1) PROVE F[i] = NameStep(text, i, F)
  <2>1. i \in 1..number /\ number - i \in Nat /\ number - i < number /\ number - (number - i) = i
    BY <1>1 DEF number
  <2>2. h[number - i] = step[<<number - i, h>>]
    BY <1>6, <2>1 DEF ByHistory
  <2>3. step[<<number - i, h>>] = NameStep(text, number - (number - i), F)
    BY <1>3, <2>1
  <2>4. F[i] = h[number - i]
    BY <2>1
  <2> HIDE DEF F
  <2> QED
    BY <2>1, <2>2, <2>3, <2>4
<1>8. F = [i \in 1..(Len(text) + 1) |-> F[i]]
  BY DEF number
<1> HIDE DEF F
<1>9. F = [i \in 1..(Len(text) + 1) |-> NameStep(text, i, F)]
  BY <1>7, <1>8
<1> QED
  BY <1>9 DEF SplitsAt

LEMMA SeqRelationIs ==
  ASSUME NEW text \in Seq(Symbols)
  PROVE  \E f : /\ SeqRelation(text) = f[1]
                /\ \A i \in 1..(Len(text) + 1) : f[i] = NameStep(text, i, f)
<1> DEFINE F == CHOOSE f : SplitsAt(f, text)
<1>1. SplitsAt(F, text)
  BY NamesExist
<1>2. SeqRelation(text) = F[1]
  BY DEF SeqRelation, SplitsAt, NameStep
<1> HIDE DEF F
<1>3. \A i \in 1..(Len(text) + 1) : F[i] = NameStep(text, i, F)
  BY <1>1 DEF SplitsAt
<1> QED
  BY <1>2, <1>3

-----------------------------------------------------------------------------
(* The places of numbers in their set, which Nth picks by rank.            *)
Rank(S, i) == Cardinality({j \in S : j <= i})
Ranked(S) ==
  /\ IsFiniteSet(S)
  /\ \A i \in S : Rank(S, i) \in 1..Cardinality(S)
  /\ \A k \in 1..Cardinality(S) : \E i \in S : Rank(S, i) = k
  /\ \A i, j \in S : Rank(S, i) = Rank(S, j) => i = j

LEMMA RankedNone == Ranked({}) /\ Cardinality({}) = 0
<1>1. IsFiniteSet({}) /\ Cardinality({}) = 0
  BY FS_EmptySet
<1>2. 1..Cardinality({}) = {}
  BY <1>1
<1> QED
  BY <1>1, <1>2 DEF Ranked

LEMMA RankedMore ==
  ASSUME NEW S \in SUBSET Nat, Ranked(S), NEW m \in Nat, \A i \in S : m < i
  PROVE  /\ Ranked(S \cup {m}) /\ Cardinality(S \cup {m}) = Cardinality(S) + 1
         /\ Rank(S \cup {m}, m) = 1
         /\ \A i \in S : Rank(S \cup {m}, i) = Rank(S, i) + 1
<1> DEFINE T == S \cup {m}
           c == Cardinality(S)
<1>1. IsFiniteSet(S) /\ m \notin S /\ c \in Nat
  <2>1. IsFiniteSet(S)
    BY DEF Ranked
  <2>2. ASSUME m \in S PROVE FALSE
    <3>1. m < m
      BY <2>2
    <3> QED
      BY <3>1
  <2> QED
    BY <2>1, <2>2, FS_CardinalityType
<1>2. IsFiniteSet(T) /\ Cardinality(T) = c + 1
  BY <1>1, FS_AddElement
<1>3. Rank(T, m) = 1
  <2>1. {j \in T : j <= m} = {m}
    <3>1. \A j \in S : ~(j <= m)
      BY <1>1
    <3>2. m <= m
      OBVIOUS
    <3> QED
      BY <3>1, <3>2
  <2> QED
    BY <2>1, FS_Singleton DEF Rank
<1>4. ASSUME NEW i \in S PROVE Rank(T, i) = Rank(S, i) + 1
  <2> DEFINE B == {j \in S : j <= i}
  <2>1. {j \in T : j <= i} = B \cup {m}
    <3>1. m < i /\ i \in Nat
      OBVIOUS
    <3>2. m <= i
      BY <3>1
    <3> QED
      BY <3>2
  <2>2. B \subseteq S
    OBVIOUS
  <2>3. IsFiniteSet(B) /\ m \notin B
    BY <1>1, <2>2, FS_Subset
  <2> HIDE DEF B
  <2>4. Cardinality(B \cup {m}) = Cardinality(B) + 1
    BY <2>3, FS_AddElement
  <2> QED
    BY <2>1, <2>4 DEF B, Rank
<1>5. \A i \in S : Rank(S, i) \in 1..c
  BY DEF Ranked
<1>6. \A i \in T : i = m \/ i \in S
  OBVIOUS
<1> HIDE DEF T, c
<1>7. \A i \in T : Rank(T, i) \in 1..Cardinality(T)
  <2>1. \A i \in S : Rank(T, i) \in 1..(c + 1)
    BY <1>1, <1>4, <1>5
  <2>2. 1 \in 1..(c + 1)
    BY <1>1
  <2> QED
    BY <1>2, <1>3, <1>6, <2>1, <2>2
<1>8. ASSUME NEW k \in 1..Cardinality(T) PROVE \E i \in T : Rank(T, i) = k
  <2>1. CASE k = 1
    BY <1>3, <2>1 DEF T
  <2>2. CASE k # 1
    <3>1. k - 1 \in 1..c /\ (k - 1) + 1 = k
      BY <1>1, <1>2, <2>2
    <3>2. PICK i \in S : Rank(S, i) = k - 1
      BY <3>1 DEF Ranked, c
    <3>3. Rank(T, i) = k
      BY <1>4, <3>1, <3>2
    <3> QED
      BY <3>3 DEF T
  <2> QED
    BY <2>1, <2>2
<1>9. ASSUME NEW i \in T, NEW j \in T, Rank(T, i) = Rank(T, j) PROVE i = j
  <2>1. \A n \in S : Rank(T, n) # 1
    <3>1. ASSUME NEW n \in S, Rank(T, n) = 1 PROVE FALSE
      <4>1. Rank(T, n) = Rank(S, n) + 1 /\ Rank(S, n) \in 1..c
        BY <1>4, <1>5
      <4> QED
        BY <1>1, <3>1, <4>1
    <3> QED
      BY <3>1
  <2>2. CASE i \in S /\ j \in S
    <3>1. Rank(T, i) = Rank(S, i) + 1 /\ Rank(T, j) = Rank(S, j) + 1
      BY <1>4, <2>2
    <3>2. Rank(S, i) \in Nat /\ Rank(S, j) \in Nat
      BY <1>1, <1>5, <2>2
    <3>a. \A p, q \in Nat : p + 1 = q + 1 => p = q
      OBVIOUS
    <3>b. Rank(S, i) + 1 = Rank(S, j) + 1
      BY <1>9, <3>1
    <3>3. Rank(S, i) = Rank(S, j)
      BY <3>2, <3>a, <3>b
    <3> QED
      BY <2>2, <3>3 DEF Ranked
  <2> QED
    BY <1>3, <1>6, <1>9, <2>1, <2>2
<1>10. Ranked(T)
  BY <1>2, <1>7, <1>8, <1>9 DEF Ranked
<1> QED
  BY <1>2, <1>3, <1>4, <1>10 DEF T, c

LEMMA NthIs ==
  ASSUME NEW S, Ranked(S), NEW i \in S
  PROVE  Nth(S, Rank(S, i)) = i
<1>1. \A j \in S : Rank(S, j) = Rank(S, i) => j = i
  BY DEF Ranked
<1>2. Nth(S, Rank(S, i)) = CHOOSE j \in S : Rank(S, j) = Rank(S, i)
  BY DEF Nth, Rank
<1> QED
  BY <1>1, <1>2

NameAt(text, i) == SubSeq(text, i, EndOfName(text, i))
Listed(text, S) == [k \in 1..Cardinality(S) |-> NameAt(text, Nth(S, k))]

LEMMA ListedMore ==
  ASSUME NEW text \in Seq(Symbols), NEW S \in SUBSET Nat, Ranked(S),
         NEW m \in Nat, \A i \in S : m < i,
         \A i \in S \cup {m} : NameAt(text, i) \in Seq(Symbols)
  PROVE  Listed(text, S \cup {m}) = <<NameAt(text, m)>> \o Listed(text, S)
<1> DEFINE T == S \cup {m}
           c == Cardinality(S)
           u == Listed(text, T)
           v == Listed(text, S)
           a == <<NameAt(text, m)>>
           w == a \o v
<1>1. /\ Ranked(T) /\ Cardinality(T) = c + 1 /\ Rank(T, m) = 1
      /\ \A i \in S : Rank(T, i) = Rank(S, i) + 1
  BY RankedMore
<1>2. c \in Nat
  BY FS_CardinalityType DEF Ranked
<1> HIDE DEF c
<1>3. ASSUME NEW k \in 1..c
      PROVE  Nth(T, k + 1) = Nth(S, k) /\ NameAt(text, Nth(S, k)) \in Seq(Symbols)
  <2>1. PICK i \in S : Rank(S, i) = k
    BY DEF Ranked, c
  <2>2. Nth(S, k) = i
    BY <2>1, NthIs
  <2>3. Rank(T, i) = k + 1 /\ i \in T
    BY <1>1, <2>1
  <2>4. Nth(T, k + 1) = i
    BY <1>1, <2>3, NthIs
  <2> QED
    BY <2>2, <2>4
<1>4. Nth(T, 1) = m
  <2>1. m \in T
    OBVIOUS
  <2> HIDE DEF T
  <2>2. Nth(T, Rank(T, m)) = m
    BY <1>1, <2>1, NthIs
  <2> QED
    BY <1>1, <2>2
<1>5. NameAt(text, m) \in Seq(Symbols)
  OBVIOUS
<1>6. v \in Seq(Seq(Symbols)) /\ Len(v) = c /\ \A k \in 1..c : v[k] = NameAt(text, Nth(S, k))
  <2>1. v = [k \in 1..c |-> NameAt(text, Nth(S, k))]
    BY DEF Listed, c
  <2>2. \A k \in 1..c : NameAt(text, Nth(S, k)) \in Seq(Symbols)
    BY <1>3
  <2>3. v \in [1..c -> Seq(Symbols)] /\ \A k \in 1..c : v[k] = NameAt(text, Nth(S, k))
    BY <2>1, <2>2
  <2> HIDE DEF v
  <2> QED
    BY <1>2, <2>3
<1>7. Cardinality(T) = c + 1
  BY <1>1
<1> HIDE DEF T
<1>8. Len(u) = c + 1 /\ \A k \in 1..(c + 1) : u[k] = NameAt(text, Nth(T, k))
  BY <1>2, <1>7 DEF Listed
<1>9. a \in Seq(Seq(Symbols)) /\ Len(a) = 1 /\ a[1] = NameAt(text, m)
  BY <1>5
<1>a. u = [k \in 1..(c + 1) |-> u[k]]
  BY <1>7 DEF Listed
<1> HIDE DEF u, v, a
<1>10. /\ w \in Seq(Seq(Symbols)) /\ Len(w) = Len(a) + Len(v)
       /\ \A k \in 1..(Len(a) + Len(v)) : w[k] = IF k <= Len(a) THEN a[k] ELSE v[k - Len(a)]
  BY <1>6, <1>9, ConcatProperties
<1> HIDE DEF w
<1>11. ASSUME NEW k \in 1..(c + 1) PROVE u[k] = w[k]
  <2>0. k \in 1..(Len(a) + Len(v))
    BY <1>2, <1>6, <1>9
  <2>1. CASE k = 1
    <3>1. w[k] = a[1]
      BY <1>9, <1>10, <2>0, <2>1
    <3> QED
      BY <1>4, <1>8, <1>9, <2>1, <3>1
  <2>2. CASE k # 1
    <3>1. k - 1 \in 1..c /\ (k - 1) + 1 = k /\ ~(k <= 1)
      BY <1>2, <2>2
    <3>2. w[k] = v[k - 1]
      BY <1>9, <1>10, <2>0, <3>1
    <3>3. v[k - 1] = NameAt(text, Nth(S, k - 1))
      BY <1>6, <3>1
    <3>4. Nth(T, (k - 1) + 1) = Nth(S, k - 1)
      BY <1>3, <3>1
    <3> QED
      BY <1>8, <3>1, <3>2, <3>3, <3>4
  <2> QED
    BY <2>1, <2>2
<1>12. w = [k \in 1..(c + 1) |-> w[k]]
  <2>1. Len(w) = c + 1
    BY <1>2, <1>6, <1>9, <1>10
  <2> QED
    BY <1>10, <2>1, LenProperties
<1>13. u = w
  BY <1>11, <1>12, <1>a
<1> QED
  BY <1>13 DEF u, w, a, v, T

-----------------------------------------------------------------------------
From(text, i) == {j \in Begins(text) : j >= i}

(* A name ends before the next comma, or with the text.                    *)
LEMMA NameEnds ==
  ASSUME NEW text \in Seq(Symbols), NEW i \in 1..Len(text)
  PROVE  /\ Commas(text, i) = {} => EndOfName(text, i) = Len(text)
         /\ Commas(text, i) # {} => EndOfName(text, i) = Min(Commas(text, i)) - 1
         /\ NameAt(text, i) \in Seq(Symbols)
<1>1. Len(text) \in Nat /\ i \in 1..(Len(text) + 1)
  BY LenProperties
<1>2. ASSUME Commas(text, i) = {} PROVE EndOfName(text, i) = Len(text)
  <2>1. Min({Len(text) + 1}) = Len(text) + 1
    <3>1. {Len(text) + 1} \in SUBSET Int /\ \A n \in {Len(text) + 1} : Len(text) + 1 <= n
      BY <1>1
    <3> QED
      BY <3>1, MinIs
  <2>2. Commas(text, i) \cup {Len(text) + 1} = {Len(text) + 1}
    BY <1>2
  <2>3. EndOfName(text, i) = (Len(text) + 1) - 1
    BY <2>1, <2>2 DEF EndOfName
  <2> QED
    BY <1>1, <2>3
<1>3. ASSUME Commas(text, i) # {}
      PROVE  EndOfName(text, i) = Min(Commas(text, i)) - 1
             /\ Min(Commas(text, i)) \in i..Len(text)
  <2> DEFINE C == Commas(text, i)
             n == Min(C)
             D == C \cup {Len(text) + 1}
  <2>1. n \in i..Len(text) /\ text[n] = "," /\ \A k \in i..Len(text) : text[k] = "," => n <= k
    BY <1>1, <1>3, FirstComma
  <2>2. C \subseteq i..Len(text) /\ \A k \in C : text[k] = ","
    BY DEF Commas
  <2>3. n \in C
    BY <2>1 DEF Commas
  <2>4. \A k \in D : n <= k
    <3>1. n <= Len(text) + 1
      <4>1. n \in i..Len(text)
        BY <2>1
      <4> HIDE DEF n
      <4> QED
        BY <1>1, <4>1
    <3>2. \A k \in C : n <= k
      BY <2>1, <2>2
    <3> QED
      BY <3>1, <3>2
  <2>5. D \in SUBSET Int
    <3>1. \A k \in C : k \in Int
      <4>1. \A k \in i..Len(text) : k \in Int
        BY <1>1
      <4> HIDE DEF C
      <4> QED
        BY <2>2, <4>1
    <3> QED
      BY <1>1, <3>1
  <2>6. n \in D
    BY <2>3
  <2> HIDE DEF n, D, C
  <2>7. Min(D) = n
    BY <2>4, <2>5, <2>6, MinIs
  <2> QED
    BY <2>1, <2>7 DEF EndOfName, D, C, n
<1>4. EndOfName(text, i) \in Nat /\ EndOfName(text, i) <= Len(text)
  BY <1>1, <1>2, <1>3
<1>5. NameAt(text, i) \in Seq(Symbols)
  BY <1>1, <1>4, PieceType DEF NameAt
<1> QED
  BY <1>2, <1>3, <1>5

(* After the last comma one name begins; before it, one and those after.   *)
LEMMA LastBegins ==
  ASSUME NEW text \in Seq(Symbols), NEW i \in Begins(text), Commas(text, i) = {}
  PROVE  From(text, i) = {i}
<1>1. Len(text) \in Nat /\ i \in 1..Len(text)
  BY LenProperties DEF Begins
<1>2. ASSUME NEW j \in From(text, i) PROVE j = i
  <2>1. j \in 1..Len(text) /\ j >= i /\ (j = 1 \/ text[j - 1] = ",")
    BY DEF From, Begins
  <2>2. CASE j # i
    <3>a. j \in 1..Len(text) /\ j >= i
      BY <2>1
    <3>1. j - 1 \in i..Len(text) /\ j # 1
      BY <1>1, <2>2, <3>a
    <3>2. j - 1 \in Commas(text, i)
      BY <2>1, <3>1 DEF Commas
    <3> QED
      BY <3>2
  <2> QED
    BY <2>2
<1>3. i \in From(text, i)
  BY <1>1 DEF From
<1> QED
  BY <1>2, <1>3

LEMMA NextBegins ==
  ASSUME NEW text \in Seq(Symbols), NEW i \in Begins(text), Commas(text, i) # {},
         NEW n, n = Min(Commas(text, i))
  PROVE  /\ From(text, i) = From(text, n + 1) \cup {i} /\ \A j \in From(text, n + 1) : i < j
         /\ n + 1 \in (i + 1)..(Len(text) + 1)
         /\ (n + 1 <= Len(text) => n + 1 \in Begins(text))
<1>1. Len(text) \in Nat /\ i \in 1..Len(text) /\ i \in 1..(Len(text) + 1)
  <2>1. i \in 1..Len(text)
    BY DEF Begins
  <2>2. Len(text) \in Nat
    BY LenProperties
  <2> QED
    BY <2>1, <2>2
<1>2. n \in i..Len(text) /\ text[n] = "," /\ \A k \in i..Len(text) : text[k] = "," => n <= k
  BY <1>1, FirstComma
<1>a. n \in i..Len(text)
  BY <1>2
<1>3. n + 1 \in (i + 1)..(Len(text) + 1)
  BY <1>1, <1>a
<1>4. ASSUME n + 1 <= Len(text) PROVE n + 1 \in Begins(text)
  <2>1. n + 1 \in 1..Len(text) /\ (n + 1) - 1 = n
    BY <1>1, <1>a, <1>4
  <2> QED
    BY <1>2, <2>1 DEF Begins
<1>5. ASSUME NEW j \in From(text, n + 1) PROVE i < j /\ j \in From(text, i)
  <2>1. j \in Begins(text) /\ j \in 1..Len(text) /\ j >= n + 1
    BY DEF From, Begins
  <2>a. j \in 1..Len(text) /\ j >= n + 1
    BY <2>1
  <2>2. i < j /\ j >= i
    BY <1>1, <1>a, <2>a
  <2> QED
    BY <2>1, <2>2 DEF From
<1>6. ASSUME NEW j \in From(text, i), j # i PROVE j \in From(text, n + 1)
  <2>1. j \in Begins(text) /\ j \in 1..Len(text) /\ j >= i /\ (j = 1 \/ text[j - 1] = ",")
    BY DEF From, Begins
  <2>a. j \in 1..Len(text) /\ j >= i /\ j # i
    BY <1>6, <2>1
  <2>2. j - 1 \in i..Len(text) /\ j # 1
    BY <1>1, <2>a
  <2>3. n <= j - 1
    BY <1>2, <2>1, <2>2
  <2>4. j >= n + 1
    BY <1>1, <1>a, <2>a, <2>3
  <2> QED
    BY <2>1, <2>4 DEF From
<1>7. i \in From(text, i)
  BY <1>1 DEF From
<1>8. From(text, i) = From(text, n + 1) \cup {i}
  BY <1>5, <1>6, <1>7
<1> QED
  BY <1>3, <1>4, <1>5, <1>8

LEMMA ListedNone ==
  ASSUME NEW text
  PROVE  Listed(text, {}) = <<>>
<1>1. 1..Cardinality({}) = {}
  BY FS_EmptySet
<1> QED
  BY <1>1 DEF Listed

(* seqrel is split into the names it holds, in their order.                *)
LEMMA SeqRelationCorrect ==
  ASSUME NEW text \in Seq(Symbols)
  PROVE  SeqRelation(text) = NamesIn(text) /\ NamesIn(text) \in Names
<1>1. PICK f : /\ SeqRelation(text) = f[1]
               /\ \A i \in 1..(Len(text) + 1) : f[i] = NameStep(text, i, f)
  BY SeqRelationIs
<1>2. Len(text) \in Nat
  BY LenProperties
<1> DEFINE Reads(i) == /\ Ranked(From(text, i)) /\ f[i] = Listed(text, From(text, i))
                       /\ f[i] \in Names
           G == {d \in Nat : \A i \in Begins(text) \cup {Len(text) + 1} : i + d = Len(text) + 1 => Reads(i)}
<1>3. From(text, Len(text) + 1) = {}
  <2>1. \A j \in Begins(text) : j \in 1..Len(text)
    BY DEF Begins
  <2>2. \A j \in 1..Len(text) : ~(j >= Len(text) + 1)
    BY <1>2
  <2> QED
    BY <2>1, <2>2 DEF From
<1>4. Reads(Len(text) + 1)
  <2>a. Len(text) + 1 \in 1..(Len(text) + 1) /\ Len(text) + 1 > Len(text)
    BY <1>2
  <2>b. f[Len(text) + 1] = NameStep(text, Len(text) + 1, f)
    BY <1>1, <2>a
  <2>1. f[Len(text) + 1] = <<>>
    BY <2>a, <2>b DEF NameStep
  <2>2. <<>> \in Names
    BY EmptySeq DEF Names
  <2> QED
    BY <1>3, <2>1, <2>2, RankedNone, ListedNone
<1>5. ASSUME NEW d \in Nat, \A k \in 0..(d - 1) : k \in G PROVE d \in G
  <2>1. SUFFICES ASSUME NEW i \in Begins(text), i + d = Len(text) + 1 PROVE Reads(i)
    BY <1>4
  <2>2. i \in 1..Len(text) /\ i \in 1..(Len(text) + 1) /\ ~(i > Len(text)) /\ i \in Nat
    <3>1. i \in 1..Len(text)
      BY DEF Begins
    <3> QED
      BY <1>2, <3>1
  <2>3. f[i] = NameStep(text, i, f)
    BY <1>1, <2>2
  <2>4. NameAt(text, i) \in Seq(Symbols)
    BY <2>2, NameEnds
  <2>5. CASE Commas(text, i) = {}
    <3>1. From(text, i) = {} \cup {i}
      BY <2>5, LastBegins
    <3>2. NameAt(text, i) = SubSeq(text, i, Len(text))
      BY <2>2, <2>5, NameEnds DEF NameAt
    <3>3. Ranked({} \cup {i})
          /\ Listed(text, {} \cup {i}) = <<NameAt(text, i)>> \o Listed(text, {})
      <4>1. Ranked({}) /\ {} \in SUBSET Nat
        BY RankedNone
      <4>2. Ranked({} \cup {i})
        BY <2>2, <4>1, RankedMore
      <4>3. \A j \in {} \cup {i} : NameAt(text, j) \in Seq(Symbols)
        BY <2>4
      <4> QED
        BY <2>2, <4>1, <4>2, <4>3, ListedMore
    <3>4. f[i] = <<NameAt(text, i)>>
      BY <2>2, <2>3, <2>5, <3>2 DEF NameStep
    <3>5. <<NameAt(text, i)>> \in Seq(Seq(Symbols))
      BY <2>4
    <3>6. <<NameAt(text, i)>> \o <<>> = <<NameAt(text, i)>>
      BY <3>5, ConcatEmptySeq
    <3> QED
      BY <3>1, <3>3, <3>4, <3>5, <3>6, ListedNone DEF Names
  <2>6. CASE Commas(text, i) # {}
    <3> DEFINE n == Min(Commas(text, i))
               S == From(text, n + 1)
    <3>1. /\ From(text, i) = S \cup {i} /\ \A j \in S : i < j
          /\ n + 1 \in (i + 1)..(Len(text) + 1)
          /\ (n + 1 <= Len(text) => n + 1 \in Begins(text))
      <4>1. n = Min(Commas(text, i))
        OBVIOUS
      <4> HIDE DEF n
      <4> QED
        BY <2>6, <4>1, NextBegins
    <3>2. NameAt(text, i) = SubSeq(text, i, n - 1)
      BY <2>2, <2>6, NameEnds DEF NameAt
    <3>3. f[i] = <<NameAt(text, i)>> \o f[n + 1]
      BY <2>2, <2>3, <2>6, <3>2 DEF NameStep
    <3> HIDE DEF n
    <3>4. n + 1 \in Begins(text) \cup {Len(text) + 1}
      <4>1. n + 1 <= Len(text) \/ n + 1 = Len(text) + 1
        <5>1. n + 1 \in (i + 1)..(Len(text) + 1)
          BY <3>1
        <5> QED
          BY <1>2, <2>2, <5>1
      <4> QED
        BY <3>1, <4>1
    <3>5. Reads(n + 1)
      <4>1. (Len(text) + 1) - (n + 1) \in 0..(d - 1)
            /\ (n + 1) + ((Len(text) + 1) - (n + 1)) = Len(text) + 1
        <5>1. n + 1 \in (i + 1)..(Len(text) + 1) /\ i + d = Len(text) + 1
          BY <2>1, <3>1
        <5> QED
          BY <1>2, <2>2, <5>1
      <4>2. (Len(text) + 1) - (n + 1) \in G
        BY <1>5, <4>1
      <4> HIDE DEF Reads
      <4> QED
        BY <3>4, <4>1, <4>2
    <3>6. S \in SUBSET Nat /\ \A j \in S : j \in 1..Len(text)
      <4>1. \A j \in S : j \in 1..Len(text)
        BY DEF From, Begins
      <4>2. \A j \in 1..Len(text) : j \in Nat
        BY <1>2
      <4> QED
        BY <4>1, <4>2
    <3>7. \A j \in S \cup {i} : NameAt(text, j) \in Seq(Symbols)
      BY <2>4, <3>6, NameEnds
    <3>8. Ranked(S) /\ f[n + 1] = Listed(text, S) /\ f[n + 1] \in Names
      BY <3>5
    <3> HIDE DEF S
    <3>9. Ranked(S \cup {i})
      BY <2>2, <3>1, <3>6, <3>8, RankedMore
    <3>10. Listed(text, S \cup {i}) = <<NameAt(text, i)>> \o Listed(text, S)
      BY <2>2, <3>1, <3>6, <3>7, <3>8, ListedMore
    <3>11. f[i] \in Names
      <4>1. <<NameAt(text, i)>> \in Seq(Seq(Symbols))
        BY <2>4
      <4>2. f[n + 1] \in Seq(Seq(Symbols))
        BY <3>8 DEF Names
      <4>3. <<NameAt(text, i)>> \o f[n + 1] \in Seq(Seq(Symbols))
        BY <4>1, <4>2, ConcatProperties
      <4> QED
        BY <3>3, <4>3 DEF Names
    <3> QED
      BY <3>1, <3>3, <3>8, <3>9, <3>10, <3>11
  <2> QED
    BY <2>5, <2>6
<1> HIDE DEF G
<1>6. G = Nat
  <2>1. G \in SUBSET Nat
    BY DEF G
  <2> QED
    BY <1>5, <2>1, StrongInduction
<1>7. Reads(1)
  <2>1. 1 \in Begins(text) \cup {Len(text) + 1}
    BY <1>2 DEF Begins
  <2>2. Len(text) \in G /\ 1 + Len(text) = Len(text) + 1
    BY <1>2, <1>6
  <2> HIDE DEF Reads
  <2> QED
    BY <2>1, <2>2 DEF G
<1>8. From(text, 1) = Begins(text)
  <2>a. \A j \in 1..Len(text) : j >= 1
    BY <1>2
  <2>1. \A j \in Begins(text) : j >= 1
    BY <2>a DEF Begins
  <2> QED
    BY <2>1 DEF From
<1>9. Listed(text, Begins(text)) = NamesIn(text)
  BY DEF Listed, NamesIn, NameAt
<1> QED
  BY <1>1, <1>7, <1>8, <1>9

-----------------------------------------------------------------------------
(* What the lists of a call hold.                                          *)
LoadedRules == Rule({"on", "off"})
LoadedSystems == System({"on", "off"})
TryTypes == {"regex", "echo"}
TrySet == [rule : LoadedRules, node : Node, type : TryTypes]
Values == (Patterns \cup Words) \ {NoText}
ResultSet == [rule : Seq(Symbols), name : Words, type : TryTypes, value : Values]
CompiledSet == [name : Words, pattern : Patterns \ Malformed]

LEMMA TriesType ==
  ASSUME NEW rule \in LoadedRules
  PROVE  Tries(rule) \in Seq(TrySet)
<1> DEFINE a == [i \in DOMAIN rule.regex |->
                      [rule |-> rule, node |-> rule.regex[i], type |-> "regex"]]
           b == [i \in DOMAIN rule.echo |->
                      [rule |-> rule, node |-> rule.echo[i], type |-> "echo"]]
<1>1. rule.regex \in Seq(Node) /\ rule.echo \in Seq(Node)
  BY DEF LoadedRules, Rule
<1>2. a \in Seq(TrySet)
  <2>1. DOMAIN rule.regex = 1..Len(rule.regex) /\ Len(rule.regex) \in Nat
        /\ \A i \in 1..Len(rule.regex) : rule.regex[i] \in Node
    BY <1>1, ElementOfSeq, LenProperties
  <2>2. \A i \in 1..Len(rule.regex) :
           [rule |-> rule, node |-> rule.regex[i], type |-> "regex"] \in TrySet
    BY <2>1 DEF TrySet, TryTypes
  <2> QED
    BY <2>1, <2>2
<1>3. b \in Seq(TrySet)
  <2>1. DOMAIN rule.echo = 1..Len(rule.echo) /\ Len(rule.echo) \in Nat
        /\ \A i \in 1..Len(rule.echo) : rule.echo[i] \in Node
    BY <1>1, ElementOfSeq, LenProperties
  <2>2. \A i \in 1..Len(rule.echo) :
           [rule |-> rule, node |-> rule.echo[i], type |-> "echo"] \in TrySet
    BY <2>1 DEF TrySet, TryTypes
  <2> QED
    BY <2>1, <2>2
<1>4. <<>> \in Seq(TrySet)
  BY EmptySeq
<1> HIDE DEF a, b
<1>5. a \o b \in Seq(TrySet) /\ a \o <<>> \in Seq(TrySet)
  BY <1>2, <1>3, <1>4, ConcatProperties
<1>6. Tries(rule) = a \o IF rule.switch = "on" THEN b ELSE <<>>
  BY DEF Tries, a, b
<1> QED
  BY <1>5, <1>6

(* All tries, and what they were before they were joined.                  *)
RuleTries == [rule \in LoadedRules |-> Tries(rule)]
SystemTries == [sys \in LoadedSystems |-> Mapped(RuleTries, sys.rules)]

LEMMA RuleTriesType == RuleTries \in Maps(LoadedRules, Seq(TrySet))
BY TriesType DEF RuleTries, Maps

LEMMA SystemTriesType == SystemTries \in Maps(LoadedSystems, Seq(TrySet))
<1>1. ASSUME NEW sys \in LoadedSystems PROVE Mapped(RuleTries, sys.rules) \in Seq(TrySet)
  <2>1. sys.rules \in Seq(LoadedRules)
    BY DEF LoadedSystems, System, LoadedRules
  <2> QED
    BY <2>1, RuleTriesType, MappedType
<1> QED
  BY <1>1 DEF SystemTries, Maps

LEMMA AllTriesIs ==
  ASSUME NEW systems \in Seq(LoadedSystems)
  PROVE  AllTries(systems) = Mapped(SystemTries, systems) /\ AllTries(systems) \in Seq(TrySet)
<1>1. DOMAIN systems = 1..Len(systems) /\ \A s \in 1..Len(systems) : systems[s] \in LoadedSystems
  BY ElementOfSeq, LenProperties
<1>2. ASSUME NEW s \in DOMAIN systems
      PROVE  FlattenSeq([r \in DOMAIN systems[s].rules |-> Tries(systems[s].rules[r])])
             = SystemTries[systems[s]]
  <2> DEFINE rules == systems[s].rules
  <2>1. rules \in Seq(LoadedRules) /\ systems[s] \in LoadedSystems
    BY <1>1 DEF LoadedSystems, System, LoadedRules
  <2>2. DOMAIN rules = 1..Len(rules) /\ \A r \in 1..Len(rules) : rules[r] \in LoadedRules
    BY <2>1, ElementOfSeq, LenProperties
  <2>3. SystemTries[systems[s]] = Mapped(RuleTries, rules)
    BY <2>1 DEF SystemTries
  <2> HIDE DEF rules
  <2>4. [r \in DOMAIN rules |-> Tries(rules[r])] = Each(RuleTries, rules)
    BY <2>2 DEF Each, RuleTries
  <2>5. FlattenSeq([r \in DOMAIN rules |-> Tries(rules[r])]) = SystemTries[systems[s]]
    BY <2>3, <2>4 DEF Mapped
  <2> QED
    BY <2>5 DEF rules
<1>3. AllTries(systems) = Mapped(SystemTries, systems)
  BY <1>2 DEF AllTries, Mapped, Each
<1> QED
  BY <1>3, SystemTriesType, MappedType

(* A try belongs to a rule of a system.                                    *)
LEMMA AllTriesFrom ==
  ASSUME NEW systems \in Seq(LoadedSystems), NEW t \in ToSet(AllTries(systems))
  PROVE  \E s \in DOMAIN systems : \E r \in DOMAIN systems[s].rules :
             t \in ToSet(Tries(systems[s].rules[r]))
<1>1. DOMAIN systems = 1..Len(systems) /\ \A s \in 1..Len(systems) : systems[s] \in LoadedSystems
  BY ElementOfSeq, LenProperties
<1> DEFINE ss == Each(SystemTries, systems)
<1>2. ss \in Seq(Seq(TrySet)) /\ Len(ss) = Len(systems)
      /\ \A i \in 1..Len(systems) : ss[i] = SystemTries[systems[i]]
  <2> HIDE DEF ss
  <2>1. /\ Each(SystemTries, systems) \in Seq(Seq(TrySet))
        /\ Len(Each(SystemTries, systems)) = Len(systems)
        /\ \A i \in 1..Len(systems) : Each(SystemTries, systems)[i] = SystemTries[systems[i]]
    BY SystemTriesType, EachType
  <2> QED
    BY <2>1 DEF ss
<1>3. t \in ToSet(FlattenSeq(ss))
  BY AllTriesIs DEF Mapped
<1> HIDE DEF ss
<1>4. PICK s \in DOMAIN ss : t \in ToSet(ss[s])
  BY <1>2, <1>3, InFlatten
<1>5. s \in DOMAIN systems /\ ss[s] = SystemTries[systems[s]] /\ systems[s] \in LoadedSystems
  BY <1>1, <1>2, LenProperties, SMTT(30)
<1> DEFINE rules == systems[s].rules
           rr == Each(RuleTries, rules)
<1>6. rules \in Seq(LoadedRules)
  BY <1>5 DEF LoadedSystems, System, LoadedRules
<1>7. SystemTries[systems[s]] = FlattenSeq(rr)
  BY <1>5 DEF SystemTries, Mapped
<1> HIDE DEF rules
<1>8. rr \in Seq(Seq(TrySet)) /\ Len(rr) = Len(rules)
      /\ \A i \in 1..Len(rules) : rr[i] = RuleTries[rules[i]]
  <2> HIDE DEF rr
  <2>1. /\ Each(RuleTries, rules) \in Seq(Seq(TrySet)) /\ Len(Each(RuleTries, rules)) = Len(rules)
        /\ \A i \in 1..Len(rules) : Each(RuleTries, rules)[i] = RuleTries[rules[i]]
    BY <1>6, RuleTriesType, EachType
  <2> QED
    BY <2>1 DEF rr
<1> HIDE DEF rr
<1>9. t \in ToSet(FlattenSeq(rr))
  BY <1>4, <1>5, <1>7
<1>10. PICK r \in DOMAIN rr : t \in ToSet(rr[r])
  BY <1>8, <1>9, InFlatten
<1>11. r \in DOMAIN rules /\ rr[r] = RuleTries[rules[r]] /\ rules[r] \in LoadedRules
  BY <1>6, <1>8, ElementOfSeq, LenProperties
<1>12. rr[r] = Tries(rules[r])
  BY <1>11 DEF RuleTries
<1> QED
  BY <1>5, <1>10, <1>11, <1>12 DEF rules

-----------------------------------------------------------------------------
(* What one try gives: the result of its node, if that occurs.             *)
Occurs(t, text) == t.node.pattern \in text \ Malformed
Gives(text) == [t \in TrySet |-> IF Occurs(t, text) THEN <<Result(t)>> ELSE <<>>]

LEMMA ResultType ==
  ASSUME NEW t \in TrySet
  PROVE  Result(t) \in ResultSet
<1>1. t.rule.name \in Seq(Symbols) /\ t.node \in Node /\ t.type \in TryTypes
  BY DEF TrySet, LoadedRules, Rule
<1>2. t.node.name \in Words /\ t.node.pattern \in Patterns /\ t.node.rep \in Words \cup {NoText}
  BY <1>1 DEF Node
<1>3. (IF t.node.rep = NoText THEN t.node.pattern ELSE t.node.rep) \in Values
  BY <1>2, PatternAssumption DEF Values
<1> QED
  BY <1>1, <1>2, <1>3 DEF Result, ResultSet

LEMMA GivesType ==
  ASSUME NEW text
  PROVE  Gives(text) \in Maps(TrySet, Seq(ResultSet))
<1>1. \A t \in TrySet : <<Result(t)>> \in Seq(ResultSet)
  BY ResultType
<1>2. <<>> \in Seq(ResultSet)
  BY EmptySeq
<1> QED
  BY <1>1, <1>2 DEF Gives, Maps

(* One Pcre object is enough: it is cleared before each node.              *)
LEMMA NodeGives ==
  ASSUME NEW t \in TrySet, NEW text
  PROVE  /\ NodeResults(t, AddRule(<<>>, t.node), text) = Gives(text)[t]
         /\ AddRule(<<>>, t.node) \in Seq(CompiledSet)
<1>1. t.node.name \in Words /\ t.node.pattern \in Patterns
  BY DEF TrySet, Node
<1> DEFINE e == [name |-> t.node.name, pattern |-> t.node.pattern]
<1>2. CASE t.node.pattern \in Malformed
  <2>1. AddRule(<<>>, t.node) = <<>>
    BY <1>2 DEF AddRule
  <2>2. MatchAllRule(<<>>, text) = <<>>
    BY FlattenEmpty DEF MatchAllRule
  <2>3. NodeResults(t, <<>>, text) = <<>>
    BY <2>2 DEF NodeResults
  <2>4. Gives(text)[t] = <<>>
    BY <1>2 DEF Gives, Occurs
  <2> QED
    BY <2>1, <2>3, <2>4, EmptySeq
<1>3. CASE t.node.pattern \notin Malformed
  <2>1. AddRule(<<>>, t.node) = <<e>>
    BY <1>3 DEF AddRule
  <2>2. e \in CompiledSet
    BY <1>1, <1>3 DEF CompiledSet
  <2>a. <<e>> \in Seq(CompiledSet)
    BY <2>2
  <2>3. MatchAllRule(<<e>>, text) = IF t.node.pattern \in text THEN <<e>> ELSE <<>>
    <3> DEFINE f == IF t.node.pattern \in text THEN <<e>> ELSE <<>>
    <3>1. [i \in DOMAIN <<e>> |->
              IF <<e>>[i].pattern \in text THEN <<(<<e>>[i])>> ELSE <<>>] = <<f>>
      OBVIOUS
    <3>2. <<e>> \in Seq(CompiledSet) /\ <<>> \in Seq(CompiledSet)
      BY <2>2, EmptySeq
    <3>3. f \in Seq(CompiledSet)
      BY <3>2
    <3>4. FlattenSeq(<<f>>) = f
      BY <3>3, FlattenOne
    <3> QED
      BY <3>1, <3>4 DEF MatchAllRule
  <2>4. CASE t.node.pattern \in text
    <3>1. NodeResults(t, <<e>>, text) = <<MatchNode(t.rule, t.node, t.type, e)>>
      BY <2>3, <2>4 DEF NodeResults
    <3>2. MatchNode(t.rule, t.node, t.type, e) = Result(t)
      BY DEF MatchNode, Result
    <3>3. Gives(text)[t] = <<Result(t)>>
      BY <1>3, <2>4 DEF Gives, Occurs
    <3> HIDE DEF e
    <3> QED
      BY <2>1, <2>a, <3>1, <3>2, <3>3
  <2>5. CASE t.node.pattern \notin text
    <3>1. NodeResults(t, <<e>>, text) = <<>>
      BY <2>3, <2>5 DEF NodeResults
    <3>2. Gives(text)[t] = <<>>
      BY <2>5 DEF Gives, Occurs
    <3> HIDE DEF e
    <3> QED
      BY <2>1, <2>a, <3>1, <3>2
  <2> QED
    BY <2>4, <2>5
<1> QED
  BY <1>2, <1>3

(* The results of one rule.                                                *)
Only(name) == [result \in ResultSet |-> IF result.rule = name THEN <<result>> ELSE <<>>]
FoundIn(systems, name, text) ==
  FlattenSeq([k \in DOMAIN AllTries(systems) |->
      IF AllTries(systems)[k].rule.name = name /\ Occurs(AllTries(systems)[k], text)
      THEN <<Result(AllTries(systems)[k])>> ELSE <<>>])

LEMMA OnlyType ==
  ASSUME NEW name
  PROVE  Only(name) \in Maps(ResultSet, Seq(ResultSet))
<1>1. \A r \in ResultSet : <<r>> \in Seq(ResultSet)
  OBVIOUS
<1>2. <<>> \in Seq(ResultSet)
  BY EmptySeq
<1> QED
  BY <1>1, <1>2 DEF Only, Maps

LEMMA FoundIs ==
  ASSUME NEW systems \in Seq(LoadedSystems), NEW name, NEW text
  PROVE  Mapped(Only(name), Mapped(Gives(text), AllTries(systems))) = FoundIn(systems, name, text)
<1> DEFINE tries == AllTries(systems)
           g == [t \in TrySet |-> Mapped(Only(name), Gives(text)[t])]
<1>1. tries \in Seq(TrySet)
  BY AllTriesIs
<1> HIDE DEF tries
<1>2. DOMAIN tries = 1..Len(tries) /\ \A k \in 1..Len(tries) : tries[k] \in TrySet
  BY <1>1, ElementOfSeq, LenProperties
<1>3. Mapped(Only(name), Mapped(Gives(text), tries)) = Mapped(g, tries)
  <2>1. Gives(text) \in Maps(TrySet, Seq(ResultSet))
        /\ Only(name) \in Maps(ResultSet, Seq(ResultSet))
    BY GivesType, OnlyType
  <2> QED
    BY <1>1, <2>1, MappedTwice
<1>4. ASSUME NEW t \in TrySet
      PROVE  g[t] = IF t.rule.name = name /\ Occurs(t, text) THEN <<Result(t)>> ELSE <<>>
  <2>1. CASE Occurs(t, text)
    <3>1. Gives(text)[t] = <<Result(t)>>
      BY <2>1 DEF Gives
    <3>2. Result(t) \in ResultSet /\ Result(t).rule = t.rule.name
      BY ResultType DEF Result
    <3>3. Mapped(Only(name), <<Result(t)>>) = Only(name)[Result(t)]
      BY <3>2, OnlyType, MappedOne
    <3>4. Only(name)[Result(t)] = IF t.rule.name = name THEN <<Result(t)>> ELSE <<>>
      BY <3>2 DEF Only
    <3> QED
      BY <2>1, <3>1, <3>3, <3>4
  <2>2. CASE ~Occurs(t, text)
    <3>1. Gives(text)[t] = <<>>
      BY <2>2 DEF Gives
    <3> QED
      BY <2>2, <3>1, MappedEmpty
  <2> QED
    BY <2>1, <2>2
<1> HIDE DEF g
<1>5. Each(g, tries) = [k \in DOMAIN tries |->
          IF tries[k].rule.name = name /\ Occurs(tries[k], text)
          THEN <<Result(tries[k])>> ELSE <<>>]
  BY <1>2, <1>4 DEF Each
<1> QED
  BY <1>3, <1>5 DEF Mapped, FoundIn, tries

(* What is told for a list of names, from all results.                     *)
LEMMA ToldIs ==
  ASSUME NEW systems \in Seq(LoadedSystems), NEW text,
         NEW names \in Seq(Seq(Symbols)),
         NEW tells, tells = [name \in Seq(Symbols) |-> FoundIn(systems, name, text)]
  PROVE  /\ Told(names, Mapped(Gives(text), AllTries(systems))) = Mapped(tells, names)
         /\ tells \in Maps(Seq(Symbols), Seq(ResultSet))
<1> DEFINE results == Mapped(Gives(text), AllTries(systems))
<1>1. results \in Seq(ResultSet)
  <2>1. AllTries(systems) \in Seq(TrySet)
    BY AllTriesIs
  <2> QED
    BY <2>1, GivesType, MappedType
<1>2. \A name : Mapped(Only(name), results) = FoundIn(systems, name, text)
  BY FoundIs
<1> HIDE DEF results
<1>3. DOMAIN results = 1..Len(results) /\ \A k \in 1..Len(results) : results[k] \in ResultSet
  BY <1>1, ElementOfSeq, LenProperties
<1>4. ASSUME NEW name
      PROVE  [k \in DOMAIN results |-> IF results[k].rule = name THEN <<results[k]>> ELSE <<>>]
             = Each(Only(name), results)
  BY <1>3 DEF Each, Only
<1>5. ASSUME NEW name
      PROVE  FlattenSeq([k \in DOMAIN results |->
                            IF results[k].rule = name THEN <<results[k]>> ELSE <<>>])
             = FoundIn(systems, name, text)
  BY <1>2, <1>4 DEF Mapped
<1>6. DOMAIN names = 1..Len(names) /\ \A i \in 1..Len(names) : names[i] \in Seq(Symbols)
  BY ElementOfSeq, LenProperties
<1>7. [i \in DOMAIN names |->
          FlattenSeq([k \in DOMAIN results |->
              IF results[k].rule = names[i] THEN <<results[k]>> ELSE <<>>])] = Each(tells, names)
  BY <1>5, <1>6 DEF Each
<1>8. tells \in Maps(Seq(Symbols), Seq(ResultSet))
  <2>1. \A name : Mapped(Only(name), results) \in Seq(ResultSet)
    BY <1>1, OnlyType, MappedType
  <2> QED
    BY <1>2, <2>1 DEF Maps
<1> QED
  BY <1>7, <1>8 DEF Told, Mapped, results

-----------------------------------------------------------------------------
(* The names of the first n systems, and of one call after another.        *)
DeclaredIn(systems, n) == FlattenSeq([s \in 1..n |-> NamesIn(systems[s].seqrel)])
AllDeclared(systems, counts) ==
  FlattenSeq([k \in DOMAIN counts |-> DeclaredIn(systems, counts[k])])
AnswerIn(systems, text, names) ==
  FlattenSeq([i \in DOMAIN names |-> FoundIn(systems, names[i], text)])
ReplyIn(systems, text, counts) ==
  FlattenSeq([k \in DOMAIN counts |->
      AnswerIn(SubSeq(systems, 1, Last(counts)), text, DeclaredIn(systems, counts[k]))])
Counts(systems) == {n \in Nat : n <= Len(systems)}

LEMMA DeclaredType ==
  ASSUME NEW systems \in Seq(LoadedSystems), NEW n \in Counts(systems)
  PROVE  DeclaredIn(systems, n) \in Names
<1>1. n \in Nat /\ n <= Len(systems) /\ Len(systems) \in Nat
  BY LenProperties DEF Counts
<1>2. ASSUME NEW s \in 1..n PROVE NamesIn(systems[s].seqrel) \in Seq(Seq(Symbols))
  <2>1. s \in 1..Len(systems)
    BY <1>1
  <2>2. systems[s] \in LoadedSystems
    BY <2>1, ElementOfSeq
  <2>3. systems[s].seqrel \in Seq(Symbols)
    BY <2>2 DEF LoadedSystems, System
  <2> QED
    BY <2>3, SeqRelationCorrect DEF Names
<1> DEFINE ss == [s \in 1..n |-> NamesIn(systems[s].seqrel)]
           B == Seq(Seq(Symbols))
<1>3. ss \in Seq(B)
  BY <1>1, <1>2
<1> HIDE DEF ss
<1>4. FlattenSeq(ss) \in Seq(Seq(Symbols))
  BY <1>3, FlattenType
<1> QED
  BY <1>4 DEF ss, DeclaredIn, Names

(* More systems behind these change none of it.                            *)
LEMMA PrefixStays ==
  ASSUME NEW systems \in Seq(LoadedSystems), NEW more \in Seq(LoadedSystems),
         NEW n \in Counts(systems)
  PROVE  /\ systems \o more \in Seq(LoadedSystems)
         /\ n \in Counts(systems \o more)
         /\ DOMAIN systems \subseteq DOMAIN (systems \o more)
         /\ \A s \in DOMAIN systems : (systems \o more)[s] = systems[s]
         /\ DeclaredIn(systems \o more, n) = DeclaredIn(systems, n)
         /\ SubSeq(systems \o more, 1, n) = SubSeq(systems, 1, n)
<1> DEFINE w == systems \o more
<1>1. w \in Seq(LoadedSystems) /\ Len(w) = Len(systems) + Len(more)
      /\ \A j \in 1..(Len(systems) + Len(more)) :
             w[j] = IF j <= Len(systems) THEN systems[j] ELSE more[j - Len(systems)]
  BY ConcatProperties
<1>2. n \in Nat /\ n <= Len(systems)
  BY DEF Counts
<1>3. /\ DOMAIN w = 1..Len(w) /\ DOMAIN systems = 1..Len(systems)
      /\ Len(w) \in Nat /\ Len(systems) \in Nat /\ Len(more) \in Nat
  BY <1>1, LenProperties
<1> HIDE DEF w
<1>a. Len(w) = Len(systems) + Len(more)
  BY <1>1
<1>4. \A s \in 1..Len(systems) : s \in 1..(Len(systems) + Len(more)) /\ s <= Len(systems)
  BY <1>3
<1>5. \A s \in 1..Len(systems) : w[s] = systems[s]
  BY <1>1, <1>4
<1>6. n <= Len(w)
  BY <1>2, <1>3, <1>a
<1>7. \A s \in 1..n : s \in 1..Len(systems) /\ s \in 1..Len(w)
  BY <1>2, <1>3, <1>a
<1>8. \A s \in 1..n : w[s] = systems[s]
  BY <1>5, <1>7
<1>9. DeclaredIn(w, n) = DeclaredIn(systems, n)
  BY <1>8 DEF DeclaredIn
<1>10. SubSeq(w, 1, n) = SubSeq(systems, 1, n)
  <2> DEFINE a == SubSeq(w, 1, n)
             b == SubSeq(systems, 1, n)
  <2>1. \A j \in 1..n : w[j] \in LoadedSystems /\ systems[j] \in LoadedSystems
    BY <1>1, <1>7, ElementOfSeq
  <2>2. a \in Seq(LoadedSystems) /\ Len(a) = n /\ \A i \in 1..n : a[i] = w[i]
    BY <1>2, <2>1, SubSeqProperties
  <2>3. b \in Seq(LoadedSystems) /\ Len(b) = n /\ \A i \in 1..n : b[i] = systems[i]
    BY <1>2, <2>1, SubSeqProperties
  <2> HIDE DEF a, b
  <2>4. a = b
    BY <1>8, <2>2, <2>3, SeqEqual
  <2> QED
    BY <2>4 DEF a, b
<1>11. DOMAIN systems \subseteq DOMAIN w
  BY <1>3, <1>4, <1>a
<1> QED
  BY <1>1, <1>2, <1>3, <1>5, <1>6, <1>9, <1>10, <1>11 DEF w, Counts

LEMMA WholePrefix ==
  ASSUME NEW A, NEW s \in Seq(A)
  PROVE  SubSeq(s, 1, Len(s)) = s
<1> DEFINE a == SubSeq(s, 1, Len(s))
<1>1. Len(s) \in Nat
  BY LenProperties
<1>2. \A j \in 1..Len(s) : s[j] \in A
  BY ElementOfSeq
<1>3. a \in Seq(A) /\ Len(a) = Len(s) /\ \A i \in 1..Len(s) : a[i] = s[i]
  BY <1>1, <1>2, SubSeqProperties
<1> HIDE DEF a
<1>4. a = s
  BY <1>3, SeqEqual
<1> QED
  BY <1>4 DEF a

(* What a call adds to the sort nodes.                                     *)
LEMMA CallDeclares ==
  ASSUME NEW systems \in Seq(LoadedSystems)
  PROVE  FlattenSeq([s \in DOMAIN systems |-> SeqRelation(systems[s].seqrel)])
         = DeclaredIn(systems, Len(systems))
<1>1. DOMAIN systems = 1..Len(systems)
  BY LenProperties
<1>2. ASSUME NEW s \in 1..Len(systems)
      PROVE  SeqRelation(systems[s].seqrel) = NamesIn(systems[s].seqrel)
  <2>1. systems[s] \in LoadedSystems
    BY ElementOfSeq
  <2>2. systems[s].seqrel \in Seq(Symbols)
    BY <2>1 DEF LoadedSystems, System
  <2> QED
    BY <2>2, SeqRelationCorrect
<1> QED
  BY <1>1, <1>2 DEF DeclaredIn

LEMMA OneMoreCall ==
  ASSUME NEW systems \in Seq(LoadedSystems), NEW counts \in Seq(Counts(systems)),
         NEW n \in Counts(systems)
  PROVE  /\ AllDeclared(systems, Append(counts, n))
            = AllDeclared(systems, counts) \o DeclaredIn(systems, n)
         /\ AllDeclared(systems, counts) \in Names
<1> DEFINE C == Counts(systems)
           B == Seq(Symbols)
           g == [k \in C |-> DeclaredIn(systems, k)]
<1>1. g \in Maps(C, Seq(B))
  BY DeclaredType DEF Maps, Names
<1>2. ASSUME NEW s \in Seq(C) PROVE AllDeclared(systems, s) = Mapped(g, s)
  <2>1. DOMAIN s = 1..Len(s) /\ \A k \in 1..Len(s) : s[k] \in C
    BY ElementOfSeq, LenProperties
  <2>2. [k \in DOMAIN s |-> DeclaredIn(systems, s[k])] = Each(g, s)
    BY <2>1 DEF Each
  <2> QED
    BY <2>2 DEF AllDeclared, Mapped
<1>3. counts \in Seq(C) /\ n \in C /\ g[n] = DeclaredIn(systems, n)
  OBVIOUS
<1> HIDE DEF C, g, B
<1>4. Append(counts, n) \in Seq(C)
  BY <1>3, AppendProperties
<1>5. Mapped(g, Append(counts, n)) = Mapped(g, counts) \o g[n] /\ Mapped(g, counts) \in Seq(B)
  BY <1>1, <1>3, MappedAppend, MappedType
<1> QED
  BY <1>2, <1>3, <1>4, <1>5 DEF B, Names

(* Told in the order of the sort nodes, the results of a call are its reply. *)
LEMMA ReplyIs ==
  ASSUME NEW systems \in Seq(LoadedSystems), NEW text, NEW counts \in Seq(Counts(systems)),
         Last(counts) = Len(systems)
  PROVE  Told(AllDeclared(systems, counts), Mapped(Gives(text), AllTries(systems)))
         = ReplyIn(systems, text, counts)
<1> DEFINE C == Counts(systems)
           ss == [k \in DOMAIN counts |-> DeclaredIn(systems, counts[k])]
           tells == [name \in Seq(Symbols) |-> FoundIn(systems, name, text)]
           B == Seq(Symbols)
<1>1. DOMAIN counts = 1..Len(counts) /\ Len(counts) \in Nat
      /\ \A k \in 1..Len(counts) : counts[k] \in C
  BY ElementOfSeq, LenProperties
<1>2. \A k \in 1..Len(counts) : DeclaredIn(systems, counts[k]) \in Seq(B)
  BY <1>1, DeclaredType DEF Names
<1>3. ss \in Seq(Seq(B)) /\ DOMAIN ss = DOMAIN counts
      /\ \A k \in DOMAIN counts : ss[k] = DeclaredIn(systems, counts[k])
  <2>1. ss \in [1..Len(counts) -> Seq(B)]
    BY <1>1, <1>2
  <2> QED
    BY <1>1, <2>1
<1>4. AllDeclared(systems, counts) = FlattenSeq(ss)
  BY DEF AllDeclared
<1> HIDE DEF ss, C
<1>5. FlattenSeq(ss) \in Seq(B)
  BY <1>3, FlattenType
<1>6. /\ Told(FlattenSeq(ss), Mapped(Gives(text), AllTries(systems)))
         = Mapped(tells, FlattenSeq(ss))
      /\ tells \in Maps(Seq(Symbols), Seq(ResultSet))
  <2>1. tells = [name \in Seq(Symbols) |-> FoundIn(systems, name, text)]
    OBVIOUS
  <2> HIDE DEF tells
  <2> QED
    BY <1>5, <2>1, ToldIs
<1>a. \A name \in B : tells[name] = FoundIn(systems, name, text)
  OBVIOUS
<1> HIDE DEF tells
<1>7. Mapped(tells, FlattenSeq(ss)) = FlattenSeq(MappedEach(tells, ss))
  <2>1. tells \in Maps(B, Seq(ResultSet))
    BY <1>6
  <2> HIDE DEF B
  <2> QED
    BY <1>3, <2>1, MappedFlatten
<1>8. ASSUME NEW k \in DOMAIN counts
      PROVE  Mapped(tells, ss[k]) = AnswerIn(systems, text, DeclaredIn(systems, counts[k]))
  <2> DEFINE names == DeclaredIn(systems, counts[k])
  <2>1. names \in Seq(B) /\ ss[k] = names
    BY <1>1, <1>2, <1>3
  <2> HIDE DEF names
  <2>2. DOMAIN names = 1..Len(names) /\ \A i \in 1..Len(names) : names[i] \in B
    BY <2>1, ElementOfSeq, LenProperties
  <2>3. Each(tells, names) = [i \in DOMAIN names |-> FoundIn(systems, names[i], text)]
    BY <1>a, <2>2 DEF Each
  <2>4. Mapped(tells, names) = AnswerIn(systems, text, names)
    BY <2>3 DEF Mapped, AnswerIn
  <2> QED
    BY <2>1, <2>4 DEF names
<1>9. SubSeq(systems, 1, Last(counts)) = systems
  BY WholePrefix
<1>10. MappedEach(tells, ss) = [k \in DOMAIN counts |->
          AnswerIn(SubSeq(systems, 1, Last(counts)), text, DeclaredIn(systems, counts[k]))]
  BY <1>3, <1>8, <1>9 DEF MappedEach
<1> QED
  BY <1>4, <1>6, <1>7, <1>10 DEF ReplyIn

-----------------------------------------------------------------------------
Typed ==
  /\ sysNodes \in Seq(LoadedSystems)
  /\ pcre \in Seq(CompiledSet)
  /\ regexResults \in Seq(ResultSet)
  /\ content \in SUBSET Patterns
  /\ asked \in Seq(Counts(sysNodes))

(* The sort nodes are the names of all calls so far.                       *)
SortInv == sortNodes = AllDeclared(sysNodes, asked)

RulesInv == Typed /\ SortInv /\ ResultsAttributed /\ ReplyComplete

LEMMA ReplyForm == ReplyComplete <=> reply = ReplyIn(sysNodes, content, asked)
<1>1. \A systems, name : Found(systems, name) = FoundIn(systems, name, content)
  BY DEF Found, FoundIn, Hits, Occurs
<1>2. \A names : Answer(names) = AnswerIn(SubSeq(sysNodes, 1, Last(asked)), content, names)
  BY <1>1 DEF Answer, AnswerIn
<1>3. \A n : Declared(n) = DeclaredIn(sysNodes, n)
  BY DEF Declared, DeclaredIn
<1> QED
  BY <1>2, <1>3 DEF ReplyComplete, ReplyIn

LEMMA ReplyFormNext == ReplyComplete' <=> reply' = ReplyIn(sysNodes', content', asked')
<1>1. \A systems, name : Found(systems, name)' = FoundIn(systems, name, content')
  BY DEF Found, FoundIn, Hits, Occurs
<1>2. \A names : Answer(names)' = AnswerIn(SubSeq(sysNodes', 1, Last(asked')), content', names)
  BY <1>1 DEF Answer, AnswerIn, Found, FoundIn, Hits, Occurs
<1>3. \A n : Declared(n)' = DeclaredIn(sysNodes', n)
  BY DEF Declared, DeclaredIn
<1> QED
  BY <1>2, <1>3 DEF ReplyComplete, ReplyIn, Answer, Declared

LEMMA ListsStay ==
  ASSUME NEW systems \in Seq(LoadedSystems), NEW more \in Seq(LoadedSystems),
         NEW counts \in Seq(Counts(systems)), NEW text
  PROVE  /\ AllDeclared(systems \o more, counts) = AllDeclared(systems, counts)
         /\ ReplyIn(systems \o more, text, counts) = ReplyIn(systems, text, counts)
         /\ counts \in Seq(Counts(systems \o more))
<1> DEFINE w == systems \o more
           C == Counts(systems)
<1>1. \A n \in C : /\ n \in Counts(w) /\ DeclaredIn(w, n) = DeclaredIn(systems, n)
                   /\ SubSeq(w, 1, n) = SubSeq(systems, 1, n)
  BY PrefixStays
<1>2. counts \in Seq(C)
  OBVIOUS
<1> HIDE DEF w, C
<1>3. DOMAIN counts = 1..Len(counts) /\ Len(counts) \in Nat
      /\ \A k \in 1..Len(counts) : counts[k] \in C
  BY <1>2, ElementOfSeq, LenProperties
<1>4. \A k \in DOMAIN counts : DeclaredIn(w, counts[k]) = DeclaredIn(systems, counts[k])
  BY <1>1, <1>3
<1>5. AllDeclared(w, counts) = AllDeclared(systems, counts)
  BY <1>4 DEF AllDeclared
<1>6. ASSUME NEW k \in DOMAIN counts
      PROVE  SubSeq(w, 1, Last(counts)) = SubSeq(systems, 1, Last(counts))
  <2>1. Len(counts) \in 1..Len(counts)
    BY <1>3
  <2>2. Last(counts) \in C
    BY <1>3, <2>1 DEF Last
  <2> QED
    BY <1>1, <2>2
<1>7. ReplyIn(w, text, counts) = ReplyIn(systems, text, counts)
  <2>1. \A k \in DOMAIN counts :
           AnswerIn(SubSeq(w, 1, Last(counts)), text, DeclaredIn(w, counts[k]))
           = AnswerIn(SubSeq(systems, 1, Last(counts)), text, DeclaredIn(systems, counts[k]))
    BY <1>4, <1>6
  <2> QED
    BY <2>1 DEF ReplyIn
<1>8. counts \in Seq(Counts(w))
  <2>1. \A k \in 1..Len(counts) : counts[k] \in Counts(w)
    BY <1>1, <1>3
  <2>2. counts = [k \in 1..Len(counts) |-> counts[k]]
    BY <1>2, <1>3
  <2> QED
    BY <1>3, <2>1, <2>2
<1> QED
  BY <1>5, <1>7, <1>8 DEF w

LEMMA RulesInit ==
  ASSUME Init
  PROVE  RulesInv
<1> USE DEF Init
<1>1. \A A : <<>> \in Seq(A)
  BY EmptySeq
<1>2. Typed
  BY <1>1 DEF Typed
<1>3. DOMAIN asked = {} /\ DOMAIN regexResults = {}
  OBVIOUS
<1>4. SortInv
  <2>1. [k \in DOMAIN asked |-> DeclaredIn(sysNodes, asked[k])] = <<>>
    BY <1>3
  <2> QED
    BY <2>1, FlattenEmpty DEF SortInv, AllDeclared
<1>5. ReplyComplete
  <2>1. [k \in DOMAIN asked |->
            AnswerIn(SubSeq(sysNodes, 1, Last(asked)), content,
                     DeclaredIn(sysNodes, asked[k]))] = <<>>
    BY <1>3
  <2>2. reply = ReplyIn(sysNodes, content, asked)
    BY <2>1, FlattenEmpty DEF ReplyIn
  <2> QED
    BY <2>2, ReplyForm
<1>6. ResultsAttributed
  BY <1>3 DEF ResultsAttributed
<1> QED
  BY <1>2, <1>4, <1>5, <1>6 DEF RulesInv

(* Whatever an attribute that is not read comes out as, a file gives       *)
(* systems.                                                                *)
LEMMA LoadedType ==
  ASSUME NEW file \in Seq(System({"on", "off", "unset"})),
         NEW garbage \in [Unset(file) -> {"on", "off"}]
  PROVE  [s \in DOMAIN file |-> LoadedSystem(file[s], s, garbage)] \in Seq(LoadedSystems)
<1>1. DOMAIN file = 1..Len(file) /\ Len(file) \in Nat
      /\ \A s \in 1..Len(file) : file[s] \in System({"on", "off", "unset"})
  BY ElementOfSeq, LenProperties
<1>2. ASSUME NEW s \in 1..Len(file) PROVE LoadedSystem(file[s], s, garbage) \in LoadedSystems
  <2> DEFINE rules == file[s].rules
             value(r) == IF rules[r].switch = "unset" THEN garbage[<<s, r>>] ELSE "off"
             loaded == [r \in DOMAIN rules |-> LoadedRule(rules[r], value(r))]
  <2>1. /\ file[s].name \in Words /\ file[s].seqrel \in Seq(Symbols)
        /\ rules \in Seq(Rule({"on", "off", "unset"}))
    BY <1>1 DEF System
  <2>2. DOMAIN rules = 1..Len(rules) /\ Len(rules) \in Nat
        /\ \A r \in 1..Len(rules) : rules[r] \in Rule({"on", "off", "unset"})
    BY <2>1, ElementOfSeq, LenProperties
  <2>3. ASSUME NEW r \in 1..Len(rules) PROVE LoadedRule(rules[r], value(r)) \in LoadedRules
    <3>1. /\ rules[r].name \in Seq(Symbols) /\ rules[r].regex \in Seq(Node)
          /\ rules[r].echo \in Seq(Node) /\ rules[r].switch \in {"on", "off", "unset"}
      BY <2>2 DEF Rule
    <3>2. rules[r].switch = "unset" => <<s, r>> \in Unset(file)
      BY <1>1, <2>2 DEF Unset
    <3>3. value(r) \in {"on", "off"}
      BY <3>2
    <3>4. (IF rules[r].switch = "unset" THEN value(r) ELSE rules[r].switch) \in {"on", "off"}
      BY <3>1, <3>3
    <3> HIDE DEF value, rules
    <3> QED
      BY <3>1, <3>4 DEF LoadedRule, LoadedRules, Rule
  <2>4. loaded \in Seq(LoadedRules)
    <3> HIDE DEF value, rules
    <3>1. loaded \in [1..Len(rules) -> LoadedRules]
      BY <2>2, <2>3
    <3> QED
      BY <2>2, <3>1
  <2>5. LoadedSystem(file[s], s, garbage) =
        [name |-> file[s].name, seqrel |-> file[s].seqrel, rules |-> loaded]
    BY DEF LoadedSystem
  <2> HIDE DEF loaded, rules
  <2> QED
    BY <2>1, <2>4, <2>5 DEF LoadedSystems, System, LoadedRules
<1> QED
  BY <1>1, <1>2

LEMMA OpenStep ==
  ASSUME RulesInv, NEW f \in DOMAIN Files, OpenRulesXml(Files[f])
  PROVE  RulesInv'
<1> DEFINE file == Files[f]
<1>1. PICK garbage \in [Unset(file) -> {"on", "off"}] :
          sysNodes' = sysNodes \o [s \in DOMAIN file |-> LoadedSystem(file[s], s, garbage)]
  BY DEF OpenRulesXml
<1>2. UNCHANGED <<pcre, regexResults, sortNodes, content, reply, asked>>
  BY DEF OpenRulesXml
<1> DEFINE more == [s \in DOMAIN file |-> LoadedSystem(file[s], s, garbage)]
<1>3. file \in Seq(System({"on", "off", "unset"}))
  BY FilesAssumption
<1>4. more \in Seq(LoadedSystems) /\ sysNodes' = sysNodes \o more
  BY <1>1, <1>3, LoadedType
<1> HIDE DEF more, file
<1>5. Typed /\ SortInv /\ ResultsAttributed /\ ReplyComplete
  BY DEF RulesInv
<1>6. sysNodes \in Seq(LoadedSystems) /\ asked \in Seq(Counts(sysNodes))
  BY <1>5 DEF Typed
<1>7. /\ AllDeclared(sysNodes', asked) = AllDeclared(sysNodes, asked)
      /\ ReplyIn(sysNodes', content, asked) = ReplyIn(sysNodes, content, asked)
      /\ asked \in Seq(Counts(sysNodes'))
  BY <1>4, <1>6, ListsStay
<1>8. sysNodes' \in Seq(LoadedSystems)
  BY <1>4, <1>6, ConcatProperties
<1>9. \A s \in DOMAIN sysNodes : s \in DOMAIN sysNodes' /\ sysNodes'[s] = sysNodes[s]
  <2>1. 0 \in Counts(sysNodes)
    BY <1>6, LenProperties DEF Counts
  <2>2. /\ DOMAIN sysNodes \subseteq DOMAIN (sysNodes \o more)
        /\ \A s \in DOMAIN sysNodes : (sysNodes \o more)[s] = sysNodes[s]
    BY <1>4, <1>6, <2>1, PrefixStays
  <2> QED
    BY <1>4, <2>2
<1>10. Typed'
  BY <1>2, <1>5, <1>7, <1>8 DEF Typed
<1>11. SortInv'
  BY <1>2, <1>5, <1>7 DEF SortInv
<1>12. ReplyComplete'
  BY <1>2, <1>5, <1>7, ReplyForm, ReplyFormNext
<1>13. ResultsAttributed'
  <2>1. SUFFICES ASSUME NEW i \in DOMAIN regexResults
                 PROVE  \E s \in DOMAIN sysNodes' : \E r \in DOMAIN sysNodes'[s].rules :
                            \E try \in ToSet(Tries(sysNodes'[s].rules[r])) :
                                Hits(try)' /\ regexResults'[i] = Result(try)
    BY <1>2 DEF ResultsAttributed, Hits
  <2>2. PICK s \in DOMAIN sysNodes : \E r \in DOMAIN sysNodes[s].rules :
                 \E try \in ToSet(Tries(sysNodes[s].rules[r])) :
                     Hits(try) /\ regexResults[i] = Result(try)
    BY <1>5 DEF ResultsAttributed
  <2>3. PICK r \in DOMAIN sysNodes[s].rules : \E try \in ToSet(Tries(sysNodes[s].rules[r])) :
                     Hits(try) /\ regexResults[i] = Result(try)
    BY <2>2
  <2>4. PICK try \in ToSet(Tries(sysNodes[s].rules[r])) :
           Hits(try) /\ regexResults[i] = Result(try)
    BY <2>3
  <2>5. Hits(try)' /\ regexResults'[i] = Result(try)
    BY <1>2, <2>4 DEF Hits
  <2>6. s \in DOMAIN sysNodes' /\ sysNodes'[s] = sysNodes[s]
    BY <1>9
  <2> QED
    BY <2>4, <2>5, <2>6
<1> QED
  BY <1>10, <1>11, <1>12, <1>13 DEF RulesInv

(* Each node is compiled into a cleared object, and gives its own result.  *)
LEMMA CallResults ==
  ASSUME Typed, NEW text, ExcuteRegexRules(text)
  PROVE  /\ pcre' \in Seq(CompiledSet)
         /\ regexResults' = Mapped(Gives(text), AllTries(sysNodes))
<1> DEFINE tries == AllTries(sysNodes)
           F == CHOOSE f : f = [i \in 0..Len(tries) |->
                    IF i = 0 THEN pcre ELSE AddRule(ClearRules(f[i - 1]), tries[i].node)]
           H == [i \in 0..Len(tries) |-> IF i = 0 THEN pcre ELSE AddRule(<<>>, tries[i].node)]
<1>1. F = H
  BY DEF ClearRules
<1>2. /\ pcre' = F[Len(tries)]
      /\ regexResults' = FlattenSeq([i \in DOMAIN tries |-> NodeResults(tries[i], F[i], text)])
  BY DEF ExcuteRegexRules
<1> HIDE DEF F
<1>3. tries \in Seq(TrySet) /\ pcre \in Seq(CompiledSet)
  BY AllTriesIs DEF Typed
<1> HIDE DEF tries
<1>4. DOMAIN tries = 1..Len(tries) /\ Len(tries) \in Nat
      /\ \A i \in 1..Len(tries) : tries[i] \in TrySet
  BY <1>3, ElementOfSeq, LenProperties
<1>5. \A i \in 1..Len(tries) : H[i] = AddRule(<<>>, tries[i].node)
  BY <1>4
<1>6. H[0] = pcre
  BY <1>4
<1> HIDE DEF H
<1>7. \A i \in 1..Len(tries) : /\ NodeResults(tries[i], H[i], text) = Gives(text)[tries[i]]
                               /\ H[i] \in Seq(CompiledSet)
  BY <1>4, <1>5, NodeGives
<1>8. [i \in DOMAIN tries |-> NodeResults(tries[i], H[i], text)] = Each(Gives(text), tries)
  BY <1>4, <1>7 DEF Each
<1>9. regexResults' = Mapped(Gives(text), tries)
  BY <1>1, <1>2, <1>8 DEF Mapped
<1>10. H[Len(tries)] \in Seq(CompiledSet)
  <2>1. CASE Len(tries) = 0
    BY <1>3, <1>6, <2>1
  <2>2. CASE Len(tries) # 0
    <3>1. Len(tries) \in 1..Len(tries)
      BY <1>4, <2>2
    <3> QED
      BY <1>7, <3>1
  <2> QED
    BY <2>1, <2>2
<1> QED
  BY <1>1, <1>2, <1>9, <1>10 DEF tries

LEMMA ResultsFrom ==
  ASSUME NEW systems \in Seq(LoadedSystems), NEW text, NEW results,
         results = Mapped(Gives(text), AllTries(systems)), NEW i \in DOMAIN results
  PROVE  \E t \in ToSet(AllTries(systems)) : Occurs(t, text) /\ results[i] = Result(t)
<1> DEFINE tries == AllTries(systems)
           ss == Each(Gives(text), tries)
<1>1. tries \in Seq(TrySet)
  BY AllTriesIs
<1> HIDE DEF tries
<1>2. ss \in Seq(Seq(ResultSet)) /\ Len(ss) = Len(tries)
      /\ \A k \in 1..Len(tries) : ss[k] = Gives(text)[tries[k]]
  <2> HIDE DEF ss
  <2>1. /\ Each(Gives(text), tries) \in Seq(Seq(ResultSet))
        /\ Len(Each(Gives(text), tries)) = Len(tries)
        /\ \A k \in 1..Len(tries) : Each(Gives(text), tries)[k] = Gives(text)[tries[k]]
    BY <1>1, GivesType, EachType
  <2> QED
    BY <2>1 DEF ss
<1>3. results = FlattenSeq(ss)
  BY DEF Mapped, tries
<1> HIDE DEF ss
<1>4. results[i] \in ToSet(FlattenSeq(ss))
  BY <1>3 DEF ToSet
<1>5. PICK k \in DOMAIN ss : results[i] \in ToSet(ss[k])
  BY <1>2, <1>4, InFlatten
<1>6. k \in 1..Len(tries) /\ k \in DOMAIN tries /\ tries[k] \in TrySet
      /\ ss[k] = Gives(text)[tries[k]]
  BY <1>1, <1>2, ElementOfSeq, LenProperties
<1>7. CASE Occurs(tries[k], text)
  <2>1. ss[k] = <<Result(tries[k])>>
    BY <1>6, <1>7 DEF Gives
  <2>2. results[i] = Result(tries[k])
    BY <1>5, <2>1 DEF ToSet
  <2>3. tries[k] \in ToSet(tries)
    BY <1>6 DEF ToSet
  <2> QED
    BY <1>7, <2>2, <2>3 DEF tries
<1>8. CASE ~Occurs(tries[k], text)
  <2>1. ss[k] = <<>>
    BY <1>6, <1>8 DEF Gives
  <2>2. ToSet(ss[k]) = {}
    BY <2>1 DEF ToSet
  <2> QED
    BY <1>5, <2>2
<1> QED
  BY <1>7, <1>8

LEMMA CallStep ==
  ASSUME RulesInv, NEW text \in SUBSET Patterns, ExcuteRegexRules(text)
  PROVE  RulesInv'
<1>1. Typed /\ SortInv
  BY DEF RulesInv
<1>2. /\ sortNodes' = sortNodes
         \o FlattenSeq([s \in DOMAIN sysNodes |-> SeqRelation(sysNodes[s].seqrel)])
      /\ reply' = Told(sortNodes', regexResults') /\ content' = text
      /\ asked' = Append(asked, Len(sysNodes)) /\ sysNodes' = sysNodes
  BY DEF ExcuteRegexRules
<1>3. pcre' \in Seq(CompiledSet) /\ regexResults' = Mapped(Gives(text), AllTries(sysNodes))
  BY <1>1, CallResults
<1>4. sysNodes \in Seq(LoadedSystems) /\ asked \in Seq(Counts(sysNodes))
  BY <1>1 DEF Typed
<1>5. Len(sysNodes) \in Counts(sysNodes)
  BY <1>4, LenProperties DEF Counts
<1>6. asked' \in Seq(Counts(sysNodes)) /\ Last(asked') = Len(sysNodes)
  <2> DEFINE C == Counts(sysNodes)
             n == Len(sysNodes)
             a == Append(asked, n)
  <2>1. asked \in Seq(C) /\ n \in C
    BY <1>4, <1>5
  <2> HIDE DEF C, n
  <2>2. a \in Seq(C) /\ Len(a) = Len(asked) + 1 /\ a[Len(asked) + 1] = n
    BY <2>1, AppendProperties
  <2>3. Last(a) = n
    BY <2>2 DEF Last
  <2> QED
    BY <1>2, <2>2, <2>3 DEF a, C, n
<1>7. Typed'
  <2>1. regexResults' \in Seq(ResultSet)
    <3>1. AllTries(sysNodes) \in Seq(TrySet)
      BY <1>4, AllTriesIs
    <3> QED
      BY <1>3, <3>1, GivesType, MappedType
  <2> QED
    BY <1>2, <1>3, <1>4, <1>6, <2>1 DEF Typed
<1>8. sortNodes' = AllDeclared(sysNodes, asked')
  <2>1. AllDeclared(sysNodes, Append(asked, Len(sysNodes)))
        = AllDeclared(sysNodes, asked) \o DeclaredIn(sysNodes, Len(sysNodes))
    BY <1>4, <1>5, OneMoreCall
  <2>2. FlattenSeq([s \in DOMAIN sysNodes |-> SeqRelation(sysNodes[s].seqrel)])
        = DeclaredIn(sysNodes, Len(sysNodes))
    BY <1>4, CallDeclares
  <2> QED
    BY <1>1, <1>2, <2>1, <2>2 DEF SortInv
<1>9. SortInv'
  BY <1>2, <1>8 DEF SortInv
<1>10. ReplyComplete'
  <2> DEFINE counts == asked'
  <2>1. counts \in Seq(Counts(sysNodes)) /\ Last(counts) = Len(sysNodes)
    BY <1>6
  <2> HIDE DEF counts
  <2>2. Told(AllDeclared(sysNodes, counts), Mapped(Gives(text), AllTries(sysNodes)))
        = ReplyIn(sysNodes, text, counts)
    BY <1>4, <2>1, ReplyIs
  <2>3. reply' = ReplyIn(sysNodes', content', asked')
    BY <1>2, <1>3, <1>8, <2>2 DEF counts
  <2> QED
    BY <2>3, ReplyFormNext
<1>11. ResultsAttributed'
  <2>1. SUFFICES ASSUME NEW i \in DOMAIN regexResults'
                 PROVE  \E s \in DOMAIN sysNodes : \E r \in DOMAIN sysNodes[s].rules :
                            \E try \in ToSet(Tries(sysNodes[s].rules[r])) :
                                Occurs(try, text) /\ regexResults'[i] = Result(try)
    BY <1>2 DEF ResultsAttributed, Hits, Occurs
  <2> DEFINE results == regexResults'
  <2>2. results = Mapped(Gives(text), AllTries(sysNodes)) /\ i \in DOMAIN results
    BY <1>3
  <2> HIDE DEF results
  <2>3. PICK t \in ToSet(AllTries(sysNodes)) : Occurs(t, text) /\ results[i] = Result(t)
    BY <1>4, <2>2, ResultsFrom
  <2>4. \E s \in DOMAIN sysNodes : \E r \in DOMAIN sysNodes[s].rules :
             t \in ToSet(Tries(sysNodes[s].rules[r]))
    BY <1>4, AllTriesFrom
  <2> QED
    BY <2>3, <2>4 DEF results
<1> QED
  BY <1>7, <1>9, <1>10, <1>11 DEF RulesInv

LEMMA RulesStep == RulesInv /\ [Next]_vars => RulesInv'
<1> SUFFICES ASSUME RulesInv, [Next]_vars PROVE RulesInv'
  OBVIOUS
<1>1. ASSUME NEW f \in DOMAIN Files, OpenRulesXml(Files[f]) PROVE RulesInv'
  BY <1>1, OpenStep
<1>2. ASSUME NEW text \in SUBSET Patterns, ExcuteRegexRules(text) PROVE RulesInv'
  BY <1>2, CallStep
<1>3. CASE UNCHANGED vars
  <2>1. UNCHANGED <<sysNodes, pcre, regexResults, sortNodes, content, reply, asked>>
    BY <1>3 DEF vars
  <2>2. Typed /\ SortInv /\ ResultsAttributed /\ ReplyComplete
    BY DEF RulesInv
  <2>3. Typed' /\ SortInv'
    BY <2>1, <2>2 DEF Typed, SortInv
  <2>4. ReplyComplete'
    BY <2>1, <2>2, ReplyForm, ReplyFormNext
  <2>5. ResultsAttributed'
    BY <2>1, <2>2 DEF ResultsAttributed, Hits
  <2> QED
    BY <2>3, <2>4, <2>5 DEF RulesInv
<1> QED
  BY <1>1, <1>2, <1>3 DEF Next

LEMMA RulesInvariant == Spec => []RulesInv
<1> QED
  BY RulesInit, RulesStep, PTL DEF Spec

LEMMA TypedOK == Typed => TypeOK
<1> SUFFICES ASSUME Typed PROVE TypeOK
  OBVIOUS
<1> USE DEF Typed
<1>1. ASSUME NEW s \in DOMAIN sysNodes, NEW r \in DOMAIN sysNodes[s].rules
      PROVE  sysNodes[s].rules[r].switch \in {"on", "off"}
  <2>1. sysNodes[s] \in LoadedSystems
    BY ElementOfSeq, LenProperties
  <2> DEFINE rules == sysNodes[s].rules
  <2>2. rules \in Seq(LoadedRules)
    BY <2>1 DEF LoadedSystems, System, LoadedRules
  <2> HIDE DEF rules
  <2>3. \A k \in DOMAIN rules : rules[k] \in LoadedRules
    BY <2>2, ElementOfSeq, LenProperties
  <2>4. r \in DOMAIN rules
    BY DEF rules
  <2>5. rules[r].switch \in {"on", "off"}
    BY <2>3, <2>4 DEF LoadedRules, Rule
  <2> QED
    BY <2>5 DEF rules
<1>2. ASSUME NEW i \in DOMAIN pcre PROVE pcre[i].pattern \in Patterns \ Malformed
  <2>1. pcre[i] \in CompiledSet
    BY ElementOfSeq, LenProperties
  <2> QED
    BY <2>1 DEF CompiledSet
<1>3. ASSUME NEW i \in DOMAIN regexResults
      PROVE  regexResults[i].type \in {"regex", "echo"} /\ regexResults[i].value # NoText
  <2>1. regexResults[i] \in ResultSet
    BY ElementOfSeq, LenProperties
  <2> QED
    BY <2>1 DEF ResultSet, TryTypes, Values
<1> QED
  BY <1>1, <1>2, <1>3 DEF TypeOK

(* Every variable has its type, whatever the rules files hold.             *)
THEOREM TypeCorrect == Spec => []TypeOK
<1>1. RulesInv => TypeOK
  BY TypedOK DEF RulesInv
<1> QED
  BY <1>1, RulesInvariant, PTL

(* excute_regex_rules clears the one Pcre object before each node and the  *)
(* results before each call: a result is that of its own rule.             *)
THEOREM ResultsCorrect == Spec => []ResultsAttributed
<1>1. RulesInv => ResultsAttributed
  BY DEF RulesInv
<1> QED
  BY <1>1, RulesInvariant, PTL

(* The reply says for each call so far, in the order of seqrel, all that   *)
(* the named rules find in this content, and nothing else.                 *)
THEOREM ReplyCorrect == Spec => []ReplyComplete
<1>1. RulesInv => ReplyComplete
  BY DEF RulesInv
<1> QED
  BY <1>1, RulesInvariant, PTL
=============================================================================
