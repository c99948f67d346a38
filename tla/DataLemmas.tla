------------------------------ MODULE DataLemmas ------------------------------
(* Facts the proofs of several modules rest on, and none of them about the *)
(* state of the program: induction on numbers, functions defined by        *)
(* recursion, lists and lists of lists, the arithmetic of a ring, and the  *)
(* counting of sleeping and woken threads.                                 *)
EXTENDS Integers, Sequences, SequencesExt, FiniteSets, TLAPS,
        WellFoundedInduction, SequenceTheorems, FiniteSetTheorems

(* The natural numbers are well ordered; everything proved by induction    *)
(* here takes the smallest number that would be a counterexample.          *)
LEMMA SmallestNat ==
  ASSUME NEW T \in SUBSET Nat, T # {}
  PROVE  \E m \in T : \A n \in T : m <= n
<1>1. \E m \in T : \A n \in T : <<n, m>> \notin OpToRel(<, Nat)
  BY NatLessThanWellFounded, WFMin
<1>2. PICK m \in T : \A n \in T : <<n, m>> \notin OpToRel(<, Nat)
  BY <1>1
<1>3. \A n \in T : ~(n < m)
  BY <1>2 DEF OpToRel
<1> QED
  BY <1>3

LEMMA InductionOnNat ==
  ASSUME NEW G \in SUBSET Nat, 0 \in G, \A n \in G : n + 1 \in G
  PROVE  G = Nat
<1>1. SUFFICES ASSUME Nat \ G # {} PROVE FALSE
  OBVIOUS
<1>2. PICK m \in Nat \ G : \A n \in Nat \ G : m <= n
  BY <1>1, SmallestNat
<1>3. m # 0
  BY <1>2
<1>4. m - 1 \in Nat /\ m - 1 \notin Nat \ G
  BY <1>2, <1>3
<1>5. (m - 1) + 1 \in G
  BY <1>4
<1> QED
  BY <1>2, <1>3, <1>5

(* A value for 0 and a step from each number to the next determine a       *)
(* function on the natural numbers.                                        *)
Follows(f, n, start, step) == f[0] = start /\ \A i \in 0..(n - 1) : f[i + 1] = step[<<i, f[i]>>]
Partial(n, X, start, step) == {f \in [0..n -> X] : Follows(f, n, start, step)}

LEMMA PartialUnique ==
  ASSUME NEW X, NEW start, NEW step, NEW m \in Nat, NEW n \in Nat,
         NEW f \in Partial(m, X, start, step), NEW g \in Partial(n, X, start, step),
         NEW k \in Nat, k <= m, k <= n
  PROVE  f[k] = g[k]
<1> DEFINE G == {i \in Nat : i <= m /\ i <= n => f[i] = g[i]}
<1>1. 0 \in G
  BY DEF Partial, Follows
<1>2. ASSUME NEW i \in G PROVE i + 1 \in G
  <2>1. SUFFICES ASSUME i + 1 <= m, i + 1 <= n PROVE f[i + 1] = g[i + 1]
    BY <1>2
  <2>2. f[i] = g[i] /\ i \in 0..(m - 1) /\ i \in 0..(n - 1)
    BY <1>2, <2>1
  <2> QED
    BY <2>2 DEF Partial, Follows
<1> HIDE DEF G
<1>3. G = Nat
  <2>1. G \in SUBSET Nat
    BY DEF G
  <2> QED
    BY <1>1, <1>2, <2>1, InductionOnNat
<1> QED
  BY <1>3 DEF G

LEMMA PartialExists ==
  ASSUME NEW X, NEW start \in X, NEW step \in [Nat \X X -> X], NEW n \in Nat
  PROVE  Partial(n, X, start, step) # {}
<1> DEFINE G == {i \in Nat : Partial(i, X, start, step) # {}}
<1>1. 0 \in G
  <2>1. [i \in 0..0 |-> start] \in Partial(0, X, start, step)
    BY DEF Partial, Follows
  <2> QED
    BY <2>1
<1>2. ASSUME NEW i \in G PROVE i + 1 \in G
  <2>1. PICK f \in [0..i -> X] : Follows(f, i, start, step)
    BY <1>2 DEF Partial
  <2> DEFINE g == [j \in 0..(i + 1) |-> IF j = i + 1 THEN step[<<i, f[i]>>] ELSE f[j]]
  <2>2. i \in Nat /\ f[i] \in X /\ step[<<i, f[i]>>] \in X
    BY <1>2, <2>1
  <2>3. g \in [0..(i + 1) -> X]
    BY <2>1, <2>2
  <2>4. g[0] = start
    BY <2>1, <2>2 DEF Follows
  <2>5. ASSUME NEW j \in 0..((i + 1) - 1) PROVE g[j + 1] = step[<<j, g[j]>>]
    <3>1. j \in Nat /\ j \in 0..i /\ j + 1 \in 0..(i + 1)
      BY <2>2
    <3>2. g[j] = f[j]
      BY <2>2, <3>1
    <3>3. CASE j = i
      BY <2>2, <3>1, <3>2, <3>3
    <3>4. CASE j # i
      <4>1. j \in 0..(i - 1) /\ j + 1 # i + 1
        BY <2>2, <3>1, <3>4
      <4>2. f[j + 1] = step[<<j, f[j]>>]
        BY <2>1, <4>1 DEF Follows
      <4> QED
        BY <3>1, <3>2, <4>1, <4>2
    <3> QED
      BY <3>3, <3>4
  <2>6. g \in Partial(i + 1, X, start, step)
    BY <2>3, <2>4, <2>5 DEF Partial, Follows
  <2> QED
    BY <2>2, <2>6
<1> HIDE DEF G
<1>3. G = Nat
  <2>1. G \in SUBSET Nat
    BY DEF G
  <2> QED
    BY <1>1, <1>2, <2>1, InductionOnNat
<1> QED
  BY <1>3 DEF G

Iterates(f, start, step) == f[0] = start /\ \A n \in Nat : f[n + 1] = step[<<n, f[n]>>]

LEMMA RecursionOnNat ==
  ASSUME NEW X, NEW start \in X, NEW step \in [Nat \X X -> X]
  PROVE  \E f \in [Nat -> X] : Iterates(f, start, step)
<1> DEFINE part(n) == CHOOSE g \in Partial(n, X, start, step) : TRUE
           f == [n \in Nat |-> part(n)[n]]
<1>1. \A n \in Nat : part(n) \in Partial(n, X, start, step)
  BY PartialExists
<1> HIDE DEF part
<1>2. f \in [Nat -> X]
  BY <1>1 DEF Partial
<1>3. f[0] = start
  BY <1>1 DEF Partial, Follows
<1>4. ASSUME NEW n \in Nat PROVE f[n + 1] = step[<<n, f[n]>>]
  <2>1. part(n) \in Partial(n, X, start, step) /\ part(n + 1) \in Partial(n + 1, X, start, step)
    BY <1>1
  <2>2. part(n)[n] = part(n + 1)[n]
    BY <2>1, PartialUnique
  <2>3. part(n + 1)[n + 1] = step[<<n, part(n + 1)[n]>>]
    BY <2>1 DEF Partial, Follows
  <2> QED
    BY <2>2, <2>3
<1> QED
  BY <1>2, <1>3, <1>4 DEF Iterates

LEMMA StrongInduction ==
  ASSUME NEW G \in SUBSET Nat, \A n \in Nat : (\A k \in 0..(n - 1) : k \in G) => n \in G
  PROVE  G = Nat
<1>1. SUFFICES ASSUME Nat \ G # {} PROVE FALSE
  OBVIOUS
<1>2. PICK m \in Nat \ G : \A n \in Nat \ G : m <= n
  BY <1>1, SmallestNat
<1>3. \A k \in 0..(m - 1) : k \in G
  BY <1>2
<1> QED
  BY <1>2, <1>3

(* A step that looks at any of the earlier values determines a function    *)
(* too.                                                                    *)
LooksBack(step, X) ==
  \A n \in Nat : \A f, g \in [Nat -> X] :
      (\A k \in 0..(n - 1) : f[k] = g[k]) => step[<<n, f>>] = step[<<n, g>>]
ByHistory(f, step) == \A n \in Nat : f[n] = step[<<n, f>>]

LEMMA RecursionOnHistory ==
  ASSUME NEW X, NEW start \in X, NEW step \in [Nat \X [Nat -> X] -> X], LooksBack(step, X)
  PROVE  \E f \in [Nat -> X] : ByHistory(f, step)
<1> DEFINE H == [Nat -> X]
           more == [p \in Nat \X H |-> [p[2] EXCEPT ![p[1]] = step[p]]]
           none == [n \in Nat |-> start]
<1>1. more \in [Nat \X H -> H] /\ none \in H
  OBVIOUS
<1>2. \A n \in Nat, f \in H : more[<<n, f>>] = [f EXCEPT ![n] = step[<<n, f>>]]
  OBVIOUS
<1> HIDE DEF more, none
<1>3. PICK h \in [Nat -> H] : Iterates(h, none, more)
  <2> HIDE DEF H
  <2> QED
    BY <1>1, RecursionOnNat
<1>4. ASSUME NEW n \in Nat PROVE h[n + 1] = [h[n] EXCEPT ![n] = step[<<n, h[n]>>]] /\ h[n] \in H
  <2>1. h[n] \in H /\ h[n + 1] = more[<<n, h[n]>>]
    BY <1>3 DEF Iterates
  <2> QED
    BY <1>2, <2>1
<1> DEFINE F == [n \in Nat |-> h[n + 1][n]]
           G == {m \in Nat : \A n \in 0..(m - 1) : h[m][n] = F[n]}
<1>5. 0 \in G
  OBVIOUS
<1>6. ASSUME NEW m \in G PROVE m + 1 \in G
  <2>1. SUFFICES ASSUME NEW n \in 0..((m + 1) - 1) PROVE h[m + 1][n] = F[n]
    OBVIOUS
  <2>2. m \in Nat /\ n \in Nat
    OBVIOUS
  <2>3. CASE n = m
    BY <2>2, <2>3
  <2>4. CASE n # m
    <3>1. n \in 0..(m - 1)
      BY <2>2, <2>4
    <3>2. h[m + 1][n] = h[m][n]
      BY <1>4, <2>2, <2>4
    <3> QED
      BY <3>1, <3>2
  <2> QED
    BY <2>3, <2>4
<1>7. \A n \in Nat : F[n] = step[<<n, h[n]>>]
  BY <1>4
<1>8. F \in H
  BY <1>4
<1> HIDE DEF G
<1>9. G = Nat
  <2>1. G \in SUBSET Nat
    BY DEF G
  <2> QED
    BY <1>5, <1>6, <2>1, InductionOnNat
<1>10. ASSUME NEW n \in Nat PROVE F[n] = step[<<n, F>>]
  <2>1. \A k \in 0..(n - 1) : h[n][k] = F[k]
    BY <1>9 DEF G
  <2> HIDE DEF F
  <2>2. step[<<n, h[n]>>] = step[<<n, F>>]
    <3>1. h[n] \in [Nat -> X] /\ F \in [Nat -> X]
      BY <1>4, <1>8
    <3>2. \A f, g \in [Nat -> X] :
             (\A k \in 0..(n - 1) : f[k] = g[k]) => step[<<n, f>>] = step[<<n, g>>]
      BY DEF LooksBack
    <3> HIDE DEF H
    <3> QED
      BY <2>1, <3>1, <3>2
  <2> QED
    BY <1>7, <2>2
<1> QED
  BY <1>8, <1>10 DEF ByHistory
-----------------------------------------------------------------------------
(* FlattenSeq, which is a recursive function in its definition, by cases.  *)
Flattens(f, s) ==
  f = [i \in 1..Len(s) |-> IF i = 1 THEN s[i] ELSE f[i - 1] \o s[i]]

LEMMA FlattenExists ==
  ASSUME NEW A, NEW s \in Seq(Seq(A))
  PROVE  \E f \in [1..Len(s) -> Seq(A)] : Flattens(f, s)
<1> DEFINE step == [p \in Nat \X Seq(A) |-> IF p[1] \in 0..(Len(s) - 1)
                      THEN IF p[1] = 0 THEN s[1] ELSE p[2] \o s[p[1] + 1]
                      ELSE p[2]]
<1>1. step \in [Nat \X Seq(A) -> Seq(A)]
  <2>1. ASSUME NEW n \in Nat, NEW x \in Seq(A), n \in 0..(Len(s) - 1)
        PROVE  s[1] \in Seq(A) /\ x \o s[n + 1] \in Seq(A)
    <3>1. n + 1 \in 1..Len(s) /\ 1 \in 1..Len(s)
      BY <2>1, LenProperties
    <3>2. s[1] \in Seq(A) /\ s[n + 1] \in Seq(A)
      BY <3>1, ElementOfSeq
    <3> QED
      BY <3>2, ConcatProperties
  <2> QED
    BY <2>1
<1>2. \A n \in Nat, x \in Seq(A) : step[<<n, x>>] = IF n \in 0..(Len(s) - 1)
                      THEN IF n = 0 THEN s[1] ELSE x \o s[n + 1]
                      ELSE x
  OBVIOUS
<1> HIDE DEF step
<1>3. <<>> \in Seq(A)
  BY EmptySeq
<1>4. PICK g \in [Nat -> Seq(A)] : g[0] = <<>> /\ \A n \in Nat : g[n + 1] = step[<<n, g[n]>>]
  <2>1. \E g \in [Nat -> Seq(A)] : Iterates(g, <<>>, step)
    BY <1>1, <1>3, RecursionOnNat
  <2> QED
    BY <2>1 DEF Iterates
<1> DEFINE f == [i \in 1..Len(s) |-> g[i]]
<1>5. Len(s) \in Nat
  BY LenProperties
<1>6. f \in [1..Len(s) -> Seq(A)]
  BY <1>4, <1>5
<1>7. ASSUME NEW i \in 1..Len(s) PROVE f[i] = IF i = 1 THEN s[i] ELSE f[i - 1] \o s[i]
  <2>1. i - 1 \in Nat /\ i - 1 \in 0..(Len(s) - 1) /\ (i - 1) + 1 = i
    BY <1>5
  <2>2. g[i] = step[<<i - 1, g[i - 1]>>] /\ g[i - 1] \in Seq(A)
    BY <1>4, <2>1
  <2>3. g[i] = IF i - 1 = 0 THEN s[1] ELSE g[i - 1] \o s[(i - 1) + 1]
    BY <1>2, <2>1, <2>2
  <2>4. f[i] = g[i] /\ (i # 1 => f[i - 1] = g[i - 1])
    BY <1>5
  <2> QED
    <3>1. s[(i - 1) + 1] = s[i]
      BY <2>1
    <3>2. i - 1 = 0 <=> i = 1
      BY <1>5
    <3>3. CASE i = 1
      BY <2>3, <2>4, <3>2, <3>3
    <3>4. CASE i # 1
      <4>1. g[i] = g[i - 1] \o s[i]
        BY <2>3, <3>1, <3>2, <3>4
      <4> QED
        BY <2>4, <3>4, <4>1
    <3> QED
      BY <3>3, <3>4
<1>8. Flattens(f, s)
  BY <1>7 DEF Flattens
<1> QED
  BY <1>6, <1>8

LEMMA FlattenIs ==
  ASSUME NEW A, NEW s \in Seq(Seq(A)), s # <<>>
  PROVE  \E f \in [1..Len(s) -> Seq(A)] : Flattens(f, s) /\ FlattenSeq(s) = f[Len(s)]
<1> DEFINE F == CHOOSE f : Flattens(f, s)
<1>1. Flattens(F, s)
  BY FlattenExists
<1>2. F \in [1..Len(s) -> Seq(A)]
  <2>1. PICK g \in [1..Len(s) -> Seq(A)] : Flattens(g, s)
    BY FlattenExists
  <2> DEFINE G == {i \in Nat : i + 1 \in 1..Len(s) => F[i + 1] = g[i + 1]}
  <2>2. 0 \in G
    <3>1. SUFFICES ASSUME 1 \in 1..Len(s) PROVE F[1] = g[1]
      OBVIOUS
    <3>2. F[1] = s[1]
      BY <1>1, <3>1 DEF Flattens
    <3>3. g[1] = s[1]
      BY <2>1, <3>1 DEF Flattens
    <3> QED
      BY <3>2, <3>3
  <2>3. ASSUME NEW i \in G PROVE i + 1 \in G
    <3>1. SUFFICES ASSUME (i + 1) + 1 \in 1..Len(s) PROVE F[(i + 1) + 1] = g[(i + 1) + 1]
      BY <2>3
    <3>2. Len(s) \in Nat /\ i \in Nat
      BY LenProperties, <2>3
    <3>3. F[i + 1] = g[i + 1] /\ (i + 1) + 1 # 1 /\ ((i + 1) + 1) - 1 = i + 1
      BY <2>3, <3>1, <3>2
    <3>4. F[(i + 1) + 1] = F[((i + 1) + 1) - 1] \o s[(i + 1) + 1]
      BY <1>1, <3>1, <3>3 DEF Flattens
    <3>5. g[(i + 1) + 1] = g[((i + 1) + 1) - 1] \o s[(i + 1) + 1]
      BY <2>1, <3>1, <3>3 DEF Flattens
    <3> QED
      BY <3>3, <3>4, <3>5
  <2> HIDE DEF G
  <2>4. G = Nat
    <3>1. G \in SUBSET Nat
      BY DEF G
    <3> QED
      BY <2>2, <2>3, <3>1, InductionOnNat
  <2>5. ASSUME NEW i \in 1..Len(s) PROVE F[i] = g[i]
    <3>1. i - 1 \in Nat /\ (i - 1) + 1 = i
      BY LenProperties
    <3> QED
      BY <2>4, <3>1 DEF G
  <2>6. F = [i \in 1..Len(s) |-> F[i]]
    BY <1>1, ZenonT(60) DEF Flattens
  <2>7. F = [i \in 1..Len(s) |-> g[i]]
    BY <2>5, <2>6
  <2> QED
    BY <2>1, <2>7
<1>3. Len(s) \in Nat /\ Len(s) # 0
  BY EmptySeq, LenProperties
<1>4. FlattenSeq(s) = F[Len(s)]
  BY <1>3 DEF FlattenSeq, Flattens
<1> QED
  BY <1>1, <1>2, <1>4

LEMMA FlattenEmpty == FlattenSeq(<<>>) = <<>>
<1> QED
  BY EmptySeq DEF FlattenSeq

LEMMA FlattenOne ==
  ASSUME NEW A, NEW e \in Seq(A)
  PROVE  FlattenSeq(<<e>>) = e
<1>1. <<e>> \in Seq(Seq(A)) /\ <<e>> # <<>> /\ Len(<<e>>) = 1
  OBVIOUS
<1>2. PICK f \in [1..1 -> Seq(A)] : Flattens(f, <<e>>) /\ FlattenSeq(<<e>>) = f[1]
  BY <1>1, FlattenIs
<1> QED
  BY <1>1, <1>2 DEF Flattens

LEMMA FlattenAppend ==
  ASSUME NEW A, NEW s \in Seq(Seq(A)), NEW e \in Seq(A)
  PROVE  FlattenSeq(Append(s, e)) = FlattenSeq(s) \o e /\ FlattenSeq(s) \in Seq(A)
<1>1. CASE s = <<>>
  <2>1. Append(s, e) = <<e>> /\ FlattenSeq(s) = <<>>
    BY <1>1, FlattenEmpty
  <2>2. <<>> \o e = e /\ <<>> \in Seq(A)
    BY ConcatEmptySeq, EmptySeq
  <2> QED
    BY <2>1, <2>2, FlattenOne
<1>2. CASE s # <<>>
  <2> DEFINE t == Append(s, e)
             n == Len(s)
  <2>1. /\ t \in Seq(Seq(A)) /\ t # <<>> /\ Len(t) = n + 1
        /\ t[n + 1] = e /\ \A i \in 1..n : t[i] = s[i]
    BY AppendProperties
  <2>2. n \in Nat /\ n # 0
    BY <1>2, EmptySeq, LenProperties
  <2> HIDE DEF t
  <2>3. PICK f \in [1..n -> Seq(A)] : Flattens(f, s) /\ FlattenSeq(s) = f[n]
    BY <1>2, FlattenIs
  <2>4. PICK g \in [1..(n + 1) -> Seq(A)] : Flattens(g, t) /\ FlattenSeq(t) = g[n + 1]
    BY <2>1, FlattenIs
  <2> DEFINE G == {i \in Nat : i + 1 \in 1..n => f[i + 1] = g[i + 1]}
  <2>5. 0 \in G
    <3>1. 1 \in 1..n /\ 1 \in 1..Len(t)
      BY <2>1, <2>2
    <3>2. f[1] = s[1] /\ g[1] = t[1]
      BY <2>3, <2>4, <3>1 DEF Flattens
    <3> QED
      BY <2>1, <3>1, <3>2
  <2>6. ASSUME NEW i \in G PROVE i + 1 \in G
    <3>1. SUFFICES ASSUME (i + 1) + 1 \in 1..n PROVE f[(i + 1) + 1] = g[(i + 1) + 1]
      BY <2>6
    <3>2. f[i + 1] = g[i + 1] /\ (i + 1) + 1 # 1 /\ ((i + 1) + 1) - 1 = i + 1
          /\ (i + 1) + 1 \in 1..Len(t)
      BY <2>1, <2>2, <2>6, <3>1, SMTT(30)
    <3>3. f[(i + 1) + 1] = f[((i + 1) + 1) - 1] \o s[(i + 1) + 1]
      BY <2>3, <3>1, <3>2 DEF Flattens
    <3>4. g[(i + 1) + 1] = g[((i + 1) + 1) - 1] \o t[(i + 1) + 1]
      BY <2>4, <3>2 DEF Flattens
    <3> QED
      BY <2>1, <3>1, <3>2, <3>3, <3>4
  <2> HIDE DEF G
  <2>7. G = Nat
    <3>1. G \in SUBSET Nat
      BY DEF G
    <3> QED
      BY <2>5, <2>6, <3>1, InductionOnNat
  <2>8. f[n] = g[n]
    <3>1. n - 1 \in Nat /\ (n - 1) + 1 = n /\ n \in 1..n
      BY <2>2
    <3>2. n - 1 \in G
      BY <2>7, <3>1
    <3>3. (n - 1) + 1 \in 1..n => f[(n - 1) + 1] = g[(n - 1) + 1]
      BY <3>2 DEF G
    <3> QED
      BY <3>1, <3>3
  <2>9. g[n + 1] = g[n] \o t[n + 1]
    <3>1. n + 1 \in 1..Len(t) /\ n + 1 # 1 /\ (n + 1) - 1 = n
      BY <2>1, <2>2
    <3>2. g[n + 1] = g[(n + 1) - 1] \o t[n + 1]
      BY <2>4, <3>1 DEF Flattens
    <3> QED
      BY <3>1, <3>2
  <2>10. FlattenSeq(t) = FlattenSeq(s) \o e
    BY <2>1, <2>3, <2>4, <2>8, <2>9
  <2>11. FlattenSeq(s) \in Seq(A)
    <3>1. n \in 1..n
      BY <2>2
    <3> QED
      BY <2>3, <3>1
  <2> QED
    BY <2>10, <2>11 DEF t
<1> QED
  BY <1>1, <1>2

-----------------------------------------------------------------------------
(* A ring of n slots with c elements from head h on and tail t.            *)

LEMMA RingDequeue ==
  ASSUME NEW n \in Nat \ {0}, NEW h \in 0..(n - 1), NEW c \in 1..n,
         NEW t \in 0..(n - 1), t = (h + c) % n
  PROVE  /\ (h + 1) % n \in 0..(n - 1)
         /\ t = (((h + 1) % n) + (c - 1)) % n
         /\ (h + 1) % n = t <=> c = 1
<1> DEFINE g == (h + 1) % n
<1>1. t = IF h + c < n THEN h + c ELSE h + c - n
  OBVIOUS
<1>2. g = IF h + 1 < n THEN h + 1 ELSE h + 1 - n
  OBVIOUS
<1>3. g \in 0..(n - 1)
  BY <1>2
<1> HIDE DEF g
<1>4. (g + (c - 1)) % n = IF g + (c - 1) < n THEN g + (c - 1) ELSE g + (c - 1) - n
  BY <1>3
<1>5. t = (g + (c - 1)) % n /\ (g = t <=> c = 1)
  BY <1>1, <1>2, <1>3, <1>4
<1> QED
  BY <1>3, <1>5 DEF g

LEMMA RingEnds ==
  ASSUME NEW n \in Nat \ {0}, NEW h \in 0..(n - 1), NEW c \in 0..n
  PROVE  h = (h + c) % n <=> c = 0 \/ c = n
<1>1. (h + c) % n = IF h + c < n THEN h + c ELSE h + c - n
  OBVIOUS
<1> QED
  BY <1>1

LEMMA RingFree ==
  ASSUME NEW n \in Nat \ {0}, NEW h \in 0..(n - 1), NEW c \in 0..(n - 1), NEW i \in 1..c
  PROVE  (h + i - 1) % n \in 0..(n - 1) /\ (h + i - 1) % n # (h + c) % n
<1>1. (h + c) % n = IF h + c < n THEN h + c ELSE h + c - n
  OBVIOUS
<1>2. h + i - 1 \in 0..(2 * n - 2)
  OBVIOUS
<1>3. (h + i - 1) % n = IF h + i - 1 < n THEN h + i - 1 ELSE h + i - 1 - n
  BY <1>2
<1> QED
  BY <1>1, <1>2, <1>3

LEMMA RingShift ==
  ASSUME NEW n \in Nat \ {0}, NEW h \in 0..(n - 1), NEW i \in 1..n
  PROVE  (((h + 1) % n) + i - 1) % n = (h + (i + 1) - 1) % n
<1> DEFINE g == (h + 1) % n
<1>1. g = IF h + 1 < n THEN h + 1 ELSE 0
  OBVIOUS
<1>2. CASE h + 1 < n
  BY <1>1, <1>2
<1>3. CASE h + 1 = n
  <2>1. (g + i - 1) % n = (i - 1) % n /\ h + (i + 1) - 1 = (i - 1) + n
    BY <1>1, <1>3
  <2>2. i - 1 \in 0..(n - 1)
    OBVIOUS
  <2>3. (i - 1) % n = i - 1 /\ ((i - 1) + n) % n = i - 1
    BY <2>2
  <2> QED
    BY <2>1, <2>3
<1> QED
  BY <1>2, <1>3

-----------------------------------------------------------------------------
(* Sleepers W are covered for n items by the woken threads K.              *)

Cover(W, K, n) == W = {} \/ n <= Cardinality(K)

LEMMA CoverKeep ==
  ASSUME NEW W, NEW K, NEW V, NEW L, NEW n \in Nat,
         Cover(W, K, n), V \subseteq W, K \subseteq L, IsFiniteSet(L)
  PROVE  Cover(V, L, n)
<1>1. IsFiniteSet(K) /\ Cardinality(K) <= Cardinality(L)
  BY FS_Subset
<1>2. Cardinality(K) \in Nat /\ Cardinality(L) \in Nat
  BY <1>1, FS_CardinalityType
<1> QED
  BY <1>1, <1>2 DEF Cover

LEMMA CoverSignal ==
  ASSUME NEW W, NEW K, NEW w, NEW V, NEW n \in Nat,
         Cover(W, K, n), W # {}, w \notin K, IsFiniteSet(K)
  PROVE  Cover(V, K \cup {w}, n + 1)
<1>1. Cardinality(K \cup {w}) = Cardinality(K) + 1 /\ Cardinality(K) \in Nat
  BY FS_AddElement, FS_CardinalityType
<1> QED
  BY <1>1 DEF Cover

LEMMA CoverTake ==
  ASSUME NEW W, NEW K, NEW t, NEW V, NEW L, NEW n \in Nat,
         Cover(W, K, n + 1), V \subseteq W, K \ {t} \subseteq L,
         IsFiniteSet(K), IsFiniteSet(L)
  PROVE  Cover(V, L, n)
<1>1. Cardinality(K) <= Cardinality(K \ {t}) + 1 /\ IsFiniteSet(K \ {t})
  <2> Cardinality(K) \in Nat
    BY FS_CardinalityType
  <2>1. CASE t \in K
    <3>1. Cardinality(K \ {t}) = Cardinality(K) - 1 /\ IsFiniteSet(K \ {t})
      BY <2>1, FS_RemoveElement
    <3> QED
      BY <3>1
  <2>2. CASE t \notin K
    <3>1. K \ {t} = K
      BY <2>2
    <3> QED
      BY <3>1
  <2> QED
    BY <2>1, <2>2
<1>2. Cardinality(K \ {t}) <= Cardinality(L)
  BY FS_Subset
<1>3. /\ Cardinality(K) \in Nat /\ Cardinality(L) \in Nat
      /\ Cardinality(K \ {t}) \in Nat
  BY <1>1, FS_CardinalityType
<1> QED
  BY <1>1, <1>2, <1>3 DEF Cover

-----------------------------------------------------------------------------
(* The least number of a set.                                              *)
LEMMA MinIs ==
  ASSUME NEW S \in SUBSET Int, NEW m \in S, \A n \in S : m <= n
  PROVE  Min(S) = m
<1>1. Min(S) \in S /\ \A n \in S : Min(S) <= n
  BY DEF Min
<1>2. Min(S) \in Int /\ m \in Int /\ Min(S) <= m /\ m <= Min(S)
  BY <1>1
<1> QED
  BY <1>2

-----------------------------------------------------------------------------
(* Lists: induction on them, and lists that are joined.                    *)
LEMMA FrontAndLast ==
  ASSUME NEW A, NEW t \in Seq(A), NEW n \in Nat, Len(t) = n + 1
  PROVE  /\ SubSeq(t, 1, n) \in Seq(A) /\ Len(SubSeq(t, 1, n)) = n /\ t[n + 1] \in A
         /\ t = Append(SubSeq(t, 1, n), t[n + 1])
<1> DEFINE s == SubSeq(t, 1, n)
           e == t[n + 1]
           u == Append(s, e)
<1>1. \A i \in 1..(n + 1) : t[i] \in A
  BY ElementOfSeq
<1>2. n + 1 \in 1..(n + 1) /\ \A i \in 1..n : i \in 1..(n + 1)
  OBVIOUS
<1>3. s \in Seq(A) /\ Len(s) = n /\ \A i \in 1..n : s[i] = t[i]
  BY <1>1, <1>2, SubSeqProperties
<1>4. e \in A
  BY <1>1, <1>2
<1> HIDE DEF s, e
<1>5. u \in Seq(A) /\ Len(u) = n + 1 /\ u[n + 1] = e /\ \A i \in 1..n : u[i] = s[i]
  BY <1>3, <1>4, AppendProperties
<1> HIDE DEF u
<1>6. \A i \in 1..(n + 1) : u[i] = t[i]
  <2>1. u[n + 1] = t[n + 1]
    BY <1>5 DEF e
  <2>2. \A i \in 1..n : u[i] = t[i]
    BY <1>3, <1>5
  <2>3. \A i \in 1..(n + 1) : i \in 1..n \/ i = n + 1
    OBVIOUS
  <2> QED
    BY <2>1, <2>2, <2>3
<1>7. u = t
  BY <1>5, <1>6, SeqEqual
<1> QED
  BY <1>3, <1>4, <1>7 DEF s, e, u

LEMMA SeqInduction ==
  ASSUME NEW A, NEW G \in SUBSET Seq(A), <<>> \in G, \A s \in G : \A e \in A : Append(s, e) \in G
  PROVE  \A s \in Seq(A) : s \in G
<1> DEFINE H == {n \in Nat : \A s \in Seq(A) : Len(s) = n => s \in G}
<1>1. 0 \in H
  BY EmptySeq
<1>2. ASSUME NEW n \in H PROVE n + 1 \in H
  <2>1. SUFFICES ASSUME NEW t \in Seq(A), Len(t) = n + 1 PROVE t \in G
    OBVIOUS
  <2> DEFINE s == SubSeq(t, 1, n)
             e == t[n + 1]
  <2>2. n \in Nat
    OBVIOUS
  <2>3. s \in Seq(A) /\ Len(s) = n /\ e \in A /\ t = Append(s, e)
    BY <2>1, <2>2, FrontAndLast
  <2> HIDE DEF s, e
  <2>4. s \in G
    BY <2>3
  <2> QED
    BY <2>3, <2>4
<1> HIDE DEF H
<1>3. H = Nat
  <2>1. H \in SUBSET Nat
    BY DEF H
  <2> QED
    BY <1>1, <1>2, <2>1, InductionOnNat
<1> QED
  BY <1>3, LenProperties DEF H

LEMMA FlattenType ==
  ASSUME NEW A, NEW ss \in Seq(Seq(A))
  PROVE  FlattenSeq(ss) \in Seq(A)
<1>1. <<>> \in Seq(A)
  BY EmptySeq
<1> QED
  BY <1>1, FlattenAppend

LEMMA AppendConcat ==
  ASSUME NEW A, NEW s \in Seq(A), NEW t \in Seq(A), NEW e \in A
  PROVE  s \o Append(t, e) = Append(s \o t, e)
<1> DEFINE u == s \o t
           v == Append(t, e)
           w == s \o v
           x == Append(u, e)
<1>1. u \in Seq(A) /\ Len(u) = Len(s) + Len(t)
      /\ \A i \in 1..(Len(s) + Len(t)) : u[i] = IF i <= Len(s) THEN s[i] ELSE t[i - Len(s)]
  BY ConcatProperties
<1>2. v \in Seq(A) /\ Len(v) = Len(t) + 1 /\ v[Len(t) + 1] = e /\ \A i \in 1..Len(t) : v[i] = t[i]
  BY AppendProperties
<1>a. u \in Seq(A) /\ v \in Seq(A)
  BY <1>1, <1>2
<1> HIDE DEF u, v
<1>3. w \in Seq(A) /\ Len(w) = Len(s) + Len(v)
      /\ \A i \in 1..(Len(s) + Len(v)) : w[i] = IF i <= Len(s) THEN s[i] ELSE v[i - Len(s)]
  BY <1>a, ConcatProperties
<1>4. x \in Seq(A) /\ Len(x) = Len(u) + 1 /\ x[Len(u) + 1] = e /\ \A i \in 1..Len(u) : x[i] = u[i]
  BY <1>a, AppendProperties
<1>5. Len(s) \in Nat /\ Len(t) \in Nat
  BY LenProperties
<1> HIDE DEF w, x
<1>6. Len(w) = Len(x)
  BY <1>1, <1>2, <1>3, <1>4, <1>5
<1>7. ASSUME NEW i \in 1..Len(w) PROVE w[i] = x[i]
  <2>0. i \in 1..(Len(s) + Len(v))
    BY <1>3
  <2>1. CASE i <= Len(s)
    <3>1. i \in 1..Len(u) /\ i \in 1..(Len(s) + Len(t))
      BY <1>1, <1>5, <2>0, <2>1
    <3>2. w[i] = s[i]
      BY <1>3, <2>0, <2>1
    <3>3. x[i] = u[i]
      BY <1>4, <3>1
    <3>4. u[i] = s[i]
      BY <1>1, <2>1, <3>1
    <3> QED
      BY <3>2, <3>3, <3>4
  <2>2. CASE Len(s) < i /\ i <= Len(s) + Len(t)
    <3>1. i - Len(s) \in 1..Len(t) /\ i \in 1..Len(u) /\ i \in 1..(Len(s) + Len(t))
          /\ ~(i <= Len(s))
      BY <1>1, <1>5, <2>0, <2>2
    <3>2. w[i] = v[i - Len(s)]
      BY <1>3, <2>0, <3>1
    <3>3. v[i - Len(s)] = t[i - Len(s)]
      BY <1>2, <3>1
    <3>4. x[i] = u[i]
      BY <1>4, <3>1
    <3>5. u[i] = t[i - Len(s)]
      BY <1>1, <3>1
    <3> QED
      BY <3>2, <3>3, <3>4, <3>5
  <2>3. CASE i = Len(s) + Len(t) + 1
    <3>1. i - Len(s) = Len(t) + 1 /\ ~(i <= Len(s)) /\ i = Len(u) + 1
      BY <1>1, <1>5, <2>3
    <3> QED
      BY <1>2, <1>3, <1>4, <3>1
  <2> QED
    BY <1>2, <1>3, <1>5, <2>1, <2>2, <2>3
<1>8. w = x
  BY <1>3, <1>4, <1>6, <1>7, SeqEqual
<1> QED
  BY <1>8 DEF w, x, u, v

(* What is in a flattened list is in one of its parts.                     *)
LEMMA InFlatten ==
  ASSUME NEW A, NEW ss \in Seq(Seq(A)), NEW x, x \in ToSet(FlattenSeq(ss))
  PROVE  \E i \in DOMAIN ss : x \in ToSet(ss[i])
<1> DEFINE B == Seq(A)
           G == {tt \in Seq(B) : \A y \in ToSet(FlattenSeq(tt)) : \E i \in DOMAIN tt : y \in ToSet(tt[i])}
<1>1. <<>> \in G
  <2>1. <<>> \in Seq(B) /\ ToSet(<<>>) = {}
    BY EmptySeq DEF ToSet
  <2> QED
    BY <2>1, FlattenEmpty
<1>2. ASSUME NEW tt \in G, NEW e \in B PROVE Append(tt, e) \in G
  <2> DEFINE uu == Append(tt, e)
             a == FlattenSeq(tt)
  <2>1. FlattenSeq(uu) = a \o e /\ a \in Seq(A)
    BY <1>2, FlattenAppend
  <2>2. tt \in Seq(B) /\ e \in B
    BY <1>2
  <2>3. \A y \in ToSet(a) : \E i \in DOMAIN tt : y \in ToSet(tt[i])
    BY <1>2
  <2> HIDE DEF B, G
  <2>4. /\ uu \in Seq(B) /\ Len(uu) = Len(tt) + 1
        /\ uu[Len(tt) + 1] = e /\ \A i \in 1..Len(tt) : uu[i] = tt[i]
    BY <2>2, AppendProperties
  <2>5. DOMAIN tt = 1..Len(tt) /\ DOMAIN uu = 1..(Len(tt) + 1) /\ Len(tt) \in Nat
    BY <2>2, <2>4, LenProperties
  <2> HIDE DEF uu, a
  <2>6. ASSUME NEW y \in ToSet(a \o e) PROVE y \in ToSet(a) \/ y \in ToSet(e)
    <3>1. e \in Seq(A)
      BY <2>2 DEF B
    <3> DEFINE w == a \o e
    <3>2. w \in Seq(A) /\ Len(w) = Len(a) + Len(e)
          /\ \A j \in 1..(Len(a) + Len(e)) : w[j] = IF j <= Len(a) THEN a[j] ELSE e[j - Len(a)]
      BY <2>1, <3>1, ConcatProperties
    <3>3. DOMAIN w = 1..Len(w) /\ DOMAIN a = 1..Len(a) /\ DOMAIN e = 1..Len(e)
          /\ Len(a) \in Nat /\ Len(e) \in Nat
      BY <2>1, <3>1, <3>2, LenProperties
    <3>4. PICK j \in DOMAIN w : w[j] = y
      BY <2>6 DEF ToSet
    <3> HIDE DEF w
    <3>5. CASE j <= Len(a)
      BY <3>2, <3>3, <3>4, <3>5 DEF ToSet
    <3>6. CASE ~(j <= Len(a))
      <4>1. j - Len(a) \in 1..Len(e)
        BY <3>2, <3>3, <3>6
      <4> QED
        BY <3>2, <3>3, <3>4, <3>6, <4>1 DEF ToSet
    <3> QED
      BY <3>5, <3>6
  <2>7. ASSUME NEW y \in ToSet(FlattenSeq(uu)) PROVE \E i \in DOMAIN uu : y \in ToSet(uu[i])
    <3>1. y \in ToSet(a) \/ y \in ToSet(e)
      BY <2>1, <2>6, <2>7
    <3>2. CASE y \in ToSet(a)
      <4>1. PICK i \in DOMAIN tt : y \in ToSet(tt[i])
        BY <2>3, <3>2
      <4> QED
        BY <2>4, <2>5, <4>1
    <3>3. CASE y \in ToSet(e)
      BY <2>4, <2>5, <3>3
    <3> QED
      BY <3>1, <3>2, <3>3
  <2> QED
    BY <2>4, <2>7 DEF uu, G
<1> HIDE DEF G
<1>3. G \in SUBSET Seq(B)
  BY DEF G
<1>4. ss \in G
  <2>1. ss \in Seq(B)
    OBVIOUS
  <2> HIDE DEF B
  <2> QED
    BY <1>1, <1>2, <1>3, <2>1, SeqInduction
<1> QED
  BY <1>4 DEF G

-----------------------------------------------------------------------------
(* The values of a function on a list, and those values joined.            *)
Maps(A, B) == [A -> B]
Each(g, s) == [i \in DOMAIN s |-> g[s[i]]]
Mapped(g, s) == FlattenSeq(Each(g, s))

LEMMA EachType ==
  ASSUME NEW A, NEW B, NEW g \in Maps(A, B), NEW s \in Seq(A)
  PROVE  Each(g, s) \in Seq(B) /\ Len(Each(g, s)) = Len(s)
         /\ \A i \in 1..Len(s) : Each(g, s)[i] = g[s[i]]
<1>1. Len(s) \in Nat /\ DOMAIN s = 1..Len(s) /\ \A i \in 1..Len(s) : s[i] \in A
  BY LenProperties, ElementOfSeq
<1> QED
  BY <1>1 DEF Each, Maps

LEMMA EachAppend ==
  ASSUME NEW A, NEW B, NEW g \in Maps(A, B), NEW s \in Seq(A), NEW e \in A
  PROVE  Each(g, Append(s, e)) = Append(Each(g, s), g[e])
<1> DEFINE t == Append(s, e)
           u == Each(g, s)
           v == Append(u, g[e])
           w == Each(g, t)
<1>1. t \in Seq(A) /\ Len(t) = Len(s) + 1 /\ t[Len(s) + 1] = e /\ \A i \in 1..Len(s) : t[i] = s[i]
  BY AppendProperties
<1>2. u \in Seq(B) /\ Len(u) = Len(s) /\ \A i \in 1..Len(s) : u[i] = g[s[i]]
  <2> HIDE DEF t, u, v, w
  <2>1. /\ Each(g, s) \in Seq(B) /\ Len(Each(g, s)) = Len(s)
        /\ \A i \in 1..Len(s) : Each(g, s)[i] = g[s[i]]
    BY EachType
  <2> QED
    BY <2>1 DEF u
<1> HIDE DEF t, u
<1>3. w \in Seq(B) /\ Len(w) = Len(t) /\ \A i \in 1..Len(t) : w[i] = g[t[i]]
  <2>1. t \in Seq(A)
    BY <1>1
  <2> HIDE DEF v, w
  <2>2. /\ Each(g, t) \in Seq(B) /\ Len(Each(g, t)) = Len(t)
        /\ \A i \in 1..Len(t) : Each(g, t)[i] = g[t[i]]
    BY <2>1, EachType
  <2> QED
    BY <2>2 DEF w
<1>4. g[e] \in B
  BY DEF Maps
<1>5. v \in Seq(B) /\ Len(v) = Len(u) + 1 /\ v[Len(u) + 1] = g[e]
      /\ \A i \in 1..Len(u) : v[i] = u[i]
  BY <1>2, <1>4, AppendProperties
<1>6. Len(s) \in Nat
  BY LenProperties
<1> HIDE DEF v, w
<1>7. \A i \in 1..(Len(s) + 1) : i \in 1..Len(s) \/ i = Len(s) + 1
  BY <1>6
<1>a. \A i \in 1..Len(s) : i \in 1..(Len(s) + 1)
  BY <1>6
<1>b. Len(s) + 1 \in 1..(Len(s) + 1)
  BY <1>6
<1>8. ASSUME NEW i \in 1..Len(s) PROVE w[i] = v[i]
  <2>1. i \in 1..Len(t) /\ i \in 1..Len(u)
    BY <1>1, <1>2, <1>a
  <2>2. w[i] = g[t[i]] /\ v[i] = u[i]
    BY <1>3, <1>5, <2>1
  <2> QED
    BY <1>1, <1>2, <2>2
<1>9. w[Len(s) + 1] = v[Len(s) + 1]
  BY <1>1, <1>2, <1>3, <1>5, <1>b
<1>10. \A i \in 1..Len(w) : w[i] = v[i]
  BY <1>1, <1>3, <1>7, <1>8, <1>9
<1>11. Len(w) = Len(v)
  BY <1>1, <1>2, <1>3, <1>5
<1>12. w = v
  BY <1>3, <1>5, <1>10, <1>11, SeqEqual
<1> QED
  BY <1>12 DEF w, v, t, u

LEMMA EachEmpty ==
  ASSUME NEW g
  PROVE  Each(g, <<>>) = <<>>
BY DEF Each

LEMMA MappedEmpty ==
  ASSUME NEW g
  PROVE  Mapped(g, <<>>) = <<>>
BY EachEmpty, FlattenEmpty DEF Mapped

LEMMA MappedType ==
  ASSUME NEW A, NEW B, NEW g \in Maps(A, Seq(B)), NEW s \in Seq(A)
  PROVE  Mapped(g, s) \in Seq(B)
<1>1. Each(g, s) \in Seq(Seq(B))
  BY EachType
<1> QED
  BY <1>1, FlattenType DEF Mapped

LEMMA MappedAppend ==
  ASSUME NEW A, NEW B, NEW g \in Maps(A, Seq(B)), NEW s \in Seq(A), NEW e \in A
  PROVE  Mapped(g, Append(s, e)) = Mapped(g, s) \o g[e]
<1>1. Each(g, s) \in Seq(Seq(B)) /\ g[e] \in Seq(B)
  BY EachType DEF Maps
<1>2. Each(g, Append(s, e)) = Append(Each(g, s), g[e])
  BY EachAppend
<1> QED
  BY <1>1, <1>2, FlattenAppend DEF Mapped

LEMMA MappedOne ==
  ASSUME NEW A, NEW B, NEW g \in Maps(A, Seq(B)), NEW e \in A
  PROVE  Mapped(g, <<e>>) = g[e]
<1>1. <<>> \in Seq(A) /\ <<e>> = Append(<<>>, e) /\ g[e] \in Seq(B)
  BY EmptySeq DEF Maps
<1>2. Mapped(g, Append(<<>>, e)) = Mapped(g, <<>>) \o g[e]
  BY <1>1, MappedAppend
<1>3. Mapped(g, <<>>) = <<>>
  BY MappedEmpty
<1>4. <<>> \o g[e] = g[e]
  BY <1>1, ConcatEmptySeq
<1> QED
  BY <1>1, <1>2, <1>3, <1>4

LEMMA MappedConcat ==
  ASSUME NEW A, NEW B, NEW g \in Maps(A, Seq(B)), NEW s \in Seq(A), NEW t \in Seq(A)
  PROVE  Mapped(g, s \o t) = Mapped(g, s) \o Mapped(g, t)
<1> DEFINE G == {u \in Seq(A) : Mapped(g, s \o u) = Mapped(g, s) \o Mapped(g, u)}
<1>1. <<>> \in G
  <2>1. <<>> \in Seq(A) /\ s \o <<>> = s /\ Mapped(g, s) \in Seq(B)
    BY EmptySeq, ConcatEmptySeq, MappedType
  <2>2. Mapped(g, s) \o Mapped(g, <<>>) = Mapped(g, s)
    BY <2>1, ConcatEmptySeq, MappedEmpty
  <2> QED
    BY <2>1, <2>2
<1>2. ASSUME NEW u \in G, NEW e \in A PROVE Append(u, e) \in G
  <2>1. u \in Seq(A) /\ Mapped(g, s \o u) = Mapped(g, s) \o Mapped(g, u)
    BY <1>2
  <2> HIDE DEF G
  <2>2. Append(u, e) \in Seq(A)
    BY <2>1, AppendProperties
  <2>3. s \o u \in Seq(A) /\ s \o Append(u, e) = Append(s \o u, e)
    BY <2>1, AppendConcat, ConcatProperties
  <2>4. /\ Mapped(g, Append(s \o u, e)) = Mapped(g, s \o u) \o g[e]
        /\ Mapped(g, Append(u, e)) = Mapped(g, u) \o g[e]
    BY <2>1, <2>3, MappedAppend
  <2>5. Mapped(g, s) \in Seq(B) /\ Mapped(g, u) \in Seq(B) /\ g[e] \in Seq(B)
    BY <2>1, MappedType DEF Maps
  <2>6. (Mapped(g, s) \o Mapped(g, u)) \o g[e] = Mapped(g, s) \o (Mapped(g, u) \o g[e])
    <3> DEFINE x == Mapped(g, s)
               y == Mapped(g, u)
               z == g[e]
    <3>1. x \in Seq(B) /\ y \in Seq(B) /\ z \in Seq(B)
      BY <2>5
    <3> HIDE DEF x, y, z
    <3>2. (x \o y) \o z = x \o (y \o z)
      BY <3>1, ConcatAssociative, SMTT(30)
    <3> QED
      BY <3>2 DEF x, y, z
  <2> QED
    BY <2>1, <2>2, <2>3, <2>4, <2>6 DEF G
<1> HIDE DEF G
<1>3. G \in SUBSET Seq(A)
  BY DEF G
<1>4. t \in G
  BY <1>1, <1>2, <1>3, SeqInduction
<1> QED
  BY <1>4 DEF G

(* A list of lists that is mapped: joined first, or afterwards.            *)
MappedEach(g, ss) == [i \in DOMAIN ss |-> Mapped(g, ss[i])]

LEMMA MappedFlatten ==
  ASSUME NEW A, NEW B, NEW g \in Maps(A, Seq(B)), NEW ss \in Seq(Seq(A))
  PROVE  Mapped(g, FlattenSeq(ss)) = FlattenSeq(MappedEach(g, ss))
<1> DEFINE S == Seq(A)
           h == [u \in S |-> Mapped(g, u)]
           G == {tt \in Seq(S) : Mapped(g, FlattenSeq(tt)) = Mapped(h, tt)}
<1>1. h \in Maps(S, Seq(B)) /\ \A u \in S : h[u] = Mapped(g, u)
  BY MappedType DEF Maps
<1> HIDE DEF h
<1>2. <<>> \in G
  <2>1. <<>> \in Seq(S)
    BY EmptySeq
  <2> QED
    BY <2>1, FlattenEmpty, MappedEmpty
<1>3. ASSUME NEW tt \in G, NEW e \in S PROVE Append(tt, e) \in G
  <2>1. tt \in Seq(S) /\ Mapped(g, FlattenSeq(tt)) = Mapped(h, tt)
    BY <1>3
  <2>2. Append(tt, e) \in Seq(S)
    BY <2>1, AppendProperties
  <2>3. FlattenSeq(Append(tt, e)) = FlattenSeq(tt) \o e /\ FlattenSeq(tt) \in Seq(A)
    BY <2>1, FlattenAppend
  <2>4. Mapped(g, FlattenSeq(tt) \o e) = Mapped(g, FlattenSeq(tt)) \o Mapped(g, e)
    <3>1. FlattenSeq(tt) \in Seq(A) /\ e \in Seq(A)
      BY <2>3
    <3> HIDE DEF S, G
    <3> QED
      BY <3>1, MappedConcat
  <2>5. Mapped(h, Append(tt, e)) = Mapped(h, tt) \o h[e]
    BY <1>1, <2>1, MappedAppend
  <2> QED
    BY <1>1, <2>1, <2>2, <2>3, <2>4, <2>5
<1> HIDE DEF G
<1>4. G \in SUBSET Seq(S)
  BY DEF G
<1>5. ss \in Seq(S)
  OBVIOUS
<1>a. Each(h, ss) = MappedEach(g, ss)
  <2>1. DOMAIN ss = 1..Len(ss) /\ \A i \in 1..Len(ss) : ss[i] \in S
    BY <1>5, ElementOfSeq, LenProperties
  <2> QED
    BY <1>1, <2>1 DEF Each, MappedEach
<1> HIDE DEF S
<1>6. ss \in G
  BY <1>2, <1>3, <1>4, <1>5, SeqInduction
<1> QED
  BY <1>6, <1>a DEF G, Mapped

(* Mapped twice is mapped once.                                            *)
LEMMA MappedTwice ==
  ASSUME NEW A, NEW B, NEW C, NEW g \in Maps(A, Seq(B)), NEW h \in Maps(B, Seq(C)),
         NEW s \in Seq(A)
  PROVE  Mapped(h, Mapped(g, s)) = Mapped([a \in A |-> Mapped(h, g[a])], s)
<1> DEFINE ss == Each(g, s)
           k == [a \in A |-> Mapped(h, g[a])]
<1>1. ss \in Seq(Seq(B)) /\ Len(ss) = Len(s) /\ \A i \in 1..Len(s) : ss[i] = g[s[i]]
  <2> HIDE DEF ss, k
  <2>1. /\ Each(g, s) \in Seq(Seq(B)) /\ Len(Each(g, s)) = Len(s)
        /\ \A i \in 1..Len(s) : Each(g, s)[i] = g[s[i]]
    BY EachType
  <2> QED
    BY <2>1 DEF ss
<1>2. Mapped(h, FlattenSeq(ss)) = FlattenSeq(MappedEach(h, ss))
  BY <1>1, MappedFlatten
<1>3. DOMAIN ss = 1..Len(s) /\ DOMAIN s = 1..Len(s) /\ \A i \in 1..Len(s) : s[i] \in A
  BY <1>1, ElementOfSeq, LenProperties
<1> HIDE DEF ss
<1>4. MappedEach(h, ss) = Each(k, s)
  BY <1>1, <1>3 DEF MappedEach, Each
<1> QED
  BY <1>2, <1>4 DEF Mapped, ss
=============================================================================
