----------------------- MODULE BlockReassembly_proofs -----------------------
(* Proofs about the parse threads.  BlockReassembly: what a lost block or  *)
(* one that overtakes another can damage, for any number of parse threads  *)
(* and contents.  Shutdown: how those threads and the others end.          *)
EXTENDS BlockReassembly, Shutdown, DataLemmas

-----------------------------------------------------------------------------
(* A content of len bytes and its blocks.                                  *)

ByteSet == Nat \X Nat
Contents == [type : Types, cnt : Seq(ByteSet)]

LEMMA Monotone ==
  ASSUME NEW a \in Nat, NEW b \in Nat, NEW n \in Nat, a <= b
  PROVE  a * n <= b * n
<1> QED
  OBVIOUS

(* All blocks but the last are full, and the last is not empty.            *)
LEMMA TotalBounds ==
  ASSUME NEW len \in Nat \ {0}
  PROVE  /\ Total(len) \in Nat \ {0}
         /\ len <= Total(len) * BlockSize
         /\ (Total(len) - 1) * BlockSize < len
<1>1. BlockSize \in Nat \ {0}
  BY SizeAssumption
<1> DEFINE q == (len + BlockSize - 1) \div BlockSize
<1>2. q \in Int /\ q * BlockSize <= len + BlockSize - 1
      /\ len + BlockSize - 1 < q * BlockSize + BlockSize
  BY <1>1
<1>3. Total(len) = q
  BY DEF Total
<1> HIDE DEF q
<1>4. (q - 1) * BlockSize = q * BlockSize - BlockSize
  BY <1>1, <1>2
<1>5. q > 0
  BY <1>1, <1>2
<1> QED
  BY <1>1, <1>2, <1>3, <1>4, <1>5

(* What all blocks of content k bring to the parsers, and the first i.     *)
Arrived(len) == IF len <= BlockSize THEN len ELSE Total(len) * BlockSize
Arriving(k, len) == [p \in 1..Arrived(len) |-> ByteAt(k, len, p)]
Prefix(k, len, i) == SubSeq(Arriving(k, len), 1, Lowest(i * BlockSize, Arrived(len)))

(* A content that fits one block has one, and only a longer one has stale  *)
(* bytes.                                                                  *)
LEMMA ArrivedBounds ==
  ASSUME NEW len \in Nat \ {0}
  PROVE  /\ Arrived(len) \in Nat /\ len <= Arrived(len)
         /\ Arrived(len) <= Total(len) * BlockSize
         /\ (Total(len) - 1) * BlockSize < Arrived(len)
         /\ len <= BlockSize => Total(len) = 1
         /\ len > BlockSize => Arrived(len) = (Total(len) - 1) * BlockSize + BlockSize
<1> DEFINE m == Total(len) * BlockSize
           h == (Total(len) - 1) * BlockSize
<1>1. BlockSize \in Nat \ {0} /\ Total(len) \in Nat \ {0}
  BY SizeAssumption, TotalBounds
<1>2. m \in Nat /\ h \in Nat /\ m = h + BlockSize
  BY <1>1
<1>3. len <= m /\ h < len
  BY TotalBounds
<1>4. ASSUME len <= BlockSize PROVE Total(len) = 1
  <2>1. CASE Total(len) > 1
    <3>1. 1 * BlockSize <= (Total(len) - 1) * BlockSize
      BY <1>1, <2>1, Monotone
    <3> QED
      BY <1>1, <1>3, <1>4, <3>1
  <2> QED
    BY <1>1, <2>1
<1>5. Arrived(len) = IF len <= BlockSize THEN len ELSE m
  BY DEF Arrived
<1> HIDE DEF m, h
<1>6. /\ Arrived(len) \in Nat /\ len <= Arrived(len) /\ Arrived(len) <= m /\ h < Arrived(len)
      /\ len > BlockSize => Arrived(len) = h + BlockSize
  BY <1>1, <1>2, <1>3, <1>5
<1> QED
  BY <1>4, <1>6 DEF m, h

LEMMA ByteAtType ==
  ASSUME NEW k \in Nat, NEW len \in Nat, NEW p \in Nat
  PROVE  ByteAt(k, len, p) \in ByteSet
<1>1. BlockSize \in Nat
  BY SizeAssumption
<1>2. CASE p <= len
  BY <1>2 DEF ByteAt, ByteSet
<1>3. CASE ~(p <= len) /\ p <= BlockSize
  BY <1>3 DEF ByteAt, ByteSet
<1>4. CASE ~(p <= len) /\ ~(p <= BlockSize)
  <2>1. p - BlockSize \in Nat
    BY <1>1, <1>4
  <2> QED
    BY <1>4, <2>1 DEF ByteAt, ByteSet
<1> QED
  BY <1>2, <1>3, <1>4

LEMMA ArrivingType ==
  ASSUME NEW k \in Nat, NEW len \in Nat \ {0}
  PROVE  /\ Arriving(k, len) \in Seq(ByteSet) /\ Len(Arriving(k, len)) = Arrived(len)
         /\ \A p \in 1..Arrived(len) : Arriving(k, len)[p] = ByteAt(k, len, p)
<1>1. Arrived(len) \in Nat
  BY ArrivedBounds
<1>2. \A p \in 1..Arrived(len) : ByteAt(k, len, p) \in ByteSet
  BY <1>1, ByteAtType
<1> QED
  BY <1>1, <1>2 DEF Arriving

LEMMA CutType ==
  ASSUME NEW s \in Seq(ByteSet), NEW n \in Nat, n <= Len(s)
  PROVE  SubSeq(s, 1, n) \in Seq(ByteSet) /\ Len(SubSeq(s, 1, n)) = n
<1>1. \A i \in 1..n : s[i] \in ByteSet
  BY LenProperties
<1> QED
  BY <1>1, SubSeqProperties

LEMMA PrefixBegins ==
  ASSUME NEW k \in Nat, NEW len \in Nat \ {0}
  PROVE  Prefix(k, len, 0) = <<>>
<1>1. Lowest(0 * BlockSize, Arrived(len)) = 0
  BY SizeAssumption, ArrivedBounds DEF Lowest
<1> QED
  BY <1>1, SubSeqEmpty DEF Prefix

(* The piece of a sequence from place lo + 1 on, and the beginning of      *)
(* another sequence that has the same elements.                            *)
LEMMA SamePiece ==
  ASSUME NEW s \in Seq(ByteSet), NEW b \in Seq(ByteSet),
         NEW lo \in Nat, NEW n \in Nat, lo + n <= Len(s), n <= Len(b),
         \A p \in 1..n : b[p] = s[lo + p]
  PROVE  SubSeq(b, 1, n) = SubSeq(s, lo + 1, lo + n)
<1>1. /\ SubSeq(b, 1, n) \in Seq(ByteSet) /\ Len(SubSeq(b, 1, n)) = n
      /\ \A p \in 1..n : SubSeq(b, 1, n)[p] = b[p]
  <2>1. \A i \in 1..n : b[i] \in ByteSet
    BY LenProperties
  <2> QED
    BY <2>1, CutType, SubSeqProperties
<1>2. /\ SubSeq(s, lo + 1, lo + n) \in Seq(ByteSet) /\ Len(SubSeq(s, lo + 1, lo + n)) = n
      /\ \A p \in 1..n : SubSeq(s, lo + 1, lo + n)[p] = s[lo + p]
  <2>1. \A i \in (lo + 1)..(lo + n) : s[i] \in ByteSet
    BY LenProperties, ElementOfSeq
  <2>2. /\ Len(SubSeq(s, lo + 1, lo + n)) = IF lo + 1 <= lo + n THEN lo + n - (lo + 1) + 1 ELSE 0
        /\ SubSeq(s, lo + 1, lo + n) \in Seq(ByteSet)
        /\ \A i \in 1..(lo + n - (lo + 1) + 1) :
              SubSeq(s, lo + 1, lo + n)[i] = s[lo + 1 + i - 1]
    BY <2>1, SubSeqProperties
  <2> QED
    BY <2>2
<1> QED
  BY <1>1, <1>2, SeqEqual

(* How many bytes of a block are copied, and that they are those of the    *)
(* content that follow the blocks before it.                               *)
LEMMA CopiedBytes ==
  ASSUME NEW k \in Nat, NEW len \in Nat \ {0}, NEW type \in Types,
         NEW i \in 1..Total(len)
  PROVE  LET lo == (i - 1) * BlockSize
             hi == Lowest(i * BlockSize, Arrived(len))
         IN  /\ lo \in Nat /\ hi \in lo..Arrived(len) /\ Lowest(lo, Arrived(len)) = lo
             /\ Copied(Block(k, type, len, i)) = SubSeq(Arriving(k, len), lo + 1, hi)
<1> DEFINE lo == (i - 1) * BlockSize
           hi == Lowest(i * BlockSize, Arrived(len))
           n == Lowest(Lowest(i * BlockSize, len), BlockSize)
           cnt == [p \in 1..BlockSize |-> ByteAt(k, len, lo + p)]
           A == Arrived(len)
<1>1. BlockSize \in Nat \ {0} /\ Total(len) \in Nat \ {0} /\ i \in Nat \ {0} /\ i - 1 \in Nat
      /\ i - 1 <= Total(len) - 1
  BY SizeAssumption, TotalBounds
<1>2. lo \in Nat /\ lo <= (Total(len) - 1) * BlockSize /\ i * BlockSize = lo + BlockSize
  BY <1>1, Monotone
<1>3. A \in Nat /\ lo < A /\ len <= A
  BY <1>1, <1>2, ArrivedBounds
<1>4. ASSUME len <= BlockSize
      PROVE  hi = lo + n /\ n \in Nat /\ n <= BlockSize /\ lo + n <= A
  <2>1. i = 1 /\ A = len
    BY <1>1, <1>4, ArrivedBounds DEF Arrived
  <2>2. lo = 0 /\ i * BlockSize = BlockSize
    BY <1>1, <2>1
  <2>3. n = len /\ hi = len
    BY <1>1, <1>4, <2>1, <2>2 DEF Lowest
  <2> HIDE DEF lo, A, n, hi
  <2> QED
    BY <1>4, <2>1, <2>2, <2>3
<1>5. ASSUME len > BlockSize
      PROVE  hi = lo + n /\ n \in Nat /\ n <= BlockSize /\ lo + n <= A
  <2>1. A = (Total(len) - 1) * BlockSize + BlockSize
    BY <1>5, ArrivedBounds
  <2>2. lo + BlockSize <= A
    BY <1>1, <1>2, <2>1
  <2> HIDE DEF lo, A
  <2>3. Lowest(lo + BlockSize, A) = lo + BlockSize
    BY <1>1, <1>2, <1>3, <2>2 DEF Lowest
  <2>4. Lowest(lo + BlockSize, len) >= BlockSize
    BY <1>1, <1>2, <1>5 DEF Lowest
  <2>5. n = BlockSize
    BY <1>1, <1>2, <1>5, <2>4 DEF Lowest
  <2>6. hi = lo + BlockSize
    BY <1>2, <2>3 DEF A
  <2> HIDE DEF n, hi
  <2> QED
    BY <1>1, <2>2, <2>5, <2>6
<1>6. hi = lo + n /\ n \in Nat /\ n <= BlockSize /\ lo + n <= A
  <2> HIDE DEF lo, n, A, hi
  <2> QED
    BY <1>1, <1>4, <1>5
<1>7. Copied(Block(k, type, len, i)) = SubSeq(cnt, 1, n)
  BY DEF Copied, Block
<1>8. cnt \in Seq(ByteSet) /\ Len(cnt) = BlockSize
  <2>1. \A p \in 1..BlockSize : ByteAt(k, len, lo + p) \in ByteSet
    <3> HIDE DEF lo
    <3> QED
      BY <1>1, <1>2, ByteAtType
  <2> QED
    BY <1>1, <2>1
<1>9. \A p \in 1..n : cnt[p] = Arriving(k, len)[lo + p]
  <2> SUFFICES ASSUME NEW p \in 1..n PROVE cnt[p] = Arriving(k, len)[lo + p]
    OBVIOUS
  <2> HIDE DEF lo, n, A
  <2>1. p \in 1..BlockSize /\ lo + p \in 1..A
    BY <1>1, <1>2, <1>3, <1>6
  <2>2. Arriving(k, len)[lo + p] = ByteAt(k, len, lo + p)
    BY <2>1, ArrivingType DEF A
  <2> QED
    BY <2>1, <2>2
<1>10. Arriving(k, len) \in Seq(ByteSet) /\ Len(Arriving(k, len)) = A
  BY ArrivingType
<1>11. hi \in lo..A /\ Lowest(lo, A) = lo
  <2> HIDE DEF lo, n, A, hi
  <2> QED
    BY <1>2, <1>3, <1>6 DEF Lowest
<1> HIDE DEF lo, n, A, hi, cnt
<1>12. SubSeq(cnt, 1, n) = SubSeq(Arriving(k, len), lo + 1, lo + n)
  BY <1>2, <1>6, <1>8, <1>9, <1>10, SamePiece
<1> QED
  BY <1>2, <1>6, <1>7, <1>11, <1>12 DEF lo, hi, A

LEMMA PrefixGrows ==
  ASSUME NEW k \in Nat, NEW len \in Nat \ {0}, NEW type \in Types,
         NEW i \in 1..Total(len)
  PROVE  /\ Copied(Block(k, type, len, i)) \in Seq(ByteSet)
         /\ Prefix(k, len, i - 1) \in Seq(ByteSet)
         /\ Prefix(k, len, i) = Prefix(k, len, i - 1) \o Copied(Block(k, type, len, i))
<1> DEFINE lo == (i - 1) * BlockSize
           hi == Lowest(i * BlockSize, Arrived(len))
           s == Arriving(k, len)
<1>1. /\ lo \in Nat /\ hi \in lo..Arrived(len) /\ Lowest(lo, Arrived(len)) = lo
      /\ Copied(Block(k, type, len, i)) = SubSeq(s, lo + 1, hi)
  BY CopiedBytes
<1>2. s \in Seq(ByteSet) /\ Len(s) = Arrived(len) /\ Arrived(len) \in Nat
  BY ArrivingType, ArrivedBounds
<1>3. Prefix(k, len, i) = SubSeq(s, 1, hi) /\ Prefix(k, len, i - 1) = SubSeq(s, 1, lo)
  BY <1>1 DEF Prefix
<1> HIDE DEF lo, hi, s
<1>4. SubSeq(s, 1, hi) = SubSeq(s, 1, lo) \o SubSeq(s, lo + 1, hi)
  <2>1. /\ 1 \in 1..(Len(s) + 1) /\ lo \in (1 - 1)..Len(s)
        /\ hi \in lo..Len(s)
    BY <1>1, <1>2
  <2> QED
    BY <1>2, <2>1, ConcatAdjacentSubSeq
<1>5. \A j \in (lo + 1)..hi : s[j] \in ByteSet
  BY <1>1, <1>2, ElementOfSeq
<1>6. SubSeq(s, lo + 1, hi) \in Seq(ByteSet)
  BY <1>1, <1>2, <1>5, SubSeqProperties
<1>7. SubSeq(s, 1, lo) \in Seq(ByteSet)
  BY <1>1, <1>2, CutType
<1> QED
  BY <1>1, <1>3, <1>4, <1>6, <1>7

LEMMA PrefixEnds ==
  ASSUME NEW k \in Nat, NEW len \in Nat \ {0}
  PROVE  Prefix(k, len, Total(len)) = Arriving(k, len)
<1>1. Lowest(Total(len) * BlockSize, Arrived(len)) = Arrived(len)
  BY TotalBounds, ArrivedBounds, SizeAssumption DEF Lowest
<1> QED
  BY <1>1, ArrivingType, SubSeqFull DEF Prefix

(* They are the bytes of the content and the stale ones.                   *)
LEMMA ArrivingIs ==
  ASSUME NEW k \in Nat, NEW len \in Nat \ {0}
  PROVE  Arriving(k, len) = Bytes(k, len) \o Stale(k, len)
<1> DEFINE a == len - BlockSize + 1
           z == (Total(len) - 1) * BlockSize
           A == Arrived(len)
           c == Bytes(k, len)
<1>1. BlockSize \in Nat \ {0} /\ Total(len) \in Nat \ {0} /\ z \in Nat /\ z < len
      /\ A \in Nat /\ len <= A
  BY SizeAssumption, TotalBounds, ArrivedBounds
<1>2. c \in Seq(ByteSet) /\ Len(c) = len /\ \A p \in 1..len : c[p] = <<k, p>>
  BY DEF Bytes, ByteSet
<1>3. Arriving(k, len) \in Seq(ByteSet) /\ Len(Arriving(k, len)) = A
      /\ \A p \in 1..A : Arriving(k, len)[p] = ByteAt(k, len, p)
  BY ArrivingType
<1>4. CASE len <= BlockSize
  <2>1. Stale(k, len) = <<>> /\ A = len
    BY <1>4 DEF Stale, Arrived
  <2> HIDE DEF c, A
  <2>2. ASSUME NEW p \in 1..A PROVE Arriving(k, len)[p] = c[p]
    <3>1. p <= len /\ p \in 1..len
      BY <2>1
    <3>2. ByteAt(k, len, p) = <<k, p>>
      BY <3>1 DEF ByteAt
    <3> QED
      BY <1>2, <1>3, <3>1, <3>2
  <2>3. Arriving(k, len) = c
    BY <1>2, <1>3, <2>1, <2>2, SeqEqual
  <2> QED
    BY <1>2, <2>1, <2>3, ConcatEmptySeq DEF c
<1>5. CASE len > BlockSize
  <2>1. A = z + BlockSize /\ a \in Nat \ {0} /\ z - a + 1 = A - len
    BY <1>1, <1>5, ArrivedBounds
  <2>2. Stale(k, len) = SubSeq(c, a, z)
    BY <1>1, <1>5, SMTT(30) DEF Stale
  <2> HIDE DEF a, z, A, c
  <2>3. /\ SubSeq(c, a, z) \in Seq(ByteSet)
        /\ Len(SubSeq(c, a, z)) = IF a <= z THEN z - a + 1 ELSE 0
        /\ \A p \in 1..(z - a + 1) : SubSeq(c, a, z)[p] = c[a + p - 1]
    <3>1. \A p \in a..z : c[p] \in ByteSet
      BY <1>1, <1>2, <2>1, ElementOfSeq
    <3> QED
      BY <1>1, <1>2, <2>1, <3>1, SubSeqProperties
  <2>4. Len(SubSeq(c, a, z)) = A - len
    BY <1>1, <2>1, <2>3
  <2> DEFINE w == c \o SubSeq(c, a, z)
  <2>5. /\ w \in Seq(ByteSet) /\ Len(w) = A
        /\ \A p \in 1..A : w[p] = IF p <= len THEN c[p] ELSE SubSeq(c, a, z)[p - len]
    BY <1>1, <1>2, <2>3, <2>4, ConcatProperties, SMTT(30)
  <2>6. ASSUME NEW p \in 1..A
        PROVE  Arriving(k, len)[p] = w[p]
    <3>1. Arriving(k, len)[p] = ByteAt(k, len, p)
      BY <1>3
    <3>2. CASE p <= len
      <4>1. ByteAt(k, len, p) = <<k, p>>
        BY <3>2 DEF ByteAt
      <4>2. p \in 1..len
        BY <1>1, <3>2
      <4>3. w[p] = c[p]
        BY <2>5, <3>2
      <4> QED
        BY <1>2, <3>1, <4>1, <4>2, <4>3
    <3>3. CASE ~(p <= len)
      <4>1. p \in Nat /\ p > len /\ p > BlockSize /\ p <= A
        BY <1>1, <1>5, <3>3
      <4>2. ByteAt(k, len, p) = <<k, p - BlockSize>>
        BY <1>1, <3>3, <4>1 DEF ByteAt
      <4>3. w[p] = SubSeq(c, a, z)[p - len]
        BY <2>5, <3>3
      <4>4. p - len \in 1..(z - a + 1)
        BY <1>1, <2>1, <4>1
      <4>5. SubSeq(c, a, z)[p - len] = c[a + (p - len) - 1]
        BY <2>3, <4>4
      <4>6. a + (p - len) - 1 = p - BlockSize
        BY <1>1, <4>1 DEF a
      <4>7. p - BlockSize \in 1..len
        BY <1>1, <2>1, <4>1
      <4> QED
        BY <1>2, <3>1, <4>2, <4>3, <4>5, <4>6, <4>7
    <3> QED
      BY <3>2, <3>3
  <2> HIDE DEF w
  <2>7. Arriving(k, len) = w
    BY <1>3, <2>5, <2>6, SeqEqual
  <2> QED
    BY <2>2, <2>7 DEF w, c
<1> QED
  BY <1>1, <1>4, <1>5

LEMMA BlockType ==
  ASSUME NEW k \in 1..MaxContents, NEW type \in Types, NEW len \in Lens, NEW i \in 1..Total(len)
  PROVE  /\ Block(k, type, len, i) \in Blocks
         /\ Block(k, type, len, i).content = k /\ Block(k, type, len, i).curr = i
         /\ Block(k, type, len, i).total = Total(len) /\ Block(k, type, len, i).type = type
<1>1. Block(k, type, len, i) \in Blocks
  <2> DEFINE S == {{Block(kk, ty, ll, j) : j \in 1..Total(ll)} :
                      kk \in 1..MaxContents, ty \in Types, ll \in Lens}
             M == {Block(k, type, len, j) : j \in 1..Total(len)}
  <2>1. M \in S
    OBVIOUS
  <2>2. Block(k, type, len, i) \in M
    OBVIOUS
  <2>3. S = {{Block(kk, ty, ll, j) : j \in 1..Total(ll)} :
                      kk \in 1..MaxContents, ty \in Types, ll \in Lens}
    OBVIOUS
  <2> HIDE DEF M
  <2>4. Block(k, type, len, i) \in UNION S
    <3> HIDE DEF S
    <3> QED BY <2>1, <2>2
  <2> QED
    BY <2>4 DEF Blocks
<1> QED
  BY <1>1 DEF Block

LEMMA BlockFields ==
  ASSUME NEW b \in Blocks
  PROVE  /\ b.content \in 1..MaxContents /\ b.type \in Types /\ b.curr \in Nat \ {0}
         /\ b.total \in Nat /\ Copied(b) \in Seq(ByteSet)
<1>1. PICK k \in 1..MaxContents, type \in Types, len \in Lens :
         b \in {Block(k, type, len, i) : i \in 1..Total(len)}
  BY DEF Blocks
<1>2. PICK i \in 1..Total(len) : b = Block(k, type, len, i)
  BY <1>1
<1>3. len \in Nat \ {0} /\ k \in Nat
  BY SizeAssumption
<1>4. Total(len) \in Nat
  BY <1>3, TotalBounds
<1>5. b.content = k /\ b.curr = i /\ b.total = Total(len) /\ b.type = type
  BY <1>2, BlockType
<1>6. Copied(b) \in Seq(ByteSet)
  BY <1>2, <1>3, PrefixGrows
<1>7. i \in Nat \ {0}
  BY <1>4
<1> QED
  BY <1>3, <1>4, <1>5, <1>6, <1>7

-----------------------------------------------------------------------------
(* Types.                                                                  *)

Typed ==
    /\ captured \in Seq([type : Types, len : Lens]) /\ Len(captured) <= MaxContents
    /\ pushed \in 0..LastTotal
    /\ fifo \in Seq(Blocks)
    /\ block \in [Parsers -> Blocks \cup {NoBlock}]
    /\ capBlocks \in Seq(Blocks) /\ next \in Nat
    /\ parsed \in Seq(Contents) /\ \A n \in 1..Len(parsed) : Len(parsed[n].cnt) < MaxBuff
    /\ lost \in Nat /\ overtaken \in Nat

Cnts(blocks) == [i \in DOMAIN blocks |-> Copied(blocks[i])]

LEMMA CntsType ==
  ASSUME NEW blocks \in Seq(Blocks)
  PROVE  Cnts(blocks) \in Seq(Seq(ByteSet)) /\ FlattenSeq(Cnts(blocks)) \in Seq(ByteSet)
<1>1. DOMAIN blocks = 1..Len(blocks) /\ Len(blocks) \in Nat
  BY LenProperties
<1>2. \A i \in 1..Len(blocks) : Copied(blocks[i]) \in Seq(ByteSet)
  BY ElementOfSeq, BlockFields
<1>3. Cnts(blocks) \in Seq(Seq(ByteSet))
  BY <1>1, <1>2 DEF Cnts
<1> QED
  BY <1>3, EmptySeq, FlattenAppend

LEMMA CntsAppend ==
  ASSUME NEW blocks \in Seq(Blocks), NEW b \in Blocks
  PROVE  FlattenSeq(Cnts(Append(blocks, b))) = FlattenSeq(Cnts(blocks)) \o Copied(b)
<1>1. Copied(b) \in Seq(ByteSet) /\ Cnts(blocks) \in Seq(Seq(ByteSet))
  BY BlockFields, CntsType
<1>2. Cnts(Append(blocks, b)) = Append(Cnts(blocks), Copied(b))
  BY AppendProperties, LenProperties DEF Cnts
<1> QED
  BY <1>1, <1>2, FlattenAppend

LEMMA OutCapType ==
  ASSUME NEW blocks \in Seq(Blocks), blocks # <<>>
  PROVE  OutCap(blocks) \in Contents /\ Len(OutCap(blocks).cnt) < MaxBuff
<1> DEFINE cnt == FlattenSeq(Cnts(blocks))
           n == Lowest(Len(cnt), MaxBuff - 1)
<1>1. cnt \in Seq(ByteSet)
  BY CntsType
<1>2. Len(cnt) \in Nat /\ n \in Nat /\ n <= Len(cnt) /\ n < MaxBuff
  BY <1>1, SizeAssumption DEF Lowest
<1>3. OutCap(blocks) = [type |-> Head(blocks).type, cnt |-> SubSeq(cnt, 1, n)]
  BY DEF OutCap, Cnts
<1> HIDE DEF cnt, n
<1>4. SubSeq(cnt, 1, n) \in Seq(ByteSet) /\ Len(SubSeq(cnt, 1, n)) = n
  BY <1>1, <1>2, CutType
<1>5. Head(blocks).type \in Types
  BY HeadTailProperties, BlockFields
<1> QED
  BY <1>2, <1>3, <1>4, <1>5 DEF Contents

LEMMA CapturedType ==
  ASSUME Typed
  PROVE  /\ Len(captured) \in Nat /\ Len(captured) <= MaxContents
         /\ \A k \in 1..Len(captured) : /\ k \in 1..MaxContents /\ captured[k].type \in Types
                                        /\ captured[k].len \in Lens
                                           /\ captured[k].len \in Nat \ {0}
                                        /\ Total(captured[k].len) \in Nat \ {0}
         /\ LastTotal = IF Len(captured) = 0 THEN 0 ELSE Total(captured[Len(captured)].len)
         /\ LastTotal \in Nat
<1>1. Len(captured) \in Nat /\ Len(captured) <= MaxContents
  BY DEF Typed
<1>2. ASSUME NEW k \in 1..Len(captured)
      PROVE  /\ k \in 1..MaxContents /\ captured[k].type \in Types
             /\ captured[k].len \in Lens /\ captured[k].len \in Nat \ {0}
             /\ Total(captured[k].len) \in Nat \ {0}
  <2>1. captured[k] \in [type : Types, len : Lens]
    BY ElementOfSeq DEF Typed
  <2>2. captured[k].len \in Nat \ {0}
    BY <2>1, SizeAssumption
  <2>3. Total(captured[k].len) \in Nat \ {0}
    BY <2>2, TotalBounds
  <2> QED
    BY <1>1, <2>1, <2>2, <2>3, SizeAssumption
<1>3. captured = <<>> <=> Len(captured) = 0
  BY DEF Typed
<1>4. Last(captured) = captured[Len(captured)]
  BY DEF Last
<1>5. LastTotal = IF Len(captured) = 0 THEN 0 ELSE Total(captured[Len(captured)].len)
  BY <1>3, <1>4 DEF LastTotal
<1>6. LastTotal \in Nat
  BY <1>1, <1>2, <1>5
<1> QED
  BY <1>1, <1>2, <1>5, <1>6

LEMMA NextBlockType ==
  ASSUME Typed, pushed < LastTotal
 
  PROVE   /\ Len(captured) \in 1..MaxContents
            /\ pushed + 1 \in 1..Total(captured[Len(captured)].len)
         /\ NextBlock \in Blocks
<1>1. Len(captured) \in 1..Len(captured) /\ pushed + 1 \in 1..Total(captured[Len(captured)].len)
  BY CapturedType DEF Typed
<1>2. NextBlock \in Blocks
  BY <1>1, CapturedType, BlockType DEF NextBlock
<1> QED
  BY <1>1, <1>2, CapturedType

LEMMA TypedInit == Init => Typed
<1> SUFFICES ASSUME Init PROVE Typed
  OBVIOUS
<1>1. LastTotal = 0
  BY DEF Init, LastTotal
<1> QED
  BY <1>1, SizeAssumption DEF Init, Typed

LEMMA OvertakenNat ==
  ASSUME NEW t \in Parsers
  PROVE  /\ IsFiniteSet(Overtaken(t)) /\ Cardinality(Overtaken(t)) \in Nat
<1>1. IsFiniteSet(Overtaken(t))
  BY ParserAssumption, FS_Subset DEF Overtaken
<1> QED
  BY <1>1, FS_CardinalityType

LEMMA TypedNext == Typed /\ [Next]_vars => Typed'
<1> SUFFICES ASSUME Typed, [Next]_vars PROVE Typed'
  OBVIOUS
<1>1. ASSUME NEW type \in Types, NEW len \in Lens, Capture(type, len)
      PROVE  Typed'
  <2>1. captured' \in Seq([type : Types, len : Lens]) /\ Len(captured') = Len(captured) + 1
    BY <1>1 DEF Typed, Capture
  <2>2. Len(captured') <= MaxContents
    BY <1>1, <2>1, CapturedType, SizeAssumption DEF Capture
  <2>3. LastTotal' = Total(len)
    <3>1. captured' # <<>> /\ Last(captured') = [type |-> type, len |-> len]
      <4>1. /\ captured' # <<>> /\ Len(captured') = Len(captured) + 1
            /\ captured'[Len(captured) + 1] = [type |-> type, len |-> len]
        <5> DEFINE A == [type : Types, len : Lens]
                   e == [type |-> type, len |-> len]
        <5>1. captured \in Seq(A) /\ e \in A /\ captured' = Append(captured, e)
          BY <1>1 DEF Typed, Capture
        <5> HIDE DEF A, e
        <5>2. /\ captured' # <<>> /\ Len(captured') = Len(captured) + 1
              /\ captured'[Len(captured) + 1] = e
          BY <5>1, AppendProperties
        <5> QED
          BY <5>2 DEF e
      <4>2. Last(captured') = captured'[Len(captured')]
        BY DEF Last
      <4> QED
        BY <4>1, <4>2
    <3> QED
      BY <3>1 DEF LastTotal
  <2>4. Total(len) \in Nat
    BY SizeAssumption, TotalBounds
  <2> QED
    BY <1>1, <2>1, <2>2, <2>3, <2>4 DEF Typed, Capture
<1>2. CASE PushBlock
  <2>1. NextBlock \in Blocks
    BY <1>2, NextBlockType DEF PushBlock
  <2>2. fifo' = Append(fifo, NextBlock) /\ pushed' = pushed + 1 /\ block' = block
    BY <1>2 DEF PushBlock, Queue!Push
  <2>3. LastTotal' = LastTotal /\ LastTotal \in Nat
    BY <1>2, CapturedType DEF PushBlock, LastTotal
  <2> QED
    BY <1>2, <2>1, <2>2, <2>3 DEF Typed, PushBlock
<1>3. CASE LoseBlock
  <2>1. LastTotal' = LastTotal /\ LastTotal \in Nat
    BY <1>3, CapturedType DEF LoseBlock, LastTotal
  <2> QED
    BY <1>3, <2>1 DEF Typed, LoseBlock
<1>4. ASSUME NEW t \in Parsers, PopBlock(t)
      PROVE  Typed'
  <2>1. fifo # <<>> /\ fifo' = Tail(fifo) /\ block' = [block EXCEPT ![t] = Head(fifo)]
    BY <1>4 DEF PopBlock, Queue!Pop, Typed
  <2>2. Head(fifo) \in Blocks /\ Tail(fifo) \in Seq(Blocks)
    BY <2>1, HeadTailProperties DEF Typed
  <2>3. LastTotal' = LastTotal
    BY <1>4 DEF PopBlock, LastTotal
  <2> QED
    BY <1>4, <2>1, <2>2, <2>3 DEF Typed, PopBlock
<1>5. ASSUME NEW t \in Parsers, AppendToProcess(t)
      PROVE  Typed'
  <2> DEFINE b == block[t]
             blocks == Append(capBlocks, b)
  <2>1. b \in Blocks /\ b.curr \in Nat
    <3>1. b \in Blocks
      BY <1>5 DEF AppendToProcess, Typed
    <3> QED
      BY <3>1, BlockFields
  <2>2. blocks \in Seq(Blocks) /\ blocks # <<>>
    BY <2>1, AppendProperties DEF Typed
  <2>3. OutCap(blocks) \in Contents /\ Len(OutCap(blocks).cnt) < MaxBuff
    BY <2>2, OutCapType
  <2>4. Expected(b) \in Nat
    BY DEF Expected, Typed
  <2>5. AppendBlock(b) /\ block' = [block EXCEPT ![t] = NoBlock]
        /\ overtaken' = overtaken + Cardinality(Overtaken(t))
        /\ UNCHANGED <<captured, pushed, fifo, lost>>
    BY <1>5 DEF AppendToProcess
  <2> HIDE DEF b
  <2>6. /\ capBlocks' \in Seq(Blocks) /\ next' \in Nat
        /\ parsed' = parsed \/ parsed' = Append(parsed, OutCap(blocks))
    <3>1. CASE b.curr = Expected(b) /\ b.curr = b.total
      BY <2>4, <2>5, <3>1, EmptySeq DEF AppendBlock, Kept
    <3>2. CASE b.curr = Expected(b) /\ b.curr # b.total
      BY <2>1, <2>2, <2>5, <3>2, SMTT(30) DEF AppendBlock
    <3>3. CASE b.curr # Expected(b)
      BY <2>1, <2>5, <3>3 DEF AppendBlock, Typed
    <3> QED
      BY <3>1, <3>2, <3>3
  <2> HIDE DEF blocks
  <2>7. parsed' \in Seq(Contents) /\ \A n \in 1..Len(parsed') : Len(parsed'[n].cnt) < MaxBuff
    <3>1. CASE parsed' = parsed
      BY <3>1 DEF Typed
    <3>2. CASE parsed' = Append(parsed, OutCap(blocks))
      <4>1. /\ parsed' \in Seq(Contents) /\ Len(parsed') = Len(parsed) + 1
            /\ \A n \in 1..Len(parsed) : parsed'[n] = parsed[n]
            /\ parsed'[Len(parsed) + 1] = OutCap(blocks) /\ Len(parsed) \in Nat
        BY <2>3, <3>2, AppendProperties, LenProperties DEF Typed
      <4>2. ASSUME NEW n \in 1..Len(parsed')
            PROVE  Len(parsed'[n].cnt) < MaxBuff
        <5>1. CASE n = Len(parsed) + 1
          BY <2>3, <4>1, <5>1
        <5>2. CASE n # Len(parsed) + 1
          <6>1. n \in 1..Len(parsed) /\ parsed'[n] = parsed[n]
            BY <4>1, <4>2, <5>2
          <6> QED
            BY <6>1 DEF Typed
        <5> QED
          BY <5>1, <5>2
      <4> QED
        BY <4>1, <4>2
    <3> QED
      BY <2>6, <3>1, <3>2
  <2>8. overtaken' \in Nat
    BY <2>5, OvertakenNat DEF Typed
  <2>9. LastTotal' = LastTotal
    BY <2>5 DEF LastTotal
  <2>10. block' \in [Parsers -> Blocks \cup {NoBlock}]
    BY <2>5 DEF Typed
  <2>11. /\ captured' \in Seq([type : Types, len : Lens]) /\ Len(captured') <= MaxContents
         /\ pushed' \in 0..LastTotal' /\ fifo' \in Seq(Blocks) /\ lost' \in Nat
    BY <2>5, <2>9 DEF Typed
  <2> QED
    BY <2>6, <2>7, <2>8, <2>10, <2>11 DEF Typed
<1>6. CASE UNCHANGED vars
  BY <1>6 DEF vars, Typed, LastTotal
<1> QED
  BY <1>1, <1>2, <1>3, <1>4, <1>5, <1>6 DEF Next

LEMMA TypedOK == Typed => TypeOK
<1> SUFFICES ASSUME Typed PROVE TypeOK
  OBVIOUS
<1>1. \A i \in 1..Len(parsed) : parsed[i] \in Contents
  BY ElementOfSeq DEF Typed
<1>2. \A i \in DOMAIN parsed : parsed[i].type \in Types /\ Len(parsed[i].cnt) < MaxBuff
  BY <1>1, LenProperties DEF Typed, Contents
<1>3. /\ captured \in Seq([type : Types, len : Lens]) /\ pushed \in 0..LastTotal
      /\ fifo \in Seq(Blocks) /\ block \in [Parsers -> Blocks \cup {NoBlock}]
      /\ capBlocks \in Seq(Blocks) /\ next \in Nat /\ lost \in Nat /\ overtaken \in Nat
  BY DEF Typed
<1> QED
  BY <1>2, <1>3 DEF TypeOK

(* Every block in the fifo and in a parser's hands is a block of a content *)
(* that was captured, and no content is given to a parser with more bytes  *)
(* than the buffer of parse_client_data holds.                             *)
THEOREM TypeCorrect == Spec => []TypeOK
<1>1. Spec => []Typed
  BY TypedInit, TypedNext, PTL DEF Spec
<1> QED
  BY <1>1, TypedOK, PTL
-----------------------------------------------------------------------------
(* The blocks in transit.                                                  *)

TotalOf(cap, k) == Total(cap[k].len)
BlockOf(cap, k, j) == Block(k, cap[k].type, cap[k].len, j)

(* Block j of content k was pushed or lost already.                        *)
Reached(cap, p, k, j) ==
    k \in 1..Len(cap) /\ j \in 1..TotalOf(cap, k) /\ (k = Len(cap) => j <= p)
Sent(cap, p, b) == Reached(cap, p, b.content, b.curr) /\ b = BlockOf(cap, b.content, b.curr)

(* The fifo holds blocks of captured contents in their order, a parser has *)
(* one that is earlier than those in the fifo, and no two parsers have the *)
(* same.                                                                   *)
InOrder(cap, p, f, blk) ==
    /\ \A n \in 1..Len(f) : Sent(cap, p, f[n])
    /\ \A m, n \in 1..Len(f) : m < n => Earlier(f[m], f[n])
    /\ \A t \in Parsers : blk[t] # NoBlock =>
          Sent(cap, p, blk[t]) /\ \A n \in 1..Len(f) : Earlier(blk[t], f[n])
    /\ \A t, u \in Parsers : t # u /\ blk[t] # NoBlock /\ blk[u] # NoBlock =>
          Earlier(blk[t], blk[u]) \/ Earlier(blk[u], blk[t])
Transit == InOrder(captured, pushed, fifo, block)

(* More of the contents is captured and pushed.                            *)
Grown(cap, p, cap2, p2) ==
    /\ Len(cap) \in Nat /\ Len(cap2) \in Nat /\ p \in Nat /\ p2 \in Nat
    /\ Len(cap) <= Len(cap2) /\ \A k \in 1..Len(cap) : cap2[k] = cap[k]
    /\ Len(cap2) = Len(cap) => p <= p2

LEMMA SentStays ==
  ASSUME NEW cap, NEW p, NEW cap2, NEW p2, NEW b, Grown(cap, p, cap2, p2), Sent(cap, p, b)
  PROVE  Sent(cap2, p2, b)
<1>1. b.content \in 1..Len(cap) /\ cap2[b.content] = cap[b.content]
  BY DEF Sent, Reached, Grown
<1>2. TotalOf(cap2, b.content) = TotalOf(cap, b.content)
      /\ BlockOf(cap2, b.content, b.curr) = BlockOf(cap, b.content, b.curr)
  BY <1>1 DEF TotalOf, BlockOf
<1>3. b.content \in 1..Len(cap2) /\ b.curr \in 1..TotalOf(cap2, b.content)
  BY <1>1, <1>2 DEF Sent, Reached, Grown
<1>4. ASSUME b.content = Len(cap2) PROVE b.curr <= p2
  <2>1. Len(cap2) = Len(cap) /\ b.curr <= p /\ p <= p2
    BY <1>1, <1>4 DEF Sent, Reached, Grown
  <2>2. b.curr \in Int
    BY DEF Sent, Reached
  <2> QED
    BY <2>1, <2>2 DEF Grown
<1> QED
  BY <1>2, <1>3, <1>4 DEF Sent, Reached

LEMMA OrderStays ==
  ASSUME NEW cap, NEW p, NEW cap2, NEW p2, NEW f, NEW blk, Grown(cap, p, cap2, p2),
         InOrder(cap, p, f, blk)
  PROVE  InOrder(cap2, p2, f, blk)
<1>1. \A b : Sent(cap, p, b) => Sent(cap2, p2, b)
  BY SentStays
<1> QED
  BY <1>1 DEF InOrder

LEMMA OrderPush ==
  ASSUME NEW cap, NEW p, NEW f \in Seq(Blocks), NEW blk, NEW b \in Blocks,
         InOrder(cap, p, f, blk), Sent(cap, p, b),
         \A n \in 1..Len(f) : Earlier(f[n], b),
         \A t \in Parsers : blk[t] # NoBlock => Earlier(blk[t], b)
  PROVE  InOrder(cap, p, Append(f, b), blk)
<1> DEFINE g == Append(f, b)
<1>1. /\ Len(g) = Len(f) + 1 /\ g[Len(f) + 1] = b /\ Len(f) \in Nat
      /\ \A n \in 1..Len(f) : g[n] = f[n]
  BY AppendProperties, LenProperties
<1> HIDE DEF g
<1>2. \A n \in 1..Len(g) : n \in 1..Len(f) \/ n = Len(f) + 1
  BY <1>1
<1>3. \A n \in 1..Len(g) : Sent(cap, p, g[n])
  BY <1>1, <1>2 DEF InOrder
<1>4. ASSUME NEW m \in 1..Len(g), NEW n \in 1..Len(g), m < n
      PROVE  Earlier(g[m], g[n])
  <2>1. m \in 1..Len(f) /\ g[m] = f[m]
    BY <1>1, <1>4
  <2>2. CASE n \in 1..Len(f)
    BY <1>1, <1>4, <2>1, <2>2 DEF InOrder
  <2>3. CASE n = Len(f) + 1
    BY <1>1, <2>1, <2>3
  <2> QED
    BY <1>2, <2>2, <2>3
<1>5. ASSUME NEW t \in Parsers, blk[t] # NoBlock, NEW n \in 1..Len(g)
      PROVE  Earlier(blk[t], g[n])
  BY <1>1, <1>2, <1>5 DEF InOrder
<1> QED
  BY <1>3, <1>4, <1>5 DEF InOrder, g

LEMMA OrderPop ==
  ASSUME NEW cap, NEW p, NEW f \in Seq(Blocks), f # <<>>,
         NEW blk \in [Parsers -> Blocks \cup {NoBlock}], NEW t \in Parsers,
         blk[t] = NoBlock, InOrder(cap, p, f, blk)
  PROVE  InOrder(cap, p, Tail(f), [blk EXCEPT ![t] = Head(f)])
<1> DEFINE g == Tail(f)
           blk2 == [blk EXCEPT ![t] = Head(f)]
<1>1. /\ Len(g) = Len(f) - 1 /\ Len(f) \in Nat \ {0}
      /\ \A n \in 1..Len(g) : g[n] = f[n + 1] /\ n + 1 \in 1..Len(f)
  BY HeadTailProperties, EmptySeq
<1>2. Head(f) = f[1] /\ 1 \in 1..Len(f)
  BY <1>1
<1>3. \A u \in Parsers : blk2[u] = IF u = t THEN f[1] ELSE blk[u]
  BY <1>2
<1> HIDE DEF g, blk2
<1>4. \A n \in 1..Len(g) : Sent(cap, p, g[n]) /\ Earlier(f[1], g[n])
  BY <1>1, <1>2, SMTT(30) DEF InOrder
<1>5. \A m, n \in 1..Len(g) : m < n => Earlier(g[m], g[n])
  BY <1>1 DEF InOrder
<1>6. ASSUME NEW u \in Parsers, blk2[u] # NoBlock
      PROVE  Sent(cap, p, blk2[u]) /\ \A n \in 1..Len(g) : Earlier(blk2[u], g[n])
  <2>1. CASE u = t
    BY <1>2, <1>3, <1>4, <2>1 DEF InOrder
  <2>2. CASE u # t
    BY <1>1, <1>3, <1>6, <2>2 DEF InOrder
  <2> QED
    BY <2>1, <2>2
<1>7. ASSUME NEW u \in Parsers, NEW v \in Parsers, u # v, blk2[u] # NoBlock, blk2[v] # NoBlock
      PROVE  Earlier(blk2[u], blk2[v]) \/ Earlier(blk2[v], blk2[u])
  <2>1. CASE u = t
    BY <1>2, <1>3, <1>7, <2>1 DEF InOrder
  <2>2. CASE v = t
    BY <1>2, <1>3, <1>7, <2>2 DEF InOrder
  <2>3. CASE u # t /\ v # t
    BY <1>3, <1>7, <2>3 DEF InOrder
  <2> QED
    BY <2>1, <2>2, <2>3
<1> QED
  BY <1>4, <1>5, <1>6, <1>7 DEF InOrder, g, blk2

LEMMA OrderAppend ==
  ASSUME NEW cap, NEW p, NEW f, NEW blk \in [Parsers -> Blocks \cup {NoBlock}], NEW t \in Parsers,
         InOrder(cap, p, f, blk)
  PROVE  InOrder(cap, p, f, [blk EXCEPT ![t] = NoBlock])
<1> DEFINE blk2 == [blk EXCEPT ![t] = NoBlock]
<1>1. \A u \in Parsers : blk2[u] # NoBlock => blk2[u] = blk[u]
  OBVIOUS
<1> HIDE DEF blk2
<1> QED
  BY <1>1 DEF InOrder, blk2

LEMMA TransitInit == Init => Transit
<1> SUFFICES ASSUME Init PROVE Transit
  OBVIOUS
<1>1. Len(fifo) = 0 /\ \A t \in Parsers : block[t] = NoBlock
  BY DEF Init
<1> QED
  BY <1>1 DEF Transit, InOrder

(* The block of content k that is pushed next is later than those sent.    *)
LEMMA NextIsLast ==
  ASSUME Typed, pushed < LastTotal
  PROVE  /\ Grown(captured, pushed, captured, pushed + 1)
         /\ Sent(captured, pushed + 1, NextBlock)
         /\ NextBlock.content = Len(captured) /\ NextBlock.curr = pushed + 1
         /\ \A b : Sent(captured, pushed, b) => Earlier(b, NextBlock)
<1>1. /\ Len(captured) \in 1..Len(captured) /\ pushed \in Nat
      /\ pushed + 1 \in 1..TotalOf(captured, Len(captured))
  BY NextBlockType, CapturedType DEF Typed, TotalOf
<1>2. NextBlock = BlockOf(captured, Len(captured), pushed + 1)
  BY DEF NextBlock, BlockOf
<1>3. NextBlock.content = Len(captured) /\ NextBlock.curr = pushed + 1
  BY <1>2 DEF BlockOf, Block
<1>4. Sent(captured, pushed + 1, NextBlock)
  BY <1>1, <1>2, <1>3 DEF Sent, Reached
<1>5. ASSUME NEW b, Sent(captured, pushed, b) PROVE Earlier(b, NextBlock)
  <2>1. /\ b.content \in 1..Len(captured) /\ b.curr \in Int
        /\ b.content = Len(captured) => b.curr <= pushed
    BY <1>5 DEF Sent, Reached
  <2> QED
    BY <1>1, <1>3, <2>1 DEF Earlier
<1>6. Grown(captured, pushed, captured, pushed + 1)
  BY <1>1 DEF Grown
<1> QED
  BY <1>3, <1>4, <1>5, <1>6

LEMMA CaptureGrows ==
  ASSUME Typed, NEW type \in Types, NEW len \in Lens, Capture(type, len)
  PROVE  /\ Grown(captured, pushed, captured', pushed')
         /\ Len(captured') = Len(captured) + 1 /\ pushed' = 0
         /\ pushed = LastTotal /\ LastTotal \in Nat
<1> DEFINE A == [type : Types, len : Lens]
           e == [type |-> type, len |-> len]
<1>1. captured \in Seq(A) /\ e \in A /\ captured' = Append(captured, e)
  BY DEF Typed, Capture
<1> HIDE DEF A, e
<1>2. /\ Len(captured') = Len(captured) + 1 /\ Len(captured) \in Nat
      /\ \A k \in 1..Len(captured) : captured'[k] = captured[k]
  BY <1>1, AppendProperties, LenProperties
<1> QED
  BY <1>2, CapturedType DEF Grown, Capture

LEMMA TransitNext == Typed /\ Transit /\ [Next]_vars => Transit'
<1> SUFFICES ASSUME Typed, InOrder(captured, pushed, fifo, block), [Next]_vars
             PROVE  InOrder(captured', pushed', fifo', block')
  BY DEF Transit
<1>1. ASSUME NEW type \in Types, NEW len \in Lens, Capture(type, len)
      PROVE  InOrder(captured', pushed', fifo', block')
  <2>1. fifo' = fifo /\ block' = block
    BY <1>1 DEF Capture
  <2> QED
    BY <1>1, <2>1, CaptureGrows, OrderStays
<1>2. CASE PushBlock
  <2>1. /\ captured' = captured /\ pushed' = pushed + 1 /\ block' = block
        /\ fifo' = Append(fifo, NextBlock) /\ pushed < LastTotal /\ fifo \in Seq(Blocks)
    BY <1>2 DEF PushBlock, Queue!Push, Typed
  <2>2. InOrder(captured, pushed + 1, fifo, block)
    BY <2>1, NextIsLast, OrderStays
  <2>3. /\ \A n \in 1..Len(fifo) : Earlier(fifo[n], NextBlock)
        /\ \A t \in Parsers : block[t] # NoBlock => Earlier(block[t], NextBlock)
    BY <2>1, NextIsLast DEF InOrder
  <2>4. NextBlock \in Blocks /\ Sent(captured, pushed + 1, NextBlock)
    BY <2>1, NextBlockType, NextIsLast
  <2> QED
    BY <2>1, <2>2, <2>3, <2>4, OrderPush
<1>3. CASE LoseBlock
  <2>1. /\ captured' = captured /\ pushed' = pushed + 1 /\ block' = block
        /\ fifo' = fifo /\ pushed < LastTotal
    BY <1>3 DEF LoseBlock
  <2> QED
    BY <2>1, NextIsLast, OrderStays
<1>4. ASSUME NEW t \in Parsers, PopBlock(t)
      PROVE  InOrder(captured', pushed', fifo', block')
  <2>1. /\ fifo # <<>> /\ fifo' = Tail(fifo) /\ block' = [block EXCEPT ![t] = Head(fifo)]
        /\ captured' = captured /\ pushed' = pushed /\ block[t] = NoBlock
        /\ fifo \in Seq(Blocks) /\ block \in [Parsers -> Blocks \cup {NoBlock}]
    BY <1>4 DEF PopBlock, Queue!Pop, Typed
  <2> QED
    BY <2>1, OrderPop
<1>5. ASSUME NEW t \in Parsers, AppendToProcess(t)
      PROVE  InOrder(captured', pushed', fifo', block')
  <2>1. /\ fifo' = fifo /\ block' = [block EXCEPT ![t] = NoBlock]
        /\ captured' = captured /\ pushed' = pushed
        /\ block \in [Parsers -> Blocks \cup {NoBlock}]
    BY <1>5 DEF AppendToProcess, Typed
  <2> QED
    BY <2>1, OrderAppend
<1>6. CASE UNCHANGED vars
  BY <1>6 DEF vars
<1> QED
  BY <1>1, <1>2, <1>3, <1>4, <1>5, <1>6 DEF Next
-----------------------------------------------------------------------------
(* What a lost or an overtaking block can damage.  Block i of content c is *)
(* the latest appended so far (0 and 0 before the first).  D holds the     *)
(* contents that are damaged or doomed: a lost block damages its content,  *)
(* which leaves _capBlocks or _nextBlockNum wrong for the one after it; a  *)
(* block that overtakes others does so to every content from the earliest  *)
(* of them to the one after its own.  All other contents are on their way: *)
(* their blocks are in transit, and what is appended is their beginning.   *)

Beyond(k, j, c, i) == c < k \/ (c = k /\ i < j)
Complete(cap, c, i) == c = 0 \/ i = TotalOf(cap, c)
WholeOf(cap, k) ==
    LET cnt == Bytes(k, cap[k].len) \o Stale(k, cap[k].len)
    IN  [type |-> cap[k].type, cnt |-> SubSeq(cnt, 1, Lowest(Len(cnt), MaxBuff - 1))]

InTransit(f, blk, k, j) ==
    \/ \E n \in 1..Len(f) : f[n].content = k /\ f[n].curr = j
    \/ \E t \in Parsers : blk[t] # NoBlock /\ blk[t].content = k /\ blk[t].curr = j

(* Every block in transit is another one, and those in the fifo are later. *)
Latest(c, i, cap, p, f, blk) ==
    /\ (c = 0 /\ i = 0) \/ Reached(cap, p, c, i)
    /\ \A n \in 1..Len(f) : Beyond(f[n].content, f[n].curr, c, i)
    /\ \A t \in Parsers : blk[t] # NoBlock => ~(blk[t].content = c /\ blk[t].curr = i)

(* A block is missing only from a content that is in D with its successor. *)
Missing(D, c, i, cap, p, f, blk) ==
    \A k \in 1..Len(cap) :
        \/ {k, k + 1} \subseteq D
        \/ \A j : Reached(cap, p, k, j) /\ Beyond(k, j, c, i) => InTransit(f, blk, k, j)

(* A block that was overtaken and is still held will be appended too late. *)
Stragglers(D, c, i, blk) ==
    \A t \in Parsers : blk[t] # NoBlock /\ ~Beyond(blk[t].content, blk[t].curr, c, i) =>
        blk[t].content..(c + 1) \subseteq D

Count(D, c, i, cap, blocks, num) ==
    /\ Complete(cap, c, i) /\ c + 1 \notin D => blocks = <<>>
    /\ ~Complete(cap, c, i) /\ ~({c, c + 1} \subseteq D) => num = i + 1

Assembled(D, c, i, cap, blocks) ==
    c \notin D /\ ~Complete(cap, c, i) =>
        /\ blocks # <<>> /\ Head(blocks).type = cap[c].type
        /\ FlattenSeq(Cnts(blocks)) = Prefix(c, cap[c].len, i)

Given(D, c, i, cap, contents) ==
    \A k \in 1..Len(cap) : k \notin D /\ (k < c \/ (k = c /\ Complete(cap, c, i))) =>
        \E n \in 1..Len(contents) : contents[n] = WholeOf(cap, k)

Orderly(D, c, i, cap, contents) ==
    D = {} => /\ Complete(cap, c, i) => Len(contents) = c
              /\ ~Complete(cap, c, i) => Len(contents) = c - 1
              /\ \A k \in 1..Len(contents) : contents[k] = WholeOf(cap, k)

Tracked(D, c, i) ==
    /\ Latest(c, i, captured, pushed, fifo, block)
    /\ Missing(D, c, i, captured, pushed, fifo, block)
    /\ Stragglers(D, c, i, block)
    /\ Count(D, c, i, captured, capBlocks, next)
    /\ Assembled(D, c, i, captured, capBlocks)
    /\ Given(D, c, i, captured, parsed)
    /\ Orderly(D, c, i, captured, parsed)

Reassembled == \E D \in SUBSET Nat, c \in Nat, i \in Nat :
    IsFiniteSet(D) /\ Cardinality(D) <= 2 * lost + 3 * overtaken /\ Tracked(D, c, i)

LEMMA ReassembledInit == Init => Reassembled
<1> SUFFICES ASSUME Init PROVE Reassembled
  OBVIOUS
<1>1. Len(captured) = 0 /\ Len(fifo) = 0 /\ Len(parsed) = 0 /\ capBlocks = <<>>
      /\ (\A t \in Parsers : block[t] = NoBlock) /\ lost = 0 /\ overtaken = 0
  BY DEF Init
<1>2. Latest(0, 0, captured, pushed, fifo, block)
      /\ Missing({}, 0, 0, captured, pushed, fifo, block)
  BY <1>1 DEF Latest, Missing
<1>3. Complete(captured, 0, 0) /\ Stragglers({}, 0, 0, block)
  BY <1>1 DEF Complete, Stragglers
<1>4. /\ Count({}, 0, 0, captured, capBlocks, next) /\ Assembled({}, 0, 0, captured, capBlocks)
      /\ Given({}, 0, 0, captured, parsed) /\ Orderly({}, 0, 0, captured, parsed)
  BY <1>1, <1>3 DEF Count, Assembled, Given, Orderly
<1>5. Tracked({}, 0, 0)
  BY <1>2, <1>3, <1>4 DEF Tracked
<1>6. {} \in SUBSET Nat /\ IsFiniteSet({}) /\ Cardinality({}) <= 2 * lost + 3 * overtaken
  BY <1>1, FS_EmptySet
<1> QED
  BY <1>5, <1>6 DEF Reassembled

LEMMA TrackedMore ==
  ASSUME NEW D, NEW E, NEW c, NEW i, Tracked(D, c, i), D \subseteq E
  PROVE  Tracked(E, c, i)
<1>1. /\ Latest(c, i, captured, pushed, fifo, block)
      /\ Missing(E, c, i, captured, pushed, fifo, block)
  BY DEF Tracked, Missing
<1>2. Stragglers(E, c, i, block)
  BY DEF Tracked, Stragglers
<1>3. Count(E, c, i, captured, capBlocks, next)
  BY DEF Tracked, Count
<1>4. Assembled(E, c, i, captured, capBlocks)
  BY DEF Tracked, Assembled
<1>5. Given(E, c, i, captured, parsed)
  BY DEF Tracked, Given
<1>6. Orderly(E, c, i, captured, parsed)
  BY DEF Tracked, Orderly
<1> QED
  BY <1>1, <1>2, <1>3, <1>4, <1>5, <1>6 DEF Tracked

(* Capturing a content leaves everything about those before it alone.      *)
LEMMA TrackedCapture ==
  ASSUME Typed, NEW type \in Types, NEW len \in Lens, Capture(type, len),
         NEW D, NEW c \in Nat, NEW i \in Nat, Tracked(D, c, i)
  PROVE  Tracked(D, c, i)'
<1> DEFINE m == Len(captured)
<1>1. /\ m \in Nat /\ Len(captured') = m + 1 /\ pushed' = 0 /\ pushed = LastTotal
      /\ \A k \in 1..m : captured'[k] = captured[k]
      /\ UNCHANGED <<fifo, block, capBlocks, next, parsed, lost, overtaken>>
  BY CaptureGrows DEF Grown, Capture
<1>2. \A k \in 1..m : /\ TotalOf(captured', k) = TotalOf(captured, k)
                      /\ WholeOf(captured', k) = WholeOf(captured, k)
  BY <1>1 DEF TotalOf, WholeOf
<1>3. m > 0 => pushed = TotalOf(captured, m)
  BY <1>1, CapturedType DEF TotalOf
<1>4. ASSUME NEW k, NEW j
      PROVE  Reached(captured', pushed', k, j) <=> Reached(captured, pushed, k, j)
  <2>1. CASE k \in 1..m
    BY <1>1, <1>2, <1>3, <2>1, CapturedType DEF Reached, TotalOf
  <2>2. CASE k = m + 1
    BY <1>1, <2>2 DEF Reached
  <2>3. CASE k \notin 1..(m + 1)
    BY <1>1, <2>3 DEF Reached
  <2> QED
    BY <1>1, <2>1, <2>2, <2>3
<1>5. c = 0 \/ c \in 1..m
  BY DEF Tracked, Latest, Reached
<1>6. Complete(captured', c, i) <=> Complete(captured, c, i)
  BY <1>2, <1>5 DEF Complete
<1>7. Latest(c, i, captured', pushed', fifo', block')
  BY <1>1, <1>4 DEF Tracked, Latest
<1>8. Missing(D, c, i, captured', pushed', fifo', block')
  <2>1. ASSUME NEW k \in 1..(m + 1)
        PROVE  {k, k + 1} \subseteq D \/
               \A j : Reached(captured', pushed', k, j) /\ Beyond(k, j, c, i)
                         => InTransit(fifo, block, k, j)
    <3>1. CASE k \in 1..m
      BY <1>4, <3>1 DEF Tracked, Missing
    <3>2. CASE k = m + 1
      <4>1. \A j : ~Reached(captured', pushed', k, j)
        BY <1>1, <3>2 DEF Reached
      <4> QED
        BY <4>1
    <3> QED
      BY <1>1, <3>1, <3>2
  <2> QED
    BY <1>1, <2>1 DEF Missing
<1>9. Stragglers(D, c, i, block')
  BY <1>1 DEF Tracked
<1>10. Count(D, c, i, captured', capBlocks', next')
  BY <1>1, <1>6 DEF Tracked, Count
<1>11. Assembled(D, c, i, captured', capBlocks')
  <2>1. c = 0 \/ captured'[c] = captured[c]
    BY <1>1, <1>5
  <2> QED
    BY <1>1, <1>6, <2>1 DEF Tracked, Assembled, Complete
<1>12. Given(D, c, i, captured', parsed')
  <2>1. ASSUME NEW k \in 1..(m + 1), k < c \/ (k = c /\ Complete(captured, c, i)) PROVE k \in 1..m
    BY <1>1, <1>5, <2>1
  <2> QED
    BY <1>1, <1>2, <1>6, <2>1 DEF Tracked, Given
<1>13. Orderly(D, c, i, captured', parsed')
  <2>1. SUFFICES ASSUME D = {}
                 PROVE  /\ Complete(captured, c, i) => Len(parsed) = c
                        /\ ~Complete(captured, c, i) => Len(parsed) = c - 1
                        /\ \A k \in 1..Len(parsed) : parsed[k] = WholeOf(captured', k)
    BY <1>1, <1>6 DEF Orderly
  <2>2. /\ Complete(captured, c, i) => Len(parsed) = c
        /\ ~Complete(captured, c, i) => Len(parsed) = c - 1
        /\ \A k \in 1..Len(parsed) : parsed[k] = WholeOf(captured, k)
    BY <2>1 DEF Tracked, Orderly
  <2>3. \A k \in 1..Len(parsed) : k \in 1..m
    BY <1>1, <1>5, <2>2
  <2> QED
    BY <1>2, <2>2, <2>3
<1> QED
  BY <1>7, <1>8, <1>9, <1>10, <1>11, <1>12, <1>13 DEF Tracked
(* What a step leaves alone that only moves blocks.                        *)
LEMMA TrackedMoves ==
  ASSUME NEW D, NEW c, NEW i, Tracked(D, c, i),
         UNCHANGED <<captured, capBlocks, next, parsed>>,
         Latest(c, i, captured, pushed', fifo', block'),
         Missing(D, c, i, captured, pushed', fifo', block'),
         Stragglers(D, c, i, block')
  PROVE  Tracked(D, c, i)'
<1> QED
  BY DEF Tracked

LEMMA ReachedNext ==
  ASSUME Typed, pushed < LastTotal, NEW k, NEW j
  PROVE  Reached(captured, pushed + 1, k, j) <=>
            Reached(captured, pushed, k, j) \/ (k = Len(captured) /\ j = pushed + 1)
<1>1. /\ Len(captured) \in 1..Len(captured) /\ pushed \in Nat
      /\ pushed + 1 \in 1..TotalOf(captured, Len(captured))
  BY NextBlockType, CapturedType DEF Typed, TotalOf
<1>2. CASE k = Len(captured)
  BY <1>1, <1>2 DEF Reached
<1>3. CASE k # Len(captured)
  BY <1>1, <1>3 DEF Reached
<1> QED
  BY <1>2, <1>3

LEMMA TrackedPush ==
  ASSUME Typed, PushBlock, NEW D, NEW c \in Nat, NEW i \in Nat, Tracked(D, c, i)
  PROVE  Tracked(D, c, i)'
<1> DEFINE m == Len(captured)
           b == NextBlock
<1>1. /\ pushed' = pushed + 1 /\ block' = block /\ fifo' = Append(fifo, b) /\ pushed < LastTotal
      /\ UNCHANGED <<captured, capBlocks, next, parsed>>
  BY DEF PushBlock, Queue!Push
<1>2. b \in Blocks /\ b.content = m /\ b.curr = pushed + 1 /\ pushed \in Nat /\ m \in Nat
  BY <1>1, NextBlockType, NextIsLast, CapturedType DEF Typed
<1>3. /\ Len(fifo') = Len(fifo) + 1 /\ fifo'[Len(fifo) + 1] = b /\ Len(fifo) \in Nat
      /\ \A n \in 1..Len(fifo) : fifo'[n] = fifo[n]
  BY <1>1, <1>2, AppendProperties, LenProperties DEF Typed
<1>4. \A k, j : Reached(captured, pushed', k, j) <=>
                   Reached(captured, pushed, k, j) \/ (k = m /\ j = pushed + 1)
  BY <1>1, ReachedNext
<1> HIDE DEF b
<1>5. \A k, j : InTransit(fifo, block, k, j) => InTransit(fifo', block', k, j)
  BY <1>1, <1>3 DEF InTransit
<1>6. InTransit(fifo', block', m, pushed + 1)
  <2>1. Len(fifo) + 1 \in 1..Len(fifo')
    BY <1>3
  <2> QED
    BY <1>2, <1>3, <2>1 DEF InTransit
<1>7. Latest(c, i, captured, pushed', fifo', block')
  <2>1. (c = 0 /\ i = 0) \/ Reached(captured, pushed, c, i)
    BY DEF Tracked, Latest
  <2>2. Beyond(m, pushed + 1, c, i)
    <3>1. CASE c = 0
      BY <1>1, <1>2, <3>1, NextBlockType DEF Beyond
    <3>2. CASE Reached(captured, pushed, c, i)
      BY <1>2, <3>2 DEF Beyond, Reached
    <3> QED
      BY <2>1, <3>1, <3>2
  <2>3. ASSUME NEW n \in 1..Len(fifo') PROVE Beyond(fifo'[n].content, fifo'[n].curr, c, i)
    <3>1. CASE n = Len(fifo) + 1
      BY <1>2, <1>3, <2>2, <3>1
    <3>2. CASE n \in 1..Len(fifo)
      BY <1>3, <3>2 DEF Tracked, Latest
    <3> QED
      BY <1>3, <3>1, <3>2
  <2>4. (c = 0 /\ i = 0) \/ Reached(captured, pushed', c, i)
    BY <1>4, <2>1
  <2> QED
    BY <1>1, <2>3, <2>4 DEF Tracked, Latest
<1>8. Missing(D, c, i, captured, pushed', fifo', block')
  <2>1. ASSUME NEW k \in 1..m, ~({k, k + 1} \subseteq D), NEW j,
               Reached(captured, pushed', k, j), Beyond(k, j, c, i)
        PROVE  InTransit(fifo', block', k, j)
    <3>1. CASE Reached(captured, pushed, k, j)
      BY <1>5, <2>1, <3>1 DEF Tracked, Missing
    <3>2. CASE k = m /\ j = pushed + 1
      BY <1>6, <3>2
    <3> QED
      BY <1>4, <2>1, <3>1, <3>2
  <2> QED
    BY <2>1 DEF Missing
<1>9. Stragglers(D, c, i, block')
  BY <1>1 DEF Tracked
<1> QED
  BY <1>1, <1>7, <1>8, <1>9, TrackedMoves

(* The content of the lost block is damaged, and the one after it.         *)
LEMMA TrackedLose ==
  ASSUME Typed, LoseBlock, NEW D, NEW c \in Nat, NEW i \in Nat, Tracked(D, c, i),
         {Len(captured), Len(captured) + 1} \subseteq D
  PROVE  Tracked(D, c, i)'
<1>1. /\ pushed' = pushed + 1 /\ pushed < LastTotal
      /\ UNCHANGED <<captured, fifo, block, capBlocks, next, parsed>>
  BY DEF LoseBlock
<1>2. \A k, j : Reached(captured, pushed', k, j) <=>
                   Reached(captured, pushed, k, j) \/ (k = Len(captured) /\ j = pushed + 1)
  BY <1>1, ReachedNext
<1>3. Latest(c, i, captured, pushed', fifo', block')
  BY <1>1, <1>2 DEF Tracked, Latest
<1>4. Missing(D, c, i, captured, pushed', fifo', block')
  <2>1. ASSUME NEW k \in 1..Len(captured), ~({k, k + 1} \subseteq D), NEW j,
               Reached(captured, pushed', k, j), Beyond(k, j, c, i)
        PROVE  InTransit(fifo', block', k, j)
    <3>1. k # Len(captured)
      BY <2>1
    <3> QED
      BY <1>1, <1>2, <2>1, <3>1 DEF Tracked, Missing
  <2> QED
    BY <2>1 DEF Missing
<1>5. Stragglers(D, c, i, block')
  BY <1>1 DEF Tracked
<1> QED
  BY <1>1, <1>3, <1>4, <1>5, TrackedMoves

LEMMA TrackedPop ==
  ASSUME Typed, NEW t \in Parsers, PopBlock(t),
         NEW D, NEW c \in Nat, NEW i \in Nat, Tracked(D, c, i)
  PROVE  Tracked(D, c, i)'
<1>1. /\ fifo # <<>> /\ fifo' = Tail(fifo) /\ block' = [block EXCEPT ![t] = Head(fifo)]
      /\ block[t] = NoBlock /\ pushed' = pushed
      /\ UNCHANGED <<captured, capBlocks, next, parsed>>
  BY DEF PopBlock, Queue!Pop, Typed
<1>2. /\ Len(fifo') = Len(fifo) - 1 /\ Len(fifo) \in Nat \ {0}
      /\ \A n \in 1..Len(fifo') : fifo'[n] = fifo[n + 1] /\ n + 1 \in 1..Len(fifo)
  BY <1>1, HeadTailProperties, EmptySeq DEF Typed
<1>3. fifo[1] \in Blocks /\ 1 \in 1..Len(fifo) /\ Head(fifo) = fifo[1]
  BY <1>2, ElementOfSeq DEF Typed
<1>4. fifo[1] # NoBlock /\ \A u \in Parsers : block'[u] = IF u = t THEN fifo[1] ELSE block[u]
  BY <1>1, <1>3, BlockAssumption DEF Typed
<1>5. Beyond(fifo[1].content, fifo[1].curr, c, i)
  BY <1>3 DEF Tracked, Latest
<1>6. ~(fifo[1].content = c /\ fifo[1].curr = i)
  BY <1>5 DEF Beyond
<1>7. Latest(c, i, captured, pushed', fifo', block')
  BY <1>1, <1>2, <1>4, <1>6 DEF Tracked, Latest
<1>8. ASSUME NEW k, NEW j, InTransit(fifo, block, k, j)
      PROVE  InTransit(fifo', block', k, j)
  <2>1. ASSUME NEW n \in 1..Len(fifo), fifo[n].content = k, fifo[n].curr = j
        PROVE  InTransit(fifo', block', k, j)
    <3>1. CASE n = 1
      BY <1>4, <2>1, <3>1 DEF InTransit
    <3>2. CASE n # 1
      <4>1. n - 1 \in 1..Len(fifo') /\ (n - 1) + 1 = n
        BY <1>2, <3>2
      <4>2. fifo'[n - 1] = fifo[n]
        BY <1>2, <4>1
      <4> QED
        BY <2>1, <4>1, <4>2 DEF InTransit
    <3> QED
      BY <3>1, <3>2
  <2>2. ASSUME NEW u \in Parsers, block[u] # NoBlock, block[u].content = k, block[u].curr = j
        PROVE  InTransit(fifo', block', k, j)
    <3>1. block'[u] = block[u]
      BY <1>1, <1>4, <2>2
    <3> QED
      BY <2>2, <3>1 DEF InTransit
  <2> QED
    BY <1>8, <2>1, <2>2 DEF InTransit
<1>9. Missing(D, c, i, captured, pushed', fifo', block')
  BY <1>1, <1>8 DEF Tracked, Missing
<1>10. Stragglers(D, c, i, block')
  BY <1>4, <1>5 DEF Tracked, Stragglers
<1> QED
  BY <1>1, <1>7, <1>9, <1>10, TrackedMoves
-----------------------------------------------------------------------------
(* A parser appends its block.                                             *)

LEMMA HeldBlock ==
  ASSUME Typed, Transit, NEW t \in Parsers, block[t] # NoBlock
  PROVE  LET b == block[t] IN
         /\ b \in Blocks /\ b.content \in 1..Len(captured) /\ b.content \in Nat \ {0}
         /\ b.curr \in 1..TotalOf(captured, b.content) /\ b.curr \in Nat \ {0}
         /\ TotalOf(captured, b.content) \in Nat \ {0}
         /\ b.total = TotalOf(captured, b.content) /\ b.type = captured[b.content].type
         /\ b = BlockOf(captured, b.content, b.curr)
         /\ Reached(captured, pushed, b.content, b.curr)
<1> DEFINE b == block[t]
<1>1. Sent(captured, pushed, b)
  BY DEF Transit, InOrder
<1>2. Reached(captured, pushed, b.content, b.curr) /\ b = BlockOf(captured, b.content, b.curr)
  BY <1>1 DEF Sent
<1>3. b.content \in 1..Len(captured) /\ b.curr \in 1..TotalOf(captured, b.content)
  BY <1>2 DEF Reached
<1>4. TotalOf(captured, b.content) \in Nat \ {0} /\ b.content \in Nat \ {0}
      /\ b.curr \in Nat \ {0}
  <2> HIDE DEF b
  <2>1. TotalOf(captured, b.content) \in Nat \ {0}
    BY <1>3, CapturedType DEF TotalOf
  <2>2. b.content \in Nat \ {0} /\ b.curr \in Nat \ {0}
    BY <1>3, <2>1, CapturedType
  <2> QED
    BY <2>1, <2>2
<1>5. b \in Blocks
  BY DEF Typed
<1>6. b.total = TotalOf(captured, b.content) /\ b.type = captured[b.content].type
  BY <1>2 DEF BlockOf, Block, TotalOf
<1> QED
  BY <1>2, <1>3, <1>4, <1>5, <1>6

(* A block that is earlier than the one appended, later than the latest,   *)
(* and not missing, is overtaken.                                          *)
LEMMA HeldEarlier ==
  ASSUME Typed, Transit, NEW t \in Parsers, block[t] # NoBlock,
         NEW D, NEW c \in Nat, NEW i \in Nat, Tracked(D, c, i),
         NEW x \in 1..Len(captured), NEW y \in 1..TotalOf(captured, x),
         Beyond(x, y, c, i), Beyond(block[t].content, block[t].curr, x, y),
         ~({x, x + 1} \subseteq D)
  PROVE  \E u \in Overtaken(t) : block[u].content = x /\ block[u].curr = y
<1> DEFINE k == block[t].content
           j == block[t].curr
<1>1. /\ k \in 1..Len(captured) /\ k \in Nat /\ j \in Nat /\ x \in Nat /\ y \in Int
      /\ Reached(captured, pushed, k, j) /\ Len(captured) \in Nat
  BY HeldBlock, CapturedType, SMTT(30)
<1>2. x < k \/ (x = k /\ y < j)
  BY DEF Beyond
<1> HIDE DEF k, j
<1>3. Reached(captured, pushed, x, y)
  <2>1. ASSUME x = Len(captured) PROVE y <= pushed
    <3>1. x = k /\ y < j /\ j <= pushed
      BY <1>1, <1>2, <2>1 DEF Reached
    <3> QED
      BY <1>1, <3>1 DEF Typed
  <2> QED
    BY <2>1 DEF Reached
<1>4. InTransit(fifo, block, x, y)
  BY <1>3 DEF Tracked, Missing
<1>5. ASSUME NEW n \in 1..Len(fifo), fifo[n].content = x, fifo[n].curr = y
      PROVE  FALSE
  <2>1. Earlier(block[t], fifo[n])
    BY DEF Transit, InOrder
  <2>2. k < x \/ (k = x /\ j < y)
    BY <1>5, <2>1 DEF Earlier, k, j
  <2> QED
    BY <1>1, <1>2, <2>2
<1>6. PICK u \in Parsers : block[u] # NoBlock /\ block[u].content = x /\ block[u].curr = y
  BY <1>4, <1>5 DEF InTransit
<1>7. Earlier(block[u], block[t])
  BY <1>2, <1>6 DEF Earlier, k, j
<1> QED
  BY <1>6, <1>7 DEF Overtaken

(* When it overtakes none, and its content and the one before are not      *)
(* damaged, the block appended is the one after the latest.                *)
LEMMA NoGap ==
  ASSUME Typed, Transit, NEW t \in Parsers, block[t] # NoBlock, Overtaken(t) = {},
         NEW D, NEW c \in Nat, NEW i \in Nat, Tracked(D, c, i),
         Beyond(block[t].content, block[t].curr, c, i)
  PROVE  LET k == block[t].content
             j == block[t].curr
         IN  /\ j > 1 /\ ~({k, k + 1} \subseteq D) =>
                   /\ c = k /\ i = j - 1 /\ ~Complete(captured, c, i)
             /\ j = 1 /\ k \notin D => c = k - 1 /\ Complete(captured, c, i)
<1> DEFINE k == block[t].content
           j == block[t].curr
<1>1. /\ k \in 1..Len(captured) /\ k \in Nat \ {0} /\ j \in Nat \ {0}
      /\ j \in 1..TotalOf(captured, k) /\ TotalOf(captured, k) \in Nat \ {0}
      /\ Len(captured) \in Nat
  BY HeldBlock, CapturedType
<1>2. c < k \/ (c = k /\ i < j)
  BY DEF Beyond
<1>3. \A x \in 1..Len(captured) : \A y \in 1..TotalOf(captured, x) :
         Beyond(x, y, c, i) /\ (x < k \/ (x = k /\ y < j)) => {x, x + 1} \subseteq D
  BY HeldEarlier DEF Beyond
<1>4. (c = 0 /\ i = 0) \/ (c \in 1..Len(captured) /\ i \in 1..TotalOf(captured, c))
  BY DEF Tracked, Latest, Reached
<1> HIDE DEF k, j
<1>5. ASSUME j > 1, ~({k, k + 1} \subseteq D)
      PROVE  c = k /\ i = j - 1 /\ ~Complete(captured, c, i)
  <2>1. j - 1 \in 1..TotalOf(captured, k)
    BY <1>1, <1>5
  <2>2. ~Beyond(k, j - 1, c, i)
    BY <1>1, <1>3, <1>5, <2>1
  <2>3. c = k /\ i = j - 1
    BY <1>1, <1>2, <2>2 DEF Beyond
  <2> QED
    BY <1>1, <2>3 DEF Complete
<1>6. ASSUME j = 1, k \notin D
      PROVE  c = k - 1 /\ Complete(captured, c, i)
  <2>1. c < k
    <3>1. CASE c = 0
      BY <1>1, <3>1
    <3>2. CASE c \in 1..Len(captured) /\ i \in 1..TotalOf(captured, c)
      BY <1>1, <1>2, <1>6, <3>2
    <3> QED
      BY <1>4, <3>1, <3>2
  <2>2. CASE k = 1
    BY <2>1, <2>2 DEF Complete
  <2>3. CASE k > 1
    <3>1. /\ k - 1 \in 1..Len(captured) /\ (k - 1) + 1 = k
          /\ TotalOf(captured, k - 1) \in Nat \ {0}
          /\ TotalOf(captured, k - 1) \in 1..TotalOf(captured, k - 1)
      BY <1>1, <2>3, CapturedType, SMTT(30) DEF TotalOf
    <3>2. ~Beyond(k - 1, TotalOf(captured, k - 1), c, i)
      BY <1>1, <1>3, <1>6, <3>1
    <3>3. c = k - 1 /\ ~(i < TotalOf(captured, c))
      BY <1>1, <2>1, <3>2 DEF Beyond
    <3>4. i \in 1..TotalOf(captured, c)
      BY <1>4, <2>3, <3>3
    <3> QED
      BY <3>1, <3>3, <3>4 DEF Complete
  <2> QED
    BY <1>1, <2>2, <2>3
<1> QED
  BY <1>5, <1>6 DEF k, j
(* The content that a last block completes.                                *)
LEMMA OutCapWhole ==
  ASSUME Typed, NEW k \in 1..Len(captured), NEW blocks \in Seq(Blocks),
         Head(blocks).type = captured[k].type,
         FlattenSeq(Cnts(blocks)) = Prefix(k, captured[k].len, TotalOf(captured, k))
  PROVE  OutCap(blocks) = WholeOf(captured, k)
<1> DEFINE len == captured[k].len
<1>1. k \in Nat /\ len \in Nat \ {0}
  BY CapturedType
<1> DEFINE cnt == Bytes(k, len) \o Stale(k, len)
<1>2. FlattenSeq(Cnts(blocks)) = cnt
  BY <1>1, PrefixEnds, ArrivingIs DEF TotalOf
<1> HIDE DEF cnt
<1>3. OutCap(blocks) = [type |-> Head(blocks).type,
                        cnt  |-> SubSeq(cnt, 1, Lowest(Len(cnt), MaxBuff - 1))]
  BY <1>2 DEF OutCap, Cnts
<1> QED
  BY <1>3 DEF WholeOf, cnt

(* The blocks of a content that is not damaged are put together: after its *)
(* first j blocks come its first j pieces, and _capBlocks expects them.    *)
LEMMA InSequence ==
  ASSUME Typed, Transit, NEW t \in Parsers, block[t] # NoBlock, Overtaken(t) = {},
         NEW D, NEW c \in Nat, NEW i \in Nat, Tracked(D, c, i),
         Beyond(block[t].content, block[t].curr, c, i), block[t].content \notin D
  PROVE  LET b == block[t]
             blocks == Append(capBlocks, b)
         IN  /\ b.curr = Expected(b)
             /\ blocks \in Seq(Blocks) /\ blocks # <<>>
             /\ Head(blocks).type = captured[b.content].type
             /\ FlattenSeq(Cnts(blocks)) = Prefix(b.content, captured[b.content].len, b.curr)
<1> DEFINE b == block[t]
           k == b.content
           j == b.curr
           len == captured[k].len
           blocks == Append(capBlocks, b)
<1>1. /\ b \in Blocks /\ k \in Nat \ {0} /\ k \in 1..Len(captured) /\ j \in Nat \ {0}
      /\ j \in 1..Total(len) /\ b.type = captured[k].type
      /\ b = Block(k, captured[k].type, len, j) /\ len \in Nat \ {0}
  BY HeldBlock, CapturedType DEF BlockOf, TotalOf
<1>2. capBlocks \in Seq(Blocks) /\ blocks \in Seq(Blocks) /\ blocks # <<>>
  <2> HIDE DEF b
  <2>1. capBlocks \in Seq(Blocks)
    BY DEF Typed
  <2> QED
    BY <1>1, <2>1, AppendProperties
<1>3. /\ j > 1 => c = k /\ i = j - 1 /\ ~Complete(captured, c, i)
      /\ j = 1 => c = k - 1 /\ Complete(captured, c, i)
  BY NoGap
<1>4. /\ Prefix(k, len, j) = Prefix(k, len, j - 1) \o Copied(b)
      /\ FlattenSeq(Cnts(blocks)) = FlattenSeq(Cnts(capBlocks)) \o Copied(b)
  <2> HIDE DEF b, k, j, len
  <2>1. FlattenSeq(Cnts(blocks)) = FlattenSeq(Cnts(capBlocks)) \o Copied(b)
    BY <1>1, <1>2, CntsAppend
  <2>2. Prefix(k, len, j) = Prefix(k, len, j - 1) \o Copied(Block(k, captured[k].type, len, j))
    <3>1. k \in Nat /\ len \in Nat \ {0} /\ j \in 1..Total(len) /\ captured[k].type \in Types
      BY <1>1, CapturedType
    <3> HIDE DEF blocks
    <3> QED
      BY <3>1, PrefixGrows, ZenonT(60)
  <2> QED
    BY <1>1, <2>1, <2>2
<1>5. Head(blocks) = IF capBlocks = <<>> THEN b ELSE Head(capBlocks)
  BY <1>2, HeadTailAppend
<1>6. k \notin D /\ Count(D, c, i, captured, capBlocks, next)
      /\ Assembled(D, c, i, captured, capBlocks)
  BY DEF Tracked
<1> HIDE DEF b, k, j, len, blocks
<1>7. CASE j = 1
  <2>1. (k - 1) + 1 = k /\ j - 1 = 0
    BY <1>1, <1>7
  <2>2. capBlocks = <<>>
    BY <1>3, <1>6, <1>7, <2>1 DEF Count
  <2>3. FlattenSeq(Cnts(capBlocks)) = Prefix(k, len, j - 1)
    <3>1. Cnts(capBlocks) = <<>>
      BY <2>2 DEF Cnts
    <3> QED
      BY <1>1, <2>1, <3>1, FlattenEmpty, PrefixBegins
  <2>4. j = Expected(b)
    BY <1>7 DEF Expected, j
  <2> QED
    BY <1>1, <1>2, <1>4, <1>5, <2>2, <2>3, <2>4 DEF b, k, j, len, blocks
<1>8. CASE j > 1
  <2>1. c = k /\ i = j - 1 /\ ~Complete(captured, c, i)
    BY <1>3, <1>8
  <2>2. next = j
    BY <1>1, <1>6, <2>1 DEF Count
  <2>3. /\ capBlocks # <<>> /\ Head(capBlocks).type = captured[k].type
        /\ FlattenSeq(Cnts(capBlocks)) = Prefix(k, len, j - 1)
    BY <1>6, <2>1 DEF Assembled, len
  <2>4. j = Expected(b)
    BY <1>8, <2>2 DEF Expected, j
  <2> QED
    BY <1>2, <1>4, <1>5, <2>3, <2>4 DEF b, k, j, len, blocks
<1> QED
  BY <1>1, <1>7, <1>8
LEMMA AppendEffects ==
  ASSUME Typed, NEW t \in Parsers, AppendToProcess(t)
  PROVE  LET b == block[t]
             blocks == Append(capBlocks, b)
         IN  /\ b # NoBlock
             /\ \A u \in Parsers : block'[u] = IF u = t THEN NoBlock ELSE block[u]
             /\ overtaken' = overtaken + Cardinality(Overtaken(t))
             /\ UNCHANGED <<captured, pushed, fifo, lost>>
             /\ b.curr = Expected(b) /\ b.curr = b.total =>
                    parsed' = Append(parsed, OutCap(blocks)) /\ capBlocks' = <<>>
             /\ b.curr = Expected(b) /\ b.curr # b.total =>
                    parsed' = parsed /\ capBlocks' = blocks /\ next' = b.curr + 1
             /\ b.curr # Expected(b) =>
                    parsed' = parsed /\ capBlocks' = capBlocks /\ next' = b.curr + 1
<1>1. \A u \in Parsers : block'[u] = IF u = t THEN NoBlock ELSE block[u]
  BY DEF AppendToProcess, Typed
<1>2. AppendBlock(block[t]) /\ block[t] # NoBlock
      /\ overtaken' = overtaken + Cardinality(Overtaken(t))
      /\ UNCHANGED <<captured, pushed, fifo, lost>>
  BY DEF AppendToProcess
<1> QED
  BY <1>1, <1>2 DEF AppendBlock, Kept

(* parsed only grows.                                                      *)
LEMMA ParsedGrows ==
  ASSUME Typed, NEW t \in Parsers, AppendToProcess(t)
  PROVE  /\ Len(parsed) \in Nat /\ Len(parsed') \in Nat /\ Len(parsed) <= Len(parsed')
         /\ \A n \in 1..Len(parsed) : parsed'[n] = parsed[n]
         /\ \A s : parsed' = Append(parsed, s) =>
                Len(parsed') = Len(parsed) + 1 /\ parsed'[Len(parsed) + 1] = s
<1>1. parsed \in Seq(Contents) /\ Len(parsed) \in Nat
  BY LenProperties DEF Typed
<1>2. ASSUME NEW s, parsed' = Append(parsed, s)
      PROVE  /\ Len(parsed') = Len(parsed) + 1 /\ parsed'[Len(parsed) + 1] = s
             /\ \A n \in 1..Len(parsed) : parsed'[n] = parsed[n]
  BY <1>1, <1>2
<1>3. parsed' = parsed \/ parsed' = Append(parsed, OutCap(Append(capBlocks, block[t])))
  BY AppendEffects
<1> HIDE DEF OutCap
<1>4. CASE parsed' = parsed
  <2>1. \A s : parsed' # Append(parsed, s)
    BY <1>1, <1>2, <1>4
  <2> QED
    BY <1>1, <1>4, <2>1
<1>5. CASE parsed' = Append(parsed, OutCap(Append(capBlocks, block[t])))
  BY <1>1, <1>2, <1>5
<1> QED
  BY <1>3, <1>4, <1>5

LEMMA TrackedAppend ==
  ASSUME Typed, Transit, NEW t \in Parsers, AppendToProcess(t),
         NEW D, NEW c \in Nat, NEW i \in Nat, Tracked(D, c, i),
         NEW k, NEW j, k = block[t].content, j = block[t].curr, Beyond(k, j, c, i),
         NEW E, D \subseteq E,
         \A u \in Overtaken(t) : block[u].content..(k + 1) \subseteq E
  PROVE  Tracked(E, k, j)'
<1> DEFINE b == block[t]
           blocks == Append(capBlocks, b)
           m == Len(captured)
<1>1. /\ b # NoBlock /\ k \in 1..m /\ k \in Nat \ {0} /\ m \in Nat
      /\ j \in 1..TotalOf(captured, k) /\ j \in Nat \ {0}
      /\ TotalOf(captured, k) \in Nat \ {0} /\ b.total = TotalOf(captured, k)
      /\ Reached(captured, pushed, k, j) /\ b.content = k /\ b.curr = j
  BY AppendEffects, HeldBlock, CapturedType
<1>2. /\ \A u \in Parsers : block'[u] = IF u = t THEN NoBlock ELSE block[u]
      /\ captured' = captured /\ pushed' = pushed /\ fifo' = fifo
  BY AppendEffects
<1>3. ASSUME NEW u \in Overtaken(t)
      PROVE  {k, k + 1} \subseteq E
  <2>1. /\ u \in Parsers /\ block[u] # NoBlock /\ Earlier(block[u], b)
    BY <1>3 DEF Overtaken
  <2>2. block[u].content \in Nat /\ block[u].content <= k
    BY <1>1, <2>1, HeldBlock DEF Earlier
  <2> QED
    BY <1>1, <1>3, <2>2, SMTT(30)
<1>4. ASSUME k \notin E
      PROVE  /\ b.curr = Expected(b) /\ blocks \in Seq(Blocks) /\ blocks # <<>>
             /\ Head(blocks).type = captured[k].type
             /\ FlattenSeq(Cnts(blocks)) = Prefix(k, captured[k].len, j)
  <2>1. Overtaken(t) = {} /\ k \notin D
    BY <1>3, <1>4
  <2> QED
    BY <1>1, <2>1, InSequence
<1>5. Complete(captured, k, j) <=> b.curr = b.total
  BY <1>1 DEF Complete
<1>6. /\ b.curr = Expected(b) /\ b.curr = b.total =>
            parsed' = Append(parsed, OutCap(blocks)) /\ capBlocks' = <<>>
      /\ b.curr = Expected(b) /\ b.curr # b.total =>
            parsed' = parsed /\ capBlocks' = blocks /\ next' = b.curr + 1
      /\ b.curr # Expected(b) =>
            parsed' = parsed /\ capBlocks' = capBlocks /\ next' = b.curr + 1
  BY AppendEffects
<1>7. /\ Latest(c, i, captured, pushed, fifo, block)
      /\ Missing(D, c, i, captured, pushed, fifo, block)
      /\ Count(D, c, i, captured, capBlocks, next)
      /\ Given(D, c, i, captured, parsed) /\ Orderly(D, c, i, captured, parsed)
  BY DEF Tracked
<1> HIDE DEF b, blocks, m
<1>8. ASSUME NEW u \in Parsers, block'[u] # NoBlock
      PROVE  /\ block'[u] = block[u] /\ u # t
             /\ block[u].content \in Nat /\ block[u].curr \in Nat
             /\ Earlier(block[u], b) \/ Earlier(b, block[u])
  <2>1. u # t /\ block'[u] = block[u] /\ block[u] # NoBlock
    BY <1>2, <1>8
  <2>2. Earlier(block[u], b) \/ Earlier(b, block[u])
    BY <1>1, <2>1 DEF Transit, InOrder, b
  <2>3. block[u].content \in Nat /\ block[u].curr \in Nat
    BY <2>1, HeldBlock
  <2> QED
    BY <2>1, <2>2, <2>3
<1>9. Latest(k, j, captured', pushed', fifo', block')
  <2>1. ASSUME NEW n \in 1..Len(fifo) PROVE Beyond(fifo[n].content, fifo[n].curr, k, j)
    <3>1. Earlier(b, fifo[n])
      BY <1>1 DEF Transit, InOrder, b
    <3> QED
      BY <1>1, <3>1 DEF Earlier, Beyond
  <2>2. ASSUME NEW u \in Parsers, block'[u] # NoBlock
        PROVE  ~(block'[u].content = k /\ block'[u].curr = j)
    BY <1>1, <1>8, <2>2 DEF Earlier
  <2> QED
    BY <1>1, <1>2, <2>1, <2>2 DEF Latest
<1>10. Missing(E, k, j, captured', pushed', fifo', block')
  <2>1. ASSUME NEW x \in 1..m, ~({x, x + 1} \subseteq E), NEW y,
               Reached(captured, pushed, x, y), Beyond(x, y, k, j)
        PROVE  InTransit(fifo, block', x, y)
    <3>1. x \in Nat /\ y \in Int
      BY <1>1, <2>1 DEF Reached
    <3>2. Beyond(x, y, c, i) /\ ~(x = k /\ y = j)
      BY <1>1, <2>1, <3>1 DEF Beyond
    <3>3. InTransit(fifo, block, x, y)
      BY <1>7, <2>1, <3>2 DEF Missing, m
    <3> QED
      BY <1>1, <1>2, <3>2, <3>3 DEF InTransit, b
  <2> QED
    BY <1>2, <2>1 DEF Missing, m
<1>11. Stragglers(E, k, j, block')
  <2>1. ASSUME NEW u \in Parsers, block'[u] # NoBlock,
               ~Beyond(block'[u].content, block'[u].curr, k, j)
        PROVE  block'[u].content..(k + 1) \subseteq E
    <3>1. Earlier(block[u], b) /\ block[u] # NoBlock /\ block'[u] = block[u]
      BY <1>1, <1>8, <2>1 DEF Earlier, Beyond
    <3>2. u \in Overtaken(t)
      BY <3>1 DEF Overtaken, b
    <3> QED
      BY <3>1, <3>2
  <2> QED
    BY <2>1 DEF Stragglers
<1>12. Count(E, k, j, captured', capBlocks', next')
  <2>1. ASSUME Complete(captured, k, j), k + 1 \notin E
        PROVE  capBlocks' = <<>>
    <3>1. Overtaken(t) = {} /\ k + 1 \notin D
      BY <1>3, <2>1
    <3>2. b.curr = Expected(b)
      <4>1. CASE j = 1
        BY <1>1, <4>1 DEF Expected
      <4>2. CASE j > 1
        <5>1. c = k /\ i = j - 1 /\ ~Complete(captured, c, i)
          BY <1>1, <3>1, <4>2, NoGap DEF b
        <5>2. next = j
          BY <1>1, <1>7, <3>1, <5>1 DEF Count
        <5> QED
          BY <1>1, <4>2, <5>2 DEF Expected
      <4> QED
        BY <1>1, <4>1, <4>2
    <3> QED
      BY <1>5, <1>6, <2>1, <3>2
  <2>2. ASSUME ~Complete(captured, k, j) PROVE next' = j + 1
    BY <1>1, <1>5, <1>6, <2>2
  <2> QED
    BY <1>2, <2>1, <2>2 DEF Count
<1>13. Assembled(E, k, j, captured', capBlocks')
  BY <1>2, <1>4, <1>5, <1>6 DEF Assembled
<1>14. /\ Len(parsed) \in Nat /\ Len(parsed') \in Nat /\ Len(parsed) <= Len(parsed')
       /\ \A n \in 1..Len(parsed) : parsed'[n] = parsed[n] /\ n \in 1..Len(parsed')
  BY ParsedGrows
<1>15. ASSUME k \notin E, Complete(captured, k, j)
       PROVE  Len(parsed') = Len(parsed) + 1 /\ parsed'[Len(parsed) + 1] = WholeOf(captured, k)
  <2>1. j = TotalOf(captured, k)
    BY <1>1, <1>15 DEF Complete
  <2>2. OutCap(blocks) = WholeOf(captured, k)
    BY <1>1, <1>4, <1>15, <2>1, OutCapWhole DEF m
  <2>3. parsed' = Append(parsed, OutCap(blocks))
    BY <1>4, <1>5, <1>6, <1>15
  <2> QED
    BY <2>2, <2>3, ParsedGrows
<1>16. Given(E, k, j, captured', parsed')
  <2>1. ASSUME NEW x \in 1..m, x \notin E, x < k \/ (x = k /\ Complete(captured, k, j))
        PROVE  \E n \in 1..Len(parsed') : parsed'[n] = WholeOf(captured, x)
    <3>1. CASE x = k
      <4>1. Len(parsed) + 1 \in 1..Len(parsed') /\ parsed'[Len(parsed) + 1] = WholeOf(captured, x)
        BY <1>1, <1>14, <1>15, <2>1, <3>1
      <4> QED
        BY <4>1
    <3>2. CASE x # k /\ (x < c \/ (x = c /\ Complete(captured, c, i)))
      <4>1. PICK n \in 1..Len(parsed) : parsed[n] = WholeOf(captured, x)
        BY <1>7, <2>1, <3>2 DEF Given, m
      <4> QED
        BY <1>14, <4>1
    <3>3. CASE x # k /\ ~(x < c \/ (x = c /\ Complete(captured, c, i)))
      <4> DEFINE y == TotalOf(captured, x)
      <4>1. y \in Nat \ {0} /\ y \in 1..y /\ x < k /\ x \in Nat
        BY <1>1, <2>1, <3>3, CapturedType, SMTT(30) DEF TotalOf, m
      <4>2. Beyond(x, y, c, i)
        <5>1. CASE x = c
          <6>1. i \in 1..y /\ i # y
            BY <3>3, <5>1, <1>7, <2>1, <1>1 DEF Latest, Reached, Complete
          <6> QED
            BY <4>1, <5>1, <6>1 DEF Beyond
        <5>2. CASE x # c
          BY <3>3, <4>1, <5>2 DEF Beyond
        <5> QED
          BY <5>1, <5>2
      <4>3. Beyond(b.content, b.curr, x, y) /\ ~({x, x + 1} \subseteq D)
        BY <1>1, <2>1, <4>1 DEF Beyond
      <4> HIDE DEF y
      <4>4. \E u \in Overtaken(t) : block[u].content = x
        BY <1>1, <2>1, <4>1, <4>2, <4>3, HeldEarlier DEF b, m, y
      <4>5. x \in x..(k + 1)
        BY <1>1, <4>1
      <4> QED
        BY <2>1, <4>4, <4>5
    <3> QED
      BY <3>1, <3>2, <3>3
  <2> QED
    BY <1>2, <2>1 DEF Given, m
<1>17. Orderly(E, k, j, captured', parsed')
  <2>1. SUFFICES ASSUME E = {}
                 PROVE  /\ Complete(captured, k, j) => Len(parsed') = k
                        /\ ~Complete(captured, k, j) => Len(parsed') = k - 1
                        /\ \A n \in 1..Len(parsed') : parsed'[n] = WholeOf(captured, n)
    BY <1>2 DEF Orderly
  <2>2. Overtaken(t) = {} /\ D = {}
    BY <1>3, <2>1
  <2>3. /\ Complete(captured, c, i) => Len(parsed) = c
        /\ ~Complete(captured, c, i) => Len(parsed) = c - 1
        /\ \A n \in 1..Len(parsed) : parsed[n] = WholeOf(captured, n)
    BY <1>7, <2>2 DEF Orderly
  <2>4. Len(parsed) = k - 1
    <3>1. CASE j = 1
      <4>1. c = k - 1 /\ Complete(captured, c, i)
        BY <1>1, <2>2, <3>1, NoGap, ZenonT(60) DEF b
      <4> QED
        BY <2>3, <4>1
    <3>2. CASE j > 1
      <4>1. c = k /\ ~Complete(captured, c, i)
        BY <1>1, <2>2, <3>2, NoGap, ZenonT(60) DEF b
      <4> QED
        BY <2>3, <4>1
    <3> QED
      BY <1>1, <3>1, <3>2
  <2>5. CASE Complete(captured, k, j)
    <3>1. Len(parsed') = k /\ parsed'[k] = WholeOf(captured, k)
      BY <1>1, <1>15, <2>1, <2>4, <2>5, SMTT(30)
    <3>2. \A n \in 1..k : n = k \/ n \in 1..Len(parsed)
      BY <1>1, <2>4
    <3> QED
      BY <1>14, <2>3, <2>5, <3>1, <3>2
  <2>6. CASE ~Complete(captured, k, j)
    <3>1. parsed' = parsed
      BY <1>5, <1>6, <2>6
    <3> QED
      BY <2>3, <2>4, <2>6, <3>1
  <2> QED
    BY <2>5, <2>6
<1> QED
  BY <1>9, <1>10, <1>11, <1>12, <1>13, <1>16, <1>17 DEF Tracked
(* A block that comes too late changes nothing that was not damaged.       *)
LEMMA TrackedLate ==
  ASSUME Typed, Transit, NEW t \in Parsers, AppendToProcess(t),
         NEW D, NEW c \in Nat, NEW i \in Nat, Tracked(D, c, i),
         ~Beyond(block[t].content, block[t].curr, c, i)
  PROVE  Tracked(D, c, i)'
<1> DEFINE b == block[t]
<1>1. /\ b # NoBlock /\ b.content \in Nat /\ b.curr \in Nat
      /\ \A u \in Parsers : block'[u] = IF u = t THEN NoBlock ELSE block[u]
      /\ captured' = captured /\ pushed' = pushed /\ fifo' = fifo
  BY AppendEffects, HeldBlock
<1>2. b.content <= c /\ b.content..(c + 1) \subseteq D
  BY <1>1 DEF Tracked, Stragglers, Beyond
<1>3. c \in D /\ c + 1 \in D
  BY <1>1, <1>2
<1>4. Latest(c, i, captured', pushed', fifo', block')
  BY <1>1 DEF Tracked, Latest
<1>5. Missing(D, c, i, captured', pushed', fifo', block')
  <2>1. ASSUME NEW x \in 1..Len(captured), ~({x, x + 1} \subseteq D), NEW y,
               Reached(captured, pushed, x, y), Beyond(x, y, c, i)
        PROVE  InTransit(fifo, block', x, y)
    <3>1. InTransit(fifo, block, x, y)
      BY <2>1 DEF Tracked, Missing
    <3> QED
      BY <1>1, <2>1, <3>1 DEF InTransit
  <2> QED
    BY <1>1, <2>1 DEF Missing
<1>6. Stragglers(D, c, i, block')
  BY <1>1 DEF Tracked, Stragglers
<1>7. Count(D, c, i, captured', capBlocks', next') /\ Assembled(D, c, i, captured', capBlocks')
      /\ Orderly(D, c, i, captured', parsed')
  BY <1>3 DEF Count, Assembled, Orderly
<1>8. Given(D, c, i, captured', parsed')
  <2>1. /\ Len(parsed) \in Nat /\ Len(parsed') \in Nat /\ Len(parsed) <= Len(parsed')
        /\ \A n \in 1..Len(parsed) : parsed'[n] = parsed[n] /\ n \in 1..Len(parsed')
    BY ParsedGrows
  <2> QED
    BY <1>1, <2>1 DEF Tracked, Given
<1> QED
  BY <1>4, <1>5, <1>6, <1>7, <1>8 DEF Tracked

LEMMA OneMore ==
  ASSUME NEW S, IsFiniteSet(S), NEW x
  PROVE  /\ IsFiniteSet(S \cup {x}) /\ Cardinality(S \cup {x}) \in Nat
         /\ Cardinality(S \cup {x}) <= Cardinality(S) + 1
<1>1. Cardinality(S) \in Nat
  BY FS_CardinalityType
<1>2. /\ IsFiniteSet(S \cup {x})
      /\ Cardinality(S \cup {x}) = IF x \in S THEN Cardinality(S) ELSE Cardinality(S) + 1
  BY FS_AddElement
<1>3. CASE x \in S
  BY <1>1, <1>2, <1>3
<1>4. CASE x \notin S
  BY <1>1, <1>2, <1>4
<1> QED
  BY <1>3, <1>4

(* What overtaking adds: the contents from the first one overtaken to the  *)
(* one after the block's own.  Those between them that are not damaged yet *)
(* are overtaken too, each in the hands of another parser.                 *)
LEMMA OvertakenRange ==
  ASSUME NEW D, IsFiniteSet(D), NEW O, IsFiniteSet(O), NEW h \in [O -> Nat],
         NEW v \in O, NEW k \in Nat,
         \A x \in (h[v] + 1)..(k - 1) : x \notin D => \E u \in O : h[u] = x
  PROVE  /\ IsFiniteSet(D \cup h[v]..(k + 1))
         /\ Cardinality(D \cup h[v]..(k + 1)) <= Cardinality(D) + 3 * Cardinality(O)
<1> DEFINE j == h[v]
           X == ((j + 1)..(k - 1)) \ D
           g == [x \in X |-> CHOOSE u \in O : h[u] = x]
           O2 == O \ {v}
           E == D \cup j..(k + 1)
<1>1. j \in Nat
  OBVIOUS
<1>2. \A x \in X : g[x] \in O2 /\ h[g[x]] = x
  <2>1. ASSUME NEW x \in X PROVE g[x] \in O2 /\ h[g[x]] = x
    <3>1. \E u \in O : h[u] = x
      OBVIOUS
    <3>2. g[x] \in O /\ h[g[x]] = x
      BY <3>1
    <3>3. x # j
      BY <1>1
    <3> QED
      BY <3>2, <3>3
  <2> QED
    BY <2>1
<1>3. g \in [X -> O2]
  <2>1. g = [x \in X |-> g[x]]
    OBVIOUS
  <2> HIDE DEF g
  <2> QED
    BY <1>2, <2>1
<1> HIDE DEF g
<1>4. g \in Injection(X, O2)
  BY <1>2, <1>3 DEF Injection, IsInjective
<1>5. /\ IsFiniteSet(O2) /\ Cardinality(O2) = Cardinality(O) - 1
      /\ Cardinality(O) \in Nat /\ Cardinality(D) \in Nat
  BY FS_RemoveElement, FS_CardinalityType
<1>6. IsFiniteSet(X) /\ Cardinality(X) <= Cardinality(O) - 1 /\ Cardinality(X) \in Nat
  BY <1>4, <1>5, FS_Injection, FS_CardinalityType
<1>7. E \subseteq ((((D \cup X) \cup {j}) \cup {k}) \cup {k + 1})
  BY <1>1
<1> HIDE DEF X, E
<1> DEFINE S0 == D \cup X
           S1 == S0 \cup {j}
           S2 == S1 \cup {k}
           S3 == S2 \cup {k + 1}
<1>8. IsFiniteSet(S0) /\ Cardinality(S0) <= Cardinality(D) + Cardinality(X)
      /\ Cardinality(S0) \in Nat
  <2>1. IsFiniteSet(S0)
        /\ Cardinality(S0) = Cardinality(D) + Cardinality(X) - Cardinality(D \cap X)
    BY <1>6, FS_Union
  <2>2. Cardinality(D \cap X) \in Nat
    BY <1>6, FS_Intersection, FS_CardinalityType
  <2>3. Cardinality(S0) \in Nat
    BY <2>1, FS_CardinalityType
  <2> QED
    BY <1>5, <1>6, <2>1, <2>2, <2>3
<1> HIDE DEF S0
<1>9. IsFiniteSet(S1) /\ Cardinality(S1) <= Cardinality(S0) + 1 /\ Cardinality(S1) \in Nat
  BY <1>8, OneMore
<1> HIDE DEF S1
<1>10. IsFiniteSet(S2) /\ Cardinality(S2) <= Cardinality(S1) + 1 /\ Cardinality(S2) \in Nat
  BY <1>9, OneMore
<1> HIDE DEF S2
<1>11. IsFiniteSet(S3) /\ Cardinality(S3) <= Cardinality(S2) + 1 /\ Cardinality(S3) \in Nat
  BY <1>10, OneMore
<1>12. E \subseteq S3
  BY <1>7 DEF S3, S2, S1, S0
<1> HIDE DEF S3
<1>13. IsFiniteSet(E) /\ Cardinality(E) <= Cardinality(S3) /\ Cardinality(E) \in Nat
  BY <1>11, <1>12, FS_Subset, FS_CardinalityType
<1>14. Cardinality(E) <= Cardinality(D) + 3 * Cardinality(O)
  <2>1. Cardinality(O) >= 1
    BY <1>5, <1>6
  <2> QED
    BY <1>5, <1>6, <1>8, <1>9, <1>10, <1>11, <1>13, <2>1
<1> QED
  BY <1>13, <1>14 DEF E, j

LEMMA ReassembledAppend ==
  ASSUME Typed, Transit, NEW t \in Parsers, AppendToProcess(t), Reassembled
  PROVE  Reassembled'
<1> DEFINE O == Overtaken(t)
<1>1. PICK D \in SUBSET Nat, c \in Nat, i \in Nat :
         IsFiniteSet(D) /\ Cardinality(D) <= 2 * lost + 3 * overtaken /\ Tracked(D, c, i)
  BY DEF Reassembled
<1>2. /\ lost' = lost /\ overtaken' = overtaken + Cardinality(O) /\ block[t] # NoBlock
      /\ lost \in Nat /\ overtaken \in Nat /\ Cardinality(D) \in Nat
      /\ IsFiniteSet(O) /\ Cardinality(O) \in Nat
  BY <1>1, AppendEffects, OvertakenNat, FS_CardinalityType DEF Typed
<1>3. PICK k \in Nat \ {0}, j \in Nat \ {0} :
         /\ k = block[t].content /\ j = block[t].curr
         /\ k \in 1..Len(captured) /\ Len(captured) \in Nat
  BY <1>2, HeldBlock, CapturedType
<1>4. CASE ~Beyond(k, j, c, i)
  <2>1. Tracked(D, c, i)'
    BY <1>1, <1>3, <1>4, TrackedLate
  <2>2. Cardinality(D) <= 2 * lost' + 3 * overtaken'
    BY <1>1, <1>2
  <2> QED
    BY <1>1, <2>1, <2>2 DEF Reassembled
<1>5. CASE Beyond(k, j, c, i) /\ O = {}
  <2>1. \A u \in O : block[u].content..(k + 1) \subseteq D
    BY <1>5
  <2>4. Tracked(D, k, j)'
    BY <1>1, <1>3, <1>5, <2>1, TrackedAppend
  <2>5. Cardinality(D) <= 2 * lost' + 3 * overtaken'
    BY <1>1, <1>2
  <2> QED
    BY <1>1, <2>4, <2>5 DEF Reassembled
<1>6. CASE Beyond(k, j, c, i) /\ O # {}
  <2> DEFINE h == [u \in O |-> block[u].content]
             T == {h[u] : u \in O}
  <2>1. \A u \in O : u \in Parsers /\ block[u] # NoBlock /\ block[u].content \in Nat
    BY HeldBlock DEF Overtaken
  <2>2. h \in [O -> Nat] /\ \A u \in O : h[u] = block[u].content
    BY <2>1
  <2> HIDE DEF h, O
  <2>3. T \in SUBSET Nat /\ T # {}
    BY <1>6, <2>2
  <2>4. PICK v \in O : \A u \in O : h[v] <= h[u]
    <3>1. PICK n \in T : \A o \in T : n <= o
      <4> HIDE DEF T
      <4> QED
        BY <2>3, SmallestNat
    <3>2. PICK v \in O : h[v] = n
      BY <3>1
    <3> QED
      BY <3>1, <3>2
  <2>5. PICK E \in SUBSET Nat : E = D \cup h[v]..(k + 1)
    <3>1. \A x \in h[v]..(k + 1) : x \in Nat
      BY <1>3, <2>2, <2>4
    <3>2. (D \cup h[v]..(k + 1)) \in SUBSET Nat
      BY <3>1
    <3> QED
      BY <3>2
  <2>6. ASSUME NEW x \in (h[v] + 1)..(k - 1), x \notin D
        PROVE  \E u \in O : h[u] = x
    <3> DEFINE y == TotalOf(captured, x)
    <3>1. h[v] \in Nat /\ x \in Nat /\ h[v] < x /\ x < k /\ x \in 1..Len(captured)
      BY <1>3, <2>2, <2>4, <2>6
    <3>2. y \in Nat \ {0} /\ y \in 1..y
      BY <3>1, CapturedType DEF TotalOf
    <3>3. Beyond(x, y, c, i)
      <4>1. SUFFICES ASSUME ~Beyond(x, y, c, i) PROVE FALSE
        OBVIOUS
      <4>2. x <= c
        BY <3>1, <4>1 DEF Beyond
      <4>3. v \in Parsers /\ block[v] # NoBlock /\ block[v].content < c
        BY <2>1, <2>2, <2>4, <3>1, <4>2
      <4>4. ~Beyond(block[v].content, block[v].curr, c, i)
        BY <2>1, <2>4, <4>3 DEF Beyond
      <4>5. block[v].content..(c + 1) \subseteq D
        BY <1>1, <4>3, <4>4 DEF Tracked, Stragglers
      <4>6. x \in block[v].content..(c + 1)
        BY <2>2, <2>4, <3>1, <4>2
      <4> QED
        BY <2>6, <4>5, <4>6
    <3>4. Beyond(block[t].content, block[t].curr, x, y) /\ ~({x, x + 1} \subseteq D)
      BY <1>3, <2>6, <3>1 DEF Beyond
    <3> HIDE DEF y
    <3>5. block[t] # NoBlock /\ Tracked(D, c, i) /\ y \in 1..TotalOf(captured, x)
      BY <1>1, <1>2, <3>2 DEF y
    <3>6. \E u \in Overtaken(t) : block[u].content = x
      <4> HIDE DEF O
      <4>1. \E u \in Overtaken(t) : block[u].content = x /\ block[u].curr = y
        BY <3>1, <3>3, <3>4, <3>5, HeldEarlier
      <4> QED
        BY <4>1
    <3>7. \E u \in O : block[u].content = x
      BY <3>6 DEF O
    <3> QED
      BY <2>2, <3>7
  <2>7. IsFiniteSet(E) /\ Cardinality(E) <= Cardinality(D) + 3 * Cardinality(O)
    <3>1. \A x \in (h[v] + 1)..(k - 1) : x \notin D => \E u \in O : h[u] = x
      BY <2>6
    <3>2. IsFiniteSet(D) /\ IsFiniteSet(O) /\ k \in Nat
      BY <1>1, <1>2, <1>3 DEF O
    <3> QED
      BY <2>2, <2>4, <2>5, <3>1, <3>2, OvertakenRange
  <2>8. \A u \in O : block[u].content..(k + 1) \subseteq E
    BY <1>3, <2>1, <2>2, <2>4, <2>5
  <2>11. Tracked(E, k, j)'
    <3>1. D \subseteq E
      BY <2>5
    <3> QED
      BY <1>1, <1>3, <1>6, <2>8, <3>1, TrackedAppend DEF O
  <2>12. Cardinality(E) <= 2 * lost' + 3 * overtaken'
    <3>1. Cardinality(E) \in Nat
      BY <2>7, FS_CardinalityType
    <3> QED
      BY <1>1, <1>2, <2>7, <3>1
  <2> QED
    BY <2>5, <2>7, <2>11, <2>12 DEF Reassembled
<1> QED
  BY <1>4, <1>5, <1>6

LEMMA ReassembledNext == Typed /\ Transit /\ Reassembled /\ [Next]_vars => Reassembled'
<1> SUFFICES ASSUME Typed, Transit, Reassembled, [Next]_vars PROVE Reassembled'
  OBVIOUS
<1>1. PICK D \in SUBSET Nat, c \in Nat, i \in Nat :
         IsFiniteSet(D) /\ Cardinality(D) <= 2 * lost + 3 * overtaken /\ Tracked(D, c, i)
  BY DEF Reassembled
<1>2. lost \in Nat /\ overtaken \in Nat /\ Cardinality(D) \in Nat
  BY <1>1, FS_CardinalityType DEF Typed
<1>3. ASSUME NEW type \in Types, NEW len \in Lens, Capture(type, len)
      PROVE  Reassembled'
  <2>1. Tracked(D, c, i)' /\ lost' = lost /\ overtaken' = overtaken
    BY <1>1, <1>3, TrackedCapture DEF Capture
  <2> QED
    BY <1>1, <2>1 DEF Reassembled
<1>4. CASE PushBlock
  <2>1. Tracked(D, c, i)' /\ lost' = lost /\ overtaken' = overtaken
    BY <1>1, <1>4, TrackedPush DEF PushBlock
  <2> QED
    BY <1>1, <2>1 DEF Reassembled
<1>5. CASE LoseBlock
  <2>1. lost' = lost + 1 /\ overtaken' = overtaken /\ Len(captured) \in Nat
    BY <1>5, CapturedType DEF LoseBlock
  <2>0. PICK m \in Nat : m = Len(captured)
    BY <2>1
  <2> DEFINE C == D \cup {m}
             E == C \cup {m + 1}
  <2>2. IsFiniteSet(C) /\ Cardinality(C) <= Cardinality(D) + 1 /\ Cardinality(C) \in Nat
    BY <1>1, OneMore
  <2>4. E \in SUBSET Nat /\ D \subseteq E /\ {Len(captured), Len(captured) + 1} \subseteq E
    <3>1. m \in Nat /\ m + 1 \in Nat
      OBVIOUS
    <3>2. E \in SUBSET Nat /\ D \subseteq E /\ {m, m + 1} \subseteq E
      BY <3>1
    <3> HIDE DEF E
    <3> QED
      BY <2>0, <3>2
  <2> HIDE DEF C
  <2>3. IsFiniteSet(E) /\ Cardinality(E) <= Cardinality(D) + 2 /\ Cardinality(E) \in Nat
    <3>1. IsFiniteSet(E) /\ Cardinality(E) <= Cardinality(C) + 1 /\ Cardinality(E) \in Nat
      BY <2>2, OneMore
    <3> QED
      BY <1>2, <2>2, <3>1
  <2>5. Cardinality(E) <= 2 * lost' + 3 * overtaken'
    BY <1>1, <1>2, <2>1, <2>3
  <2> HIDE DEF E
  <2>6. PICK F \in SUBSET Nat : F = E
    BY <2>4
  <2>7. Tracked(F, c, i)'
    <3>1. Tracked(F, c, i)
      BY <1>1, <2>4, <2>6, TrackedMore
    <3> QED
      BY <1>5, <2>4, <2>6, <3>1, TrackedLose
  <2> QED
    BY <2>3, <2>5, <2>6, <2>7 DEF Reassembled
<1>6. ASSUME NEW t \in Parsers, PopBlock(t)
      PROVE  Reassembled'
  <2>1. Tracked(D, c, i)' /\ lost' = lost /\ overtaken' = overtaken
    BY <1>1, <1>6, TrackedPop DEF PopBlock
  <2> QED
    BY <1>1, <2>1 DEF Reassembled
<1>7. ASSUME NEW t \in Parsers, AppendToProcess(t)
      PROVE  Reassembled'
  BY <1>7, ReassembledAppend
<1>8. CASE UNCHANGED vars
  BY <1>1, <1>8 DEF vars, Reassembled, Tracked
<1> QED
  BY <1>3, <1>4, <1>5, <1>6, <1>7, <1>8 DEF Next

-----------------------------------------------------------------------------
(* The inductive invariant, and what it says of the parsers.               *)

Inductive == Typed /\ Transit /\ Reassembled

LEMMA InductiveAlways == Spec => []Inductive
<1>1. Init => Inductive
  BY TypedInit, TransitInit, ReassembledInit DEF Inductive
<1>2. Inductive /\ [Next]_vars => Inductive'
  BY TypedNext, TransitNext, ReassembledNext DEF Inductive
<1> QED
  BY <1>1, <1>2, PTL DEF Spec

LEMMA InductiveFaithful == Inductive => FaithfulWhileOrderly
<1> SUFFICES ASSUME Inductive, lost + overtaken = 0
             PROVE  /\ Len(parsed) <= Len(captured)
                    /\ \A k \in DOMAIN parsed : parsed[k] = Whole(k)
  BY DEF FaithfulWhileOrderly
<1>1. PICK D \in SUBSET Nat, c \in Nat, i \in Nat :
         IsFiniteSet(D) /\ Cardinality(D) <= 2 * lost + 3 * overtaken /\ Tracked(D, c, i)
  BY DEF Inductive, Reassembled
<1>2. lost = 0 /\ overtaken = 0 /\ Cardinality(D) \in Nat
  BY <1>1, FS_CardinalityType DEF Inductive, Typed
<1>3. D = {}
  <2>1. Cardinality(D) = 0
    BY <1>1, <1>2
  <2> QED
    BY <1>1, <2>1, FS_EmptySet
<1>4. /\ Complete(captured, c, i) => Len(parsed) = c
      /\ ~Complete(captured, c, i) => Len(parsed) = c - 1
      /\ \A k \in 1..Len(parsed) : parsed[k] = WholeOf(captured, k)
  BY <1>1, <1>3 DEF Tracked, Orderly
<1>5. c = 0 \/ c \in 1..Len(captured)
  BY <1>1 DEF Tracked, Latest, Reached
<1>6. Len(captured) \in Nat /\ DOMAIN parsed = 1..Len(parsed)
  BY CapturedType, LenProperties DEF Inductive, Typed
<1>7. Len(parsed) <= Len(captured)
  <2>1. Len(parsed) = c \/ (Len(parsed) = c - 1 /\ c # 0)
    BY <1>4 DEF Complete
  <2>2. c <= Len(captured)
    BY <1>5, <1>6
  <2>3. PICK m \in Nat, n \in Nat : m = Len(captured) /\ n = Len(parsed)
    BY <1>6, LenProperties DEF Inductive, Typed
  <2>4. c <= m /\ (n = c \/ n = c - 1)
    BY <2>1, <2>2, <2>3
  <2>5. n <= m
    BY <2>4
  <2> QED
    BY <2>3, <2>5
<1> QED
  BY <1>4, <1>6, <1>7 DEF Whole, WholeOf

(* As long as no block is lost and none overtakes an earlier one, the      *)
(* parsers get the captured contents one by one, in order, each whole and  *)
(* of its own direction: what append_block_to_proccess does with the list  *)
(* _capBlocks and the count _nextBlockNum adds and loses nothing.          *)
THEOREM ReassemblyFaithful == Spec => []FaithfulWhileOrderly
<1> QED
  BY InductiveAlways, InductiveFaithful, PTL

LEMMA InductiveBounded == Inductive => DamageBounded
<1> SUFFICES ASSUME Inductive PROVE DamageBounded
  OBVIOUS
<1>1. PICK D \in SUBSET Nat, c \in Nat, i \in Nat :
         IsFiniteSet(D) /\ Cardinality(D) <= 2 * lost + 3 * overtaken /\ Tracked(D, c, i)
  BY DEF Inductive, Reassembled
<1>2. ASSUME NEW k \in Damaged, k \notin D
      PROVE  FALSE
  <2> DEFINE y == TotalOf(captured, k)
  <2>1. k \in 1..Len(captured) /\ ~InFlight(k) /\ \A n \in DOMAIN parsed : parsed[n] # Whole(k)
    BY <1>2, LenProperties DEF Inductive, Typed, Damaged
  <2>2. y \in Nat \ {0} /\ y \in 1..y /\ Len(captured) \in Nat
    BY <2>1, CapturedType DEF Inductive, TotalOf
  <2>3. Reached(captured, pushed, k, y)
    <3>1. ASSUME k = Len(captured) PROVE y <= pushed
      <4>1. LastTotal = y
        BY <2>1, <3>1, CapturedType DEF Inductive, TotalOf
      <4>2. ~(pushed < LastTotal) /\ pushed \in Nat
        BY <2>1, <3>1, <4>1, <2>2 DEF InFlight, Inductive, Typed
      <4> QED
        BY <2>2, <4>1, <4>2
    <3> QED
      BY <2>1, <2>2, <3>1 DEF Reached
  <2>4. CASE Beyond(k, y, c, i)
    <3>1. InTransit(fifo, block, k, y)
      BY <1>1, <1>2, <2>1, <2>3, <2>4 DEF Tracked, Missing
    <3>2. DOMAIN fifo = 1..Len(fifo)
      BY LenProperties DEF Inductive, Typed
    <3>3. InFlight(k)
      BY <3>1, <3>2 DEF InTransit, InFlight
    <3> QED
      BY <2>1, <3>3
  <2>5. CASE ~Beyond(k, y, c, i)
    <3>1. k < c \/ (k = c /\ Complete(captured, c, i))
      <4>1. (c = 0 /\ i = 0) \/ (c \in 1..Len(captured) /\ i \in 1..TotalOf(captured, c))
        BY <1>1 DEF Tracked, Latest, Reached
      <4>2. k \in Nat /\ k <= c
        BY <2>1, <2>2, <2>5 DEF Beyond
      <4>3. CASE k = c
        <5>1. ~(i < y) /\ i \in 1..y
          BY <2>1, <2>5, <4>1, <4>3 DEF Beyond
        <5> QED
          BY <2>2, <4>3, <5>1 DEF Complete
      <4> QED
        BY <4>2, <4>3
    <3>2. PICK n \in 1..Len(parsed) : parsed[n] = WholeOf(captured, k)
      BY <1>1, <1>2, <2>1, <3>1 DEF Tracked, Given
    <3>3. n \in DOMAIN parsed /\ parsed[n] = Whole(k)
      BY <3>2, LenProperties DEF Inductive, Typed, Whole, WholeOf
    <3> QED
      BY <2>1, <3>3
  <2> QED
    BY <2>4, <2>5
<1>3. Damaged \subseteq D
  BY <1>2
<1>4. Cardinality(Damaged) <= Cardinality(D) /\ Cardinality(D) \in Nat
      /\ Cardinality(Damaged) \in Nat
  BY <1>1, <1>3, FS_Subset, FS_CardinalityType
<1> QED
  BY <1>1, <1>4 DEF Inductive, Typed, DamageBounded

(* The reassembly recovers whatever a fault leaves behind, for any number  *)
(* of parsers, contents and blocks of a content: a lost block costs at     *)
(* most two contents, a block that overtakes another at most three.        *)
THEOREM DamageStaysBounded == Spec => []DamageBounded
<1> QED
  BY InductiveAlways, InductiveBounded, PTL

-----------------------------------------------------------------------------
(* How the process those parse threads belong to ends (Shutdown), for any  *)
(* number of them.                                                         *)

(* What the order of the statements of cap_http::exit makes true.          *)

Past(points) == monitor \in points

ExitOrder ==
    /\ main \notin {"wait", "done"} => monitor = "unborn"
    /\ Past({"set_quit", "end_loop", "disable_list", "disable_fifo", "fini", "done"}) => ~capture
    /\ Past({"end_loop", "disable_list", "disable_fifo", "fini", "done"}) => quit
    /\ conn = "deleted" => monitor = "done"
    /\ \A q \in Queues : status[q] = "DISABLED" => quit

(* A worker between its test of _quit and its wait, or in its wait, when   *)
(* its queue is disabled was there when disabled() ran.                    *)
InWindow ==
    \A w \in Workers :
        worker[w] \in {"pop", "waiting"} /\ status[QueueOf(w)] = "DISABLED" => w \in window

ProcessInv == ProcessTypeOK /\ ExitOrder /\ InWindow /\ WorkersEndAfterQuit

LEMMA QueueOfType ==
  ASSUME NEW w \in Workers
  PROVE  QueueOf(w) \in Queues
BY DEF QueueOf, Queues

LEMMA InitProcessInv ==
  ASSUME ProcessInit
  PROVE  ProcessInv
<1>1. ProcessTypeOK
  BY DEF ProcessInit, ProcessTypeOK
<1>2. ExitOrder /\ InWindow /\ WorkersEndAfterQuit
  BY QueueOfType DEF ProcessInit, ExitOrder, Past, InWindow, WorkersEndAfterQuit
<1> QED
  BY <1>1, <1>2 DEF ProcessInv

LEMMA DisableStep ==
  ASSUME ProcessInv, NEW q \in Queues, NEW after \in {"disable_fifo", "fini"}, Disable(q, after),
         monitor \in {"disable_list", "disable_fifo"}
  PROVE  ProcessInv'
<1> USE DEF ProcessInv
<1>1. /\ monitor' = after
      /\ status' = [status EXCEPT ![q] = "DISABLED"]
      /\ worker' = [w \in Workers |-> IF QueueOf(w) = q /\ worker[w] = "waiting"
                                      THEN "woken" ELSE worker[w]]
      /\ window' = window \cup {w \in Workers : QueueOf(w) = q /\ worker[w] = "pop"}
      /\ UNCHANGED <<main, nids, reactor, quit, capture, looping, conn, crashed>>
  BY DEF Disable, SetDisabled, WakeAll
<1>2. ProcessTypeOK'
  BY <1>1 DEF ProcessTypeOK
<1>3. \A r \in Queues : status'[r] = IF r = q THEN "DISABLED" ELSE status[r]
  BY <1>1 DEF ProcessTypeOK
<1>4. InWindow'
  <2>1. ASSUME NEW w \in Workers, worker'[w] \in {"pop", "waiting"},
               status'[QueueOf(w)] = "DISABLED"
        PROVE  w \in window'
    <3>1. worker[w] = worker'[w] /\ ~(QueueOf(w) = q /\ worker[w] = "waiting")
      BY <1>1, <2>1
    <3>2. CASE QueueOf(w) = q
      BY <1>1, <2>1, <3>1, <3>2
    <3>3. CASE QueueOf(w) # q
      BY <1>1, <1>3, <2>1, <3>1, <3>3, QueueOfType DEF InWindow
    <3> QED
      BY <3>2, <3>3
  <2> QED
    BY <2>1 DEF InWindow
<1>5. WorkersEndAfterQuit'
  BY <1>1 DEF WorkersEndAfterQuit
<1> QED
  BY <1>1, <1>2, <1>3, <1>4, <1>5 DEF ExitOrder, Past, ProcessTypeOK

LEMMA WorkerStep ==
  ASSUME ProcessInv, NEW w \in Workers, Worker(w) \/ SpuriousWakeup(w)
  PROVE  ProcessInv'
<1> USE DEF ProcessInv
<1>1. UNCHANGED <<main, nids, reactor, monitor, shared, crashed, window>>
  BY DEF Worker, TestQuit, PopWaits, Awake, SpuriousWakeup
<1>2. PICK place \in {"pop", "waiting", "woken", "done"} :
         /\ worker' = [worker EXCEPT ![w] = place]
         /\ place = "pop" => ~quit
         /\ place = "done" => quit \/ status[QueueOf(w)] = "DISABLED"
         /\ place = "waiting" => worker[w] = "pop" \/ status[QueueOf(w)] # "DISABLED"
  BY DEF Worker, TestQuit, PopWaits, Awake, SpuriousWakeup
<1>3. ProcessTypeOK' /\ ExitOrder'
  BY <1>1, <1>2 DEF ProcessTypeOK, ExitOrder, Past, shared
<1>4. ASSUME NEW v \in Workers, worker'[v] \in {"pop", "waiting"},
             status'[QueueOf(v)] = "DISABLED"
      PROVE  v \in window'
  <2>1. status[QueueOf(v)] = "DISABLED" /\ quit /\ window' = window
    BY <1>1, <1>4, QueueOfType DEF ExitOrder, shared
  <2>2. worker[v] \in {"pop", "waiting"}
    BY <1>2, <1>4, <2>1 DEF ProcessTypeOK
  <2> QED
    BY <2>1, <2>2 DEF InWindow
<1>5. WorkersEndAfterQuit'
  <2>1. worker'[w] = "done" => quit
    BY <1>2, QueueOfType DEF ExitOrder, ProcessTypeOK
  <2>2. \A v \in Workers : v # w => worker'[v] = worker[v]
    BY <1>2 DEF ProcessTypeOK
  <2> QED
    BY <1>1, <2>1, <2>2 DEF WorkersEndAfterQuit, shared
<1> QED
  BY <1>3, <1>4, <1>5 DEF InWindow

LEMMA SpawnStep ==
  ASSUME ProcessInv, Main
  PROVE  ProcessInv'
<1> USE DEF ProcessInv
<1>1. UNCHANGED <<shared, crashed, window>>
  BY DEF Main, SpawnReactor, SpawnNids, SpawnOutput, SpawnParse, SpawnMonitor, Join
<1>2. /\ main' \notin {"wait", "done"} => main \notin {"wait", "done"} /\ monitor' = monitor
      /\ monitor' = monitor \/ (monitor' = "getchar" /\ main \notin {"wait", "done"})
  BY DEF Main, SpawnReactor, SpawnNids, SpawnOutput, SpawnParse, SpawnMonitor, Join
<1>3. \A w \in Workers : worker'[w] \in {worker[w], "loop"}
  BY DEF Main, SpawnReactor, SpawnNids, SpawnOutput, SpawnParse, SpawnMonitor, Join, ProcessTypeOK
<1>4. ProcessTypeOK'
  BY DEF Main, SpawnReactor, SpawnNids, SpawnOutput, SpawnParse, SpawnMonitor, Join,
  ProcessTypeOK,
         Workers, shared
<1>5. InWindow'
  BY <1>1, <1>3 DEF InWindow, shared
<1>6. WorkersEndAfterQuit'
  BY <1>1, <1>3 DEF WorkersEndAfterQuit, shared
<1> QED
  BY <1>1, <1>2, <1>4, <1>5, <1>6 DEF ExitOrder, Past, shared

LEMMA ExitStep ==
  ASSUME ProcessInv, Exit
  PROVE  ProcessInv'
<1> USE DEF ProcessInv
<1>1. CASE NidsExit
  BY <1>1 DEF NidsExit, ProcessTypeOK, ExitOrder, Past, InWindow, WorkersEndAfterQuit
<1>2. CASE SetQuit
  BY <1>2 DEF SetQuit, ProcessTypeOK, ExitOrder, Past, InWindow, WorkersEndAfterQuit
<1>3. CASE EndEventLoop
  BY <1>3 DEF EndEventLoop, ProcessTypeOK, ExitOrder, Past, InWindow, WorkersEndAfterQuit
<1>4. CASE DisableList
  BY <1>4, DisableStep DEF DisableList, Queues
<1>5. CASE DisableFifo
  BY <1>5, DisableStep DEF DisableFifo, Queues
<1>6. CASE Fini
  BY <1>6 DEF Fini, ProcessTypeOK, ExitOrder, Past, InWindow, WorkersEndAfterQuit
<1> QED
  BY <1>1, <1>2, <1>3, <1>4, <1>5, <1>6 DEF Exit

LEMMA ProcessStep ==
  ASSUME ProcessInv, [ProcessNext]_processVars
  PROVE  ProcessInv'
<1> USE DEF ProcessInv
<1>1. ASSUME Nids \/ Packet \/ CaptureError \/ ReactorReturns
      PROVE  ProcessInv'
  <2>1. UNCHANGED <<main, worker, monitor, shared, window>>
    BY <1>1 DEF Nids, Statement, NidsReturns, Packet, CaptureError, ReactorReturns
  <2>2. ProcessTypeOK'
    BY <1>1 DEF Nids, Statement, NidsReturns, Packet, CaptureError, ReactorReturns,
    ProcessTypeOK, shared
  <2> QED
    BY <2>1, <2>2 DEF ExitOrder, Past, InWindow, WorkersEndAfterQuit, shared
<1>2. CASE TypeQ
  BY <1>2 DEF TypeQ, ProcessTypeOK, ExitOrder, Past, InWindow, WorkersEndAfterQuit, shared
<1>3. CASE UNCHANGED processVars
  BY <1>3 DEF processVars, threads, shared, ProcessTypeOK, ExitOrder, Past, InWindow,
  WorkersEndAfterQuit
<1> QED
  BY <1>1, <1>2, <1>3, SpawnStep, WorkerStep, ExitStep DEF ProcessNext

(* Every variable keeps its type, for any number of parse threads.         *)
THEOREM ProcessTypeCorrect == ProcessSpec => []ProcessTypeOK
<1>1. ProcessInv => ProcessTypeOK
  BY DEF ProcessInv
<1> QED
  BY <1>1, InitProcessInv, ProcessStep, PTL DEF ProcessSpec

(* No wakeup ends a parse thread or the output thread before exit has set  *)
(* _quit.                                                                  *)
THEOREM WorkersTheorem == ProcessSpec => []WorkersEndAfterQuit
<1>1. ProcessInv => WorkersEndAfterQuit
  BY DEF ProcessInv
<1> QED
  BY <1>1, InitProcessInv, ProcessStep, PTL DEF ProcessSpec

(* cap_http::exit sets _quit before it disables the queues, and so only a  *)
(* worker caught between its test and its wait can sleep on a disabled one.*)
THEOREM WindowTheorem == ProcessSpec => []OnlyWindowWaits
<1>1. ProcessInv => OnlyWindowWaits
  BY DEF ProcessInv, InWindow, OnlyWindowWaits
<1> QED
  BY <1>1, InitProcessInv, ProcessStep, PTL DEF ProcessSpec

(* cap_http::exit closes the capture before httpSession::fini deletes the  *)
(* connection, and so no callback starts afterwards.                       *)
THEOREM CallbackTheorem == ProcessSpec => NoCallbackAfterFini
<1>1. ASSUME ProcessInv, [ProcessNext]_processVars, conn = "deleted", nids # "callback"
      PROVE  nids' # "callback"
  <2>1. ~capture /\ monitor = "done" /\ main \in {"wait", "done"}
    BY <1>1 DEF ProcessInv, ProcessTypeOK, ExitOrder, Past
  <2>2. CASE Main
    BY <1>1, <2>1, <2>2 DEF Main, SpawnReactor, SpawnNids, SpawnOutput, SpawnParse,
                            SpawnMonitor, Join
  <2>3. CASE \E w \in Workers : Worker(w) \/ SpuriousWakeup(w)
    BY <1>1, <2>3 DEF Worker, TestQuit, PopWaits, Awake, SpuriousWakeup
  <2>4. CASE Nids \/ Packet \/ CaptureError \/ ReactorReturns \/ TypeQ
    BY <1>1, <2>1, <2>4 DEF Nids, Statement, NidsReturns, Packet, CaptureError,
                            ReactorReturns, TypeQ
  <2>5. CASE Exit
    BY <1>1, <2>1, <2>5 DEF Exit, NidsExit, SetQuit, EndEventLoop, DisableList, DisableFifo,
                            Disable, Fini
  <2>6. CASE UNCHANGED processVars
    BY <1>1, <2>6 DEF processVars, threads
  <2> QED
    BY <1>1, <2>2, <2>3, <2>4, <2>5, <2>6 DEF ProcessNext
<1> QED
  BY <1>1, InitProcessInv, ProcessStep, PTL DEF ProcessSpec, NoCallbackAfterFini
=============================================================================
