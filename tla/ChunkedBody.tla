---------------------------- MODULE ChunkedBody ----------------------------
(***************************************************************************)
(* cap_http::extract_chunked_data: takes the data out of the body of a     *)
(* chunked response, which may have been captured in part.  A body is a    *)
(* sequence of characters; positions count from 0, as in the code.  To     *)
(* strtol a digit a..f is the same in upper case, and Digits stands for    *)
(* both.  The code hands strtol the first 31 characters of a size line at  *)
(* most, and its result to an int: here a size line is taken to be shorter *)
(* and the size to be below 2^31.                                          *)
(***************************************************************************)
EXTENDS Integers, Sequences, SequencesExt

CONSTANTS MaxBuff,      \* MAX_BUFF_SIZE, also the size of the output buffer
          Chars,        \* the characters of bodies
          Unknown       \* what memory behind the body holds

Digits == <<"0", "1", "2", "3", "4", "5", "6", "7", "8", "9", "a", "b", "c", "d", "e", "f">>
DigitValue(c) == SelectInSeq(Digits, LAMBDA d : d = c) - 1

ASSUME BuffAssumption == MaxBuff \in Nat \ {0}
ASSUME CharsAssumption == ToSet(Digits) \cup {"CR", "LF"} \subseteq Chars /\ Unknown \notin Chars

Smaller(a, b) == IF a < b THEN a ELSE b

(* strtol(.., 16): the value of the leading hex digits, 0 without any.     *)
HexValue(s) ==
    LET value[i \in 0..Len(s)] ==
            IF i = 0 THEN 0 ELSE 16 * value[i - 1] + DigitValue(s[i])
        first == {i \in 1..Len(s) : s[i] \notin ToSet(Digits)}
    IN  value[IF first = {} THEN Len(s) ELSE Min(first) - 1]

(* The ends of lines from position i on: a CR that an LF follows.          *)
LineEnds(entity, i) ==
    {j \in i..(Len(entity) - 2) : entity[j + 1] = "CR" /\ entity[j + 2] = "LF"}

(* What is copied as the data of a chunk: the size of the chunk is         *)
(* compared with that of the whole body, not with what is left of it.      *)
CharAt(entity, j) == IF j < Len(entity) THEN entity[j + 1] ELSE Unknown
ChunkData(entity, k, contentLen) ==
    [j \in 1..Smaller(Len(entity), contentLen) |-> CharAt(entity, k + j - 1)]

(* Where the loop goes on after a chunk whose size line ends at i.         *)
MutantAfter(i, contentLen) == i + contentLen + 2
After(i, contentLen) == i + contentLen + 4

(* The loop, from the start i of a size line.  A size of 0, and a size     *)
(* that is not a number, ends the body; so does a '0' where the captured   *)
(* part ends.  What follows a size above MaxBuff is taken for the next     *)
(* size line; strtol skips the LF it begins with.                          *)
Scan(entity) ==
    LET number == Len(entity)
        scan[i \in 0..number] ==
            IF i = number THEN [out |-> <<>>, complete |-> 0]
            ELSE IF LineEnds(entity, i) = {}
                 THEN [out |-> <<>>, complete |-> IF entity[number] = "0" THEN 1 ELSE 0]
            ELSE LET end        == Min(LineEnds(entity, i))
                     contentLen == HexValue(SubSeq(entity, i + 1, end))
                 IN  IF contentLen = 0 THEN [out |-> <<>>, complete |-> 1]
                     ELSE IF contentLen > MaxBuff THEN scan[end + 2]
                     ELSE LET rest == scan[Smaller(After(end, contentLen), number)]
                          IN  [rest EXCEPT !.out = ChunkData(entity, end + 2, contentLen) \o @]
    IN  scan[0]

(* What is in the output buffer afterwards; -1 leaves the body as it is.   *)
ExtractChunkedData(entity) ==
    IF Len(entity) = 0 \/ Len(entity) > MaxBuff
    THEN [ret |-> -1, out |-> <<>>, complete |-> 0]
    ELSE LET scanned == Scan(entity)
         IN  [ret |-> 0, complete |-> scanned.complete,
              out |-> SubSeq(scanned.out, 1, Smaller(Len(scanned.out), MaxBuff - 1))]
-----------------------------------------------------------------------------
(* The chunked transfer coding itself (RFC 2616, 3.6.1), as a reference:   *)
(* each chunk behind its size in hexadecimal digits, and a size of 0.      *)
HexDigits[n \in Nat] ==
    IF n < 16 THEN <<Digits[n + 1]>>
    ELSE Append(HexDigits[n \div 16], Digits[(n % 16) + 1])
SizeLine(n) == HexDigits[n]
EncodedChunk(chunk) == SizeLine(Len(chunk)) \o <<"CR", "LF">> \o chunk \o <<"CR", "LF">>
EncodedChunks(chunks) == FlattenSeq([i \in DOMAIN chunks |-> EncodedChunk(chunks[i])])
Encoded(chunks) == EncodedChunks(chunks) \o <<"0", "CR", "LF", "CR", "LF">>

(* The body is cut behind a 0 in the size of a chunk.                      *)
CutAfterZero(chunks, captured) ==
    \E i \in DOMAIN chunks : \E k \in DOMAIN SizeLine(Len(chunks[i])) :
        /\ SizeLine(Len(chunks[i]))[k] = "0"
        /\ captured = Len(EncodedChunks(SubSeq(chunks, 1, i - 1))) + k
=============================================================================
