--------------------------- MODULE BlockReassembly ---------------------------
(***************************************************************************)
(* proc_capCnt_block::append_block_to_proccess between the fifo and the    *)
(* parsers.  A captured content travels as blocks 1..n through the fifo;   *)
(* the parse threads take them in order, but each appends its block to the *)
(* shared list _capBlocks when it gets the mutex, and a block that could   *)
(* not be pushed is gone.  There is one list for all connections and both  *)
(* directions.  The code that fills and pushes the blocks stands in        *)
(* comments in http_protocol_callback.                                     *)
(***************************************************************************)
EXTENDS Naturals, Sequences, FiniteSets, SequencesExt

CONSTANTS Parsers, NoBlock,
          MaxContents,  \* bound: contents captured
          Lens,         \* bound: their lengths in bytes
          BlockSize,    \* CAP_CONTENT_BLOCK_SIZE
          MaxBuff,      \* MAX_BUFF_SIZE
          FifoSize      \* maxSize of the fifo

ASSUME SizeAssumption ==
    /\ BlockSize \in Nat \ {0} /\ MaxBuff \in Nat \ {0}
    /\ MaxContents \in Nat /\ Lens \subseteq Nat \ {0}
ASSUME ParserAssumption == IsFiniteSet(Parsers)

Types == {"CLIENT_CNT", "SERVER_CNT"}
Lowest(a, b) == IF a < b THEN a ELSE b

Total(len) == (len + BlockSize - 1) \div BlockSize

(* One cap_content_block serves a whole content: it is cleared once, each  *)
(* memcpy overwrites its beginning, and CntBlockSize adds up.  Byte p of   *)
(* content k is <<k, p>>; behind the last byte of a content stands in the  *)
(* block what the block before it had there, or a zero.                    *)
ByteAt(k, len, p) ==
    IF p <= len THEN <<k, p>> ELSE IF p <= BlockSize THEN <<0, 0>> ELSE <<k, p - BlockSize>>
Block(k, type, len, i) ==
    [content |-> k, type |-> type, curr |-> i, total |-> Total(len),
     size |-> Lowest(i * BlockSize, len),
     cnt  |-> [p \in 1..BlockSize |-> ByteAt(k, len, (i - 1) * BlockSize + p)]]
Blocks == UNION {{Block(k, type, len, i) : i \in 1..Total(len)} :
                    k \in 1..MaxContents, type \in Types, len \in Lens}
ASSUME BlockAssumption == NoBlock \notin Blocks

VARIABLES
    captured,   \* the contents so far, each a [type, len]
    pushed,     \* how many blocks of the last of them are pushed or lost
    fifo,       \* the blocks in the fifo
    block,      \* the block each parser has popped and not yet appended
    capBlocks,  \* _capBlocks
    next,       \* _nextBlockNum
    parsed,     \* history: the contents given to parse_client_data and parse_server_data
    lost,       \* history: how many blocks could not be pushed
    overtaken   \* history: how many times a block was appended before an earlier one

vars == <<captured, pushed, fifo, block, capBlocks, next, parsed, lost, overtaken>>

Queue == INSTANCE BoundedQueue WITH
            Size <- FifoSize, Values <- Blocks, NoValue <- NoBlock, Consumers <- Parsers,
            items <- fifo, held <- 0, taken <- block

Init ==
    /\ captured = <<>> /\ pushed = 0
    /\ fifo = <<>>
    /\ block = [t \in Parsers |-> NoBlock]
    /\ capBlocks = <<>> /\ next = 1
    /\ parsed = <<>>
    /\ lost = 0 /\ overtaken = 0

LastTotal == IF captured = <<>> THEN 0 ELSE Total(Last(captured).len)
NextBlock == LET k == Len(captured) IN Block(k, captured[k].type, captured[k].len, pushed + 1)

Capture(type, len) ==
    /\ pushed = LastTotal /\ Len(captured) < MaxContents
    /\ captured' = Append(captured, [type |-> type, len |-> len])
    /\ pushed' = 0
    /\ UNCHANGED <<fifo, block, capBlocks, next, parsed, lost, overtaken>>

PushBlock ==
    /\ pushed < LastTotal
    /\ Queue!Push(NextBlock)
    /\ pushed' = pushed + 1
    /\ UNCHANGED <<captured, capBlocks, next, parsed, lost, overtaken>>

(* push_back returns an error, which is printed; the next block follows.   *)
LoseBlock ==
    /\ pushed < LastTotal
    /\ pushed' = pushed + 1
    /\ lost' = lost + 1
    /\ UNCHANGED <<captured, fifo, block, capBlocks, next, parsed, overtaken>>

(* A parser whose pop_front returns -1 (database error) or 1 (disabled)   *)
(* leaves its loop with no block: it is one that takes no further step.    *)
PopBlock(t) ==
    /\ block[t] = NoBlock
    /\ Queue!Pop(t)
    /\ UNCHANGED <<captured, pushed, capBlocks, next, parsed, lost, overtaken>>

(* outCap: the type of the first block, of each block CntBlockSize bytes   *)
(* but no more than it has, and no more than the buffer has room for.      *)
Copied(b) == SubSeq(b.cnt, 1, Lowest(b.size, BlockSize))
MutantOutCap(blocks) ==
    [type |-> Head(blocks).type, cnt |-> FlattenSeq([i \in DOMAIN blocks |-> Copied(blocks[i])])]
OutCap(blocks) ==
    LET cnt == FlattenSeq([i \in DOMAIN blocks |-> Copied(blocks[i])])
    IN  [type |-> Head(blocks).type, cnt |-> SubSeq(cnt, 1, Lowest(Len(cnt), MaxBuff - 1))]

MutantExpected(b) == next
Expected(b) == IF b.curr = 1 THEN 1 ELSE next

MutantKept(blocks) == blocks
Kept(blocks) == <<>>

(* A first block starts the count anew but leaves _capBlocks alone, and a  *)
(* complete content leaves the count alone.                                *)
AppendBlock(b) ==
    IF b.curr = Expected(b)
    THEN LET blocks == Append(capBlocks, b)
         IN  IF b.curr = b.total
             THEN /\ parsed' = Append(parsed, OutCap(blocks))
                  /\ capBlocks' = Kept(blocks)
                  /\ next' = Expected(b)
             ELSE /\ capBlocks' = blocks /\ next' = b.curr + 1
                  /\ UNCHANGED parsed
    ELSE /\ next' = b.curr + 1
         /\ UNCHANGED <<capBlocks, parsed>>

Earlier(a, b) == a.content < b.content \/ (a.content = b.content /\ a.curr < b.curr)
Overtaken(t) == {u \in Parsers : block[u] # NoBlock /\ Earlier(block[u], block[t])}

(* The thread gets _mutex; a complete content is parsed by this thread.    *)
AppendToProcess(t) ==
    /\ block[t] # NoBlock
    /\ AppendBlock(block[t])
    /\ block' = [block EXCEPT ![t] = NoBlock]
    /\ overtaken' = overtaken + Cardinality(Overtaken(t))
    /\ UNCHANGED <<captured, pushed, fifo, lost>>

Next ==
    \/ \E type \in Types, len \in Lens : Capture(type, len)
    \/ PushBlock
    \/ LoseBlock
    \/ \E t \in Parsers : PopBlock(t) \/ AppendToProcess(t)

Spec == Init /\ [][Next]_vars
-----------------------------------------------------------------------------
(* Every variable has its type, and no content is longer than the buffer.  *)
TypeOK ==
    /\ captured \in Seq([type : Types, len : Lens])
    /\ pushed \in 0..LastTotal
    /\ fifo \in Seq(Blocks)
    /\ block \in [Parsers -> Blocks \cup {NoBlock}]
    /\ capBlocks \in Seq(Blocks)
    /\ next \in Nat
    /\ \A i \in DOMAIN parsed : parsed[i].type \in Types /\ Len(parsed[i].cnt) < MaxBuff
    /\ lost \in Nat /\ overtaken \in Nat

(* What the parsers can be given of content k: its bytes, and then those   *)
(* that a short last block still has of the block before it, from one      *)
(* block before the end of the content to the end of that block.           *)
Bytes(k, len) == [p \in 1..len |-> <<k, p>>]
Stale(k, len) ==
    IF len <= BlockSize THEN <<>>
    ELSE SubSeq(Bytes(k, len), len - BlockSize + 1, (Total(len) - 1) * BlockSize)
Whole(k) ==
    LET len == captured[k].len
        cnt == Bytes(k, len) \o Stale(k, len)
    IN  [type |-> captured[k].type, cnt |-> SubSeq(cnt, 1, Lowest(Len(cnt), MaxBuff - 1))]

(* As long as no block is lost and none overtakes an earlier one, the      *)
(* parsers get the captured contents one by one, in order, each of its own *)
(* direction, whole up to the size of the buffer, and followed by stale    *)
(* bytes of the same content only, which only one of several blocks has.   *)
FaithfulWhileOrderly ==
    lost + overtaken = 0 =>
        /\ Len(parsed) <= Len(captured)
        /\ \A k \in DOMAIN parsed : parsed[k] = Whole(k)

InFlight(k) ==
    \/ k = Len(captured) /\ pushed < LastTotal
    \/ \E i \in DOMAIN fifo : fifo[i].content = k
    \/ \E t \in Parsers : block[t] # NoBlock /\ block[t].content = k
Damaged == {k \in DOMAIN captured : ~InFlight(k) /\ \A i \in DOMAIN parsed : parsed[i] # Whole(k)}

(* The reassembly recovers, whatever a fault leaves in _capBlocks and in   *)
(* the count: a lost block keeps its own content and at most the next one  *)
(* from the parsers, and a block that overtakes another the contents of    *)
(* both and at most one more.                                              *)
DamageBounded == Cardinality(Damaged) <= 2 * lost + 3 * overtaken
=============================================================================
