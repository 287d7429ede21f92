------------------------------ MODULE AsarLoader ------------------------------
(***************************************************************************)
(* net/asar/asar_url_loader.cc and asar_file_validator.cc: a file of an    *)
(* archive, or a range of it, is sent to a client while the validator      *)
(* hashes all that is read, block by block, and ends the process if a      *)
(* block has not the hash the archive promises.  The reads overlap only by *)
(* design: a prefix for sniffing, what lies between it or the start of a   *)
(* block and the range, the range in chunks of any size, and what is       *)
(* missing to the end of the last block.  A hash is modelled by the        *)
(* sequence of the positions in the archive that went into it.             *)
(***************************************************************************)
EXTENDS Integers, Sequences

CONSTANTS BlockSize,    \* block_size of the integrity payload
          MaxSniff,     \* net::kMaxBytesToSniff, less than a block
          MaxSize,      \* bound: bytes of the file
          Word          \* stands for 2^64, beyond every size

VARIABLES
    asar_state,         \* "new", "posted", "writing" or "done"
    info,               \* offset and size of the file, number of its block hashes
    byte_range,         \* first and last byte asked for, or NoRange
    validator,          \* current_block_, current_hash_, total_hash_byte_count_,
                        \* the blocks that were verified, and whether LOG(FATAL) ran
    validator_range,    \* read_start_, extra_read_, read_max_
    producer,           \* next and end position of the data producer
    sent,               \* positions of the file the client was given, in order
    served              \* net error the client was told, or "none"

asarVars == <<asar_state, info, byte_range, validator, validator_range, producer, sent, served>>

NoRange == <<>>
Positions(first, end) == [i \in 1..(IF end > first THEN end - first ELSE 0) |-> first + i - 1]
Least(a, b) == IF a < b THEN a ELSE b
Unsigned(n) == IF n < 0 THEN n + Word ELSE n

Init ==
    /\ asar_state = "new"
    /\ info = [offset |-> 0, size |-> 0, blocks |-> 1] /\ byte_range = NoRange
    /\ validator = [block |-> 0, hash |-> <<>>, total |-> 0, verified |-> {}, fatal |-> FALSE]
    /\ validator_range = [start |-> 0, extra |-> 0, max |-> 0]
    /\ producer = <<0, 0>>
    /\ sent = <<>> /\ served = "none"
-----------------------------------------------------------------------------
(* The validator. *)

BlockBytes(block) ==
    Positions(info.offset + block * BlockSize,
              info.offset + Least((block + 1) * BlockSize, info.size))

\* The end of FinishBlock: compare the hash with the expected one.
CompareHash(v) ==
    IF v.hash = BlockBytes(v.block)
    THEN [v EXCEPT !.hash = <<>>, !.block = @ + 1, !.verified = @ \cup {v.block}]
    ELSE [v EXCEPT !.fatal = TRUE]

\* OnRead: the blocks that are full now are finished, and the rest is kept.  A
\* byte beyond the last block is fatal, as is a block with another hash.
OnRead(v, first, end) ==
    LET bytes == v.hash \o Positions(first, end)
        full == Len(bytes) \div BlockSize
        Full(i) == SubSeq(bytes, (i - 1) * BlockSize + 1, i * BlockSize)
    IN  IF \/ first < end /\ v.block + (Len(bytes) - 1) \div BlockSize > info.blocks - 1
           \/ \E i \in 1..full : Full(i) # BlockBytes(v.block + i - 1)
        THEN [v EXCEPT !.fatal = TRUE]
        ELSE [v EXCEPT !.hash = SubSeq(bytes, full * BlockSize + 1, Len(bytes)),
                       !.block = @ + full,
                       !.total = @ + Len(Positions(first, end)),
                       !.verified = @ \cup { v.block + i - 1 : i \in 1..full }]

\* A faulty OnDone that does not read up to the end of the block.
OnDoneAtOnce(v, range) ==
    IF v.fatal \/ (v.hash = <<>> /\ v.block > info.blocks - 1) THEN v ELSE CompareHash(v)

\* OnDone, by the destructor of the data source: FinishBlock reads what is
\* missing to the end of the block or of the file.
OnDone(v, range) ==
    LET missing == range.max - range.start - v.total + range.extra
        needed == Least(BlockSize - Len(v.hash), Unsigned(missing))
        offset == range.start + v.total - range.extra
    IN  CASE v.fatal \/ (v.hash = <<>> /\ v.block > info.blocks - 1) -> v
          [] ~v.fatal /\ (v.hash # <<>> \/ v.block <= info.blocks - 1) /\ missing = 0 ->
                CompareHash(v)
          [] OTHER ->
                IF offset + needed > info.offset + info.size THEN [v EXCEPT !.fatal = TRUE]
                ELSE CompareHash([v EXCEPT !.hash = @ \o Positions(offset, offset + needed)])
-----------------------------------------------------------------------------
(* The loader. *)

\* CreateAsarURLLoader posts the request for a file of the archive.  The packer
\* has hashed the blocks of the file, and the rest even if it is empty.
CreateAsarURLLoader(offset, size, range) ==
    /\ asar_state = "new" /\ asar_state' = "posted"
    /\ info' = [offset |-> offset, size |-> size, blocks |-> size \div BlockSize + 1]
    /\ byte_range' = range
    /\ UNCHANGED <<validator, validator_range, producer, sent, served>>

\* The prefix that is read for sniffing.
Sniffed == Least(MaxSniff, info.size)
SniffedValidator == OnRead(validator, info.offset, info.offset + Sniffed)

\* ComputeBounds: the range there is, as first byte and end.
Satisfiable == byte_range # NoRange => byte_range[1] < info.size
First == IF byte_range = NoRange THEN 0 ELSE byte_range[1]
End == IF byte_range = NoRange THEN info.size ELSE Least(byte_range[2] + 1, info.size)

\* The early returns after the prefix was read: the range cannot be satisfied,
\* or the prefix cannot be written.  The validator has no range yet.
StartFails(error) ==
    /\ asar_state = "posted" /\ asar_state' = "done"
    /\ error = IF Satisfiable THEN "FAILED" ELSE "RANGE_NOT_SATISFIABLE"
    /\ Satisfiable => First < Sniffed
    /\ validator' = OnDone(SniffedValidator, validator_range)
    /\ served' = error
    /\ UNCHANGED <<info, byte_range, validator_range, producer, sent>>

\* Start.  What of the range is in the prefix is sent from it.  Else, if the
\* range starts in a later block, the first block is read to its end; then
\* what lies between the start of the block of the range, or the prefix, and
\* the range.
Start ==
    /\ asar_state = "posted" /\ Satisfiable
    /\ LET in_prefix == First < Sniffed
           first == IF in_prefix THEN Sniffed ELSE First
           start_block == first \div BlockSize
           whole == ~in_prefix /\ first >= BlockSize
           drop_from == IF start_block = 0 THEN MaxSniff ELSE start_block * BlockSize
           to_drop == Unsigned(first - drop_from)
           head == Sniffed + (IF whole THEN BlockSize - MaxSniff ELSE 0)
           range(dropped) == [start |-> info.offset + first, extra |-> dropped,
                              max |-> info.offset + info.size]
       IN  /\ sent' = IF in_prefix THEN Positions(First, Least(End, Sniffed)) ELSE <<>>
           /\ producer' = <<first, End>>
           /\ \E v \in {IF whole
                        THEN OnRead(SniffedValidator, info.offset + MaxSniff,
                                    info.offset + BlockSize)
                        ELSE SniffedValidator} :
              IF first >= End
              THEN /\ validator_range' = range(head)
                   /\ validator' = OnDone(v, range(head))
                   /\ asar_state' = "done" /\ served' = "OK"
              ELSE /\ validator_range' = range(head + to_drop)
                   /\ validator' = OnRead([v EXCEPT !.block = start_block],
                                          info.offset + drop_from,
                                          info.offset + drop_from + to_drop)
                   /\ asar_state' = "writing" /\ UNCHANGED served
    /\ UNCHANGED <<info, byte_range>>

\* External: the producer reads the next n bytes and writes them.
Produce(n) ==
    /\ asar_state = "writing" /\ ~validator.fatal
    /\ n <= producer[2] - producer[1]
    /\ producer' = <<producer[1] + n, producer[2]>>
    /\ validator' = OnRead(validator, info.offset + producer[1], info.offset + producer[1] + n)
    /\ sent' = sent \o Positions(producer[1], producer[1] + n)
    /\ UNCHANGED <<asar_state, info, byte_range, validator_range, served>>

\* The producer is done, or the client has closed the pipe: OnFileWritten.
OnFileWritten(result) ==
    /\ asar_state = "writing" /\ ~validator.fatal
    /\ result = "OK" => producer[1] = producer[2]
    /\ validator' = OnDone(validator, validator_range)
    /\ asar_state' = "done" /\ served' = result
    /\ UNCHANGED <<info, byte_range, validator_range, producer, sent>>
-----------------------------------------------------------------------------
Ranges == {NoRange} \cup { range \in (0..MaxSize) \X (0..MaxSize) : range[1] <= range[2] }

Work ==
    \/ \E error \in {"FAILED", "RANGE_NOT_SATISFIABLE"} : StartFails(error)
    \/ Start
    \/ \E n \in 1..MaxSize : Produce(n)
    \/ \E result \in {"OK", "FAILED"} : OnFileWritten(result)

Next ==
    \/ \E offset \in {0, 1}, size \in 0..MaxSize, range \in Ranges :
          CreateAsarURLLoader(offset, size, range)
    \/ Work

\* The task runs, and the producer goes on until it is done or the client is gone.
Fairness == WF_asarVars(Work)
NoStep == UNCHANGED asarVars
Spec == Init /\ [][Next]_asarVars /\ Fairness
-----------------------------------------------------------------------------
\* Types.
TypeOK ==
    /\ asar_state \in {"new", "posted", "writing", "done"}
    /\ validator.block \in 0..info.blocks /\ Len(validator.hash) < 2 * BlockSize
    /\ validator.verified \subseteq 0..(info.blocks - 1)
    /\ served \in {"none", "OK", "FAILED", "RANGE_NOT_SATISFIABLE"}

\* The one request of the loader, for RequestService; the process is gone if
\* the validator ended it.
Status == [r \in {1} |->
    CASE asar_state = "new"     -> "new"
      [] asar_state = "posted"  -> "pending"
      [] asar_state = "writing" -> IF validator.fatal THEN "dropped" ELSE "pending"
      [] asar_state = "done"    -> "answered"]

\* Whatever the size, the range and the chunks: the client gets the bytes of
\* the range, once and in order; when the loader is done, every block a byte
\* of which was sent has been hashed as a whole; and the validator ends the
\* process for no file that is as it was packed.  The exception: a loader that
\* fails before the validator has its range.
SentBytesAreVerified ==
    /\ sent = Positions(First, First + Len(sent))
    /\ served = "OK" => Len(sent) = (IF End > First THEN End - First ELSE 0)
    /\ validator.fatal => validator_range.max = 0 /\ served # "none"
    /\ asar_state = "done" /\ ~validator.fatal =>
          \A i \in DOMAIN sent : sent[i] \div BlockSize \in validator.verified
===============================================================================
