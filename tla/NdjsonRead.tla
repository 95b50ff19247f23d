----------------------------- MODULE NdjsonRead -----------------------------
(***************************************************************************)
(* fetchNdjson, readNdjsonStream and splitNdjsonLines                      *)
(* (src/apis/model-properties.ts): a file with one JSON row to a line,     *)
(* read chunk by chunk from a response that may cut a row anywhere, with a *)
(* cap on the rows and a cap on the bytes.                                 *)
(*                                                                         *)
(* Abstracted: a row is two pieces of one byte each, so that a chunk can   *)
(* end inside it; a line end is one byte; blank lines are line ends with   *)
(* nothing between them.                                                   *)
(***************************************************************************)
EXTENDS Integers, Sequences, SequencesExt, Ordering

CONSTANTS
    MaxBytes,   \* MAX_NDJSON_RESPONSE_BYTES
    NoCap       \* maxLines is not given

ASSUME NdjsonAssumption == MaxBytes \in Nat /\ NoCap \notin Nat

VARIABLES
    stream,     \* the bytes of the response not yet read
    file,       \* the rows the file holds
    reader,     \* what became of the stream's reader
    rows,       \* the rows parsed so far
    carry,      \* the part of a line that a chunk left over
    bytesRead,
    maxLines    \* the cap of this download

ndjsonVars == <<stream, file, reader, rows, carry, bytesRead, maxLines>>

EOL == <<>>
\* The two pieces of a row; a line end belongs to no row.
Opening(r) == <<r, 1>>
Closing(r) == <<r, 2>>

ReaderStates == {"none", "open", "released", "cancelled", "failed"}

NdjsonTypeOK ==
    /\ reader \in ReaderStates
    /\ bytesRead \in Nat
    /\ Len(rows) <= Len(file)

NdjsonInit ==
    /\ stream = <<>> /\ file = <<>> /\ rows = <<>> /\ carry = <<>>
    /\ reader = "none"
    /\ bytesRead = 0
    /\ maxLines = NoCap

\* How a file with these rows may be written: with blank lines, with a last line end or without.
Written(rs) ==
    LET text == [i \in 1 .. 3 * Len(rs) |->
                    CASE i % 3 = 1 -> Opening(rs[(i + 2) \div 3])
                      [] i % 3 = 2 -> Closing(rs[(i + 1) \div 3])
                      [] OTHER -> EOL]
    IN {text, <<EOL>> \o text, SubSeq(text, 1, Len(text) - 1)}

\* A response arrives; one that declares too many bytes is refused.  A file without rows may
\* come without a body, which leaves nothing to read.
FetchNdjson(rs, cap) ==
    /\ reader \in {"none", "released", "cancelled"}
    /\ file' = rs
    /\ maxLines' = cap
    /\ rows' = <<>> /\ carry' = <<>> /\ bytesRead' = 0
    /\ \/ \E s \in Written(rs), declared \in BOOLEAN :
              /\ stream' = s
              /\ reader' = IF declared /\ Len(s) > MaxBytes THEN "failed" ELSE "open"
       \/ rs = <<>> /\ stream' = <<>> /\ reader' = "released"

\* A timeout, an error status or no connection: nothing is read.
FetchFails ==
    /\ reader \in {"none", "released", "cancelled"}
    /\ reader' = "failed"
    /\ UNCHANGED <<stream, file, rows, carry, bytesRead, maxLines>>

\* What stands before each line end, and after the last one.
SplitAtEnds(text) ==
    LET at == {i \in DOMAIN text : text[i] = EOL}
        ends == InOrder(at, Ascending(at))
        Start(k) == IF k = 1 THEN 1 ELSE ends[k - 1] + 1
    IN [lines |-> [k \in DOMAIN ends |-> SubSeq(text, Start(k), ends[k] - 1)],
        carry |-> SubSeq(text, Start(Len(ends) + 1), Len(text))]

\* A broken splitter: the tail of the chunk counts as a line.
SplitWithoutCarry(held, chunk) == SplitAtEnds(chunk)

\* The complete lines of what was held over and the chunk, and what is held over next.
SplitNdjsonLines(held, chunk) == SplitAtEnds(held \o chunk)

\* A line that is no whole row does not parse.
Parses(line) == line = <<>> \/ \E r \in {line[1][1]} : line = <<Opening(r), Closing(r)>>

Full(rs) == maxLines # NoCap /\ Len(rs) >= maxLines

\* The lines of a chunk one by one: a blank one is skipped, the cap ends the loop.
Parsed(lines) ==
    LET after[k \in 0 .. Len(lines)] ==
            IF k = 0 THEN rows
            ELSE IF Full(after[k - 1]) \/ lines[k] = <<>> THEN after[k - 1]
            ELSE Append(after[k - 1], lines[k][1][1])
    IN after[Len(lines)]

ReadChunk ==
    /\ reader = "open" /\ ~Full(rows)
    /\ \E n \in 1 .. Len(stream) :
           /\ stream' = SubSeq(stream, n + 1, Len(stream))
           /\ bytesRead' = bytesRead + n
           /\ IF bytesRead' > MaxBytes
              THEN reader' = "failed" /\ UNCHANGED <<rows, carry>>
              ELSE LET split == SplitNdjsonLines(carry, SubSeq(stream, 1, n))
                       next == Parsed(split.lines)
                   IN /\ carry' = split.carry
                      /\ IF \A k \in DOMAIN split.lines : Parses(split.lines[k])
                         THEN /\ rows' = next
                              /\ reader' = IF Full(next) THEN "cancelled" ELSE "open"
                         ELSE reader' = "failed" /\ UNCHANGED rows
    /\ UNCHANGED <<file, maxLines>>

\* The response has ended; a last line without an end is a row all the same.
StreamEnds ==
    /\ reader = "open" /\ stream = <<>>
    /\ IF Parses(carry)
       THEN /\ rows' = Parsed(<<carry>>)
            /\ reader' = "released"
       ELSE reader' = "failed" /\ UNCHANGED rows
    /\ UNCHANGED <<stream, file, carry, bytesRead, maxLines>>

\* The connection breaks, or the 45 seconds are over: the reader is cancelled and the call throws.
StreamBreaks ==
    /\ reader = "open"
    /\ reader' = "failed"
    /\ UNCHANGED <<stream, file, rows, carry, bytesRead, maxLines>>

-----------------------------------------------------------------------------
(***************************************************************************)
(* Properties                                                              *)
(***************************************************************************)

\* Wherever the chunks cut the file: a download that ends well gave the rows of the file in
\* order, all of them or as many as the cap allows, and one that stopped early let go of the
\* connection; no row is ever made of pieces of two, and no more bytes are kept than the cap.
DownloadExact ==
    /\ reader \in {"open", "released", "cancelled"} => rows = SubSeq(file, 1, Len(rows))
    /\ reader = "released" => Len(rows) = Len(file)
    /\ reader = "cancelled" => Full(rows) /\ Len(rows) = maxLines
    /\ reader # "failed" => bytesRead <= MaxBytes
=============================================================================
