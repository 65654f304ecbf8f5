------------------------------ MODULE ReadBulk -------------------------------
(***************************************************************************)
(* readBulkCtx: cutting the body of an import into documents.  The body is *)
(* read through a buffer of BufSize bytes, so a line arrives in fragments, *)
(* and the limits are applied to fragments.  The reference is what a line  *)
(* is: text up to LF or CRLF, or up to the end of the body.                *)
(***************************************************************************)
EXTENDS Naturals, Sequences, FiniteSets, SequencesExt

CONSTANTS
    BufSize,                        \* bufio's buffer, 4096 in the code
    maxLine, maxBytes, maxDocs,     \* limits on a line, the body, the count
    MaxBody                         \* bound: length of a body

ASSUME ReadBulkAssumption ==
    /\ BufSize \in Nat \ {0}
    /\ maxLine \in Nat /\ maxBytes \in Nat /\ maxDocs \in Nat /\ MaxBody \in Nat

(* A byte of a document, one whose canonical form is longer, one that no   *)
(* document has, and the two line-end bytes.  CR is white space in JSON.   *)
Bytes == {"d", "w", "bad", "CR", "LF"}

VARIABLES
    body, ending,       \* the input, and what the reader returns after it
    pos,                \* bytes read
    line, total, documents, lineNumber,     \* the local variables
    result              \* what is returned, or Reading

vars == <<body, ending, pos, line, total, documents, lineNumber, result>>

Reading == [err |-> "reading", line |-> 0]

Init ==
    /\ body \in BoundedSeq(Bytes, MaxBody)
    /\ ending \in {"EOF", "errBulkRead", "DeadlineExceeded"}
    /\ pos = 0 /\ line = <<>> /\ total = 0 /\ documents = <<>> /\ lineNumber = 1
    /\ result = Reading

-----------------------------------------------------------------------------
(* bufio.Reader.ReadSlice: what it may return at pos.  When the last bytes *)
(* just fill the buffer, their end may come with them or after them.       *)
ReadSlice ==
    LET rest == SubSeq(body, pos + 1, Len(body))
        lf == SelectInSeq(rest, LAMBDA b : b = "LF")
        Slice(n, err) == [fragment |-> SubSeq(rest, 1, n), err |-> err]
    IN  IF lf \in 1..BufSize THEN {Slice(lf, "nil")}
        ELSE (IF Len(rest) >= BufSize THEN {Slice(BufSize, "ErrBufferFull")} ELSE {})
             \cup (IF Len(rest) <= BufSize THEN {Slice(Len(rest), ending)} ELSE {})

(* Mutant: the line end counts.                                            *)
rawLen(text, complete) == Len(text)

(* Mutant: only complete lines are measured.                               *)
completeLen(text, complete) == IF complete THEN Len(text) - 1 ELSE 0

lineLen(text, complete) ==
    LET n == Len(text)
    IN  IF ~(complete /\ n > 0 /\ text[n] = "LF") THEN n
        ELSE IF n > 1 /\ text[n - 1] = "CR" THEN n - 2 ELSE n - 1

trimLineEnd(text, complete) ==
    LET Trim(t, b) == IF t # <<>> /\ Last(t) = b THEN Front(t) ELSE t
    IN  IF complete THEN Trim(Trim(text, "LF"), "CR") ELSE text

(* validateDoc: the canonical document, or an error.  Canonical form drops *)
(* white space and writes some bytes as longer escapes.                    *)
canonical(text) == SelectSeq(text, LAMBDA b : b # "CR")
canonicalLen(text) ==
    Len(canonical(text)) + Len(SelectSeq(text, LAMBDA b : b = "w"))

validateDoc(text) ==
    IF Len(text) > maxLine THEN "errBodyTooLarge"
    ELSE IF "bad" \in ToSet(text) \/ canonical(text) = <<>> THEN "errInvalidDoc"
    ELSE IF canonicalLen(text) > maxLine THEN "errBodyTooLarge"
    ELSE "nil"

-----------------------------------------------------------------------------
Return(err, n) ==
    /\ result' = [err |-> err, line |-> n]
    /\ UNCHANGED <<line, documents, lineNumber>>

(* Mutant: the end of the body does not end the loop.                      *)
FinishNever == UNCHANGED <<line, documents, lineNumber, result>>

Finish == Return(IF documents = <<>> THEN "errBulkEmpty" ELSE "nil", 0)

(* Mutant: line is not reset.                                              *)
AddDocKeepLine(text, err) ==
    IF text = <<>> THEN Return("errInvalidDoc", lineNumber)
    ELSE IF Len(documents) >= maxDocs THEN Return("errBulkLimit", lineNumber)
    ELSE IF validateDoc(text) # "nil" THEN Return(validateDoc(text), lineNumber)
    ELSE /\ documents' = Append(documents, canonical(text))
         /\ line' = text /\ lineNumber' = lineNumber + 1
         /\ result' = IF err = "EOF" THEN [err |-> "nil", line |-> 0] ELSE result

(* A line is complete: its document is checked and kept.                   *)
AddDoc(text, err) ==
    IF text = <<>> THEN Return("errInvalidDoc", lineNumber)
    ELSE IF Len(documents) >= maxDocs THEN Return("errBulkLimit", lineNumber)
    ELSE IF validateDoc(text) # "nil" THEN Return(validateDoc(text), lineNumber)
    ELSE /\ documents' = Append(documents, canonical(text))
         /\ line' = <<>> /\ lineNumber' = lineNumber + 1
         /\ result' = IF err = "EOF" THEN [err |-> "nil", line |-> 0] ELSE result

(* One turn of the loop.                                                   *)
readBulkCtx ==
    /\ result = Reading
    /\ \E r \in ReadSlice :
         LET text == line \o r.fragment
             complete == r.err = "nil"
         IN  /\ pos' = pos + Len(r.fragment)
             /\ total' = total + Len(r.fragment)
             /\ IF total' > maxBytes THEN Return("errBulkLimit", 0)
                ELSE IF lineLen(text, complete) > maxLine
                THEN Return("errBulkLimit", lineNumber)
                ELSE IF r.err = "ErrBufferFull"
                THEN line' = text /\ UNCHANGED <<documents, lineNumber, result>>
                ELSE IF r.err \notin {"nil", "EOF"} THEN Return(r.err, 0)
                ELSE IF r.err = "EOF" /\ text = <<>> THEN Finish
                ELSE AddDoc(trimLineEnd(text, complete), r.err)
    /\ UNCHANGED <<body, ending>>

Returned == result # Reading /\ UNCHANGED vars

Next == readBulkCtx \/ Returned

Spec == Init /\ [][Next]_vars /\ WF_vars(readBulkCtx)

-----------------------------------------------------------------------------
(* The reference.  Line k ends with the k-th LF, or with the body.         *)
LFs(i) == Cardinality({j \in 1..i : body[j] = "LF"})
Ended == LFs(Len(body))
Lines == Ended + (IF body = <<>> \/ Last(body) = "LF" THEN 0 ELSE 1)

EndOf(k) ==
    IF k = 0 THEN 0
    ELSE IF k > Ended THEN Len(body)
    ELSE CHOOSE i \in 1..Len(body) : body[i] = "LF" /\ LFs(i) = k

Crlf(k) == k <= Ended /\ EndOf(k) > EndOf(k - 1) + 1 /\ body[EndOf(k) - 1] = "CR"

Text(k) ==
    LET cut == IF Crlf(k) THEN 2 ELSE IF k <= Ended THEN 1 ELSE 0
    IN  SubSeq(body, EndOf(k - 1) + 1, EndOf(k) - cut)

Good(k) ==
    /\ k <= maxDocs /\ Text(k) # <<>> /\ Len(Text(k)) <= maxLine
    /\ validateDoc(Text(k)) = "nil"

Accepted ==
    ending = "EOF" /\ Len(body) <= maxBytes /\ Lines > 0 /\ \A k \in 1..Lines : Good(k)

(* CR is the last byte of a full buffer, and LF is yet to be read.         *)
SplitCrlf(k) ==
    Crlf(k) /\ Len(Text(k)) = maxLine /\ (maxLine + 1) % BufSize = 0

Failed == result # Reading /\ result.err # "nil"

-----------------------------------------------------------------------------
(* readBulkCtx never holds more than one line within its limit, nor reads  *)
(* past the total limit without returning.                                 *)
TypeOK ==
    /\ pos \in 0..Len(body) /\ Len(line) <= maxLine
    /\ result = Reading => total <= maxBytes
    /\ Len(documents) <= maxDocs /\ lineNumber = Len(documents) + 1
    /\ result \in
         [err: {"reading", "nil", "errBulkLimit", "errInvalidDoc", "errBodyTooLarge",
                "errBulkEmpty", "errBulkRead", "DeadlineExceeded"}, line: 0..(maxDocs + 1)]

(* What is imported is what was sent: if readBulkCtx returns documents,    *)
(* the body is acceptable and they are those of its lines, in order,       *)
(* however the lines fall into buffers.                                    *)
ReturnsTheLines ==
    result # Reading /\ ~Failed =>
        Accepted /\ documents = [k \in 1..Lines |-> canonical(Text(k))]

(* An error that names a line names the first line that is not good; a     *)
(* body is refused without reason only for a CRLF split by the buffer.     *)
BlamesTheLine ==
    Failed =>
        LET k == result.line
        IN  IF k = 0 THEN ~Accepted
            ELSE /\ \A j \in 1..(k - 1) : Good(j)
                 /\ k <= Lines /\ (~Good(k) \/ SplitCrlf(k))

(* The loop ends for every body and every way the reader ends.             *)
Returns == <>(result # Reading)

=============================================================================
