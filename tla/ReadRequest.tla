----------------------------- MODULE ReadRequest -----------------------------
(***************************************************************************)
(* How the web server reads one request off its socket: read_header()      *)
(* scans what a read() brought for the ends of header lines, cutting lines *)
(* it does not need out of the buffer; read_body() and write_body() carry  *)
(* the body of a POST through a second buffer to a file, on which the form *)
(* is then run.  A read() returns any number of the bytes that are on      *)
(* their way, and a write() takes any number of those it is given.         *)
(*                                                                         *)
(* A byte is "r" or "n" (the line ends), "0" (the terminator the scanner   *)
(* writes), or a letter.  The request line begins with "p" (a POST) or "s" *)
(* (one without a version), a line that is cut out with "x".               *)
(***************************************************************************)
EXTENDS Integers, Sequences, FiniteSets

CONSTANTS
    Streams,    \* what clients send
    Lengths,    \* the Content-Length they claim; 0 stands for none
    Size,       \* CLIENT_STREAM_SIZE, which is BUFFER_SIZE too
    UploadMax   \* g_max_upload_size

ASSUME ReadAssumption ==
    /\ Streams # {} /\ \A s \in Streams : s \in Seq(STRING)
    /\ Lengths \subseteq Nat
    /\ Size \in Nat \ {0} /\ UploadMax \in Nat

VARIABLES
    stream, filesize,  \* the request of this behaviour
    got,       \* bytes of it read so far
    eof,       \* the client was seen to have closed
    buf,       \* client_stream up to client_stream_pos
    base,      \* buffer: where the last read() put its bytes
    check,     \* the byte to be looked at next
    last,      \* buffer + bytes
    restart,   \* a line of this chunk was cut out
    status,    \* req->status
    hl, he,    \* header_line and header_end in client_stream
    pend, off, \* what is in req->buffer, and header_line in it
    filepos,   \* bytes of the body read
    close,     \* cgi_status is CGI_CLOSE
    file,      \* the temporary file of the body
    pc,        \* where the request is
    lines,     \* the lines that were processed
    kept,      \* where those are that req points to
    cut        \* a line was ended by the end of the buffer

header == <<buf, base, check, last, restart, hl, he>>
body == <<pend, off, filepos, close, file>>
hist == <<lines, kept, cut>>
vars == <<stream, filesize, got, eof, header, status, body, pc, hist>>

Over == {"form", "served", "closed", "bad", "toolarge"}
Scanning == {"READ_HEADER", "ONE_CR", "ONE_LF", "TWO_CR"}

TypeOK ==
    /\ stream \in Streams /\ filesize \in Lengths
    /\ got \in 0..Len(stream) /\ eof \in BOOLEAN
    /\ Len(buf) <= Size
    /\ base \in 1..(Size + 1) /\ check \in 1..(Size + 1)
    /\ last \in 1..(Size + 1)
    /\ hl \in 1..(Size + 1) /\ he \in 0..Size
    /\ restart \in BOOLEAN /\ close \in BOOLEAN /\ cut \in BOOLEAN
    /\ status \in Scanning \cup {"BODY_READ", "BODY_WRITE"}
    /\ off \in 0..Size /\ filepos \in 0..Len(stream)
    /\ pc \in {"ready", "scan"} \cup Over

Init ==
    /\ stream \in Streams /\ filesize \in Lengths
    /\ got = 0 /\ eof = FALSE
    /\ buf = <<>> /\ base = 1 /\ check = 1 /\ last = 1 /\ restart = FALSE
    /\ status = "READ_HEADER" /\ hl = 1 /\ he = 0
    /\ pend = <<>> /\ off = 0 /\ filepos = 0 /\ close = FALSE /\ file = <<>>
    /\ pc = "ready" /\ lines = <<>> /\ kept = {} /\ cut = FALSE

Least(a, b) == IF a <= b THEN a ELSE b

\* The next n bytes of the client.
Bytes(n) == SubSeq(stream, got + 1, got + n)

-----------------------------------------------------------------------------
(* read_header()                                                           *)

\* Broken form of Space: one byte more than there is.
SpaceOffByOne == Size - Len(buf) + 1

Space == Size - Len(buf)

\* A read() that brings n bytes.  A read() that would block leaves
\* everything as it is, also after the jump to restart_tag.
ReadHeader(n) ==
    /\ pc = "ready" /\ status \in Scanning
    /\ n <= Space
    /\ got' = got + n
    /\ buf' = buf \o Bytes(n)
    /\ base' = Len(buf) + 1 /\ check' = Len(buf) + 1
    /\ last' = Len(buf) + 1 + n
    /\ restart' = FALSE
    /\ pc' = "scan"
    /\ UNCHANGED <<stream, filesize, eof, status, hl, he, body, hist>>

\* read() returns 0: the client is gone, or there is no space left.
HeaderEof ==
    /\ pc = "ready" /\ status \in Scanning
    /\ got = Len(stream) \/ Space = 0
    /\ pc' = "closed"
    /\ UNCHANGED <<stream, filesize, got, eof, header, status, body, hist>>

Class(c) == IF c \in {"r", "n"} THEN c ELSE "c"

Step == [READ_HEADER |-> [r |-> "ONE_CR", n |-> "ONE_LF", c |-> "READ_HEADER"],
         ONE_CR |-> [r |-> "READ_HEADER", n |-> "ONE_LF", c |-> "READ_HEADER"],
         ONE_LF |-> [r |-> "TWO_CR", n |-> "BODY_READ", c |-> "READ_HEADER"],
         TWO_CR |-> [r |-> "READ_HEADER", n |-> "BODY_READ",
                     c |-> "READ_HEADER"]]

\* The last byte of a full buffer ends a line.
AtEnd == /\ status = "READ_HEADER" /\ Class(buf[check]) = "c"
         /\ check = base + Size - 1

NextStatus == IF AtEnd THEN "ONE_LF" ELSE Step[status][Class(buf[check])]

HeaderEnd == IF status = "READ_HEADER" /\ NextStatus \in {"ONE_CR", "ONE_LF"}
             THEN check ELSE he

Line == SubSeq(buf, hl, HeaderEnd - 1)

\* Broken form of Ended: the line is not terminated.
EndedNot == buf

Ended == [buf EXCEPT ![HeaderEnd] = "0"]

\* Inside a line, or in the middle of a line end.
ScanByte ==
    /\ pc = "scan" /\ check < last
    /\ NextStatus \notin {"ONE_LF", "BODY_READ"}
    /\ status' = NextStatus /\ he' = HeaderEnd
    /\ check' = check + 1
    /\ UNCHANGED <<stream, filesize, got, eof, buf, base, last, restart, hl,
                   body, pc, hist>>

LineFound ==
    /\ pc = "scan" /\ check < last
    /\ NextStatus = "ONE_LF"
    /\ status' = "ONE_LF" /\ he' = HeaderEnd
    /\ cut' = (cut \/ AtEnd)
    /\ lines' = Append(lines, Line)
    /\ UNCHANGED <<stream, filesize, got, eof, base, body>>

Keep == kept' = kept \cup {[at |-> hl, line |-> Line]}

\* process_logline(): the request line, refused when it has no method.
\* One without a version is the whole request.
LogLine ==
    /\ lines = <<>> /\ LineFound
    /\ buf' = Ended /\ check' = check + 1 /\ hl' = check + 1
    /\ pc' = CASE Ended[1] = "p" -> "scan"
               [] Ended[1] = "s" -> "served"
               [] OTHER -> "bad"
    /\ Keep
    /\ UNCHANGED <<last, restart>>

Unwanted(line) == line # <<>> /\ line[1] = "x"

\* process_option_line() for a line that req keeps a pointer to, or that
\* has no colon.
OptionLine ==
    /\ lines # <<>> /\ LineFound
    /\ ~Unwanted(Line)
    /\ buf' = Ended /\ check' = check + 1 /\ hl' = check + 1
    /\ Keep
    /\ UNCHANGED <<pc, last, restart>>

\* Broken form of EatLine: header_line stays before the LF that is left.
EatLineNoAdvance ==
    /\ lines # <<>> /\ LineFound
    /\ Unwanted(Line)
    /\ LET throw == HeaderEnd - hl + 1 IN
       /\ buf' = SubSeq(buf, 1, hl - 1) \o SubSeq(buf, HeaderEnd + 1, Len(buf))
       /\ check' = check + 1 - throw /\ last' = last - throw
    /\ restart' = TRUE
    /\ UNCHANGED <<pc, kept, hl>>

\* ... and for one that goes to the environment: the rest of the buffer is
\* moved down over it.
EatLine ==
    /\ lines # <<>> /\ LineFound
    /\ Unwanted(Line)
    /\ LET throw == HeaderEnd - hl + 1 IN
       /\ buf' = SubSeq(buf, 1, hl - 1) \o SubSeq(buf, HeaderEnd + 1, Len(buf))
       /\ check' = check + 1 - throw /\ last' = last - throw
       /\ hl' = check + 1 - throw
    /\ restart' = TRUE
    /\ UNCHANGED <<pc, kept>>

\* The empty line: process_header_end() answers the request, or opens the
\* file of a POST, to which what is left of the chunk belongs.
BodyFound ==
    /\ pc = "scan" /\ check < last
    /\ NextStatus = "BODY_READ"
    /\ status' = "BODY_READ"
    /\ check' = check + 1
    /\ \/ pc' = "served" /\ UNCHANGED body
       \/ /\ pc' = "ready"
          /\ pend' = SubSeq(buf, check + 1, last - 1)
          /\ off' = 0 /\ file' = <<>>
          /\ filepos' = last - check - 1
          /\ close' = (filepos' >= filesize)
    /\ UNCHANGED <<stream, filesize, got, eof, buf, base, last, restart, hl,
                   he, hist>>

Strlen0 == base > Len(buf) \/ buf[base] = "0"
NoNul == base = 1 /\ Len(buf) = Size /\ \A i \in 1..Size : buf[i] # "0"

\* The chunk is used up: what is there is answered or waits for more.
ChunkEnd ==
    /\ pc = "scan" /\ check = last
    /\ pc' = CASE status = "READ_HEADER" /\ buf[1] \notin {"p", "s"} -> "bad"
               [] restart -> "ready"
               [] status = "READ_HEADER" /\ NoNul -> "toolarge"
               [] status = "READ_HEADER" /\ ~Strlen0 -> "bad"
               [] OTHER -> "ready"
    /\ UNCHANGED <<stream, filesize, got, eof, header, status, body, hist>>

-----------------------------------------------------------------------------
(* read_body() and write_body()                                            *)

\* Broken form of Room: what is already in the buffer is forgotten.
RoomWhole == IF filesize = 0 THEN Size ELSE Least(Size, filesize - filepos)

\* bytes_to_read
Room == IF filesize = 0 THEN Size - Len(pend)
        ELSE Least(Size - Len(pend), filesize - filepos)

InBodyRead == pc = "ready" /\ status = "BODY_READ"

BodyFull ==
    /\ InBodyRead /\ Room <= 0
    /\ status' = "BODY_WRITE"
    /\ UNCHANGED <<stream, filesize, got, eof, header, body, pc, hist>>

ReadBody(n) ==
    /\ InBodyRead /\ n <= Room
    /\ got' = got + n
    /\ pend' = pend \o Bytes(n)
    /\ filepos' = filepos + n
    /\ status' = IF n = Room THEN "BODY_WRITE" ELSE status
    /\ UNCHANGED <<stream, filesize, eof, header, off, close, file, pc, hist>>

\* read() would block: without a length this is taken for the end.
BodyBlocked ==
    /\ InBodyRead /\ Room > 0 /\ filesize = 0
    /\ status' = "BODY_WRITE"
    /\ UNCHANGED <<stream, filesize, got, eof, header, body, pc, hist>>

\* Broken form of BodyEof: the request is not marked.
BodyEofUnmarked ==
    /\ InBodyRead /\ Room > 0 /\ got = Len(stream)
    /\ eof' = TRUE
    /\ status' = "BODY_WRITE"
    /\ UNCHANGED <<stream, filesize, got, header, pend, off, filepos, file,
                   close, pc, hist>>

\* The client has closed: the form runs with what there is.
BodyEof ==
    /\ InBodyRead /\ Room > 0 /\ got = Len(stream)
    /\ eof' = TRUE
    /\ close' = TRUE
    /\ status' = "BODY_WRITE"
    /\ UNCHANGED <<stream, filesize, got, header, pend, off, filepos, file,
                   pc, hist>>

InBodyWrite == pc = "ready" /\ status = "BODY_WRITE"

\* Broken form of BodyWritten: an empty buffer is the end of the body.
BodyWrittenEarly ==
    /\ InBodyWrite /\ pend = <<>>
    /\ off' = 0
    /\ pc' = "form"
    /\ UNCHANGED <<stream, filesize, got, eof, header, pend, filepos, close,
                   file, status, hist>>

\* The buffer is written out: init_form(), or more to read.
BodyWritten ==
    /\ InBodyWrite /\ pend = <<>>
    /\ off' = 0
    /\ \/ /\ close \/ filepos >= filesize
          /\ pc' = "form" /\ UNCHANGED status
       \/ /\ ~close /\ filepos < filesize
          /\ status' = "BODY_READ" /\ UNCHANGED pc
    /\ UNCHANGED <<stream, filesize, got, eof, header, pend, filepos, close,
                   file, hist>>

\* Broken form of WriteBody: what write() did not take is dropped.
WriteBodyAll(n) ==
    /\ InBodyWrite /\ n <= Len(pend) /\ filepos <= UploadMax
    /\ file' = file \o SubSeq(pend, 1, n)
    /\ pend' = <<>> /\ off' = off + Len(pend)
    /\ UNCHANGED <<stream, filesize, got, eof, header, status, filepos, close,
                   pc, hist>>

\* write() takes n bytes.
WriteBody(n) ==
    /\ InBodyWrite /\ n <= Len(pend) /\ filepos <= UploadMax
    /\ file' = file \o SubSeq(pend, 1, n)
    /\ pend' = SubSeq(pend, n + 1, Len(pend)) /\ off' = off + n
    /\ UNCHANGED <<stream, filesize, got, eof, header, status, filepos, close,
                   pc, hist>>

\* Beyond the limit the bytes are read and not written.
SkipBody ==
    /\ InBodyWrite /\ pend # <<>> /\ filepos > UploadMax
    /\ pend' = <<>> /\ off' = off + Len(pend)
    /\ UNCHANGED <<stream, filesize, got, eof, header, status, filepos, close,
                   file, pc, hist>>

\* A read() or write() that fails ends the request.
IoError ==
    /\ \/ pc = "ready" /\ status \in Scanning
       \/ InBodyRead /\ Room > 0
       \/ InBodyWrite /\ pend # <<>> /\ filepos <= UploadMax
    /\ pc' = "closed"
    /\ UNCHANGED <<stream, filesize, got, eof, header, status, body, hist>>

-----------------------------------------------------------------------------
Arrived == 1..(Len(stream) - got)

Scan == ScanByte \/ LogLine \/ OptionLine \/ EatLine \/ BodyFound \/ ChunkEnd

Reading ==
    \/ HeaderEof \/ BodyEof
    \/ \E n \in Arrived : ReadHeader(n) \/ ReadBody(n)

Writing ==
    \/ BodyFull \/ BodyWritten \/ SkipBody
    \/ \E n \in 1..Len(pend) : WriteBody(n)

Next == Scan \/ Reading \/ Writing \/ BodyBlocked \/ IoError

\* The client sends all of its bytes and closes; the engine gives a request
\* on its ready list turn after turn.
Spec == Init /\ [][Next]_vars /\ WF_vars(Scan \/ Reading \/ Writing)

-----------------------------------------------------------------------------
(* Properties                                                              *)

\* Every CR of the stream is part of a CR LF.
CleanEnds ==
    \A i \in 1..Len(stream) : stream[i] = "r" =>
        i < Len(stream) /\ stream[i + 1] = "n"

\* Where line k of the stream ends, and what is in it without its end.
LineFeed(k) ==
    CHOOSE i \in 1..Len(stream) :
        /\ stream[i] = "n"
        /\ Cardinality({j \in 1..i : stream[j] = "n"}) = k
LineOf(k) ==
    LET from == IF k = 1 THEN 1 ELSE LineFeed(k - 1) + 1
        end == LineFeed(k)
    IN  SubSeq(stream, from,
               IF end > from /\ stream[end - 1] = "r" THEN end - 2 ELSE end - 1)
BodyStart == LineFeed(Len(lines) + 1) + 1

(***************************************************************************)
(* LinesExact: however the bytes are divided between read() calls, and     *)
(* whichever lines were moved out of the buffer before, read_header()      *)
(* processes exactly the lines of the stream, in order; for streams in     *)
(* which a CR comes only before a line feed (CleanEnds), as long as no     *)
(* line was ended by the end of the buffer (cut).                          *)
(***************************************************************************)
LinesExact ==
    CleanEnds /\ ~cut => \A k \in 1..Len(lines) : lines[k] = LineOf(k)

(***************************************************************************)
(* KeptIntact: the strings that req->logline, req->host and the others     *)
(* point to in client_stream are not disturbed by later lines.             *)
(***************************************************************************)
KeptIntact ==
    \A k \in kept :
        LET end == k.at + Len(k.line) IN
        /\ SubSeq(buf, k.at, end - 1) = k.line
        /\ end <= Len(buf) /\ buf[end] = "0"

(***************************************************************************)
(* BodyExact: the file and the buffer together hold the body, each byte    *)
(* once and in order, through partial reads and writes, and beyond the     *)
(* limit on uploads the file is a beginning of it; where the body begins   *)
(* is told by counting lines, hence for the same streams as LinesExact.    *)
(***************************************************************************)
BodyExact ==
    status \in {"BODY_READ", "BODY_WRITE"} /\ pc # "served"
    /\ CleanEnds /\ ~cut =>
        LET sent == SubSeq(stream, BodyStart, BodyStart + filepos - 1) IN
        IF filepos <= UploadMax THEN file \o pend = sent
        ELSE file = SubSeq(sent, 1, Len(file))

(***************************************************************************)
(* InBuffer: neither what is left of the header's chunk nor a read() of    *)
(* the body passes the end of req->buffer.                                 *)
(***************************************************************************)
InBuffer == off + Len(pend) <= Size

(***************************************************************************)
(* FormWhole: the form is run on a file that holds at least the length the *)
(* client claimed, unless the client closed or the upload is too large.    *)
(***************************************************************************)
FormWhole ==
    pc = "form" => Len(file) >= filesize \/ eof \/ filepos > UploadMax

(***************************************************************************)
(* ReadEnds: reading comes to an end once the client has sent its bytes    *)
(* and closed; the handlers do not pass a request to and fro for ever.     *)
(***************************************************************************)
ReadEnds == <>(pc \in Over)

(***************************************************************************)
(* MalformedOnly: only a malformed request is answered as one, also when   *)
(* it is, as the comment at the end of read_header() has it, "split across *)
(* more than one packet".  Here a request is well-formed if it begins with *)
(* a method, has clean line ends and an empty line, and fits the buffer.   *)
(***************************************************************************)
MalformedOnly ==
    pc = "bad" => ~ /\ stream[1] = "p" /\ CleanEnds /\ Len(stream) <= Size
                    /\ \E i \in 2..Len(stream) :
                         /\ stream[i] = "n"
                         /\ \/ stream[i - 1] = "n"
                            \/ i > 2 /\ stream[i - 2] = "n"
=============================================================================
