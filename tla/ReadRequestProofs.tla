-------------------------- MODULE ReadRequestProofs --------------------------
(***************************************************************************)
(* Theorems about ReadRequest, for any request, any sizes of the buffers   *)
(* and any way the bytes are divided between the calls of read() and       *)
(* write(): no index leaves its buffer, the lines that are processed are   *)
(* those of the request, the strings that req points to stay what they     *)
(* were, and the file gets the body, each byte once and in order.          *)
(***************************************************************************)
EXTENDS ReadRequest, FiniteSetTheorems, SequenceTheorems, TLAPS

\* What the buffers hold: bytes of the client, and terminators.
Chars == STRING \cup {"0"}

-----------------------------------------------------------------------------
(* Parts of a buffer                                                       *)

\* The m bytes that follow the first a.
LEMMA PartIs ==
  ASSUME NEW s \in Seq(Chars), NEW a \in Nat, NEW m \in Nat, a + m <= Len(s)
  PROVE  /\ SubSeq(s, a + 1, a + m) \in Seq(Chars)
         /\ Len(SubSeq(s, a + 1, a + m)) = m
         /\ \A i \in 1..m : SubSeq(s, a + 1, a + m)[i] = s[a + i]
<1> DEFINE t == SubSeq(s, a + 1, a + m)
<1>1. \A i \in (a + 1)..(a + m) : s[i] \in Chars
  OBVIOUS
<1>2. /\ t \in Seq(Chars)
      /\ Len(t) = IF a + 1 <= a + m THEN (a + m) - (a + 1) + 1 ELSE 0
      /\ \A i \in 1..((a + m) - (a + 1) + 1) : t[i] = s[(a + 1) + i - 1]
  BY <1>1, SubSeqProperties
<1> HIDE DEF t
<1>3. Len(t) = m /\ (a + m) - (a + 1) + 1 = m
  BY <1>2
<1>4. \A i \in 1..m : (a + 1) + i - 1 = a + i
  OBVIOUS
<1>5. \A i \in 1..m : t[i] = s[a + i]
  BY <1>2, <1>3, <1>4
<1> QED BY <1>2, <1>3, <1>5 DEF t

\* The same distance on both sides.
LEMMA Shift ==
  ASSUME NEW g \in Int, NEW l \in Int, NEW n \in Int, NEW i \in Int
  PROVE  /\ (g + n) - (l + n) + i = g - l + i
         /\ g - l + (i + n) = g - (l - n) + i
         /\ g - l + (l - n + i) = g - n + i /\ g + 0 = g
OBVIOUS

-----------------------------------------------------------------------------
(* Line feeds of the stream                                                *)

\* How many of the first i bytes of s are line feeds.
Feeds(s, i) == Cardinality({j \in 1..i : s[j] = "n"})

\* One byte more has one line feed more, if it is one.
LEMMA FeedsNext ==
  ASSUME NEW s, NEW i \in Nat
  PROVE  /\ Feeds(s, 0) = 0 /\ Feeds(s, i) \in Nat
         /\ Feeds(s, i + 1) = Feeds(s, i) + (IF s[i + 1] = "n" THEN 1 ELSE 0)
<1> DEFINE A(n) == {j \in 1..n : s[j] = "n"}
<1>1. \A n \in Nat : IsFiniteSet(A(n)) /\ Cardinality(A(n)) \in Nat
  <2> TAKE n \in Nat
  <2>1. IsFiniteSet(1..n)
    BY FS_Interval
  <2>2. A(n) \in SUBSET (1..n)
    OBVIOUS
  <2> HIDE DEF A
  <2> QED BY <2>1, <2>2, FS_Subset, FS_CardinalityType
<1>2. A(0) = {}
  OBVIOUS
<1>3. A(i + 1) = IF s[i + 1] = "n" THEN A(i) \cup {i + 1} ELSE A(i)
  <2>1. 1..(i + 1) = (1..i) \cup {i + 1}
    OBVIOUS
  <2> QED BY <2>1
<1>4. i + 1 \notin A(i)
  OBVIOUS
<1>5. Feeds(s, 0) = Cardinality(A(0)) /\ Feeds(s, i) = Cardinality(A(i))
      /\ Feeds(s, i + 1) = Cardinality(A(i + 1))
  BY DEF Feeds
<1> HIDE DEF A
<1>6. s[i + 1] = "n" => Cardinality(A(i + 1)) = Cardinality(A(i)) + 1
  BY <1>1, <1>3, <1>4, FS_AddElement
<1>7. Cardinality(A(0)) = 0
  BY <1>2, FS_EmptySet
<1> QED BY <1>1, <1>3, <1>5, <1>6, <1>7

\* A line feed is found by its number.
LEMMA FeedsUnique ==
  ASSUME NEW s, NEW a \in Nat, NEW b \in Nat, a < b, s[b] = "n"
  PROVE  Feeds(s, a) < Feeds(s, b)
<1> DEFINE A == {j \in 1..a : s[j] = "n"}
           B == {j \in 1..b : s[j] = "n"}
<1>1. IsFiniteSet(1..b)
  BY FS_Interval
<1>2. B \in SUBSET (1..b) /\ A \in SUBSET B /\ b \in B /\ b \notin A
  OBVIOUS
<1>3. Feeds(s, a) = Cardinality(A) /\ Feeds(s, b) = Cardinality(B)
  BY DEF Feeds
<1> HIDE DEF A, B
<1>4. IsFiniteSet(B)
  BY <1>1, <1>2, FS_Subset
<1>5. IsFiniteSet(A) /\ Cardinality(A) <= Cardinality(B)
      /\ (Cardinality(B) = Cardinality(A) => B = A)
  BY <1>2, <1>4, FS_Subset
<1>6. Cardinality(A) \in Nat /\ Cardinality(B) \in Nat
  BY <1>4, <1>5, FS_CardinalityType
<1> QED BY <1>2, <1>3, <1>5, <1>6

\* LineFeed() finds the line feed that is meant.
LEMMA LineFeedIs ==
  ASSUME stream \in Seq(Chars), NEW a \in 1..Len(stream), stream[a] = "n"
  PROVE  LineFeed(Feeds(stream, a)) = a
<1> DEFINE k == Feeds(stream, a)
           Q(i) == stream[i] = "n" /\ Feeds(stream, i) = k
<1>1. LineFeed(k) = CHOOSE i \in 1..Len(stream) : Q(i)
  BY DEF LineFeed, Feeds
<1>2. Q(a)
  OBVIOUS
<1>3. ASSUME NEW i \in 1..Len(stream), Q(i)
      PROVE  i = a
  <2>1. i \in Nat /\ a \in Nat
    OBVIOUS
  <2>2. Feeds(stream, i) \in Nat /\ Feeds(stream, a) \in Nat
    BY <2>1, FeedsNext
  <2>3. ~(i < a)
    BY <1>3, <2>1, <2>2, FeedsUnique
  <2>4. ~(a < i)
    BY <1>3, <2>1, <2>2, FeedsUnique
  <2> QED BY <2>1, <2>3, <2>4
<1> HIDE DEF Q, k
<1>4. LineFeed(k) = a
  BY <1>1, <1>2, <1>3
<1> QED BY <1>4 DEF k

-----------------------------------------------------------------------------
(* The inductive invariant                                                 *)

Types ==
    /\ stream \in Streams /\ filesize \in Lengths
    /\ got \in 0..Len(stream) /\ eof \in BOOLEAN
    /\ buf \in Seq(Chars) /\ Len(buf) <= Size
    /\ base \in 1..(Size + 1) /\ check \in 1..(Size + 1)
    /\ last \in 1..(Size + 1)
    /\ hl \in 1..(Size + 1) /\ he \in 0..Size
    /\ restart \in BOOLEAN /\ close \in BOOLEAN /\ cut \in BOOLEAN
    /\ status \in Scanning \cup {"BODY_READ", "BODY_WRITE"}
    /\ off \in 0..Size /\ filepos \in 0..Len(stream)
    /\ pc \in {"ready", "scan"} \cup Over
    /\ pend \in Seq(Chars) /\ file \in Seq(Chars)
    /\ lines \in Seq(Seq(Chars))

\* Where byte i of the buffer is in the stream, if it is not behind a line
\* that was cut out.
Pos(i) == got - Len(buf) + i

InBody == status \in {"BODY_READ", "BODY_WRITE"} /\ pc # "served"

\* The scanner is behind the start of its line and before the end of what
\* was read; the rest of the buffer are the last bytes read.
Scanner ==
    /\ pc = "scan" => status \in Scanning
    /\ status \in Scanning =>
         /\ last = Len(buf) + 1 /\ hl <= check /\ check <= last
         /\ Len(buf) <= got
         /\ pc = "ready" => check = last
         /\ status = "ONE_CR" => hl <= he /\ he = check - 1
         /\ \A i \in hl..Len(buf) : buf[i] = stream[Pos(i)]

\* Before the body there is nothing of it.
Idle ==
    ~InBody => /\ pend = <<>> /\ off = 0 /\ filepos = 0 /\ close = FALSE
               /\ file = <<>>

\* The buffer holds the last bytes read, the file the first of the body, and
\* both together all of it until the limit is passed.
BodyInv ==
    InBody =>
        /\ filepos <= got /\ Len(file) <= filepos /\ Len(pend) <= got
        /\ status = "BODY_READ" => off = 0
        /\ \A i \in 1..Len(file) : file[i] = stream[got - filepos + i]
        /\ \A i \in 1..Len(pend) : pend[i] = stream[got - Len(pend) + i]
        /\ filepos <= UploadMax => Len(file) + Len(pend) = filepos
        /\ close => eof \/ filepos >= filesize

Base == Types /\ Scanner /\ Idle /\ BodyInv /\ InBuffer

\* The constants and the lengths are numbers.
LEMMA Numeric ==
  ASSUME Types
  PROVE  /\ stream \in Seq(Chars) /\ Len(stream) \in Nat /\ Len(buf) \in Nat
         /\ Len(pend) \in Nat /\ Len(file) \in Nat /\ Len(lines) \in Nat
         /\ Size \in Nat /\ Size > 0 /\ UploadMax \in Nat /\ filesize \in Nat
         /\ \A i \in 1..Len(stream) : stream[i] \in Chars
<1>1. stream \in Seq(STRING) /\ STRING \subseteq Chars
  BY ReadAssumption DEF Types, Chars
<1>2. stream \in Seq(Chars)
  BY <1>1, SeqMonotonic
<1> QED BY <1>2, ReadAssumption DEF Types

\* The next n bytes of the client.
LEMMA BytesAre ==
  ASSUME Types, NEW n \in Arrived
  PROVE  /\ n \in Nat /\ n > 0 /\ got + n <= Len(stream)
         /\ Bytes(n) \in Seq(Chars) /\ Len(Bytes(n)) = n
         /\ \A i \in 1..n : Bytes(n)[i] = stream[got + i]
<1>1. n \in Nat /\ n > 0 /\ got + n <= Len(stream) /\ got \in Nat
  BY Numeric DEF Types, Arrived
<1>2. stream \in Seq(Chars)
  BY Numeric
<1>3. Bytes(n) = SubSeq(stream, got + 1, got + n)
  BY DEF Bytes
<1>4. /\ SubSeq(stream, got + 1, got + n) \in Seq(Chars)
      /\ Len(SubSeq(stream, got + 1, got + n)) = n
      /\ \A i \in 1..n : SubSeq(stream, got + 1, got + n)[i] = stream[got + i]
  BY ONLY <1>1, <1>2, PartIs
<1> QED BY <1>1, <1>3, <1>4

\* The automaton of read_header(), by the byte it looks at.
LEMMA Automaton ==
  ASSUME Types, Scanner, pc = "scan", check < last
  PROVE  LET b == buf[check] IN
         /\ check \in 1..Len(buf) /\ b \in Chars /\ b = stream[Pos(check)]
         /\ NextStatus \in Scanning \cup {"BODY_READ"}
         /\ HeaderEnd = IF /\ status = "READ_HEADER"
                           /\ NextStatus \in {"ONE_CR", "ONE_LF"}
                        THEN check ELSE he
         /\ NextStatus = "ONE_LF" =>
              \/ status = "READ_HEADER" /\ (b = "n" \/ AtEnd)
              \/ status = "ONE_CR" /\ b = "n" /\ ~AtEnd
         /\ NextStatus = "BODY_READ" => b = "n"
         /\ NextStatus \notin {"ONE_LF", "BODY_READ"} => b # "n"
         /\ NextStatus = "ONE_CR" => status = "READ_HEADER" /\ b = "r"
         /\ NextStatus = "TWO_CR" => b = "r"
         /\ NextStatus = "READ_HEADER" =>
              b # "r" \/ status \in {"ONE_CR", "TWO_CR"}
<1> DEFINE b == buf[check]
<1>1. check \in 1..Len(buf) /\ b \in Chars /\ b = stream[Pos(check)]
  <2>1. status \in Scanning /\ buf \in Seq(Chars) /\ Len(buf) \in Nat
    BY Numeric DEF Types, Scanner
  <2>2. check \in Nat /\ hl \in Nat /\ hl >= 1 /\ hl <= check
        /\ last = Len(buf) + 1 /\ check >= 1
    BY <2>1, Numeric DEF Types, Scanner
  <2>3. check \in 1..Len(buf) /\ check \in hl..Len(buf)
    BY <2>1, <2>2
  <2> QED BY <2>1, <2>3 DEF Scanner
<1>2. status \in Scanning
  BY DEF Scanner
<1>3. Class(b) = IF b = "r" THEN "r" ELSE IF b = "n" THEN "n" ELSE "c"
  BY DEF Class
<1> DEFINE c == Class(b)
<1>4. /\ Step["READ_HEADER"]["r"] = "ONE_CR"
      /\ Step["READ_HEADER"]["n"] = "ONE_LF"
      /\ Step["READ_HEADER"]["c"] = "READ_HEADER"
      /\ Step["ONE_CR"]["r"] = "READ_HEADER" /\ Step["ONE_CR"]["n"] = "ONE_LF"
      /\ Step["ONE_CR"]["c"] = "READ_HEADER"
      /\ Step["ONE_LF"]["r"] = "TWO_CR" /\ Step["ONE_LF"]["n"] = "BODY_READ"
      /\ Step["ONE_LF"]["c"] = "READ_HEADER"
      /\ Step["TWO_CR"]["r"] = "READ_HEADER"
      /\ Step["TWO_CR"]["n"] = "BODY_READ"
      /\ Step["TWO_CR"]["c"] = "READ_HEADER"
  BY DEF Step
<1>5. NextStatus = IF AtEnd THEN "ONE_LF" ELSE Step[status][c]
  BY DEF NextStatus
<1>6. AtEnd => status = "READ_HEADER" /\ c = "c"
  BY DEF AtEnd
<1>7. HeaderEnd = IF status = "READ_HEADER" /\ NextStatus \in {"ONE_CR", "ONE_LF"}
                  THEN check ELSE he
  BY DEF HeaderEnd
<1>8. c \in {"r", "n", "c"} /\ (c = "r" <=> b = "r") /\ (c = "n" <=> b = "n")
  BY <1>3
<1> HIDE DEF b, c
<1>9. CASE status = "READ_HEADER"
  BY <1>1, <1>4, <1>5, <1>6, <1>7, <1>8, <1>9 DEF Scanning, b
<1>10. CASE status = "ONE_CR"
  BY <1>1, <1>4, <1>5, <1>6, <1>7, <1>8, <1>10 DEF Scanning, b
<1>11. CASE status = "ONE_LF"
  BY <1>1, <1>4, <1>5, <1>6, <1>7, <1>8, <1>11 DEF Scanning, b
<1>12. CASE status = "TWO_CR"
  BY <1>1, <1>4, <1>5, <1>6, <1>7, <1>8, <1>12 DEF Scanning, b
<1> QED BY <1>2, <1>9, <1>10, <1>11, <1>12 DEF Scanning

\* The line that was found ends at the byte looked at, or at the CR before,
\* and a terminator is written there.
LEMMA LineEnds ==
  ASSUME Types, Scanner, pc = "scan", check < last, NextStatus = "ONE_LF"
  PROVE  /\ HeaderEnd \in Nat /\ hl <= HeaderEnd
         /\ HeaderEnd = check \/ HeaderEnd = check - 1
         /\ HeaderEnd <= Len(buf) /\ HeaderEnd <= Size /\ HeaderEnd >= 1
         /\ Line \in Seq(Chars) /\ Len(Line) = HeaderEnd - hl
         /\ \A i \in 1..(HeaderEnd - hl) : Line[i] = buf[hl + i - 1]
         /\ Ended \in Seq(Chars) /\ Len(Ended) = Len(buf)
         /\ \A i \in 1..Len(buf) :
              Ended[i] = IF i = HeaderEnd THEN "0" ELSE buf[i]
<1>1. /\ check \in 1..Len(buf) /\ Len(buf) \in Nat /\ Len(buf) <= Size
      /\ hl \in Nat /\ hl >= 1 /\ hl <= check /\ buf \in Seq(Chars)
      /\ check \in Nat /\ Size \in Nat
  BY Automaton, Numeric DEF Types, Scanner
<1>2. /\ HeaderEnd \in Nat /\ hl <= HeaderEnd
      /\ HeaderEnd = check \/ HeaderEnd = check - 1
  <2>1. CASE status = "READ_HEADER"
    BY <1>1, <2>1, Automaton
  <2>2. CASE status = "ONE_CR"
    <3>1. HeaderEnd = he
      BY <2>2, Automaton
    <3>2. hl <= he /\ he = check - 1
      BY <2>2 DEF Scanner, Scanning
    <3> QED BY <1>1, <3>1, <3>2
  <2> QED BY <2>1, <2>2, Automaton
<1>3. /\ HeaderEnd <= Len(buf) /\ HeaderEnd <= Size /\ HeaderEnd >= 1
      /\ HeaderEnd \in 1..Len(buf)
  BY <1>1, <1>2
<1>4. /\ Ended \in Seq(Chars) /\ Len(Ended) = Len(buf)
      /\ \A i \in 1..Len(buf) :
           Ended[i] = IF i = HeaderEnd THEN "0" ELSE buf[i]
  <2> DEFINE h == HeaderEnd
             e == "0"
  <2>1. Ended = [buf EXCEPT ![h] = e] /\ h \in 1..Len(buf)
    BY <1>3 DEF Ended
  <2>2. e \in Chars
    BY DEF Chars
  <2> HIDE DEF h, e
  <2>3. /\ [buf EXCEPT ![h] = e] \in Seq(Chars)
        /\ Len([buf EXCEPT ![h] = e]) = Len(buf)
        /\ \A j \in 1..Len(buf) :
             [buf EXCEPT ![h] = e][j] = IF j = h THEN e ELSE buf[j]
    BY <1>1, <2>1, <2>2, ExceptSeq
  <2> QED BY <2>1, <2>3 DEF h, e
<1>5. \A i \in hl..(HeaderEnd - 1) : buf[i] \in Chars
  BY <1>1, <1>2, <1>3
<1>6. /\ Line \in Seq(Chars)
      /\ Len(Line) = IF hl <= HeaderEnd - 1 THEN (HeaderEnd - 1) - hl + 1
                     ELSE 0
      /\ \A i \in 1..((HeaderEnd - 1) - hl + 1) : Line[i] = buf[hl + i - 1]
  BY <1>1, <1>2, <1>5, SubSeqProperties DEF Line
<1>7. Len(Line) = HeaderEnd - hl /\ (HeaderEnd - 1) - hl + 1 = HeaderEnd - hl
  BY <1>1, <1>2, <1>6
<1> QED BY <1>2, <1>3, <1>4, <1>6, <1>7

\* A line is cut out: what is before it stays, the rest moves down.
LEMMA LineEaten ==
  ASSUME Types, Scanner, pc = "scan", check < last, NextStatus = "ONE_LF"
  PROVE  LET throw == HeaderEnd - hl + 1
             t == SubSeq(buf, 1, hl - 1) \o SubSeq(buf, HeaderEnd + 1, Len(buf))
         IN  /\ throw \in Nat /\ throw >= 1 /\ throw <= Len(buf)
             /\ t \in Seq(Chars) /\ Len(t) = Len(buf) - throw
             /\ hl - 1 <= Len(t)
             /\ \A i \in 1..(hl - 1) : t[i] = buf[i]
             /\ \A i \in hl..Len(t) : t[i] = buf[i + throw]
             /\ check + 1 - throw \in Nat /\ check + 1 - throw >= hl
             /\ check + 1 - throw <= Len(t) + 1
<1> DEFINE throw == HeaderEnd - hl + 1
           a == SubSeq(buf, 1, hl - 1)
           b == SubSeq(buf, HeaderEnd + 1, Len(buf))
           t == a \o b
<1>1. /\ check \in Nat /\ check <= Len(buf) /\ Len(buf) \in Nat
      /\ hl \in Nat /\ hl >= 1 /\ hl <= HeaderEnd /\ buf \in Seq(Chars)
      /\ HeaderEnd \in Nat /\ HeaderEnd <= Len(buf)
      /\ HeaderEnd = check \/ HeaderEnd = check - 1
  BY Automaton, LineEnds, Numeric DEF Types, Scanner
<1>2. \A i \in 1..Len(buf) : buf[i] \in Chars
  BY <1>1
<1>3. /\ a \in Seq(Chars) /\ Len(a) = hl - 1
      /\ \A i \in 1..(hl - 1) : a[i] = buf[i]
  <2>1. \A i \in 1..(hl - 1) : buf[i] \in Chars
    BY <1>1, <1>2
  <2>2. /\ a \in Seq(Chars)
        /\ Len(a) = IF 1 <= hl - 1 THEN (hl - 1) - 1 + 1 ELSE 0
        /\ \A i \in 1..((hl - 1) - 1 + 1) : a[i] = buf[1 + i - 1]
    BY <1>1, <2>1, SubSeqProperties
  <2>3. (hl - 1) - 1 + 1 = hl - 1 /\ Len(a) = hl - 1
    BY <1>1, <2>2
  <2>4. \A i \in 1..(hl - 1) : 1 + i - 1 = i
    BY <1>1
  <2> QED BY <2>2, <2>3, <2>4
<1>4. /\ b \in Seq(Chars) /\ Len(b) = Len(buf) - HeaderEnd
      /\ \A i \in 1..(Len(buf) - HeaderEnd) : b[i] = buf[HeaderEnd + i]
  <2>1. \A i \in (HeaderEnd + 1)..Len(buf) : buf[i] \in Chars
    BY <1>1, <1>2
  <2>2. /\ b \in Seq(Chars)
        /\ Len(b) = IF HeaderEnd + 1 <= Len(buf)
                      THEN Len(buf) - (HeaderEnd + 1) + 1 ELSE 0
        /\ \A i \in 1..(Len(buf) - (HeaderEnd + 1) + 1) :
             b[i] = buf[(HeaderEnd + 1) + i - 1]
    BY <1>1, <2>1, SubSeqProperties
  <2>3. /\ Len(buf) - (HeaderEnd + 1) + 1 = Len(buf) - HeaderEnd
        /\ Len(b) = Len(buf) - HeaderEnd
    BY <1>1, <2>2
  <2>4. \A i \in 1..(Len(buf) - HeaderEnd) :
          (HeaderEnd + 1) + i - 1 = HeaderEnd + i
    BY <1>1
  <2> QED BY <2>2, <2>3, <2>4
<1> HIDE DEF a, b
<1>5. /\ t \in Seq(Chars) /\ Len(t) = Len(a) + Len(b)
      /\ \A i \in 1..(Len(a) + Len(b)) :
           t[i] = IF i <= Len(a) THEN a[i] ELSE b[i - Len(a)]
  BY <1>3, <1>4, ConcatProperties
<1> HIDE DEF t
<1>6. /\ Len(t) = Len(buf) - throw /\ throw \in Nat /\ throw >= 1
      /\ throw <= Len(buf) /\ hl - 1 <= Len(t)
      /\ check + 1 - throw \in Nat /\ check + 1 - throw >= hl
      /\ check + 1 - throw <= Len(t) + 1
  <2>1. Len(t) = Len(buf) - throw
    BY SMTT(20), <1>1, <1>3, <1>4, <1>5
  <2>2. throw \in Nat /\ throw >= 1 /\ throw <= Len(buf) /\ hl - 1 <= Len(t)
    BY <1>1, <2>1
  <2>3. CASE HeaderEnd = check
    BY <1>1, <2>1, <2>2, <2>3
  <2>4. CASE HeaderEnd = check - 1
    BY <1>1, <2>1, <2>2, <2>4
  <2> QED BY <1>1, <2>1, <2>2, <2>3, <2>4
<1>7. ASSUME NEW i \in 1..(hl - 1)
      PROVE  t[i] = buf[i]
  <2>1. i \in 1..(Len(a) + Len(b)) /\ i <= Len(a)
    BY <1>1, <1>3, <1>4
  <2> QED BY <1>3, <1>5, <2>1
<1>8. ASSUME NEW i \in hl..Len(t)
      PROVE  t[i] = buf[i + throw]
  <2>1. i \in 1..(Len(a) + Len(b)) /\ ~(i <= Len(a))
    BY SMTT(20), <1>1, <1>3, <1>4, <1>5
  <2>2. i - Len(a) \in 1..(Len(buf) - HeaderEnd)
    BY <1>1, <1>3, <1>4, <1>5
  <2>3. HeaderEnd + (i - Len(a)) = i + throw
    BY <1>1, <1>3
  <2>4. t[i] = buf[HeaderEnd + (i - Len(a))]
    BY <1>4, <1>5, <2>1, <2>2
  <2> QED BY <2>3, <2>4
<1> QED BY <1>5, <1>6, <1>7, <1>8 DEF t, a, b

-----------------------------------------------------------------------------
(* Every step keeps the buffers                                            *)

\* Nothing is read at first.
LEMMA BaseInit == Init => Base
<1> SUFFICES ASSUME Init
             PROVE  Base
  OBVIOUS
<1>1. /\ Size \in Nat /\ Size > 0 /\ stream \in Seq(STRING)
      /\ Len(stream) \in Nat
  BY ReadAssumption DEF Init
<1>2. /\ <<>> \in Seq(Chars) /\ Len(<<>>) = 0 /\ <<>> \in Seq(Seq(Chars))
  OBVIOUS
<1>3. Types
  <2>1. /\ eof \in BOOLEAN /\ restart \in BOOLEAN /\ close \in BOOLEAN
        /\ cut \in BOOLEAN
    BY Zenon DEF Init
  <2>2. /\ got \in 0..Len(stream) /\ base \in 1..(Size + 1)
        /\ check \in 1..(Size + 1) /\ last \in 1..(Size + 1)
        /\ hl \in 1..(Size + 1) /\ he \in 0..Size /\ off \in 0..Size
        /\ filepos \in 0..Len(stream)
    BY <1>1 DEF Init
  <2>3. /\ buf \in Seq(Chars) /\ Len(buf) <= Size /\ pend \in Seq(Chars)
        /\ file \in Seq(Chars) /\ lines \in Seq(Seq(Chars))
    BY <1>1, <1>2 DEF Init
  <2>4. /\ stream \in Streams /\ filesize \in Lengths
        /\ status \in Scanning \cup {"BODY_READ", "BODY_WRITE"}
        /\ pc \in {"ready", "scan"} \cup Over
    BY DEF Init, Scanning
  <2> QED BY ONLY <2>1, <2>2, <2>3, <2>4 DEF Types
<1>4. Scanner
  BY <1>1, <1>2 DEF Init, Scanner, Scanning
<1>5. Idle /\ BodyInv /\ InBuffer
  BY <1>1, <1>2 DEF Init, Idle, BodyInv, InBody, InBuffer
<1> QED BY <1>3, <1>4, <1>5 DEF Base

\* The steps of the scanner and of read() into its buffer.
LEMMA BaseScan ==
  ASSUME Base, Scan \/ HeaderEof \/ IoError \/ \E n \in Arrived : ReadHeader(n)
  PROVE  Base'
<1>0. Types /\ Scanner /\ Idle /\ BodyInv /\ InBuffer
  BY DEF Base
<1>n. /\ Len(stream) \in Nat /\ Len(buf) \in Nat /\ Len(lines) \in Nat
      /\ Len(pend) \in Nat /\ Len(file) \in Nat
      /\ Size \in Nat /\ Size > 0 /\ UploadMax \in Nat /\ filesize \in Nat
      /\ got \in Nat /\ check \in Nat /\ hl \in Nat /\ got <= Len(stream)
      /\ check >= 1 /\ hl >= 1
  BY <1>0, Numeric DEF Types
<1>1. ASSUME NEW n \in Arrived, ReadHeader(n)
      PROVE  Base'
  <2>1. /\ n \in Nat /\ n > 0 /\ got + n <= Len(stream)
        /\ Bytes(n) \in Seq(Chars) /\ Len(Bytes(n)) = n
        /\ \A i \in 1..n : Bytes(n)[i] = stream[got + i]
    BY <1>0, <1>1, BytesAre
  <2>2. /\ pc = "ready" /\ status \in Scanning /\ n <= Size - Len(buf)
        /\ got' = got + n /\ buf' = buf \o Bytes(n)
        /\ base' = Len(buf) + 1 /\ check' = Len(buf) + 1
        /\ last' = Len(buf) + 1 + n /\ restart' = FALSE /\ pc' = "scan"
        /\ UNCHANGED <<stream, filesize, eof, status, hl, he, pend, off,
                        filepos, close, file, lines, kept, cut>>
    BY <1>1 DEF ReadHeader, Space, body, hist
  <2>3. /\ buf' \in Seq(Chars) /\ Len(buf') = Len(buf) + n
        /\ \A i \in 1..(Len(buf) + n) :
             buf'[i] = IF i <= Len(buf) THEN buf[i] ELSE Bytes(n)[i - Len(buf)]
    <3> DEFINE w == Bytes(n)
    <3>1. buf \in Seq(Chars) /\ w \in Seq(Chars) /\ Len(w) = n
      BY <1>0, <2>1 DEF Types
    <3>2. buf' = buf \o w
      BY <2>2
    <3> HIDE DEF w
    <3>3. /\ buf \o w \in Seq(Chars) /\ Len(buf \o w) = Len(buf) + Len(w)
          /\ \A i \in 1..(Len(buf) + Len(w)) :
               (buf \o w)[i] = IF i <= Len(buf) THEN buf[i] ELSE w[i - Len(buf)]
      BY <3>1, ConcatProperties
    <3> QED BY <3>1, <3>2, <3>3 DEF w
  <2>4. check = last /\ last = Len(buf) + 1 /\ hl <= Len(buf) + 1
        /\ Len(buf) <= got
    BY <1>0, <2>2 DEF Scanner
  <2>5. restart' \in BOOLEAN
    BY Zenon, <2>2
  <2>6. Types'
    <3>1. /\ got' \in 0..Len(stream) /\ Len(buf') <= Size
          /\ base' \in 1..(Size + 1) /\ check' \in 1..(Size + 1)
          /\ last' \in 1..(Size + 1)
      <4>1. /\ n <= Size - Len(buf) /\ got' = got + n /\ base' = Len(buf) + 1
            /\ check' = Len(buf) + 1 /\ last' = Len(buf) + 1 + n
        BY <2>2
      <4>2. n \in Nat /\ got + n <= Len(stream) /\ Len(buf') = Len(buf) + n
        BY <2>1, <2>3
      <4> QED BY ONLY <1>n, <4>1, <4>2
    <3>2. buf' \in Seq(Chars) /\ pc' \in {"ready", "scan"} \cup Over
      BY <2>2, <2>3
    <3> QED BY ONLY <1>0, <2>2, <2>5, <3>1, <3>2 DEF Types
  <2>7. ASSUME NEW i \in hl..Len(buf')
        PROVE  buf'[i] = stream[got' - Len(buf') + i]
    <3>1. got' - Len(buf') + i = got - Len(buf) + i /\ i \in 1..(Len(buf) + n)
      <4>1. got' = got + n /\ Len(buf') = Len(buf) + n /\ n \in Nat
        BY <2>1, <2>2, <2>3
      <4>2. i \in 1..(Len(buf) + n) /\ i \in Int
        BY ONLY <1>n, <2>7, <4>1
      <4> QED BY <1>n, <4>1, <4>2, Shift
    <3>2. CASE i <= Len(buf)
      <4>1. i \in hl..Len(buf)
        BY <1>n, <2>2, <2>3, <3>1, <3>2
      <4> QED BY <1>0, <2>2, <2>3, <3>1, <3>2, <4>1 DEF Scanner, Pos
    <3>3. CASE ~(i <= Len(buf))
      <4>1. i - Len(buf) \in 1..n /\ got + (i - Len(buf)) = got - Len(buf) + i
        BY SMTT(20), <1>n, <2>1, <2>3, <3>1, <3>3
      <4> QED BY <2>1, <2>3, <3>1, <3>3, <4>1
    <3> QED BY <3>2, <3>3
  <2>8. Scanner'
    <3>1. /\ last' = Len(buf') + 1 /\ hl' <= check' /\ check' <= last'
          /\ Len(buf') <= got'
      BY <1>n, <2>1, <2>2, <2>3, <2>4
    <3>2. status' = "ONE_CR" => hl' <= he' /\ he' = check' - 1
      BY <1>0, <2>2, <2>4 DEF Scanner
    <3>3. \A i \in hl'..Len(buf') : buf'[i] = stream'[got' - Len(buf') + i]
      BY <2>2, <2>7
    <3> QED BY ONLY <2>2, <3>1, <3>2, <3>3 DEF Scanner, Pos
  <2>9. Idle' /\ BodyInv' /\ InBuffer'
    BY <1>0, <2>2 DEF Idle, InBody, BodyInv, InBuffer, Scanning
  <2> QED BY <2>6, <2>8, <2>9 DEF Base
<1>2. ASSUME HeaderEof \/ IoError
      PROVE  Base'
  <2>1. UNCHANGED <<stream, filesize, got, eof, buf, base, check, last, restart,
                    hl, he, status, pend, off, filepos, close, file, lines,
                    kept, cut>> /\ pc' = "closed" /\ pc = "ready"
    BY <1>2 DEF HeaderEof, IoError, header, body, hist, InBodyRead, InBodyWrite
  <2>2. Types'
    BY <1>0, <2>1 DEF Types, Over
  <2>3. Scanner'
    BY <1>0, <2>1 DEF Scanner, Pos
  <2> QED BY <1>0, <2>1, <2>2, <2>3 DEF Base, Idle, InBody, BodyInv, InBuffer
<1>3. ASSUME ScanByte
      PROVE  Base'
  <2>1. /\ pc = "scan" /\ check < last /\ status \in Scanning
        /\ NextStatus \notin {"ONE_LF", "BODY_READ"}
        /\ status' = NextStatus /\ he' = HeaderEnd /\ check' = check + 1
        /\ UNCHANGED <<stream, filesize, got, eof, buf, base, last, restart, hl,
                        pend, off, filepos, close, file, pc, lines, kept, cut>>
    BY <1>0, <1>3 DEF ScanByte, body, hist, Scanner
  <2>2. /\ check \in 1..Len(buf) /\ NextStatus \in Scanning
        /\ HeaderEnd \in {check, he}
        /\ NextStatus = "ONE_CR" => HeaderEnd = check
    BY <1>0, <2>1, Automaton
  <2>3. check + 1 \in 1..(Size + 1) /\ HeaderEnd \in 0..Size
        /\ last = Len(buf) + 1 /\ check + 1 <= last /\ hl <= check
    BY <1>0, <1>n, <2>1, <2>2 DEF Types, Scanner
  <2>4. Types'
    BY <1>0, <2>1, <2>2, <2>3 DEF Types
  <2>5. Scanner'
    BY SMTT(20), <1>0, <1>n, <2>1, <2>2, <2>3 DEF Scanner, Pos
  <2>6. Idle' /\ BodyInv' /\ InBuffer'
    BY <1>0, <2>1, <2>2 DEF Idle, InBody, BodyInv, InBuffer, Scanning
  <2> QED BY <2>4, <2>5, <2>6 DEF Base
<1>4. ASSUME LogLine \/ OptionLine
      PROVE  Base'
  <2>1. /\ pc = "scan" /\ check < last /\ status \in Scanning
        /\ NextStatus = "ONE_LF"
        /\ status' = "ONE_LF" /\ he' = HeaderEnd /\ check' = check + 1
        /\ hl' = check + 1 /\ buf' = Ended /\ cut' = (cut \/ AtEnd)
        /\ lines' = Append(lines, Line)
        /\ UNCHANGED <<stream, filesize, got, eof, base, last, restart,
                        pend, off, filepos, close, file>>
    BY <1>0, <1>4 DEF LogLine, OptionLine, LineFound, body, Scanner
  <2>2. pc' \in {"scan", "served", "bad"}
    BY <1>4, <2>1 DEF LogLine, OptionLine
  <2>3. /\ check \in 1..Len(buf) /\ HeaderEnd \in Nat /\ HeaderEnd <= Size
        /\ HeaderEnd <= check
        /\ Line \in Seq(Chars) /\ Ended \in Seq(Chars) /\ Len(Ended) = Len(buf)
        /\ \A i \in 1..Len(buf) :
             Ended[i] = IF i = HeaderEnd THEN "0" ELSE buf[i]
    BY <1>0, <1>n, <2>1, Automaton, LineEnds
  <2>4. lines' \in Seq(Seq(Chars))
    BY <1>0, <2>1, <2>3, AppendProperties DEF Types
  <2>5. cut' \in BOOLEAN
    <3>1. cut \in BOOLEAN /\ AtEnd \in BOOLEAN
      BY <1>0 DEF Types, AtEnd
    <3> QED BY Zenon, <2>1, <3>1
  <2>6. /\ check + 1 \in 1..(Size + 1) /\ last = Len(buf) + 1
        /\ check + 1 <= last /\ hl <= check /\ Len(buf) <= got
    BY <1>0, <1>n, <2>1, <2>3 DEF Types, Scanner
  <2>7. Types'
    <3>1. he' \in 0..Size /\ status' \in Scanning /\ pc' \in {"scan"} \cup Over
      BY <1>n, <2>1, <2>2, <2>3 DEF Scanning, Over
    <3> QED BY ONLY <1>0, <2>1, <2>3, <2>4, <2>5, <2>6, <3>1 DEF Types
  <2>8. Scanner'
    <3>1. ASSUME NEW i \in hl'..Len(buf')
          PROVE  buf'[i] = stream'[got' - Len(buf') + i]
      <4>1. i \in hl..Len(buf) /\ i \in 1..Len(buf) /\ i # HeaderEnd
        BY <1>n, <2>1, <2>3, <2>6
      <4> QED BY <1>0, <2>1, <2>3, <4>1 DEF Scanner, Pos
    <3> QED BY <1>n, <2>1, <2>2, <2>3, <2>6, <3>1 DEF Scanner, Pos, Scanning
  <2>9. Idle' /\ BodyInv' /\ InBuffer'
    BY <1>0, <2>1, <2>2 DEF Idle, InBody, BodyInv, InBuffer, Scanning
  <2> QED BY <2>7, <2>8, <2>9 DEF Base
<1>5. ASSUME EatLine
      PROVE  Base'
  <2> DEFINE throw == HeaderEnd - hl + 1
  <2>1. /\ pc = "scan" /\ check < last /\ status \in Scanning
        /\ NextStatus = "ONE_LF"
        /\ status' = "ONE_LF" /\ he' = HeaderEnd /\ check' = check + 1 - throw
        /\ hl' = check + 1 - throw /\ cut' = (cut \/ AtEnd)
        /\ buf' = SubSeq(buf, 1, hl - 1) \o SubSeq(buf, HeaderEnd + 1, Len(buf))
        /\ last' = last - throw /\ restart' = TRUE
        /\ lines' = Append(lines, Line)
        /\ UNCHANGED <<stream, filesize, got, eof, base, pc, pend, off, filepos,
                        close, file>>
    BY <1>0, <1>5 DEF EatLine, LineFound, body, Scanner
  <2>2. /\ check \in 1..Len(buf) /\ HeaderEnd \in Nat /\ HeaderEnd <= Size
        /\ HeaderEnd <= check /\ Line \in Seq(Chars)
    <3>1. check \in 1..Len(buf)
      BY <1>0, <2>1, Automaton
    <3>2. /\ HeaderEnd \in Nat /\ HeaderEnd <= Size /\ Line \in Seq(Chars)
          /\ HeaderEnd = check \/ HeaderEnd = check - 1
      BY <1>0, <2>1, LineEnds
    <3> QED BY <1>n, <3>1, <3>2
  <2>3. /\ throw \in Nat /\ throw >= 1 /\ throw <= Len(buf)
        /\ buf' \in Seq(Chars) /\ Len(buf') = Len(buf) - throw
        /\ \A i \in hl..Len(buf') : buf'[i] = buf[i + throw]
        /\ check' \in Nat /\ check' >= hl
        /\ check' <= Len(buf') + 1
    BY <1>0, <2>1, LineEaten
  <2>t. last' = last - throw /\ hl' = check'
    BY <2>1
  <2> HIDE DEF throw
  <2>4. lines' \in Seq(Seq(Chars))
    BY <1>0, <2>1, <2>2, AppendProperties DEF Types
  <2>5. cut' \in BOOLEAN /\ restart' \in BOOLEAN
    <3>1. cut \in BOOLEAN /\ AtEnd \in BOOLEAN
      BY <1>0 DEF Types, AtEnd
    <3> QED BY Zenon, <2>1, <3>1
  <2>6. last = Len(buf) + 1 /\ Len(buf) <= got /\ Len(buf) <= Size
        /\ got' = got
    BY <1>0, <2>1 DEF Types, Scanner
  <2>7. Types'
    <3>1. he' \in 0..Size /\ status' \in Scanning
      BY <1>n, <2>1, <2>2 DEF Scanning
    <3>2. check' \in 1..(Size + 1) /\ hl' = check' /\ last' \in 1..(Size + 1)
          /\ Len(buf') <= Size
      BY ONLY SMTT(20), <1>n, <2>3, <2>6, <2>t
    <3> QED BY ONLY <1>0, <2>1, <2>3, <2>4, <2>5, <3>1, <3>2 DEF Types
  <2>8. Scanner'
    <3>1. ASSUME NEW i \in hl'..Len(buf')
          PROVE  buf'[i] = stream'[got' - Len(buf') + i]
      <4>1. i \in hl..Len(buf') /\ i + throw \in hl..Len(buf)
        BY ONLY SMTT(20), <1>n, <2>3, <2>t, <3>1
      <4>2. buf'[i] = stream[got - Len(buf) + (i + throw)]
        BY <1>0, <2>1, <2>3, <4>1 DEF Scanner, Pos
      <4>3. got - Len(buf) + (i + throw) = got' - Len(buf') + i
        <5>1. Len(buf') = Len(buf) - throw /\ got' = got /\ throw \in Int
              /\ i \in Int /\ got \in Int /\ Len(buf) \in Int
          BY ONLY <1>n, <2>3, <2>6, <3>1, <4>1
        <5> QED BY ONLY <5>1, Shift
      <4> QED BY <2>1, <4>2, <4>3
    <3>2. last' = Len(buf') + 1 /\ hl' = check' /\ check' <= last'
          /\ Len(buf') <= got'
      BY ONLY <1>n, <2>3, <2>6, <2>t
    <3>3. hl' <= check'
      BY <2>3, <3>2
    <3> QED BY <2>1, <3>1, <3>2, <3>3 DEF Scanner, Pos, Scanning
  <2>9. Idle' /\ BodyInv' /\ InBuffer'
    BY <1>0, <2>1 DEF Idle, InBody, BodyInv, InBuffer, Scanning
  <2> QED BY <2>7, <2>8, <2>9 DEF Base
<1>6. ASSUME BodyFound
      PROVE  Base'
  <2>1. /\ pc = "scan" /\ check < last /\ status \in Scanning
        /\ NextStatus = "BODY_READ"
        /\ status' = "BODY_READ" /\ check' = check + 1
        /\ UNCHANGED <<stream, filesize, got, eof, buf, base, last, restart, hl,
                        he, lines, kept, cut>>
    BY <1>0, <1>6 DEF BodyFound, hist, Scanner
  <2>2. /\ check \in 1..Len(buf) /\ check + 1 \in 1..(Size + 1)
        /\ last = Len(buf) + 1 /\ Len(buf) <= got /\ hl <= check
        /\ Len(buf) <= Size
    <3>1. /\ check \in 1..Len(buf) /\ Len(buf) <= Size /\ last = Len(buf) + 1
          /\ Len(buf) <= got /\ hl <= check
      BY <1>0, <2>1, Automaton DEF Types, Scanner
    <3> QED BY <1>n, <3>1
  <2>3. Scanner'
    <3>1. pc' # "scan" /\ status' \notin Scanning
      BY <1>6, <2>1 DEF BodyFound, Scanning
    <3> QED BY <3>1 DEF Scanner
  <2>4. pend = <<>> /\ off = 0 /\ filepos = 0 /\ close = FALSE /\ file = <<>>
    BY <1>0, <2>1 DEF Idle, InBody, Scanning
  <2>5. CASE pc' = "served" /\ UNCHANGED body
    <3>1. UNCHANGED <<pend, off, filepos, close, file>>
      BY <2>5 DEF body
    <3>2. Types'
      BY <1>0, <2>1, <2>2, <2>5, <3>1 DEF Types, Over
    <3>3. Idle' /\ BodyInv' /\ InBuffer'
      BY <1>0, <2>4, <2>5, <3>1 DEF Idle, InBody, BodyInv, InBuffer
    <3> QED BY <2>3, <3>2, <3>3 DEF Base
  <2>6. CASE /\ pc' = "ready" /\ pend' = SubSeq(buf, check + 1, last - 1)
             /\ off' = 0 /\ file' = <<>> /\ filepos' = last - check - 1
             /\ close' = (filepos' >= filesize)
    <3> DEFINE m == Len(buf) - check
    <3>1. m \in Nat /\ filepos' = m /\ m <= got /\ m <= Size
      BY <1>n, <2>2, <2>6
    <3>2. /\ pend' \in Seq(Chars) /\ Len(pend') = m
          /\ \A i \in 1..m : pend'[i] = buf[check + i]
      <4>1. buf \in Seq(Chars) /\ check \in Nat /\ check + m <= Len(buf)
        BY <1>0, <1>n DEF Types
      <4>2. check + m = last - 1
        BY <1>n, <2>2
      <4>3. pend' = SubSeq(buf, check + 1, check + m)
        BY <2>6, <4>2
      <4> HIDE DEF m
      <4> QED BY <3>1, <4>1, <4>3, PartIs
    <3> HIDE DEF m
    <3>3. file' \in Seq(Chars) /\ Len(file') = 0
      BY <2>6
    <3>4. close' \in BOOLEAN
      BY <2>6
    <3>5. Types'
      <4>1. off' \in 0..Size /\ filepos' \in 0..Len(stream)
        BY <1>n, <2>6, <3>1
      <4> QED BY <1>0, <2>1, <2>2, <2>6, <3>2, <3>3, <3>4, <4>1 DEF Types
    <3>6. Idle'
      BY <2>1, <2>6 DEF Idle, InBody
    <3>7. BodyInv'
      <4>1. ASSUME NEW i \in 1..Len(pend')
            PROVE  pend'[i] = stream'[got' - Len(pend') + i]
        <5>1. i \in 1..m /\ check + i \in hl..Len(buf)
          <6>1. i \in 1..m /\ m = Len(buf) - check
            BY <3>2, <4>1 DEF m
          <6> QED BY <1>n, <2>2, <6>1
        <5>2. pend'[i] = stream[got - Len(buf) + (check + i)]
          BY <1>0, <2>1, <3>2, <5>1 DEF Scanner, Pos
        <5>3. got - Len(buf) + (check + i) = got - Len(pend') + i
          <6>1. Len(pend') = Len(buf) - check
            BY <3>2 DEF m
          <6> QED BY <1>n, <5>1, <6>1
        <5> QED BY <2>1, <5>2, <5>3
      <4>2. \A i \in 1..Len(file') : FALSE
        BY <3>3
      <4>3. /\ filepos' <= got' /\ Len(file') <= filepos'
            /\ Len(pend') <= got' /\ Len(file') + Len(pend') = filepos'
        BY <1>n, <2>1, <3>1, <3>2, <3>3
      <4>4. close' => filepos' >= filesize'
        BY <2>1, <2>6
      <4> QED BY <2>6, <4>1, <4>2, <4>3, <4>4 DEF BodyInv
    <3>8. InBuffer'
      BY <1>n, <2>6, <3>1, <3>2 DEF InBuffer
    <3> QED BY <2>3, <3>5, <3>6, <3>7, <3>8 DEF Base
  <2> QED BY <1>6, <2>5, <2>6 DEF BodyFound
<1>7. ASSUME ChunkEnd
      PROVE  Base'
  <2>1. UNCHANGED <<stream, filesize, got, eof, buf, base, check, last, restart,
                    hl, he, status, pend, off, filepos, close, file, lines,
                    kept, cut>> /\ check = last /\ pc = "scan"
    BY <1>7 DEF ChunkEnd, header, body, hist
  <2>2. pc' \in {"bad", "ready", "toolarge"}
    BY <1>7 DEF ChunkEnd
  <2>3. Types'
    BY <1>0, <2>1, <2>2 DEF Types, Over
  <2>4. Scanner'
    BY <1>0, <2>1, <2>2 DEF Scanner, Pos
  <2>5. Idle' /\ BodyInv' /\ InBuffer'
    BY <1>0, <2>1, <2>2 DEF Idle, InBody, BodyInv, InBuffer, Scanner, Scanning
  <2> QED BY <2>3, <2>4, <2>5 DEF Base
<1> QED BY <1>1, <1>2, <1>3, <1>4, <1>5, <1>6, <1>7 DEF Scan

\* The steps of read_body() and write_body().
LEMMA BaseBody ==
  ASSUME Base, \/ BodyFull \/ BodyBlocked \/ BodyEof \/ BodyWritten \/ SkipBody
               \/ \E n \in Arrived : ReadBody(n)
               \/ \E n \in 1..Len(pend) : WriteBody(n)
  PROVE  Base'
<1>0. Types /\ Scanner /\ Idle /\ BodyInv /\ InBuffer
  BY DEF Base
<1>n. /\ Len(stream) \in Nat /\ Len(buf) \in Nat /\ Len(lines) \in Nat
      /\ Len(pend) \in Nat /\ Len(file) \in Nat
      /\ Size \in Nat /\ Size > 0 /\ UploadMax \in Nat /\ filesize \in Nat
      /\ got \in Nat /\ got <= Len(stream) /\ off \in Nat /\ filepos \in Nat
  BY <1>0, Numeric DEF Types
<1>b. /\ pc = "ready" /\ status \in {"BODY_READ", "BODY_WRITE"} /\ InBody
      /\ status \notin Scanning
  BY DEF BodyFull, BodyBlocked, BodyEof, BodyWritten, SkipBody, ReadBody,
         WriteBody, InBodyRead, InBodyWrite, InBody, Scanning
<1>s. ASSUME pc' # "scan", status' \in {"BODY_READ", "BODY_WRITE"}
      PROVE  Scanner'
  BY <1>s DEF Scanner, Scanning
<1>1. ASSUME BodyFull \/ BodyBlocked
      PROVE  Base'
  <2>1. /\ UNCHANGED <<stream, filesize, got, eof, buf, base, check, last,
                       restart, hl, he, pend, off, filepos, close, file, pc,
                       lines, kept, cut>>
        /\ status' = "BODY_WRITE"
    BY <1>1 DEF BodyFull, BodyBlocked, header, body, hist
  <2>2. Types'
    BY <1>0, <2>1 DEF Types
  <2>3. Scanner'
    BY <1>b, <1>s, <2>1
  <2>4. Idle' /\ BodyInv' /\ InBuffer'
    BY <1>0, <1>b, <2>1 DEF Idle, InBody, BodyInv, InBuffer
  <2> QED BY <2>2, <2>3, <2>4 DEF Base
<1>2. ASSUME BodyEof
      PROVE  Base'
  <2>1. /\ UNCHANGED <<stream, filesize, got, buf, base, check, last,
                       restart, hl, he, pend, off, filepos, file, pc,
                       lines, kept, cut>>
        /\ status' = "BODY_WRITE" /\ eof' = TRUE /\ close' = TRUE
    BY <1>2 DEF BodyEof, header, hist
  <2>2. Types'
    <3>1. eof' \in BOOLEAN /\ close' \in BOOLEAN
      BY Zenon, <2>1
    <3> QED BY <1>0, <2>1, <3>1 DEF Types
  <2>3. Scanner'
    BY <1>b, <1>s, <2>1
  <2>4. Idle' /\ BodyInv' /\ InBuffer'
    BY <1>0, <1>b, <2>1 DEF Idle, InBody, BodyInv, InBuffer
  <2> QED BY <2>2, <2>3, <2>4 DEF Base
<1>3. ASSUME BodyWritten
      PROVE  Base'
  <2>1. /\ UNCHANGED <<stream, filesize, got, eof, buf, base, check, last,
                       restart, hl, he, pend, filepos, close, file, lines,
                       kept, cut>>
        /\ off' = 0 /\ pend = <<>>
        /\ status' \in {"BODY_READ", "BODY_WRITE"} /\ pc' \in {"ready", "form"}
    BY <1>3, <1>b DEF BodyWritten, header, hist
  <2>2. Types'
    <3>1. off' \in 0..Size
      BY <1>n, <2>1
    <3> QED BY <1>0, <2>1, <3>1 DEF Types, Over
  <2>3. Scanner'
    BY <1>s, <2>1
  <2>4. InBuffer'
    <3>1. Len(pend') = 0
      BY <2>1
    <3> QED BY <1>n, <2>1, <3>1 DEF InBuffer
  <2>5. Idle' /\ BodyInv'
    BY <1>0, <1>b, <2>1 DEF Idle, InBody, BodyInv
  <2> QED BY <2>2, <2>3, <2>4, <2>5 DEF Base
<1>4. ASSUME SkipBody
      PROVE  Base'
  <2>1. /\ UNCHANGED <<stream, filesize, got, eof, buf, base, check, last,
                       restart, hl, he, filepos, close, file, lines,
                       kept, cut, pc, status>>
        /\ off' = off + Len(pend) /\ pend' = <<>> /\ filepos > UploadMax
        /\ status = "BODY_WRITE"
    BY <1>4 DEF SkipBody, InBodyWrite, header, hist
  <2>2. pend' \in Seq(Chars) /\ Len(pend') = 0 /\ off' \in 0..Size
        /\ off' <= Size
    BY <1>0, <1>n, <2>1 DEF InBuffer
  <2>3. Types'
    BY <1>0, <2>1, <2>2 DEF Types
  <2>4. Scanner'
    BY <1>b, <1>s, <2>1
  <2>5. InBuffer'
    <3>1. off' \in 0..Size
      BY <2>2
    <3>2. off' \in Int /\ off' <= Size
      BY ONLY <1>n, <3>1
    <3>3. off' + 0 = off'
      BY ONLY <3>2, Shift
    <3>4. off' + Len(pend') <= Size
      BY <2>2, <3>2, <3>3
    <3> QED BY <3>4 DEF InBuffer
  <2>6. \A i \in 1..Len(pend') : FALSE
    BY <2>2
  <2>7. Idle' /\ BodyInv'
    <3>1. Len(pend') <= got' /\ ~(filepos' <= UploadMax)
      BY <1>n, <2>1, <2>2
    <3> QED BY <1>0, <1>b, <2>1, <2>6, <3>1 DEF Idle, InBody, BodyInv
  <2> QED BY <2>3, <2>4, <2>5, <2>7 DEF Base
<1>5. ASSUME NEW n \in Arrived, ReadBody(n)
      PROVE  Base'
  <2>1. /\ UNCHANGED <<stream, filesize, eof, buf, base, check, last,
                       restart, hl, he, off, close, file, pc, lines, kept, cut>>
        /\ got' = got + n /\ pend' = pend \o Bytes(n) /\ filepos' = filepos + n
        /\ status' \in {"BODY_READ", "BODY_WRITE"}
        /\ n <= Room /\ off = 0
    BY <1>0, <1>5, <1>b DEF ReadBody, InBodyRead, header, hist, BodyInv
  <2>2. /\ n \in Nat /\ n > 0 /\ got + n <= Len(stream)
        /\ Bytes(n) \in Seq(Chars) /\ Len(Bytes(n)) = n
        /\ \A i \in 1..n : Bytes(n)[i] = stream[got + i]
    BY <1>0, BytesAre
  <2>3. n <= Size - Len(pend)
    <3>1. Room <= Size - Len(pend) /\ Room \in Int
      BY <1>n DEF Room, Least
    <3>2. n <= Room /\ n \in Nat
      BY <2>1, <2>2
    <3> QED BY ONLY <1>n, <3>1, <3>2
  <2>4. /\ pend' \in Seq(Chars) /\ Len(pend') = Len(pend) + n
        /\ \A i \in 1..(Len(pend) + n) :
             pend'[i] = IF i <= Len(pend) THEN pend[i]
                        ELSE Bytes(n)[i - Len(pend)]
    <3> DEFINE w == Bytes(n)
    <3>1. pend \in Seq(Chars) /\ w \in Seq(Chars) /\ Len(w) = n
      BY <1>0, <2>2 DEF Types
    <3>2. pend' = pend \o w
      BY <2>1
    <3> HIDE DEF w
    <3>3. /\ pend \o w \in Seq(Chars) /\ Len(pend \o w) = Len(pend) + Len(w)
          /\ \A i \in 1..(Len(pend) + Len(w)) :
               (pend \o w)[i] = IF i <= Len(pend) THEN pend[i]
                                ELSE w[i - Len(pend)]
      BY <3>1, ConcatProperties
    <3> QED BY <3>1, <3>2, <3>3 DEF w
  <2>5. got' = got + n /\ filepos' = filepos + n /\ off' = 0 /\ file' = file
        /\ stream' = stream /\ filesize' = filesize
    BY <2>1
  <2>6. filepos <= got /\ Len(file) <= filepos /\ Len(pend) <= got
        /\ (filepos <= UploadMax => Len(file) + Len(pend) = filepos)
    BY <1>0, <1>b DEF BodyInv
  <2>7. /\ got' \in 0..Len(stream) /\ filepos' \in 0..Len(stream)
        /\ Len(pend') <= Size /\ filepos' <= got' /\ Len(file') <= filepos'
        /\ Len(pend') <= got'
        /\ filepos' <= UploadMax => Len(file') + Len(pend') = filepos'
    <3>1. n \in Nat /\ n > 0 /\ got + n <= Len(stream)
      BY <2>2
    <3>2. Len(pend') = Len(pend) + n /\ Len(file') = Len(file)
      BY <2>4, <2>5
    <3>3. got' \in 0..Len(stream) /\ filepos' \in 0..Len(stream)
          /\ Len(pend') <= Size
      BY ONLY <1>n, <2>3, <2>5, <2>6, <3>1, <3>2
    <3>4. filepos' <= got' /\ Len(file') <= filepos' /\ Len(pend') <= got'
      BY ONLY <1>n, <2>5, <2>6, <3>1, <3>2
    <3>5. filepos' <= UploadMax => Len(file') + Len(pend') = filepos'
      BY ONLY <1>n, <2>5, <2>6, <3>1, <3>2
    <3> QED BY <3>3, <3>4, <3>5
  <2>8. Types'
    BY <1>0, <2>1, <2>4, <2>7 DEF Types
  <2>9. Scanner'
    BY <1>b, <1>s, <2>1
  <2>10. InBuffer'
    <3>1. off' = 0 /\ Len(pend') <= Size /\ Len(pend') \in Nat
      BY <1>n, <2>2, <2>4, <2>5, <2>7
    <3> QED BY ONLY <1>n, <3>1 DEF InBuffer
  <2>11. ASSUME NEW i \in 1..Len(file')
         PROVE  file'[i] = stream'[got' - filepos' + i]
    <3>1. i \in 1..Len(file) /\ i \in Int
      BY <2>5
    <3>2. got' - filepos' + i = got - filepos + i
      BY <1>n, <2>2, <2>5, <3>1, Shift
    <3> QED BY <1>0, <1>b, <2>5, <3>1, <3>2 DEF BodyInv
  <2>12. ASSUME NEW i \in 1..Len(pend')
         PROVE  pend'[i] = stream'[got' - Len(pend') + i]
    <3>1. i \in 1..(Len(pend) + n) /\ i \in Int
      BY <2>4
    <3>2. got' - Len(pend') + i = got - Len(pend) + i
      BY <1>n, <2>2, <2>4, <2>5, <3>1, Shift
    <3>3. CASE i <= Len(pend)
      <4>1. i \in 1..Len(pend)
        BY <1>n, <3>1, <3>3
      <4> QED BY <1>0, <1>b, <2>4, <2>5, <3>1, <3>2, <3>3, <4>1 DEF BodyInv
    <3>4. CASE ~(i <= Len(pend))
      <4>1. i - Len(pend) \in 1..n /\ got + (i - Len(pend)) = got - Len(pend) + i
        BY <1>n, <2>2, <3>1, <3>4
      <4> QED BY <2>2, <2>4, <2>5, <3>1, <3>2, <3>4, <4>1
    <3> QED BY <3>3, <3>4
  <2>13. close' => eof' \/ filepos' >= filesize'
    <3>1. close => eof \/ filepos >= filesize
      BY <1>0, <1>b DEF BodyInv
    <3>2. filepos >= filesize => filepos' >= filesize'
      BY <1>n, <2>2, <2>5
    <3> QED BY <2>1, <3>1, <3>2
  <2>14. Idle' /\ BodyInv'
    BY <1>b, <2>1, <2>5, <2>7, <2>11, <2>12, <2>13 DEF Idle, InBody, BodyInv
  <2> QED BY <2>8, <2>9, <2>10, <2>14 DEF Base
<1>6. ASSUME NEW n \in 1..Len(pend), WriteBody(n)
      PROVE  Base'
  <2>1. /\ UNCHANGED <<stream, filesize, got, eof, buf, base, check, last,
                       restart, hl, he, filepos, close, pc, status, lines,
                       kept, cut>>
        /\ file' = file \o SubSeq(pend, 1, n)
        /\ pend' = SubSeq(pend, n + 1, Len(pend)) /\ off' = off + n
        /\ status = "BODY_WRITE" /\ filepos <= UploadMax
    BY <1>6 DEF WriteBody, InBodyWrite, header, hist
  <2> DEFINE w == SubSeq(pend, 1, n)
             m == Len(pend) - n
  <2>2. /\ n \in Nat /\ m \in Nat /\ n + m = Len(pend) /\ 0 + n <= Len(pend)
        /\ 0 + 1 = 1 /\ 0 + n = n
    BY <1>n
  <2>3. pend \in Seq(Chars) /\ file \in Seq(Chars)
    BY <1>0 DEF Types
  <2>4. /\ w \in Seq(Chars) /\ Len(w) = n
        /\ \A i \in 1..n : w[i] = pend[i]
    <3>1. /\ SubSeq(pend, 0 + 1, 0 + n) \in Seq(Chars)
          /\ Len(SubSeq(pend, 0 + 1, 0 + n)) = n
          /\ \A i \in 1..n : SubSeq(pend, 0 + 1, 0 + n)[i] = pend[0 + i]
      <4> HIDE DEF m
      <4> QED BY <2>2, <2>3, PartIs
    <3>2. \A i \in 1..n : 0 + i = i
      OBVIOUS
    <3> QED BY <2>2, <3>1, <3>2
  <2>5. /\ pend' \in Seq(Chars) /\ Len(pend') = m
        /\ \A i \in 1..m : pend'[i] = pend[n + i]
    <3>1. pend' = SubSeq(pend, n + 1, n + m)
      BY <2>1, <2>2
    <3> HIDE DEF m
    <3> QED BY ONLY <2>2, <2>3, <3>1, PartIs
  <2>6. /\ file' \in Seq(Chars) /\ Len(file') = Len(file) + n
        /\ \A i \in 1..(Len(file) + n) :
             file'[i] = IF i <= Len(file) THEN file[i] ELSE w[i - Len(file)]
    <3>1. file' = file \o w
      BY <2>1
    <3> HIDE DEF w
    <3>2. /\ file \o w \in Seq(Chars) /\ Len(file \o w) = Len(file) + Len(w)
          /\ \A i \in 1..(Len(file) + Len(w)) :
               (file \o w)[i] = IF i <= Len(file) THEN file[i]
                                ELSE w[i - Len(file)]
      BY <2>3, <2>4, ConcatProperties
    <3> QED BY <2>4, <3>1, <3>2
  <2> HIDE DEF w
  <2>7. filepos <= got /\ Len(file) + Len(pend) = filepos /\ Len(pend) <= got
        /\ off + Len(pend) <= Size
    BY <1>0, <1>b, <2>1 DEF BodyInv, InBuffer
  <2>8. off' = off + n /\ got' = got /\ filepos' = filepos /\ stream' = stream
    BY <2>1
  <2>9. /\ off' \in 0..Size /\ off' + Len(pend') <= Size
        /\ Len(file') <= filepos' /\ Len(pend') <= got'
        /\ Len(file') + Len(pend') = filepos'
    <3>1. Len(pend') = m /\ Len(file') = Len(file) + n
      BY <2>5, <2>6
    <3>2. off' \in 0..Size /\ off' + Len(pend') <= Size
      BY ONLY <1>n, <2>2, <2>7, <2>8, <3>1
    <3>3. Len(file') + Len(pend') = filepos'
      BY ONLY SMTT(20), <1>n, <2>2, <2>7, <2>8, <3>1
    <3>4. Len(file') <= filepos' /\ Len(pend') <= got'
      BY ONLY <1>n, <2>2, <2>7, <2>8, <3>1
    <3> QED BY <3>2, <3>3, <3>4
  <2>10. Types'
    BY <1>0, <2>1, <2>5, <2>6, <2>9 DEF Types
  <2>11. Scanner'
    BY <1>b, <1>s, <2>1
  <2>12. InBuffer'
    BY <2>9 DEF InBuffer
  <2>13. ASSUME NEW i \in 1..Len(file')
         PROVE  file'[i] = stream'[got' - filepos' + i]
    <3>1. i \in 1..(Len(file) + n) /\ i \in Int
      BY <2>6
    <3>2. CASE i <= Len(file)
      <4>1. i \in 1..Len(file)
        BY <1>n, <3>1, <3>2
      <4> QED BY <1>0, <1>b, <2>6, <2>8, <3>1, <3>2, <4>1 DEF BodyInv
    <3>3. CASE ~(i <= Len(file))
      <4>1. /\ i - Len(file) \in 1..n /\ i - Len(file) \in 1..Len(pend)
            /\ got - Len(pend) + (i - Len(file)) = got - filepos + i
        BY ONLY SMTT(20), <1>n, <2>2, <2>7, <3>1, <3>3
      <4>2. file'[i] = pend[i - Len(file)]
        BY <2>4, <2>6, <3>1, <3>3, <4>1
      <4>3. pend[i - Len(file)] = stream[got - Len(pend) + (i - Len(file))]
        BY <1>0, <1>b, <4>1 DEF BodyInv
      <4> QED BY <2>8, <4>1, <4>2, <4>3
    <3> QED BY <3>2, <3>3
  <2>14. ASSUME NEW i \in 1..Len(pend')
         PROVE  pend'[i] = stream'[got' - Len(pend') + i]
    <3>1. i \in 1..m /\ i \in Int
      BY <2>5
    <3>2. /\ n + i \in 1..Len(pend)
          /\ got - Len(pend) + (n + i) = got - Len(pend') + i
      BY ONLY <1>n, <2>2, <2>5, <3>1
    <3>3. pend[n + i] = stream[got - Len(pend) + (n + i)]
      BY <1>0, <1>b, <3>2 DEF BodyInv
    <3> QED BY <2>5, <2>8, <3>1, <3>2, <3>3
  <2>15. close' => eof' \/ filepos' >= filesize'
    BY <1>0, <1>b, <2>1 DEF BodyInv
  <2>16. filepos' <= got' /\ (status' = "BODY_READ" => off' = 0)
    BY <1>n, <2>1, <2>7, <2>8
  <2>17. Idle' /\ BodyInv'
    BY <1>b, <2>1, <2>9, <2>13, <2>14, <2>15, <2>16 DEF Idle, InBody, BodyInv
  <2> QED BY <2>10, <2>11, <2>12, <2>17 DEF Base
<1> QED BY <1>1, <1>2, <1>3, <1>4, <1>5, <1>6

\* Every step keeps the invariant of the buffers.
LEMMA BaseNext ==
  ASSUME Base, [Next]_vars
  PROVE  Base'
<1>1. CASE UNCHANGED vars
  BY <1>1 DEF vars, header, body, hist, Base, Types, Scanner, Idle, BodyInv,
              InBody, InBuffer, Pos
<1>2. CASE Next
  BY <1>2, BaseScan, BaseBody DEF Next, Reading, Writing
<1> QED BY <1>1, <1>2

\* The invariant of the buffers holds in every state.
LEMMA BaseAlways == Spec => []Base
BY BaseInit, BaseNext, PTL DEF Spec

-----------------------------------------------------------------------------
(* What req points to                                                      *)

\* A string that req points to is terminated before the line looked at.
KeptAt(k) ==
    /\ k.at \in Nat /\ k.at >= 1 /\ k.line \in Seq(Chars)
    /\ k.at + Len(k.line) < hl /\ k.at + Len(k.line) <= Len(buf)
    /\ buf[k.at + Len(k.line)] = "0"
    /\ \A j \in 1..Len(k.line) : buf[k.at + j - 1] = k.line[j]

KeptInv == \A k \in kept : KeptAt(k)

\* What is before the line looked at may not change.
LEMMA KeptStill ==
  ASSUME Base, Base', KeptInv, hl <= hl',
         \A i \in 1..Len(buf) : i < hl => i <= Len(buf') /\ buf'[i] = buf[i]
  PROVE  \A k \in kept : KeptAt(k)'
<1> SUFFICES ASSUME NEW k \in kept
             PROVE  KeptAt(k)'
  OBVIOUS
<1>1. KeptAt(k)
  BY DEF KeptInv
<1> DEFINE a == k.at
           w == k.line
           e == a + Len(w)
<1>2. /\ a \in Nat /\ a >= 1 /\ w \in Seq(Chars) /\ e < hl /\ e <= Len(buf)
      /\ buf[e] = "0" /\ \A j \in 1..Len(w) : buf[a + j - 1] = w[j]
  BY <1>1 DEF KeptAt
<1>3. Len(w) \in Nat
  BY <1>2
<1>4. Len(buf) \in Nat /\ hl \in Nat /\ hl' \in Nat /\ Len(buf') \in Nat
      /\ hl <= hl'
  <2>1. Types /\ Types'
    BY DEF Base
  <2>2. buf \in Seq(Chars) /\ buf' \in Seq(Chars) /\ hl \in 1..(Size + 1)
        /\ hl' \in 1..(Size + 1) /\ Size \in Nat
    BY <2>1, ReadAssumption DEF Types
  <2> QED BY <2>2
<1> HIDE DEF a, w
<1>5. e \in 1..Len(buf) /\ e < hl /\ e < hl'
  BY ONLY <1>2, <1>3, <1>4
<1>6. e <= Len(buf') /\ buf'[e] = "0"
  BY <1>2, <1>5
<1>7. ASSUME NEW j \in 1..Len(w)
      PROVE  buf'[a + j - 1] = w[j]
  <2>1. a + j - 1 \in 1..Len(buf) /\ a + j - 1 < hl
    BY ONLY <1>2, <1>3, <1>4, <1>7
  <2> QED BY <1>2, <2>1
<1> QED BY <1>2, <1>5, <1>6, <1>7 DEF KeptAt, a, w

\* Every step leaves the strings that req points to as they are.
LEMMA KeptNext ==
  ASSUME Base, KeptInv, [Next]_vars
  PROVE  KeptInv'
<1>0. Types /\ Scanner /\ Base'
  BY BaseNext DEF Base
<1>n. /\ Len(buf) \in Nat /\ hl \in Nat /\ hl >= 1 /\ check \in Nat
      /\ Size \in Nat
  BY <1>0, Numeric DEF Types
<1>1. ASSUME UNCHANGED <<buf, hl, kept>>
      PROVE  KeptInv'
  BY <1>1 DEF KeptInv, KeptAt
<1>2. ASSUME NEW n \in Arrived, ReadHeader(n)
      PROVE  KeptInv'
  <2>1. buf' = buf \o Bytes(n) /\ hl' = hl /\ kept' = kept
    BY <1>2 DEF ReadHeader, hist
  <2>2. buf \in Seq(Chars) /\ Bytes(n) \in Seq(Chars)
    BY <1>0, BytesAre DEF Types
  <2> DEFINE w == Bytes(n)
  <2>3. \A i \in 1..Len(buf) : i <= Len(buf') /\ buf'[i] = buf[i]
    <3>1. buf' = buf \o w /\ w \in Seq(Chars)
      BY <2>1, <2>2
    <3> HIDE DEF w
    <3>2. /\ Len(buf \o w) = Len(buf) + Len(w) /\ Len(w) \in Nat
          /\ \A i \in 1..(Len(buf) + Len(w)) :
               (buf \o w)[i] = IF i <= Len(buf) THEN buf[i] ELSE w[i - Len(buf)]
      BY <2>2, <3>1, ConcatProperties
    <3>3. ASSUME NEW i \in 1..Len(buf)
          PROVE  i <= Len(buf \o w) /\ (buf \o w)[i] = buf[i]
      <4>1. i \in 1..(Len(buf) + Len(w)) /\ i <= Len(buf) + Len(w)
            /\ i <= Len(buf)
        BY <1>n, <3>2
      <4> QED BY <3>2, <4>1
    <3> QED BY <3>1, <3>3
  <2>4. \A k \in kept : KeptAt(k)'
    BY <1>0, <1>n, <2>1, <2>3, KeptStill
  <2> QED BY <2>1, <2>4 DEF KeptInv
<1>3. ASSUME LogLine \/ OptionLine
      PROVE  KeptInv'
  <2>1. /\ pc = "scan" /\ check < last /\ NextStatus = "ONE_LF"
        /\ buf' = Ended /\ hl' = check + 1
        /\ kept' = kept \cup {[at |-> hl, line |-> Line]}
    BY <1>3 DEF LogLine, OptionLine, LineFound, Keep
  <2>2. /\ check \in 1..Len(buf) /\ check >= hl
    BY <1>0, <2>1, Automaton DEF Scanner
  <2>3. /\ HeaderEnd \in Nat /\ hl <= HeaderEnd /\ HeaderEnd >= 1
        /\ HeaderEnd = check \/ HeaderEnd = check - 1
        /\ HeaderEnd <= Len(buf)
        /\ Line \in Seq(Chars) /\ Len(Line) = HeaderEnd - hl
        /\ \A i \in 1..(HeaderEnd - hl) : Line[i] = buf[hl + i - 1]
        /\ Len(Ended) = Len(buf)
        /\ \A i \in 1..Len(buf) :
             Ended[i] = IF i = HeaderEnd THEN "0" ELSE buf[i]
    BY <1>0, <2>1, LineEnds
  <2>4. ASSUME NEW i \in 1..Len(buf), i < hl
        PROVE  i <= Len(buf') /\ buf'[i] = buf[i]
    <3>1. i <= Len(buf) /\ i # HeaderEnd
      BY <1>n, <2>3, <2>4
    <3> QED BY <2>1, <2>3, <3>1
  <2>5. hl <= hl'
    BY <1>n, <2>1, <2>2
  <2>6. \A k \in kept : KeptAt(k)'
    BY <1>0, <2>4, <2>5, KeptStill
  <2> DEFINE a == hl
             w == Line
  <2>7. ASSUME NEW k, k = [at |-> hl, line |-> Line]
        PROVE  KeptAt(k)'
    <3>1. /\ a \in Nat /\ a >= 1 /\ w \in Seq(Chars)
          /\ Len(w) = HeaderEnd - a
      BY <1>n, <2>3
    <3>2. a + Len(w) = HeaderEnd
      BY <1>n, <2>3
    <3>3. HeaderEnd < hl' /\ HeaderEnd <= Len(buf') /\ HeaderEnd \in 1..Len(buf)
      <4>1. check \in Nat /\ hl' = check + 1 /\ HeaderEnd \in Nat
            /\ HeaderEnd <= Len(buf) /\ Len(buf') = Len(buf)
        BY <1>n, <2>1, <2>3
      <4> QED BY <1>n, <2>3, <4>1
    <3>4. buf'[HeaderEnd] = "0"
      BY <2>1, <2>3, <3>3
    <3>5. ASSUME NEW j \in 1..Len(w)
          PROVE  buf'[a + j - 1] = w[j]
      <4>1. j \in 1..(HeaderEnd - hl) /\ hl + j - 1 \in 1..Len(buf)
            /\ hl + j - 1 # HeaderEnd
        BY <1>n, <2>3, <3>5
      <4> QED BY <2>1, <2>3, <4>1
    <3>6. k.at = a /\ k.line = w
      BY <2>7
    <3> HIDE DEF a, w
    <3>7. a + Len(w) < hl' /\ a + Len(w) <= Len(buf') /\ buf'[a + Len(w)] = "0"
      BY <3>2, <3>3, <3>4
    <3> QED BY <3>1, <3>5, <3>6, <3>7 DEF KeptAt
  <2> QED BY <2>1, <2>6, <2>7 DEF KeptInv
<1>4. ASSUME EatLine
      PROVE  KeptInv'
  <2> DEFINE throw == HeaderEnd - hl + 1
  <2>1. /\ pc = "scan" /\ check < last /\ NextStatus = "ONE_LF" /\ kept' = kept
        /\ hl' = check + 1 - throw
        /\ buf' = SubSeq(buf, 1, hl - 1) \o SubSeq(buf, HeaderEnd + 1, Len(buf))
    BY <1>4 DEF EatLine, LineFound
  <2>2. /\ hl - 1 <= Len(buf') /\ Len(buf') = Len(buf) - throw /\ throw \in Nat
        /\ \A i \in 1..(hl - 1) : buf'[i] = buf[i]
        /\ check + 1 - throw >= hl
    BY <1>0, <2>1, LineEaten
  <2>3. hl <= hl'
    <3>1. check + 1 - throw >= hl /\ hl' = check + 1 - throw
      BY <2>1, <2>2
    <3> QED BY <3>1
  <2> HIDE DEF throw
  <2>4. ASSUME NEW i \in 1..Len(buf), i < hl
        PROVE  i <= Len(buf') /\ buf'[i] = buf[i]
    <3>1. Len(buf') \in Int /\ hl - 1 <= Len(buf')
      BY <1>n, <2>2
    <3>2. i \in 1..(hl - 1) /\ i <= Len(buf')
      BY ONLY <1>n, <2>4, <3>1
    <3> QED BY <2>2, <3>2
  <2>5. \A k \in kept : KeptAt(k)'
    BY <1>0, <2>3, <2>4, KeptStill
  <2> QED BY <2>1, <2>5 DEF KeptInv
<1>5. CASE UNCHANGED vars
  BY <1>1, <1>5 DEF vars, header, hist
<1>6. ASSUME \/ ScanByte \/ BodyFound \/ ChunkEnd \/ HeaderEof \/ IoError
             \/ BodyFull \/ BodyBlocked \/ BodyEof \/ BodyWritten \/ SkipBody
             \/ \E n \in Arrived : ReadBody(n)
             \/ \E n \in 1..Len(pend) : WriteBody(n)
      PROVE  KeptInv'
  <2>1. UNCHANGED <<buf, hl, kept>>
    BY <1>6 DEF ScanByte, BodyFound, ChunkEnd, HeaderEof, IoError, BodyFull,
         BodyBlocked, BodyEof, BodyWritten, SkipBody, ReadBody, WriteBody,
         header, hist
  <2> QED BY <1>1, <2>1
<1> QED BY <1>2, <1>3, <1>4, <1>5, <1>6 DEF Next, Scan, Reading, Writing

-----------------------------------------------------------------------------
(* The theorems on the buffers                                             *)

(***************************************************************************)
(* Every position that read_header() and read_body() keep is in its        *)
(* buffer, for any size of the buffers and any request.                    *)
(***************************************************************************)
THEOREM TypeCorrect == Spec => []TypeOK
<1>1. Base => TypeOK
  BY DEF Base, Types, TypeOK
<1> QED BY <1>1, BaseAlways, PTL

(***************************************************************************)
(* Neither the rest of the header's chunk nor a read() of the body passes  *)
(* the end of req->buffer.                                                 *)
(***************************************************************************)
THEOREM InBufferHolds == Spec => []InBuffer
<1>1. Base => InBuffer
  BY DEF Base
<1> QED BY <1>1, BaseAlways, PTL

(***************************************************************************)
(* The form is run on a file with all the bytes that the client claimed,   *)
(* unless it closed or sent too many.                                      *)
(***************************************************************************)
THEOREM FormWholeHolds == Spec => []FormWhole
<1>1. Init => FormWhole
  BY DEF Init, FormWhole
<1>2. ASSUME Base, FormWhole, [Next]_vars
      PROVE  FormWhole'
  <2>1. CASE BodyWritten
    <3>1. /\ pend = <<>> /\ UNCHANGED <<file, eof, filepos, filesize>>
          /\ (pc' = "form" => close \/ filepos >= filesize) /\ InBody
      BY <2>1 DEF BodyWritten, InBodyWrite, InBody
    <3>2. /\ (filepos <= UploadMax => Len(file) + Len(pend) = filepos)
          /\ (close => eof \/ filepos >= filesize)
      BY <1>2, <3>1 DEF Base, BodyInv
    <3>3. /\ Len(file) \in Nat /\ filepos \in Nat /\ filesize \in Nat
          /\ UploadMax \in Nat /\ Len(pend) = 0
      BY <1>2, <3>1, Numeric DEF Base, Types
    <3>4. filepos > UploadMax \/ Len(file) = filepos
      BY <3>2, <3>3
    <3> QED BY <3>1, <3>2, <3>4 DEF FormWhole
  <2>2. CASE UNCHANGED vars
    BY <1>2, <2>2 DEF FormWhole, vars, body
  <2>3. CASE Next /\ ~BodyWritten
    <3>1. pc' # "form"
      BY <2>3 DEF Next, Scan, Reading, Writing, ScanByte, LogLine, OptionLine,
           EatLine, LineFound, BodyFound, ChunkEnd, HeaderEof, IoError, BodyFull,
           BodyBlocked, BodyEof, SkipBody, ReadBody, ReadHeader, WriteBody,
           InBodyRead, InBodyWrite
    <3> QED BY <3>1 DEF FormWhole
  <2> QED BY <1>2, <2>1, <2>2, <2>3
<1> QED BY <1>1, <1>2, BaseAlways, PTL DEF Spec

(***************************************************************************)
(* The strings that req->logline, req->host and the others point to stay   *)
(* what they were when the line was found.                                 *)
(***************************************************************************)
THEOREM KeptIntactHolds == Spec => []KeptIntact
<1>1. Init => KeptInv
  BY DEF Init, KeptInv
<1>2. Base /\ KeptInv => KeptIntact
  <2> SUFFICES ASSUME Base, KeptInv, NEW k \in kept
               PROVE  LET end == k.at + Len(k.line) IN
                      /\ SubSeq(buf, k.at, end - 1) = k.line
                      /\ end <= Len(buf) /\ buf[end] = "0"
    BY Zenon DEF KeptIntact
  <2> DEFINE a == k.at
             w == k.line
             b == a - 1
             m == Len(w)
  <2>1. /\ a \in Nat /\ a >= 1 /\ w \in Seq(Chars) /\ a + m <= Len(buf)
        /\ buf[a + m] = "0" /\ \A j \in 1..m : buf[a + j - 1] = w[j]
    BY DEF KeptInv, KeptAt
  <2>2. buf \in Seq(Chars) /\ Len(buf) \in Nat
    BY DEF Base, Types
  <2>3. m \in Nat
    BY <2>1
  <2> HIDE DEF a, w, m
  <2>4. b \in Nat /\ b + m <= Len(buf) /\ b + 1 = a /\ b + m = a + m - 1
    BY <2>1, <2>2, <2>3
  <2>5. \A j \in 1..m : b + j = a + j - 1
    BY <2>1
  <2> HIDE DEF b
  <2> DEFINE t == SubSeq(buf, b + 1, b + m)
  <2>6. t \in Seq(Chars) /\ Len(t) = m /\ \A i \in 1..m : t[i] = buf[b + i]
    BY <2>2, <2>3, <2>4, PartIs
  <2> HIDE DEF t
  <2>7. t = w
    <3>1. Len(t) = Len(w) /\ \A i \in 1..Len(t) : t[i] = w[i]
      BY <2>1, <2>5, <2>6 DEF m
    <3> QED BY <2>1, <2>6, <3>1, SeqEqual
  <2>8. SubSeq(buf, a, a + m - 1) = w
    BY <2>4, <2>7 DEF t
  <2> QED BY <2>1, <2>8 DEF a, w, m
<1>3. ASSUME Base, KeptInv, [Next]_vars
      PROVE  KeptInv'
  BY <1>3, KeptNext
<1> QED BY <1>1, <1>2, <1>3, BaseAlways, PTL DEF Spec

-----------------------------------------------------------------------------
(* The lines and the body are those of the stream                          *)

\* Byte p is looked at, its line begins at f, and k lines were processed.
At(p, f, k) ==
    /\ Feeds(stream, p - 1) = k /\ Feeds(stream, f - 1) = k
    /\ k = 0 => f = 1
    /\ k # 0 => f > 1 /\ stream[f - 1] = "n"

\* As many lines were processed as line feeds were seen.
Counted ==
    status \in Scanning /\ ~cut => At(Pos(check), Pos(hl), Len(lines))

\* The automaton has just seen a CR exactly in the states that say so.
Ends ==
    status \in Scanning /\ CleanEnds =>
        /\ status = "READ_HEADER" =>
             Pos(check) = 1 \/ stream[Pos(check) - 1] # "r"
        /\ status \in {"ONE_CR", "TWO_CR"} =>
             Pos(check) > 1 /\ stream[Pos(check) - 1] = "r"

\* The body begins behind the line feed of the empty line.
BodyAt ==
    InBody /\ ~cut =>
        /\ got - filepos > 0 /\ stream[got - filepos] = "n"
        /\ Feeds(stream, got - filepos) = Len(lines) + 1

FeedInv == Counted /\ Ends /\ BodyAt /\ LinesExact

\* The positions of the scanner are positions of what was read.
LEMMA PosIs ==
  ASSUME Base, status \in Scanning
  PROVE  /\ Pos(check) \in Nat /\ Pos(hl) \in Nat /\ Pos(hl) >= 1
         /\ Pos(hl) <= Pos(check) /\ Pos(check) <= got + 1
         /\ Pos(check) - Pos(hl) = check - hl
         /\ check < last => Pos(check) \in 1..Len(stream)
<1>1. /\ Len(buf) \in Nat /\ got \in Nat /\ hl \in Nat /\ check \in Nat
      /\ hl >= 1 /\ got <= Len(stream) /\ Len(stream) \in Nat
  BY Numeric DEF Base, Types
<1>2. /\ last = Len(buf) + 1 /\ hl <= check /\ check <= last /\ Len(buf) <= got
  BY DEF Base, Scanner
<1> QED BY ONLY <1>1, <1>2 DEF Pos

\* The line that ends at a line feed is the next one of the stream.
LEMMA NextLine ==
  ASSUME Base, Counted, Ends, CleanEnds, ~cut, pc = "scan", check < last,
         NextStatus = "ONE_LF", ~AtEnd
  PROVE  Line = LineOf(Len(lines) + 1)
<1> DEFINE p == Pos(check)
           f == Pos(hl)
           k == Len(lines)
<1>0. Types /\ Scanner /\ status \in Scanning
  BY DEF Base, Scanner
<1>1. /\ stream \in Seq(Chars) /\ Len(stream) \in Nat /\ k \in Nat
      /\ check \in Nat /\ hl \in Nat /\ hl >= 1 /\ got \in Nat
      /\ Len(buf) \in Nat /\ got <= Len(stream)
  BY <1>0, Numeric DEF Types
<1>2. /\ p \in Nat /\ f \in Nat /\ f >= 1 /\ f <= p /\ p - f = check - hl
      /\ p \in 1..Len(stream)
  BY <1>0, PosIs
<1>3. /\ Feeds(stream, p - 1) = k /\ Feeds(stream, f - 1) = k
      /\ (k = 0 => f = 1) /\ (k # 0 => f > 1 /\ stream[f - 1] = "n")
  BY <1>0 DEF Counted, At
<1>4. /\ \/ status = "READ_HEADER" /\ HeaderEnd = check
         \/ status = "ONE_CR" /\ HeaderEnd = check - 1 /\ hl <= check - 1
      /\ stream[p] = "n"
  <2>1. /\ stream[p] = "n" /\ (status = "READ_HEADER" \/ status = "ONE_CR")
        /\ HeaderEnd = IF status = "READ_HEADER" THEN check ELSE he
    BY <1>0, Automaton
  <2>2. status = "ONE_CR" => hl <= he /\ he = check - 1
    BY <1>0 DEF Scanner
  <2> QED BY <2>1, <2>2
<1>5. Feeds(stream, p) = k + 1
  <2>1. p - 1 \in Nat /\ (p - 1) + 1 = p
    BY <1>2
  <2> HIDE DEF p
  <2> QED BY <1>3, <1>4, <2>1, FeedsNext
<1>6. LineFeed(k + 1) = p
  <2> HIDE DEF p, k
  <2> QED BY <1>1, <1>2, <1>4, <1>5, LineFeedIs
<1>7. (IF k + 1 = 1 THEN 1 ELSE LineFeed((k + 1) - 1) + 1) = f
  <2>1. CASE k = 0
    BY <1>3, <2>1
  <2>2. CASE k # 0
    <3>1. f - 1 \in 1..Len(stream) /\ stream[f - 1] = "n"
          /\ Feeds(stream, f - 1) = k
      BY <1>1, <1>2, <1>3, <2>2
    <3> DEFINE g == f - 1
    <3> HIDE DEF f, k
    <3>2. LineFeed(k) = f - 1
      <4> HIDE DEF g
      <4>1. LineFeed(Feeds(stream, g)) = g
        BY <1>1, <3>1, LineFeedIs DEF g
      <4> QED BY <3>1, <4>1 DEF g
    <3>3. k + 1 # 1 /\ (k + 1) - 1 = k /\ (f - 1) + 1 = f
      BY <1>1, <1>2, <2>2
    <3> QED BY <3>2, <3>3
  <2> QED BY <2>1, <2>2
<1> DEFINE m == HeaderEnd - hl
           g == f - 1
<1>8. LineOf(k + 1) =
        SubSeq(stream, f, IF p > f /\ stream[p - 1] = "r" THEN p - 2 ELSE p - 1)
  <2> HIDE DEF f, p, k
  <2> DEFINE from == IF k + 1 = 1 THEN 1 ELSE LineFeed((k + 1) - 1) + 1
             end == LineFeed(k + 1)
  <2>1. LineOf(k + 1) =
          SubSeq(stream, from,
                 IF end > from /\ stream[end - 1] = "r" THEN end - 2
                 ELSE end - 1)
    BY Zenon DEF LineOf
  <2>2. from = f /\ end = p
    BY <1>6, <1>7
  <2> HIDE DEF from, end
  <2> QED BY <2>1, <2>2
<1>9. /\ (IF p > f /\ stream[p - 1] = "r" THEN p - 2 ELSE p - 1) = g + m
      /\ g + 1 = f /\ g \in Nat /\ m \in Nat /\ g + m <= Len(stream)
  <2>1. CASE status = "READ_HEADER" /\ HeaderEnd = check
    <3>1. p = 1 \/ stream[p - 1] # "r"
      BY <1>0, <2>1 DEF Ends
    <3>2. ~(p > f /\ stream[p - 1] = "r")
      <4> HIDE DEF p, f
      <4> QED BY <1>2, <3>1
    <3>3. m = p - f
      BY <1>2, <2>1
    <3> HIDE DEF p, f, m
    <3> QED BY ONLY <1>1, <1>2, <3>2, <3>3 DEF g
  <2>2. CASE status = "ONE_CR" /\ HeaderEnd = check - 1 /\ hl <= check - 1
    <3>1. stream[p - 1] = "r"
      BY <1>0, <2>2 DEF Ends
    <3>2. p > f /\ m = p - f - 1
      BY <1>1, <1>2, <2>2
    <3> HIDE DEF p, f, m
    <3> QED BY ONLY <1>1, <1>2, <3>1, <3>2 DEF g
  <2> QED BY <1>4, <2>1, <2>2
<1>10. LineOf(k + 1) = SubSeq(stream, g + 1, g + m)
  <2> HIDE DEF f, p, k, g, m
  <2> QED BY <1>8, <1>9
<1>11. /\ Line \in Seq(Chars) /\ Len(Line) = m /\ HeaderEnd <= Len(buf)
       /\ \A i \in 1..m : Line[i] = buf[hl + i - 1]
  BY <1>0, LineEnds
<1>12. ASSUME NEW i \in 1..m
       PROVE  Line[i] = stream[g + i]
  <2>1. hl + i - 1 \in hl..Len(buf) /\ Pos(hl + i - 1) = g + i
    <3>1. f = got - Len(buf) + hl
      BY DEF Pos
    <3>2. HeaderEnd = check \/ HeaderEnd = check - 1
      BY <1>4
    <3>3. hl + i - 1 \in hl..Len(buf)
      BY <1>1, <1>11, <1>12, <3>2
    <3>4. got - Len(buf) + (hl + i - 1) = g + i
      BY <1>1, <1>12, <3>1, <3>2
    <3> QED BY <3>3, <3>4 DEF Pos
  <2>2. buf[hl + i - 1] = stream[Pos(hl + i - 1)]
    BY <1>0, <2>1 DEF Scanner
  <2> QED BY <1>11, <2>1, <2>2
<1>13. /\ SubSeq(stream, g + 1, g + m) \in Seq(Chars)
       /\ Len(SubSeq(stream, g + 1, g + m)) = m
       /\ \A i \in 1..m : SubSeq(stream, g + 1, g + m)[i] = stream[g + i]
  <2> HIDE DEF g, m
  <2> QED BY <1>1, <1>9, PartIs
<1> DEFINE t == SubSeq(stream, g + 1, g + m)
<1>14. t = Line
  <2> HIDE DEF t, g, m
  <2>1. t \in Seq(Chars) /\ Len(t) = m /\ \A i \in 1..m : t[i] = stream[g + i]
    BY <1>13 DEF t
  <2>2. Len(t) = Len(Line) /\ \A i \in 1..Len(t) : t[i] = Line[i]
    BY <1>11, <1>12, <2>1
  <2> QED BY <1>11, <2>1, <2>2, SeqEqual
<1> QED BY <1>10, <1>14

\* A step that finds a line, whatever it does with the buffer.
LEMMA FeedLine ==
  ASSUME Base, FeedInv, pc = "scan", check < last, NextStatus = "ONE_LF",
         LineFound, check' = hl', got' - Len(buf') + check' = Pos(check) + 1
  PROVE  FeedInv'
<1> DEFINE p == Pos(check)
           k == Len(lines)
<1>0. Types /\ Scanner /\ status \in Scanning
  BY DEF Base, Scanner
<1>1. /\ status' = "ONE_LF" /\ cut' = (cut \/ AtEnd)
      /\ lines' = Append(lines, Line) /\ stream' = stream
  BY DEF LineFound
<1>2. Pos(check)' = p + 1 /\ Pos(hl)' = p + 1
  BY DEF Pos
<1>3. p \in Nat /\ p \in 1..Len(stream) /\ k \in Nat
  BY <1>0, PosIs, Numeric
<1>4. lines \in Seq(Seq(Chars)) /\ Line \in Seq(Chars)
  BY <1>0, LineEnds DEF Types
<1>5. /\ lines' \in Seq(Seq(Chars)) /\ Len(lines') = k + 1
      /\ \A i \in 1..k : lines'[i] = lines[i]
      /\ lines'[k + 1] = Line
  BY <1>1, <1>4, AppendProperties
<1>6. ASSUME ~cut'
      PROVE  ~cut /\ ~AtEnd /\ stream[p] = "n" /\ Feeds(stream, p) = k + 1
  <2>1. ~cut /\ ~AtEnd
    BY Zenon, <1>1, <1>6
  <2>2. stream[p] = "n"
    BY <1>0, <2>1, Automaton
  <2>3. Feeds(stream, p - 1) = k
    BY <1>0, <2>1 DEF FeedInv, Counted, At
  <2>4. p - 1 \in Nat /\ (p - 1) + 1 = p
    BY <1>3
  <2>5. Feeds(stream, p) = k + 1
    <3> HIDE DEF p
    <3> QED BY <2>2, <2>3, <2>4, FeedsNext
  <2> QED BY <2>1, <2>2, <2>5
<1> HIDE DEF p
<1>7. Counted'
  <2> SUFFICES ASSUME ~cut'
               PROVE  At(Pos(check), Pos(hl), Len(lines))'
    BY DEF Counted
  <2>1. (p + 1) - 1 = p /\ p + 1 > 1 /\ k + 1 # 0
    BY <1>3
  <2>2. stream[p] = "n" /\ Feeds(stream, p) = k + 1
    BY <1>6
  <2> QED BY <1>1, <1>2, <1>5, <2>1, <2>2 DEF At
<1>8. Ends'
  BY <1>1 DEF Ends
<1>9. BodyAt'
  BY <1>1 DEF BodyAt, InBody
<1>10. LinesExact'
  <2> SUFFICES ASSUME CleanEnds', ~cut', NEW i \in 1..Len(lines')
               PROVE  lines'[i] = LineOf(i)'
    BY DEF LinesExact
  <2>1. LineOf(i)' = LineOf(i) /\ CleanEnds
    BY <1>1 DEF LineOf, LineFeed, CleanEnds
  <2>2. CASE i \in 1..k
    BY <1>5, <1>6, <2>1, <2>2 DEF FeedInv, LinesExact
  <2>3. CASE i = k + 1
    <3>1. Line = LineOf(k + 1)
      BY <1>6, <2>1, NextLine DEF FeedInv
    <3> QED BY <1>5, <2>1, <2>3, <3>1
  <2>4. i \in 1..k \/ i = k + 1
    BY <1>3, <1>5
  <2> QED BY <2>2, <2>3, <2>4
<1> QED BY <1>7, <1>8, <1>9, <1>10 DEF FeedInv

\* The lines processed are those of the stream, and the body begins behind
\* them, whatever the step.
LEMMA FeedNext ==
  ASSUME Base, FeedInv, [Next]_vars
  PROVE  FeedInv'
<1>0. Types /\ Scanner /\ Base'
  BY BaseNext DEF Base
<1>n. /\ Len(buf) \in Nat /\ hl \in Nat /\ hl >= 1 /\ check \in Nat
      /\ got \in Nat /\ filepos \in Nat /\ Len(lines) \in Nat
      /\ Size \in Nat
  BY <1>0, Numeric DEF Types
<1>l. ASSUME UNCHANGED <<stream, lines, cut>>
      PROVE  LinesExact'
  <2> SUFFICES ASSUME CleanEnds', ~cut', NEW i \in 1..Len(lines')
               PROVE  lines'[i] = LineOf(i)'
    BY DEF LinesExact
  <2>1. LineOf(i)' = LineOf(i) /\ CleanEnds
    BY <1>l DEF LineOf, LineFeed, CleanEnds
  <2> QED BY <1>l, <2>1 DEF FeedInv, LinesExact
<1>1. ASSUME LogLine \/ OptionLine
      PROVE  FeedInv'
  <2>1. /\ LineFound /\ check' = check + 1 /\ hl' = check' /\ buf' = Ended
        /\ pc = "scan" /\ check < last /\ NextStatus = "ONE_LF" /\ got' = got
    BY <1>1 DEF LogLine, OptionLine, LineFound
  <2>2. Len(buf') = Len(buf)
    BY <1>0, <2>1, LineEnds
  <2>3. got' - Len(buf') + check' = Pos(check) + 1
    BY <1>n, <2>1, <2>2 DEF Pos
  <2> QED BY <2>1, <2>3, FeedLine
<1>2. ASSUME EatLine
      PROVE  FeedInv'
  <2> DEFINE throw == HeaderEnd - hl + 1
  <2>1. /\ LineFound /\ check' = check + 1 - throw /\ hl' = check'
        /\ pc = "scan" /\ check < last /\ NextStatus = "ONE_LF" /\ got' = got
        /\ buf' = SubSeq(buf, 1, hl - 1) \o SubSeq(buf, HeaderEnd + 1, Len(buf))
    BY <1>2 DEF EatLine, LineFound
  <2>2. Len(buf') = Len(buf) - throw /\ throw \in Nat
    BY <1>0, <2>1, LineEaten
  <2> HIDE DEF throw
  <2>3. got' - Len(buf') + check' = Pos(check) + 1
    <3>1. got' = got /\ check' = check + 1 - throw
      BY <2>1
    <3> QED BY ONLY <1>n, <2>2, <3>1 DEF Pos
  <2> QED BY <2>1, <2>3, FeedLine
<1>3. ASSUME ScanByte
      PROVE  FeedInv'
  <2> DEFINE p == Pos(check)
             b == buf[check]
  <2>1. /\ pc = "scan" /\ check < last /\ status \in Scanning
        /\ NextStatus \notin {"ONE_LF", "BODY_READ"}
        /\ status' = NextStatus /\ check' = check + 1
        /\ UNCHANGED <<stream, got, buf, hl, lines, cut, filepos, pc>>
    BY <1>0, <1>3 DEF ScanByte, body, hist, Scanner
  <2>2. /\ b = stream[p] /\ b # "n" /\ NextStatus \in Scanning
        /\ NextStatus \in {"ONE_CR", "TWO_CR"} => b = "r"
        /\ NextStatus = "READ_HEADER" =>
             b # "r" \/ status \in {"ONE_CR", "TWO_CR"}
    BY <1>0, <2>1, Automaton
  <2>3. p \in Nat /\ p \in 1..Len(stream)
    BY <2>1, PosIs
  <2>4. Pos(check)' = p + 1 /\ Pos(hl)' = Pos(hl)
    BY <1>n, <2>1 DEF Pos
  <2>5. Feeds(stream, p) = Feeds(stream, p - 1)
    <3>1. p - 1 \in Nat /\ (p - 1) + 1 = p
      BY <2>3
    <3>2. stream[p] # "n"
      BY <2>2
    <3> HIDE DEF p
    <3>3. Feeds(stream, p - 1) \in Nat
          /\ Feeds(stream, p) = Feeds(stream, p - 1) + 0
      BY <3>1, <3>2, FeedsNext
    <3> QED BY <3>3, Shift
  <2>6. (p + 1) - 1 = p /\ p + 1 > 1
    BY <2>3
  <2>7. Counted'
    <3>1. ASSUME ~cut PROVE At(p, Pos(hl), Len(lines))
      BY <2>1, <3>1 DEF FeedInv, Counted
    <3> HIDE DEF p
    <3> QED BY <2>1, <2>4, <2>5, <2>6, <3>1 DEF Counted, At
  <2>8. Ends'
    <3> SUFFICES ASSUME CleanEnds
                 PROVE  /\ status' = "READ_HEADER" => stream[p] # "r"
                        /\ status' \in {"ONE_CR", "TWO_CR"} => stream[p] = "r"
      <4>1. CleanEnds' = CleanEnds
        BY <2>1 DEF CleanEnds
      <4> HIDE DEF p
      <4> QED BY <2>1, <2>4, <2>6, <4>1 DEF Ends
    <3>1. ASSUME status \in {"ONE_CR", "TWO_CR"}
          PROVE  FALSE
      <4>1. p > 1 /\ stream[p - 1] = "r"
        BY <2>1, <3>1 DEF FeedInv, Ends
      <4>2. p - 1 \in 1..Len(stream) /\ (p - 1) + 1 = p
        <5> HIDE DEF p
        <5> QED BY <2>3, <4>1
      <4>3. stream[p] = "n"
        <5> HIDE DEF p
        <5> QED BY <4>1, <4>2 DEF CleanEnds
      <4> QED BY <2>2, <4>3
    <3> QED BY <2>1, <2>2, <3>1
  <2>9. BodyAt'
    BY <2>1, <2>2 DEF BodyAt, InBody, Scanning
  <2> QED BY <1>l, <2>1, <2>7, <2>8, <2>9 DEF FeedInv
<1>4. ASSUME BodyFound
      PROVE  FeedInv'
  <2> DEFINE p == Pos(check)
             k == Len(lines)
  <2>1. /\ pc = "scan" /\ check < last /\ status \in Scanning
        /\ NextStatus = "BODY_READ" /\ status' = "BODY_READ"
        /\ UNCHANGED <<stream, got, lines, cut>>
        /\ (pc' # "served" => filepos' = last - check - 1)
    BY <1>0, <1>4 DEF BodyFound, hist, Scanner
  <2>2. stream[p] = "n" /\ last = Len(buf) + 1
    BY <1>0, <2>1, Automaton DEF Scanner
  <2>3. p \in Nat /\ p \in 1..Len(stream)
    BY <2>1, PosIs
  <2>4. ASSUME ~cut
        PROVE  Feeds(stream, p) = k + 1
    <3>1. Feeds(stream, p - 1) = k
      BY <2>1, <2>4 DEF FeedInv, Counted, At
    <3>2. p - 1 \in Nat /\ (p - 1) + 1 = p
      BY <2>3
    <3> HIDE DEF p
    <3> QED BY <2>2, <3>1, <3>2, FeedsNext
  <2>5. ASSUME pc' # "served"
        PROVE  got' - filepos' = p
    BY <1>n, <2>1, <2>2, <2>5 DEF Pos
  <2>6. Counted' /\ Ends'
    BY <2>1 DEF Counted, Ends, Scanning
  <2>7. BodyAt'
    <3> HIDE DEF p
    <3>1. p > 0
      BY <2>3
    <3> QED BY <2>1, <2>2, <2>4, <2>5, <3>1 DEF BodyAt, InBody
  <2> QED BY <1>l, <2>1, <2>6, <2>7 DEF FeedInv
<1>5. ASSUME NEW n \in Arrived, ReadHeader(n)
      PROVE  FeedInv'
  <2>1. /\ status \in Scanning /\ pc = "ready" /\ pc' = "scan"
        /\ UNCHANGED <<stream, status, hl, lines, cut>>
        /\ got' = got + n /\ buf' = buf \o Bytes(n) /\ check' = Len(buf) + 1
    BY <1>5 DEF ReadHeader, hist
  <2>2. n \in Nat /\ Bytes(n) \in Seq(Chars) /\ Len(Bytes(n)) = n
    BY <1>0, BytesAre
  <2>3. Len(buf') = Len(buf) + n
    <3> DEFINE w == Bytes(n)
    <3>1. buf \in Seq(Chars) /\ w \in Seq(Chars) /\ Len(w) = n /\ buf' = buf \o w
      BY <1>0, <2>1, <2>2 DEF Types
    <3> HIDE DEF w
    <3> QED BY <3>1, ConcatProperties
  <2>4. check' = check
    BY <1>0, <2>1 DEF Scanner
  <2>5. Pos(check)' = Pos(check) /\ Pos(hl)' = Pos(hl)
    <3>1. got' = got + n /\ hl' = hl
      BY <2>1
    <3>2. got' - Len(buf') + check = got - Len(buf) + check
          /\ got' - Len(buf') + hl = got - Len(buf) + hl
      BY <1>n, <2>2, <2>3, <3>1, Shift
    <3> QED BY <2>4, <3>1, <3>2 DEF Pos
  <2>6. Counted'
    <3>1. ~cut => At(Pos(check), Pos(hl), Len(lines))
      BY <2>1 DEF FeedInv, Counted
    <3> QED BY <2>1, <2>5, <3>1 DEF Counted, At
  <2>7. Ends'
    <3>1. CleanEnds' = CleanEnds
      BY <2>1 DEF CleanEnds
    <3> QED BY <2>1, <2>5, <3>1 DEF FeedInv, Ends
  <2>8. BodyAt'
    BY <2>1 DEF BodyAt, InBody, Scanning
  <2> QED BY <1>l, <2>1, <2>6, <2>7, <2>8 DEF FeedInv
<1>6. ASSUME NEW n \in Arrived, ReadBody(n)
      PROVE  FeedInv'
  <2>1. /\ status = "BODY_READ" /\ pc = "ready" /\ pc' = pc
        /\ status' \in {"BODY_READ", "BODY_WRITE"}
        /\ UNCHANGED <<stream, lines, cut>>
        /\ got' = got + n /\ filepos' = filepos + n
    BY <1>6 DEF ReadBody, InBodyRead, hist
  <2>2. n \in Nat
    BY <1>0, BytesAre
  <2>3. got' - filepos' = got - filepos
    BY <1>n, <2>1, <2>2
  <2>4. Counted' /\ Ends'
    BY <2>1 DEF Counted, Ends, Scanning
  <2>5. BodyAt'
    BY <2>1, <2>3 DEF FeedInv, BodyAt, InBody
  <2> QED BY <1>l, <2>1, <2>4, <2>5 DEF FeedInv
<1>7. ASSUME \/ BodyFull \/ BodyBlocked \/ BodyEof \/ BodyWritten \/ SkipBody
             \/ \E n \in 1..Len(pend) : WriteBody(n)
      PROVE  FeedInv'
  <2>1. /\ InBody /\ status' \in {"BODY_READ", "BODY_WRITE"}
        /\ UNCHANGED <<stream, got, filepos, lines, cut>>
    BY <1>7 DEF BodyFull, BodyBlocked, BodyEof, BodyWritten, SkipBody,
                WriteBody,
         InBodyRead, InBodyWrite, InBody, body, hist
  <2>2. Counted' /\ Ends'
    BY <2>1 DEF Counted, Ends, Scanning
  <2>3. BodyAt'
    BY <2>1 DEF FeedInv, BodyAt
  <2> QED BY <1>l, <2>1, <2>2, <2>3 DEF FeedInv
<1>8. ASSUME ChunkEnd \/ HeaderEof \/ IoError \/ UNCHANGED vars
      PROVE  FeedInv'
  <2>1. /\ UNCHANGED <<stream, got, buf, check, hl, status, filepos, lines, cut>>
        /\ (pc' # "served" => pc # "served")
    BY <1>8 DEF ChunkEnd, HeaderEof, IoError, vars, header, body, hist,
                InBodyRead, InBodyWrite
  <2>2. Counted' /\ Ends'
    BY <2>1 DEF FeedInv, Counted, Ends, At, Pos, CleanEnds
  <2>3. BodyAt'
    BY <2>1 DEF FeedInv, BodyAt, InBody
  <2> QED BY <1>l, <2>1, <2>2, <2>3 DEF FeedInv
<1> QED BY <1>1, <1>2, <1>3, <1>4, <1>5, <1>6, <1>7, <1>8
        DEF Next, Scan, Reading, Writing

\* Nothing is counted at first.
LEMMA FeedInit == Init => FeedInv
<1> SUFFICES ASSUME Init
             PROVE  FeedInv
  OBVIOUS
<1>1. Pos(check) = 1 /\ Pos(hl) = 1 /\ Len(lines) = 0 /\ 1 - 1 = 0
  BY DEF Init, Pos
<1>2. Feeds(stream, 0) = 0
  BY FeedsNext
<1>3. Counted
  BY <1>1, <1>2 DEF Counted, At
<1>4. Ends
  BY <1>1 DEF Init, Ends
<1>5. BodyAt
  BY DEF Init, BodyAt, InBody
<1>6. LinesExact
  BY <1>1 DEF LinesExact
<1> QED BY <1>3, <1>4, <1>5, <1>6 DEF FeedInv

\* The counts of lines and line feeds agree in every state.
LEMMA FeedAlways == Spec => []FeedInv
BY FeedInit, FeedNext, BaseAlways, PTL DEF Spec

(***************************************************************************)
(* However the bytes are divided between read() calls, and whichever lines *)
(* were moved out before, the lines processed are those of the request, if *)
(* its CRs are all before a line feed and the buffer was not filled.       *)
(***************************************************************************)
THEOREM LinesExactHolds == Spec => []LinesExact
<1>1. FeedInv => LinesExact
  BY DEF FeedInv
<1> QED BY <1>1, FeedAlways, PTL

(***************************************************************************)
(* The file and the buffer together hold the body that was read, and       *)
(* beyond the limit on uploads the file is a beginning of it.              *)
(***************************************************************************)
THEOREM BodyExactHolds == Spec => []BodyExact
<1>1. Base /\ FeedInv => BodyExact
  <2> SUFFICES ASSUME Base, FeedInv, InBody, ~cut
               PROVE  LET sent == SubSeq(stream, BodyStart,
                                         BodyStart + filepos - 1) IN
                      IF filepos <= UploadMax THEN file \o pend = sent
                      ELSE file = SubSeq(sent, 1, Len(file))
    BY DEF BodyExact, InBody
  <2> DEFINE a == got - filepos
             m == filepos
             t == SubSeq(stream, a + 1, a + m)
             l == Len(file)
  <2>0. Types /\ BodyInv
    BY DEF Base
  <2>1. /\ stream \in Seq(Chars) /\ Len(stream) \in Nat /\ got \in Nat
        /\ got <= Len(stream) /\ m \in Nat /\ UploadMax \in Nat
        /\ file \in Seq(Chars) /\ pend \in Seq(Chars)
        /\ l \in Nat /\ Len(pend) \in Nat
    BY <2>0, Numeric DEF Types
  <2>2. /\ a > 0 /\ stream[a] = "n" /\ Feeds(stream, a) = Len(lines) + 1
    BY DEF FeedInv, BodyAt
  <2>3. /\ m <= got /\ l <= m
        /\ \A i \in 1..l : file[i] = stream[a + i]
        /\ \A i \in 1..Len(pend) : pend[i] = stream[got - Len(pend) + i]
        /\ (m <= UploadMax => l + Len(pend) = m)
    BY <2>0 DEF BodyInv
  <2>4. /\ a \in Nat /\ a \in 1..Len(stream) /\ a + m = got
        /\ a + m <= Len(stream) /\ a + 1 + m - 1 = a + m
    BY <2>1, <2>2, <2>3
  <2> HIDE DEF a, m
  <2>5. LineFeed(Len(lines) + 1) = a
    BY <2>1, <2>2, <2>4, LineFeedIs
  <2>6. BodyStart = a + 1
    BY <2>5 DEF BodyStart
  <2>7. SubSeq(stream, BodyStart, BodyStart + filepos - 1) = t
    BY <2>4, <2>6 DEF m
  <2>8. t \in Seq(Chars) /\ Len(t) = m /\ \A i \in 1..m : t[i] = stream[a + i]
    BY <2>1, <2>4, PartIs
  <2> HIDE DEF t, l
  <2>9. ASSUME m <= UploadMax
        PROVE  file \o pend = t
    <3>1. l + Len(pend) = m
      BY <2>3, <2>9
    <3>2. /\ file \o pend \in Seq(Chars) /\ Len(file \o pend) = l + Len(pend)
          /\ \A i \in 1..(l + Len(pend)) :
               (file \o pend)[i] = IF i <= l THEN file[i] ELSE pend[i - l]
      BY <2>1, ConcatProperties DEF l
    <3>3. ASSUME NEW i \in 1..m
          PROVE  (file \o pend)[i] = t[i]
      <4>1. CASE i <= l
        <5>1. i \in 1..l
          BY <2>1, <4>1
        <5> QED BY <2>3, <2>8, <3>1, <3>2, <4>1, <5>1
      <4>2. CASE ~(i <= l)
        <5>1. i - l \in 1..Len(pend) /\ got - Len(pend) + (i - l) = a + i
          BY ONLY SMTT(20), <2>1, <2>4, <3>1, <3>3, <4>2
        <5> QED BY <2>3, <2>8, <3>1, <3>2, <4>2, <5>1
      <4> QED BY <4>1, <4>2
    <3> DEFINE u == file \o pend
    <3>4. u \in Seq(Chars) /\ Len(u) = m /\ \A i \in 1..m : u[i] = t[i]
      BY <3>1, <3>2, <3>3
    <3> HIDE DEF u
    <3>5. u = t
      BY <2>8, <3>4, SeqEqual
    <3> QED BY <3>5 DEF u
  <2>10. file = SubSeq(t, 1, l)
    <3> DEFINE u == SubSeq(t, 0 + 1, 0 + l)
    <3>1. 0 \in Nat /\ 0 + l <= Len(t) /\ 0 + l = l /\ 0 + 1 = 1
      BY <2>1, <2>3, <2>8
    <3>2. u \in Seq(Chars) /\ Len(u) = l /\ \A i \in 1..l : u[i] = t[0 + i]
      BY <2>1, <2>8, <3>1, PartIs
    <3>3. u = SubSeq(t, 1, l)
      BY <3>1
    <3> HIDE DEF u
    <3>4. ASSUME NEW i \in 1..l
          PROVE  u[i] = file[i]
      <4>1. 0 + i = i /\ i \in 1..m
        BY <2>1, <2>3, <2>8
      <4> QED BY <2>3, <2>8, <3>2, <4>1
    <3>5. Len(u) = Len(file) /\ \A i \in 1..Len(u) : u[i] = file[i]
      BY <3>2, <3>4 DEF l
    <3>6. u = file
      BY <2>1, <3>2, <3>5, SeqEqual
    <3> QED BY <3>3, <3>6
  <2> QED BY <2>7, <2>9, <2>10 DEF m, l
<1> QED BY <1>1, BaseAlways, FeedAlways, PTL
==============================================================================
