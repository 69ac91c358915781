-------------------------- MODULE ConfigdIpcProofs --------------------------
(***************************************************************************)
(* Theorems about ConfigdIpc: its types and the bounds of its arrays, that *)
(* no message is lost or duplicated, that a reply answers the request of   *)
(* the same call, that the shared memory holds the data of the call that   *)
(* uses it, and that what drop_unexist_pid_message() sends back fits.      *)
(* They hold for any set of clients, any queue and any number of calls,    *)
(* killed clients and reused tids.                                         *)
(***************************************************************************)
EXTENDS ConfigdIpc, WellFoundedInduction, SequenceTheorems, TLAPS

\* The sequence holds a message of tid c, and at most one of them.
Has(s, c) == \E m \in Range(s) : m.tid = c
Single(s, c) ==
  \A i, j \in 1..Len(s) : s[i].tid = c /\ s[j].tid = c => i = j

\* Sequence t is s without its element i.
Shrunk(t, s, i) ==
  /\ Len(t) = Len(s) - 1
  /\ \A j \in 1..Len(t) : t[j] = s[IF j < i THEN j ELSE j + 1]

-----------------------------------------------------------------------------
(* Sequences                                                               *)

\* The elements of a sequence.
LEMMA RangeIs ==
  ASSUME NEW S, NEW s \in Seq(S)
  PROVE  /\ Len(s) \in Nat
         /\ Range(s) = {s[i] : i \in 1..Len(s)} /\ Range(s) \subseteq S
         /\ \A i \in 1..Len(s) : s[i] \in Range(s)
         /\ \A m \in Range(s) : \E i \in 1..Len(s) : s[i] = m
         /\ Range(s) = {} <=> s = <<>>
         /\ Len(s) = 0 <=> s = <<>>
<1>1. DOMAIN s = 1..Len(s) /\ Len(s) \in Nat /\ \A i \in 1..Len(s) : s[i] \in S
  OBVIOUS
<1>2. Range(s) = {s[i] : i \in 1..Len(s)}
  BY <1>1 DEF Range
<1>3. Len(s) = 0 <=> s = <<>>
  OBVIOUS
<1>4. Range(s) = {} <=> Len(s) = 0
  <2>1. Len(s) # 0 => 1 \in 1..Len(s)
    BY <1>1
  <2>2. Len(s) = 0 => 1..Len(s) = {}
    OBVIOUS
  <2> QED BY <1>2, <2>1, <2>2
<1> QED BY <1>1, <1>2, <1>3, <1>4

\* An empty sequence, and one of a single message.
LEMMA RangeShort ==
  /\ Range(<<>>) = {}
  /\ \A S : \A e \in S : <<e>> \in Seq(S) /\ Len(<<e>>) = 1 /\ <<e>>[1] = e
                         /\ Range(<<e>>) = {e}
<1>1. Range(<<>>) = {}
  BY DEF Range
<1>2. ASSUME NEW S, NEW e \in S
      PROVE  <<e>> \in Seq(S) /\ Len(<<e>>) = 1 /\ <<e>>[1] = e
             /\ Range(<<e>>) = {e}
  <2>1. <<e>> \in Seq(S) /\ Len(<<e>>) = 1 /\ <<e>>[1] = e
    OBVIOUS
  <2>2. Range(<<e>>) = {<<e>>[i] : i \in 1..1}
    BY <2>1, RangeIs
  <2> QED BY <2>1, <2>2
<1> QED BY <1>1, <1>2

\* msgsnd() puts a message at the end.
LEMMA Appended ==
  ASSUME NEW S, NEW s \in Seq(S), NEW e \in S
  PROVE  LET t == Append(s, e) IN
         /\ t \in Seq(S) /\ Len(t) = Len(s) + 1 /\ Range(t) = Range(s) \cup {e}
         /\ \A c : Single(s, c) /\ (e.tid = c => ~Has(s, c)) => Single(t, c)
<1> DEFINE t == Append(s, e)
<1>1. /\ t \in Seq(S) /\ Len(t) = Len(s) + 1 /\ t[Len(s) + 1] = e
      /\ \A i \in 1..Len(s) : t[i] = s[i]
      /\ Len(s) \in Nat
  OBVIOUS
<1> HIDE DEF t
<1>2. Range(t) = Range(s) \cup {e}
  <2>1. Range(t) = {t[i] : i \in 1..(Len(s) + 1)} /\ Range(s) = {s[i] : i \in 1..Len(s)}
    BY <1>1, RangeIs
  <2>2. 1..(Len(s) + 1) = (1..Len(s)) \cup {Len(s) + 1}
    BY <1>1
  <2> QED BY <1>1, <2>1, <2>2
<1>3. ASSUME NEW c, Single(s, c), e.tid = c => ~Has(s, c)
      PROVE  Single(t, c)
  <2> SUFFICES ASSUME NEW i \in 1..Len(t), NEW j \in 1..Len(t),
                      t[i].tid = c, t[j].tid = c
               PROVE  i = j
    BY DEF Single
  <2>1. \A k \in 1..Len(t) : k \in 1..Len(s) \/ k = Len(s) + 1
    BY <1>1
  <2>2. \A k \in 1..Len(s) : s[k].tid = c => e.tid # c
    BY <1>3, RangeIs DEF Has
  <2> QED BY <1>1, <1>3, <2>1, <2>2 DEF Single
<1> QED BY <1>1, <1>2, <1>3 DEF t

\* Two sequences one after the other.
LEMMA Concatenated ==
  ASSUME NEW S, NEW s \in Seq(S), NEW w \in Seq(S)
  PROVE  LET t == s \o w IN
         /\ t \in Seq(S) /\ Len(t) = Len(s) + Len(w)
         /\ \A i \in 1..Len(s) : t[i] = s[i]
         /\ \A i \in 1..Len(w) : t[Len(s) + i] = w[i]
         /\ \A i \in 1..Len(t) : i \in 1..Len(s)
                                 \/ \E j \in 1..Len(w) : i = Len(s) + j
         /\ Range(t) = Range(s) \cup Range(w)
         /\ \A c : /\ Single(s, c) /\ Single(w, c) /\ ~(Has(s, c) /\ Has(w, c))
                   => Single(t, c)
<1> DEFINE t == s \o w
<1>0. Len(s) \in Nat /\ Len(w) \in Nat
  OBVIOUS
<1>1. /\ t \in Seq(S) /\ Len(t) = Len(s) + Len(w)
      /\ \A i \in 1..(Len(s) + Len(w)) :
           t[i] = IF i <= Len(s) THEN s[i] ELSE w[i - Len(s)]
  BY ConcatProperties
<1> HIDE DEF t
<1>2. /\ \A i \in 1..Len(s) : t[i] = s[i] /\ i \in 1..Len(t)
      /\ \A i \in 1..Len(w) : t[Len(s) + i] = w[i] /\ Len(s) + i \in 1..Len(t)
  BY <1>0, <1>1
<1>3. ASSUME NEW i \in 1..Len(t)
      PROVE  i \in 1..Len(s) \/ \E j \in 1..Len(w) : i = Len(s) + j
  <2>1. CASE i <= Len(s)
    BY <1>0, <1>1, <2>1
  <2>2. CASE ~(i <= Len(s))
    <3>1. i - Len(s) \in 1..Len(w) /\ i = Len(s) + (i - Len(s))
      BY <1>0, <1>1, <2>2
    <3> QED BY <3>1
  <2> QED BY <2>1, <2>2
<1>4. Range(t) = Range(s) \cup Range(w)
  <2>1. /\ Range(t) = {t[i] : i \in 1..Len(t)}
        /\ Range(s) = {s[i] : i \in 1..Len(s)}
        /\ Range(w) = {w[i] : i \in 1..Len(w)}
    BY <1>1, RangeIs
  <2>2. ASSUME NEW i \in 1..Len(t)
        PROVE  t[i] \in Range(s) \cup Range(w)
    <3>1. CASE i \in 1..Len(s)
      BY <1>2, <2>1, <3>1
    <3>2. CASE i \notin 1..Len(s)
      <4>1. PICK j \in 1..Len(w) : i = Len(s) + j
        BY <1>3, <3>2
      <4> QED BY <1>2, <2>1, <4>1
    <3> QED BY <3>1, <3>2
  <2>3. Range(s) \cup Range(w) \subseteq Range(t)
    BY <1>2, <2>1
  <2> QED BY <2>1, <2>2, <2>3
<1>5. ASSUME NEW c, Single(s, c), Single(w, c), ~(Has(s, c) /\ Has(w, c))
      PROVE  Single(t, c)
  <2> SUFFICES ASSUME NEW i \in 1..Len(t), NEW j \in 1..Len(t),
                      t[i].tid = c, t[j].tid = c
               PROVE  i = j
    BY DEF Single
  <2>1. \A a \in 1..Len(s), b \in 1..Len(w) : ~(s[a].tid = c /\ w[b].tid = c)
    BY <1>5, RangeIs DEF Has
  <2>2. CASE i \in 1..Len(s) /\ j \in 1..Len(s)
    BY <1>2, <1>5, <2>2 DEF Single
  <2>3. CASE i \notin 1..Len(s) /\ j \notin 1..Len(s)
    <3>1. PICK a \in 1..Len(w), b \in 1..Len(w) : i = Len(s) + a /\ j = Len(s) + b
      BY <1>3, <2>3
    <3>2. w[a].tid = c /\ w[b].tid = c
      BY <1>2, <3>1
    <3> QED BY <1>5, <3>1, <3>2 DEF Single
  <2>4. CASE i \in 1..Len(s) /\ j \notin 1..Len(s)
    <3>1. PICK b \in 1..Len(w) : j = Len(s) + b
      BY <1>3, <2>4
    <3>2. w[b].tid = c /\ s[i].tid = c
      BY <1>2, <2>4, <3>1
    <3> QED BY <2>1, <2>4, <3>2
  <2>5. CASE i \notin 1..Len(s) /\ j \in 1..Len(s)
    <3>1. PICK a \in 1..Len(w) : i = Len(s) + a
      BY <1>3, <2>5
    <3>2. w[a].tid = c /\ s[j].tid = c
      BY <1>2, <2>5, <3>1
    <3> QED BY <2>1, <2>5, <3>2
  <2> QED BY <2>2, <2>3, <2>4, <2>5
<1> QED BY <1>1, <1>2, <1>3, <1>4, <1>5 DEF t

\* msgrcv() takes one message out.
LEMMA Removed ==
  ASSUME NEW S, NEW s \in Seq(S), NEW t \in Seq(S), NEW i \in 1..Len(s),
         Shrunk(t, s, i)
  PROVE  /\ Range(t) \subseteq Range(s) /\ Range(s) \subseteq Range(t) \cup {s[i]}
         /\ \A c : Single(s, c) =>
              Single(t, c) /\ (s[i].tid = c => ~Has(t, c))
<1>0. Len(s) \in Nat /\ i \in Nat /\ Len(t) = Len(s) - 1
  BY DEF Shrunk
<1> DEFINE h(j) == IF j < i THEN j ELSE j + 1
<1>1. ASSUME NEW j \in 1..Len(t)
      PROVE  h(j) \in 1..Len(s) /\ h(j) # i /\ t[j] = s[h(j)]
  BY <1>0 DEF Shrunk
<1>2. ASSUME NEW j \in 1..Len(t), NEW k \in 1..Len(t), h(j) = h(k)
      PROVE  j = k
  BY <1>0, <1>2
<1>3. ASSUME NEW k \in 1..Len(s), k # i
      PROVE  \E j \in 1..Len(t) : h(j) = k
  <2>1. CASE k < i
    <3>1. k \in 1..Len(t) /\ h(k) = k
      BY <1>0, <2>1
    <3> QED BY <3>1
  <2>2. CASE ~(k < i)
    <3>1. k - 1 \in 1..Len(t) /\ h(k - 1) = k
      BY <1>0, <1>3, <2>2
    <3> QED BY <3>1
  <2> QED BY <2>1, <2>2
<1> HIDE DEF h
<1>4. /\ Range(t) = {t[j] : j \in 1..Len(t)}
      /\ Range(s) = {s[j] : j \in 1..Len(s)}
  BY RangeIs
<1>5. Range(t) \subseteq Range(s) /\ Range(s) \subseteq Range(t) \cup {s[i]}
  <2>1. Range(t) \subseteq Range(s)
    BY <1>1, <1>4
  <2>2. ASSUME NEW k \in 1..Len(s)
        PROVE  s[k] \in Range(t) \cup {s[i]}
    <3>1. CASE k # i
      <4>1. PICK j \in 1..Len(t) : h(j) = k
        BY <1>3, <3>1
      <4> QED BY <1>1, <1>4, <4>1
    <3> QED BY <3>1
  <2> QED BY <1>4, <2>1, <2>2
<1>6. ASSUME NEW c, Single(s, c)
      PROVE  Single(t, c) /\ (s[i].tid = c => ~Has(t, c))
  <2>1. Single(t, c)
    BY SMTT(20), <1>1, <1>2, <1>6 DEF Single
  <2>2. ASSUME s[i].tid = c, Has(t, c)
        PROVE  FALSE
    <3>1. PICK j \in 1..Len(t) : t[j].tid = c
      BY <1>4, <2>2 DEF Has
    <3> QED BY <1>1, <1>6, <2>2, <3>1 DEF Single
  <2> QED BY <2>1, <2>2
<1> QED BY <1>5, <1>6

\* The first message, and any other, are taken out.
LEMMA TakenOut ==
  ASSUME NEW S, NEW s \in Seq(S)
  PROVE  /\ s # <<>> => /\ Tail(s) \in Seq(S) /\ Shrunk(Tail(s), s, 1)
                        /\ 1 \in 1..Len(s) /\ Head(s) = s[1]
         /\ \A i \in 1..Len(s) : /\ RemoveAt(s, i) \in Seq(S)
                                 /\ Shrunk(RemoveAt(s, i), s, i)
<1>1. ASSUME s # <<>>
      PROVE  /\ Tail(s) \in Seq(S) /\ Shrunk(Tail(s), s, 1)
             /\ 1 \in 1..Len(s) /\ Head(s) = s[1]
  BY <1>1 DEF Shrunk
<1>2. ASSUME NEW i \in 1..Len(s)
      PROVE  RemoveAt(s, i) \in Seq(S) /\ Shrunk(RemoveAt(s, i), s, i)
  <2> DEFINE a == SubSeq(s, 1, i - 1)
             b == SubSeq(s, i + 1, Len(s))
             t == a \o b
  <2>0. Len(s) \in Nat /\ i \in Nat
    OBVIOUS
  <2>1. /\ a \in Seq(S) /\ Len(a) = i - 1
        /\ \A j \in 1..Len(a) : a[j] = s[j]
    BY SubSeqProperties
  <2>2. /\ b \in Seq(S) /\ Len(b) = Len(s) - i
        /\ \A j \in 1..Len(b) : b[j] = s[i + j]
    BY SubSeqProperties
  <2> HIDE DEF a, b
  <2>3. /\ t \in Seq(S) /\ Len(t) = Len(a) + Len(b)
        /\ \A j \in 1..(Len(a) + Len(b)) :
             t[j] = IF j <= Len(a) THEN a[j] ELSE b[j - Len(a)]
    BY <2>1, <2>2, ConcatProperties
  <2> HIDE DEF t
  <2>4. Len(t) = Len(s) - 1
    BY <2>0, <2>1, <2>2, <2>3
  <2>5. ASSUME NEW j \in 1..Len(t)
        PROVE  t[j] = s[IF j < i THEN j ELSE j + 1]
    <3>1. CASE j < i
      BY <2>0, <2>1, <2>2, <2>3, <3>1
    <3>2. CASE ~(j < i)
      <4>1. t[j] = b[j - (i - 1)] /\ j - (i - 1) \in 1..Len(b)
        BY <2>0, <2>1, <2>2, <2>3, <3>2
      <4>2. t[j] = s[i + (j - (i - 1))]
        BY <2>2, <4>1
      <4> QED BY <2>0, <3>2, <4>2
    <3> QED BY <3>1, <3>2
  <2>6. t = RemoveAt(s, i)
    BY DEF t, a, b, RemoveAt
  <2> QED BY <2>3, <2>4, <2>5, <2>6 DEF Shrunk
<1> QED BY <1>1, <1>2

-----------------------------------------------------------------------------
(* The loop that sends messages back.  What it computes is shown by taking *)
(* the least number of passes for which it would not.                      *)

\* A set of natural numbers has a least element.
LEMMA LeastNat ==
  ASSUME NEW T, T \subseteq Nat, T # {}
  PROVE  \E x \in T : \A y \in T : x <= y
<1> DEFINE R == {ss \in Nat \X Nat : ss[1] < ss[2]}
<1>1. IsWellFoundedOn(R, Nat)
  BY NatLessThanWellFounded DEF OpToRel
<1> HIDE DEF R
<1>2. PICK x \in T : \A y \in T : ~(<<y, x>> \in R)
  BY <1>1, WFMin
<1>3. ASSUME NEW y \in T
      PROVE  x <= y
  <2>1. x \in Nat /\ y \in Nat
    OBVIOUS
  <2>2. <<y, x>> \in Nat \X Nat /\ <<y, x>>[1] = y /\ <<y, x>>[2] = x
    BY <2>1
  <2>3. y < x => <<y, x>> \in R
    BY <2>2 DEF R
  <2> QED BY <1>2, <2>1, <2>3
<1> QED BY <1>3

\* A set that has 0, and k + 1 when it has k, has every natural number.
LEMMA AllNat ==
  ASSUME NEW P, 0 \in P, \A k \in Nat : k \in P => k + 1 \in P
  PROVE  Nat \subseteq P
<1> DEFINE T == Nat \ P
<1> SUFFICES ASSUME T # {}
             PROVE  FALSE
  OBVIOUS
<1>1. PICK x \in T : \A y \in T : x <= y
  <2>1. T \subseteq Nat
    OBVIOUS
  <2> HIDE DEF T
  <2> QED BY <2>1, LeastNat
<1>2. x \in Nat /\ x # 0
  OBVIOUS
<1>3. x - 1 \in Nat /\ ~(x <= x - 1) /\ (x - 1) + 1 = x
  BY <1>2
<1>4. x - 1 \in P
  BY <1>1, <1>3
<1> QED BY <1>3, <1>4

\* What the loop has kept after each of its first n passes.
Kept(s, D, n, f) ==
  f = [i \in 0..n |-> IF i = 0 THEN <<>>
                      ELSE IF s[i] \in D THEN f[i - 1]
                      ELSE Append(f[i - 1], s[i])]

\* The definition of the loop has a solution for any number of passes.
LEMMA KeptExists ==
  ASSUME NEW s, NEW D, NEW n \in Nat
  PROVE  \E f : Kept(s, D, n, f)
<1> DEFINE P == {k \in Nat : \E f : Kept(s, D, k, f)}
<1>1. 0 \in P
  <2> DEFINE f == [i \in 0..0 |-> <<>>]
  <2>1. Kept(s, D, 0, f)
    BY DEF Kept
  <2> QED BY <2>1
<1>2. ASSUME NEW k \in Nat, k \in P
      PROVE  k + 1 \in P
  <2>1. PICK f : Kept(s, D, k, f)
    BY <1>2
  <2> DEFINE g == [i \in 0..(k + 1) |->
                     IF i = k + 1
                       THEN IF s[i] \in D THEN f[k] ELSE Append(f[k], s[i])
                       ELSE f[i]]
             Next1(i) == IF i = 0 THEN <<>>
                         ELSE IF s[i] \in D THEN g[i - 1]
                         ELSE Append(g[i - 1], s[i])
  <2>2. \A i \in 0..k : f[i] = IF i = 0 THEN <<>>
                               ELSE IF s[i] \in D THEN f[i - 1]
                               ELSE Append(f[i - 1], s[i])
    BY <2>1 DEF Kept
  <2>3. /\ \A i \in 0..k : g[i] = f[i]
        /\ g[k + 1] = IF s[k + 1] \in D THEN g[k] ELSE Append(g[k], s[k + 1])
        /\ g = [i \in 0..(k + 1) |-> g[i]]
    OBVIOUS
  <2> HIDE DEF g
  <2>4. ASSUME NEW i \in 0..(k + 1)
        PROVE  g[i] = Next1(i)
    <3>1. CASE i = k + 1
      BY <2>3, <3>1
    <3>2. CASE i # k + 1 /\ i # 0
      <4>1. i \in 0..k /\ i - 1 \in 0..k
        BY <3>2
      <4> QED BY <2>2, <2>3, <3>2, <4>1
    <3>3. CASE i = 0
      BY SMTT(20), <2>2, <2>3, <3>3
    <3> QED BY <3>1, <3>2, <3>3
  <2>5. Kept(s, D, k + 1, g)
    BY <2>3, <2>4 DEF Kept
  <2> QED BY <2>5
<1> HIDE DEF P
<1>3. Nat \subseteq P
  BY <1>1, <1>2, AllNat
<1> QED BY <1>3 DEF P

\* What is sent back is what is not dropped: nothing else, nothing twice, and
\* less than there was when the first message is dropped.
LEMMA WithoutIs ==
  ASSUME NEW S, NEW s \in Seq(S), NEW D
  PROVE  LET w == Without(s, D) IN
         /\ w \in Seq(S) /\ Len(w) <= Len(s)
         /\ s # <<>> /\ s[1] \in D => Len(w) < Len(s)
         /\ Range(w) = Range(s) \ D
         /\ \A c : Single(s, c) => Single(w, c)
<1> DEFINE n == Len(s)
           f == CHOOSE g : Kept(s, D, n, g)
<1>0. n \in Nat /\ \A i \in 1..n : s[i] \in S
  OBVIOUS
<1>1. Kept(s, D, n, f)
  BY <1>0, KeptExists
<1>2. Without(s, D) = f[n]
  BY DEF Without, Kept
<1> HIDE DEF f
<1>3. \A i \in 0..n : f[i] = IF i = 0 THEN <<>>
                             ELSE IF s[i] \in D THEN f[i - 1]
                             ELSE Append(f[i - 1], s[i])
  BY <1>1 DEF Kept
<1> DEFINE Good(i) == /\ f[i] \in Seq(S) /\ Len(f[i]) <= i
                      /\ i > 0 /\ s[1] \in D => Len(f[i]) < i
                      /\ Range(f[i]) = {s[k] : k \in 1..i} \ D
                      /\ \A c : Single(s, c) => Single(f[i], c)
           P == {i \in Nat : i <= n => Good(i)}
<1>4. 0 \in P
  <2>0. 0 \in 0..n /\ 1..0 = {} /\ ~(0 > 0)
    BY <1>0
  <2>1. f[0] = <<>>
    BY <1>3, <2>0
  <2>2. Range(f[0]) = {}
    BY <2>1, RangeShort
  <2>3. \A c : Single(f[0], c)
    BY <2>1 DEF Single
  <2>4. f[0] \in Seq(S) /\ Len(f[0]) <= 0
    BY <2>1
  <2>5. Range(f[0]) = {s[k] : k \in 1..0} \ D
    BY <2>0, <2>2
  <2>6. Good(0)
    BY <2>0, <2>3, <2>4, <2>5
  <2> QED BY <2>6
<1>5. ASSUME NEW i \in Nat, i \in P
      PROVE  i + 1 \in P
  <2> SUFFICES ASSUME i + 1 <= n
               PROVE  Good(i + 1)
    OBVIOUS
  <2>1. Good(i) /\ i + 1 \in 1..n /\ i + 1 \in 0..n /\ (i + 1) - 1 = i
    BY <1>0, <1>5
  <2> DEFINE e == s[i + 1]
  <2>2. e \in S /\ f[i] \in Seq(S) /\ Len(f[i]) \in Nat
    BY <1>0, <2>1
  <2>3. f[i + 1] = IF e \in D THEN f[i] ELSE Append(f[i], e)
    BY <1>3, <2>1
  <2>4. {s[k] : k \in 1..(i + 1)} = {s[k] : k \in 1..i} \cup {e}
    <3>1. 1..(i + 1) = (1..i) \cup {i + 1}
      OBVIOUS
    <3> QED BY <3>1
  <2>5. CASE e \in D
    <3>1. f[i + 1] = f[i]
      BY <2>3, <2>5
    <3>2. Len(f[i + 1]) <= i + 1 /\ Len(f[i + 1]) < i + 1
      BY <2>1, <2>2, <3>1
    <3> HIDE DEF e
    <3> QED BY <2>1, <2>4, <2>5, <3>1, <3>2
  <2>6. CASE e \notin D
    <3>1. f[i + 1] = Append(f[i], e)
      BY <2>3, <2>6
    <3> HIDE DEF e
    <3>2. /\ f[i + 1] \in Seq(S) /\ Len(f[i + 1]) = Len(f[i]) + 1
          /\ Range(f[i + 1]) = Range(f[i]) \cup {e}
          /\ \A c : Single(f[i], c) /\ (e.tid = c => ~Has(f[i], c))
                   => Single(f[i + 1], c)
      BY <2>2, <3>1, Appended
    <3>3. Len(f[i + 1]) <= i + 1
      BY <2>1, <2>2, <3>2
    <3>4. ASSUME s[1] \in D
          PROVE  Len(f[i + 1]) < i + 1
      <4>1. i # 0
        BY <2>6, <3>4 DEF e
      <4>2. Len(f[i]) < i
        BY <2>1, <3>4, <4>1
      <4> QED BY <2>2, <3>2, <4>2
    <3>5. Range(f[i + 1]) = {s[k] : k \in 1..(i + 1)} \ D
      BY <2>1, <2>4, <2>6, <3>2
    <3>6. ASSUME NEW c, Single(s, c), e.tid = c, Has(f[i], c)
          PROVE  FALSE
      <4>1. PICK k \in 1..i : s[k].tid = c
        BY <2>1, <3>6 DEF Has
      <4>2. k \in 1..n /\ k # i + 1
        BY <1>0, <2>1
      <4> QED BY <2>1, <3>6, <4>1, <4>2 DEF Single, e
    <3> QED BY <2>1, <3>2, <3>3, <3>4, <3>5, <3>6
  <2> QED BY <2>5, <2>6
<1> HIDE DEF P
<1>6. Nat \subseteq P
  BY <1>4, <1>5, AllNat
<1>7. Good(n)
  BY <1>0, <1>6 DEF P
<1>8. Range(s) = {s[k] : k \in 1..n}
  BY RangeIs
<1>9. s # <<>> => n > 0
  BY <1>0, RangeIs
<1> QED BY <1>2, <1>7, <1>8, <1>9

-----------------------------------------------------------------------------
(* Types and the places of the queues                                      *)

Preparing == {"flock", "put", "send"}
Busy == Preparing \cup {"wait", "fetch", "return"}

\* TypeOK, with the queues as sequences of messages.
Types ==
  /\ cpc \in [Clients -> ClientPcs]
  /\ cmd \in [Clients -> Cmds \cup {"none"}]
  /\ calls \in [Clients -> 0..MaxCalls]
  /\ tgid \in [Clients -> 1..MaxKills + 1]
  /\ got \in [Clients -> SUBSET CallIds]
  /\ kills \in 0..MaxKills
  /\ spc \in ServerPcs
  /\ cur \in Seq(Messages)
  /\ Len(cur) = IF spc \in {"init", "recv", "gone"} THEN 0 ELSE 1
  /\ tmp \in Seq(Messages) /\ Len(tmp) <= QueueCap
  /\ count \in 0..QueueCap
  /\ qsnd \in Seq(Messages) /\ qrcv \in Seq(Messages)
  /\ Len(qsnd) <= QueueCap /\ Len(qrcv) <= QueueCap
  /\ shm \subseteq CallIds /\ dropped \subseteq CallIds
  /\ holder \subseteq Clients /\ stale \subseteq Clients
  /\ isDropQueue \in BOOLEAN /\ queues \in BOOLEAN
  /\ pidfile \in BOOLEAN /\ unsafe \in BOOLEAN

\* A client inside a call has one; only one that has read a reply keeps what
\* it got; a tid was given to a new process at most once for every kill.
Control ==
  /\ \A c \in Clients :
       /\ cpc[c] \in Busy => cmd[c] \in Cmds /\ calls[c] > 0
       /\ cpc[c] \notin {"fetch", "return"} => got[c] = {}
       /\ tgid[c] <= kills + (IF Alive(c) THEN 1 ELSE 0)
  /\ spc # "drain" => tmp = <<>>

\* While configd empties the queue of replies nobody fills it: what it has
\* taken out and what it still expects fits in the queue, and leaves a place
\* as soon as one message was dropped.
Draining ==
  spc = "drain" => /\ Len(qrcv) <= count /\ Len(tmp) + count <= QueueCap
                   /\ isDropQueue => Len(tmp) + count < QueueCap

Base == Types /\ Control /\ Draining

\* Lengths are numbers.
LEMMA Lengths ==
  ASSUME Types
  PROVE  /\ Len(qsnd) \in Nat /\ Len(cur) \in Nat
         /\ Len(qrcv) \in Nat /\ Len(tmp) \in Nat /\ QueueCap \in Nat
         /\ QueueCap > 0
BY IpcAssumption DEF Types

\* What drop_unexist_pid_message() sends back is a part of what it took out,
\* without the owner of the first message or of one it found gone.
LEMMA SendingBack ==
  ASSUME Base, spc = "drain", count = 0
  PROVE  /\ qrcv = <<>> /\ SentBack \in Seq(Messages)
         /\ Len(SentBack) \in Nat /\ Len(SentBack) < QueueCap
         /\ Range(SentBack) = IF isDropQueue THEN Range(tmp)
                              ELSE Range(tmp) \ Longest
         /\ \A c : Single(tmp, c) => Single(SentBack, c)
<1>1. /\ Len(qrcv) <= 0 /\ Len(tmp) <= QueueCap
      /\ isDropQueue => Len(tmp) < QueueCap
      /\ tmp \in Seq(Messages) /\ qrcv \in Seq(Messages)
      /\ Len(qrcv) \in Nat /\ Len(tmp) \in Nat /\ QueueCap \in Nat
      /\ QueueCap > 0
  BY Lengths DEF Base, Types, Draining
<1>2. qrcv = <<>>
  BY <1>1
<1>3. CASE isDropQueue
  BY <1>1, <1>2, <1>3 DEF SentBack
<1>4. CASE ~isDropQueue
  <2> DEFINE w == Without(tmp, Longest)
  <2>1. SentBack = w
    BY <1>4 DEF SentBack
  <2>2. /\ w \in Seq(Messages) /\ Len(w) <= Len(tmp)
        /\ tmp # <<>> /\ tmp[1] \in Longest => Len(w) < Len(tmp)
        /\ Range(w) = Range(tmp) \ Longest
        /\ \A c : Single(tmp, c) => Single(w, c)
    BY <1>1, WithoutIs
  <2> HIDE DEF w
  <2>3. Len(w) \in Nat
    BY <2>2
  <2>4. Len(w) < QueueCap
    <3>1. CASE tmp = <<>>
      BY <1>1, <2>2, <2>3, <3>1
    <3>2. CASE tmp # <<>>
      <4>1. 1 \in 1..Len(tmp)
        BY <1>1, <3>2
      <4>2. tmp[1] \in Longest
        BY <1>1, <4>1, RangeIs DEF Longest
      <4> QED BY <1>1, <2>2, <2>3, <3>2, <4>2
    <3> QED BY <3>1, <3>2
  <2> QED BY <1>2, <1>4, <2>1, <2>2, <2>3, <2>4
<1> QED BY <1>3, <1>4

\* The types of the initial state.
LEMMA BaseInit == Init => Base
<1> SUFFICES ASSUME Init
             PROVE  Base
  OBVIOUS
<1> USE IpcAssumption DEF Init
<1>1. Types
  <2>1. cpc \in [Clients -> ClientPcs] /\ spc \in ServerPcs
    BY DEF ClientPcs, ServerPcs
  <2>2. /\ cmd \in [Clients -> Cmds \cup {"none"}]
        /\ calls \in [Clients -> 0..MaxCalls]
        /\ tgid \in [Clients -> 1..MaxKills + 1]
        /\ got \in [Clients -> SUBSET CallIds]
    OBVIOUS
  <2>3. pidfile \in BOOLEAN
    OBVIOUS
  <2>4. <<>> \in Seq(Messages) /\ Len(<<>>) = 0
    OBVIOUS
  <2>5. Len(cur) = IF spc \in {"init", "recv", "gone"} THEN 0 ELSE 1
    BY <2>4
  <2>6. 0 <= QueueCap /\ 0 \in 0..QueueCap /\ 0 \in 0..MaxKills
    OBVIOUS
  <2> QED BY <2>1, <2>2, <2>3, <2>4, <2>5, <2>6 DEF Types
<1>2. Control
  BY DEF Control, Busy, Preparing, Alive
<1>3. Draining
  BY DEF Draining
<1> QED BY <1>1, <1>2, <1>3 DEF Base

\* A message that is answered or stamped stays a message of the same call.
LEMMA Stamped ==
  ASSUME NEW m \in Messages
  PROVE  /\ \A st \in {"SUCC", "FAIL"} :
              LET n == [m EXCEPT !.status = st] IN
              /\ n \in Messages /\ n.tid = m.tid /\ n.tgid = m.tgid
              /\ n.cmd = m.cmd /\ n.call = m.call /\ n.status = st
         /\ LET n == [m EXCEPT !.tgid = 0] IN
            /\ n \in Messages /\ n.tid = m.tid /\ n.tgid = 0
            /\ n.cmd = m.cmd /\ n.call = m.call /\ n.status = m.status
BY IpcAssumption DEF Messages

\* The caller and the call of a message.
LEMMA Fields ==
  \A m \in Messages : m.tid \in Clients /\ m.call \in CallIds /\ m.cmd \in Cmds
BY DEF Messages

\* The reply a client reads is one of the queue, and is for its tid.
LEMMA ReplyTaken ==
  ASSUME Types, NEW c \in Clients, RepliesFor(c) # {}
  PROVE  LET i == CHOOSE i \in RepliesFor(c) :
                    \A j \in RepliesFor(c) : i <= j
             t == RemoveAt(qrcv, i)
         IN  /\ i \in 1..Len(qrcv) /\ qrcv[i].tid = c
             /\ qrcv[i] \in Messages /\ qrcv[i] \in Range(qrcv)
             /\ t \in Seq(Messages) /\ Len(t) = Len(qrcv) - 1
             /\ Range(t) \subseteq Range(qrcv)
             /\ Range(qrcv) \subseteq Range(t) \cup {qrcv[i]}
             /\ \A d : Single(qrcv, d) =>
                  Single(t, d) /\ (qrcv[i].tid = d => ~Has(t, d))
<1> DEFINE i == CHOOSE i \in RepliesFor(c) : \A j \in RepliesFor(c) : i <= j
           t == RemoveAt(qrcv, i)
<1>1. qrcv \in Seq(Messages) /\ DOMAIN qrcv = 1..Len(qrcv)
  BY DEF Types
<1>2. RepliesFor(c) \subseteq Nat
  BY <1>1 DEF RepliesFor
<1>3. \E x \in RepliesFor(c) : \A y \in RepliesFor(c) : x <= y
  BY <1>2, LeastNat
<1>4. i \in RepliesFor(c)
  BY <1>3
<1> HIDE DEF i
<1>5. i \in 1..Len(qrcv) /\ qrcv[i].tid = c
  BY <1>1, <1>4 DEF RepliesFor
<1>6. qrcv[i] \in Messages /\ qrcv[i] \in Range(qrcv)
  BY <1>1, <1>5, RangeIs
<1>7. t \in Seq(Messages) /\ Shrunk(t, qrcv, i)
  BY <1>1, <1>5, TakenOut
<1> HIDE DEF t
<1>8. /\ Range(t) \subseteq Range(qrcv)
      /\ Range(qrcv) \subseteq Range(t) \cup {qrcv[i]}
      /\ \A d : Single(qrcv, d) =>
           Single(t, d) /\ (qrcv[i].tid = d => ~Has(t, d))
  BY <1>1, <1>5, <1>7, Removed
<1> QED BY <1>5, <1>6, <1>7, <1>8 DEF Shrunk, i, t

\* The first message of a queue is taken out.
LEMMA HeadTaken ==
  ASSUME NEW s \in Seq(Messages), s # <<>>
  PROVE  LET m == Head(s)
             t == Tail(s)
         IN  /\ m \in Messages /\ m \in Range(s)
             /\ t \in Seq(Messages) /\ Len(t) = Len(s) - 1
             /\ Range(t) \subseteq Range(s) /\ Range(s) = Range(t) \cup {m}
             /\ \A d : Single(s, d) => Single(t, d) /\ (m.tid = d => ~Has(t, d))
<1> DEFINE t == Tail(s)
<1>1. t \in Seq(Messages) /\ Shrunk(t, s, 1) /\ 1 \in 1..Len(s) /\ Head(s) = s[1]
  BY TakenOut
<1> HIDE DEF t
<1>2. s[1] \in Messages /\ s[1] \in Range(s)
  BY <1>1, RangeIs
<1>3. /\ Range(t) \subseteq Range(s) /\ Range(s) \subseteq Range(t) \cup {s[1]}
      /\ \A d : Single(s, d) => Single(t, d) /\ (s[1].tid = d => ~Has(t, d))
  BY <1>1, Removed
<1>4. Range(s) = Range(t) \cup {s[1]}
  BY <1>2, <1>3
<1> QED BY <1>1, <1>2, <1>3, <1>4 DEF Shrunk, t

\* The message configd works on.
LEMMA InHand ==
  ASSUME Types, spc \notin {"init", "recv", "gone"}
  PROVE  cur[1] \in Messages /\ Range(cur) = {cur[1]}
<1>1. cur \in Seq(Messages) /\ Len(cur) = 1
  BY DEF Types
<1>2. Range(cur) = {cur[i] : i \in 1..1}
  BY <1>1, RangeIs
<1> QED BY <1>1, <1>2

\* Every step keeps the types.
LEMMA BaseNext == Base /\ [Next]_vars => Base'
<1> SUFFICES ASSUME Base, [Next]_vars
             PROVE  Base'
  OBVIOUS
<1> USE IpcAssumption
<1>0. Types /\ Control /\ Draining
  BY DEF Base
<1>l. /\ Len(qsnd) \in Nat /\ Len(cur) \in Nat
      /\ Len(qrcv) \in Nat /\ Len(tmp) \in Nat
  BY <1>0, Lengths
<1>e. <<>> \in Seq(Messages) /\ Len(<<>>) = 0
  OBVIOUS
<1>1. ASSUME NEW c \in Clients, Start(c)
      PROVE  Base'
  <2> USE <1>0, <1>l, <1>1 DEF Start, serverVars, Base
  <2>1. Types'
    BY DEF Types, ClientPcs
  <2>2. Control'
    BY DEF Types, Control, Alive, Busy, Preparing
  <2> QED BY <2>1, <2>2 DEF Draining
<1>2. ASSUME NEW c \in Clients, LockShm(c)
      PROVE  Base'
  <2> USE <1>0, <1>l, <1>2 DEF LockShm, serverVars, Base
  <2>1. Types'
    BY DEF Types, ClientPcs
  <2>2. Control'
    BY DEF Types, Control, Alive, Busy, Preparing
  <2> QED BY <2>1, <2>2 DEF Draining
<1>3. ASSUME NEW c \in Clients, PutShm(c)
      PROVE  Base'
  <2> USE <1>0, <1>l, <1>3 DEF PutShm, serverVars, Base
  <2>0. Call(c) \in CallIds
    BY DEF Types, Control, Call, CallIds, Busy, Preparing
  <2>1. Types'
    BY <2>0 DEF Types, ClientPcs
  <2>2. Control'
    BY DEF Types, Control, Alive, Busy, Preparing
  <2> QED BY <2>1, <2>2 DEF Draining
<1>4. ASSUME NEW c \in Clients, SendCmd(c)
      PROVE  Base'
  <2> USE <1>0, <1>l, <1>4 DEF SendCmd, serverVars, Base
  <2> DEFINE m == [tid |-> c, tgid |-> tgid[c], cmd |-> cmd[c],
                   call |-> Call(c), status |-> "request"]
  <2>0. m \in Messages
    BY DEF Types, Control, Call, CallIds, Busy, Preparing, Messages
  <2>1. qsnd' \in Seq(Messages) /\ Len(qsnd') <= QueueCap
    <3>1. CASE qsnd' = Append(qsnd, m) /\ Len(qsnd) < QueueCap
      <4> HIDE DEF m
      <4> QED BY ONLY <2>0, <3>1, <1>0, <1>l, IpcAssumption DEF Types
    <3> QED BY <3>1 DEF Types
  <2> HIDE DEF m
  <2>2. Types'
    BY <2>1 DEF Types, ClientPcs
  <2>3. Control'
    BY DEF Types, Control, Alive, Busy, Preparing
  <2> QED BY <2>2, <2>3 DEF Draining
<1>5. ASSUME NEW c \in Clients, ReadReply(c)
      PROVE  Base'
  <2>1. CASE RepliesFor(c) # {} /\ \E i \in 1..Len(qrcv) :
                /\ qrcv' = RemoveAt(qrcv, i)
                /\ got' = [got EXCEPT ![c] = {qrcv[i].call}]
                /\ cpc' = [cpc EXCEPT ![c] =
                             IF qrcv[i].status = "SUCC" /\ cmd[c] = "get"
                               THEN "fetch" ELSE "return"]
    <3> USE <1>0, <1>l, <1>5 DEF serverVars, Base
    <3>u. UNCHANGED <<cmd, calls, tgid, kills, serverVars, queues, qsnd, shm,
                      holder, pidfile, dropped, unsafe, stale>>
      BY DEF ReadReply
    <3>1. PICK i \in 1..Len(qrcv) :
                /\ qrcv' = RemoveAt(qrcv, i)
                /\ got' = [got EXCEPT ![c] = {qrcv[i].call}]
                /\ cpc' = [cpc EXCEPT ![c] =
                             IF qrcv[i].status = "SUCC" /\ cmd[c] = "get"
                               THEN "fetch" ELSE "return"]
      BY <2>1
    <3>2. PICK to \in {"fetch", "return"} : cpc' = [cpc EXCEPT ![c] = to]
      BY <3>1
    <3>3. qrcv \in Seq(Messages)
      BY DEF Types
    <3>4. qrcv' \in Seq(Messages) /\ Len(qrcv') = Len(qrcv) - 1
      BY <3>1, <3>3, TakenOut DEF Shrunk
    <3>5. qrcv[i].call \in CallIds
      <4>1. qrcv[i] \in Messages
        BY <3>3, RangeIs
      <4> QED BY <4>1, Fields
    <3>6. Types'
      <4>1. got' \in [Clients -> SUBSET CallIds]
        BY <3>1, <3>5 DEF Types
      <4>2. cpc' \in [Clients -> ClientPcs]
        BY <3>2 DEF Types, ClientPcs
      <4>3. Len(qrcv') <= QueueCap
        BY <3>4 DEF Types
      <4> QED BY ONLY <1>0, <3>u, <3>4, <4>1, <4>2, <4>3 DEF Types, serverVars
    <3>7. cpc[c] = "wait"
      BY DEF ReadReply
    <3>8. Control'
      BY <3>u, <3>1, <3>2, <3>7 DEF Types, Control, Alive, Busy, Preparing
    <3>9. Draining'
      BY <3>u, <3>4 DEF Draining, Types
    <3> QED BY <3>6, <3>8, <3>9
  <2>2. CASE ~queues /\ cpc' = [cpc EXCEPT ![c] = "return"]
             /\ UNCHANGED <<qrcv, got>>
    <3> USE <1>0, <1>l, <1>5, <2>2 DEF ReadReply, serverVars, Base
    <3>1. Types'
      BY DEF Types, ClientPcs
    <3>2. Control'
      BY DEF Types, Control, Alive, Busy, Preparing
    <3> QED BY <3>1, <3>2 DEF Draining
  <2>3. RepliesFor(c) # {} => 
          (CHOOSE i \in RepliesFor(c) : \A j \in RepliesFor(c) : i <= j)
             \in 1..Len(qrcv)
    BY <1>0, ReplyTaken
  <2> QED BY <1>5, <2>1, <2>2, <2>3 DEF ReadReply
<1>6. ASSUME NEW c \in Clients, FetchShm(c)
      PROVE  Base'
  <2> USE <1>0, <1>l, <1>6 DEF FetchShm, serverVars, Base
  <2>1. Types'
    BY DEF Types, ClientPcs
  <2>2. Control'
    BY DEF Types, Control, Alive, Busy, Preparing
  <2> QED BY <2>1, <2>2 DEF Draining
<1>7. ASSUME NEW c \in Clients, Return(c)
      PROVE  Base'
  <2> USE <1>0, <1>l, <1>7 DEF Return, serverVars, Base
  <2>1. Types'
    BY DEF Types, ClientPcs
  <2>2. Control'
    BY DEF Types, Control, Alive, Busy, Preparing
  <2> QED BY <2>1, <2>2 DEF Draining
<1>8. ASSUME NEW c \in Clients, Kill(c)
      PROVE  Base'
  <2> USE <1>0, <1>l, <1>8 DEF Kill, serverVars, Base
  <2>1. Types'
    BY DEF Types, ClientPcs
  <2>2. Control'
    BY DEF Types, Control, Alive, Busy, Preparing
  <2> QED BY <2>1, <2>2 DEF Draining
<1>9. ASSUME NEW c \in Clients, Reuse(c)
      PROVE  Base'
  <2> USE <1>0, <1>l, <1>9 DEF Reuse, serverVars, Base
  <2>1. Types'
    BY DEF Types, ClientPcs, Control, Alive
  <2>2. Control'
    BY SMTT(20) DEF Types, Control, Alive, Busy, Preparing
  <2> QED BY <2>1, <2>2 DEF Draining
<1>10. ASSUME LogPid
       PROVE  Base'
  BY <1>0, <1>10 DEF LogPid, clientVars, Base, Types, Control, Draining, Alive,
                     ServerPcs
<1>11. ASSUME Recv
       PROVE  Base'
  <2>1. qsnd # <<>> /\ qsnd \in Seq(Messages)
    BY <1>0, <1>11 DEF Recv, Types
  <2>2. /\ Head(qsnd) \in Messages
        /\ qsnd' \in Seq(Messages) /\ Len(qsnd') = Len(qsnd) - 1
    BY <1>11, <2>1, HeadTaken DEF Recv
  <2>3. cur' \in Seq(Messages) /\ Len(cur') = 1
    BY <1>11, <2>2, RangeShort DEF Recv
  <2> QED BY <1>0, <1>l, <1>11, <2>2, <2>3 DEF Recv, clientVars, dropVars,
                                               Base,
             Types, Control, Draining, Alive, ServerPcs
<1>12. ASSUME Process
       PROVE  Base'
  <2>1. cur[1] \in Messages
    BY <1>0, <1>12, InHand DEF Process
  <2>2. PICK st \in {"SUCC", "FAIL"} :
          /\ cur' = <<[cur[1] EXCEPT !.status = st]>>
          /\ shm' = IF st = "SUCC" /\ cur[1].cmd = "get"
                      THEN {cur[1].call} ELSE shm
    BY <1>12 DEF Process
  <2>3. cur' \in Seq(Messages) /\ Len(cur') = 1
    BY <2>1, <2>2, Stamped, RangeShort
  <2>4. shm' \subseteq CallIds
    BY <1>0, <2>1, <2>2, Fields DEF Types
  <2> QED BY <1>0, <1>12, <2>3, <2>4 DEF Process, clientVars, dropVars, Base,
             Types, Control, Draining, Alive, ServerPcs
<1>13. ASSUME Check
       PROVE  Base'
  <2>1. cur[1] \in Messages
    BY <1>0, <1>13, InHand DEF Check
  <2>2. \/ spc' = "send" /\ cur' = <<[cur[1] EXCEPT !.tgid = 0]>>
        \/ spc' = "recv" /\ cur' = <<>>
    BY <1>13 DEF Check
  <2>3. cur' \in Seq(Messages) /\ Len(cur') = IF spc' = "send" THEN 1 ELSE 0
    <3>1. [cur[1] EXCEPT !.tgid = 0] \in Messages
      BY <2>1, Stamped
    <3>2. CASE spc' = "send" /\ cur' = <<[cur[1] EXCEPT !.tgid = 0]>>
      BY <3>1, <3>2, RangeShort
    <3>3. CASE spc' = "recv" /\ cur' = <<>>
      BY <1>e, <3>3
    <3> QED BY <2>2, <3>2, <3>3
  <2>4. UNCHANGED <<clientVars, dropVars, queues, qsnd, qrcv, shm, holder,
                    pidfile, dropped, unsafe, stale>> /\ spc = "check"
    BY <1>13 DEF Check
  <2> QED BY <1>0, <2>2, <2>3, <2>4 DEF clientVars, dropVars, Base,
             Types, Control, Draining, Alive, ServerPcs
<1>14. ASSUME Send
       PROVE  Base'
  <2>1. cur[1] \in Messages /\ qrcv \in Seq(Messages)
    BY <1>0, <1>14, InHand DEF Send, Types
  <2>2. qrcv' \in Seq(Messages) /\ Len(qrcv') = Len(qrcv) + 1
    BY <1>14, <2>1, Appended DEF Send
  <2>3. Len(qrcv') <= QueueCap
    BY <1>l, <1>14, <2>2 DEF Send, RcvHasRoom
  <2> QED BY <1>0, <1>e, <1>14, <2>2, <2>3 DEF Send, clientVars, dropVars,
                                               Base,
             Types, Control, Draining, Alive, ServerPcs
<1>15. ASSUME DropStat
       PROVE  Base'
  <2> USE <1>0, <1>l, <1>e, <1>15 DEF DropStat, clientVars
  <2>1. count' \in 0..QueueCap /\ Len(tmp') = 0
    BY DEF Types
  <2>2. Types'
    <3>1. isDropQueue' \in BOOLEAN /\ tmp' \in Seq(Messages)
      BY Zenon
    <3>2. Len(tmp') <= QueueCap /\ spc' \in ServerPcs
      BY <2>1 DEF ServerPcs
    <3>3. UNCHANGED <<clientVars, cur, queues, qsnd, qrcv, shm, holder,
                      pidfile, dropped, unsafe, stale>> /\ spc = "send"
          /\ spc' = "drain"
      OBVIOUS
    <3> QED BY ONLY <1>0, <2>1, <3>1, <3>2, <3>3 DEF Types, clientVars
  <2>3. Control'
    BY DEF Control, Alive
  <2>4. Draining'
    BY <2>1 DEF Draining, Types
  <2> QED BY <2>2, <2>3, <2>4 DEF Base
<1>16. ASSUME Drain
       PROVE  Base'
  <2>1. qrcv # <<>> /\ qrcv \in Seq(Messages) /\ tmp \in Seq(Messages)
    BY <1>0, <1>16 DEF Drain, Types
  <2>2. /\ Head(qrcv) \in Messages
        /\ qrcv' \in Seq(Messages) /\ Len(qrcv') = Len(qrcv) - 1
    BY <1>16, <2>1, HeadTaken DEF Drain
  <2>3. \/ tmp' = Append(tmp, Head(qrcv)) /\ UNCHANGED <<dropped, isDropQueue>>
        \/ /\ dropped' = dropped \cup {Head(qrcv).call}
           /\ isDropQueue' = TRUE /\ tmp' = tmp
    BY <1>16 DEF Drain
  <2>4. /\ UNCHANGED <<clientVars, spc, cur, queues, qsnd, shm, holder, pidfile,
                        unsafe, stale>>
        /\ spc = "drain" /\ count > 0 /\ count' = count - 1
    BY <1>16 DEF Drain
  <2>5. /\ tmp' \in Seq(Messages)
        /\ Len(tmp') = Len(tmp) + (IF tmp' = tmp THEN 0 ELSE 1)
    <3>1. CASE tmp' = tmp
      BY <1>l, <2>1, <3>1
    <3>2. CASE tmp' = Append(tmp, Head(qrcv))
      <4>1. tmp' \in Seq(Messages) /\ Len(tmp') = Len(tmp) + 1
        BY <2>1, <2>2, <3>2, Appended
      <4>2. tmp' # tmp
        BY <1>l, <4>1
      <4> QED BY <4>1, <4>2
    <3> QED BY <2>3, <3>1, <3>2
  <2>6. /\ dropped' \subseteq CallIds /\ isDropQueue' \in BOOLEAN
        /\ isDropQueue' => isDropQueue \/ tmp' = tmp
    <3>1. isDropQueue \in BOOLEAN /\ dropped \subseteq CallIds
          /\ Head(qrcv).call \in CallIds
      BY <1>0, <2>2, Fields DEF Types
    <3>2. CASE UNCHANGED <<dropped, isDropQueue>>
      BY Zenon, <3>1, <3>2
    <3>3. CASE /\ dropped' = dropped \cup {Head(qrcv).call}
               /\ isDropQueue' = TRUE /\ tmp' = tmp
      BY Zenon, <3>1, <3>3
    <3> QED BY <2>3, <3>2, <3>3
  <2>7. count' \in 0..QueueCap /\ Draining' /\ Len(tmp') <= QueueCap
    <3>1. /\ Len(qrcv) <= count /\ Len(tmp) + count <= QueueCap
          /\ isDropQueue => Len(tmp) + count < QueueCap
          /\ count \in Nat /\ count <= QueueCap
      BY <1>0, <2>4 DEF Draining, Types
    <3>2. /\ Len(qrcv') <= count' /\ Len(tmp') + count' <= QueueCap
          /\ count' \in 0..QueueCap /\ Len(tmp') <= QueueCap
      BY <1>l, <2>2, <2>4, <2>5, <3>1
    <3>3. isDropQueue' => Len(tmp') + count' < QueueCap
      BY <1>l, <2>4, <2>5, <2>6, <3>1
    <3> QED BY <3>2, <3>3 DEF Draining
  <2>8. Types'
    BY <1>0, <1>l, <2>2, <2>4, <2>5, <2>6, <2>7 DEF Types, clientVars
  <2>9. Control'
    BY <1>0, <2>4 DEF Control, clientVars, Alive
  <2> QED BY <2>7, <2>8, <2>9 DEF Base
<1>17. ASSUME DropSendBack
       PROVE  Base'
  <2>1. /\ qrcv = <<>> /\ SentBack \in Seq(Messages)
        /\ Len(SentBack) \in Nat /\ Len(SentBack) < QueueCap
    BY <1>17, SendingBack DEF DropSendBack
  <2>2. qrcv' = SentBack
    BY <1>17, <2>1 DEF DropSendBack
  <2>3. {m.call : m \in Range(tmp) \ Range(SentBack)} \subseteq CallIds
    <3>1. Range(tmp) \subseteq Messages
      BY <1>0, RangeIs DEF Types
    <3> QED BY <3>1, Fields
  <2>4. dropped' \subseteq CallIds
    BY <1>0, <1>17, <2>3 DEF DropSendBack, Types
  <2>5. qrcv' \in Seq(Messages) /\ Len(qrcv') <= QueueCap
    BY <2>1, <2>2
  <2>6. /\ UNCHANGED <<clientVars, cur, count, isDropQueue, queues, qsnd, shm,
                        holder, pidfile, unsafe, stale>>
        /\ spc = "drain" /\ spc' = "send" /\ tmp' = <<>>
    BY <1>17 DEF DropSendBack
  <2> QED BY <1>0, <1>e, <2>4, <2>5, <2>6 DEF Base, Types, Control, Draining,
             Alive, ServerPcs, clientVars
<1>18. ASSUME Term
       PROVE  Base'
  <2> USE <1>0, <1>e, <1>18 DEF Term, clientVars
  <2>1. Types'
    <3>1. Len(qsnd') = 0 /\ Len(qrcv') = 0 /\ Len(tmp') = 0 /\ Len(cur') = 0
      OBVIOUS
    <3>2. isDropQueue' \in BOOLEAN /\ queues' \in BOOLEAN
      BY Zenon
    <3>3. /\ tmp' \in Seq(Messages) /\ qsnd' \in Seq(Messages)
          /\ qrcv' \in Seq(Messages) /\ cur' \in Seq(Messages)
      BY Zenon
    <3>4. UNCHANGED <<clientVars, shm, holder, pidfile, dropped, unsafe, stale>>
          /\ spc' = "gone" /\ count' = 0
      OBVIOUS
    <3> QED BY ONLY <1>0, <3>1, <3>2, <3>3, <3>4, IpcAssumption
            DEF Types, ServerPcs, clientVars
  <2>2. Control'
    BY DEF Control, Alive
  <2> QED BY <2>1, <2>2 DEF Base, Draining
<1>19. ASSUME UNCHANGED vars
       PROVE  Base'
  BY <1>0, <1>19 DEF vars, Base, Types, Control, Draining, Alive
<1> QED BY <1>1, <1>2, <1>3, <1>4, <1>5, <1>6, <1>7, <1>8, <1>9, <1>10, <1>11,
           <1>12, <1>13, <1>14, <1>15, <1>16, <1>17, <1>18, <1>19
        DEF Next, Server, Client

-----------------------------------------------------------------------------
(* What the steps do to the messages under way                             *)

\* SendCmd: the request of the call goes to the end of the queue.
LEMMA Sent ==
  ASSUME Base, NEW c \in Clients, SendCmd(c)
  PROVE  \/ /\ queues /\ cpc' = [cpc EXCEPT ![c] = "wait"]
            /\ \E m \in Messages :
                 /\ m.tid = c /\ m.tgid = tgid[c] /\ m.cmd = cmd[c]
                 /\ m.call = Call(c) /\ m.status = "request"
                 /\ Range(qsnd') = Range(qsnd) \cup {m}
                 /\ \A d : Single(qsnd, d) /\ (c = d => ~Has(qsnd, d))
                          => Single(qsnd', d)
         \/ cpc' = [cpc EXCEPT ![c] = "return"] /\ qsnd' = qsnd
<1> DEFINE m == [tid |-> c, tgid |-> tgid[c], cmd |-> cmd[c],
                 call |-> Call(c), status |-> "request"]
<1>1. CASE queues /\ qsnd' = Append(qsnd, m) /\ cpc' = [cpc EXCEPT ![c] = "wait"]
  <2>1. m \in Messages
    BY IpcAssumption DEF Base, Types, Control, Call, CallIds, Busy, Preparing,
                         Messages, SendCmd
  <2>2. /\ m.tid = c /\ m.tgid = tgid[c] /\ m.cmd = cmd[c]
        /\ m.call = Call(c) /\ m.status = "request"
    OBVIOUS
  <2> HIDE DEF m
  <2>3. qsnd \in Seq(Messages)
    BY DEF Base, Types
  <2>4. /\ Range(qsnd') = Range(qsnd) \cup {m}
        /\ \A d : Single(qsnd, d) /\ (m.tid = d => ~Has(qsnd, d))
                 => Single(qsnd', d)
    BY <1>1, <2>1, <2>3, Appended
  <2> QED BY <1>1, <2>1, <2>2, <2>4
<1> QED BY <1>1 DEF SendCmd

\* ReadReply: a reply for the client's tid leaves the queue.
LEMMA Read ==
  ASSUME Base, NEW c \in Clients, ReadReply(c)
  PROVE  \/ \E m \in Range(qrcv) :
              /\ m \in Messages /\ m.tid = c
              /\ got' = [got EXCEPT ![c] = {m.call}]
              /\ cpc' = [cpc EXCEPT ![c] =
                           IF m.status = "SUCC" /\ cmd[c] = "get"
                             THEN "fetch" ELSE "return"]
              /\ Range(qrcv') \subseteq Range(qrcv)
              /\ Range(qrcv) \subseteq Range(qrcv') \cup {m}
              /\ \A d : Single(qrcv, d) =>
                   Single(qrcv', d) /\ (m.tid = d => ~Has(qrcv', d))
         \/ /\ ~queues /\ cpc' = [cpc EXCEPT ![c] = "return"]
            /\ qrcv' = qrcv /\ got' = got
<1> DEFINE i == CHOOSE i \in RepliesFor(c) : \A j \in RepliesFor(c) : i <= j
<1>1. CASE RepliesFor(c) # {} /\ qrcv' = RemoveAt(qrcv, i)
           /\ got' = [got EXCEPT ![c] = {qrcv[i].call}]
           /\ cpc' = [cpc EXCEPT ![c] =
                        IF qrcv[i].status = "SUCC" /\ cmd[c] = "get"
                          THEN "fetch" ELSE "return"]
  <2>1. /\ qrcv[i].tid = c /\ qrcv[i] \in Messages /\ qrcv[i] \in Range(qrcv)
        /\ Range(qrcv') \subseteq Range(qrcv)
        /\ Range(qrcv) \subseteq Range(qrcv') \cup {qrcv[i]}
        /\ \A d : Single(qrcv, d) =>
             Single(qrcv', d) /\ (qrcv[i].tid = d => ~Has(qrcv', d))
    BY <1>1, ReplyTaken DEF Base
  <2> HIDE DEF i
  <2> QED BY <1>1, <2>1
<1> QED BY <1>1 DEF ReadReply

\* Recv: the oldest request goes from the queue into configd's hand.
LEMMA Received ==
  ASSUME Base, Recv
  PROVE  \E m \in Messages :
           /\ Range(qsnd) = Range(qsnd') \cup {m}
           /\ Range(cur) = {} /\ Range(cur') = {m} /\ cur'[1] = m
           /\ \A d : Single(qsnd, d) =>
                Single(qsnd', d) /\ (m.tid = d => ~Has(qsnd', d))
<1> DEFINE m == Head(qsnd)
<1>1. qsnd # <<>> /\ qsnd \in Seq(Messages)
  BY DEF Recv, Base, Types
<1>2. /\ m \in Messages /\ Range(qsnd) = Range(qsnd') \cup {m}
      /\ \A d : Single(qsnd, d) =>
           Single(qsnd', d) /\ (m.tid = d => ~Has(qsnd', d))
  BY <1>1, HeadTaken DEF Recv
<1>3. cur' = <<m>>
  BY DEF Recv
<1> HIDE DEF m
<1>4. Range(cur') = {m} /\ cur'[1] = m
  BY <1>2, <1>3, RangeShort
<1>5. Range(cur) = {}
  <2>1. cur \in Seq(Messages) /\ Len(cur) = 0
    BY DEF Base, Types, Recv
  <2> QED BY <2>1, RangeIs
<1> QED BY <1>2, <1>4, <1>5

\* Process: the request in hand becomes its reply.
LEMMA Processed ==
  ASSUME Base, Process
  PROVE  \E n \in Messages, st \in {"SUCC", "FAIL"} :
           LET m == cur[1] IN
           /\ m \in Messages /\ Range(cur) = {m} /\ Range(cur') = {n}
           /\ n.tid = m.tid /\ n.tgid = m.tgid /\ n.cmd = m.cmd
           /\ n.call = m.call /\ n.status = st
           /\ shm' = IF st = "SUCC" /\ m.cmd = "get" THEN {m.call} ELSE shm
<1> DEFINE m == cur[1]
<1>1. m \in Messages /\ Range(cur) = {m}
  BY InHand DEF Process, Base
<1>2. PICK st \in {"SUCC", "FAIL"} :
        /\ cur' = <<[m EXCEPT !.status = st]>>
        /\ shm' = IF st = "SUCC" /\ m.cmd = "get" THEN {m.call} ELSE shm
  BY DEF Process
<1> HIDE DEF m
<1> DEFINE n == [m EXCEPT !.status = st]
<1>3. /\ n \in Messages /\ n.tid = m.tid /\ n.tgid = m.tgid
      /\ n.cmd = m.cmd /\ n.call = m.call /\ n.status = st
  BY <1>1, Stamped
<1>4. cur' = <<n>>
  BY <1>2
<1> HIDE DEF n
<1>5. Range(cur') = {n}
  BY <1>3, <1>4, RangeShort
<1> QED BY <1>1, <1>2, <1>3, <1>5 DEF m

\* Check: the reply gets thread group 0, or is thrown away because its
\* owner is gone.
LEMMA Checked ==
  ASSUME Base, Check
  PROVE  \E m \in Messages :
           /\ Range(cur) = {m}
           /\ \/ /\ Range(cur') = {} /\ ~CheckPidExist(m)
              \/ \E n \in Messages :
                   /\ Range(cur') = {n} /\ n.tid = m.tid /\ n.tgid = 0
                   /\ n.cmd = m.cmd /\ n.call = m.call /\ n.status = m.status
<1> DEFINE m == cur[1]
<1>1. m \in Messages /\ Range(cur) = {m}
  BY InHand DEF Check, Base
<1>2. \/ ~CheckPidExist(m) /\ cur' = <<>>
      \/ cur' = <<[m EXCEPT !.tgid = 0]>>
  BY DEF Check
<1> HIDE DEF m
<1> DEFINE n == [m EXCEPT !.tgid = 0]
<1>3. /\ n \in Messages /\ n.tid = m.tid /\ n.tgid = 0
      /\ n.cmd = m.cmd /\ n.call = m.call /\ n.status = m.status
  BY <1>1, Stamped
<1>4. (~CheckPidExist(m) /\ cur' = <<>>) \/ cur' = <<n>>
  BY <1>2
<1> HIDE DEF n
<1>5. CASE ~CheckPidExist(m) /\ cur' = <<>>
  BY <1>1, <1>5, RangeShort
<1>6. CASE cur' = <<n>>
  <2>1. Range(cur') = {n}
    BY <1>3, <1>6, RangeShort
  <2> QED BY <1>1, <1>3, <2>1
<1> QED BY <1>4, <1>5, <1>6

\* Send: the reply goes to the end of the queue.
LEMMA Replied ==
  ASSUME Base, Send
  PROVE  \E m \in Messages :
           /\ Range(cur) = {m} /\ Range(cur') = {}
           /\ Range(qrcv') = Range(qrcv) \cup {m}
           /\ \A d : Single(qrcv, d) /\ (m.tid = d => ~Has(qrcv, d))
                    => Single(qrcv', d)
<1> DEFINE m == cur[1]
<1>1. m \in Messages /\ Range(cur) = {m} /\ qrcv \in Seq(Messages)
  BY InHand DEF Send, Base, Types
<1>2. cur' = <<>> /\ qrcv' = Append(qrcv, m)
  BY DEF Send
<1> HIDE DEF m
<1>3. /\ Range(qrcv') = Range(qrcv) \cup {m}
      /\ \A d : Single(qrcv, d) /\ (m.tid = d => ~Has(qrcv, d))
               => Single(qrcv', d)
  BY <1>1, <1>2, Appended
<1>4. Range(cur') = {}
  BY <1>2, RangeShort
<1> QED BY <1>1, <1>3, <1>4

\* Drain: the oldest reply is set aside, or dropped because its owner is
\* gone.
LEMMA Drained ==
  ASSUME Base, Drain
  PROVE  \E m \in Messages :
           /\ Range(qrcv) = Range(qrcv') \cup {m}
           /\ \A d : Single(qrcv, d) =>
                Single(qrcv', d) /\ (m.tid = d => ~Has(qrcv', d))
           /\ \/ /\ Range(tmp') = Range(tmp) \cup {m} /\ dropped' = dropped
                 /\ \A d : Single(tmp, d) /\ (m.tid = d => ~Has(tmp, d))
                          => Single(tmp', d)
              \/ /\ tmp' = tmp /\ ~CheckPidExist(m)
                 /\ dropped' = dropped \cup {m.call}
<1> DEFINE m == Head(qrcv)
<1>1. qrcv # <<>> /\ qrcv \in Seq(Messages) /\ tmp \in Seq(Messages)
  BY DEF Drain, Base, Types
<1>2. /\ m \in Messages /\ Range(qrcv) = Range(qrcv') \cup {m}
      /\ \A d : Single(qrcv, d) =>
           Single(qrcv', d) /\ (m.tid = d => ~Has(qrcv', d))
  BY <1>1, HeadTaken DEF Drain
<1>3. \/ tmp' = Append(tmp, m) /\ dropped' = dropped
      \/ tmp' = tmp /\ ~CheckPidExist(m) /\ dropped' = dropped \cup {m.call}
  BY DEF Drain
<1> HIDE DEF m
<1>4. CASE tmp' = Append(tmp, m) /\ dropped' = dropped
  <2>1. /\ Range(tmp') = Range(tmp) \cup {m}
        /\ \A d : Single(tmp, d) /\ (m.tid = d => ~Has(tmp, d))
                 => Single(tmp', d)
    BY <1>1, <1>2, <1>4, Appended
  <2> QED BY <1>2, <1>4, <2>1
<1> QED BY <1>2, <1>3, <1>4

\* DropSendBack: what is not sent back counts as dropped.
LEMMA Restored ==
  ASSUME Base, DropSendBack
  PROVE  /\ Range(qrcv) = {} /\ Range(tmp') = {}
         /\ Range(qrcv') \subseteq Range(tmp)
         /\ dropped' = dropped \cup {m.call : m \in Range(tmp) \ Range(qrcv')}
         /\ \A d : Single(tmp, d) => Single(qrcv', d)
         /\ \A d : Single(tmp', d)
<1>1. /\ qrcv = <<>> /\ SentBack \in Seq(Messages)
      /\ Range(SentBack) = IF isDropQueue THEN Range(tmp)
                           ELSE Range(tmp) \ Longest
      /\ \A c : Single(tmp, c) => Single(SentBack, c)
  BY SendingBack DEF DropSendBack
<1>2. /\ qrcv' = SentBack /\ tmp' = <<>>
      /\ dropped' = dropped \cup {m.call : m \in Range(tmp) \ Range(SentBack)}
  BY <1>1 DEF DropSendBack
<1>3. Range(qrcv) = {} /\ Range(tmp') = {}
  BY <1>1, <1>2, RangeShort
<1>4. \A d : Single(tmp', d)
  BY <1>2 DEF Single
<1> QED BY <1>1, <1>2, <1>3, <1>4

\* Outside drop_unexist_pid_message() nothing is set aside, and its start
\* moves no message.
LEMMA NothingSetAside ==
  ASSUME Base, DropStat
  PROVE  tmp' = tmp
BY DEF Base, Control, DropStat

-----------------------------------------------------------------------------
(* Every message belongs to a call that was made                           *)

UnderWay == Range(qsnd) \cup Range(cur) \cup Range(qrcv) \cup Range(tmp)

\* Call d was made: its number is not above that of its tid's last call, and
\* is below it while that one has not sent its request.
Made(d) ==
  d[2] <= calls[d[1]] /\ (cpc[d[1]] \in Preparing => d[2] < calls[d[1]])

\* Messages are of calls that were made by their tid, and so are the replies
\* thrown away.  Hence a call whose request is not sent yet has no message
\* under way and is not dropped.
Numbers ==
  /\ \A m \in UnderWay : m.call[1] = m.tid /\ Made(m.call)
  /\ \A d \in dropped : Made(d)

\* Messages under way are messages.
LEMMA UnderWayTypes ==
  ASSUME Base
  PROVE  /\ UnderWay \subseteq Messages
         /\ \A m \in UnderWay : m.call \in CallIds /\ m.tid \in Clients
<1>1. UnderWay \subseteq Messages
  BY RangeIs DEF Base, Types, UnderWay
<1> QED BY <1>1, Fields

\* A call that was made stays made.
LEMMA MadeStays ==
  ASSUME Base, [Next]_vars, NEW d \in CallIds, Made(d)
  PROVE  Made(d)'
<1>0. /\ d[1] \in Clients /\ d[2] \in Nat
      /\ calls \in [Clients -> 0..MaxCalls] /\ cpc \in [Clients -> ClientPcs]
      /\ MaxCalls \in Nat
  BY IpcAssumption DEF CallIds, Base, Types
<1>1. CASE UNCHANGED <<cpc, calls>>
  BY <1>1 DEF Made
<1>2. ASSUME NEW c \in Clients, calls' = calls,
             NEW to \in ClientPcs, cpc' = [cpc EXCEPT ![c] = to],
             to \in Preparing => cpc[c] \in Preparing
      PROVE  Made(d)'
  BY <1>0, <1>2 DEF Made
<1>3. ASSUME NEW c \in Clients, Start(c)
      PROVE  Made(d)'
  <2>1. calls' = [calls EXCEPT ![c] = @ + 1]
    BY <1>3 DEF Start
  <2>2. \A x \in Clients : x # c => cpc'[x] = cpc[x]
    BY <1>0, <1>3 DEF Start
  <2>3. CASE d[1] = c
    BY <1>0, <2>1, <2>3 DEF Made
  <2>4. CASE d[1] # c
    BY <1>0, <2>1, <2>2, <2>4 DEF Made
  <2> QED BY <2>3, <2>4
<1>4. ASSUME NEW c \in Clients, LockShm(c)
      PROVE  Made(d)'
  <2>1. PICK to \in {"put", "send"} : cpc' = [cpc EXCEPT ![c] = to]
    BY <1>4 DEF LockShm
  <2> QED BY <1>2, <1>4, <2>1 DEF LockShm, Preparing, ClientPcs
<1>5. ASSUME NEW c \in Clients, PutShm(c)
      PROVE  Made(d)'
  <2>1. PICK to \in {"return", "send"} : cpc' = [cpc EXCEPT ![c] = to]
    BY <1>5 DEF PutShm
  <2> QED BY <1>2, <1>5, <2>1 DEF PutShm, Preparing, ClientPcs
<1>6. ASSUME NEW c \in Clients, SendCmd(c)
      PROVE  Made(d)'
  <2>1. PICK to \in {"return", "wait"} : cpc' = [cpc EXCEPT ![c] = to]
    BY <1>6 DEF SendCmd
  <2> QED BY <1>2, <1>6, <2>1 DEF SendCmd, Preparing, ClientPcs
<1>7. ASSUME NEW c \in Clients, ReadReply(c)
      PROVE  Made(d)'
  <2>1. PICK to \in {"return", "fetch"} : cpc' = [cpc EXCEPT ![c] = to]
    BY <1>7, Read
  <2>2. calls' = calls
    BY <1>7 DEF ReadReply
  <2> QED BY <1>2, <2>1, <2>2 DEF Preparing, ClientPcs
<1>8. ASSUME NEW c \in Clients, FetchShm(c) \/ Return(c) \/ Kill(c) \/ Reuse(c)
      PROVE  Made(d)'
  <2>1. PICK to \in {"return", "idle", "dead"} : cpc' = [cpc EXCEPT ![c] = to]
    BY <1>8 DEF FetchShm, Return, Kill, Reuse
  <2>2. calls' = calls
    BY <1>8 DEF FetchShm, Return, Kill, Reuse
  <2> QED BY <1>2, <2>1, <2>2 DEF Preparing, ClientPcs
<1>9. ASSUME Server \/ Term \/ UNCHANGED vars
      PROVE  UNCHANGED <<cpc, calls>>
  BY <1>9 DEF Server, LogPid, Recv, Process, Check, Send, DropStat, Drain,
              DropSendBack, Term, clientVars, vars
<1> QED BY <1>1, <1>3, <1>4, <1>5, <1>6, <1>7, <1>8, <1>9 DEF Next, Client

\* A message under way after a step was so before, or is the request that the
\* step sends; what is dropped was under way.
LEMMA Moved ==
  ASSUME Base, [Next]_vars
  PROVE  /\ \A n \in UnderWay' :
              \/ \E m \in UnderWay : n.tid = m.tid /\ n.call = m.call
              \/ \E c \in Clients : SendCmd(c) /\ cpc'[c] = "wait"
                                   /\ n.tid = c /\ n.call = Call(c)
         /\ \A d \in dropped' : d \in dropped
                                 \/ \E m \in UnderWay : d = m.call
<1> USE DEF UnderWay
<1>0. cpc \in [Clients -> ClientPcs]
  BY DEF Base, Types
<1>1. ASSUME UNCHANGED <<qsnd, cur, qrcv, tmp, dropped>>
      PROVE  UnderWay' = UnderWay /\ dropped' = dropped
  BY <1>1
<1>2. ASSUME NEW c \in Clients,
             Start(c) \/ LockShm(c) \/ PutShm(c) \/ FetchShm(c) \/ Return(c)
             \/ Kill(c) \/ Reuse(c)
      PROVE  UNCHANGED <<qsnd, cur, qrcv, tmp, dropped>>
  BY <1>2 DEF Start, LockShm, PutShm, FetchShm, Return, Kill, Reuse, serverVars
<1>3. ASSUME NEW c \in Clients, SendCmd(c)
      PROVE  /\ dropped' = dropped
             /\ \A n \in UnderWay' :
                  \/ n \in UnderWay
                  \/ cpc'[c] = "wait" /\ n.tid = c /\ n.call = Call(c)
  <2>1. UNCHANGED <<cur, qrcv, tmp, dropped>>
    BY <1>3 DEF SendCmd, serverVars
  <2>2. CASE cpc' = [cpc EXCEPT ![c] = "wait"] /\ \E m \in Messages :
               /\ m.tid = c /\ m.call = Call(c)
               /\ Range(qsnd') = Range(qsnd) \cup {m}
    <3>1. cpc'[c] = "wait"
      BY <1>0, <2>2
    <3> QED BY <2>1, <2>2, <3>1
  <2>3. CASE qsnd' = qsnd
    BY <2>1, <2>3
  <2> QED BY <1>3, <2>2, <2>3, Sent
<1>4. ASSUME NEW c \in Clients, ReadReply(c)
      PROVE  dropped' = dropped /\ UnderWay' \subseteq UnderWay
  <2>1. UNCHANGED <<qsnd, cur, tmp, dropped>>
    BY <1>4 DEF ReadReply, serverVars
  <2> QED BY <1>4, <2>1, Read
<1>5. ASSUME Recv
      PROVE  dropped' = dropped /\ UnderWay' \subseteq UnderWay
  <2>1. UNCHANGED <<qrcv, tmp, dropped>>
    BY <1>5 DEF Recv, dropVars
  <2> QED BY <1>5, <2>1, Received
<1>6. ASSUME Process \/ Check
      PROVE  /\ dropped' = dropped
             /\ \A n \in UnderWay' :
                  \E m \in UnderWay : n.tid = m.tid /\ n.call = m.call
  <2>1. UNCHANGED <<qsnd, qrcv, tmp, dropped>>
    BY <1>6 DEF Process, Check, dropVars
  <2>2. \A n \in Range(cur') : \E m \in Range(cur) :
          n.tid = m.tid /\ n.call = m.call
    <3>1. CASE Process
      BY <3>1, Processed
    <3>2. CASE Check
      BY <3>2, Checked
    <3> QED BY <1>6, <3>1, <3>2
  <2> QED BY <2>1, <2>2
<1>7. ASSUME Send
      PROVE  dropped' = dropped /\ UnderWay' \subseteq UnderWay
  <2>1. UNCHANGED <<qsnd, tmp, dropped>>
    BY <1>7 DEF Send, dropVars
  <2> QED BY <1>7, <2>1, Replied
<1>8. ASSUME DropStat \/ LogPid \/ UNCHANGED vars
      PROVE  UNCHANGED <<qsnd, cur, qrcv, tmp, dropped>>
  BY <1>8, NothingSetAside DEF DropStat, LogPid, vars
<1>9. ASSUME Drain
      PROVE  /\ UnderWay' \subseteq UnderWay
             /\ \A d \in dropped' : d \in dropped
                                     \/ \E m \in UnderWay : d = m.call
  <2>1. UNCHANGED <<qsnd, cur>>
    BY <1>9 DEF Drain
  <2> QED BY <1>9, <2>1, Drained
<1>10. ASSUME DropSendBack
       PROVE  /\ UnderWay' \subseteq UnderWay
              /\ \A d \in dropped' : d \in dropped
                                      \/ \E m \in UnderWay : d = m.call
  <2>1. UNCHANGED <<qsnd, cur>>
    BY <1>10 DEF DropSendBack
  <2> QED BY <1>10, <2>1, Restored
<1>11. ASSUME Term
       PROVE  dropped' = dropped /\ UnderWay' \subseteq UnderWay
  BY <1>11, RangeShort DEF Term
<1> HIDE DEF UnderWay
<1> QED BY <1>1, <1>2, <1>3, <1>4, <1>5, <1>6, <1>7, <1>8, <1>9, <1>10, <1>11
        DEF Next, Server, Client

\* So Numbers stays true.
LEMMA NumbersNext == Base /\ Numbers /\ [Next]_vars => Numbers'
<1> SUFFICES ASSUME Base, Numbers, [Next]_vars
             PROVE  Numbers'
  OBVIOUS
<1>1. ASSUME NEW n \in UnderWay'
      PROVE  n.call[1] = n.tid /\ Made(n.call)'
  <2>1. CASE \E m \in UnderWay : n.tid = m.tid /\ n.call = m.call
    <3>1. PICK m \in UnderWay : n.tid = m.tid /\ n.call = m.call
      BY <2>1
    <3>2. m.call[1] = m.tid /\ Made(m.call) /\ m.call \in CallIds
      BY UnderWayTypes DEF Numbers
    <3>3. Made(m.call)'
      BY <3>2, MadeStays
    <3> QED BY <3>1, <3>2, <3>3 DEF Made
  <2>2. CASE \E c \in Clients : SendCmd(c) /\ cpc'[c] = "wait"
                                /\ n.tid = c /\ n.call = Call(c)
    <3>1. PICK c \in Clients : SendCmd(c) /\ cpc'[c] = "wait"
                                /\ n.tid = c /\ n.call = Call(c)
      BY <2>2
    <3>2. calls' = calls /\ calls[c] \in Nat
      BY <3>1, IpcAssumption DEF SendCmd, Base, Types
    <3> QED BY <3>1, <3>2 DEF Made, Call, Preparing
  <2> QED BY <2>1, <2>2, Moved
<1>2. ASSUME NEW d \in dropped'
      PROVE  Made(d)'
  <2>1. Made(d) /\ d \in CallIds
    BY Moved, UnderWayTypes DEF Numbers, Base, Types
  <2> QED BY <2>1, MadeStays
<1> QED BY <1>1, <1>2 DEF Numbers

-----------------------------------------------------------------------------
(* No message is lost or duplicated                                        *)

\* Messages of tid c are of its present call and of its present process.
Mine(s, c) ==
  \A m \in Range(s) :
    m.tid = c => m.call = Call(c) /\ m.tgid \in {0, tgid[c]}

Under(c) == Has(qsnd, c) \/ Has(cur, c) \/ Has(qrcv, c) \/ Has(tmp, c)

\* The tid has at most one message, in one place; it has one exactly while
\* the client waits for its reply and that was not thrown away.
Once(c) ==
  /\ Single(qsnd, c) /\ Single(qrcv, c) /\ Single(tmp, c)
  /\ Has(qsnd, c) => ~Has(cur, c) /\ ~Has(qrcv, c) /\ ~Has(tmp, c)
  /\ Has(cur, c) => ~Has(qrcv, c) /\ ~Has(tmp, c)
  /\ Has(qrcv, c) => ~Has(tmp, c)
  /\ Under(c) <=> cpc[c] = "wait" /\ queues /\ Call(c) \notin dropped
  /\ Mine(qsnd, c) /\ Mine(cur, c) /\ Mine(qrcv, c) /\ Mine(tmp, c)

OnceInv == \A c \in Clients \ stale : Alive(c) => Once(c)

\* No two messages of a tid are in a sequence that has at most one.
LEMMA SingleIs ==
  ASSUME NEW S, NEW s \in Seq(S), NEW c, Single(s, c)
  PROVE  \A m, n \in Range(s) : m.tid = c /\ n.tid = c => m = n
<1> SUFFICES ASSUME NEW m \in Range(s), NEW n \in Range(s),
                    m.tid = c, n.tid = c
             PROVE  m = n
  OBVIOUS
<1>1. PICK i \in 1..Len(s), j \in 1..Len(s) : s[i] = m /\ s[j] = n
  BY RangeIs
<1> QED BY <1>1 DEF Single

\* All messages in one sequence: it has as many of a tid as the four places
\* together.
LEMMA InFlightIs ==
  ASSUME Base, NEW c \in Clients
  PROVE  /\ InFlight \in Seq(Messages) /\ Range(InFlight) = UnderWay
         /\ OfTid(c) = {i \in 1..Len(InFlight) : InFlight[i].tid = c}
         /\ OfTid(c) = {} <=> ~Under(c)
         /\ Once(c) => Single(InFlight, c)
<1>1. /\ qsnd \in Seq(Messages) /\ cur \in Seq(Messages)
      /\ qrcv \in Seq(Messages) /\ tmp \in Seq(Messages)
  BY DEF Base, Types
<1> DEFINE a == qsnd \o cur
           b == a \o qrcv
<1>2. /\ a \in Seq(Messages) /\ Range(a) = Range(qsnd) \cup Range(cur)
      /\ Single(qsnd, c) /\ Single(cur, c) /\ ~(Has(qsnd, c) /\ Has(cur, c))
         => Single(a, c)
  BY <1>1, Concatenated
<1> HIDE DEF a
<1>3. /\ b \in Seq(Messages) /\ Range(b) = Range(a) \cup Range(qrcv)
      /\ Single(a, c) /\ Single(qrcv, c) /\ ~(Has(a, c) /\ Has(qrcv, c))
         => Single(b, c)
  BY <1>1, <1>2, Concatenated
<1> HIDE DEF b
<1>4. InFlight = b \o tmp
  BY DEF InFlight, a, b
<1>5. /\ InFlight \in Seq(Messages)
      /\ Range(InFlight) = Range(b) \cup Range(tmp)
      /\ Single(b, c) /\ Single(tmp, c) /\ ~(Has(b, c) /\ Has(tmp, c))
         => Single(InFlight, c)
  BY <1>1, <1>3, <1>4, Concatenated
<1>6. Range(InFlight) = UnderWay
  BY <1>2, <1>3, <1>5 DEF UnderWay
<1>7. OfTid(c) = {i \in 1..Len(InFlight) : InFlight[i].tid = c}
  BY <1>5 DEF OfTid
<1>8. OfTid(c) = {} <=> ~\E m \in UnderWay : m.tid = c
  BY SMTT(20), <1>5, <1>6, <1>7, RangeIs
<1>9. Under(c) <=> \E m \in UnderWay : m.tid = c
  BY DEF Under, UnderWay, Has
<1>10. Single(cur, c)
  <2>1. Len(cur) \in {0, 1}
    BY DEF Base, Types
  <2> QED BY <2>1 DEF Single
<1>11. ASSUME Once(c)
       PROVE  Single(InFlight, c)
  <2>1. Has(a, c) <=> Has(qsnd, c) \/ Has(cur, c)
    BY <1>2 DEF Has
  <2>2. Has(b, c) <=> Has(a, c) \/ Has(qrcv, c)
    BY <1>3 DEF Has
  <2> QED BY <1>2, <1>3, <1>5, <1>10, <1>11, <2>1, <2>2 DEF Once
<1> QED BY <1>5, <1>6, <1>7, <1>8, <1>9, <1>11

\* A step that moves no message and leaves client c where it is.
LEMMA OnceFrame ==
  ASSUME NEW c \in Clients, Once(c), UNCHANGED <<qsnd, cur, qrcv, tmp, queues>>,
         calls'[c] = calls[c], tgid'[c] = tgid[c],
         cpc'[c] = "wait" <=> cpc[c] = "wait",
         Call(c)' \in dropped' <=> Call(c) \in dropped
  PROVE  Once(c)'
BY DEF Once, Under, Mine, Has, Single, Call

\* A client without a message that does not wait.
LEMMA OnceNone ==
  ASSUME Base, NEW c \in Clients, ~Under(c), UNCHANGED <<qsnd, cur, qrcv, tmp>>,
         cpc'[c] # "wait"
  PROVE  Once(c)'
<1>1. ~Has(qsnd, c) /\ ~Has(cur, c) /\ ~Has(qrcv, c) /\ ~Has(tmp, c)
  BY DEF Under
<1>2. Single(qsnd, c) /\ Single(qrcv, c) /\ Single(tmp, c)
  BY <1>1, RangeIs DEF Single, Has, Base, Types
<1> QED BY <1>1, <1>2 DEF Once, Under, Mine, Has, Single

\* Every step keeps it.
LEMMA OnceNext == Base /\ Numbers /\ OnceInv /\ [Next]_vars => OnceInv'
<1> SUFFICES ASSUME Base, Numbers, OnceInv, [Next]_vars,
                    NEW d \in Clients, d \notin stale', Alive(d)'
             PROVE  Once(d)'
  BY DEF OnceInv
<1>0. /\ cpc \in [Clients -> ClientPcs] /\ calls \in [Clients -> 0..MaxCalls]
      /\ tgid \in [Clients -> 1..MaxKills + 1]
  BY DEF Base, Types
<1>1. ASSUME NEW c \in Clients, Start(c)
      PROVE  Once(d)'
  <2>1. /\ UNCHANGED <<qsnd, cur, qrcv, tmp, queues, tgid, dropped, stale>>
        /\ calls' = [calls EXCEPT ![c] = @ + 1] /\ cpc[c] = "idle"
    BY <1>1 DEF Start, serverVars
  <2>2. PICK to \in {"send", "flock"} : cpc' = [cpc EXCEPT ![c] = to]
    BY <1>1 DEF Start
  <2>3. Once(d)
    BY <1>0, <2>1, <2>2 DEF OnceInv, Alive
  <2>4. CASE d = c
    BY <1>0, <2>1, <2>2, <2>3, <2>4, OnceNone DEF Once
  <2>5. CASE d # c
    BY <1>0, <2>1, <2>2, <2>3, <2>5, OnceFrame DEF Call
  <2> QED BY <2>4, <2>5
<1>2. ASSUME NEW c \in Clients,
             LockShm(c) \/ PutShm(c) \/ FetchShm(c) \/ Return(c)
      PROVE  Once(d)'
  <2>1. /\ UNCHANGED <<qsnd, cur, qrcv, tmp, queues, tgid, dropped, stale,
                        calls>>
        /\ cpc[c] \notin {"wait", "dead"}
    BY <1>2 DEF LockShm, PutShm, FetchShm, Return, serverVars
  <2>2. PICK to \in {"put", "send", "return", "idle"} :
          cpc' = [cpc EXCEPT ![c] = to]
    BY <1>2 DEF LockShm, PutShm, FetchShm, Return
  <2>3. Once(d)
    BY <1>0, <2>1, <2>2 DEF OnceInv, Alive
  <2> QED BY <1>0, <2>1, <2>2, <2>3, OnceFrame DEF Call
<1>3. ASSUME NEW c \in Clients, SendCmd(c)
      PROVE  Once(d)'
  <2>1. /\ UNCHANGED <<cur, qrcv, tmp, queues, tgid, dropped, stale, calls>>
        /\ cpc[c] = "send"
    BY <1>3 DEF SendCmd, serverVars
  <2>2. PICK to \in {"wait", "return"} : cpc' = [cpc EXCEPT ![c] = to]
    BY <1>3 DEF SendCmd
  <2>3. Once(d)
    BY <1>0, <2>1, <2>2 DEF OnceInv, Alive
  <2>4. Call(c) \notin dropped
    <3>1. calls[c] \in Nat
      BY <1>0, IpcAssumption
    <3>2. Made(Call(c)) => FALSE
      BY <2>1, <3>1 DEF Made, Call, Preparing
    <3> QED BY <3>2 DEF Numbers
  <2>5. CASE cpc' = [cpc EXCEPT ![c] = "return"] /\ qsnd' = qsnd
    BY <1>0, <2>1, <2>3, <2>5, OnceFrame DEF Call
  <2>6. CASE /\ queues /\ cpc' = [cpc EXCEPT ![c] = "wait"]
             /\ \E m \in Messages :
                  /\ m.tid = c /\ m.tgid = tgid[c]
                  /\ m.call = Call(c)
                  /\ Range(qsnd') = Range(qsnd) \cup {m}
                  /\ \A x : Single(qsnd, x) /\ (c = x => ~Has(qsnd, x))
                           => Single(qsnd', x)
    <3>1. PICK m \in Messages :
                  /\ m.tid = c /\ m.tgid = tgid[c]
                  /\ m.call = Call(c)
                  /\ Range(qsnd') = Range(qsnd) \cup {m}
                  /\ \A x : Single(qsnd, x) /\ (c = x => ~Has(qsnd, x))
                           => Single(qsnd', x)
      BY <2>6
    <3>2. CASE d = c
      <4>1. cpc'[d] = "wait" /\ cpc[d] # "wait"
        BY <1>0, <2>1, <2>6, <3>2
      <4>2. ~Has(qsnd, d) /\ ~Has(cur, d) /\ ~Has(qrcv, d) /\ ~Has(tmp, d)
        BY <2>3, <4>1 DEF Once, Under
      <4>3. Has(qsnd', d) /\ Single(qsnd', d)
        BY <2>3, <3>1, <3>2, <4>2 DEF Has, Once
      <4>4. Mine(qsnd, d)'
        BY <2>1, <3>1, <3>2, <4>2 DEF Mine, Has, Call
      <4>5. Call(d)' \notin dropped'
        BY <2>1, <2>4, <3>2 DEF Call
      <4> QED BY <2>1, <2>3, <2>6, <4>1, <4>2, <4>3, <4>4, <4>5
              DEF Once, Under, Has, Mine, Single, Call
    <3>3. CASE d # c
      <4>1. cpc'[d] = cpc[d]
        BY <1>0, <2>6, <3>3
      <4>2. /\ Has(qsnd', d) <=> Has(qsnd, d)
            /\ Single(qsnd', d) /\ Mine(qsnd, d)'
        BY <2>1, <2>3, <3>1, <3>3 DEF Once, Has, Mine, Call
      <4> QED BY <2>1, <2>3, <4>1, <4>2 DEF Once, Under, Has, Mine, Single,
                                            Call
    <3> QED BY <3>2, <3>3
  <2> QED BY <1>3, <2>5, <2>6, Sent
<1>4. ASSUME NEW c \in Clients, ReadReply(c)
      PROVE  Once(d)'
  <2>1. /\ UNCHANGED <<qsnd, cur, tmp, queues, tgid, dropped, stale, calls>>
        /\ cpc[c] = "wait"
    BY <1>4 DEF ReadReply, serverVars
  <2>2. PICK to \in {"fetch", "return"} : cpc' = [cpc EXCEPT ![c] = to]
    BY <1>4, Read
  <2>3. Once(d)
    BY <1>0, <2>1, <2>2 DEF OnceInv, Alive
  <2>4. \A x \in Clients : cpc'[x] = IF x = c THEN to ELSE cpc[x]
    BY <1>0, <2>2
  <2>5. CASE ~queues /\ qrcv' = qrcv
    <3>1. ~Under(d)
      BY <2>3, <2>5 DEF Once
    <3> QED BY <2>1, <2>3, <2>4, <2>5, <3>1, OnceFrame, OnceNone DEF Call
  <2>6. CASE \E m \in Range(qrcv) :
               /\ m.tid = c /\ Range(qrcv') \subseteq Range(qrcv)
               /\ Range(qrcv) \subseteq Range(qrcv') \cup {m}
               /\ \A x : Single(qrcv, x) =>
                    Single(qrcv', x) /\ (m.tid = x => ~Has(qrcv', x))
    <3>1. PICK m \in Range(qrcv) :
               /\ m.tid = c /\ Range(qrcv') \subseteq Range(qrcv)
               /\ Range(qrcv) \subseteq Range(qrcv') \cup {m}
               /\ \A x : Single(qrcv, x) =>
                    Single(qrcv', x) /\ (m.tid = x => ~Has(qrcv', x))
      BY <2>6
    <3>2. Single(qrcv', d) /\ Mine(qrcv, d)'
      BY <2>1, <2>3, <3>1 DEF Once, Mine, Call
    <3>3. CASE d = c
      <4>1. Has(qrcv, d) /\ ~Has(qrcv', d)
        BY <2>3, <3>1, <3>3 DEF Has, Once
      <4>2. ~Has(qsnd, d) /\ ~Has(cur, d) /\ ~Has(tmp, d) /\ cpc'[d] # "wait"
        BY <2>3, <2>4, <3>3, <4>1 DEF Once
      <4> QED BY <2>1, <2>3, <3>2, <4>1, <4>2
              DEF Once, Under, Has, Mine, Single, Call
    <3>4. CASE d # c
      <4>1. cpc'[d] = cpc[d] /\ (Has(qrcv', d) <=> Has(qrcv, d))
        BY <2>4, <3>1, <3>4 DEF Has
      <4> QED BY <2>1, <2>3, <3>2, <4>1
              DEF Once, Under, Has, Mine, Single, Call
    <3> QED BY <3>3, <3>4
  <2> QED BY <1>4, <2>5, <2>6, Read
<1>5. ASSUME NEW c \in Clients, Kill(c)
      PROVE  Once(d)'
  <2>1. /\ UNCHANGED <<qsnd, cur, qrcv, tmp, queues, tgid, dropped, stale,
                        calls>>
        /\ cpc' = [cpc EXCEPT ![c] = "dead"]
    BY <1>5 DEF Kill, serverVars
  <2>2. Once(d) /\ cpc'[d] = cpc[d]
    BY <1>0, <2>1 DEF OnceInv, Alive
  <2> QED BY <2>1, <2>2, OnceFrame DEF Call
<1>6. ASSUME NEW c \in Clients, Reuse(c)
      PROVE  Once(d)'
  <2>1. /\ UNCHANGED <<qsnd, cur, qrcv, tmp, queues, dropped, calls>>
        /\ cpc' = [cpc EXCEPT ![c] = "idle"]
        /\ tgid' = [tgid EXCEPT ![c] = @ + 1]
        /\ stale' = IF OfTid(c) = {} THEN stale ELSE stale \cup {c}
    BY <1>6 DEF Reuse, serverVars
  <2>2. CASE d = c
    <3>1. OfTid(c) = {}
      BY <2>1, <2>2
    <3>2. ~Under(c) /\ cpc'[c] # "wait"
      BY <1>0, <2>1, <3>1, InFlightIs
    <3> QED BY <2>1, <2>2, <3>2, OnceNone
  <2>3. CASE d # c
    <3>1. cpc'[d] = cpc[d] /\ tgid'[d] = tgid[d] /\ d \notin stale
      BY <1>0, <2>1, <2>3
    <3>2. Once(d)
      BY <3>1 DEF OnceInv, Alive
    <3> QED BY <2>1, <3>1, <3>2, OnceFrame DEF Call
  <2> QED BY <2>2, <2>3
<1>7. ASSUME UNCHANGED <<cpc, calls, tgid, stale>>
      PROVE  Once(d) /\ Call(d)' = Call(d)
  BY <1>7 DEF OnceInv, Alive, Call
<1>8. ASSUME Recv
      PROVE  Once(d)'
  <2>1. UNCHANGED <<qrcv, tmp, queues, tgid, dropped, stale, calls, cpc>>
    BY <1>8 DEF Recv, clientVars, dropVars
  <2>2. Once(d) /\ Call(d)' = Call(d)
    BY <1>7, <2>1
  <2>3. PICK m \in Messages :
          /\ Range(qsnd) = Range(qsnd') \cup {m}
          /\ Range(cur) = {} /\ Range(cur') = {m}
          /\ \A x : Single(qsnd, x) =>
               Single(qsnd', x) /\ (m.tid = x => ~Has(qsnd', x))
    BY <1>8, Received
  <2>4. Single(qsnd', d) /\ Mine(qsnd, d)' /\ Mine(cur, d)'
    BY <2>1, <2>2, <2>3 DEF Once, Mine
  <2>5. /\ Has(qsnd, d) <=> Has(qsnd', d) \/ Has(cur', d)
        /\ ~(Has(qsnd', d) /\ Has(cur', d)) /\ ~Has(cur, d)
    BY <2>2, <2>3 DEF Once, Has
  <2> QED BY <2>1, <2>2, <2>4, <2>5 DEF Once, Under, Has, Mine, Single
<1>9. ASSUME Process
      PROVE  Once(d)'
  <2>1. UNCHANGED <<qsnd, qrcv, tmp, queues, tgid, dropped, stale, calls, cpc>>
    BY <1>9 DEF Process, clientVars, dropVars
  <2>2. Once(d) /\ Call(d)' = Call(d)
    BY <1>7, <2>1
  <2>3. PICK m \in Messages, n \in Messages :
          /\ Range(cur) = {m} /\ Range(cur') = {n}
          /\ n.tid = m.tid /\ n.tgid = m.tgid /\ n.call = m.call
    BY <1>9, Processed
  <2>4. Mine(cur, d)' /\ (Has(cur', d) <=> Has(cur, d))
    BY <2>1, <2>2, <2>3 DEF Once, Mine, Has
  <2> QED BY <2>1, <2>2, <2>4 DEF Once, Under, Has, Mine, Single
<1>10. ASSUME Check
       PROVE  Once(d)'
  <2>1. UNCHANGED <<qsnd, qrcv, tmp, queues, tgid, dropped, stale, calls, cpc>>
    BY <1>10 DEF Check, clientVars, dropVars
  <2>2. Once(d) /\ Call(d)' = Call(d) /\ Alive(d)
    BY <1>7, <2>1 DEF Alive
  <2>3. PICK m \in Messages :
           /\ Range(cur) = {m}
           /\ \/ /\ Range(cur') = {} /\ ~CheckPidExist(m)
              \/ \E n \in Messages :
                   /\ Range(cur') = {n} /\ n.tid = m.tid /\ n.tgid = 0
                   /\ n.call = m.call
    BY <1>10, Checked
  <2>4. m.tid = d => CheckPidExist(m)
    BY <2>2, <2>3 DEF Once, Mine, CheckPidExist
  <2>5. Mine(cur, d)' /\ (Has(cur', d) <=> Has(cur, d))
    BY <2>1, <2>2, <2>3, <2>4 DEF Once, Mine, Has
  <2> QED BY <2>1, <2>2, <2>5 DEF Once, Under, Has, Mine, Single
<1>11. ASSUME Send
       PROVE  Once(d)'
  <2>1. UNCHANGED <<qsnd, tmp, queues, tgid, dropped, stale, calls, cpc>>
    BY <1>11 DEF Send, clientVars, dropVars
  <2>2. Once(d) /\ Call(d)' = Call(d)
    BY <1>7, <2>1
  <2>3. PICK m \in Messages :
           /\ Range(cur) = {m} /\ Range(cur') = {}
           /\ Range(qrcv') = Range(qrcv) \cup {m}
           /\ \A x : Single(qrcv, x) /\ (m.tid = x => ~Has(qrcv, x))
                    => Single(qrcv', x)
    BY <1>11, Replied
  <2>4. Has(cur, d) <=> m.tid = d
    BY <2>3 DEF Has
  <2>5. /\ Has(qrcv', d) <=> Has(qrcv, d) \/ Has(cur, d)
        /\ ~Has(cur', d) /\ Single(qrcv', d)
    BY <2>2, <2>3, <2>4 DEF Once, Has
  <2>6. Mine(qrcv, d)' /\ Mine(cur, d)'
    BY <2>1, <2>2, <2>3 DEF Once, Mine
  <2> QED BY <2>1, <2>2, <2>5, <2>6 DEF Once, Under, Has, Mine, Single
<1>12. ASSUME LogPid \/ DropStat \/ UNCHANGED vars
       PROVE  Once(d)'
  <2>1. UNCHANGED <<qsnd, cur, qrcv, tmp, queues, tgid, dropped, stale, calls,
                    cpc>>
    BY <1>12, NothingSetAside DEF LogPid, DropStat, clientVars, vars
  <2> QED BY <1>7, <2>1, OnceFrame
<1>13. ASSUME Drain
       PROVE  Once(d)'
  <2>1. UNCHANGED <<qsnd, cur, queues, tgid, stale, calls, cpc>>
    BY <1>13 DEF Drain, clientVars
  <2>2. Once(d) /\ Call(d)' = Call(d) /\ Alive(d)
    BY <1>7, <2>1 DEF Alive
  <2>3. PICK m \in Messages :
           /\ Range(qrcv) = Range(qrcv') \cup {m}
           /\ \A x : Single(qrcv, x) =>
                Single(qrcv', x) /\ (m.tid = x => ~Has(qrcv', x))
           /\ \/ /\ Range(tmp') = Range(tmp) \cup {m} /\ dropped' = dropped
                 /\ \A x : Single(tmp, x) /\ (m.tid = x => ~Has(tmp, x))
                          => Single(tmp', x)
              \/ /\ tmp' = tmp /\ ~CheckPidExist(m)
                 /\ dropped' = dropped \cup {m.call}
    BY <1>13, Drained
  <2>4. Single(qrcv', d) /\ Mine(qrcv, d)'
    BY <2>1, <2>2, <2>3 DEF Once, Mine
  <2>5. CASE /\ Range(tmp') = Range(tmp) \cup {m} /\ dropped' = dropped
             /\ \A x : Single(tmp, x) /\ (m.tid = x => ~Has(tmp, x))
                      => Single(tmp', x)
    <3>1. m.tid = d => Has(qrcv, d) /\ ~Has(qrcv', d) /\ ~Has(tmp, d)
      BY <2>2, <2>3 DEF Once, Has
    <3>2. Single(tmp', d) /\ Mine(tmp, d)'
      BY <2>1, <2>2, <2>3, <2>5, <3>1 DEF Once, Mine
    <3>3. /\ Has(qrcv', d) \/ Has(tmp', d) <=> Has(qrcv, d) \/ Has(tmp, d)
          /\ Has(qrcv', d) => ~Has(tmp', d)
      BY <2>2, <2>3, <2>5, <3>1 DEF Once, Has
    <3> QED BY <2>1, <2>2, <2>4, <2>5, <3>2, <3>3
            DEF Once, Under, Has, Mine, Single
  <2>6. CASE /\ tmp' = tmp /\ ~CheckPidExist(m)
             /\ dropped' = dropped \cup {m.call}
    <3>1. m.tid # d
      BY <2>2, <2>3, <2>6 DEF Once, Mine, CheckPidExist
    <3>2. m.call # Call(d)
      <4>1. m \in UnderWay
        BY <2>3 DEF UnderWay
      <4> QED BY <3>1, <4>1 DEF Numbers, Call
    <3>3. Has(qrcv', d) <=> Has(qrcv, d)
      BY <2>3, <3>1 DEF Has
    <3>4. Call(d)' \in dropped' <=> Call(d) \in dropped
      BY <2>2, <2>6, <3>2
    <3> QED BY <2>1, <2>2, <2>4, <2>6, <3>3, <3>4
            DEF Once, Under, Has, Mine, Single
  <2> QED BY <2>3, <2>5, <2>6
<1>14. ASSUME DropSendBack
       PROVE  Once(d)'
  <2>1. UNCHANGED <<qsnd, cur, queues, tgid, stale, calls, cpc>>
    BY <1>14 DEF DropSendBack, clientVars
  <2>2. Once(d) /\ Call(d)' = Call(d)
    BY <1>7, <2>1
  <2>3. /\ Range(qrcv) = {} /\ Range(tmp') = {}
        /\ Range(qrcv') \subseteq Range(tmp)
        /\ dropped' = dropped \cup {m.call : m \in Range(tmp) \ Range(qrcv')}
        /\ Single(qrcv', d) /\ Single(tmp', d)
    BY <1>14, <2>2, Restored DEF Once
  <2>4. \A m, n \in Range(tmp) : m.tid = d /\ n.tid = d => m = n
    BY <2>2, SingleIs DEF Once, Base, Types
  <2>5. \A m \in Range(tmp) : m.tid = d <=> m.call = Call(d)
    BY <2>2 DEF Once, Mine, Numbers, UnderWay, Call
  <2>6. Mine(qrcv, d)' /\ Mine(tmp, d)'
    BY <2>1, <2>2, <2>3 DEF Once, Mine
  <2>7. ~Has(qrcv, d) /\ ~Has(tmp', d)
    BY <2>3 DEF Has
  <2>8. CASE Has(tmp, d)
    <3>1. PICK m \in Range(tmp) : m.tid = d
      BY <2>8 DEF Has
    <3>2. Has(qrcv', d) <=> m \in Range(qrcv')
      BY <2>3, <2>4, <3>1 DEF Has
    <3>3. Call(d) \in dropped' <=> m \notin Range(qrcv')
      <4>1. Call(d) \notin dropped
        BY <2>2, <2>8 DEF Once, Under
      <4>2. ASSUME NEW n \in Range(tmp) \ Range(qrcv'), n.call = Call(d)
            PROVE  m \notin Range(qrcv')
        BY <2>4, <2>5, <3>1, <4>2
      <4>3. m.call = Call(d)
        BY <2>5, <3>1
      <4> QED BY <2>3, <4>1, <4>2, <4>3
    <3> QED BY <2>1, <2>2, <2>3, <2>6, <2>7, <2>8, <3>2, <3>3
            DEF Once, Under, Has, Mine, Single
  <2>9. CASE ~Has(tmp, d)
    <3>1. ~Has(qrcv', d)
      BY <2>3, <2>9 DEF Has
    <3>2. Call(d) \in dropped' <=> Call(d) \in dropped
      BY <2>3, <2>5, <2>9 DEF Has
    <3> QED BY <2>1, <2>2, <2>3, <2>6, <2>7, <2>9, <3>1, <3>2
            DEF Once, Under, Has, Mine, Single
  <2> QED BY <2>8, <2>9
<1>15. ASSUME Term
       PROVE  Once(d)'
  <2>1. /\ qsnd' = <<>> /\ cur' = <<>> /\ qrcv' = <<>> /\ tmp' = <<>>
        /\ queues' = FALSE
    BY <1>15 DEF Term
  <2> QED BY <2>1, RangeShort DEF Once, Under, Mine, Has, Single
<1> QED BY <1>1, <1>2, <1>3, <1>4, <1>5, <1>6, <1>8, <1>9, <1>10, <1>11, <1>12,
           <1>13, <1>14, <1>15
        DEF Next, Server, Client

-----------------------------------------------------------------------------
(* A reply answers the call that reads it                                  *)

\* What a client has read answers its call, through every step.
LEMMA ReplyNext ==
  Base /\ OnceInv /\ ReplyMatches /\ [Next]_vars => ReplyMatches'
<1> SUFFICES ASSUME Base, OnceInv, ReplyMatches, [Next]_vars,
                    NEW d \in Clients, d \notin stale'
             PROVE  got'[d] \subseteq {Call(d)'}
  BY DEF ReplyMatches
<1>0. /\ cpc \in [Clients -> ClientPcs] /\ calls \in [Clients -> 0..MaxCalls]
      /\ got \in [Clients -> SUBSET CallIds]
  BY DEF Base, Types
<1>1. ASSUME NEW c \in Clients, Start(c)
      PROVE  got'[d] \subseteq {Call(d)'}
  <2>1. /\ calls' = [calls EXCEPT ![c] = @ + 1] /\ cpc[c] = "idle"
        /\ got' = got /\ stale' = stale
    BY <1>1 DEF Start
  <2>2. got[c] = {}
    BY <2>1 DEF Base, Control
  <2> QED BY <1>0, <2>1, <2>2 DEF ReplyMatches, Call
<1>2. ASSUME NEW c \in Clients, ReadReply(c)
      PROVE  got'[d] \subseteq {Call(d)'}
  <2>1. calls' = calls /\ stale' = stale /\ cpc[c] = "wait"
    BY <1>2 DEF ReadReply
  <2>2. CASE got' = got
    BY <2>1, <2>2 DEF ReplyMatches, Call
  <2>3. CASE \E m \in Range(qrcv) :
               m.tid = c /\ got' = [got EXCEPT ![c] = {m.call}]
    <3>1. PICK m \in Range(qrcv) :
               m.tid = c /\ got' = [got EXCEPT ![c] = {m.call}]
      BY <2>3
    <3>2. d = c => m.call = Call(c)
      BY <2>1, <3>1 DEF OnceInv, Alive, Once, Mine
    <3> QED BY <1>0, <2>1, <3>1, <3>2 DEF ReplyMatches, Call
  <2> QED BY <1>2, <2>2, <2>3, Read
<1>3. ASSUME NEW c \in Clients, Return(c) \/ Kill(c)
      PROVE  got'[d] \subseteq {Call(d)'}
  <2>1. /\ calls' = calls /\ stale' = stale
        /\ got' = [got EXCEPT ![c] = {}]
    BY <1>3 DEF Return, Kill
  <2> QED BY <1>0, <2>1 DEF ReplyMatches, Call
<1>4. ASSUME got' = got, calls' = calls, stale \subseteq stale'
      PROVE  got'[d] \subseteq {Call(d)'}
  BY <1>4 DEF ReplyMatches, Call
<1>5. ASSUME NEW c \in Clients,
             LockShm(c) \/ PutShm(c) \/ SendCmd(c) \/ FetchShm(c) \/ Reuse(c)
      PROVE  got' = got /\ calls' = calls /\ stale \subseteq stale'
  BY <1>5 DEF LockShm, PutShm, SendCmd, FetchShm, Reuse
<1>6. ASSUME Server \/ Term \/ UNCHANGED vars
      PROVE  got' = got /\ calls' = calls /\ stale \subseteq stale'
  BY <1>6 DEF Server, LogPid, Recv, Process, Check, Send, DropStat, Drain,
              DropSendBack, Term, clientVars, vars
<1> QED BY <1>1, <1>2, <1>3, <1>4, <1>5, <1>6 DEF Next, Client

-----------------------------------------------------------------------------
(* The shared memory                                                       *)

Shared == {"get", "add"}

\* The queue of requests holds requests, and configd executes one.
Requests ==
  /\ \A m \in Range(qsnd) : m.status = "request"
  /\ spc = "process" => cur[1].status = "request"

\* A client in a call that uses the segment holds the lock alone.
Holding ==
  \A c \in Clients :
    cpc[c] \in Busy \ {"flock"} /\ cmd[c] \in Shared => holder = {c}

\* A message is of the command its live owner executes, the owner of one that
\* uses the segment lives, and until an "add" is executed, and from when a
\* "get" is, the segment holds the data of that call.
Owned(m) ==
  /\ Alive(m.tid) => cmd[m.tid] = m.cmd
  /\ m.cmd \in Shared => Alive(m.tid)
  /\ (m.cmd = "add" /\ m.status = "request")
     \/ (m.cmd = "get" /\ m.status = "SUCC") => shm = {m.call}

\* The segment holds the data of a client that has put it or is to fetch it.
Using ==
  \A c \in Clients :
    /\ cpc[c] = "fetch" => cmd[c] = "get"
    /\ cpc[c] = "put" => cmd[c] = "add"
    /\ (cpc[c] = "send" /\ cmd[c] = "add") \/ cpc[c] = "fetch"
       => shm = {Call(c)}

ShmInv ==
  ~unsafe /\ stale = {} => Holding /\ Using /\ \A m \in UnderWay : Owned(m)

\* Requests stays true.
LEMMA RequestsNext == Base /\ Requests /\ [Next]_vars => Requests'
<1> SUFFICES ASSUME Base, Requests, [Next]_vars
             PROVE  Requests'
  OBVIOUS
<1>1. ASSUME NEW c \in Clients, SendCmd(c)
      PROVE  Requests'
  <2>1. spc' = spc /\ cur' = cur
    BY <1>1 DEF SendCmd, serverVars
  <2>2. \A m \in Range(qsnd') : m.status = "request"
    BY <1>1, Sent DEF Requests
  <2> QED BY <2>1, <2>2 DEF Requests
<1>2. ASSUME Recv
      PROVE  Requests'
  <2>1. PICK m \in Messages : Range(qsnd) = Range(qsnd') \cup {m} /\ cur'[1] = m
    BY <1>2, Received
  <2> QED BY <2>1 DEF Requests
<1>3. ASSUME Process \/ Check \/ Send \/ DropStat \/ Drain \/ DropSendBack
             \/ LogPid
      PROVE  Requests'
  <2>1. qsnd' = qsnd /\ spc' # "process"
    BY <1>3 DEF Process, Check, Send, DropStat, Drain, DropSendBack, LogPid
  <2> QED BY <2>1 DEF Requests
<1>4. ASSUME Term
      PROVE  Requests'
  <2>1. qsnd' = <<>> /\ spc' = "gone"
    BY <1>4 DEF Term
  <2> QED BY <2>1, RangeShort DEF Requests
<1>5. ASSUME NEW c \in Clients,
             Start(c) \/ LockShm(c) \/ PutShm(c) \/ ReadReply(c) \/ FetchShm(c)
             \/ Return(c) \/ Kill(c) \/ Reuse(c)
      PROVE  UNCHANGED <<qsnd, spc, cur>>
  BY <1>5 DEF Start, LockShm, PutShm, ReadReply, FetchShm, Return, Kill, Reuse,
              serverVars
<1>6. ASSUME UNCHANGED <<qsnd, spc, cur>>
      PROVE  Requests'
  BY <1>6 DEF Requests
<1>7. ASSUME UNCHANGED vars
      PROVE  UNCHANGED <<qsnd, spc, cur>>
  BY <1>7 DEF vars
<1> QED BY <1>1, <1>2, <1>3, <1>4, <1>5, <1>6, <1>7 DEF Next, Server, Client

\* The owner of a message that uses the segment waits and holds the lock.
LEMMA SharedWaits ==
  ASSUME Base, OnceInv, Holding, stale = {},
         NEW m \in UnderWay, Owned(m)
  PROVE  /\ Alive(m.tid) => cpc[m.tid] = "wait" /\ m.call = Call(m.tid)
         /\ m.cmd \in Shared => Alive(m.tid) /\ holder = {m.tid}
<1>1. m.tid \in Clients
  BY UnderWayTypes
<1>2. Under(m.tid)
  BY DEF UnderWay, Under, Has
<1>3. ASSUME Alive(m.tid)
      PROVE  cpc[m.tid] = "wait" /\ m.call = Call(m.tid)
  <2>1. Once(m.tid)
    BY <1>1, <1>3 DEF OnceInv
  <2> QED BY <1>2, <2>1 DEF Once, UnderWay, Mine
<1>4. ASSUME m.cmd \in Shared
      PROVE  Alive(m.tid) /\ holder = {m.tid}
  <2>1. Alive(m.tid) /\ cmd[m.tid] = m.cmd
    BY <1>4 DEF Owned
  <2> QED BY <1>1, <1>3, <1>4, <2>1 DEF Holding, Busy
<1> QED BY <1>3, <1>4

\* Every step keeps it.
LEMMA ShmNext ==
  Base /\ OnceInv /\ Requests /\ ShmInv /\ [Next]_vars => ShmInv'
<1> SUFFICES ASSUME Base, OnceInv, Requests, ShmInv, [Next]_vars,
                    ~unsafe', stale' = {}
             PROVE  /\ Holding' /\ Using' /\ \A n \in UnderWay' : Owned(n)'
  BY DEF ShmInv
<1> DEFINE Goal == Holding' /\ Using' /\ \A n \in UnderWay' : Owned(n)'
<1>0. /\ cpc \in [Clients -> ClientPcs] /\ cmd \in [Clients -> Cmds \cup {"none"}]
      /\ calls \in [Clients -> 0..MaxCalls] /\ holder \subseteq Clients
      /\ unsafe \in BOOLEAN /\ pidfile \in BOOLEAN
  BY DEF Base, Types
<1>s. ~unsafe /\ stale = {}
  <2>1. CASE UNCHANGED <<unsafe, stale>>
    BY <2>1
  <2>2. ASSUME NEW c \in Clients, LockShm(c) \/ Kill(c)
        PROVE  ~unsafe /\ stale = {}
    BY <2>2 DEF LockShm, Kill
  <2>3. ASSUME NEW c \in Clients, Reuse(c)
        PROVE  ~unsafe /\ stale = {}
    BY <2>3 DEF Reuse
  <2>4. ASSUME NEW c \in Clients,
               Start(c) \/ PutShm(c) \/ SendCmd(c) \/ ReadReply(c)
               \/ FetchShm(c) \/ Return(c)
        PROVE  UNCHANGED <<unsafe, stale>>
    BY <2>4 DEF Start, PutShm, SendCmd, ReadReply, FetchShm, Return
  <2>5. ASSUME Server \/ Term \/ UNCHANGED vars
        PROVE  UNCHANGED <<unsafe, stale>>
    BY <2>5 DEF Server, LogPid, Recv, Process, Check, Send, DropStat, Drain,
                DropSendBack, Term, vars
  <2> QED BY <2>1, <2>2, <2>3, <2>4, <2>5 DEF Next, Client
<1>i. Holding /\ Using /\ \A m \in UnderWay : Owned(m)
  BY <1>s DEF ShmInv
<1>w. ASSUME NEW m \in UnderWay
      PROVE  /\ m.tid \in Clients
             /\ Alive(m.tid) => cpc[m.tid] = "wait" /\ m.call = Call(m.tid)
             /\ m.cmd \in Shared => Alive(m.tid) /\ holder = {m.tid}
  BY <1>i, <1>s, SharedWaits, UnderWayTypes
<1>m. ASSUME UNCHANGED <<cpc, cmd, calls, holder, shm>>,
             \A n \in UnderWay' : \E m \in UnderWay :
               /\ n.tid = m.tid /\ n.call = m.call /\ n.cmd = m.cmd
               /\ n.status = m.status
      PROVE  Goal
  <2>1. ASSUME NEW n \in UnderWay'
        PROVE  Owned(n)'
    <3>1. PICK m \in UnderWay : /\ n.tid = m.tid /\ n.call = m.call
                                /\ n.cmd = m.cmd /\ n.status = m.status
      BY <1>m
    <3> QED BY <1>i, <1>m, <3>1 DEF Owned, Alive
  <2> QED BY <1>i, <1>m, <2>1 DEF Holding, Using, Call
<1>1. ASSUME NEW c \in Clients, Start(c)
      PROVE  Goal
  <2>1. /\ UNCHANGED <<qsnd, cur, qrcv, tmp, shm, holder>>
        /\ calls' = [calls EXCEPT ![c] = @ + 1] /\ cpc[c] = "idle"
    BY <1>1 DEF Start, serverVars
  <2>2. PICK k \in Cmds : /\ cmd' = [cmd EXCEPT ![c] = k]
          /\ cpc' = [cpc EXCEPT ![c] = IF k = "set" THEN "send" ELSE "flock"]
    BY <1>1 DEF Start
  <2>3. ASSUME NEW m \in UnderWay
        PROVE  m.tid # c
    BY <1>w, <2>1 DEF Alive
  <2>4. \A m \in UnderWay' : Owned(m)'
    BY <1>0, <1>i, <1>w, <2>1, <2>2, <2>3 DEF Owned, Alive, UnderWay
  <2>5. Holding' /\ Using'
    BY <1>0, <1>i, <2>1, <2>2 DEF Holding, Using, Call, Busy, Preparing, Shared
  <2> QED BY <2>4, <2>5
<1>2. ASSUME NEW c \in Clients, LockShm(c)
      PROVE  Goal
  <2>1. /\ UNCHANGED <<qsnd, cur, qrcv, tmp, shm, calls, cmd>>
        /\ cpc[c] = "flock" /\ holder = {} /\ holder' = {c}
    BY <1>2 DEF LockShm, serverVars, MayLock
  <2>2. cpc' = [cpc EXCEPT ![c] = IF cmd[c] = "add" THEN "put" ELSE "send"]
    BY <1>2 DEF LockShm
  <2>3. \A m \in UnderWay' : Owned(m)'
    BY <1>0, <1>i, <1>w, <2>1, <2>2 DEF Owned, Alive, UnderWay
  <2>4. Holding' /\ Using'
    BY <1>0, <1>i, <2>1, <2>2 DEF Holding, Using, Call, Busy, Preparing, Shared
  <2> QED BY <2>3, <2>4
<1>3. ASSUME NEW c \in Clients, PutShm(c)
      PROVE  Goal
  <2>1. /\ UNCHANGED <<qsnd, cur, qrcv, tmp, calls, cmd, holder>>
        /\ cpc[c] = "put" /\ cmd[c] = "add" /\ holder = {c}
    BY <1>3, <1>i DEF PutShm, serverVars, Using, Holding, Busy, Preparing,
                      Shared
  <2>2. PICK to \in {"send", "return"} : cpc' = [cpc EXCEPT ![c] = to]
    BY <1>3 DEF PutShm
  <2>3. shm' = {Call(c)} \/ (to = "return" /\ shm' = shm)
    BY <1>0, <1>3, <2>2 DEF PutShm
  <2>4. ASSUME NEW m \in UnderWay
        PROVE  m.cmd \notin Shared /\ m.tid # c
    BY <1>w, <2>1 DEF Alive
  <2>5. \A m \in UnderWay' : Owned(m)'
    BY <1>0, <1>i, <1>w, <2>1, <2>2, <2>4 DEF Owned, Alive, UnderWay, Shared
  <2>6. ASSUME NEW d \in Clients, d # c,
               (cpc[d] = "send" /\ cmd[d] = "add") \/ cpc[d] = "fetch"
        PROVE  FALSE
    BY <1>i, <2>1, <2>6 DEF Holding, Using, Busy, Preparing, Shared
  <2>7. Holding' /\ Using'
    BY <1>0, <1>i, <2>1, <2>2, <2>3, <2>6
       DEF Holding, Using, Call, Busy, Preparing, Shared
  <2> QED BY <2>5, <2>7
<1>4. ASSUME NEW c \in Clients, SendCmd(c)
      PROVE  Goal
  <2>1. /\ UNCHANGED <<cur, qrcv, tmp, calls, cmd, holder, shm>>
        /\ cpc[c] = "send"
    BY <1>4 DEF SendCmd, serverVars
  <2>2. PICK to \in {"wait", "return"} : cpc' = [cpc EXCEPT ![c] = to]
    BY <1>4 DEF SendCmd
  <2>3. Holding' /\ Using'
    BY <1>0, <1>i, <2>1, <2>2 DEF Holding, Using, Call, Busy, Preparing, Shared
  <2>4. ASSUME NEW n \in UnderWay'
        PROVE  Owned(n)'
    <3>1. CASE n \in UnderWay
      BY <1>0, <1>i, <1>w, <2>1, <2>2, <3>1 DEF Owned, Alive
    <3>2. CASE n \notin UnderWay
      <4>1. /\ n.tid = c /\ n.cmd = cmd[c] /\ n.call = Call(c)
            /\ n.status = "request"
        BY <1>4, <2>1, <3>2, Sent DEF UnderWay
      <4> QED BY <1>0, <1>i, <2>1, <2>2, <4>1 DEF Owned, Alive, Using
    <3> QED BY <3>1, <3>2
  <2> QED BY <2>3, <2>4
<1>5. ASSUME NEW c \in Clients, ReadReply(c)
      PROVE  Goal
  <2>1. /\ UNCHANGED <<qsnd, cur, tmp, calls, cmd, holder, shm>>
        /\ cpc[c] = "wait"
    BY <1>5 DEF ReadReply, serverVars
  <2>2. UnderWay' \subseteq UnderWay
    BY <1>5, <2>1, Read DEF UnderWay
  <2>3. \/ cpc' = [cpc EXCEPT ![c] = "return"]
        \/ /\ cpc' = [cpc EXCEPT ![c] = "fetch"] /\ cmd[c] = "get"
           /\ shm = {Call(c)}
    <3>1. CASE cpc' = [cpc EXCEPT ![c] = "return"]
      BY <3>1
    <3>2. CASE \E m \in Range(qrcv) :
                 /\ m.tid = c
                 /\ cpc' = [cpc EXCEPT ![c] =
                              IF m.status = "SUCC" /\ cmd[c] = "get"
                                THEN "fetch" ELSE "return"]
      <4>1. PICK m \in Range(qrcv) :
                 /\ m.tid = c
                 /\ cpc' = [cpc EXCEPT ![c] =
                              IF m.status = "SUCC" /\ cmd[c] = "get"
                                THEN "fetch" ELSE "return"]
        BY <3>2
      <4>2. m \in UnderWay
        BY DEF UnderWay
      <4>3. m.cmd = cmd[c] /\ m.call = Call(c)
        BY <1>i, <1>w, <2>1, <4>1, <4>2 DEF Owned, Alive
      <4>4. m.status = "SUCC" /\ cmd[c] = "get" => shm = {Call(c)}
        BY <1>i, <4>2, <4>3 DEF Owned
      <4> QED BY <4>1, <4>4
    <3> QED BY <1>5, <3>1, <3>2, Read
  <2>4. PICK to \in {"return", "fetch"} :
          /\ cpc' = [cpc EXCEPT ![c] = to]
          /\ to = "fetch" => cmd[c] = "get" /\ shm = {Call(c)}
    BY <2>3
  <2>5. Holding' /\ Using'
    BY <1>0, <1>i, <2>1, <2>4 DEF Holding, Using, Call, Busy, Preparing, Shared
  <2>6. \A n \in UnderWay' : Owned(n)'
    BY <1>0, <1>i, <1>w, <2>1, <2>2, <2>4 DEF Owned, Alive
  <2> QED BY <2>5, <2>6
<1>6. ASSUME NEW c \in Clients, FetchShm(c)
      PROVE  Goal
  <2>1. /\ UNCHANGED <<qsnd, cur, qrcv, tmp, calls, cmd, holder, shm>>
        /\ cpc[c] = "fetch" /\ cpc' = [cpc EXCEPT ![c] = "return"]
    BY <1>6 DEF FetchShm, serverVars
  <2>2. Holding' /\ Using'
    BY <1>0, <1>i, <2>1 DEF Holding, Using, Call, Busy, Preparing, Shared
  <2>3. \A n \in UnderWay' : Owned(n)'
    BY <1>0, <1>i, <1>w, <2>1 DEF Owned, Alive, UnderWay
  <2> QED BY <2>2, <2>3
<1>7. ASSUME NEW c \in Clients, Return(c)
      PROVE  Goal
  <2>1. /\ UNCHANGED <<qsnd, cur, qrcv, tmp, calls, shm>>
        /\ cpc[c] = "return" /\ cpc' = [cpc EXCEPT ![c] = "idle"]
        /\ cmd' = [cmd EXCEPT ![c] = "none"] /\ holder' = holder \ {c}
    BY <1>7 DEF Return, serverVars
  <2>2. Holding' /\ Using'
    BY <1>0, <1>i, <2>1 DEF Holding, Using, Call, Busy, Preparing, Shared
  <2>3. ASSUME NEW m \in UnderWay
        PROVE  m.tid # c
    BY <1>w, <2>1 DEF Alive
  <2>4. \A n \in UnderWay' : Owned(n)'
    BY <1>0, <1>i, <1>w, <2>1, <2>3 DEF Owned, Alive, UnderWay
  <2> QED BY <2>2, <2>4
<1>8. ASSUME NEW c \in Clients, Kill(c)
      PROVE  Goal
  <2>1. /\ UNCHANGED <<qsnd, cur, qrcv, tmp, calls, shm>>
        /\ cpc' = [cpc EXCEPT ![c] = "dead"]
        /\ cmd' = [cmd EXCEPT ![c] = "none"] /\ holder' = holder \ {c}
        /\ ~(c \in holder /\ cpc[c] = "wait")
    BY <1>8 DEF Kill, serverVars
  <2>2. Holding' /\ Using'
    BY <1>0, <1>i, <2>1 DEF Holding, Using, Call, Busy, Preparing, Shared
  <2>3. ASSUME NEW m \in UnderWay, m.cmd \in Shared
        PROVE  m.tid # c
    BY <1>w, <2>1, <2>3
  <2>4. \A n \in UnderWay' : Owned(n)'
    BY <1>0, <1>i, <1>w, <2>1, <2>3 DEF Owned, Alive, UnderWay
  <2> QED BY <2>2, <2>4
<1>9. ASSUME NEW c \in Clients, Reuse(c)
      PROVE  Goal
  <2>1. /\ UNCHANGED <<qsnd, cur, qrcv, tmp, calls, shm, cmd, holder>>
        /\ cpc[c] = "dead" /\ cpc' = [cpc EXCEPT ![c] = "idle"]
        /\ stale' = IF OfTid(c) = {} THEN stale ELSE stale \cup {c}
    BY <1>9 DEF Reuse, serverVars, Alive
  <2>2. Holding' /\ Using'
    BY <1>0, <1>i, <2>1 DEF Holding, Using, Call, Busy, Preparing, Shared
  <2>3. ~Under(c)
    BY <2>1, InFlightIs
  <2>4. ASSUME NEW m \in UnderWay
        PROVE  m.tid # c
    BY <2>3 DEF UnderWay, Under, Has
  <2>5. \A n \in UnderWay' : Owned(n)'
    BY <1>0, <1>i, <1>w, <2>1, <2>4 DEF Owned, Alive, UnderWay
  <2> QED BY <2>2, <2>5
<1>10. ASSUME Process
       PROVE  Goal
  <2>1. UNCHANGED <<cpc, cmd, calls, holder, qsnd, qrcv, tmp>>
    BY <1>10 DEF Process, clientVars, dropVars
  <2>2. PICK n \in Messages, st \in {"SUCC", "FAIL"} :
           /\ Range(cur) = {cur[1]} /\ Range(cur') = {n}
           /\ n.tid = cur[1].tid /\ n.cmd = cur[1].cmd
           /\ n.call = cur[1].call /\ n.status = st
           /\ shm' = IF st = "SUCC" /\ cur[1].cmd = "get"
                       THEN {cur[1].call} ELSE shm
    BY <1>10, Processed
  <2> DEFINE m == cur[1]
  <2>3. m \in UnderWay
    BY <2>2 DEF UnderWay
  <2>4. CASE shm' = shm /\ ~(st = "SUCC" /\ m.cmd = "get")
    <3>1. Owned(n)'
      BY <1>i, <2>1, <2>2, <2>3, <2>4 DEF Owned, Alive
    <3>2. \A x \in UnderWay : Owned(x)'
      BY <1>i, <2>1, <2>4 DEF Owned, Alive
    <3>3. \A x \in UnderWay' : x = n \/ x \in UnderWay
      BY <2>1, <2>2 DEF UnderWay
    <3> QED BY <1>i, <2>1, <2>4, <3>1, <3>2, <3>3 DEF Holding, Using, Call
  <2>5. CASE shm' = {m.call} /\ st = "SUCC" /\ m.cmd = "get"
    <3>1. /\ m.tid \in Clients /\ Alive(m.tid) /\ holder = {m.tid}
          /\ cpc[m.tid] = "wait"
      BY <1>w, <2>3, <2>5 DEF Shared
    <3>2. Owned(n)'
      BY <1>i, <2>1, <2>2, <2>3, <2>5 DEF Owned, Alive
    <3>3. Using'
      <4>1. ASSUME NEW d \in Clients,
                   (cpc[d] = "send" /\ cmd[d] = "add") \/ cpc[d] = "fetch"
            PROVE  FALSE
        <5>1. holder = {d}
          BY <1>i, <4>1 DEF Holding, Using, Busy, Preparing, Shared
        <5> QED BY <3>1, <4>1, <5>1
      <4> QED BY <1>i, <2>1, <4>1 DEF Using
    <3>4. ASSUME NEW x \in Range(qsnd) \cup Range(qrcv) \cup Range(tmp)
          PROVE  Owned(x)'
      <4>1. x \in UnderWay
        BY DEF UnderWay
      <4>2. x.tid # m.tid
        <5>1. Once(m.tid)
          BY <1>s, <3>1 DEF OnceInv
        <5> QED BY <2>2, <5>1 DEF Once, Has
      <4>3. x.cmd \notin Shared
        BY <1>w, <3>1, <4>1, <4>2
      <4> QED BY <1>i, <2>1, <4>1, <4>3 DEF Owned, Alive, Shared
    <3>5. \A x \in UnderWay' : x = n
             \/ x \in Range(qsnd) \cup Range(qrcv) \cup Range(tmp)
      BY <2>1, <2>2 DEF UnderWay
    <3>6. Holding'
      BY <1>i, <2>1 DEF Holding
    <3> QED BY <3>2, <3>3, <3>4, <3>5, <3>6
  <2> QED BY <2>2, <2>4, <2>5
<1>11. ASSUME Recv \/ Check \/ Send \/ DropStat \/ Drain \/ DropSendBack
              \/ LogPid \/ Term \/ UNCHANGED vars
       PROVE  Goal
  <2>1. UNCHANGED <<cpc, cmd, calls, holder, shm>>
    BY <1>11 DEF Recv, Check, Send, DropStat, Drain, DropSendBack, LogPid,
                 Term,
                 clientVars, vars
  <2> USE DEF UnderWay
  <2>2. CASE Recv
    BY <1>m, <2>1, <2>2, Received DEF Recv, dropVars
  <2>3. CASE Check
    BY <1>m, <2>1, <2>3, Checked DEF Check, dropVars
  <2>4. CASE Send
    BY <1>m, <2>1, <2>4, Replied DEF Send, dropVars
  <2>5. CASE DropStat \/ LogPid \/ UNCHANGED vars
    BY <1>m, <2>1, <2>5, NothingSetAside DEF DropStat, LogPid, vars
  <2>6. CASE Drain
    BY <1>m, <2>1, <2>6, Drained DEF Drain
  <2>7. CASE DropSendBack
    BY <1>m, <2>1, <2>7, Restored DEF DropSendBack
  <2>8. CASE Term
    BY <1>m, <2>1, <2>8, RangeShort DEF Term
  <2> QED BY <1>11, <2>2, <2>3, <2>4, <2>5, <2>6, <2>7, <2>8
<1> QED BY <1>1, <1>2, <1>3, <1>4, <1>5, <1>6, <1>7, <1>8, <1>9, <1>10, <1>11
        DEF Next, Server, Client

-----------------------------------------------------------------------------
(* The invariant and the theorems                                          *)

IndInv == /\ Base /\ Numbers /\ OnceInv /\ ReplyMatches
          /\ Requests /\ ShmInv

\* No message is under way at first.
LEMMA IndInit == Init => IndInv
<1> SUFFICES ASSUME Init
             PROVE  IndInv
  OBVIOUS
<1>1. Base
  BY BaseInit
<1>2. /\ qsnd = <<>> /\ cur = <<>> /\ qrcv = <<>> /\ tmp = <<>>
      /\ cpc = [c \in Clients |-> "idle"] /\ got = [c \in Clients |-> {}]
      /\ dropped = {} /\ spc \in {"init", "recv"}
  BY DEF Init
<1>3. /\ Range(qsnd) = {} /\ Range(cur) = {} /\ Range(qrcv) = {}
      /\ Range(tmp) = {} /\ UnderWay = {}
  BY <1>2, RangeShort DEF UnderWay
<1>4. Numbers
  BY <1>2, <1>3 DEF Numbers
<1>5. OnceInv
  BY <1>2, <1>3 DEF OnceInv, Once, Under, Has, Mine, Single
<1>6. ReplyMatches
  BY <1>2 DEF ReplyMatches
<1>7. Requests
  BY <1>2, <1>3 DEF Requests
<1>8. ShmInv
  BY <1>2, <1>3 DEF ShmInv, Holding, Using, Busy, Preparing
<1> QED BY <1>1, <1>4, <1>5, <1>6, <1>7, <1>8 DEF IndInv

\* The invariant holds in every state.
LEMMA Inductive == Spec => []IndInv
<1>1. Init => IndInv
  BY IndInit
<1>2. IndInv /\ [Next]_vars => IndInv'
  BY BaseNext, NumbersNext, OnceNext, ReplyNext, RequestsNext, ShmNext
  DEF IndInv
<1> QED BY <1>1, <1>2, PTL DEF Spec

\* Types: the queues and qbuf_tmp[MAX_MSGQ_MSGNUM] are never filled beyond
\* their size, and msg_handler() has one message in hand while it works.
THEOREM TypeCorrect == Spec => []TypeOK
<1>1. IndInv => TypeOK
  <2> SUFFICES ASSUME Base
               PROVE  TypeOK
    BY DEF IndInv
  <2>1. /\ Range(cur) \subseteq Messages /\ Range(tmp) \subseteq Messages
        /\ Range(qsnd) \subseteq Messages /\ Range(qrcv) \subseteq Messages
    BY RangeIs DEF Base, Types
  <2>2. {isDropQueue, queues, pidfile, unsafe} \subseteq BOOLEAN
    BY DEF Base, Types
  <2> QED BY <2>1, <2>2 DEF TypeOK, Base, Types
<1> QED BY <1>1, Inductive, PTL

\* What drop_unexist_pid_message() sends back with IPC_NOWAIT fits in the
\* queue and leaves a place for the reply that waits.
THEOREM SendBackFitsHolds == Spec => []SendBackFits
<1>1. IndInv => SendBackFits
  <2> SUFFICES ASSUME Base, spc = "drain", count = 0
               PROVE  Len(qrcv) + Len(SentBack) < QueueCap
    BY DEF IndInv, SendBackFits
  <2>1. qrcv = <<>> /\ Len(SentBack) \in Nat /\ Len(SentBack) < QueueCap
    BY SendingBack
  <2> QED BY <2>1
<1> QED BY <1>1, Inductive, PTL

\* The reply that sendcmd() returns answers the request of the same call.
THEOREM ReplyMatchesHolds == Spec => []ReplyMatches
<1>1. IndInv => ReplyMatches
  BY DEF IndInv
<1> QED BY <1>1, Inductive, PTL

\* No path of msg_handler(), send_message_nonblock() and
\* drop_unexist_pid_message() loses or duplicates the message of a live
\* client whose tid was not reused with a message under way.
THEOREM ExactlyOnceHolds == Spec => []ExactlyOnce
<1>1. IndInv => ExactlyOnce
  <2> SUFFICES ASSUME Base, OnceInv, NEW c \in Clients \ stale, Alive(c)
               PROVE  IF cpc[c] = "wait" /\ queues /\ Call(c) \notin dropped
                        THEN \E i \in DOMAIN InFlight :
                               OfTid(c) = {i} /\ InFlight[i].call = Call(c)
                        ELSE OfTid(c) = {}
    BY DEF IndInv, ExactlyOnce
  <2>1. Once(c)
    BY DEF OnceInv
  <2>2. /\ InFlight \in Seq(Messages) /\ Range(InFlight) = UnderWay
        /\ OfTid(c) = {i \in 1..Len(InFlight) : InFlight[i].tid = c}
        /\ OfTid(c) = {} <=> ~Under(c)
        /\ Single(InFlight, c)
    BY <2>1, InFlightIs
  <2>3. CASE cpc[c] = "wait" /\ queues /\ Call(c) \notin dropped
    <3>1. PICK i \in 1..Len(InFlight) : InFlight[i].tid = c
      BY <2>1, <2>2, <2>3 DEF Once
    <3>2. OfTid(c) = {i}
      BY <2>2, <3>1 DEF Single
    <3>3. InFlight[i] \in UnderWay
      BY <2>2, <3>1, RangeIs
    <3>4. InFlight[i].call = Call(c)
      BY <2>1, <3>1, <3>3 DEF Once, Mine, UnderWay
    <3>5. i \in DOMAIN InFlight
      BY <2>2
    <3> QED BY <2>3, <3>2, <3>4, <3>5
  <2>4. CASE ~(cpc[c] = "wait" /\ queues /\ Call(c) \notin dropped)
    BY <2>1, <2>2, <2>4 DEF Once
  <2> QED BY <2>3, <2>4
<1> QED BY <1>1, Inductive, PTL

\* The segment holds the data of the call that uses it, when configd executes
\* an "add" and when a client fetches what a "get" has put there, as long as
\* all take the flock() and none is killed while its request is under way.
THEOREM ShmOwnHolds == Spec => []ShmOwn
<1>1. IndInv => ShmOwn
  <2> SUFFICES ASSUME Base, Requests, ShmInv, ~unsafe, stale = {}
               PROVE  /\ spc = "process" /\ cur[1].cmd = "add"
                         => shm = {cur[1].call}
                      /\ \A c \in Clients : cpc[c] = "fetch" => shm = {Call(c)}
    BY DEF IndInv, ShmOwn
  <2>1. Using /\ \A m \in UnderWay : Owned(m)
    BY DEF ShmInv
  <2>2. ASSUME spc = "process", cur[1].cmd = "add"
        PROVE  shm = {cur[1].call}
    <3>1. cur[1] \in UnderWay
      BY <2>2, InHand DEF Base, UnderWay
    <3> QED BY <2>1, <2>2, <3>1 DEF Requests, Owned
  <2> QED BY <2>1, <2>2 DEF Using
<1> QED BY <1>1, Inductive, PTL
=============================================================================
