--------------------------- MODULE LoginListProofs ---------------------------
(***************************************************************************)
(* Theorems about LoginList: its types, that a list without freed entries  *)
(* holds every malloc'ed entry once, that it never holds more sessions     *)
(* than formLogin() allows, and what a walk that frees entries leaves.     *)
(* They hold for any finite set of structs and any numbers of addresses,   *)
(* session ids and sessions.                                               *)
(***************************************************************************)
EXTENDS LoginList, WellFoundedInduction, FiniteSetTheorems, TLAPS

Ptr == Nodes \cup {Null}
N == Cardinality(Nodes)

\* Entry i of a list, or the null pointer behind its last.
At(p, i) == IF i <= Len(p) THEN p[i] ELSE Null

\* The list at h with the next fields nx is p: no entry comes twice.
Chain(h, nx, p) ==
  /\ p \in Seq(Nodes)
  /\ \A i, j \in 1..Len(p) : p[i] = p[j] => i = j
  /\ h = At(p, 1)
  /\ \A i \in 1..Len(p) : nx[p[i]] = At(p, i + 1)

\* The list is p, which holds what is malloc'ed.
IsList(p) ==
  Chain(head, next, p) /\ Range(p) = alloc /\ Len(p) <= MaxSessions

\* A sound list is a chain of all that is malloc'ed.
ListInv == Sound => \E p \in Seq(Nodes) : IsList(p)

Inv == TypeOK /\ ListInv

-----------------------------------------------------------------------------
(* Numbers, sequences and loops                                            *)

\* The constants: there are finitely many structs.
LEMMA NType ==
  /\ N \in Nat /\ IsFiniteSet(Nodes) /\ Null \notin Nodes
  /\ MaxSessions \in Nat /\ AutoExit \in Nat
<1>1. /\ IsFiniteSet(Nodes) /\ Null \notin Nodes
      /\ MaxSessions \in Nat \ {0} /\ AutoExit \in Nat
  BY Zenon, LoginAssumption
<1> QED BY <1>1, FS_CardinalityType DEF N

\* A set of natural numbers has a least element.
LEMMA LeastNat ==
  ASSUME NEW T, T \subseteq Nat, T # {}
  PROVE  \E x \in T : \A y \in T : x <= y
<1> DEFINE R == {ss \in Nat \X Nat : ss[1] < ss[2]}
<1>1. IsWellFoundedOn(R, Nat)
  BY NatLessThanWellFounded DEF OpToRel
<1> HIDE DEF R
<1>2. PICK x \in T : \A y \in T : ~(<<y, x>> \in R)
  BY <1>1, WFMin
<1>3. ASSUME NEW y \in T
      PROVE  x <= y
  <2>1. x \in Nat /\ y \in Nat
    OBVIOUS
  <2>2. <<y, x>> \in Nat \X Nat /\ <<y, x>>[1] = y /\ <<y, x>>[2] = x
    BY <2>1
  <2>3. y < x => <<y, x>> \in R
    BY <2>2 DEF R
  <2> QED BY <1>2, <2>1, <2>3
<1> QED BY <1>3

\* A set that has 0, and k + 1 when it has k, has every natural number.
LEMMA AllNat ==
  ASSUME NEW P, 0 \in P, \A k \in Nat : k \in P => k + 1 \in P
  PROVE  Nat \subseteq P
<1> DEFINE T == Nat \ P
<1> SUFFICES ASSUME T # {}
             PROVE  FALSE
  OBVIOUS
<1>1. PICK x \in T : \A y \in T : x <= y
  <2>1. T \subseteq Nat
    OBVIOUS
  <2> HIDE DEF T
  <2> QED BY <2>1, LeastNat
<1>2. x \in Nat /\ x # 0
  OBVIOUS
<1>3. x - 1 \in Nat /\ ~(x <= x - 1) /\ (x - 1) + 1 = x
  BY <1>2
<1>4. x - 1 \in P
  BY <1>1, <1>3
<1> QED BY <1>3, <1>4

\* A loop over states in S whose round i takes x to step[i][x].
Loop(e, step, n, S, f) ==
  /\ f \in [0..n -> S]
  /\ f[0] = e
  /\ \A i \in 1..n : f[i] = step[i][f[i - 1]]

\* It can make any number of rounds.
LEMMA LoopExists ==
  ASSUME NEW S, NEW e \in S, NEW step \in [Nat -> [S -> S]], NEW n \in Nat
  PROVE  \E f : Loop(e, step, n, S, f)
<1> DEFINE P == {k \in Nat : \E f : Loop(e, step, k, S, f)}
<1>1. 0 \in P
  <2> DEFINE f == [i \in 0..0 |-> e]
  <2>1. Loop(e, step, 0, S, f)
    BY DEF Loop
  <2> QED BY <2>1
<1>2. ASSUME NEW k \in Nat, k \in P
      PROVE  k + 1 \in P
  <2>1. PICK f : Loop(e, step, k, S, f)
    BY <1>2
  <2> DEFINE g == [i \in 0..(k + 1) |->
                     IF i = k + 1 THEN step[k + 1][f[k]] ELSE f[i]]
  <2>2. /\ f \in [0..k -> S] /\ f[0] = e
        /\ \A i \in 1..k : f[i] = step[i][f[i - 1]]
    BY <2>1 DEF Loop
  <2>3. /\ \A i \in 0..k : g[i] = f[i]
        /\ g[k + 1] = step[k + 1][f[k]]
    OBVIOUS
  <2>4. step[k + 1][f[k]] \in S
    BY <2>2
  <2>5. g \in [0..(k + 1) -> S]
    BY <2>2, <2>4
  <2> HIDE DEF g
  <2>6. ASSUME NEW i \in 1..(k + 1)
        PROVE  g[i] = step[i][g[i - 1]]
    <3>1. CASE i = k + 1
      BY <2>3, <3>1
    <3>2. CASE i # k + 1
      <4>1. i \in 1..k /\ i \in 0..k /\ i - 1 \in 0..k
        BY <3>2
      <4> QED BY <2>2, <2>3, <4>1
    <3> QED BY <3>1, <3>2
  <2>7. Loop(e, step, k + 1, S, g)
    BY <2>2, <2>3, <2>5, <2>6 DEF Loop
  <2> QED BY <2>7
<1> HIDE DEF P
<1>3. Nat \subseteq P
  BY <1>1, <1>2, AllNat
<1> QED BY <1>3 DEF P

\* The elements of a sequence.
LEMMA RangeIs ==
  ASSUME NEW S, NEW s \in Seq(S)
  PROVE  /\ Len(s) \in Nat /\ Range(s) = {s[i] : i \in 1..Len(s)}
         /\ \A i \in 1..Len(s) : s[i] \in S
<1>1. DOMAIN s = 1..Len(s) /\ Len(s) \in Nat /\ \A i \in 1..Len(s) : s[i] \in S
  OBVIOUS
<1> QED BY <1>1 DEF Range

\* A sequence with one more element.
LEMMA Appended ==
  ASSUME NEW S, NEW s \in Seq(S), NEW e \in S
  PROVE  LET t == Append(s, e) IN
         /\ t \in Seq(S) /\ Len(t) = Len(s) + 1 /\ t[Len(s) + 1] = e
         /\ \A i \in 1..Len(s) : t[i] = s[i]
         /\ \A i \in 1..Len(t) : i \in 1..Len(s) \/ i = Len(s) + 1
         /\ Range(t) = Range(s) \cup {e}
<1> DEFINE t == Append(s, e)
<1>1. /\ t \in Seq(S) /\ Len(t) = Len(s) + 1 /\ t[Len(s) + 1] = e
      /\ \A i \in 1..Len(s) : t[i] = s[i]
      /\ Len(s) \in Nat
  OBVIOUS
<1> HIDE DEF t
<1>2. /\ Range(t) = {t[i] : i \in 1..(Len(s) + 1)}
      /\ Range(s) = {s[i] : i \in 1..Len(s)}
  BY <1>1, RangeIs
<1>3. 1..(Len(s) + 1) = (1..Len(s)) \cup {Len(s) + 1}
  BY <1>1
<1>4. Range(t) = Range(s) \cup {e}
  BY <1>1, <1>2, <1>3
<1>5. \A i \in 1..Len(t) : i \in 1..Len(s) \/ i = Len(s) + 1
  BY <1>1
<1> QED BY <1>1, <1>4, <1>5 DEF t

\* Two sequences of the same length and elements are the same.
LEMMA SeqEqual ==
  ASSUME NEW S, NEW s \in Seq(S), NEW t \in Seq(S), Len(s) = Len(t),
         \A i \in 1..Len(s) : s[i] = t[i]
  PROVE  s = t
OBVIOUS

\* A list without an entry twice is no longer than there are structs, and
\* has as many entries as it is long.
LEMMA ListLength ==
  ASSUME NEW p \in Seq(Nodes),
         \A i, j \in 1..Len(p) : p[i] = p[j] => i = j
  PROVE  Len(p) <= N /\ Cardinality(Range(p)) = Len(p)
<1>1. Len(p) \in Nat /\ p \in [1..Len(p) -> Nodes]
      /\ Range(p) = {p[i] : i \in 1..Len(p)}
  BY RangeIs
<1>2. IsFiniteSet(1..Len(p)) /\ Cardinality(1..Len(p)) = Len(p)
  BY <1>1, FS_Interval
<1>3. p \in Injection(1..Len(p), Nodes)
  BY <1>1 DEF Injection, IsInjective
<1>4. Cardinality(1..Len(p)) <= Cardinality(Nodes)
  BY <1>3, NType, FS_Injection
<1>5. p \in Bijection(1..Len(p), Range(p))
  BY <1>1 DEF Bijection, Injection, Surjection, IsInjective
<1>6. Cardinality(1..Len(p)) = Cardinality(Range(p))
  BY <1>2, <1>5, FS_Bijection DEF ExistsBijection
<1> QED BY <1>2, <1>4, <1>6 DEF N

-----------------------------------------------------------------------------
(* The walk over a list                                                    *)

Walk == [seen : Seq(Nodes), at : Ptr]

\* One step of the walk along the next fields nx.
Walked(nx, w) ==
  IF w.at = Null THEN w
  ELSE [seen |-> Append(w.seen, w.at), at |-> nx[w.at]]

\* Path, for the list at h with the next fields nx.
Traverse(h, nx) ==
  LET walk[i \in Steps] ==
        IF i = 0 THEN [seen |-> <<>>, at |-> h]
        ELSE LET w == walk[i - 1] IN
             IF w.at = Null THEN w
             ELSE [seen |-> Append(w.seen, w.at), at |-> nx[w.at]]
  IN  walk[Cardinality(Nodes)].seen

\* Path is the walk from user_login_list, in each of the states of a step.
LEMMA PathTraverse ==
  /\ Path = Traverse(head, next)
  /\ Path' = Traverse(head', next')
BY DEF Path, Traverse

\* A function that makes the steps of the walk.
Walks(h, nx, f) ==
  /\ f \in [0..N -> Walk]
  /\ f[0] = [seen |-> <<>>, at |-> h]
  /\ \A i \in 1..N : f[i] = Walked(nx, f[i - 1])

\* The walk can be made.
LEMMA TraverseIs ==
  ASSUME NEW h \in Ptr, NEW nx \in [Nodes -> Ptr]
  PROVE  \E f : Walks(h, nx, f) /\ Traverse(h, nx) = f[N].seen
<1> DEFINE IsWalk(f) ==
             f = [i \in Steps |->
                    IF i = 0 THEN [seen |-> <<>>, at |-> h]
                    ELSE IF f[i - 1].at = Null THEN f[i - 1]
                    ELSE [seen |-> Append(f[i - 1].seen, f[i - 1].at),
                          at |-> nx[f[i - 1].at]]]
           g == CHOOSE f : IsWalk(f)
           e == [seen |-> <<>>, at |-> h]
           step == [i \in Nat |-> [w \in Walk |-> Walked(nx, w)]]
<1>1. Traverse(h, nx) = g[N].seen
  BY DEF Traverse, N
<1>2. N \in Nat /\ Steps = 0..N
  BY NType DEF Steps, N
<1>3. e \in Walk
  BY DEF Walk
<1>4. ASSUME NEW w \in Walk
      PROVE  Walked(nx, w) \in Walk
  <2>1. w.seen \in Seq(Nodes) /\ w.at \in Ptr
    BY DEF Walk
  <2>2. CASE w.at # Null
    <3>1. w.at \in Nodes
      BY <2>1, <2>2 DEF Ptr
    <3>2. Append(w.seen, w.at) \in Seq(Nodes) /\ nx[w.at] \in Ptr
      BY <2>1, <3>1
    <3> QED BY <2>2, <3>2 DEF Walked, Walk
  <2>3. CASE w.at = Null
    BY <2>3 DEF Walked
  <2> QED BY <2>2, <2>3
<1>5. step \in [Nat -> [Walk -> Walk]]
  BY <1>4
<1>6. \A i \in Nat : \A w \in Walk : step[i][w] = Walked(nx, w)
  OBVIOUS
<1> HIDE DEF step, e
<1>7. PICK f : Loop(e, step, N, Walk, f)
  BY <1>2, <1>3, <1>5, LoopExists
<1>8. /\ f \in [0..N -> Walk] /\ f[0] = e
      /\ \A i \in 1..N : f[i] = Walked(nx, f[i - 1])
  <2>1. /\ f \in [0..N -> Walk] /\ f[0] = e
        /\ \A i \in 1..N : f[i] = step[i][f[i - 1]]
    BY <1>7 DEF Loop
  <2>2. \A i \in 1..N : i \in Nat /\ i - 1 \in 0..N
    BY <1>2
  <2> QED BY <1>6, <2>1, <2>2
<1>9. IsWalk(f)
  <2>1. \A i \in 0..N : i # 0 => i \in 1..N
    BY <1>2
  <2>2. \A i \in Steps : f[i] = IF i = 0 THEN [seen |-> <<>>, at |-> h]
                    ELSE IF f[i - 1].at = Null THEN f[i - 1]
                    ELSE [seen |-> Append(f[i - 1].seen, f[i - 1].at),
                          at |-> nx[f[i - 1].at]]
    BY <1>2, <1>8, <2>1 DEF Walked, e
  <2> QED BY <1>2, <1>8, <2>2
<1>10. IsWalk(g)
  BY <1>9
<1> HIDE DEF g
<1>11. \A i \in 0..N : g[i] = IF i = 0 THEN e ELSE Walked(nx, g[i - 1])
  BY <1>2, <1>10 DEF Walked, e
<1>12. g \in [0..N -> Walk]
  <2> DEFINE P == {i \in Nat : i <= N => g[i] \in Walk}
  <2>1. 0 \in P
    BY <1>2, <1>3, <1>11
  <2>2. ASSUME NEW i \in Nat, i \in P
        PROVE  i + 1 \in P
    <3> SUFFICES ASSUME i + 1 <= N
                 PROVE  g[i + 1] \in Walk
      OBVIOUS
    <3>1. i + 1 \in 0..N /\ i + 1 # 0 /\ (i + 1) - 1 = i /\ i <= N
      BY <1>2
    <3>2. g[i] \in Walk
      BY <2>2, <3>1
    <3> QED BY <1>4, <1>11, <3>1, <3>2
  <2> HIDE DEF P
  <2>3. Nat \subseteq P
    BY <2>1, <2>2, AllNat
  <2>4. \A i \in 0..N : g[i] \in Walk
    BY <1>2, <2>3 DEF P
  <2>5. g = [i \in 0..N |-> g[i]]
    BY <1>2, <1>10
  <2> QED BY <2>4, <2>5
<1>13. Walks(h, nx, g)
  <2>1. g[0] = e
    BY <1>2, <1>11
  <2>2. \A i \in 1..N : i \in 0..N /\ i # 0
    BY <1>2
  <2> QED BY <1>11, <1>12, <2>1, <2>2 DEF Walks, e
<1> QED BY <1>1, <1>13

\* A walk visits structs.
LEMMA TraverseType ==
  ASSUME NEW h \in Ptr, NEW nx \in [Nodes -> Ptr]
  PROVE  Traverse(h, nx) \in Seq(Nodes)
<1>1. PICK f : Walks(h, nx, f) /\ Traverse(h, nx) = f[N].seen
  BY TraverseIs
<1>2. f[N] \in Walk
  BY <1>1, NType DEF Walks
<1> QED BY <1>1, <1>2 DEF Walk

\* What is at a place of a list, and the first place.
LEMMA AtType ==
  ASSUME NEW p \in Seq(Nodes), NEW i \in Nat \ {0}
  PROVE  /\ At(p, i) \in Ptr
         /\ i \in 1..Len(p) => At(p, i) = p[i] /\ At(p, i) \in Nodes
         /\ i > Len(p) => At(p, i) = Null
<1>1. Len(p) \in Nat /\ \A j \in 1..Len(p) : p[j] \in Nodes
  OBVIOUS
<1>2. i <= Len(p) => i \in 1..Len(p)
  BY <1>1
<1> QED BY <1>1, <1>2 DEF At, Ptr

\* The walk over a list visits the entries of the list.
LEMMA ChainWalk ==
  ASSUME NEW h \in Ptr, NEW nx \in [Nodes -> Ptr], NEW p, Chain(h, nx, p)
  PROVE  Traverse(h, nx) = p
<1> DEFINE n == Len(p)
<1>0. p \in Seq(Nodes) /\ n \in Nat /\ N \in Nat /\ n <= N
      /\ Null \notin Nodes /\ h = At(p, 1)
  BY NType, ListLength DEF Chain
<1>1. PICK f : Walks(h, nx, f) /\ Traverse(h, nx) = f[N].seen
  BY TraverseIs
<1>2. /\ f \in [0..N -> Walk] /\ f[0] = [seen |-> <<>>, at |-> h]
      /\ \A i \in 1..N : f[i] = Walked(nx, f[i - 1])
  BY <1>1 DEF Walks
<1> DEFINE Seen(w, j) == /\ Len(w.seen) = j /\ \A k \in 1..j : w.seen[k] = p[k]
                         /\ w.at = At(p, j + 1)
           Good(i) == \E j \in 0..n : Seen(f[i], j) /\ (j = i \/ j = n)
           P == {i \in Nat : i <= N => Good(i)}
<1>3. 0 \in P
  <2>1. Seen(f[0], 0)
    BY <1>0, <1>2
  <2> QED BY <1>0, <2>1
<1>4. ASSUME NEW i \in Nat, i \in P
      PROVE  i + 1 \in P
  <2> SUFFICES ASSUME i + 1 <= N
               PROVE  Good(i + 1)
    OBVIOUS
  <2>1. i + 1 \in 1..N /\ (i + 1) - 1 = i /\ i \in 0..N /\ i <= N
    BY <1>0
  <2>2. PICK j \in 0..n : Seen(f[i], j) /\ (j = i \/ j = n)
    BY <1>4, <2>1
  <2> DEFINE w == f[i]
  <2>3. f[i + 1] = Walked(nx, w) /\ w \in Walk
    BY <1>2, <2>1
  <2>4. Seen(w, j)
    BY <2>2
  <2> HIDE DEF w
  <2>5. CASE j = n
    <3>1. w.at = Null
      BY <1>0, <2>4, <2>5, AtType
    <3>2. f[i + 1] = w
      BY <2>3, <3>1 DEF Walked
    <3> QED BY <1>0, <2>4, <2>5, <3>2
  <2>6. CASE j # n
    <3>1. j + 1 \in 1..n /\ j + 1 \in 0..n /\ j = i /\ j \in Nat
      BY <1>0, <2>2, <2>6
    <3>2. w.at = p[j + 1] /\ w.at \in Nodes
      BY <1>0, <2>4, <3>1, AtType
    <3>3. f[i + 1] = [seen |-> Append(w.seen, w.at), at |-> nx[w.at]]
      BY <1>0, <2>3, <3>2 DEF Walked
    <3>4. nx[p[j + 1]] = At(p, (j + 1) + 1)
      BY <3>1 DEF Chain
    <3>5. w.seen \in Seq(Nodes)
      BY <2>3 DEF Walk
    <3> DEFINE t == Append(w.seen, w.at)
    <3>6. Len(t) = j + 1 /\ t[j + 1] = p[j + 1]
          /\ \A k \in 1..j : t[k] = p[k]
      BY <2>4, <3>1, <3>2, <3>5
    <3>7. f[i + 1].seen = t /\ f[i + 1].at = At(p, (j + 1) + 1)
      BY <3>2, <3>3, <3>4
    <3> HIDE DEF t
    <3>8. \A k \in 1..(j + 1) : k \in 1..j \/ k = j + 1
      BY <3>1
    <3>9. Seen(f[i + 1], j + 1)
      BY <3>6, <3>7, <3>8
    <3> QED BY <3>1, <3>9
  <2> QED BY <2>5, <2>6
<1> HIDE DEF P
<1>5. Nat \subseteq P
  BY <1>3, <1>4, AllNat
<1>6. Good(N)
  BY <1>0, <1>5 DEF P
<1>7. Seen(f[N], n)
  BY <1>0, <1>6
<1>8. f[N].seen \in Seq(Nodes)
  BY <1>0, <1>2 DEF Walk
<1>9. f[N].seen = p
  BY <1>0, <1>7, <1>8, SeqEqual
<1> QED BY <1>1, <1>9

\* A walk that only goes forward in p reaches the end: what an entry that it
\* visits points to, it visits too.
LEMMA ForwardWalk ==
  ASSUME NEW h \in Ptr, NEW nx \in [Nodes -> Ptr], NEW p \in Seq(Nodes),
         \A i, j \in 1..Len(p) : p[i] = p[j] => i = j,
         h # Null => \E m \in 1..Len(p) : h = p[m],
         \A k \in 1..Len(p) : nx[p[k]] # Null =>
            \E m \in 1..Len(p) : m > k /\ nx[p[k]] = p[m]
  PROVE  LET T == Range(Traverse(h, nx)) IN
         /\ h # Null => h \in T
         /\ \A x \in T : nx[x] # Null => nx[x] \in T
<1> DEFINE n == Len(p)
<1>0. n \in Nat /\ N \in Nat /\ n <= N /\ \A i \in 1..n : p[i] \in Nodes
  BY NType, ListLength
<1>1. PICK f : Walks(h, nx, f) /\ Traverse(h, nx) = f[N].seen
  BY TraverseIs
<1>2. /\ f \in [0..N -> Walk] /\ f[0] = [seen |-> <<>>, at |-> h]
      /\ \A i \in 1..N : f[i] = Walked(nx, f[i - 1])
  BY <1>1 DEF Walks
<1> DEFINE Met(w) == Range(w.seen) \cup {w.at}
           Good(i) == /\ \/ f[i].at = Null
                         \/ \E m \in 1..n : m > i /\ f[i].at = p[m]
                      /\ h \in Met(f[i])
                      /\ \A x \in Range(f[i].seen) : nx[x] \in Met(f[i])
           P == {i \in Nat : i <= N => Good(i)}
<1>3. 0 \in P
  <2>1. f[0].at = h /\ Range(f[0].seen) = {}
    BY <1>2 DEF Range
  <2>2. \A m \in 1..n : m > 0
    OBVIOUS
  <2> QED BY <2>1, <2>2
<1>4. ASSUME NEW i \in Nat, i \in P
      PROVE  i + 1 \in P
  <2> SUFFICES ASSUME i + 1 <= N
               PROVE  Good(i + 1)
    OBVIOUS
  <2>1. i + 1 \in 1..N /\ (i + 1) - 1 = i /\ i \in 0..N /\ i <= N
    BY <1>0
  <2> DEFINE w == f[i]
             v == f[i + 1]
  <2>2. v = Walked(nx, w) /\ w \in Walk
    BY <1>2, <2>1
  <2>3. /\ w.at = Null \/ \E m \in 1..n : m > i /\ w.at = p[m]
        /\ h \in Met(w)
        /\ \A x \in Range(w.seen) : nx[x] \in Met(w)
    BY <1>4, <2>1
  <2> HIDE DEF w, v
  <2>4. CASE w.at = Null
    <3>1. v = w
      BY <2>2, <2>4 DEF Walked
    <3> QED BY <2>3, <2>4, <3>1 DEF v
  <2>5. CASE w.at # Null
    <3>1. PICK m \in 1..n : m > i /\ w.at = p[m]
      BY <2>3, <2>5
    <3> DEFINE t == Append(w.seen, w.at)
    <3>2. v.seen = t /\ v.at = nx[w.at]
      BY <2>2, <2>5 DEF Walked
    <3>3. w.at \in Nodes /\ w.seen \in Seq(Nodes)
      BY <1>0, <2>2, <3>1 DEF Walk
    <3>4. Range(t) = Range(w.seen) \cup {w.at}
      BY <3>3, Appended
    <3> HIDE DEF t
    <3>5. Range(v.seen) = Range(w.seen) \cup {w.at}
      BY <3>2, <3>4
    <3>6. v.at = Null \/ \E l \in 1..n : l > i + 1 /\ v.at = p[l]
      <4>1. ASSUME v.at # Null
            PROVE  \E l \in 1..n : l > i + 1 /\ v.at = p[l]
        <5>1. PICK l \in 1..n : l > m /\ v.at = p[l]
          BY <3>1, <3>2, <4>1
        <5>2. l > i + 1
          BY <1>0, <3>1, <5>1
        <5> QED BY <5>1, <5>2
      <4> QED BY <4>1
    <3> QED BY <2>3, <3>2, <3>5, <3>6 DEF v
  <2> QED BY <2>4, <2>5
<1> HIDE DEF P
<1>5. Nat \subseteq P
  BY <1>3, <1>4, AllNat
<1>6. Good(N)
  BY <1>0, <1>5 DEF P
<1>7. f[N].at = Null
  BY <1>0, <1>6
<1> QED BY <1>1, <1>6, <1>7

-----------------------------------------------------------------------------
(* The walk that frees entries                                             *)

Cutting == [head : Ptr, next : [Nodes -> Ptr], alloc : SUBSET Nodes,
            b : Ptr, p : Ptr]

\* One round of the loop.
Round(D, w) ==
  IF w.p = Null THEN w ELSE Advance(IF w.p \in D THEN FreeEntry(w) ELSE w)

\* WalkDeleting, for the list at h with the next fields nx.
Deleting(h, nx, al, D) ==
  LET walk[i \in Steps] ==
        IF i = 0
          THEN [head |-> h, next |-> nx, alloc |-> al, b |-> Null, p |-> h]
        ELSE LET w == walk[i - 1] IN
             IF w.p = Null THEN w
             ELSE Advance(IF w.p \in D THEN FreeEntry(w) ELSE w)
  IN  walk[Cardinality(Nodes)]

\* The walk of an action is that over the present list.
LEMMA WalkDeletingIs ==
  ASSUME NEW D
  PROVE  WalkDeleting(D) = Deleting(head, next, alloc, D)
BY DEF WalkDeleting, Deleting

\* The step to the next entry.
LEMMA AdvanceIs ==
  ASSUME NEW w \in Cutting, w.p \in Nodes
  PROVE  Advance(w) = [head |-> w.head, next |-> w.next, alloc |-> w.alloc,
                       b |-> w.p, p |-> w.next[w.p]]
<1> DEFINE Fields == {"head", "next", "alloc", "b", "p"}
<1>1. ASSUME NEW q, NEW r
      PROVE  [w EXCEPT !.b = q, !.p = r] =
               [head |-> w.head, next |-> w.next, alloc |-> w.alloc,
                b |-> q, p |-> r]
  <2>1. DOMAIN w = Fields /\ w = [i \in DOMAIN w |-> w[i]]
    BY DEF Cutting
  <2>2. [w EXCEPT !.b = q, !.p = r] =
          [i \in Fields |->
             IF i = "p" THEN r ELSE IF i = "b" THEN q ELSE w[i]]
    BY <2>1
  <2>3. @ = [head |-> w.head, next |-> w.next, alloc |-> w.alloc,
             b |-> q, p |-> r]
    OBVIOUS
  <2> QED BY <2>2, <2>3
<1> QED BY <1>1 DEF Advance

\* What a round does to an entry that stays, and to one that goes.
LEMMA RoundIs ==
  ASSUME NEW D, NEW w \in Cutting, w.p # Null
  PROVE  LET v == Round(D, w) IN
         /\ v \in Cutting
         /\ v.b = w.p
         /\ w.p \notin D => /\ v.head = w.head /\ v.next = w.next
                            /\ v.alloc = w.alloc /\ v.p = w.next[w.p]
         /\ w.p \in D =>
              /\ v.head = IF w.p = w.head THEN w.next[w.p] ELSE w.head
              /\ v.next = IF w.p = w.head THEN w.next
                          ELSE [w.next EXCEPT ![w.b] = w.next[w.p]]
              /\ v.alloc = w.alloc \ {w.p}
              /\ v.p = v.next[w.p]
<1>1. /\ w = [head |-> w.head, next |-> w.next, alloc |-> w.alloc,
              b |-> w.b, p |-> w.p]
      /\ w.head \in Ptr /\ w.next \in [Nodes -> Ptr] /\ w.alloc \subseteq Nodes
      /\ w.b \in Ptr /\ w.p \in Nodes
  BY DEF Cutting, Ptr
<1>2. CASE w.p \notin D
  <2>1. Round(D, w) = [head |-> w.head, next |-> w.next, alloc |-> w.alloc,
                       b |-> w.p, p |-> w.next[w.p]]
    BY <1>1, <1>2, AdvanceIs DEF Round
  <2>2. w.next[w.p] \in Ptr /\ w.p \in Ptr
    BY <1>1 DEF Ptr
  <2> QED BY <1>1, <1>2, <2>1, <2>2 DEF Cutting
<1>3. CASE w.p \in D
  <2> DEFINE h == IF w.p = w.head THEN w.next[w.p] ELSE w.head
             nx == IF w.p = w.head THEN w.next
                   ELSE [w.next EXCEPT ![w.b] = w.next[w.p]]
  <2>1. FreeEntry(w) = [head |-> h, next |-> nx, alloc |-> w.alloc \ {w.p},
                        b |-> w.b, p |-> w.p]
    <3>1. FreeEntry(w) =
            [w EXCEPT !.head = h, !.next = nx, !.alloc = w.alloc \ {w.p}]
      BY Zenon DEF FreeEntry
    <3> HIDE DEF h, nx
    <3> QED BY ONLY <1>1, <3>1
  <2>2. w.next[w.p] \in Ptr /\ w.p \in Ptr
    BY <1>1 DEF Ptr
  <2>3. h \in Ptr /\ nx \in [Nodes -> Ptr]
    BY <1>1, <2>2
  <2> HIDE DEF h, nx
  <2>4. Round(D, w) = [head |-> h, next |-> nx, alloc |-> w.alloc \ {w.p},
                       b |-> w.p, p |-> nx[w.p]]
    <3>1. Round(D, w) = Advance(FreeEntry(w))
      BY <1>3 DEF Round
    <3> DEFINE u == [head |-> h, next |-> nx, alloc |-> w.alloc \ {w.p},
                     b |-> w.b, p |-> w.p]
    <3>2. /\ u = [head |-> u.head, next |-> u.next, alloc |-> u.alloc,
                  b |-> u.b, p |-> u.p]
          /\ u.head = h /\ u.next = nx /\ u.alloc = w.alloc \ {w.p}
          /\ u.p = w.p
      OBVIOUS
    <3>3. FreeEntry(w) = u /\ u \in Cutting /\ w.p \in Nodes
      BY <1>1, <2>1, <2>2, <2>3 DEF Cutting
    <3> HIDE DEF u
    <3>4. Advance(u) = [head |-> u.head, next |-> u.next, alloc |-> u.alloc,
                        b |-> u.p, p |-> u.next[u.p]]
      BY <3>2, <3>3, AdvanceIs
    <3> QED BY ONLY <3>1, <3>2, <3>3, <3>4
  <2>5. nx[w.p] \in Ptr
    BY <1>1, <2>3
  <2>6. Round(D, w) \in Cutting
    BY <1>1, <2>2, <2>3, <2>4, <2>5 DEF Cutting
  <2> QED BY <1>3, <2>4, <2>6 DEF h, nx
<1> QED BY <1>2, <1>3

\* A function that makes the rounds of the loop.
Cuts(h, nx, al, D, f) ==
  /\ f \in [0..N -> Cutting]
  /\ f[0] = [head |-> h, next |-> nx, alloc |-> al, b |-> Null, p |-> h]
  /\ \A i \in 1..N : f[i] = Round(D, f[i - 1])

\* The loop can be made.
LEMMA DeletingIs ==
  ASSUME NEW h \in Ptr, NEW nx \in [Nodes -> Ptr], NEW al \in SUBSET Nodes,
         NEW D
  PROVE  \E f : Cuts(h, nx, al, D, f) /\ Deleting(h, nx, al, D) = f[N]
<1> DEFINE e == [head |-> h, next |-> nx, alloc |-> al, b |-> Null, p |-> h]
           IsWalk(f) ==
             f = [i \in Steps |->
                    IF i = 0 THEN [head |-> h, next |-> nx, alloc |-> al,
                                   b |-> Null, p |-> h]
                    ELSE IF f[i - 1].p = Null THEN f[i - 1]
                    ELSE Advance(IF f[i - 1].p \in D THEN FreeEntry(f[i - 1])
                                 ELSE f[i - 1])]
           g == CHOOSE f : IsWalk(f)
           step == [i \in Nat |-> [w \in Cutting |-> Round(D, w)]]
<1>1. Deleting(h, nx, al, D) = g[N]
  BY DEF Deleting, N
<1>2. N \in Nat /\ Steps = 0..N
  BY NType DEF Steps, N
<1>3. e \in Cutting
  BY DEF Cutting, Ptr
<1>4. ASSUME NEW w \in Cutting
      PROVE  Round(D, w) \in Cutting
  BY RoundIs DEF Round
<1>5. step \in [Nat -> [Cutting -> Cutting]]
  BY <1>4
<1>6. \A i \in Nat : \A w \in Cutting : step[i][w] = Round(D, w)
  OBVIOUS
<1> HIDE DEF step, e
<1>7. PICK f : Loop(e, step, N, Cutting, f)
  BY <1>2, <1>3, <1>5, LoopExists
<1>8. /\ f \in [0..N -> Cutting] /\ f[0] = e
      /\ \A i \in 1..N : f[i] = Round(D, f[i - 1])
  <2>1. /\ f \in [0..N -> Cutting] /\ f[0] = e
        /\ \A i \in 1..N : f[i] = step[i][f[i - 1]]
    BY <1>7 DEF Loop
  <2>2. \A i \in 1..N : i \in Nat /\ i - 1 \in 0..N
    BY <1>2
  <2> QED BY <1>6, <2>1, <2>2
<1>9. IsWalk(f)
  <2>1. \A i \in 0..N : i # 0 => i \in 1..N
    BY <1>2
  <2>2. \A i \in Steps : f[i] = IF i = 0 THEN e ELSE Round(D, f[i - 1])
    BY <1>2, <1>8, <2>1
  <2>3. f = [i \in Steps |-> IF i = 0 THEN e ELSE Round(D, f[i - 1])]
    BY <1>2, <1>8, <2>2
  <2> QED BY <2>3 DEF Round, e
<1>10. IsWalk(g)
  BY <1>9
<1> HIDE DEF g
<1>11. \A i \in 0..N : g[i] = IF i = 0 THEN e ELSE Round(D, g[i - 1])
  <2>1. g = [i \in Steps |-> IF i = 0 THEN e ELSE Round(D, g[i - 1])]
    BY <1>10 DEF Round, e
  <2> QED BY <1>2, <2>1
<1>12. g \in [0..N -> Cutting]
  <2> DEFINE P == {i \in Nat : i <= N => g[i] \in Cutting}
  <2>1. 0 \in P
    BY <1>2, <1>3, <1>11
  <2>2. ASSUME NEW i \in Nat, i \in P
        PROVE  i + 1 \in P
    <3> SUFFICES ASSUME i + 1 <= N
                 PROVE  g[i + 1] \in Cutting
      OBVIOUS
    <3>1. i + 1 \in 0..N /\ i + 1 # 0 /\ (i + 1) - 1 = i /\ i <= N
      BY <1>2
    <3>2. g[i] \in Cutting
      BY <2>2, <3>1
    <3> QED BY <1>4, <1>11, <3>1, <3>2
  <2> HIDE DEF P
  <2>3. Nat \subseteq P
    BY <2>1, <2>2, AllNat
  <2>4. \A i \in 0..N : g[i] \in Cutting
    BY <1>2, <2>3 DEF P
  <2>5. g = [i \in 0..N |-> g[i]]
    BY <1>2, <1>10
  <2> QED BY <2>4, <2>5
<1>13. Cuts(h, nx, al, D, g)
  <2>1. g[0] = e
    BY <1>2, <1>11
  <2>2. \A i \in 1..N : i \in 0..N /\ i # 0
    BY <1>2
  <2> QED BY <1>11, <1>12, <2>1, <2>2 DEF Cuts, e
<1> QED BY <1>1, <1>13

\* One of the first k entries of p stays when D goes.
Stays(p, D, k) == \E m \in 1..k : p[m] \notin D

\* What the next field of entry k is when the loop has passed j entries: an
\* entry behind one that stays has been unlinked.
NextField(p, D, j, k) ==
  IF k + 1 <= j /\ p[k + 1] \in D /\ Stays(p, D, k)
    THEN At(p, k + 2) ELSE At(p, k + 1)

\* The loop has passed the first j entries of the list p.
Passed(p, D, al, w, j) ==
  /\ w.p = At(p, j + 1)
  /\ j > 0 => w.b = p[j]
  /\ w.alloc = al \ (D \cap {p[k] : k \in 1..j})
  /\ ~Stays(p, D, j) => w.head = At(p, j + 1)
  /\ Stays(p, D, j) => \E m \in 1..j : w.head = p[m]
  /\ \A k \in 1..j : p[k] \notin D /\ ~Stays(p, D, k - 1) => w.head = p[k]
  /\ \A k \in 1..Len(p) : w.next[p[k]] = NextField(p, D, j, k)

\* A round passes one more entry.
LEMMA RoundPasses ==
  ASSUME NEW p \in Seq(Nodes), NEW D, NEW al,
         \A i, j \in 1..Len(p) : p[i] = p[j] => i = j,
         NEW w \in Cutting, NEW j \in Nat, j < Len(p), Passed(p, D, al, w, j)
  PROVE  Passed(p, D, al, Round(D, w), j + 1)
<1> DEFINE n == Len(p)
           v == Round(D, w)
           e == p[j + 1]
<1>0. n \in Nat /\ \A i \in 1..n : p[i] \in Nodes
  OBVIOUS
<1>1. /\ j + 1 \in 1..n /\ (j + 1) + 1 = j + 2 /\ j + 1 > 0
      /\ 1..(j + 1) = (1..j) \cup {j + 1} /\ (j + 1) - 1 = j
      /\ \A k \in 1..j : k \in 1..n /\ k # j + 1
  BY <1>0
<1>2. w.p = e /\ e \in Nodes /\ w.p # Null /\ At(p, j + 1) = e
  BY <1>0, <1>1, NType DEF Passed, At
<1>3. /\ v.b = e
      /\ e \notin D => /\ v.head = w.head /\ v.next = w.next
                       /\ v.alloc = w.alloc /\ v.p = w.next[e]
      /\ e \in D =>
           /\ v.head = IF e = w.head THEN w.next[e] ELSE w.head
           /\ v.next = IF e = w.head THEN w.next
                       ELSE [w.next EXCEPT ![w.b] = w.next[e]]
           /\ v.alloc = w.alloc \ {e}
           /\ v.p = v.next[e]
  <2>1. /\ v.b = w.p
        /\ w.p \notin D => /\ v.head = w.head /\ v.next = w.next
                           /\ v.alloc = w.alloc /\ v.p = w.next[w.p]
        /\ w.p \in D =>
             /\ v.head = IF w.p = w.head THEN w.next[w.p] ELSE w.head
             /\ v.next = IF w.p = w.head THEN w.next
                         ELSE [w.next EXCEPT ![w.b] = w.next[w.p]]
             /\ v.alloc = w.alloc \ {w.p}
             /\ v.p = v.next[w.p]
    BY ONLY ZenonT(40), w \in Cutting, <1>2, RoundIs
  <2>2. w.p = e
    BY <1>2
  <2> HIDE DEF v, e
  <2> QED BY ONLY <2>1, <2>2
<1>4. w.next \in [Nodes -> Ptr]
  BY DEF Cutting
<1> HIDE DEF v
<1>5. w.next[e] = At(p, j + 2)
  <2>1. ~((j + 1) + 1 <= j)
    OBVIOUS
  <2>2. w.next[p[j + 1]] = NextField(p, D, j, j + 1)
    BY <1>1 DEF Passed
  <2> QED BY <1>1, <2>1, <2>2 DEF NextField
<1>6. Stays(p, D, j + 1) <=> Stays(p, D, j) \/ e \notin D
  BY <1>1 DEF Stays
<1>7. \A k \in 1..n :
        k # j => NextField(p, D, j + 1, k) = NextField(p, D, j, k)
  <2>1. \A k \in 1..n : k # j => (k + 1 <= j + 1 <=> k + 1 <= j)
    BY <1>0
  <2> QED BY <2>1 DEF NextField
<1>8. {p[k] : k \in 1..(j + 1)} = {p[k] : k \in 1..j} \cup {e}
  BY <1>1
<1>9. CASE e \notin D
  <2>1. v.p = At(p, (j + 1) + 1) /\ v.b = p[j + 1]
    BY <1>1, <1>3, <1>5, <1>9
  <2>2. v.alloc = al \ (D \cap {p[k] : k \in 1..(j + 1)})
    BY <1>3, <1>8, <1>9 DEF Passed
  <2>3. \E m \in 1..(j + 1) : v.head = p[m]
    BY <1>1, <1>2, <1>3, <1>9 DEF Passed
  <2>4. ASSUME NEW k \in 1..(j + 1), p[k] \notin D, ~Stays(p, D, k - 1)
        PROVE  v.head = p[k]
    BY <1>1, <1>2, <1>3, <1>9, <2>4 DEF Passed
  <2>5. \A k \in 1..n : v.next[p[k]] = NextField(p, D, j + 1, k)
    <3>1. NextField(p, D, j + 1, j) = NextField(p, D, j, j)
      BY <1>9 DEF NextField
    <3> QED BY <1>3, <1>7, <1>9, <3>1 DEF Passed
  <2> QED BY <1>6, <1>9, <2>1, <2>2, <2>3, <2>4, <2>5 DEF Passed, v
<1>10. CASE e \in D /\ ~Stays(p, D, j)
  <2>1. w.head = e
    BY <1>2, <1>10 DEF Passed
  <2>2. v.head = At(p, j + 2) /\ v.next = w.next /\ v.p = At(p, j + 2)
        /\ v.alloc = w.alloc \ {e} /\ v.b = p[j + 1]
    BY <1>3, <1>5, <1>10, <2>1
  <2>3. v.alloc = al \ (D \cap {p[k] : k \in 1..(j + 1)})
    BY <1>8, <1>10, <2>2 DEF Passed
  <2>4. \A k \in 1..(j + 1) : p[k] \in D
    BY <1>1, <1>10 DEF Stays
  <2>5. \A k \in 1..n : v.next[p[k]] = NextField(p, D, j + 1, k)
    <3>1. NextField(p, D, j + 1, j) = NextField(p, D, j, j)
      BY <1>10 DEF NextField
    <3> QED BY <1>7, <2>2, <3>1 DEF Passed
  <2> QED BY <1>1, <1>6, <1>10, <2>2, <2>3, <2>4, <2>5 DEF Passed, v
<1>11. CASE e \in D /\ Stays(p, D, j)
  <2>1. PICK m \in 1..j : w.head = p[m]
    BY <1>11 DEF Passed
  <2>2. w.head # e /\ j > 0 /\ j \in 1..n
    BY <1>1, <2>1
  <2>3. w.b = p[j] /\ p[j] \in Nodes /\ p[j] # e
    BY <1>0, <1>1, <2>2 DEF Passed
  <2>4. v.head = w.head /\ v.next = [w.next EXCEPT ![p[j]] = At(p, j + 2)]
        /\ v.alloc = w.alloc \ {e} /\ v.b = p[j + 1]
    BY <1>3, <1>5, <1>11, <2>2, <2>3
  <2>5. v.p = At(p, j + 2)
    BY <1>2, <1>3, <1>4, <1>5, <1>11, <2>3, <2>4
  <2>6. v.alloc = al \ (D \cap {p[k] : k \in 1..(j + 1)})
    BY <1>8, <1>11, <2>4 DEF Passed
  <2>7. \A k \in 1..n : v.next[p[k]] = NextField(p, D, j + 1, k)
    <3>1. NextField(p, D, j + 1, j) = At(p, j + 2)
      BY <1>11 DEF NextField
    <3>2. v.next[p[j]] = At(p, j + 2)
      BY <1>4, <2>3, <2>4
    <3>3. ASSUME NEW k \in 1..n, k # j
          PROVE  v.next[p[k]] = w.next[p[k]]
      BY <1>0, <1>4, <2>2, <2>4, <3>3
    <3> QED BY <1>7, <3>1, <3>2, <3>3 DEF Passed
  <2>8. \A k \in 1..(j + 1) : p[k] \notin D /\ ~Stays(p, D, k - 1)
                             => v.head = p[k]
    BY <1>1, <1>11, <2>4 DEF Passed
  <2>9. \E l \in 1..(j + 1) : v.head = p[l]
    BY <1>1, <2>1, <2>4
  <2> QED BY <1>1, <1>6, <1>11, <2>4, <2>5, <2>6, <2>7, <2>8, <2>9
          DEF Passed, v
<1> QED BY <1>9, <1>10, <1>11

\* What the loop leaves of the list p.
LEMMA DeletingLeaves ==
  ASSUME NEW h \in Ptr, NEW nx \in [Nodes -> Ptr], NEW al \in SUBSET Nodes,
         NEW D, NEW p, Chain(h, nx, p)
  PROVE  /\ Deleting(h, nx, al, D) \in Cutting
         /\ Passed(p, D, al, Deleting(h, nx, al, D), Len(p))
<1> DEFINE n == Len(p)
<1>0. p \in Seq(Nodes) /\ n \in Nat /\ N \in Nat /\ n <= N
      /\ \A i, j \in 1..n : p[i] = p[j] => i = j
  BY NType, ListLength DEF Chain
<1>1. PICK f : Cuts(h, nx, al, D, f) /\ Deleting(h, nx, al, D) = f[N]
  BY DeletingIs
<1>2. /\ f \in [0..N -> Cutting]
      /\ f[0] = [head |-> h, next |-> nx, alloc |-> al, b |-> Null, p |-> h]
      /\ \A i \in 1..N : f[i] = Round(D, f[i - 1])
  BY <1>1 DEF Cuts
<1> DEFINE Good(i) == \E j \in 0..n : /\ Passed(p, D, al, f[i], j)
                                      /\ j = i \/ j = n
           P == {i \in Nat : i <= N => Good(i)}
<1>3. 0 \in P
  <2> DEFINE w == f[0]
  <2>1. w.head = h /\ w.next = nx /\ w.alloc = al /\ w.p = h
    BY <1>2
  <2> HIDE DEF w
  <2>2. 1..0 = {} /\ ~(0 > 0) /\ 0 + 1 = 1 /\ 0 \in 0..n
    BY <1>0
  <2>3. ~Stays(p, D, 0) /\ {p[k] : k \in 1..0} = {}
    BY <2>2 DEF Stays
  <2>4. \A k \in 1..n : NextField(p, D, 0, k) = At(p, k + 1)
    <3>1. \A k \in 1..n : ~(k + 1 <= 0)
      OBVIOUS
    <3> QED BY <3>1 DEF NextField
  <2>5. h = At(p, 1) /\ \A k \in 1..n : nx[p[k]] = At(p, k + 1)
    BY DEF Chain
  <2>6. Passed(p, D, al, w, 0)
    BY <2>1, <2>2, <2>3, <2>4, <2>5 DEF Passed
  <2> QED BY <2>2, <2>6 DEF w
<1>4. ASSUME NEW i \in Nat, i \in P
      PROVE  i + 1 \in P
  <2> SUFFICES ASSUME i + 1 <= N
               PROVE  Good(i + 1)
    OBVIOUS
  <2>1. i + 1 \in 1..N /\ (i + 1) - 1 = i /\ i \in 0..N /\ i <= N
    BY <1>0
  <2>2. PICK j \in 0..n : Passed(p, D, al, f[i], j) /\ (j = i \/ j = n)
    BY <1>4, <2>1
  <2>3. f[i + 1] = Round(D, f[i]) /\ f[i] \in Cutting
    BY <1>2, <2>1
  <2>4. CASE j = n
    <3>1. At(p, j + 1) = Null
      BY <1>0, <2>4, AtType
    <3>2. f[i].p = Null
      BY <2>2, <3>1 DEF Passed
    <3>3. f[i + 1] = f[i]
      BY <2>3, <3>2 DEF Round
    <3> QED BY <2>2, <2>4, <3>3
  <2>5. CASE j # n
    <3>1. j \in Nat /\ j < n /\ j = i /\ j + 1 \in 0..n
      BY <1>0, <2>2, <2>5
    <3>2. Passed(p, D, al, Round(D, f[i]), j + 1)
      BY <1>0, <2>2, <2>3, <3>1, RoundPasses
    <3> QED BY <2>3, <3>1, <3>2
  <2> QED BY <2>4, <2>5
<1> HIDE DEF P
<1>5. Nat \subseteq P
  BY <1>3, <1>4, AllNat
<1>6. Good(N)
  BY <1>0, <1>5 DEF P
<1>7. Passed(p, D, al, f[N], n)
  BY <1>0, <1>6
<1>8. f[N] \in Cutting
  BY <1>0, <1>2
<1> QED BY <1>1, <1>7, <1>8

\* What the loop leaves of the list p: the list begins at h, with the next
\* fields nx.
Left(p, D, h, nx) ==
  /\ ~Stays(p, D, Len(p)) => h = Null
  /\ Stays(p, D, Len(p)) => \E m \in 1..Len(p) : h = p[m]
  /\ \A k \in 1..Len(p) : p[k] \notin D /\ ~Stays(p, D, k - 1) => h = p[k]
  /\ \A k \in 1..Len(p) : nx[p[k]] = NextField(p, D, Len(p), k)

\* Two neighbours of p that go, behind an entry that stays.
Near(p, D) ==
  \E j \in 1..Len(p) - 1 :
    p[j] \in D /\ p[j + 1] \in D /\ \E k \in 1..j : p[k] \notin D

\* Two such neighbours leave a freed entry on the list.
LEMMA NearUnsound ==
  ASSUME NEW p \in Seq(Nodes), NEW D, NEW h \in Ptr, NEW nx \in [Nodes -> Ptr],
         \A i, j \in 1..Len(p) : p[i] = p[j] => i = j,
         Left(p, D, h, nx),
         \A k \in 1..Len(p) : p[k] \in Range(Traverse(h, nx)) => p[k] \notin D
  PROVE  ~Near(p, D)
<1> DEFINE n == Len(p)
           T == Range(Traverse(h, nx))
<1>0. n \in Nat /\ (\A i \in 1..n : p[i] \in Nodes) /\ Null \notin Nodes
  BY NType
<1>1. ASSUME NEW k \in 1..n
      PROVE  /\ nx[p[k]] = Null \/ \E m \in 1..n : m > k /\ nx[p[k]] = p[m]
             /\ k + 1 \in 1..n /\ p[k + 1] \notin D => nx[p[k]] = p[k + 1]
             /\ k + 2 \in 1..n /\ p[k + 1] \in D /\ Stays(p, D, k)
                => nx[p[k]] = p[k + 2]
  <2>1. nx[p[k]] = NextField(p, D, n, k)
    BY DEF Left
  <2>2. /\ k + 1 \in 1..n => At(p, k + 1) = p[k + 1]
        /\ k + 1 \notin 1..n => At(p, k + 1) = Null
        /\ k + 2 \in 1..n => At(p, k + 2) = p[k + 2] /\ k + 1 <= n
        /\ k + 2 \notin 1..n => At(p, k + 2) = Null
        /\ k + 1 > k /\ k + 2 > k
    BY <1>0 DEF At
  <2>3. nx[p[k]] = Null \/ \E m \in 1..n : m > k /\ nx[p[k]] = p[m]
    BY <2>1, <2>2 DEF NextField
  <2> QED BY <2>1, <2>2, <2>3 DEF NextField
<1>2. h # Null => \E m \in 1..n : h = p[m]
  BY DEF Left
<1>3. /\ h # Null => h \in T
      /\ \A x \in T : nx[x] # Null => nx[x] \in T
  BY <1>0, <1>1, <1>2, ForwardWalk
<1> HIDE DEF T
<1> DEFINE C(k) == Stays(p, D, k) =>
             /\ p[k] \notin D => p[k] \in T
             /\ p[k] \in D => /\ k - 1 \in 1..n
                              /\ p[k - 1] \notin D /\ p[k - 1] \in T
           P == {k \in Nat : k \in 1..n => C(k)}
<1>4. 0 \in P
  OBVIOUS
<1>5. ASSUME NEW k \in Nat, k \in P
      PROVE  k + 1 \in P
  <2> SUFFICES ASSUME k + 1 \in 1..n, Stays(p, D, k + 1)
               PROVE  /\ p[k + 1] \notin D => p[k + 1] \in T
                      /\ p[k + 1] \in D => /\ (k + 1) - 1 \in 1..n
                                           /\ p[(k + 1) - 1] \notin D
                                           /\ p[(k + 1) - 1] \in T
    OBVIOUS
  <2>1. (k + 1) - 1 = k /\ 1..(k + 1) = (1..k) \cup {k + 1}
    OBVIOUS
  <2>2. CASE ~Stays(p, D, k)
    <3>1. p[k + 1] \notin D
      BY <2>1, <2>2 DEF Stays
    <3>2. h = p[k + 1]
      BY <2>1, <2>2, <3>1 DEF Left
    <3> QED BY <1>0, <1>3, <3>1, <3>2
  <2>3. CASE Stays(p, D, k)
    <3>1. k \in 1..n
      <4>1. k # 0
        BY <2>3 DEF Stays
      <4> QED BY <1>0, <4>1
    <3>2. C(k)
      BY <1>5, <3>1
    <3>3. CASE p[k] \notin D
      <4>1. p[k] \in T
        BY <2>3, <3>2, <3>3
      <4>2. ASSUME p[k + 1] \notin D
            PROVE  p[k + 1] \in T
        <5>1. nx[p[k]] = p[k + 1] /\ p[k + 1] # Null
          BY <1>0, <1>1, <3>1, <4>2
        <5> QED BY <1>3, <4>1, <5>1
      <4> QED BY <2>1, <3>1, <3>3, <4>1, <4>2
    <3>4. CASE p[k] \in D
      <4>1. k - 1 \in 1..n /\ p[k - 1] \notin D /\ p[k - 1] \in T
        BY <2>3, <3>2, <3>4
      <4>2. (k - 1) + 1 = k /\ (k - 1) + 2 = k + 1 /\ k - 1 \in 1..(k - 1)
        BY <1>0, <4>1
      <4>3. Stays(p, D, k - 1)
        BY <4>1, <4>2 DEF Stays
      <4>4. nx[p[k - 1]] = p[k + 1] /\ p[k + 1] # Null
        BY <1>0, <1>1, <3>4, <4>1, <4>2, <4>3
      <4>5. p[k + 1] \in T
        BY <1>3, <4>1, <4>4
      <4>6. p[k + 1] \notin D
        BY <4>5 DEF T
      <4> QED BY <4>5, <4>6
    <3> QED BY <3>3, <3>4
  <2> QED BY <2>2, <2>3
<1> HIDE DEF P
<1>6. Nat \subseteq P
  BY <1>4, <1>5, AllNat
<1>7. \A k \in 1..n : C(k)
  BY <1>0, <1>6 DEF P
<1>8. ASSUME NEW j \in 1..n - 1, p[j] \in D, p[j + 1] \in D,
             \E k \in 1..j : p[k] \notin D
      PROVE  FALSE
  <2>1. j + 1 \in 1..n /\ (j + 1) - 1 = j /\ \A k \in 1..j : k \in 1..(j + 1)
    BY <1>0
  <2>2. Stays(p, D, j + 1)
    BY <1>8, <2>1 DEF Stays
  <2> QED BY <1>7, <1>8, <2>1, <2>2
<1> QED BY <1>8 DEF Near

\* The list of the entries that stay.
LEMMA WithoutLoop ==
  ASSUME NEW p \in Seq(Nodes), NEW D
  PROVE  \E f : /\ f[0] = <<>> /\ Without(p, D) = f[Len(p)]
                /\ \A i \in 1..Len(p) :
                     f[i] = IF p[i] \in D THEN f[i - 1]
                            ELSE Append(f[i - 1], p[i])
<1> DEFINE n == Len(p)
           IsKept(f) ==
             f = [j \in 0..Len(p) |->
                    IF j = 0 THEN <<>>
                    ELSE IF p[j] \in D THEN f[j - 1]
                    ELSE Append(f[j - 1], p[j])]
           g == CHOOSE f : IsKept(f)
           S == Seq(Nodes)
           step == [i \in Nat |->
                      [s \in S |-> IF i \in 1..n /\ p[i] \notin D
                                     THEN Append(s, p[i]) ELSE s]]
<1>0. n \in Nat /\ \A i \in 1..n : p[i] \in Nodes
  OBVIOUS
<1>1. Without(p, D) = g[n]
  BY DEF Without
<1>2. step \in [Nat -> [S -> S]]
  <2>1. ASSUME NEW i \in Nat, NEW s \in S
        PROVE  (IF i \in 1..n /\ p[i] \notin D THEN Append(s, p[i])
                ELSE s) \in S
    BY <1>0
  <2> QED BY <2>1
<1>3. \A i \in 1..n : \A s \in S :
        step[i][s] = IF p[i] \in D THEN s ELSE Append(s, p[i])
  <2>1. \A i \in 1..n : i \in Nat
    BY <1>0
  <2> QED BY <2>1
<1>4. <<>> \in S
  OBVIOUS
<1> HIDE DEF step, S
<1>5. PICK f : Loop(<<>>, step, n, S, f)
  BY <1>0, <1>2, <1>4, LoopExists
<1>6. /\ f \in [0..n -> S] /\ f[0] = <<>>
      /\ \A i \in 1..n : f[i] = step[i][f[i - 1]]
      /\ \A i \in 1..n : i - 1 \in 0..n
      /\ \A i \in 0..n : i # 0 => i \in 1..n
  BY <1>0, <1>5 DEF Loop
<1>7. \A i \in 0..n : f[i] = IF i = 0 THEN <<>>
                             ELSE IF p[i] \in D THEN f[i - 1]
                             ELSE Append(f[i - 1], p[i])
  BY <1>3, <1>6
<1>8. IsKept(f)
  BY <1>6, <1>7
<1>9. IsKept(g)
  BY <1>8
<1> HIDE DEF g
<1>10. \A i \in 0..n : g[i] = IF i = 0 THEN <<>>
                              ELSE IF p[i] \in D THEN g[i - 1]
                              ELSE Append(g[i - 1], p[i])
  BY <1>9
<1>11. 0 \in 0..n /\ \A i \in 1..n : i \in 0..n /\ i # 0
  BY <1>0
<1>12. g[0] = <<>> /\ \A i \in 1..n : g[i] = IF p[i] \in D THEN g[i - 1]
                                             ELSE Append(g[i - 1], p[i])
  BY <1>10, <1>11
<1> QED BY <1>1, <1>12

\* Without two such neighbours the loop leaves the list of what stays.
LEMMA WithoutChain ==
  ASSUME NEW p \in Seq(Nodes), NEW D, NEW h, NEW nx,
         \A i, j \in 1..Len(p) : p[i] = p[j] => i = j,
         Left(p, D, h, nx), ~Near(p, D)
  PROVE  LET q == Without(p, D) IN
         /\ Chain(h, nx, q) /\ Range(q) = Range(p) \ D /\ Len(q) <= Len(p)
<1> DEFINE n == Len(p)
<1>0. n \in Nat /\ \A i \in 1..n : p[i] \in Nodes
  OBVIOUS
<1>1. PICK f : /\ f[0] = <<>> /\ Without(p, D) = f[n]
               /\ \A i \in 1..n : f[i] = IF p[i] \in D THEN f[i - 1]
                                         ELSE Append(f[i - 1], p[i])
  BY WithoutLoop
<1> DEFINE Entries(g, i) == /\ g \in Seq(Nodes) /\ Len(g) <= i
                            /\ Range(g) = {p[k] : k \in 1..i} \ D
           Once(g) == \A j, k \in 1..Len(g) : g[j] = g[k] => j = k
           First(g, i) == /\ Len(g) = 0 <=> ~Stays(p, D, i)
                          /\ Len(g) > 0 => g[1] = h
           Links(g) == \A j \in 1..Len(g) - 1 : nx[g[j]] = g[j + 1]
           Final(g, i) == Len(g) > 0 =>
             \E l \in 1..i : /\ g[Len(g)] = p[l] /\ p[l] \notin D
                             /\ l = i \/ (l + 1 = i /\ p[i] \in D)
           Good(i) == /\ Entries(f[i], i) /\ Once(f[i]) /\ First(f[i], i)
                      /\ Links(f[i]) /\ Final(f[i], i)
           P == {i \in Nat : i <= n => Good(i)}
<1>2. 0 \in P
  <2>1. 1..0 = {} /\ ~(0 > 0) /\ Len(<<>>) = 0 /\ <<>> \in Seq(Nodes)
        /\ 1..0 - 1 = {}
    OBVIOUS
  <2>2. Range(<<>>) = {} /\ {p[k] : k \in 1..0} = {}
    BY <2>1 DEF Range
  <2>3. ~Stays(p, D, 0)
    BY <2>1 DEF Stays
  <2>4. Entries(<<>>, 0) /\ Once(<<>>) /\ First(<<>>, 0) /\ Final(<<>>, 0)
    BY <2>1, <2>2, <2>3
  <2>5. Links(<<>>)
    BY <2>1
  <2> HIDE DEF Entries, Once, First, Links, Final
  <2> QED BY <1>1, <2>4, <2>5
<1>3. ASSUME NEW i \in Nat, i \in P
      PROVE  i + 1 \in P
  <2> HIDE DEF Entries, Once, First, Links, Final
  <2> SUFFICES ASSUME i + 1 <= n
               PROVE  Good(i + 1)
    OBVIOUS
  <2> DEFINE g == f[i]
             e == p[i + 1]
  <2>1. /\ i + 1 \in 1..n /\ (i + 1) - 1 = i /\ i <= n
        /\ 1..(i + 1) = (1..i) \cup {i + 1} /\ (i > 0 => i \in 1..n - 1)
        /\ \A k \in 1..i : k \in 1..n /\ k # i + 1
    BY <1>0
  <2>2. Good(i)
    BY <1>3, <2>1
  <2>3. /\ Entries(g, i) /\ Once(g) /\ First(g, i) /\ Links(g) /\ Final(g, i)
        /\ Len(g) \in Nat
    BY <2>2 DEF Entries
  <2>4. f[i + 1] = IF e \in D THEN g ELSE Append(g, e)
    BY <1>1, <2>1
  <2>5. {p[k] : k \in 1..(i + 1)} = {p[k] : k \in 1..i} \cup {e}
    BY ONLY <2>1
  <2>6. Stays(p, D, i + 1) <=> Stays(p, D, i) \/ e \notin D
    BY <2>1 DEF Stays
  <2>7. e \in Nodes
    BY <1>0, <2>1
  <2> HIDE DEF g
  <2> USE DEF Entries, Once, First, Links, Final
  <2>8. CASE e \in D
    <3>1. f[i + 1] = g
      BY <2>4, <2>8
    <3>2. Entries(g, i + 1)
      BY <2>3, <2>5, <2>8
    <3>3. First(g, i + 1)
      BY <2>3, <2>6, <2>8
    <3>4. Final(g, i + 1)
      <4> SUFFICES ASSUME Len(g) > 0
                   PROVE  \E l \in 1..(i + 1) :
                            /\ g[Len(g)] = p[l] /\ p[l] \notin D
                            /\ l = i + 1 \/ (l + 1 = i + 1 /\ p[i + 1] \in D)
        OBVIOUS
      <4>1. PICK l \in 1..i : /\ g[Len(g)] = p[l] /\ p[l] \notin D
                              /\ l = i \/ (l + 1 = i /\ p[i] \in D)
        BY <2>3
      <4>2. ~(p[i] \in D)
        <5>1. i \in 1..n - 1
          BY <2>1, <4>1
        <5> QED BY <2>8, <4>1, <5>1 DEF Near
      <4>3. l + 1 = i + 1 /\ l \in 1..(i + 1)
        BY <4>1, <4>2
      <4> QED BY <2>8, <4>1, <4>3
    <3> QED BY <2>3, <3>1, <3>2, <3>3, <3>4
  <2>9. CASE e \notin D
    <3> DEFINE t == Append(g, e)
    <3>0. f[i + 1] = t
      BY <2>4, <2>9
    <3>1. /\ t \in Seq(Nodes) /\ Len(t) = Len(g) + 1 /\ t[Len(g) + 1] = e
          /\ \A k \in 1..Len(g) : t[k] = g[k]
          /\ \A k \in 1..Len(t) : k \in 1..Len(g) \/ k = Len(g) + 1
          /\ Range(t) = Range(g) \cup {e}
      BY <2>3, <2>7, Appended
    <3> HIDE DEF t
    <3>2. Entries(t, i + 1)
      <4>1. Len(t) <= i + 1
        BY <2>3, <3>1
      <4> QED BY <2>3, <2>5, <2>9, <3>1, <4>1
    <3>3. Once(t)
      <4>1. \A k \in 1..Len(g) : g[k] # e
        <5> SUFFICES ASSUME NEW k \in 1..Len(g), g[k] = e
                     PROVE  FALSE
          OBVIOUS
        <5>1. g[k] \in Range(g)
          <6>1. g \in Seq(Nodes)
            BY <2>3
          <6> QED BY ONLY <6>1, k \in 1..Len(g), RangeIs
        <5>2. PICK m \in 1..i : e = p[m]
          BY <2>3, <5>1
        <5> QED BY <2>1, <5>2
      <4> QED BY <2>3, <3>1, <4>1
    <3>4. First(t, i + 1)
      <4>1. Len(t) > 0 /\ Len(t) # 0 /\ Stays(p, D, i + 1)
        BY <2>3, <2>6, <2>9, <3>1
      <4>2. CASE Len(g) = 0
        <5>1. h = p[i + 1]
          BY <2>1, <2>3, <2>9, <4>2 DEF Left
        <5>2. t[1] = e
          BY <3>1, <4>2
        <5> QED BY <4>1, <5>1, <5>2
      <4>3. CASE Len(g) # 0
        <5>1. Len(g) > 0 /\ 1 \in 1..Len(g)
          BY <2>3, <4>3
        <5> QED BY <2>3, <3>1, <4>1, <5>1
      <4> QED BY <4>2, <4>3
    <3>5. Links(t)
      <4> SUFFICES ASSUME NEW j \in 1..Len(t) - 1
                   PROVE  nx[t[j]] = t[j + 1]
        OBVIOUS
      <4>1. j \in 1..Len(g) /\ t[j] = g[j]
        BY <2>3, <3>1
      <4>2. CASE j # Len(g)
        <5>1. j \in 1..Len(g) - 1 /\ j + 1 \in 1..Len(g)
          BY <2>3, <4>1, <4>2
        <5> QED BY <2>3, <3>1, <4>1, <5>1
      <4>3. CASE j = Len(g)
        <5>1. PICK l \in 1..i : /\ g[Len(g)] = p[l] /\ p[l] \notin D
                                /\ l = i \/ (l + 1 = i /\ p[i] \in D)
          BY <2>3, <4>1
        <5>2. nx[p[l]] = NextField(p, D, n, l) /\ l + 1 <= n /\ l \in 1..n
              /\ Stays(p, D, l)
          <6>1. l \in 1..n /\ l + 1 <= n /\ l \in 1..l
            BY <1>0, <2>1
          <6> QED BY <5>1, <6>1 DEF Left, Stays
        <5>3. NextField(p, D, n, l) = At(p, i + 1)
          <6>1. CASE l = i
            BY <2>9, <6>1 DEF NextField
          <6>2. CASE l + 1 = i /\ p[i] \in D
            <7>1. l + 2 = i + 1
              BY <6>2
            <7> QED BY <5>2, <6>2, <7>1 DEF NextField
          <6> QED BY <5>1, <6>1, <6>2
        <5>4. At(p, i + 1) = e
          BY <2>1 DEF At
        <5> QED BY <3>1, <4>1, <4>3, <5>1, <5>2, <5>3, <5>4
      <4> QED BY <4>2, <4>3
    <3>6. Final(t, i + 1)
      <4>1. t[Len(t)] = p[i + 1] /\ i + 1 \in 1..(i + 1)
        BY <3>1
      <4> QED BY <2>9, <4>1
    <3> QED BY <3>0, <3>2, <3>3, <3>4, <3>5, <3>6
  <2> QED BY <2>8, <2>9
<1> HIDE DEF P
<1>4. Nat \subseteq P
  BY <1>2, <1>3, AllNat
<1> HIDE DEF Entries, Once, First, Links, Final
<1>5. Good(n)
  BY <1>0, <1>4 DEF P
<1> DEFINE q == f[n]
<1>6. /\ Entries(q, n) /\ Once(q) /\ First(q, n) /\ Links(q) /\ Final(q, n)
      /\ Len(q) \in Nat
  BY <1>5 DEF Entries
<1> HIDE DEF q
<1> USE DEF Entries, Once, First, Links, Final
<1>7. h = At(q, 1)
  <2>1. CASE Len(q) = 0
    BY <1>6, <2>1 DEF Left, At
  <2>2. CASE Len(q) # 0
    <3>1. Len(q) > 0 /\ 1 <= Len(q)
      BY <1>6, <2>2
    <3> QED BY <1>6, <3>1 DEF At
  <2> QED BY <2>1, <2>2
<1>8. ASSUME NEW j \in 1..Len(q)
      PROVE  nx[q[j]] = At(q, j + 1)
  <2>1. CASE j # Len(q)
    <3>1. j \in 1..Len(q) - 1 /\ j + 1 <= Len(q)
      BY <1>6, <2>1
    <3> QED BY <1>6, <3>1 DEF At
  <2>2. CASE j = Len(q)
    <3>1. PICK l \in 1..n : /\ q[Len(q)] = p[l] /\ p[l] \notin D
                            /\ l = n \/ (l + 1 = n /\ p[n] \in D)
      BY <1>6, <2>2
    <3>2. nx[p[l]] = NextField(p, D, n, l) /\ Stays(p, D, l)
      <4>1. l \in 1..l
        OBVIOUS
      <4> QED BY <3>1, <4>1 DEF Left, Stays
    <3>3. NextField(p, D, n, l) = At(p, n + 1)
      <4>1. CASE l = n
        <5>1. ~(n + 1 <= n)
          BY <1>0
        <5> QED BY <4>1, <5>1 DEF NextField
      <4>2. CASE l + 1 = n /\ p[n] \in D
        <5>1. l + 2 = n + 1 /\ l + 1 <= n
          BY <1>0, <4>2
        <5> QED BY <3>2, <4>2, <5>1 DEF NextField
      <4> QED BY <3>1, <4>1, <4>2
    <3>4. ~(n + 1 <= n) /\ ~(j + 1 <= Len(q))
      BY <1>0, <1>6, <2>2
    <3>5. At(p, n + 1) = Null /\ At(q, j + 1) = Null
      BY <3>4 DEF At
    <3> QED BY <2>2, <3>1, <3>2, <3>3, <3>5
  <2> QED BY <2>1, <2>2
<1>9. Chain(h, nx, q)
  BY <1>6, <1>7, <1>8 DEF Chain
<1>10. Range(p) = {p[k] : k \in 1..n}
  BY RangeIs
<1>11. Without(p, D) = q
  BY <1>1 DEF q
<1> QED BY <1>6, <1>9, <1>10, <1>11

-----------------------------------------------------------------------------
(* The steps                                                               *)

\* formLogin() puts a new entry before the others.
LEMMA PushChain ==
  ASSUME NEW h, NEW nx \in [Nodes -> Ptr], NEW p, Chain(h, nx, p),
         NEW x \in Nodes, x \notin Range(p)
  PROVE  LET q == <<x>> \o p IN
         /\ q \in Seq(Nodes) /\ Chain(x, [nx EXCEPT ![x] = h], q)
         /\ Range(q) = Range(p) \cup {x} /\ Len(q) = Len(p) + 1
<1> DEFINE n == Len(p)
           q == <<x>> \o p
           ny == [nx EXCEPT ![x] = h]
<1>0. /\ p \in Seq(Nodes) /\ n \in Nat /\ h = At(p, 1)
      /\ \A i \in 1..n : p[i] \in Nodes
      /\ \A i \in 1..n : nx[p[i]] = At(p, i + 1)
      /\ \A i, j \in 1..n : p[i] = p[j] => i = j
  BY DEF Chain
<1>1. q \in Seq(Nodes) /\ Len(q) = n + 1 /\ q[1] = x
      /\ \A i \in 1..n : q[i + 1] = p[i]
  BY <1>0
<1> HIDE DEF q
<1>2. Range(p) = {p[i] : i \in 1..n} /\ Range(q) = {q[i] : i \in 1..(n + 1)}
  BY <1>0, <1>1, RangeIs
<1>3. \A i \in 1..(n + 1) : i = 1 \/ (i - 1 \in 1..n /\ (i - 1) + 1 = i)
  BY <1>0
<1>4. \A i \in 1..(n + 1) : q[i] = IF i = 1 THEN x ELSE p[i - 1]
  BY <1>1, <1>3
<1>5. \A i \in 1..n : p[i] # x
  BY <1>2
<1>6. \A i, j \in 1..(n + 1) : q[i] = q[j] => i = j
  <2> SUFFICES ASSUME NEW i \in 1..(n + 1), NEW j \in 1..(n + 1), q[i] = q[j]
               PROVE  i = j
    OBVIOUS
  <2>1. CASE i = 1 \/ j = 1
    BY <1>3, <1>4, <1>5, <2>1
  <2>2. CASE i # 1 /\ j # 1
    <3>1. i - 1 = j - 1
      <4>1. i - 1 \in 1..n /\ j - 1 \in 1..n
        BY <1>3, <2>2
      <4>2. p[i - 1] = p[j - 1]
        BY <1>4, <2>2
      <4> QED BY <1>0, <4>1, <4>2
    <3> QED BY <3>1
  <2> QED BY <2>1, <2>2
<1>7. Range(q) = Range(p) \cup {x}
  <2>1. 1 \in 1..(n + 1) /\ \A i \in 1..n : i + 1 \in 1..(n + 1)
    BY <1>0
  <2>2. Range(q) \subseteq Range(p) \cup {x}
    BY <1>2, <1>3, <1>4
  <2>3. x \in Range(q) /\ \A i \in 1..n : p[i] \in Range(q)
    BY <1>1, <1>2, <2>1
  <2> QED BY <1>2, <2>2, <2>3
<1>8. \A i \in 1..n : At(q, i + 1) = At(p, i) /\ At(p, i) = p[i]
  BY <1>0, <1>1 DEF At
<1>9. At(q, (n + 1) + 1) = Null /\ At(p, n + 1) = Null /\ At(q, 1) = x
  BY <1>0, <1>1 DEF At
<1>10. \A i \in 1..(n + 1) : At(q, i + 1) = At(p, i)
  <2>1. \A i \in 1..(n + 1) : i = n + 1 \/ i \in 1..n
    BY <1>0
  <2> QED BY <1>8, <1>9, <2>1
<1>11. ny[x] = h /\ \A i \in 1..n : ny[p[i]] = nx[p[i]]
  BY <1>0, <1>5
<1> HIDE DEF ny
<1>12. ASSUME NEW i \in 1..(n + 1)
       PROVE  ny[q[i]] = At(q, i + 1)
  <2>1. CASE i = 1
    BY <1>0, <1>1, <1>10, <1>11, <2>1
  <2>2. CASE i # 1
    <3>1. i - 1 \in 1..n /\ (i - 1) + 1 = i /\ q[i] = p[i - 1]
      BY <1>3, <1>4, <2>2
    <3>2. ny[q[i]] = At(p, i)
      BY <1>0, <1>11, <3>1
    <3> QED BY <1>10, <3>2
  <2> QED BY <2>1, <2>2
<1>13. Chain(x, ny, q)
  BY <1>1, <1>6, <1>9, <1>12 DEF Chain
<1> QED BY <1>1, <1>7, <1>13 DEF q, ny

\* The walk over a sound list, and what is on it.
LEMMA SoundList ==
  ASSUME TypeOK, NEW p, IsList(p)
  PROVE  Path = p /\ Listed = alloc
<1>1. head \in Ptr /\ next \in [Nodes -> Ptr]
  BY DEF TypeOK, Ptr
<1>2. Path = p
  BY <1>1, ChainWalk, PathTraverse DEF IsList
<1> QED BY <1>2 DEF IsList, Listed

\* A step that frees entries leaves a list of what is malloc'ed, unless a
\* freed entry is on it; it leaves what was not freed, unless two of the
\* freed ones were neighbours behind one that stays.
LEMMA DeleteStep ==
  ASSUME Inv, Sound, NEW D, Delete(D)
  PROVE  /\ Inv'
         /\ ~Adjacent(alloc \ alloc') => Path' = Without(Path, alloc \ alloc')
<1> DEFINE r == Deleting(head, next, alloc, D)
<1>0. PICK E : E = alloc \ alloc'
  OBVIOUS
<1>1. head \in Ptr /\ next \in [Nodes -> Ptr] /\ alloc \in SUBSET Nodes
  BY DEF Inv, TypeOK, Ptr
<1>2. PICK p \in Seq(Nodes) : IsList(p)
  BY DEF Inv, ListInv
<1>3. Chain(head, next, p) /\ Range(p) = alloc /\ Len(p) <= MaxSessions
  BY <1>2 DEF IsList
<1>4. Path = p
  BY <1>2, SoundList DEF Inv
<1>5. r \in Cutting /\ Passed(p, D, alloc, r, Len(p))
  BY <1>1, <1>3, DeletingLeaves
<1>6. head' = r.head /\ next' = r.next /\ alloc' = r.alloc
  BY WalkDeletingIs DEF Delete
<1>7. head' \in Ptr /\ next' \in [Nodes -> Ptr] /\ alloc' \subseteq Nodes
  BY <1>5, <1>6 DEF Cutting
<1>8. TypeOK'
  <2>1. AnIp \in Ips
    BY LoginAssumption DEF AnIp
  <2>2. ip' \in [Nodes -> Ips]
    BY <2>1 DEF Delete, Inv, TypeOK
  <2>3. sid' \in [Nodes -> Sids \cup {""}]
    BY DEF Delete, Inv, TypeOK
  <2>4. age' \in [Nodes -> 0..AutoExit + 1]
    <3>1. 0 \in 0..AutoExit + 1
      BY NType
    <3> QED BY <3>1 DEF Delete, Inv, TypeOK
  <2> QED BY <1>7, <2>2, <2>3, <2>4 DEF TypeOK, Ptr
<1> DEFINE n == Len(p)
<1>9. n \in Nat /\ Range(p) = {p[k] : k \in 1..n} /\ n \in 0..n
  BY RangeIs
<1>10. alloc' = alloc \ (D \cap alloc)
  BY <1>3, <1>5, <1>6, <1>9 DEF Passed
<1>11. E = D \cap alloc
  BY <1>0, <1>10
<1> HIDE DEF r
<1>12. \A k \in 1..n : p[k] \in E <=> p[k] \in D
  BY <1>3, <1>9, <1>11
<1>13. \A k \in 0..n : Stays(p, E, k) <=> Stays(p, D, k)
  <2>1. \A k \in 0..n : \A m \in 1..k : m \in 1..n
    BY <1>9
  <2> QED BY <1>12, <2>1 DEF Stays
<1>14. \A k \in 1..n : NextField(p, E, n, k) = NextField(p, D, n, k)
  <2>1. \A k \in 1..n : k \in 0..n /\ (k + 1 <= n => k + 1 \in 1..n)
    BY <1>9
  <2> QED BY <1>12, <1>13, <2>1 DEF NextField
<1>15. Left(p, E, head', next')
  <2>1. At(p, n + 1) = Null
    BY <1>9 DEF At
  <2>2. ~Stays(p, E, n) => head' = Null
    BY <1>5, <1>6, <1>9, <1>13, <2>1 DEF Passed
  <2>3. Stays(p, E, n) => \E m \in 1..n : head' = p[m]
    BY <1>5, <1>6, <1>9, <1>13 DEF Passed
  <2>4. ASSUME NEW k \in 1..n, p[k] \notin E, ~Stays(p, E, k - 1)
        PROVE  head' = p[k]
    <3>1. k - 1 \in 0..n
      BY <1>9
    <3> QED BY <1>5, <1>6, <1>12, <1>13, <2>4, <3>1 DEF Passed
  <2>5. \A k \in 1..n : next'[p[k]] = NextField(p, E, n, k)
    BY <1>5, <1>6, <1>14 DEF Passed
  <2> QED BY <2>2, <2>3, <2>4, <2>5 DEF Left
<1>16. \A i, j \in 1..n : p[i] = p[j] => i = j
  BY <1>3 DEF Chain
<1>17. Path' = Traverse(head', next')
  BY PathTraverse
<1>18. ASSUME ~Near(p, E)
       PROVE  /\ Path' = Without(p, E)
              /\ Without(p, E) \in Seq(Nodes) /\ IsList(Without(p, E))'
  <2> DEFINE q == Without(p, E)
  <2>1. Chain(head', next', q) /\ Range(q) = Range(p) \ E /\ Len(q) <= n
    BY <1>15, <1>16, <1>18, WithoutChain
  <2> HIDE DEF q
  <2>2. Path' = q
    BY <1>7, <1>17, <2>1, ChainWalk
  <2>3. Range(q) = alloc'
    BY <1>3, <1>10, <1>11, <2>1
  <2>4. q \in Seq(Nodes) /\ Len(q) \in Nat
    BY <2>1 DEF Chain
  <2>5. Len(q) <= MaxSessions
    BY <1>3, <1>9, <2>1, <2>4, NType
  <2>6. IsList(q)'
    BY <2>1, <2>3, <2>5 DEF IsList, q
  <2> QED BY <2>2, <2>4, <2>6 DEF q
<1>19. ASSUME Sound'
       PROVE  ~Near(p, E)
  <2>1. Range(Traverse(head', next')) \subseteq alloc'
    BY <1>17, <1>19 DEF Sound, Listed
  <2>2. \A k \in 1..n : p[k] \in Range(Traverse(head', next')) => p[k] \notin E
    BY <1>10, <1>11, <2>1
  <2> QED BY <1>7, <1>15, <1>16, <2>2, NearUnsound
<1>20. ListInv'
  BY <1>18, <1>19 DEF ListInv
<1>21. Adjacent(E) <=> Near(p, E)
  BY <1>4 DEF Adjacent, Near
<1> QED BY <1>0, <1>4, <1>8, <1>18, <1>20, <1>21 DEF Inv

\* A step that leaves the list as it is.
LEMMA SameList ==
  ASSUME UNCHANGED <<head, next, alloc>>, ListInv
  PROVE  ListInv' /\ Path' = Path
<1>1. Path' = Path
  BY PathTraverse
<1>2. Sound' <=> Sound
  BY <1>1 DEF Sound, Listed
<1>3. ASSUME NEW p \in Seq(Nodes), IsList(p)
      PROVE  IsList(p)'
  BY <1>3 DEF IsList
<1> QED BY <1>1, <1>2, <1>3 DEF ListInv

\* The list is empty at first.
LEMMA InvInit == Init => Inv
<1> SUFFICES ASSUME Init
             PROVE  Inv
  OBVIOUS
<1>1. AnIp \in Ips /\ 0 \in 0..AutoExit + 1
  <2>1. Ips # {}
    BY Zenon, LoginAssumption
  <2> QED BY <2>1, NType DEF AnIp
<1>2. TypeOK
  BY <1>1 DEF Init, TypeOK
<1>3. <<>> \in Seq(Nodes) /\ Len(<<>>) = 0 /\ 1..0 = {} /\ ~(1 <= 0)
  OBVIOUS
<1>4. Range(<<>>) = {}
  BY <1>3 DEF Range
<1>5. IsList(<<>>)
  <2>1. 0 <= MaxSessions
    BY NType
  <2> QED BY <1>3, <1>4, <2>1 DEF Init, IsList, Chain, At
<1> QED BY <1>2, <1>3, <1>5 DEF Inv, ListInv

\* formLogin() keeps the invariant.
LEMMA LoginStep ==
  ASSUME Inv, NEW i \in Ips, NEW c \in Cookies, Login(i, c)
  PROVE  Inv'
<1>1. head \in Ptr /\ next \in [Nodes -> Ptr] /\ alloc \subseteq Nodes
      /\ 0 \in 0..AutoExit + 1
  <2>1. 0 \in 0..AutoExit + 1
    BY NType
  <2> QED BY <2>1 DEF Inv, TypeOK, Ptr
<1>2. CASE \E n \in Nodes \ alloc :
             /\ alloc' = alloc \cup {n}
             /\ next' = [next EXCEPT ![n] = head]
             /\ head' = n
             /\ ip' = [ip EXCEPT ![n] = i]
             /\ sid' = [sid EXCEPT ![n] = ""]
             /\ age' = [age EXCEPT ![n] = 0]
  <2>1. PICK n \in Nodes \ alloc :
             /\ alloc' = alloc \cup {n}
             /\ next' = [next EXCEPT ![n] = head]
             /\ head' = n
             /\ ip' = [ip EXCEPT ![n] = i]
             /\ sid' = [sid EXCEPT ![n] = ""]
             /\ age' = [age EXCEPT ![n] = 0]
    BY <1>2
  <2>2. TypeOK'
    BY <1>1, <2>1 DEF Inv, TypeOK, Ptr
  <2>3. Sound /\ HasRoom
    BY DEF Login
  <2>4. PICK p \in Seq(Nodes) : IsList(p)
    BY <2>3 DEF Inv, ListInv
  <2>5. Path = p
    BY <2>4, SoundList DEF Inv
  <2> DEFINE q == <<n>> \o p
  <2>6. /\ q \in Seq(Nodes) /\ Chain(n, [next EXCEPT ![n] = head], q)
        /\ Range(q) = Range(p) \cup {n} /\ Len(q) = Len(p) + 1
    BY <1>1, <2>4, PushChain DEF IsList
  <2> HIDE DEF q
  <2>7. Len(p) \in Nat /\ Len(p) < MaxSessions
    BY <2>3, <2>5 DEF HasRoom
  <2>8. Len(q) <= MaxSessions
    BY <2>6, <2>7, NType
  <2>9. Range(q) = alloc' /\ Chain(head', next', q)
    BY <2>1, <2>4, <2>6 DEF IsList
  <2>10. IsList(q)'
    BY <2>8, <2>9 DEF IsList, q
  <2> QED BY <2>2, <2>6, <2>10 DEF Inv, ListInv
<1>3. CASE /\ age' = [age EXCEPT ![SearchLoginList(i, c)] = 0]
           /\ UNCHANGED <<head, next, alloc, ip, sid>>
  <2>1. TypeOK'
    BY <1>1, <1>3 DEF Inv, TypeOK
  <2> QED BY <1>3, <2>1, SameList DEF Inv
<1> QED BY <1>2, <1>3 DEF Login

\* Every step keeps the invariant, and what is freed on the way leaves the
\* others on the list.
LEMMA InvNext ==
  ASSUME Inv, [Next]_vars
  PROVE  /\ Inv'
         /\ alloc \ alloc' # {} /\ ~Adjacent(alloc \ alloc')
            => Path' = Without(Path, alloc \ alloc')
<1> DEFINE Kept == alloc \ alloc' = {}
<1>0. 0 \in 0..AutoExit + 1
  BY NType
<1>1. ASSUME NEW i \in Ips, NEW c \in Cookies, Login(i, c)
      PROVE  Inv' /\ Kept
  <2>1. Kept
    BY <1>1 DEF Login
  <2> QED BY <1>1, <2>1, LoginStep
<1>2. ASSUME NEW i \in Ips, NEW c \in Cookies, SetCookie(i, c)
      PROVE  Inv' /\ Kept
  <2>1. UNCHANGED <<head, next, alloc, ip, age>>
    BY <1>2 DEF SetCookie
  <2>2. sid' \in [Nodes -> Sids \cup {""}]
    <3>1. CookieSid(c) \subseteq Sids
      BY DEF CookieSid
    <3> QED BY <1>2, <3>1 DEF SetCookie, Inv, TypeOK
  <2>3. TypeOK'
    BY <2>1, <2>2 DEF Inv, TypeOK
  <2> QED BY <2>1, <2>3, SameList DEF Inv
<1>3. ASSUME NEW i \in Ips, NEW c \in Cookies, Authorized(i, c)
      PROVE  Inv' /\ Kept
  <2>1. UNCHANGED <<head, next, alloc, ip, sid>>
    BY <1>3 DEF Authorized
  <2>2. age' \in [Nodes -> 0..AutoExit + 1]
    BY <1>0, <1>3 DEF Authorized, Inv, TypeOK
  <2>3. TypeOK'
    BY <2>1, <2>2 DEF Inv, TypeOK
  <2> QED BY <2>1, <2>3, SameList DEF Inv
<1>4. CASE Tick
  <2>1. UNCHANGED <<head, next, alloc, ip, sid>>
    BY <1>4 DEF Tick
  <2>2. age' \in [Nodes -> 0..AutoExit + 1]
    <3>1. ASSUME NEW a \in 0..AutoExit + 1
          PROVE  a <= AutoExit => a + 1 \in 0..AutoExit + 1
      BY NType
    <3> QED BY <1>4, <3>1 DEF Tick, Inv, TypeOK
  <2>3. TypeOK'
    BY <2>1, <2>2 DEF Inv, TypeOK
  <2> QED BY <2>1, <2>3, SameList DEF Inv
<1>5. CASE UNCHANGED vars
  <2>1. UNCHANGED <<head, next, alloc, ip, sid, age>>
    BY <1>5 DEF vars
  <2>2. TypeOK'
    BY <2>1 DEF Inv, TypeOK
  <2> QED BY <2>1, <2>2, SameList DEF Inv
<1>6. ASSUME Sound, \E D : Delete(D)
      PROVE  /\ Inv'
             /\ ~Adjacent(alloc \ alloc')
                => Path' = Without(Path, alloc \ alloc')
  BY <1>6, DeleteStep
<1>7. ASSUME NEW i \in Ips, NEW c \in Cookies, Unauthorized(i, c)
      PROVE  Sound /\ \E D : Delete(D)
  BY <1>7 DEF Unauthorized
<1>8. ASSUME NEW s \in Sids, Logout(s)
      PROVE  Sound /\ \E D : Delete(D)
  BY <1>8 DEF Logout
<1>9. FreeLoginList \/ Sweep => Sound /\ \E D : Delete(D)
  BY DEF FreeLoginList, Sweep
<1> QED BY <1>1, <1>2, <1>3, <1>4, <1>5, <1>6, <1>7, <1>8, <1>9 DEF Next

-----------------------------------------------------------------------------
(* The theorems                                                            *)

\* The invariant holds of every behaviour.
LEMMA Invariant == Spec => []Inv
<1>1. Inv /\ [Next]_vars => Inv'
  BY InvNext
<1> QED BY InvInit, <1>1, PTL DEF Spec

\* Types: every pointer of the list is null or points to a struct, and what
\* print_set_cookie() stores is a session id.
THEOREM TypeCorrect == Spec => []TypeOK
<1>1. Inv => TypeOK
  BY DEF Inv
<1> QED BY Invariant, <1>1, PTL

\* As long as no freed entry is on it, the list holds every malloc'ed entry,
\* and each once, whatever was freed during a walk.
THEOREM NoLeakHolds == Spec => []NoLeak
<1>1. Inv => NoLeak
  <2> SUFFICES ASSUME Inv, Sound
               PROVE  Listed = alloc /\ Len(Path) = Cardinality(Listed)
    BY DEF NoLeak
  <2>1. PICK p \in Seq(Nodes) : IsList(p)
    BY DEF Inv, ListInv
  <2>2. Path = p /\ Listed = alloc
    BY <2>1, SoundList DEF Inv
  <2>3. Cardinality(Range(p)) = Len(p)
    BY <2>1, ListLength DEF IsList, Chain
  <2> QED BY <2>2, <2>3 DEF Listed
<1> QED BY Invariant, <1>1, PTL

\* formLogin() never makes the list longer than MaxSessions.
THEOREM SessionBoundHolds == Spec => []SessionBound
<1>1. Inv => SessionBound
  <2> SUFFICES ASSUME Inv, Sound
               PROVE  Len(Path) <= MaxSessions
    BY DEF SessionBound
  <2>1. PICK p \in Seq(Nodes) : IsList(p)
    BY DEF Inv, ListInv
  <2> QED BY <2>1, SoundList DEF Inv, IsList
<1> QED BY Invariant, <1>1, PTL

\* A walk that frees entries leaves the others on the list in their order,
\* unless two that it frees are neighbours behind one that stays.
THEOREM WalkExactHolds == Spec => WalkExact
<1>1. Inv /\ [Next]_vars =>
        [LET D == alloc \ alloc' IN
         D # {} /\ ~Adjacent(D) => Path' = Without(Path, D)]_vars
  BY InvNext
<1> QED BY Invariant, <1>1, PTL DEF Spec, WalkExact

=============================================================================
