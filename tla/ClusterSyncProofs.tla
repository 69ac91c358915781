-------------------------- MODULE ClusterSyncProofs --------------------------
(***************************************************************************)
(* Theorems about ClusterSync: its types, and that a managed router that   *)
(* has all frames of the present sequence number, each of them whole, has  *)
(* saved exactly the settings of the managing one.  They hold for frames   *)
(* of any size, chains of any length and any number of frames under way;   *)
(* the second needs fewer changes, restarts and failing calls than there   *)
(* are sequence numbers.                                                   *)
(***************************************************************************)
EXTENDS ClusterSync, FiniteSetTheorems, SequenceTheorems, TLAPS

\* The first option of frame i.
Lo(i) == i * Room

\* The counters stay below the events that raise them, and the client's place
\* in the settings goes with the number of its frame.
Counts ==
    /\ conf.version + run + failures <= MaxEvents
    /\ next_seq <= conf.version /\ (changed => next_seq < conf.version)
    /\ cpc = "send" => option = Lo(index)

Base == TypeOK /\ Counts

\* The sequence number of a round is that of the last signal, or the one
\* before.
ClientInv ==
    /\ cur_seq <= next_seq /\ next_seq <= cur_seq + 1
    /\ cpc = "store" => cur_seq <= reg /\ reg <= next_seq

\* Every change has been announced, and the present round is of the
\* announced settings.
Announced == ~changed /\ next_seq = cur_seq /\ cpc # "dead"

\* The options that frame i of the present settings holds.
Slice(i) ==
    {o \in Options : Lo(i) <= o /\ o < Lo(i) + Room /\ o <= conf.chain + 1}

\* The frame is one of the present settings.
Genuine(f) ==
    /\ f.data = Slice(f.id) \X {conf.version}
    /\ f.end <=> conf.chain + 2 < Lo(f.id) + Room

\* The wlan entries of a round of announced settings are the present ones,
\* unless they could not be read.
SendInv == cpc = "send" /\ Announced => wlan \in {conf.version, NoVersion}

\* A frame of this run was sent in this or an earlier round; under the
\* present number it holds the present settings, if it is whole.
FrameInv(f) ==
    /\ f.run <= run
    /\ f.run = run => cpc # "start" /\ f.seq <= cur_seq
    /\ f.run = run /\ Announced /\ f.seq = cur_seq /\ f.whole => Genuine(f)

NetInv == \A k \in 1..Len(net) : FrameInv(net[k])

\* The masks of the server go with the runs its frames are from, and a full
\* set was saved.
MaskInv ==
    /\ pktidmask = {} <=> runs = {}
    /\ pktidmask = {} => ~chainidmask /\ totalcnt = 0
    /\ \A r \in runs : r <= run
    /\ run \in runs => cpc # "start" /\ seq <= cur_seq
    /\ AllReceived(pktidmask, totalcnt) => mib = saved

\* The options of the frames that the server has.
Covered == UNION {Slice(i) : i \in pktidmask}

\* Under the present number the server has of these options the present
\* values, and of the chain nothing else once it has an entry, if its frames
\* were sent and applied whole.
MibInv ==
    OneRun /\ Announced /\ seq = cur_seq /\ pktidmask # {} /\ whole =>
        /\ totalcnt # 0 => conf.chain + 2 < Lo(totalcnt)
        /\ \A m \in mib : m[1] \in Covered => m[2] = conf.version
        /\ \A o \in Covered : <<o, conf.version>> \in mib
        /\ chainidmask <=> Covered \cap Chain # {}
        /\ chainidmask => \A m \in mib : IsChain(m) => m[1] \in Covered

SyncInv == ClientInv /\ SendInv /\ NetInv /\ MaskInv /\ MibInv

-----------------------------------------------------------------------------
(* Constants and operators                                                 *)

\* The bounds are numbers.
LEMMA BoundsType ==
    /\ Room \in Nat /\ Room > 0 /\ MaxNet \in Nat /\ MaxNet > 0
    /\ MaxChain \in Nat /\ MaxEvents \in Nat
BY BoundsAssumption

\* What \div rounds down.
LEMMA Quotient ==
    ASSUME NEW o \in Nat, NEW r \in Nat, r > 0
    PROVE  /\ o \div r \in Nat
           /\ (o \div r) * r <= o /\ o < (o \div r) * r + r
<1>1. o \div r \in Nat
  OBVIOUS
<1>2. (o \div r) * r <= o
  OBVIOUS
<1>3. o < (o \div r) * r + r
  OBVIOUS
<1> QED BY <1>1, <1>2, <1>3

\* The frames cut the options into pieces of Room, and LastId is the last one
\* that holds an option or the end.
LEMMA LoProperties ==
    /\ Lo(0) = 0
    /\ \A i \in Nat : Lo(i) \in Nat /\ Lo(i + 1) = Lo(i) + Room
    /\ \A i, j \in Nat : i < j => Lo(i) + Room <= Lo(j)
    /\ \A o \in Nat : \E i \in Nat : Lo(i) <= o /\ o < Lo(i) + Room
    /\ LastId \in Nat
    /\ \A i \in Nat : Lo(i) <= MaxChain + 2 => i \in Ids
<1> USE BoundsType
<1>1. Lo(0) = 0
  BY DEF Lo
<1>2. ASSUME NEW i \in Nat
      PROVE  Lo(i) \in Nat /\ Lo(i + 1) = Lo(i) + Room
  BY DEF Lo
<1>3. ASSUME NEW i \in Nat, NEW j \in Nat, i < j
      PROVE  Lo(i) + Room <= Lo(j)
  <2>1. PICK d \in Nat : j = i + 1 + d
    BY <1>3, j - i - 1 \in Nat, j = i + 1 + (j - i - 1)
  <2>2. Lo(j) = Lo(i) + Room + d * Room /\ d * Room \in Nat
    BY <2>1 DEF Lo
  <2> QED BY <2>2, <1>2
<1>4. ASSUME NEW o \in Nat
      PROVE  \E i \in Nat : Lo(i) <= o /\ o < Lo(i) + Room
  BY <1>4, Quotient DEF Lo
<1>5. /\ LastId \in Nat
      /\ MaxChain + 2 < Lo(LastId + 1)
  <2>1. /\ LastId \in Nat
        /\ MaxChain + 2 < Lo(LastId) + Room
    BY Quotient, MaxChain + 2 \in Nat DEF Lo, LastId
  <2> QED BY <2>1, <1>2
<1>6. ASSUME NEW i \in Nat, Lo(i) <= MaxChain + 2
      PROVE  i \in Ids
  <2>1. CASE i = LastId + 1
    <3>1. Lo(i) \in Nat
      BY <1>2
    <3> QED BY <1>5, <1>6, <2>1, <3>1
  <2>2. CASE LastId + 1 < i
    <3>1. Lo(LastId + 1) \in Nat /\ Lo(i) \in Nat
      BY <1>2, <1>5
    <3> QED BY <1>3, <1>5, <1>6, <2>2, <3>1
  <2> QED BY <1>5, <2>1, <2>2 DEF Ids
<1> QED BY <1>1, <1>2, <1>3, <1>4, <1>5, <1>6

\* What may happen to a frame that is built: nothing, or an option that
\* cannot be read.
Mishaps == {NoOption} \cup (Fitting(NoOption) \ {0})

\* addOption() fills a frame that is not the last.
LEMMA Filling ==
    ASSUME TypeOK
    PROVE  /\ LastFrame(NoOption) <=> conf.chain + 2 < option + Room
           /\ ~LastFrame(NoOption) => Cardinality(Fitting(NoOption)) = Room
<1> USE BoundsType
<1>0. option \in Nat /\ conf.chain \in 0..MaxChain
  BY DEF TypeOK
<1>1. Left(NoOption) = option..(conf.chain + 1)
  BY <1>0 DEF Left, Options, NoOption, Chain
<1>2. LastFrame(NoOption) <=> conf.chain + 2 < option + Room
  <2>1. PICK c \in Int : c = conf.chain + 1
    BY <1>0
  <2>2. Cardinality(option..c) = IF option > c THEN 0 ELSE c - option + 1
    BY <1>0, FS_Interval
  <2>3. Left(NoOption) = option..c
    BY <1>1, <2>1
  <2> QED BY <1>0, <2>1, <2>2, <2>3 DEF LastFrame
<1>3. ASSUME ~LastFrame(NoOption)
      PROVE  Cardinality(Fitting(NoOption)) = Room
  <2>1. Fitting(NoOption) = option..(option + Room - 1)
    BY <1>0, <1>1, <1>2, <1>3 DEF Fitting
  <2> QED BY <1>0, <2>1, FS_Interval
<1> QED BY <1>2, <1>3

\* An entry of the chain that cannot be read ends the round; a single value
\* leaves the frames as they are.
LEMMA Cutting ==
    ASSUME TypeOK, NEW bad \in Mishaps
    PROVE  LastFrame(bad) \/ Left(bad) = Left(NoOption)
<1> USE BoundsType
<1>0. option \in Nat /\ conf.chain \in 0..MaxChain
  BY DEF TypeOK
<1>1. CASE bad \in Chain
  <2>1. bad \in Int /\ option <= bad /\ bad < option + Room
    BY <1>0, <1>1 DEF Mishaps, Fitting, Left, Options, NoOption, Chain
  <2>2. Left(bad) \subseteq option..(bad - 1)
    BY <1>0, <1>1, <2>1 DEF Left, Options
  <2>3. PICK c \in Int : c = bad - 1
    BY <2>1
  <2>4. /\ IsFiniteSet(option..c)
        /\ Cardinality(option..c) = IF option > c THEN 0 ELSE c - option + 1
    <3>1. option \in Int /\ c \in Int
      BY <1>0, <2>3
    <3> QED BY ONLY <3>1, FS_Interval
  <2>5. /\ Cardinality(Left(bad)) <= Cardinality(option..c)
        /\ Cardinality(Left(bad)) \in Nat
    <3>1. Left(bad) \subseteq option..c
      BY <2>2, <2>3
    <3>2. IsFiniteSet(Left(bad))
      BY <2>4, <3>1, FS_Subset
    <3> QED BY <2>4, <3>1, <3>2, FS_Subset, FS_CardinalityType
  <2> QED BY <1>0, <2>1, <2>3, <2>4, <2>5 DEF LastFrame
<1>2. CASE bad \notin Chain
  BY <1>2 DEF Left, NoOption, Chain
<1> QED BY <1>1, <1>2

\* A frame that arrives leaves the others under way.
LEMMA Delivered ==
    ASSUME NEW S, NEW s \in Seq(S), NEW k \in 1..Len(s)
    PROVE  LET t == SubSeq(s, 1, k - 1) \o SubSeq(s, k + 1, Len(s)) IN
           /\ t \in Seq(S) /\ Len(t) = Len(s) - 1
           /\ \A j \in 1..Len(t) : \E i \in 1..Len(s) : t[j] = s[i]
<1> DEFINE a == SubSeq(s, 1, k - 1)
           b == SubSeq(s, k + 1, Len(s))
           t == a \o b
<1>1. /\ a \in Seq(S) /\ Len(a) = k - 1
      /\ \A j \in 1..Len(a) : a[j] = s[j]
  BY SubSeqProperties
<1>2. /\ b \in Seq(S) /\ Len(b) = Len(s) - k
      /\ \A j \in 1..Len(b) : b[j] = s[k + j]
  BY SubSeqProperties
<1> HIDE DEF a, b
<1>3. /\ t \in Seq(S) /\ Len(t) = Len(a) + Len(b)
      /\ \A j \in 1..Len(t) : t[j] = IF j <= Len(a) THEN a[j]
                                     ELSE b[j - Len(a)]
  <2>1. /\ t \in Seq(S) /\ Len(t) = Len(a) + Len(b)
        /\ \A j \in 1..(Len(a) + Len(b)) :
             t[j] = IF j <= Len(a) THEN a[j] ELSE b[j - Len(a)]
    BY <1>1, <1>2, ConcatProperties
  <2> QED BY <2>1
<1> HIDE DEF t
<1>4. Len(s) \in Nat /\ k \in Nat /\ Len(t) = Len(s) - 1
  BY <1>1, <1>2, <1>3
<1>5. ASSUME NEW j \in 1..Len(t)
      PROVE  \E i \in 1..Len(s) : t[j] = s[i]
  <2>0. j \in Nat
    BY <1>3, <1>4
  <2>1. CASE j <= Len(a)
    <3>1. t[j] = s[j] /\ j \in 1..Len(s)
      BY <1>1, <1>3, <1>4, <2>0, <2>1
    <3> QED BY <3>1
  <2>2. CASE ~(j <= Len(a))
    <3>1. t[j] = b[j - (k - 1)]
      BY <1>1, <1>3, <2>2
    <3>2. j - (k - 1) \in 1..Len(b)
      BY <1>1, <1>2, <1>4, <2>0, <2>2
    <3>3. t[j] = s[k + (j - (k - 1))]
      BY <1>2, <3>1, <3>2
    <3>4. k + (j - (k - 1)) \in 1..Len(s)
      BY <1>4, <1>2, <2>0, <3>2
    <3> QED BY <3>3, <3>4
  <2> QED BY <2>1, <2>2
<1>6. t \in Seq(S)
  BY <1>3
<1> QED BY <1>4, <1>5, <1>6 DEF t, a, b

-----------------------------------------------------------------------------
(* Types                                                                   *)

\* Both routers start with nothing sent.
LEMMA InitBase == Init => Base
<1> SUFFICES ASSUME Init
             PROVE  Base
  OBVIOUS
<1> USE BoundsType
<1>1. 0 \in Ids /\ 0 \in Seqs /\ 0 \in Versions /\ LastId \in Nat
  BY LoProperties DEF Ids, Seqs, Versions
<1>2. conf \in [version : Versions, chain : 0..MaxChain] /\ conf.version = 0
  BY <1>1 DEF Init
<1>3. mib \in SUBSET (Options \X (Versions \cup {NoVersion})) /\ saved = mib
  BY DEF Init
<1>4. net \in Seq(Frames) /\ Len(net) <= MaxNet
  BY DEF Init
<1>5. /\ {cur_seq, next_seq, reg} \subseteq Seqs /\ index \in Ids
      /\ option \in 0..(MaxChain + 2) /\ wlan \in Versions \cup {NoVersion}
      /\ run \in 0..MaxEvents /\ failures \in 0..MaxEvents
      /\ totalcnt \in 0..(LastId + 1)
  BY <1>1 DEF Init
<1>6. TypeOK
  BY <1>1, <1>2, <1>3, <1>4, <1>5 DEF Init, TypeOK
<1>7. Counts
  BY <1>2 DEF Init, Counts
<1> QED BY <1>6, <1>7 DEF Base

\* The frame the client builds, and its next place in the settings.
LEMMA FrameType ==
    ASSUME Base, cpc = "send", NEW bad \in Mishaps
    PROVE  /\ Frame(bad) \in Frames
           /\ ~LastFrame(bad) =>
                /\ index + 1 \in Ids
                /\ option + Cardinality(Fitting(bad)) = Lo(index + 1)
                /\ Lo(index + 1) <= conf.chain + 2
                /\ Lo(index + 1) \in 0..(MaxChain + 2)
<1> USE BoundsType
<1>1. Frame(bad) \in Frames
  <2>1. Fitting(bad) \subseteq Options
    BY DEF Fitting, Left
  <2>2. \A o \in Options : Value(o, bad) \in Versions \cup {NoVersion}
    BY DEF Value, Base, TypeOK
  <2>3. {<<o, Value(o, bad)>> : o \in Fitting(bad)}
          \in SUBSET (Options \X (Versions \cup {NoVersion}))
    BY <2>1, <2>2
  <2>4. LastFrame(bad) \in BOOLEAN
    BY DEF LastFrame
  <2>5. (bad = NoOption /\ ~(option = 0 /\ wlan = NoVersion)) \in BOOLEAN
    OBVIOUS
  <2> QED BY <2>3, <2>4, <2>5 DEF Frame, Frames, Base, TypeOK
<1>2. ASSUME ~LastFrame(bad)
      PROVE  /\ index + 1 \in Ids
             /\ option + Cardinality(Fitting(bad)) = Lo(index + 1)
             /\ Lo(index + 1) <= conf.chain + 2
             /\ Lo(index + 1) \in 0..(MaxChain + 2)
  <2>0. ~LastFrame(NoOption) /\ Fitting(bad) = Fitting(NoOption)
    BY <1>2, Cutting DEF Fitting, LastFrame, Base
  <2>1. index \in Nat /\ conf.chain \in 0..MaxChain /\ option = Lo(index)
    BY LoProperties DEF Base, TypeOK, Counts, Ids
  <2>2. Lo(index + 1) = Lo(index) + Room /\ Lo(index) \in Nat
    BY <2>1, LoProperties
  <2>3. option + Cardinality(Fitting(bad)) = Lo(index + 1)
    BY <2>0, <2>1, <2>2, Filling DEF Base
  <2>4. Lo(index + 1) <= conf.chain + 2
    BY <2>0, <2>1, <2>2, Filling DEF Base
  <2>5. Lo(index + 1) \in 0..(MaxChain + 2)
    BY <2>1, <2>2, <2>4
  <2>6. index + 1 \in Ids
    BY <2>1, <2>5, LoProperties
  <2> QED BY <2>3, <2>4, <2>5, <2>6
<1> QED BY <1>1, <1>2

\* A failing call is counted.
LEMMA FaultyType ==
    ASSUME Base, Faulty
    PROVE  /\ failures' \in 0..MaxEvents
           /\ conf.version + run + failures' <= MaxEvents
<1>1. /\ conf.version \in Nat /\ run \in Nat /\ failures \in Nat
      /\ conf.version + run + failures < MaxEvents /\ failures' = failures + 1
  BY BoundsType DEF Faulty, EventsLeft, Versions, Base, TypeOK
<1> QED BY ONLY <1>1, BoundsType

\* A sequence number is raised once for each change at most.
LEMMA NextSeqType ==
    ASSUME Base, changed
    PROVE  NextSeq \in Seqs /\ NextSeq <= conf.version
<1>1. next_seq \in Nat /\ conf.version \in 0..MaxEvents
      /\ next_seq + 1 <= conf.version
  BY BoundsType DEF Base, TypeOK, Counts, Seqs, Versions
<1>2. /\ (next_seq + 1) % 65536 \in Nat
      /\ (next_seq + 1) % 65536 <= next_seq + 1
  BY <1>1
<1> QED BY <1>1, <1>2, BoundsType DEF NextSeq, Seqs

\* The steps of the managing router keep the types.
LEMMA ClientBase ==
    ASSUME Base,
           \/ \E n \in {conf.chain + i : i \in -1..1} : Change(n)
           \/ Signal \/ ClientStep \/ SendFaulty \/ LoseFrame \/ ClientRestart
    PROVE  Base'
<1> USE BoundsType DEF Base, TypeOK, Counts, client, server
<1>0. 0 \in Ids /\ 0 \in Seqs /\ 0 \in Versions /\ Lo(0) = 0
  BY LoProperties DEF Ids, Seqs, Versions
<1>1. CASE \E n \in {conf.chain + i : i \in -1..1} : Change(n)
  <2>1. PICK n \in 0..MaxChain : Change(n)
    BY <1>1 DEF Change
  <2>2. conf.version + 1 \in Versions
        /\ conf.version + 1 + run + failures <= MaxEvents
    BY SMTT(20), <2>1 DEF Change, EventsLeft, Versions
  <2>3. /\ conf' = [version |-> conf.version + 1, chain |-> n]
        /\ changed' = TRUE
        /\ UNCHANGED <<client, net, server, failures>>
    BY <2>1 DEF Change
  <2>4. conf' \in [version : Versions, chain : 0..MaxChain]
        /\ conf'.version = conf.version + 1
    BY <2>2, <2>3
  <2>5. next_seq \in Nat /\ conf.version \in Nat
    BY DEF Seqs, Versions
  <2>6. TypeOK'
    BY <2>3, <2>4
  <2>7. Counts'
    <3>1. /\ next_seq' = next_seq /\ run' = run /\ failures' = failures
          /\ cpc' = cpc /\ option' = option /\ index' = index
      BY ONLY <2>3 DEF client
    <3>2. Counts
      OBVIOUS
    <3>3. conf'.version + run' + failures' <= MaxEvents
      BY ONLY <2>2, <2>4, <3>1
    <3>4. next_seq' <= conf'.version /\ next_seq' < conf'.version
      BY ONLY <2>4, <2>5, <3>1, <3>2 DEF Counts
    <3>5. cpc' = "send" => option' = Lo(index')
      BY ONLY <3>1, <3>2 DEF Counts
    <3> QED BY ONLY <3>3, <3>4, <3>5 DEF Counts
  <2> QED BY <2>6, <2>7
<1>2. CASE Signal
  <2>1. NextSeq \in Seqs /\ NextSeq <= conf.version
    BY <1>2, NextSeqType DEF Signal
  <2> QED BY <1>2, <2>1 DEF Signal
<1>3. CASE ClientInit
  BY <1>3 DEF ClientInit
<1>4. CASE LoadSeq
  BY <1>4 DEF LoadSeq
<1>5. CASE StoreSeq
  BY <1>0, <1>5 DEF StoreSeq
<1>f. ASSUME UNCHANGED failures \/ Faulty
      PROVE  /\ failures' \in 0..MaxEvents
             /\ conf.version + run + failures' <= MaxEvents
  BY <1>f, FaultyType
<1>6. CASE ReadWlan
  <2>1. /\ failures' \in 0..MaxEvents
        /\ conf.version + run + failures' <= MaxEvents
    BY <1>6, <1>f DEF ReadWlan
  <2>2. wlan' \in Versions \cup {NoVersion}
    BY <1>6 DEF ReadWlan
  <2> QED BY <1>0, <1>6, <2>1, <2>2 DEF ReadWlan
<1>7. ASSUME NEW bad \in Mishaps, Sent(bad), UNCHANGED failures \/ Faulty,
             net' = net \/ net' = Append(net, Frame(bad))
      PROVE  Base'
  <2>1. net' \in Seq(Frames) /\ Len(net') <= MaxNet
    <3>0. PICK g : g = Frame(bad)
      OBVIOUS
    <3>1. g \in Frames /\ net \in Seq(Frames) /\ Len(net) < MaxNet
      BY <1>7, <3>0, FrameType DEF Sent
    <3>2. /\ Append(net, g) \in Seq(Frames)
          /\ Len(Append(net, g)) = Len(net) + 1
          /\ Len(net) \in Nat
      BY ONLY <3>1
    <3>3. MaxNet \in Nat
      BY BoundsType
    <3>4. net' = net \/ net' = Append(net, g)
      BY <1>7, <3>0
    <3>5. CASE net' = net
      BY ONLY <3>1, <3>2, <3>3, <3>5
    <3>6. CASE net' = Append(net, g)
      BY ONLY <3>1, <3>2, <3>3, <3>6
    <3> QED BY <3>4, <3>5, <3>6
  <2>2. /\ failures' \in 0..MaxEvents
        /\ conf.version + run + failures' <= MaxEvents
    BY <1>7, <1>f
  <2>3. CASE LastFrame(bad)
    BY <1>0, <1>7, <2>1, <2>2, <2>3 DEF Sent
  <2>4. CASE ~LastFrame(bad)
    <3>1. /\ index' = index + 1 /\ option' = Lo(index + 1)
          /\ index + 1 \in Ids /\ Lo(index + 1) \in 0..(MaxChain + 2)
      BY <1>7, <2>4, FrameType DEF Sent
    <3> QED BY <1>7, <2>1, <2>2, <2>4, <3>1 DEF Sent
  <2> QED BY <2>3, <2>4
<1>8. CASE \E i \in Ids : SendFrame(i)
  BY <1>7, <1>8 DEF SendFrame, Mishaps
<1>9. CASE LoseFrame
  BY <1>7, <1>9 DEF LoseFrame, Mishaps
<1>s. CASE SendFaulty
  BY <1>7, <1>s DEF SendFaulty, Mishaps
<1>10. CASE ClientRestart
  <2>1. /\ run + 1 \in 0..MaxEvents
        /\ conf.version + (run + 1) + failures <= MaxEvents
    <3>1. /\ conf.version \in Nat /\ run \in Nat /\ failures \in Nat
          /\ conf.version + run + failures < MaxEvents
      BY <1>10 DEF ClientRestart, EventsLeft, Versions
    <3> QED BY ONLY <3>1, BoundsType
  <2>2. 0 <= conf.version
    BY DEF Versions
  <2> QED BY <1>0, <1>10, <2>1, <2>2 DEF ClientRestart
<1> QED BY <1>1, <1>2, <1>3, <1>4, <1>5, <1>6, <1>8, <1>9, <1>s, <1>10
        DEF ClientStep

\* What the server may take from a frame: parts of it, and all of it only
\* when it is taken for whole.
LEMMA TakenParts ==
    ASSUME NEW f \in Frames, NEW p \in {Taken(f)} \cup Misread(f)
    PROVE  /\ p.id = f.id /\ p.data \subseteq f.data
           /\ {p.end, p.chain, p.whole} \subseteq BOOLEAN
           /\ p.whole => f.whole /\ p = Taken(f)
<1>1. f.end \in BOOLEAN /\ f.whole \in BOOLEAN
      /\ \A D : HasChain(D) \in BOOLEAN
  BY DEF Frames, HasChain
<1>2. CASE p = Taken(f)
  BY <1>1, <1>2 DEF Taken
<1>3. CASE p \in Misread(f)
  <2>1. PICK D \in SUBSET f.data, e \in BOOLEAN : p \in Part(f, D, e)
    BY <1>1, <1>3 DEF Misread
  <2>2. PICK c \in {HasChain(D), HasChain(f.data)} :
            p = [id |-> f.id, data |-> D, end |-> e, chain |-> c,
                 whole |-> FALSE]
    BY <2>1 DEF Part
  <2> QED BY <1>1, <2>2
<1> QED BY <1>2, <1>3

\* What the server makes of a frame has the types.
LEMMA ReceiveBase ==
    ASSUME Base, NEW f \in Frames, NEW p \in {Taken(f)} \cup Misread(f),
           Receive(f, p), net' \in Seq(Frames), Len(net') <= MaxNet,
           UNCHANGED failures \/ Faulty
    PROVE  Base'
<1> DEFINE fresh == f.seq # seq
           mask == IF fresh THEN {} ELSE pktidmask
           cleared == ~fresh /\ chainidmask
           cnt == IF fresh THEN 0 ELSE totalcnt
<1> USE BoundsType
<1>0. /\ failures' \in 0..MaxEvents
      /\ conf.version + run + failures' <= MaxEvents
  BY FaultyType DEF Base, TypeOK, Counts
<1>1. UNCHANGED <<conf, changed, client>> /\ seq' \in Seqs
  BY DEF Receive, Frames
<1>2. CASE f.id \in mask
  <2>1. UNCHANGED <<pktidmask, chainidmask, totalcnt, runs, mib, saved,
                    whole>>
    BY <1>2 DEF Receive
  <2> QED BY <1>0, <1>1, <2>1 DEF Base, TypeOK, Counts, client
<1>3. CASE f.id \notin mask
  <2>1. /\ pktidmask' = mask \cup {f.id}
        /\ chainidmask' = (cleared \/ p.chain)
        /\ totalcnt' = Total(p, cnt)
        /\ runs' = IF fresh THEN {f.run} ELSE runs \cup {f.run}
        /\ mib' = Parsed(p, cleared)
        /\ saved' = mib' \/ saved' = saved
        /\ whole' = ((fresh \/ whole) /\ p.whole)
    BY <1>3 DEF Receive
  <2>2. pktidmask' \subseteq Ids /\ runs' \subseteq 0..MaxEvents
    BY <2>1 DEF Frames, Base, TypeOK
  <2>3. totalcnt' \in 0..(LastId + 1)
    <3>1. p.id \in Ids /\ LastId \in Nat /\ totalcnt \in 0..(LastId + 1)
      BY LoProperties, TakenParts DEF Frames, Base, TypeOK
    <3> QED BY <2>1, <3>1 DEF Total, Ids
  <2>4. {mib', saved'}
          \subseteq SUBSET (Options \X (Versions \cup {NoVersion}))
    <3>1. Parsed(p, cleared) \subseteq mib \cup p.data
      BY DEF Parsed
    <3>2. p.data \subseteq Options \X (Versions \cup {NoVersion})
      BY TakenParts DEF Frames
    <3> QED BY <2>1, <3>1, <3>2 DEF Base, TypeOK
  <2>5. chainidmask' \in BOOLEAN /\ whole' \in BOOLEAN
    BY <2>1
  <2> QED BY <1>0, <1>1, <2>2, <2>3, <2>4, <2>5
          DEF Base, TypeOK, Counts, client
<1> QED BY <1>2, <1>3

\* A frame that arrives is one that was under way, and is taken whole or
\* not.
LEMMA Arrival ==
    ASSUME Base, NEW k \in 1..Len(net), Deliver(k) \/ DeliverFaulty(k)
    PROVE  /\ net[k] \in Frames
           /\ net' \in Seq(Frames) /\ Len(net') <= MaxNet
           /\ \A j \in 1..Len(net') : \E i \in 1..Len(net) : net'[j] = net[i]
           /\ UNCHANGED failures \/ Faulty
           /\ \E p \in {Taken(net[k])} \cup Misread(net[k]) :
                 Receive(net[k], p)
<1>1. net \in Seq(Frames) /\ Len(net) <= MaxNet /\ Len(net) \in Nat
      /\ MaxNet \in Nat
  BY BoundsType DEF Base, TypeOK
<1>2. net[k] \in Frames
  BY <1>1
<1> DEFINE t == SubSeq(net, 1, k - 1) \o SubSeq(net, k + 1, Len(net))
<1>3. net' = t
  BY DEF Deliver, DeliverFaulty, Arrives
<1>4. /\ t \in Seq(Frames) /\ Len(t) = Len(net) - 1
      /\ \A j \in 1..Len(t) : \E i \in 1..Len(net) : t[j] = net[i]
  BY ONLY <1>1, k \in 1..Len(net), Delivered
<1> HIDE DEF t
<1>5. /\ net' \in Seq(Frames) /\ Len(net') <= MaxNet
      /\ \A j \in 1..Len(net') : \E i \in 1..Len(net) : net'[j] = net[i]
  BY <1>1, <1>3, <1>4
<1>6. /\ UNCHANGED failures \/ Faulty
      /\ \E p \in {Taken(net[k])} \cup Misread(net[k]) : Receive(net[k], p)
  BY DEF Deliver, DeliverFaulty
<1> QED BY <1>2, <1>5, <1>6

\* Every step keeps the types.
LEMMA NextBase == Base /\ [Next]_vars => Base'
<1> SUFFICES ASSUME Base, [Next]_vars
             PROVE  Base'
  OBVIOUS
<1>1. ASSUME NEW k \in 1..Len(net), Deliver(k) \/ DeliverFaulty(k)
      PROVE  Base'
  BY <1>1, Arrival, ReceiveBase
<1>2. CASE ServerRestart
  <2>1. /\ failures' \in 0..MaxEvents
        /\ conf.version + run + failures' <= MaxEvents
    BY <1>2, FaultyType DEF ServerRestart, Faulty
  <2>2. 0 \in Seqs /\ 0 \in 0..(LastId + 1)
    BY BoundsType, LoProperties DEF Seqs
  <2> QED BY <1>2, <2>1, <2>2 DEF ServerRestart, Base, TypeOK, Counts, client
<1>3. CASE UNCHANGED vars
  BY <1>3 DEF vars, client, server, Base, TypeOK, Counts
<1> QED BY <1>1, <1>2, <1>3, ClientBase DEF Next

(***************************************************************************)
(* TypeCorrect: the types are kept; the number of a frame stays in the     *)
(* range the settings need also when the chain shrinks or grows between    *)
(* two frames, and a sequence number is raised at most once per change.    *)
(***************************************************************************)
THEOREM TypeCorrect == Spec => []TypeOK
<1>1. Base => TypeOK
  BY DEF Base
<1> QED BY <1>1, InitBase, NextBase, PTL DEF Spec

-----------------------------------------------------------------------------
(* The managed router is in step                                           *)

\* What a step of the client must leave as it is for the frames that are
\* under way and those the server has.
Keeps ==
    /\ run' = run /\ cur_seq <= cur_seq'
    /\ cpc' = "start" => cpc = "start"
    /\ Announced' => \/ cpc = "start" \/ cur_seq < cur_seq'
                     \/ Announced /\ conf' = conf /\ cur_seq' = cur_seq

\* Under a new number nothing was sent yet, and what was sent under the old
\* one is as good as before.
LEMMA FrameKept ==
    ASSUME Base, Base', Keeps, NEW f \in Frames, FrameInv(f)
    PROVE  FrameInv(f)'
<1>1. cur_seq \in Nat /\ cur_seq' \in Nat /\ f.seq \in Nat
  BY BoundsType DEF Base, TypeOK, Seqs, Frames
<1>2. ASSUME f.run = run, Announced', f.seq = cur_seq', f.whole
      PROVE  Genuine(f)'
  <2>1. Announced /\ conf' = conf /\ cur_seq' = cur_seq
    BY <1>1, <1>2 DEF Keeps, FrameInv
  <2> QED BY <1>2, <2>1 DEF FrameInv, Genuine, Slice
<1> QED BY <1>1, <1>2 DEF FrameInv, Keeps

\* The same for the frames the server has.
LEMMA ServerKept ==
    ASSUME Base, Base', Keeps, MaskInv, MibInv, UNCHANGED server
    PROVE  MaskInv' /\ MibInv'
<1>1. cur_seq \in Nat /\ cur_seq' \in Nat /\ seq \in Nat
  BY BoundsType DEF Base, TypeOK, Seqs
<1>2. MaskInv'
  BY <1>1 DEF MaskInv, Keeps, server, AllReceived
<1>3. ASSUME OneRun', Announced', seq = cur_seq', pktidmask # {}
      PROVE  OneRun /\ Announced /\ conf' = conf /\ cur_seq' = cur_seq
  <2>1. OneRun /\ run \in runs
    BY <1>3 DEF OneRun, MaskInv, Keeps, server
  <2> QED BY <1>1, <1>3, <2>1 DEF MaskInv, Keeps
<1>4. MibInv'
  BY <1>3 DEF MibInv, Covered, Slice, server
<1> QED BY <1>2, <1>4

\* The frame that is sent under an announced number is of the present
\* settings.
LEMMA FrameGenuine ==
    ASSUME Base, SendInv, cpc = "send", NEW bad \in Mishaps
    PROVE  FrameInv(Frame(bad))
<1>1. ASSUME Announced, Frame(bad).whole
      PROVE  Genuine(Frame(bad))
  <2>0. bad = NoOption /\ ~(option = 0 /\ wlan = NoVersion)
    BY <1>1 DEF Frame
  <2>1. /\ wlan \in {conf.version, NoVersion} /\ option = Lo(index)
        /\ option \in Nat
    BY <1>1 DEF SendInv, Base, Counts, TypeOK
  <2>2. Fitting(NoOption) = Slice(index)
    <3>1. Fitting(NoOption) = {o \in Options : /\ option <= o
                                               /\ o <= conf.chain + 1
                                               /\ o < option + Room}
      <4>1. NoOption \notin Chain
        BY DEF NoOption, Chain
      <4> QED BY ONLY <4>1 DEF Fitting, Left
    <3>2. index \in Nat /\ Lo(index + 1) = Lo(index) + Room
      BY BoundsType, LoProperties DEF Base, TypeOK, Ids
    <3> QED BY <2>1, <3>1, <3>2 DEF Slice
  <2>3. \A o \in Fitting(NoOption) : Value(o, NoOption) = conf.version
    <3>1. \A o \in Fitting(NoOption) : o \in Nat /\ option <= o
      BY <2>1, BoundsType DEF Fitting, Left, Options
    <3> QED BY <2>0, <2>1, <3>1 DEF Value, NoOption
  <2>4. Frame(bad).data = Slice(index) \X {conf.version}
    BY <2>0, <2>2, <2>3 DEF Frame
  <2>5. Frame(bad).end <=> conf.chain + 2 < Lo(index) + Room
    BY <2>0, <2>1, Filling DEF Frame, Base
  <2> QED BY <2>4, <2>5 DEF Genuine, Frame
<1>2. cur_seq <= cur_seq /\ run <= run
  BY BoundsType DEF Base, TypeOK, Seqs
<1> QED BY <1>1, <1>2 DEF FrameInv, Frame

\* The steps of the managing router.
LEMMA ClientSync ==
    ASSUME MaxEvents < 65536, Base, Base', SyncInv,
           \/ \E n \in {conf.chain + i : i \in -1..1} : Change(n)
           \/ Signal \/ ClientStep \/ SendFaulty \/ LoseFrame \/ ClientRestart
    PROVE  SyncInv'
<1>0. /\ {cur_seq, next_seq, reg, run} \subseteq Nat
      /\ {cur_seq', next_seq', reg', run'} \subseteq Nat
      /\ net \in Seq(Frames) /\ Len(net) \in Nat
      /\ \A k \in 1..Len(net) : net[k] \in Frames
  <2>1. net \in Seq(Frames)
    BY DEF Base, TypeOK
  <2>2. Len(net) \in Nat /\ \A k \in 1..Len(net) : net[k] \in Frames
    BY <2>1
  <2>3. {cur_seq, next_seq, reg, run} \subseteq Nat
    BY BoundsType DEF Base, TypeOK, Seqs
  <2>4. {cur_seq', next_seq', reg', run'} \subseteq Nat
    BY BoundsType DEF Base, TypeOK, Seqs
  <2> QED BY <2>1, <2>2, <2>3, <2>4
<1>1. ASSUME Keeps, UNCHANGED server, net' = net, ClientInv', SendInv'
      PROVE  SyncInv'
  <2>1. NetInv'
    BY SMTT(20), <1>0, <1>1, FrameKept DEF NetInv, SyncInv, FrameInv
  <2> QED BY <1>1, <2>1, ServerKept DEF SyncInv
<1>2. CASE \E n \in {conf.chain + i : i \in -1..1} : Change(n)
  BY <1>0, <1>1, <1>2 DEF Change, client, SyncInv, ClientInv, SendInv, Keeps,
                          Announced
<1>3. CASE Signal
  <2>1. next_seq = cur_seq => NextSeq = cur_seq + 1
    <3>1. next_seq + 1 <= MaxEvents
      <4>1. changed /\ next_seq < conf.version
        BY <1>3 DEF Signal, Base, Counts
      <4>2. conf.version \in 0..MaxEvents
        BY DEF Base, TypeOK, Versions
      <4> QED BY <1>0, <4>1, <4>2, BoundsType
    <3> QED BY <1>0, <3>1, BoundsType DEF NextSeq
  <2>2. UNCHANGED <<conf, cur_seq, reg, run, net, server>> /\ changed
    BY <1>3 DEF Signal
  <2>3. ClientInv'
    BY <1>0, <1>3, <2>1, <2>2 DEF Signal, SyncInv, ClientInv, NextSeq
  <2>4. Announced' => cpc = "start"
    BY <1>0, <1>3, <2>1, <2>2 DEF Signal, Announced, NextSeq
  <2>5. cpc' \in {"start", "dead"} \/ cpc' = cpc
    BY <1>3 DEF Signal
  <2>6. Keeps /\ SendInv'
    BY <1>0, <1>3, <2>2, <2>4, <2>5 DEF Keeps, SendInv, Signal
  <2> QED BY <1>1, <2>2, <2>3, <2>6
<1>4. CASE ClientInit
  BY <1>0, <1>1, <1>4 DEF ClientInit, SyncInv, ClientInv, SendInv, Keeps,
                          Announced
<1>5. CASE LoadSeq
  BY <1>0, <1>1, <1>5 DEF LoadSeq, SyncInv, ClientInv, SendInv, Keeps,
                          Announced
<1>6. CASE StoreSeq
  BY <1>0, <1>1, <1>6 DEF StoreSeq, SyncInv, ClientInv, SendInv, Keeps,
                          Announced
<1>7. CASE ReadWlan
  BY <1>0, <1>1, <1>7 DEF ReadWlan, SyncInv, ClientInv, SendInv, Keeps,
                          Announced
<1>8. ASSUME NEW bad, Sent(bad)
      PROVE  Keeps /\ ClientInv' /\ SendInv' /\ UNCHANGED server
  BY <1>0, <1>8 DEF Sent, SyncInv, ClientInv, SendInv, Keeps, Announced
<1>9. CASE LoseFrame
  BY <1>1, <1>8, <1>9 DEF LoseFrame
<1>10. ASSUME NEW bad \in Mishaps, Sent(bad), net' = Append(net, Frame(bad))
       PROVE  SyncInv'
  <2>1. Sent(bad) /\ cpc = "send" /\ net' = Append(net, Frame(bad))
    BY <1>10 DEF Sent
  <2>2. Frame(bad) \in Frames /\ FrameInv(Frame(bad))
    BY <2>1, FrameType, FrameGenuine DEF SyncInv
  <2>3. ASSUME NEW k \in 1..Len(net')
        PROVE  FrameInv(net[k])'
    <3>1. PICK f \in Frames : f = net'[k] /\ FrameInv(f)
      <4>1. PICK g \in Frames : g = Frame(bad) /\ FrameInv(g)
        BY <2>2
      <4>2. net' = Append(net, g)
        BY <2>1, <4>1
      <4>3. \/ k \in 1..Len(net) /\ net'[k] = net[k]
            \/ net'[k] = g
        BY <1>0, <2>3, <4>2
      <4> QED BY <1>0, <4>1, <4>3 DEF SyncInv, NetInv
    <3>2. FrameInv(f)'
      BY <1>8, <2>1, <3>1, FrameKept
    <3> QED BY <3>1, <3>2 DEF FrameInv, Genuine
  <2>4. NetInv'
    BY <2>3 DEF NetInv
  <2> QED BY <1>8, <2>1, <2>4, ServerKept DEF SyncInv
<1>s. CASE SendFaulty \/ \E i \in Ids : SendFrame(i)
  BY <1>10, <1>s DEF SendFaulty, SendFrame, Mishaps
<1>11. CASE ClientRestart
  <2>1. /\ run' = run + 1 /\ cpc' = "start" /\ cur_seq' = 0 /\ next_seq' = 0
        /\ net' = net /\ UNCHANGED server
    BY <1>11 DEF ClientRestart
  <2>2. NetInv'
    <3>1. \A k \in 1..Len(net) : net[k].run \in Nat /\ net[k].run <= run
      BY SMTT(20), <1>0 DEF SyncInv, NetInv, FrameInv, Frames
    <3> QED BY <1>0, <2>1, <3>1 DEF NetInv, FrameInv
  <2>3. \A r \in runs : r \in Nat /\ r <= run
    BY DEF SyncInv, MaskInv, Base, TypeOK
  <2>4. run' \notin runs'
    BY <1>0, <2>1, <2>3 DEF server
  <2>5. MaskInv' /\ MibInv'
    BY <1>0, <2>1, <2>3, <2>4 DEF SyncInv, MaskInv, MibInv, OneRun, server,
                                  AllReceived
  <2> QED BY <1>11, <2>1, <2>2, <2>5 DEF SyncInv, ClientInv, SendInv
<1> QED BY <1>2, <1>3, <1>4, <1>5, <1>6, <1>7, <1>9, <1>s, <1>11
        DEF ClientStep

\* handle_conf_packet() keeps what the server has of the present settings.
LEMMA ReceiveSync ==
    ASSUME Base, SyncInv, NEW f \in Frames, FrameInv(f),
           NEW p \in {Taken(f)} \cup Misread(f), Receive(f, p)
    PROVE  MaskInv' /\ MibInv'
<1> DEFINE fresh == f.seq # seq
           mask == IF fresh THEN {} ELSE pktidmask
           cleared == ~fresh /\ chainidmask
           cnt == IF fresh THEN 0 ELSE totalcnt
<1>1. UNCHANGED <<conf, changed, client>> /\ seq' = f.seq
  BY DEF Receive
<1>2. Announced' = Announced
  BY <1>1 DEF Announced, client
<1>3. \A i : Slice(i)' = Slice(i)
  BY <1>1 DEF Slice
<1>4. CASE f.id \in mask
  <2>1. UNCHANGED <<pktidmask, chainidmask, totalcnt, runs, mib, saved,
                    whole, seq>>
    BY <1>1, <1>4 DEF Receive
  <2> QED BY <1>1, <1>2, <1>3, <2>1
          DEF SyncInv, MaskInv, MibInv, Covered, OneRun, client, AllReceived
<1>5. CASE f.id \notin mask
  <2>1. /\ pktidmask' = mask \cup {f.id}
        /\ chainidmask' = (cleared \/ p.chain)
        /\ totalcnt' = Total(p, cnt)
        /\ runs' = IF fresh THEN {f.run} ELSE runs \cup {f.run}
        /\ mib' = Parsed(p, cleared)
        /\ saved' = IF AllReceived(pktidmask', totalcnt') THEN mib' ELSE saved
        /\ whole' = ((fresh \/ whole) /\ p.whole)
    BY <1>5 DEF Receive
  <2>2. MaskInv'
    <3>1. pktidmask' # {} /\ runs' # {}
      BY <2>1
    <3>2. \A r \in runs' : r <= run
      BY <2>1 DEF SyncInv, MaskInv, FrameInv
    <3>3. run \in runs' => cpc # "start" /\ seq' <= cur_seq
      BY <1>1, <2>1 DEF SyncInv, MaskInv, FrameInv
    <3>4. AllReceived(pktidmask', totalcnt') => mib' = saved'
      BY <2>1
    <3> QED BY <1>1, <3>1, <3>2, <3>3, <3>4 DEF MaskInv, client
  <2>3. ASSUME OneRun', Announced, f.seq = cur_seq, whole'
        PROVE  /\ totalcnt' # 0 => conf.chain + 2 < Lo(totalcnt')
               /\ \A m \in mib' : m[1] \in Covered' => m[2] = conf.version
               /\ \A o \in Covered' : <<o, conf.version>> \in mib'
               /\ chainidmask' <=> Covered' \cap Chain # {}
               /\ chainidmask' =>
                    \A m \in mib' : IsChain(m) => m[1] \in Covered'
    <3> DEFINE old == UNION {Slice(i) : i \in mask}
    <3> DEFINE chained == HasChain(f.data)
    <3>0. /\ f.whole /\ p.id = f.id /\ p.end = f.end /\ p.data = f.data
          /\ p.chain = chained /\ (fresh \/ whole)
      <4>1. p.whole /\ (fresh \/ whole)
        BY <2>1, <2>3, Zenon
      <4>2. p = Taken(f)
        BY <4>1, TakenParts
      <4> QED BY <4>1, <4>2 DEF Taken
    <3>1. Genuine(f)
      BY <1>1, <2>1, <2>3, <3>0 DEF OneRun, client, FrameInv
    <3>2. \/ mask = {} /\ cnt = 0 /\ ~cleared
          \/ /\ mask = pktidmask /\ cnt = totalcnt /\ cleared = chainidmask
             /\ mask # {} /\ OneRun /\ seq = cur_seq /\ whole
      <4>1. CASE fresh
        BY <4>1
      <4>2. CASE ~fresh /\ pktidmask = {}
        BY <4>2 DEF SyncInv, MaskInv
      <4>3. CASE ~fresh /\ pktidmask # {}
        <5>1. mask = pktidmask /\ cnt = totalcnt /\ cleared = chainidmask
          BY <4>3 DEF Base, TypeOK
        <5>2. OneRun
          BY <1>1, <2>1, <2>3, <4>3 DEF OneRun, client
        <5> QED BY <2>3, <3>0, <4>3, <5>1, <5>2
      <4> QED BY <4>1, <4>2, <4>3
    <3>3. /\ cnt # 0 => conf.chain + 2 < Lo(cnt)
          /\ mask # {} => \A m \in mib : m[1] \in old => m[2] = conf.version
          /\ \A o \in old : <<o, conf.version>> \in mib
          /\ cleared <=> old \cap Chain # {}
          /\ cleared => \A m \in mib : IsChain(m) => m[1] \in old
      BY <2>3, <3>2 DEF SyncInv, MibInv, Covered
    <3>4. Covered' = old \cup Slice(f.id)
      BY <1>3, <2>1 DEF Covered
    <3>5. /\ \A d \in f.data : d[1] \in Slice(f.id) /\ d[2] = conf.version
          /\ \A o \in Slice(f.id) : <<o, conf.version>> \in f.data
      BY <3>1 DEF Genuine
    <3> HIDE DEF old, mask, cleared, cnt
    <3>6. totalcnt' # 0 => conf.chain + 2 < Lo(totalcnt')
      <4>1. f.id \in Nat /\ Lo(f.id + 1) = Lo(f.id) + Room
        BY LoProperties DEF Frames, Ids
      <4> QED BY <2>1, <3>0, <3>1, <3>3, <4>1 DEF Total, Genuine
    <3>7. chained <=> Slice(f.id) \cap Chain # {}
      BY <3>5 DEF HasChain, IsChain
    <3>8. mib' = {m \in mib : IF IsChain(m) THEN cleared \/ ~chained
                              ELSE \A d \in f.data : d[1] # m[1]} \cup f.data
      BY <2>1, <3>0 DEF Parsed
    <3>c. chainidmask' = (cleared \/ chained)
      BY <2>1, <3>0
    <3> HIDE DEF chained
    <3>9. ASSUME NEW m \in mib', m[1] \in Covered'
          PROVE  m[2] = conf.version
      BY <3>3, <3>4, <3>5, <3>7, <3>8, <3>9 DEF IsChain, old
    <3>10. ASSUME NEW o \in Covered'
           PROVE  <<o, conf.version>> \in mib'
      BY <3>3, <3>4, <3>5, <3>7, <3>8, <3>10 DEF IsChain
    <3>11. chainidmask' <=> Covered' \cap Chain # {}
      BY <3>c, <3>3, <3>4, <3>7
    <3>12. ASSUME chainidmask', NEW m \in mib', IsChain(m)
           PROVE  m[1] \in Covered'
      BY <3>c, <3>3, <3>4, <3>5, <3>7, <3>8, <3>12
    <3> QED BY <3>6, <3>9, <3>10, <3>11, <3>12
  <2>4. MibInv'
    BY <1>1, <1>2, <2>3 DEF MibInv, client
  <2> QED BY <2>2, <2>4
<1> QED BY <1>4, <1>5

\* The invariant holds of every behaviour with fewer events than numbers.
LEMMA SyncInductive ==
    ASSUME MaxEvents < 65536
    PROVE  /\ Init => SyncInv
           /\ Base /\ Base' /\ SyncInv /\ [Next]_vars => SyncInv'
<1>1. Init => SyncInv
  BY DEF Init, SyncInv, ClientInv, SendInv, NetInv, MaskInv, MibInv,
         AllReceived
<1>2. ASSUME Base, Base', SyncInv, NEW k \in 1..Len(net),
             Deliver(k) \/ DeliverFaulty(k)
      PROVE  SyncInv'
  <2>1. net[k] \in Frames
    BY <1>2, Arrival
  <2>2. PICK p \in {Taken(net[k])} \cup Misread(net[k]) : Receive(net[k], p)
    BY <1>2, Arrival
  <2>f. FrameInv(net[k])
    BY <1>2 DEF SyncInv, NetInv
  <2>3. UNCHANGED <<conf, changed, client>>
    BY <2>2 DEF Receive
  <2>4. \A j \in 1..Len(net') : \E i \in 1..Len(net) : net'[j] = net[i]
    BY <1>2, Arrival
  <2>5. NetInv'
    <3>1. ASSUME NEW j \in 1..Len(net')
          PROVE  FrameInv(net[j])'
      <4>1. PICK i \in 1..Len(net) : net'[j] = net[i]
        BY <2>4
      <4>2. FrameInv(net[i])
        BY <1>2 DEF SyncInv, NetInv
      <4> QED BY <2>3, <4>1, <4>2 DEF FrameInv, Genuine, Slice, Announced,
                                      client
    <3> QED BY <3>1 DEF NetInv
  <2>6. ClientInv' /\ SendInv'
    BY <1>2, <2>3 DEF SyncInv, ClientInv, SendInv, Announced, client
  <2> QED BY <1>2, <2>1, <2>2, <2>f, <2>5, <2>6, ReceiveSync DEF SyncInv
<1>3. ASSUME Base, Base', SyncInv, ServerRestart
      PROVE  SyncInv'
  <2>1. UNCHANGED <<conf, changed, client, net>>
    BY <1>3 DEF ServerRestart
  <2>2. NetInv'
    BY <1>3, <2>1 DEF SyncInv, NetInv, FrameInv, Genuine, Slice, Announced,
                      client
  <2>3. MaskInv' /\ MibInv'
    BY <1>3 DEF ServerRestart, MaskInv, MibInv, AllReceived
  <2> QED BY <1>3, <2>1, <2>2, <2>3
          DEF SyncInv, ClientInv, SendInv, Announced, client
<1>4. SyncInv /\ UNCHANGED vars => SyncInv'
  BY DEF SyncInv, ClientInv, SendInv, NetInv, FrameInv, Genuine, Slice,
         Announced, MaskInv, MibInv, Covered, OneRun, AllReceived, vars,
         client, server
<1> QED BY <1>1, <1>2, <1>3, <1>4, ClientSync DEF Next

\* A full set of frames holds every option.
LEMMA FullSet ==
    ASSUME Base, SyncInv, NEW o \in 0..(conf.chain + 1),
           AllReceived(pktidmask, totalcnt), conf.chain + 2 < Lo(totalcnt)
    PROVE  o \in Covered
<1>1. o \in Nat /\ o < Lo(totalcnt) /\ totalcnt \in Nat /\ o \in Options
  <2>1. conf.chain \in 0..MaxChain /\ totalcnt \in Nat
    BY LoProperties DEF Base, TypeOK
  <2>2. Lo(totalcnt) \in Nat
    BY <2>1, LoProperties
  <2> QED BY <2>1, <2>2, BoundsType DEF Options
<1>2. PICK i \in Nat : Lo(i) <= o /\ o < Lo(i) + Room
  BY <1>1, LoProperties
<1>3. i < totalcnt
  <2>1. Lo(i) \in Nat /\ Lo(totalcnt) \in Nat
    BY <1>1, LoProperties
  <2>2. totalcnt < i => Lo(totalcnt) + Room <= Lo(i)
    BY <1>1, LoProperties
  <2> QED BY <1>1, <1>2, <2>1, <2>2, BoundsType
<1>4. i \in pktidmask
  BY <1>1, <1>3 DEF AllReceived
<1>5. o \in Slice(i)
  BY <1>1, <1>2 DEF Slice
<1> QED BY <1>4, <1>5 DEF Covered

(***************************************************************************)
(* InSyncHolds: a managed router that has all frames of the announced      *)
(* settings has saved exactly these, whatever frames are lost, delayed,    *)
(* reordered or repeated, whatever changes and restarts fall between them  *)
(* and whatever frames of other numbers were cut short by a failing MIB    *)
(* call, as long as no call failed for the frames it has and the sequence  *)
(* number, of 16 bits, does not come round.                                *)
(***************************************************************************)
THEOREM InSyncHolds ==
    ASSUME MaxEvents < 65536
    PROVE  Spec => []InSync
<1>1. Base /\ SyncInv => InSync
  <2> SUFFICES ASSUME Base, SyncInv, ~changed, next_seq = cur_seq,
                      seq = cur_seq, AllReceived(pktidmask, totalcnt), OneRun,
                      whole, cpc # "dead"
               PROVE  mib = saved /\ Same(saved)
    BY DEF InSync
  <2> DEFINE of == {o \in Options : o <= conf.chain + 1}
  <2>1. mib = saved /\ pktidmask # {}
    BY DEF SyncInv, MaskInv, AllReceived, Base, TypeOK
  <2>2. /\ conf.chain + 2 < Lo(totalcnt)
        /\ \A m \in mib : m[1] \in Covered => m[2] = conf.version
        /\ \A o \in Covered : <<o, conf.version>> \in mib
        /\ chainidmask <=> Covered \cap Chain # {}
        /\ chainidmask => \A m \in mib : IsChain(m) => m[1] \in Covered
    BY <2>1 DEF SyncInv, MibInv, Announced, AllReceived
  <2>3. of = 0..(conf.chain + 1) /\ conf.chain \in 0..MaxChain
    BY BoundsType DEF Base, TypeOK, Options
  <2>4. Covered = of
    BY <2>2, <2>3, FullSet DEF Covered, Slice
  <2>5. \A m \in mib : m \in Options \X (Versions \cup {NoVersion})
    BY DEF Base, TypeOK
  <2>6. \A m \in mib : ~IsChain(m) => m[1] \in of
    BY <2>3, <2>5, BoundsType DEF IsChain, Chain, Options
  <2> HIDE DEF of
  <2>7. \A o \in of : <<o, conf.version>> \in mib
    BY <2>2, <2>4
  <2>8. \A m \in mib : m[1] \in of => m \in of \X {conf.version}
    BY <2>2, <2>4, <2>5
  <2>9. CASE conf.chain = 0
    <3>1. \A o \in of : ~IsChain(<<o, conf.version>>)
      BY <2>3, <2>9 DEF IsChain, Chain
    <3>2. {e \in mib : ~IsChain(e)} = of \X {conf.version}
      BY <2>6, <2>7, <2>8, <3>1
    <3> QED BY <2>1, <2>9, <3>2 DEF Same, of
  <2>10. CASE conf.chain # 0
    <3>1. 2 \in Covered \cap Chain
      BY <2>3, <2>4, <2>10, BoundsType DEF Chain
    <3>2. \A m \in mib : m[1] \in of
      BY <2>2, <2>4, <2>6, <3>1
    <3>3. mib = of \X {conf.version}
      BY <2>7, <2>8, <3>2
    <3> QED BY <2>1, <2>10, <3>3 DEF Same, of
  <2> QED BY <2>9, <2>10
<1> QED BY <1>1, InitBase, NextBase, SyncInductive, PTL DEF Spec
=============================================================================
