----------------------------- MODULE ClusterSync -----------------------------
(***************************************************************************)
(* The configuration cluster.  cluster_client of the managing router       *)
(* broadcasts its settings again and again, in as many raw frames as they  *)
(* need, under a sequence number that it raises when SIGUSR1 tells it of a *)
(* change; cluster_server of a managed router writes each frame it has not *)
(* seen under this number into its MIB, and saves and applies the settings *)
(* when it has all frames.  Frames are lost, delayed and reordered, and    *)
(* repeated in the next round; either router may restart; and neither      *)
(* looks whether what it reads from or writes to its MIB could be read or  *)
(* written.                                                                *)
(*                                                                         *)
(* The settings are the options 0 (the wlan entries, read when a round     *)
(* begins), 1 (the single values) and 2, 3, ... (the entries of a chain,   *)
(* whose order is left out).  The value of an option is the version of the *)
(* settings it was read from.                                              *)
(***************************************************************************)
EXTENDS Integers, Sequences, FiniteSets

CONSTANTS
    Room,        \* options that fit a frame
    MaxChain,    \* bound: entries of the chain
    MaxEvents,   \* bound: changes of the settings, restarts and failing calls
                 \* of the MIB, together
    MaxNet       \* bound: frames under way

ASSUME BoundsAssumption ==
    /\ Room \in Nat \ {0} /\ MaxNet \in Nat \ {0}
    /\ {MaxChain, MaxEvents} \subseteq Nat

VARIABLES
    conf,     \* settings of the managing router: version, length of the chain
    changed,  \* they were changed and mib_update() has yet to send SIGUSR1
    cpc,      \* where the client is
    cur_seq, next_seq,
    reg,      \* next_seq as main() has loaded it
    index,    \* number of the next frame
    option,   \* the first option that is not in a frame yet
    wlan,     \* version of the wlan entries read for this round
    run,      \* restarts of the client so far
    net,      \* frames under way
    seq,      \* cur_seq of the server
    pktidmask, chainidmask, totalcnt,
    runs,     \* which runs of the client the masked frames are from
    mib,      \* the settings of the managed router, as <<option, version>>
    saved,    \* those it has saved and applied
    whole,    \* the masked frames were sent and applied whole
    failures  \* restarts of the managed router and failing calls so far

client == <<cpc, cur_seq, next_seq, reg, index, option, wlan, run>>
server == <<seq, pktidmask, chainidmask, totalcnt, runs, mib, saved,
            whole>>
vars == <<conf, changed, client, net, server, failures>>

Versions == 0..MaxEvents
Seqs == 0..MaxEvents
Options == 0..(MaxChain + 1)
LastId == (MaxChain + 2) \div Room
Ids == 0..LastId
Chain == 2..(MaxChain + 1)
NoVersion == -1         \* no version of the client's settings: what the managed
                        \* router had of its own, or memory never written
NoOption == -1

\* whole: all that frame id of these settings is to hold could be read.
Frames == [seq : Seqs, id : Ids, run : 0..MaxEvents, end : BOOLEAN,
           whole : BOOLEAN,
           data : SUBSET (Options \X (Versions \cup {NoVersion}))]

TypeOK ==
    /\ conf \in [version : Versions, chain : 0..MaxChain]
    /\ changed \in BOOLEAN
    /\ cpc \in {"start", "load", "store", "read", "send", "dead"}
    /\ {cur_seq, next_seq, reg} \subseteq Seqs
    /\ index \in Ids /\ option \in 0..(MaxChain + 2)
    /\ wlan \in Versions \cup {NoVersion} /\ run \in 0..MaxEvents
    /\ net \in Seq(Frames) /\ Len(net) <= MaxNet
    /\ seq \in Seqs /\ pktidmask \subseteq Ids
    /\ chainidmask \in BOOLEAN /\ totalcnt \in 0..(LastId + 1)
    /\ runs \subseteq 0..MaxEvents
    /\ {mib, saved} \subseteq SUBSET (Options \X (Versions \cup {NoVersion}))
    /\ whole \in BOOLEAN
    /\ failures \in 0..MaxEvents

Init ==
    /\ conf \in [version : {0}, chain : 0..MaxChain]
    /\ changed = FALSE /\ cpc = "start"
    /\ cur_seq = 0 /\ next_seq = 0 /\ reg = 0
    /\ index = 0 /\ option = 0 /\ wlan = 0 /\ run = 0
    /\ net = <<>>
    /\ seq = 0 /\ pktidmask = {} /\ chainidmask = FALSE /\ totalcnt = 0
    /\ runs = {}
    /\ mib = Options \X {NoVersion} /\ saved = mib /\ whole = TRUE
    /\ failures = 0

-----------------------------------------------------------------------------
(* The managing router                                                     *)

EventsLeft == conf.version + run + failures < MaxEvents

\* A call of the MIB fails, and the program goes on.
Faulty == EventsLeft /\ failures' = failures + 1

\* A program changes the settings, a chain by at most one entry;
\* mib_update() comes later.
Change(n) ==
    /\ EventsLeft
    /\ n \in 0..MaxChain
    /\ conf' = [version |-> conf.version + 1, chain |-> n]
    /\ changed' = TRUE
    /\ UNCHANGED <<client, net, server, failures>>

\* Broken form of NextSeq: a change during a round is left to that round.
NextSeqIdle ==
    IF next_seq = cur_seq /\ cpc = "load" THEN (next_seq + 1) % 65536
    ELSE next_seq

\* signal_handler()
NextSeq == IF next_seq = cur_seq THEN (next_seq + 1) % 65536 ELSE next_seq

\* mib_update_ex() sends SIGUSR1 to the process in the pid file, if there
\* is one.  It ends a client that has not set its handler yet; one that has
\* takes it also before its loop.
Signal ==
    /\ changed
    /\ changed' = FALSE
    /\ \/ /\ cpc \notin {"start", "dead"}
          /\ next_seq' = NextSeq /\ UNCHANGED cpc
       \/ /\ cpc = "start"
          /\ \/ cpc' = "dead" /\ UNCHANGED next_seq
             \/ UNCHANGED cpc /\ next_seq' \in {next_seq, NextSeq}
       \/ cpc = "dead" /\ UNCHANGED <<cpc, next_seq>>
    /\ UNCHANGED <<conf, cur_seq, reg, index, option, wlan, run, net, server,
                   failures>>

\* main() up to its loop; the client ends when an interface is missing.
ClientInit ==
    /\ cpc = "start"
    /\ cpc' \in {"load", "dead"}
    /\ UNCHANGED <<conf, changed, cur_seq, next_seq, reg, index, option, wlan,
                   run, net, server, failures>>

\* cur_seq = next_seq, in which a signal may arrive.
LoadSeq ==
    /\ cpc = "load" /\ cpc' = "store"
    /\ reg' = next_seq
    /\ UNCHANGED <<conf, changed, cur_seq, next_seq, index, option, wlan, run,
                   net, server, failures>>

StoreSeq ==
    /\ cpc = "store" /\ cpc' = "read"
    /\ cur_seq' = reg /\ reg' = 0
    /\ UNCHANGED <<conf, changed, next_seq, index, option, wlan, run, net,
                   server, failures>>

\* configrations_send() reads the wlan entries before the first frame; an
\* entry that cannot be read is what the stack held.
ReadWlan ==
    /\ cpc = "read" /\ cpc' = "send"
    /\ \/ wlan' = conf.version /\ UNCHANGED failures
       \/ wlan' = NoVersion /\ Faulty
    /\ index' = 0 /\ option' = 0
    /\ UNCHANGED <<conf, changed, cur_seq, next_seq, reg, run, net, server>>

\* addOption() until a frame is full: the options still to send, the ones
\* that fit, and whether TYPE_IDX_END fits too.  The option bad cannot be
\* read: an entry of the chain is left out, and the rest of the chain with
\* it, while a single value is sent as what the stack held.
Left(bad) ==
    {o \in Options : /\ option <= o /\ o <= conf.chain + 1
                     /\ bad \in Chain => o < bad}
Fitting(bad) == {o \in Left(bad) : o < option + Room}
LastFrame(bad) == Cardinality(Left(bad)) < Room

Value(o, bad) ==
    IF o = bad THEN NoVersion ELSE IF o = 0 THEN wlan ELSE conf.version

Frame(bad) ==
    [seq |-> cur_seq, id |-> index, run |-> run, end |-> LastFrame(bad),
     whole |-> bad = NoOption /\ ~(option = 0 /\ wlan = NoVersion),
     data |-> {<<o, Value(o, bad)>> : o \in Fitting(bad)}]

\* A second passes between frames, so few are under way at any time.
Sent(bad) ==
    /\ cpc = "send" /\ Len(net) < MaxNet
    /\ cpc' = IF LastFrame(bad) THEN "load" ELSE "send"
    /\ index' = IF LastFrame(bad) THEN 0 ELSE index + 1
    /\ option' = IF LastFrame(bad) THEN 0
                 ELSE option + Cardinality(Fitting(bad))
    /\ wlan' = IF LastFrame(bad) THEN 0 ELSE wlan
    /\ UNCHANGED <<conf, changed, cur_seq, next_seq, reg, run, server>>

SendFrame(i) ==
    /\ index = i
    /\ Sent(NoOption)
    /\ net' = Append(net, Frame(NoOption))
    /\ UNCHANGED failures

\* A single value or an entry of the chain cannot be read for the frame.
SendFaulty ==
    /\ Faulty
    /\ \E bad \in Fitting(NoOption) \ {0} :
          /\ Sent(bad)
          /\ net' = Append(net, Frame(bad))

\* The frame is lost, or arrives with a checksum that does not fit.
LoseFrame == Sent(NoOption) /\ UNCHANGED <<net, failures>>

\* The managing router is restarted, once what was changed is saved.
ClientRestart ==
    /\ EventsLeft /\ ~changed
    /\ run' = run + 1
    /\ cpc' = "start"
    /\ cur_seq' = 0 /\ next_seq' = 0 /\ reg' = 0
    /\ index' = 0 /\ option' = 0 /\ wlan' = 0
    /\ UNCHANGED <<conf, changed, net, server, failures>>

-----------------------------------------------------------------------------
(* The managed router                                                      *)

IsChain(pair) == pair[1] \in Chain
HasChain(data) == \E d \in data : IsChain(d)

\* What parseOptions() takes from frame f: the options it sets, whether it
\* came to the chain and to TYPE_IDX_END.  A call that fails leaves out one
\* option, or at PARSE_FAIL an entry of the chain and all that follows; the
\* chain may have been cleared by then.
Taken(f) == [id |-> f.id, data |-> f.data, end |-> f.end,
             chain |-> HasChain(f.data), whole |-> f.whole]

Part(f, data, end) ==
    {[id |-> f.id, data |-> data, end |-> end, chain |-> c, whole |-> FALSE]
        : c \in {HasChain(data), HasChain(f.data)}}

Misread(f) ==
    UNION ({Part(f, f.data \ {d}, f.end) : d \in f.data}
           \cup {Part(f, {e \in f.data : e[1] < d[1]}, FALSE)
                    : d \in {e \in f.data : IsChain(e)}})

\* Broken form of Total: one frame too many is waited for.
TotalPastEnd(p, cnt) == IF p.end THEN p.id + 2 ELSE cnt

\* totalcnt once p is taken.
Total(p, cnt) == IF p.end THEN p.id + 1 ELSE cnt

\* Broken form of AllReceived: the loop runs up to totalcnt itself.
AllReceivedPastEnd(mask, cnt) == cnt # 0 /\ 0..cnt \subseteq mask

\* all_received()
AllReceived(mask, cnt) == cnt # 0 /\ 0..(cnt - 1) \subseteq mask

\* parseOptions(): single values are replaced, and the first entry of a
\* chain since cluster_reinit() clears what was there.
Parsed(p, cleared) ==
    LET clears == ~cleared /\ p.chain
        kept == {m \in mib : IF IsChain(m) THEN ~clears
                             ELSE \A d \in p.data : d[1] # m[1]}
    IN  kept \cup p.data

\* handle_conf_packet(): a frame of another sequence number starts the
\* masks anew, one that is masked is ignored, and any other is masked
\* whatever parseOptions() takes from it.
Receive(f, p) ==
    LET fresh == f.seq # seq
        mask == IF fresh THEN {} ELSE pktidmask
        cleared == ~fresh /\ chainidmask
        cnt == IF fresh THEN 0 ELSE totalcnt
    IN
    /\ seq' = f.seq
    /\ IF f.id \in mask
       THEN UNCHANGED <<pktidmask, chainidmask, totalcnt, runs, mib, saved,
                        whole>>
       ELSE /\ pktidmask' = mask \cup {f.id}
            /\ chainidmask' = (cleared \/ p.chain)
            /\ totalcnt' = Total(p, cnt)
            /\ runs' = IF fresh THEN {f.run} ELSE runs \cup {f.run}
            /\ mib' = Parsed(p, cleared)
            /\ saved' = IF AllReceived(pktidmask', totalcnt') THEN mib'
                        ELSE saved
            /\ whole' = ((fresh \/ whole) /\ p.whole)
    /\ UNCHANGED <<conf, changed, client>>

Arrives(k) == net' = SubSeq(net, 1, k - 1) \o SubSeq(net, k + 1, Len(net))

\* A frame arrives, before or after others that were sent earlier.
Deliver(k) ==
    /\ Receive(net[k], Taken(net[k])) /\ UNCHANGED failures
    /\ Arrives(k)

\* A frame arrives and is not applied as a whole, which nobody looks at.
DeliverFaulty(k) ==
    /\ net[k].seq = seq => net[k].id \notin pktidmask
    /\ \E p \in Misread(net[k]) : Receive(net[k], p)
    /\ Faulty
    /\ Arrives(k)

\* The managed router is restarted: cluster_server_init().
ServerRestart ==
    /\ EventsLeft
    /\ failures' = failures + 1
    /\ seq' = 0 /\ pktidmask' = {} /\ chainidmask' = FALSE /\ totalcnt' = 0
    /\ runs' = {}
    /\ mib' = saved /\ whole' = TRUE
    /\ UNCHANGED <<saved, conf, changed, client, net>>

ClientStep == \/ ClientInit \/ LoadSeq \/ StoreSeq \/ ReadWlan
              \/ \E i \in Ids : SendFrame(i)

Next ==
    \/ \E n \in {conf.chain + i : i \in -1..1} : Change(n)
    \/ Signal \/ ClientStep \/ SendFaulty \/ LoseFrame \/ ClientRestart
    \/ \E k \in 1..Len(net) : Deliver(k) \/ DeliverFaulty(k)
    \/ ServerRestart

\* A change is followed by mib_update(); the client runs; a frame that is
\* under way arrives; and a frame sent again and again is not lost for ever.
Fairness ==
    /\ WF_vars(Signal) /\ WF_vars(ClientStep)
    /\ WF_vars(net # <<>> /\ Deliver(1))
    /\ \A i \in Ids : SF_vars(SendFrame(i))

Spec == Init /\ [][Next]_vars /\ Fairness

-----------------------------------------------------------------------------
(* Properties                                                              *)

\* The server has the client's settings.  A chain that is empty at the
\* client is not cleared at the server.
Same(m) ==
    LET of == {o \in Options : o <= conf.chain + 1} IN
    IF conf.chain = 0 THEN {e \in m : ~IsChain(e)} = of \X {conf.version}
    ELSE m = of \X {conf.version}

\* The frames the server has are of the present run of the client: numbers
\* begin with 0 again when the client is restarted.
OneRun == runs \subseteq {run}

(***************************************************************************)
(* InSync: a server that has all frames of the client's present sequence   *)
(* number has saved exactly the client's settings, unless a change is      *)
(* still to be announced or a MIB call failed for one of these frames;     *)
(* also when the settings changed between two frames, frames of two rounds *)
(* were needed, or older ones came late, or were not whole.                *)
(***************************************************************************)
InSync ==
    (/\ ~changed /\ next_seq = cur_seq /\ seq = cur_seq
     /\ AllReceived(pktidmask, totalcnt) /\ OneRun /\ whole /\ cpc # "dead")
        => mib = saved /\ Same(saved)

(***************************************************************************)
(* Converges: once changes and restarts have come to an end, the server    *)
(* has the client's settings for good, unless the client is not running,   *)
(* the server took frames of an earlier run of the client for its own, or  *)
(* a MIB call failed for one of the frames it has masked: such a frame is  *)
(* not taken again until the next change.  A failure for an earlier number *)
(* or before a restart of the server does no lasting harm.                 *)
(***************************************************************************)
Converges == <>[](Same(saved) \/ cpc = "dead" \/ ~OneRun \/ ~whole)
=============================================================================
