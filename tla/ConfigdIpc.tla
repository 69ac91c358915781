------------------------------ MODULE ConfigdIpc ------------------------------
(***************************************************************************)
(* The configuration daemon and its clients: two System V message queues   *)
(* of a few messages each, one shared memory segment for large records,    *)
(* and a flock() on the daemon's pid file that is to serialise the use of  *)
(* the segment.                                                            *)
(*                                                                         *)
(* A client is a thread, named by its tid.  It calls one of the functions  *)
(* of sysconfig.c at a time: "get" stands for those that fetch a record    *)
(* through shared memory (mib_chain_get, mib_read_to_raw), "add" for those *)
(* that hand one over (mib_chain_add, mib_chain_update,                    *)
(* mib_update_from_raw), "set" for those whose data fits in the message.   *)
(* The contents of the segment are abstracted to the call they belong to.  *)
(* MSG_FAIL and MSG_MIB_LOCKED are one outcome, "FAIL".                    *)
(***************************************************************************)
EXTENDS Naturals, SequencesExt

CONSTANTS
  Clients,      \* tids that may call the daemon
  Cmds,         \* the calls they make: a subset of {"get", "add", "set"}
  QueueCap,     \* MAX_MSGQ_MSGNUM
  MayTerm,      \* may configd get SIGTERM
  MayReuse,     \* may the tid of a dead client be given to a new one
  LateStart,    \* do clients run before configd has written its pid file
  MaxCalls,     \* bound: calls made under one tid
  MaxKills      \* bound: how many clients are killed

ASSUME IpcAssumption ==
  /\ Cmds \subseteq {"get", "add", "set"}
  /\ QueueCap \in Nat \ {0}
  /\ {MayTerm, MayReuse, LateStart} \subseteq BOOLEAN
  /\ MaxCalls \in Nat /\ MaxKills \in Nat

VARIABLES
  cpc,       \* where each client stands
  cmd,       \* the call it makes
  calls,     \* how many calls were made under this tid
  tgid,      \* its thread group: which process owns the tid
  got,       \* the call answered by the reply it has read, in a set
  kills,     \* how many clients were killed
  spc,       \* where configd stands
  cur,       \* qbuf of msg_handler(), a sequence of at most one message
  tmp,       \* qbuf_tmp of drop_unexist_pid_message()
  count,     \* how many of its num_of_msg messages are still to be received
  isDropQueue, \* has it dropped a message of a thread that is gone
  queues,    \* do the queues exist
  qsnd,      \* the queue of requests
  qrcv,      \* the queue of replies
  shm,       \* the call whose data the shared memory holds, in a set
  holder,    \* the clients that hold the flock
  pidfile,   \* does the pid file exist
  dropped,   \* calls whose reply configd threw away
  unsafe,    \* has a client used the segment without the lock, or
             \* died with its request under way and the lock held
  stale      \* tids that were reused while a message of the dead thread
             \* was still under way

clientVars == <<cpc, cmd, calls, tgid, got, kills>>
dropVars == <<tmp, count, isDropQueue>>
serverVars == <<spc, cur, tmp, count, isDropQueue>>
vars == <<cpc, cmd, calls, tgid, got, kills, spc, cur, tmp, count, isDropQueue,
          queues, qsnd, qrcv, shm, holder, pidfile, dropped, unsafe, stale>>

Call(c) == <<c, calls[c]>>
CallIds == Clients \X (1..MaxCalls)
Alive(c) == cpc[c] # "dead"
UsesShm(c) == cmd[c] \in {"get", "add"}

(* A message: the tid and thread group of the caller, its call, a status.  *)
Messages == [tid : Clients, tgid : 0..MaxKills + 1, cmd : Cmds,
             call : CallIds, status : {"request", "SUCC", "FAIL"}]

(* Every message of the exchange, wherever it is, and those of a tid.      *)
InFlight == qsnd \o cur \o qrcv \o tmp
OfTid(c) == {i \in DOMAIN InFlight : InFlight[i].tid = c}

(* checkPidExist(): tgkill() with signal 0.  Only ESRCH means "gone"; a    *)
(* thread group of 0 is EINVAL, which counts as "exists".                  *)
(* Mutant: the test is the wrong way round.                                *)
CheckPidExistInverted(m) ==
  ~(m.tgid = 0 \/ (Alive(m.tid) /\ tgid[m.tid] = m.tgid))

CheckPidExist(m) == m.tgid = 0 \/ (Alive(m.tid) /\ tgid[m.tid] = m.tgid)

Init ==
  /\ cpc = [c \in Clients |-> "idle"]
  /\ cmd = [c \in Clients |-> "none"]
  /\ calls = [c \in Clients |-> 0]
  /\ tgid = [c \in Clients |-> 1]
  /\ got = [c \in Clients |-> {}]
  /\ kills = 0
  /\ spc = IF LateStart THEN "init" ELSE "recv"
  /\ cur = <<>> /\ tmp = <<>> /\ count = 0 /\ isDropQueue = FALSE
  /\ queues = TRUE /\ qsnd = <<>> /\ qrcv = <<>>
  /\ shm = {} /\ holder = {}
  /\ pidfile = ~LateStart
  /\ dropped = {} /\ unsafe = FALSE /\ stale = {}

-----------------------------------------------------------------------------
(***************************************************************************)
(* The client: mib_chain_get() and its like.                               *)
(***************************************************************************)
Start(c) ==
  /\ cpc[c] = "idle" /\ calls[c] < MaxCalls
  /\ \E k \in Cmds :
       /\ cmd' = [cmd EXCEPT ![c] = k]
       /\ cpc' = [cpc EXCEPT ![c] = IF k = "set" THEN "send" ELSE "flock"]
  /\ calls' = [calls EXCEPT ![c] = @ + 1]
  /\ UNCHANGED <<tgid, got, kills, serverVars, queues, qsnd, qrcv, shm,
                 holder, pidfile, dropped, unsafe, stale>>

(* lock_shm_by_flock(): waits for the lock, but goes on without it when    *)
(* the pid file cannot be opened.  Mutant: a shared lock.                  *)
MayLockShared(c) == TRUE

MayLock(c) == ~pidfile \/ holder = {}

LockShm(c) ==
  /\ cpc[c] = "flock" /\ MayLock(c)
  /\ holder' = IF pidfile THEN holder \cup {c} ELSE holder
  /\ unsafe' = (unsafe \/ ~pidfile)
  /\ cpc' = [cpc EXCEPT ![c] = IF cmd[c] = "add" THEN "put" ELSE "send"]
  /\ UNCHANGED <<cmd, calls, tgid, got, kills, serverVars, queues, qsnd,
                 qrcv, shm, pidfile, dropped, stale>>

(* put_shm_data(), or its failure, after which nothing is sent.            *)
PutShm(c) ==
  /\ cpc[c] = "put"
  /\ \/ /\ shm' = {Call(c)}
        /\ cpc' = [cpc EXCEPT ![c] = "send"]
     \/ /\ cpc' = [cpc EXCEPT ![c] = "return"]
        /\ UNCHANGED shm
  /\ UNCHANGED <<cmd, calls, tgid, got, kills, serverVars, queues, qsnd,
                 qrcv, holder, pidfile, dropped, unsafe, stale>>

(* The first half of sendcmd(): open both queues, send_message().  The     *)
(* call fails when there is no queue, and when a signal interrupts a       *)
(* msgsnd() that has been blocked for ten seconds.                         *)
SendCmd(c) ==
  /\ cpc[c] = "send"
  /\ \/ /\ queues /\ Len(qsnd) < QueueCap
        /\ qsnd' = Append(qsnd, [tid |-> c, tgid |-> tgid[c], cmd |-> cmd[c],
                                 call |-> Call(c), status |-> "request"])
        /\ cpc' = [cpc EXCEPT ![c] = "wait"]
     \/ /\ ~queues \/ Len(qsnd) >= QueueCap
        /\ cpc' = [cpc EXCEPT ![c] = "return"]
        /\ UNCHANGED qsnd
  /\ UNCHANGED <<cmd, calls, tgid, got, kills, serverVars, queues, qrcv, shm,
                 holder, pidfile, dropped, unsafe, stale>>

(* The replies msgrcv() may hand to client c: those whose mtype is its     *)
(* tid.  Mutant: type 0, any message.                                      *)
RepliesForAny(c) == {i \in DOMAIN qrcv : TRUE}

RepliesFor(c) == {i \in DOMAIN qrcv : qrcv[i].tid = c}

(* The second half of sendcmd(): read_message() takes the first reply of   *)
(* the client's type, or fails because the queue was removed.              *)
ReadReply(c) ==
  /\ cpc[c] = "wait"
  /\ \/ /\ RepliesFor(c) # {}
        /\ LET i == CHOOSE i \in RepliesFor(c) : \A j \in RepliesFor(c) : i <= j
               m == qrcv[i]
           IN  /\ qrcv' = RemoveAt(qrcv, i)
               /\ got' = [got EXCEPT ![c] = {m.call}]
               /\ cpc' = [cpc EXCEPT ![c] =
                            IF m.status = "SUCC" /\ cmd[c] = "get"
                              THEN "fetch" ELSE "return"]
     \/ /\ ~queues
        /\ cpc' = [cpc EXCEPT ![c] = "return"]
        /\ UNCHANGED <<qrcv, got>>
  /\ UNCHANGED <<cmd, calls, tgid, kills, serverVars, queues, qsnd, shm,
                 holder, pidfile, dropped, unsafe, stale>>

(* get_shm_data().                                                         *)
FetchShm(c) ==
  /\ cpc[c] = "fetch"
  /\ cpc' = [cpc EXCEPT ![c] = "return"]
  /\ UNCHANGED <<cmd, calls, tgid, got, kills, serverVars, queues, qsnd, qrcv,
                 shm, holder, pidfile, dropped, unsafe, stale>>

(* unlock_shm_by_flock() and the return of the call.                       *)
Return(c) ==
  /\ cpc[c] = "return"
  /\ cpc' = [cpc EXCEPT ![c] = "idle"]
  /\ cmd' = [cmd EXCEPT ![c] = "none"]
  /\ got' = [got EXCEPT ![c] = {}]
  /\ holder' = holder \ {c}
  /\ UNCHANGED <<calls, tgid, kills, serverVars, queues, qsnd, qrcv, shm,
                 pidfile, dropped, unsafe, stale>>

Client(c) == \/ LockShm(c) \/ PutShm(c) \/ SendCmd(c) \/ ReadReply(c)
             \/ FetchShm(c) \/ Return(c)

(* A client is killed; the kernel closes its files and so drops the lock.  *)
Kill(c) ==
  /\ Alive(c) /\ kills < MaxKills
  /\ kills' = kills + 1
  /\ cpc' = [cpc EXCEPT ![c] = "dead"]
  /\ cmd' = [cmd EXCEPT ![c] = "none"]
  /\ got' = [got EXCEPT ![c] = {}]
  /\ holder' = holder \ {c}
  /\ unsafe' = (unsafe \/ (c \in holder /\ cpc[c] = "wait"))
  /\ UNCHANGED <<calls, tgid, serverVars, queues, qsnd, qrcv, shm, pidfile,
                 dropped, stale>>

(* Its tid is given to a thread of another process.                        *)
Reuse(c) ==
  /\ MayReuse /\ ~Alive(c)
  /\ cpc' = [cpc EXCEPT ![c] = "idle"]
  /\ tgid' = [tgid EXCEPT ![c] = @ + 1]
  /\ stale' = IF OfTid(c) = {} THEN stale ELSE stale \cup {c}
  /\ UNCHANGED <<cmd, calls, got, kills, serverVars, queues, qsnd, qrcv, shm,
                 holder, pidfile, dropped, unsafe>>

-----------------------------------------------------------------------------
(***************************************************************************)
(* The daemon.  Queues and segment exist when main() forks; clients can    *)
(* open them before the child has written the pid file.                    *)
(***************************************************************************)
LogPid ==
  /\ spc = "init"
  /\ spc' = "recv" /\ pidfile' = TRUE
  /\ UNCHANGED <<clientVars, cur, tmp, count, isDropQueue, queues, qsnd,
                 qrcv, shm, holder, dropped, unsafe, stale>>

(* msg_handler(): read_message() of the oldest request.                    *)
Recv ==
  /\ spc = "recv" /\ qsnd # <<>>
  /\ cur' = <<Head(qsnd)>> /\ qsnd' = Tail(qsnd)
  /\ spc' = "process"
  /\ UNCHANGED <<clientVars, dropVars, queues, qrcv, shm, holder, pidfile,
                 dropped, unsafe, stale>>

(* msgProcess(): a successful "get" fills the segment, an "add" reads it   *)
(* (see ShmOwn), a failed command does neither.                            *)
Process ==
  /\ spc = "process"
  /\ \E st \in {"SUCC", "FAIL"} :
       /\ cur' = <<[cur[1] EXCEPT !.status = st]>>
       /\ shm' = IF st = "SUCC" /\ cur[1].cmd = "get"
                   THEN {cur[1].call} ELSE shm
  /\ spc' = "check"
  /\ UNCHANGED <<clientVars, dropVars, queues, qsnd, qrcv, holder, pidfile,
                 dropped, unsafe, stale>>

(* "Send the message only if the receiving process alive."  The reply      *)
(* goes out with thread group 0.                                           *)
Check ==
  /\ spc = "check"
  /\ IF CheckPidExist(cur[1])
       THEN spc' = "send" /\ cur' = <<[cur[1] EXCEPT !.tgid = 0]>>
       ELSE spc' = "recv" /\ cur' = <<>>
  /\ UNCHANGED <<clientVars, dropVars, queues, qsnd, qrcv, shm, holder,
                 pidfile, dropped, unsafe, stale>>

(* send_message_nonblock(): msgsnd() with IPC_NOWAIT, tried again while    *)
(* the queue is full.  Mutant: one message too many.                       *)
RcvHasRoomOffByOne == Len(qrcv) <= QueueCap

RcvHasRoom == Len(qrcv) < QueueCap

Send ==
  /\ spc = "send" /\ RcvHasRoom
  /\ qrcv' = Append(qrcv, cur[1])
  /\ spc' = "recv" /\ cur' = <<>>
  /\ UNCHANGED <<clientVars, dropVars, queues, qsnd, shm, holder, pidfile,
                 dropped, unsafe, stale>>

(* Ten seconds of EAGAIN: drop_unexist_pid_message() asks how many         *)
(* messages the queue holds.                                               *)
DropStat ==
  /\ spc = "send" /\ ~RcvHasRoom
  /\ spc' = "drain" /\ count' = Len(qrcv)
  /\ tmp' = <<>> /\ isDropQueue' = FALSE
  /\ UNCHANGED <<clientVars, cur, queues, qsnd, qrcv, shm, holder, pidfile,
                 dropped, unsafe, stale>>

(* It takes that many out, with a msgrcv() that waits, and keeps those     *)
(* whose owner exists.  As replies carry thread group 0, it keeps all.     *)
Drain ==
  /\ spc = "drain" /\ count > 0 /\ qrcv # <<>>
  /\ qrcv' = Tail(qrcv) /\ count' = count - 1
  /\ IF CheckPidExist(Head(qrcv))
       THEN /\ tmp' = Append(tmp, Head(qrcv))
            /\ UNCHANGED <<dropped, isDropQueue>>
       ELSE /\ dropped' = dropped \cup {Head(qrcv).call}
            /\ isDropQueue' = TRUE
            /\ UNCHANGED tmp
  /\ UNCHANGED <<clientVars, spc, cur, queues, qsnd, shm, holder, pidfile,
                 unsafe, stale>>

(* "all message's pid is exist, we drop the longest message".  Replies are *)
(* stamped and sent one after the other and put back in their order, so    *)
(* the message with the smallest stamptime is the first of tmp; every      *)
(* message for its tid goes.                                               *)
Longest == {m \in Range(tmp) : m.tid = tmp[1].tid /\ m.tgid = tmp[1].tgid}

(* The loop over tmp that sends back the messages that are not in drop.    *)
Without(s, drop) ==
  LET kept[i \in 0..Len(s)] ==
        IF i = 0 THEN <<>>
        ELSE IF s[i] \in drop THEN kept[i - 1] ELSE Append(kept[i - 1], s[i])
  IN  kept[Len(s)]

(* What is put back.  Nothing is dropped when Drain has dropped some.      *)
(* Mutant: no message is dropped when all owners exist.                    *)
SentBackAll == tmp

SentBack == IF isDropQueue THEN tmp
            ELSE Without(tmp, Longest)

(* The messages are sent back with IPC_NOWAIT and send_message_nonblock()   *)
(* tries its own again.                                                    *)
DropSendBack ==
  /\ spc = "drain" /\ count = 0
  /\ dropped' = dropped \cup {m.call : m \in Range(tmp) \ Range(SentBack)}
  /\ qrcv' = qrcv \o SentBack
  /\ spc' = "send" /\ tmp' = <<>>
  /\ UNCHANGED <<clientVars, cur, count, isDropQueue, queues, qsnd, shm, holder,
                 pidfile, unsafe, stale>>

(* sigterm_handler(): both queues are removed and the daemon exits.        *)
Term ==
  /\ MayTerm /\ spc # "gone"
  /\ spc' = "gone" /\ cur' = <<>>
  /\ tmp' = <<>> /\ count' = 0 /\ isDropQueue' = FALSE
  /\ queues' = FALSE /\ qsnd' = <<>> /\ qrcv' = <<>>
  /\ UNCHANGED <<clientVars, shm, holder, pidfile, dropped, unsafe, stale>>

Server == \/ LogPid \/ Recv \/ Process \/ Check \/ Send \/ DropStat \/ Drain
          \/ DropSendBack

Next ==
  \/ Server
  \/ Term
  \/ \E c \in Clients : Start(c) \/ Client(c) \/ Kill(c) \/ Reuse(c)

Spec == Init /\ [][Next]_vars

(* configd runs at priority -19 and its loop never waits but in msgrcv();  *)
(* a client thread that can go on is scheduled again.                      *)
FairSpec == /\ Spec /\ WF_vars(Server)
            /\ \A c \in Clients : WF_vars(Client(c))

-----------------------------------------------------------------------------
ClientPcs == {"idle", "flock", "put", "send", "wait", "fetch", "return", "dead"}
ServerPcs == {"init", "recv", "process", "check", "send", "drain", "gone"}

(* Types.  That configd has one message in hand exactly while it works on  *)
(* it is part of it, and that tmp, the array qbuf_tmp[MAX_MSGQ_MSGNUM] on  *)
(* its stack, is never filled beyond its end, nor a queue beyond the       *)
(* number of messages it was sized for.                                    *)
TypeOK ==
  /\ cpc \in [Clients -> ClientPcs]
  /\ cmd \in [Clients -> Cmds \cup {"none"}]
  /\ calls \in [Clients -> 0..MaxCalls]
  /\ tgid \in [Clients -> 1..MaxKills + 1]
  /\ got \in [Clients -> SUBSET CallIds]
  /\ kills \in 0..MaxKills
  /\ spc \in ServerPcs
  /\ Range(cur) \subseteq Messages
  /\ Len(cur) = IF spc \in {"init", "recv", "gone"} THEN 0 ELSE 1
  /\ Range(tmp) \subseteq Messages /\ Len(tmp) <= QueueCap
  /\ count \in 0..QueueCap
  /\ Range(qsnd) \subseteq Messages /\ Range(qrcv) \subseteq Messages
  /\ Len(qsnd) <= QueueCap /\ Len(qrcv) <= QueueCap
  /\ shm \subseteq CallIds /\ dropped \subseteq CallIds
  /\ holder \subseteq Clients /\ stale \subseteq Clients
  /\ {isDropQueue, queues, pidfile, unsafe} \subseteq BOOLEAN

(* A live client that waits in read_message() has exactly one message      *)
(* under way, the request it waits for or its reply, unless configd threw  *)
(* the reply away or was terminated; any other live client has none.  No   *)
(* path of msg_handler(), send_message_nonblock() and                      *)
(* drop_unexist_pid_message() loses or duplicates a message.  Left out is  *)
(* a thread whose tid was reused before its predecessor's message arrived. *)
ExactlyOnce ==
  \A c \in Clients \ stale : Alive(c) =>
    IF cpc[c] = "wait" /\ queues /\ Call(c) \notin dropped
      THEN \E i \in DOMAIN InFlight :
             OfTid(c) = {i} /\ InFlight[i].call = Call(c)
      ELSE OfTid(c) = {}

(* The reply that sendcmd() returns to a client answers the request which  *)
(* that client sent in the same call; only a thread that has inherited a   *)
(* tid together with a message under way may read another's.               *)
ReplyMatches == \A c \in Clients \ stale : got[c] \subseteq {Call(c)}

(* The shared memory holds the data of the call that uses it, when configd *)
(* executes an "add" and when a client fetches the result of a "get", as   *)
(* long as every client has taken the flock(), none was killed between its *)
(* request and the reply, and no reply was read by an heir of the tid.     *)
ShmOwn ==
  ~unsafe /\ stale = {} =>
    /\ spc = "process" /\ cur[1].cmd = "add" => shm = {cur[1].call}
    /\ \A c \in Clients : cpc[c] = "fetch" => shm = {Call(c)}

(* drop_unexist_pid_message() sends the kept replies back with IPC_NOWAIT  *)
(* and does not look at the result: they fit, together with what is in the *)
(* queue, and at least one place is left for the reply that waits.         *)
SendBackFits ==
  spc = "drain" /\ count = 0 => Len(qrcv) + Len(SentBack) < QueueCap

(* A client that waits for a reply gets one, or an error when configd      *)
(* terminates, or is killed.  It waits for ever in two cases only: configd *)
(* has thrown its reply away to make room, or has itself stopped in the    *)
(* blocking msgrcv() of drop_unexist_pid_message() (see Listening).        *)
Hung == spc = "drain" /\ count > Len(qrcv)
Answered ==
  \A c \in Clients :
    cpc[c] = "wait" ~> (cpc[c] # "wait" \/ Call(c) \in dropped \/ Hung)

(* configd comes back to read the next request for ever, or until it is    *)
(* told to stop: "The server hereafter keeps listening on the message      *)
(* queue".                                                                 *)
Listening == []<>(spc \in {"recv", "gone"})

=============================================================================
