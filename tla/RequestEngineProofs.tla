------------------------ MODULE RequestEngineProofs ------------------------
(***************************************************************************)
(* Proofs about the request engine, for every pool of requests, set of     *)
(* sockets, connection limit and timeout.                                  *)
(***************************************************************************)
EXTENDS RequestEngine, FiniteSetTheorems, TLAPS

-----------------------------------------------------------------------------
(* What the loop relies on in the value a handler returns.                 *)
Responses == {"none", "queued", "sent"}

GoodOutcome(o) ==
  /\ o.ret \in {-1, 0, 1} /\ o.status \in Statuses /\ o.resp \in Responses
  /\ o.ret = -1 => o.resp = "none"
  /\ o.ret = 0 /\ o.status = "LANIP_CHANGE" => o.resp = "none"

(* A handler that blocks has written nothing to the output buffer, and one *)
(* that ends a request in status LANIP_CHANGE neither.                     *)
LEMMA HandlerOutcome ==
  ASSUME NEW s \in Statuses
  PROVE  /\ \A o \in Handler(s) : GoodOutcome(o)
         /\ \A o \in StalledHandler(s) : GoodOutcome(o)
<1>1. \A o \in InitForm : GoodOutcome(o)
  BY DEF InitForm, GoodOutcome, Outcome, Statuses, Responses
<1>2. \A t \in Statuses \ {"LANIP_CHANGE"} : \A o \in InitCgi(t) : GoodOutcome(o)
  BY DEF InitCgi, GoodOutcome, Outcome, Statuses, Responses
<1>3. \A o \in InitGet2 : GoodOutcome(o)
  BY <1>1 DEF InitGet2, GoodOutcome, Outcome, Statuses, Responses
<1>4. \A o \in InitGet : GoodOutcome(o)
  BY DEF InitGet, GoodOutcome, Outcome, Statuses, Responses
<1>5. \A o \in InitCgi("BODY_READ") \cup InitCgi("BODY_WRITE") : GoodOutcome(o)
  BY <1>2 DEF Statuses
<1>6. \A o \in ReadHeader : GoodOutcome(o)
  <2>1. \A o \in ProcessHeaderEnd : GoodOutcome(o)
    BY <1>3, <1>4, <1>5
    DEF ProcessHeaderEnd, GoodOutcome, Outcome, Statuses, Responses
  <2> QED
    BY <2>1 DEF ReadHeader, GoodOutcome, Outcome, Statuses, Responses
<1>7. \A o \in ReadBody : GoodOutcome(o)
  BY DEF ReadBody, GoodOutcome, Outcome, Statuses, Responses
<1>8. \A o \in WriteBody : GoodOutcome(o)
  BY <1>1, <1>5 DEF WriteBody, GoodOutcome, Outcome, Statuses, Responses
<1>9. \A o \in ProcessGet \cup ReadFromPipe \cup WriteFromPipe : GoodOutcome(o)
  BY DEF ProcessGet, ReadFromPipe, WriteFromPipe, GoodOutcome, Outcome,
         Statuses, Responses
<1>10. \A o \in Handler(s) : GoodOutcome(o)
  <2>1. CASE s \in {"READ_HEADER", "BODY_READ", "BODY_WRITE"}
    BY <2>1, <1>6, <1>7, <1>8 DEF Handler
  <2>2. CASE s \in {"WRITE", "PIPE_READ", "PIPE_WRITE"}
    BY <2>2, <1>9 DEF Handler
  <2>3. CASE s \in {"CLOSE", "LANIP_CHANGE"}
    BY <2>3 DEF Handler, GoodOutcome, Outcome, Statuses, Responses
  <2> QED
    BY <2>1, <2>2, <2>3 DEF Statuses
<1>11. \A o \in StalledHandler(s) : GoodOutcome(o)
  <2>1. CASE s \in {"READ_HEADER", "BODY_READ", "WRITE", "PIPE_WRITE"}
    BY <2>1 DEF StalledHandler, GoodOutcome, Outcome, Statuses, Responses
  <2>2. CASE s \notin {"READ_HEADER", "BODY_READ", "WRITE", "PIPE_WRITE"}
    BY <2>2, <1>10 DEF StalledHandler
  <2> QED
    BY <2>1, <2>2
<1> QED
  BY <1>10, <1>11

(* req_flush() keeps the countdown between its start value and -1, the     *)
(* value that stands for all negative ones.                                *)
LEMMA FlushTypes ==
  ASSUME TypeOK, NEW r \in Requests, NEW resp \in Responses,
         NEW f \in ReqFlush(r) \cup Respond(r, resp)
  PROVE  /\ f.buf \in Buffers
         /\ f.waitsec \in -1..WriteWait
         /\ f.lag \in 0..WriteWait + 1
         /\ f \in Respond(r, resp) /\ resp = "none" => f.buf = "empty"
<1>1. FailedWrite \in -1..WriteWait
  BY EngineAssumption DEF TypeOK, FailedWrite, Clip
<1>2. \A b \in Buffers : \A w \in -1..WriteWait : \A l \in 0..WriteWait + 1 :
          /\ Flush(b, w, l).buf \in Buffers
          /\ Flush(b, w, l).waitsec \in -1..WriteWait
          /\ Flush(b, w, l).lag \in 0..WriteWait + 1
  BY Zenon DEF Flush
<1>3. /\ 0 \in -1..WriteWait
      /\ 0 \in 0..WriteWait + 1
      /\ waitsec \in -1..WriteWait
      /\ lag \in 0..WriteWait + 1
  BY EngineAssumption DEF TypeOK
<1>4. \A g \in ReqFlush(r) : /\ g.buf \in Buffers
                             /\ g.waitsec \in -1..WriteWait
                             /\ g.lag \in 0..WriteWait + 1
  BY ZenonT(40), <1>1, <1>2, <1>3
  DEF ReqFlush, Written, WouldBlock, WriteError, Buffers
<1>5. \A g \in NoFlush("bytes") \cup NoFlush("empty") :
          /\ g.buf \in Buffers
          /\ g.waitsec \in -1..WriteWait
          /\ g.lag \in 0..WriteWait + 1
  BY <1>2, <1>3 DEF NoFlush, Buffers
<1>6. \A g \in NoFlush("empty") : g.buf = "empty"
  BY DEF NoFlush, Flush
<1> QED
  BY <1>4, <1>5, <1>6 DEF Respond, Responses

-----------------------------------------------------------------------------
(* Only finitely many requests are ever freed at once.                     *)
LEMMA FiniteRequests ==
  ASSUME NEW rs \in SUBSET Requests
  PROVE  IsFiniteSet(rs) /\ Cardinality(rs) \in Nat
BY EngineAssumption, FS_Subset, FS_CardinalityType DEF EngineAssumption

(* A turn of process_requests() keeps every variable in its type.          *)
LEMMA TurnTypes ==
  ASSUME TypeOK, NEW r \in Requests, NEW s \in Statuses, NEW ret, NEW f,
         f.buf \in Buffers, f.waitsec \in -1..WriteWait,
         f.lag \in 0..WriteWait + 1,
         Turn(r, ret, s, f)
  PROVE  TypeOK'
<1>1. /\ pc' = pc /\ listen' = listen /\ lameDuck' = lameDuck
      /\ sigterm' = sigterm /\ acceptErrs' = acceptErrs
      /\ todo' \subseteq Requests
      /\ buf' \in [Requests -> Buffers]
      /\ waitsec' \in -1..WriteWait /\ lag' \in 0..WriteWait + 1
  BY DEF Turn, TypeOK
<1>2. status' \in [Requests -> Statuses]
  BY DEF Turn, Dispose, TypeOK, Statuses
<1>3. \A t \in Statuses, b \in Buffers : WaitKind(t, b) \in FdKinds
  BY DEF WaitKind, FdKinds
<1>4. /\ where' \in [Requests -> Lists]
      /\ age' \in [Requests -> 0..RequestTimeout + 1]
      /\ open' \subseteq Requests
      /\ connections' \in Int
      /\ fdset' \subseteq Requests \X FdKinds
      /\ stalled' \subseteq Requests /\ lanip' \subseteq Requests
  <2>1. CASE Parked(r)
    <3>1. status'[r] \in Statuses /\ buf'[r] \in Buffers
      BY <1>1, <1>2
    <3>2. <<r, WaitKind(status'[r], buf'[r])>> \in Requests \X FdKinds
      BY <3>1, <1>3, Zenon
    <3> QED
      BY <3>2, <2>1 DEF Parked, TypeOK, Lists
  <2>2. CASE Finished(r, s)
    <3>1. lanip' \subseteq Requests
      BY <2>2 DEF Finished, TypeOK
    <3>2. CASE UNCHANGED <<where, age, open, connections, fdset, stalled>>
      BY <3>1, <3>2 DEF TypeOK
    <3>3. CASE /\ FreeRequests({r})
               /\ where' = [where EXCEPT ![r] = "free"]
               /\ age' = [age EXCEPT ![r] = 0]
               /\ fdset' = fdset \ {<<r, WaitKind(s, "empty")>>}
      <4>1. Cardinality({r}) \in Nat
        BY FiniteRequests
      <4>2. open' \subseteq Requests
        BY <3>3, Zenon DEF FreeRequests, TypeOK
      <4>3. connections' \in Int /\ stalled' \subseteq Requests
        BY <3>3, <4>1 DEF FreeRequests, TypeOK
      <4>4. /\ where' \in [Requests -> Lists]
            /\ age' \in [Requests -> 0..RequestTimeout + 1]
        <5>1. 0 \in 0..RequestTimeout + 1
          BY EngineAssumption
        <5> QED
          BY <3>3, <5>1, Zenon DEF TypeOK, Lists
      <4>5. fdset' \subseteq Requests \X FdKinds
        BY <3>3, Zenon DEF TypeOK
      <4> QED
        BY <3>1, <4>2, <4>3, <4>4, <4>5
    <3> QED
      BY <2>2, <3>2, <3>3 DEF Finished
  <2>3. CASE Continued(r)
    BY <2>3, EngineAssumption DEF Continued, TypeOK
  <2> QED
    BY <2>1, <2>2, <2>3 DEF Turn, Dispose
<1> QED
  BY <1>1, <1>2, <1>4 DEF TypeOK

(* free_request() of a set of requests keeps its variables in their types. *)
LEMMA FreeTypes ==
  ASSUME TypeOK, NEW rs \in SUBSET Requests, FreeRequests(rs)
  PROVE  /\ open' \subseteq Requests
         /\ connections' \in Int
         /\ stalled' \subseteq Requests
<1>1. open' \subseteq Requests
  BY Zenon DEF FreeRequests, TypeOK
<1>2. Cardinality(rs) \in Nat
  BY FiniteRequests
<1> QED
  BY <1>1, <1>2 DEF FreeRequests, TypeOK

(* A pass of fdset_update() keeps every variable in its type.              *)
LEMMA FdsetUpdateTypes == TypeOK /\ FdsetUpdate => TypeOK'
<1> SUFFICES ASSUME TypeOK, FdsetUpdate PROVE TypeOK'
  OBVIOUS
<1> DEFINE expired == {r \in On("block") : age[r] > RequestTimeout}
           freed   == {r \in expired : buf[r] = "empty"}
           woken   == {r \in On("block") \ expired : WaitFd(r) \in fdset}
           watched == {r \in On("block") \ (expired \cup woken) : buf[r] = "empty"}
<1>0. /\ freed \in SUBSET Requests /\ woken \in SUBSET Requests
      /\ watched \in SUBSET Requests /\ On("ready") \in SUBSET Requests
  BY DEF On
<1>1. /\ pc' \in {"process", "select"} /\ todo' \subseteq Requests
      /\ buf' = buf /\ waitsec' = waitsec /\ lag' = lag /\ lameDuck' = lameDuck
      /\ sigterm' = sigterm /\ lanip' = lanip /\ acceptErrs' = acceptErrs
  BY <1>0, Zenon DEF FdsetUpdate
<1>2. /\ open' \subseteq Requests
      /\ connections' \in Int
      /\ stalled' \subseteq Requests
  <2>1. FreeRequests(freed)
    BY Zenon DEF FdsetUpdate
  <2> QED
    BY <2>1, <1>0, FreeTypes
<1>3. /\ where' \in [Requests -> Lists]
      /\ status' \in [Requests -> Statuses]
      /\ age' \in [Requests -> 0..RequestTimeout + 1]
  <2>1. /\ where' = [r \in Requests |-> IF r \in freed THEN "free"
                                        ELSE IF r \in woken THEN "ready"
                                        ELSE where[r]]
        /\ status' = [r \in Requests |->
                        IF r \in freed THEN "READ_HEADER" ELSE status[r]]
        /\ age' = [r \in Requests |-> IF r \in freed THEN 0 ELSE age[r]]
    BY Zenon DEF FdsetUpdate
  <2> HIDE DEF freed, woken
  <2> QED
    BY <2>1, EngineAssumption DEF TypeOK, Lists, Statuses
<1>4. fdset' \subseteq Requests \X FdKinds
  <2>1. \A r \in watched : WaitFd(r) \in Requests \X FdKinds
    <3>1. \A t \in Statuses, b \in Buffers : WaitKind(t, b) \in FdKinds
      BY DEF WaitKind, FdKinds
    <3> QED
      BY <3>1, <1>0, Zenon DEF WaitFd, TypeOK
  <2>2. fdset' = UpdatedFdset(freed \cup woken, watched)
    BY Zenon DEF FdsetUpdate
  <2> HIDE DEF freed, woken, watched
  <2> QED
    BY <2>1, <2>2, Zenon DEF UpdatedFdset, TypeOK
<1>5. listen' \subseteq Sockets
  BY DEF FdsetUpdate, TypeOK, Sockets
<1> QED
  BY <1>1, <1>2, <1>3, <1>4, <1>5 DEF TypeOK

(* accept() into a free struct, its failure or its refusal.                *)
LEMMA AcceptTypes ==
  ASSUME TypeOK, NEW s \in Sockets, Accept(s)
  PROVE  TypeOK'
<1>1. /\ pc' = pc /\ listen' \subseteq Sockets /\ fdset' = fdset
      /\ waitsec' = waitsec /\ lag' = lag /\ lameDuck' = lameDuck
      /\ sigterm' = sigterm /\ todo' = todo /\ stalled' = stalled
      /\ lanip' = lanip
  BY DEF Accept, TypeOK
<1>2. CASE Refuse
  BY <1>1, <1>2 DEF Refuse, reqVars, TypeOK
<1>3. CASE AcceptFails
  BY <1>1, <1>3 DEF AcceptFails, reqVars, TypeOK
<1>4. ASSUME NEW r \in On("free"), AcceptInto(r) PROVE TypeOK'
  <2>1. buf' \in [Requests -> Buffers] /\ open' \subseteq Requests
    BY <1>4 DEF AcceptInto, TypeOK, Buffers, On
  <2>2. /\ where' \in [Requests -> Lists] /\ status' \in [Requests -> Statuses]
        /\ age' \in [Requests -> 0..RequestTimeout + 1]
        /\ connections' \in Int /\ acceptErrs' = acceptErrs
    BY <1>4, EngineAssumption DEF AcceptInto, TypeOK, Lists, Statuses, On
  <2> QED
    BY <1>1, <2>1, <2>2 DEF TypeOK
<1> QED
  BY <1>2, <1>3, <1>4 DEF Accept, GetSockRequest

(* The initial state is well typed.                                        *)
LEMMA InitTypes == Init => TypeOK
<1> SUFFICES ASSUME Init PROVE TypeOK
  OBVIOUS
<1>1. sigterm \in BOOLEAN
  BY Zenon DEF Init
<1> QED
  BY <1>1, EngineAssumption DEF Init, TypeOK, Lists, Statuses, Buffers

(* Every step keeps every variable in its type.                            *)
LEMMA TypeStep == TypeOK /\ [Next]_vars => TypeOK'
<1> SUFFICES ASSUME TypeOK, [Next]_vars PROVE TypeOK'
  OBVIOUS
<1>1. CASE LoopTop
  <2>1. sigterm' \in BOOLEAN
    BY <1>1, Zenon DEF LoopTop
  <2>2. lameDuck' \in 0..2 /\ pc' \in {"dead", "update"}
    BY <1>1 DEF LoopTop, TypeOK
  <2> QED
    BY <1>1, <2>1, <2>2 DEF LoopTop, TypeOK, reqVars, ghosts
<1>2. CASE FdsetUpdate
  BY <1>2, FdsetUpdateTypes
<1>3. CASE EndProcess
  BY <1>3 DEF EndProcess, TypeOK, reqVars
<1>4. CASE Select
  BY <1>4 DEF Select, TypeOK, reqVars, ghosts, Sockets
<1>5. CASE EndAccept
  BY <1>5 DEF EndAccept, TypeOK, reqVars, ghosts
<1>6. ASSUME NEW r \in Requests, FlushRequest(r) PROVE TypeOK'
  <2>1. PICK f \in ReqFlush(r) : Turn(r, FlushedRet(r), status[r], f)
    BY <1>6 DEF FlushRequest
  <2>2. status[r] \in Statuses /\ "sent" \in Responses
    BY DEF TypeOK, Responses
  <2> QED
    BY <2>1, <2>2, FlushTypes, TurnTypes
<1>7. ASSUME NEW r \in Requests, NEW o \in HandlerOf(r), HandleRequest(r, o)
      PROVE  TypeOK'
  <2>1. PICK f \in Respond(r, o.resp) : Turn(r, o.ret, o.status, f)
    BY <1>7 DEF HandleRequest
  <2>2. GoodOutcome(o)
    BY HandlerOutcome DEF HandlerOf, TypeOK
  <2> QED
    BY <2>1, <2>2, FlushTypes, TurnTypes DEF GoodOutcome
<1>8. ASSUME NEW s \in Sockets, Accept(s) PROVE TypeOK'
  BY <1>8, AcceptTypes
<1>9. CASE Tick
  BY <1>9, EngineAssumption DEF Tick, TypeOK, ghosts
<1>10. CASE SigTerm
  BY <1>10 DEF SigTerm, TypeOK, reqVars, ghosts
<1>11. ASSUME NEW r \in MayStall, Stall(r) PROVE TypeOK'
  BY <1>11, EngineAssumption DEF Stall, TypeOK, reqVars, loopVars
<1>12. CASE UNCHANGED vars
  BY <1>12 DEF vars, TypeOK
<1> QED
  BY <1>1, <1>2, <1>3, <1>4, <1>5, <1>6, <1>7, <1>8, <1>9, <1>10, <1>11, <1>12
  DEF Next, Server, Dead

(* Type correctness: in every reachable state the countdown of req_flush() *)
(* and the clocks stay in range and every bit of the fd_sets belongs to a  *)
(* descriptor of a request.                                                *)
THEOREM TypeCorrect == Spec => []TypeOK
BY InitTypes, TypeStep, PTL DEF Spec

-----------------------------------------------------------------------------
(***************************************************************************)
(* The inductive invariant.                                                *)
(***************************************************************************)

(* The sockets the server holds are finitely many, so they can be counted. *)
LEMMA OpenFinite ==
  ASSUME TypeOK
  PROVE  IsFiniteSet(open) /\ Cardinality(open) \in Nat
BY FiniteRequests DEF TypeOK

(* A turn of process_requests() that parks only requests with an empty     *)
(* buffer, and ends a request in LANIP_CHANGE only with an empty buffer.   *)
LEMMA TurnInv ==
  ASSUME IndInv, pc = "process", NEW r \in todo,
         NEW s \in Statuses, NEW ret \in {-1, 0, 1}, NEW f,
         f.buf \in Buffers, f.waitsec \in -1..WriteWait,
         f.lag \in 0..WriteWait + 1,
         ret = -1 => f.buf = "empty",
         ret = 0 /\ s = "LANIP_CHANGE" => f.buf = "empty",
         Turn(r, ret, s, f)
  PROVE  IndInv'
<1>1. r \in Requests /\ where[r] = "ready" /\ r \in open
  BY DEF IndInv, TypeOK, TodoReady, Accounting, On
<1>2. TypeOK'
  BY <1>1, TurnTypes DEF IndInv
<1>3. /\ pc' = "process" /\ todo' = todo \ {r} /\ acceptErrs' = acceptErrs
      /\ buf' = [buf EXCEPT ![r] = f.buf]
  BY DEF Turn
<1>4. CASE ret = -1 /\ Parked(r)
  <2>1. /\ where' = [where EXCEPT ![r] = "block"]
        /\ open' = open /\ connections' = connections /\ lanip' = lanip
    BY <1>4 DEF Parked
  <2>2. Accounting'
    BY <1>1, <1>3, <2>1 DEF IndInv, TypeOK, Accounting
  <2>3. TodoReady' /\ NoBufferedBlocked'
    BY <1>1, <1>3, <1>4, <2>1
    DEF IndInv, TypeOK, TodoReady, NoBufferedBlocked, On
  <2>4. LanipAfterClose'
    BY <1>1, <1>3, <2>1 DEF IndInv, TypeOK, LanipAfterClose
  <2>5. CountBound'
    BY <2>1 DEF IndInv, CountBound
  <2> QED
    BY <1>2, <1>3, <2>2, <2>3, <2>4, <2>5
    DEF IndInv, WatchedExactly, BitsOfBlocked, LanipInPass, AcceptWhileOpen
<1>5. CASE ret = 0 /\ Finished(r, s)
  <2>1. lanip' \in SUBSET (lanip \cup {r}) /\ (r \in lanip' => s = "LANIP_CHANGE")
    <3>1. r \notin lanip
      BY <1>1 DEF IndInv, LanipAfterClose
    <3> QED
      BY <1>5, <3>1 DEF Finished
  <2>2. CASE f.buf = "bytes"
    <3>1. UNCHANGED <<where, age, open, connections, fdset, stalled>>
      BY <1>1, <1>3, <1>5, <2>2 DEF Finished, IndInv, TypeOK
    <3>2. r \notin lanip'
      BY <1>5, <2>1, <2>2
    <3>3. LanipAfterClose'
      BY <1>1, <1>3, <2>1, <3>1, <3>2 DEF IndInv, TypeOK, LanipAfterClose
    <3>4. TodoReady' /\ NoBufferedBlocked'
      BY <1>1, <1>3, <3>1 DEF IndInv, TypeOK, TodoReady, NoBufferedBlocked, On
    <3>5. Accounting' /\ CountBound'
      BY <1>3, <3>1 DEF IndInv, Accounting, CountBound
    <3> QED
      BY <1>2, <1>3, <3>3, <3>4, <3>5
      DEF IndInv, WatchedExactly, BitsOfBlocked, LanipInPass, AcceptWhileOpen
  <2>3. CASE f.buf = "empty"
    <3>1. /\ where' = [where EXCEPT ![r] = "free"]
          /\ open' = open \ {r}
          /\ connections' = connections - Cardinality({r})
      BY <1>1, <1>3, <1>5, <2>3 DEF Finished, FreeRequests, IndInv, TypeOK
    <3>2. Cardinality({r}) = 1 /\ Cardinality(open \ {r}) = Cardinality(open) - 1
      BY <1>1, OpenFinite, FS_Singleton, FS_RemoveElement DEF IndInv
    <3>3. connections' = connections - 1
      BY <3>1, <3>2
    <3>4. Accounting'
      <4>1. open' = {q \in Requests : where'[q] # "free"}
        BY <1>1, <3>1 DEF IndInv, TypeOK, Accounting
      <4>2. connections' + acceptErrs' = Cardinality(open')
        BY <1>3, <3>1, <3>2, <3>3, OpenFinite DEF IndInv, TypeOK, Accounting
      <4> QED
        BY <4>1, <4>2 DEF Accounting
    <3>5. CountBound'
      BY <3>3, EngineAssumption DEF IndInv, TypeOK, CountBound
    <3>6. LanipAfterClose'
      BY <1>1, <1>3, <2>1, <2>3, <3>1 DEF IndInv, TypeOK, LanipAfterClose
    <3>7. TodoReady' /\ NoBufferedBlocked'
      BY <1>1, <1>3, <3>1 DEF IndInv, TypeOK, TodoReady, NoBufferedBlocked, On
    <3> QED
      BY <1>2, <1>3, <3>4, <3>5, <3>6, <3>7
      DEF IndInv, WatchedExactly, BitsOfBlocked, LanipInPass, AcceptWhileOpen
  <2> QED
    BY <2>2, <2>3 DEF Buffers
<1>6. CASE ret = 1 /\ Continued(r)
  <2>1. UNCHANGED <<where, open, connections, lanip>>
    BY <1>6 DEF Continued
  <2>2. Accounting' /\ CountBound'
    BY <1>3, <2>1 DEF IndInv, Accounting, CountBound
  <2>3. TodoReady' /\ NoBufferedBlocked'
    BY <1>1, <1>3, <2>1 DEF IndInv, TypeOK, TodoReady, NoBufferedBlocked, On
  <2>4. LanipAfterClose'
    BY <1>1, <1>3, <2>1 DEF IndInv, TypeOK, LanipAfterClose
  <2> QED
    BY <1>2, <1>3, <2>2, <2>3, <2>4
    DEF IndInv, WatchedExactly, BitsOfBlocked, LanipInPass, AcceptWhileOpen
<1> QED
  BY <1>4, <1>5, <1>6 DEF Turn, Dispose

(* fdset_update() frees exactly requests that hold a socket, and when no   *)
(* request is ready it has set the bit of every request it left blocked.   *)
LEMMA FdsetUpdateInv == IndInv /\ FdsetUpdate => IndInv'
<1> SUFFICES ASSUME IndInv, FdsetUpdate PROVE IndInv'
  OBVIOUS
<1> DEFINE expired == {r \in On("block") : age[r] > RequestTimeout}
           freed   == {r \in expired : buf[r] = "empty"}
           woken   == {r \in On("block") \ expired : WaitFd(r) \in fdset}
           watched == {r \in On("block") \ (expired \cup woken) : buf[r] = "empty"}
<1>1. TypeOK'
  BY FdsetUpdateTypes DEF IndInv
<1>2. /\ FreeRequests(freed)
      /\ where' = [r \in Requests |-> IF r \in freed THEN "free"
                                      ELSE IF r \in woken THEN "ready"
                                      ELSE where[r]]
      /\ status' = [r \in Requests |->
                      IF r \in freed THEN "READ_HEADER" ELSE status[r]]
      /\ fdset' = UpdatedFdset(freed \cup woken, watched)
      /\ IF On("ready") \cup woken # {}
           THEN pc' = "process" /\ todo' = On("ready") \cup woken
           ELSE pc' = "select" /\ todo' = {}
      /\ pc = "update" /\ buf' = buf /\ lanip' = lanip /\ acceptErrs' = acceptErrs
  BY Zenon DEF FdsetUpdate
<1>3. /\ freed \in SUBSET Requests /\ woken \in SUBSET Requests
      /\ freed \subseteq open
      /\ expired = freed
      /\ watched = On("block") \ (freed \cup woken)
      /\ \A r \in freed \cup woken : where[r] = "block"
  BY DEF On, IndInv, Accounting, NoBufferedBlocked
<1>4. \A r \in woken : r \notin freed
  OBVIOUS
<1> HIDE DEF expired, freed, woken, watched
<1>5. Accounting'
  <2>1. open' = open \ freed /\ connections' = connections - Cardinality(freed)
    BY <1>2 DEF FreeRequests
  <2>2. Cardinality(open \ freed) = Cardinality(open) - Cardinality(freed)
    <3>1. open \cap freed = freed
      BY <1>3
    <3> QED
      BY <3>1, OpenFinite, FS_Difference DEF IndInv
  <2>3. connections' + acceptErrs' = Cardinality(open')
    <3>1. Cardinality(freed) \in Nat
      BY <1>3, FiniteRequests
    <3> QED
      BY <1>2, <2>1, <2>2, <3>1, OpenFinite DEF IndInv, TypeOK, Accounting
  <2>4. open' = {r \in Requests : where'[r] # "free"}
    BY <1>2, <1>3, <2>1 DEF IndInv, TypeOK, Accounting
  <2> QED
    BY <2>3, <2>4 DEF Accounting
<1>6. CountBound'
  <2>1. Cardinality(freed) \in Nat
    BY <1>3, FiniteRequests
  <2> QED
    BY <1>2, <2>1, EngineAssumption DEF FreeRequests, IndInv, TypeOK, CountBound
<1>7. TodoReady'
  BY <1>2, <1>3, <1>4 DEF TodoReady, On, IndInv, TypeOK
<1>8. NoBufferedBlocked'
  BY <1>2 DEF NoBufferedBlocked, On, IndInv
<1>9. LanipInPass' /\ LanipAfterClose' /\ AcceptWhileOpen'
  BY <1>2 DEF IndInv, LanipInPass, LanipAfterClose, AcceptWhileOpen
<1>10. WatchedExactly'
  <2> SUFFICES ASSUME pc' = "select"
               PROVE  fdset' = {WaitFd(r)' : r \in On("block")'}
    BY DEF WatchedExactly
  <2>1. woken = {}
    BY <1>2
  <2>2. On("block")' = watched
    BY <1>2, <1>3, <2>1 DEF On
  <2>3. \A r \in watched : WaitFd(r)' = WaitFd(r)
    BY <1>2, <1>3 DEF WaitFd, On
  <2>4. fdset \subseteq {WaitFd(r) : r \in On("block")}
    BY <1>2 DEF IndInv, BitsOfBlocked
  <2>5. fdset' = {WaitFd(r) : r \in watched}
    BY <1>2, <1>3, <2>1, <2>4 DEF UpdatedFdset
  <2> QED
    BY <2>2, <2>3, <2>5
<1>11. BitsOfBlocked'
  BY <1>2, <1>10 DEF BitsOfBlocked, WatchedExactly
<1> QED
  BY <1>1, <1>5, <1>6, <1>7, <1>8, <1>9, <1>10, <1>11 DEF IndInv

(* get_sock_request() takes a free struct for each socket it adds.         *)
LEMMA AcceptInv ==
  ASSUME IndInv, NEW s \in Sockets, Accept(s)
  PROVE  IndInv'
<1>1. TypeOK'
  BY AcceptTypes DEF IndInv
<1>2. /\ pc = "accept" /\ pc' = "accept" /\ fdset' = fdset /\ todo' = todo
      /\ lanip' = lanip /\ lameDuck' = lameDuck
  BY DEF Accept
<1>3. TodoReady' /\ LanipInPass' /\ LanipAfterClose' /\ AcceptWhileOpen'
  BY <1>2 DEF IndInv, TodoReady, LanipInPass, LanipAfterClose, AcceptWhileOpen
<1>4. WatchedExactly'
  BY <1>2 DEF WatchedExactly
<1>5. CASE Refuse
  <2>1. UNCHANGED reqVars /\ UNCHANGED <<connections, acceptErrs>>
    BY <1>5 DEF Refuse, reqVars
  <2> QED
    BY <1>1, <1>2, <1>3, <1>4, <2>1
    DEF IndInv, Accounting, CountBound, NoBufferedBlocked, BitsOfBlocked, On,
        WaitFd, reqVars
<1>6. CASE AcceptFails
  <2>1. /\ UNCHANGED reqVars
        /\ connections' = connections - 1 /\ acceptErrs' = acceptErrs + 1
    BY <1>6 DEF AcceptFails
  <2>2. Accounting' /\ CountBound'
    BY <2>1, EngineAssumption DEF IndInv, TypeOK, Accounting, CountBound, reqVars
  <2>3. NoBufferedBlocked' /\ BitsOfBlocked'
    BY <1>2, <2>1 DEF IndInv, NoBufferedBlocked, BitsOfBlocked, On, WaitFd, reqVars
  <2> QED
    BY <1>1, <1>3, <1>4, <2>2, <2>3 DEF IndInv
<1>7. ASSUME HasRoom, NEW r \in On("free"), AcceptInto(r) PROVE IndInv'
  <2>1. /\ r \in Requests /\ where[r] = "free" /\ r \notin open
        /\ where' = [where EXCEPT ![r] = "block"]
        /\ status' = [status EXCEPT ![r] = "READ_HEADER"]
        /\ buf' = [buf EXCEPT ![r] = "empty"]
        /\ open' = open \cup {r}
        /\ connections' = connections + 1 /\ acceptErrs' = acceptErrs
    BY <1>7 DEF AcceptInto, On, IndInv, Accounting
  <2>2. Accounting'
    <3>1. Cardinality(open') = Cardinality(open) + 1
      BY <2>1, OpenFinite, FS_AddElement DEF IndInv
    <3>2. connections' + acceptErrs' = Cardinality(open')
      BY <2>1, <3>1, OpenFinite DEF IndInv, TypeOK, Accounting
    <3>3. open' = {q \in Requests : where'[q] # "free"}
      BY <2>1 DEF IndInv, TypeOK, Accounting
    <3> QED
      BY <3>2, <3>3 DEF Accounting
  <2>3. CountBound'
    BY <1>7, <2>1, EngineAssumption DEF HasRoom, CountBound, IndInv, TypeOK
  <2>4. NoBufferedBlocked'
    BY <2>1 DEF NoBufferedBlocked, On, IndInv, TypeOK
  <2>5. BitsOfBlocked'
    <3>1. \A q \in On("block") : q \in On("block")' /\ WaitFd(q)' = WaitFd(q)
      BY <2>1 DEF On, WaitFd, IndInv, TypeOK
    <3>2. fdset \subseteq {WaitFd(q) : q \in On("block")}
      BY <1>2 DEF IndInv, BitsOfBlocked
    <3>3. fdset' \subseteq {WaitFd(q)' : q \in On("block")'}
      BY <1>2, <3>1, <3>2
    <3> QED
      BY <3>3 DEF BitsOfBlocked
  <2> QED
    BY <1>1, <1>3, <1>4, <2>2, <2>3, <2>4, <2>5 DEF IndInv
<1> QED
  BY <1>5, <1>6, <1>7 DEF Accept, GetSockRequest

(* A step that leaves the requests, the count and the bits as they are.    *)
LEMMA QuietInv ==
  ASSUME IndInv, TypeOK',
         UNCHANGED <<where, status, buf, open, connections, acceptErrs, lanip, todo>>,
         pc' = pc, fdset' = fdset, lameDuck' = lameDuck
  PROVE  IndInv'
<1>1. Accounting' /\ CountBound' /\ LanipInPass' /\ LanipAfterClose' /\ AcceptWhileOpen'
  BY DEF IndInv, Accounting, CountBound, LanipInPass, LanipAfterClose,
         AcceptWhileOpen
<1>2. TodoReady' /\ NoBufferedBlocked' /\ WatchedExactly' /\ BitsOfBlocked'
  BY DEF IndInv, TodoReady, NoBufferedBlocked, WatchedExactly, BitsOfBlocked,
         On, WaitFd
<1> QED
  BY <1>1, <1>2 DEF IndInv

(* The steps of the loop that move no request between lists.               *)
LEMMA LoopInv ==
  ASSUME IndInv, TypeOK', LoopTop \/ EndProcess \/ Select \/ EndAccept
  PROVE  IndInv'
<1>1. /\ UNCHANGED <<where, status, buf, open, connections, acceptErrs, todo>>
      /\ pc # "process" => lanip' = lanip
      /\ pc = "process" => todo = {} /\ lanip' = {} /\ fdset' = {}
      /\ pc' \notin {"process", "select"}
      /\ pc' = "accept" => lameDuck' = 0
      /\ fdset' \subseteq fdset
  BY DEF LoopTop, EndProcess, Select, EndAccept, reqVars, ghosts
<1>2. Accounting' /\ CountBound' /\ TodoReady' /\ NoBufferedBlocked'
  BY <1>1 DEF IndInv, Accounting, CountBound, TodoReady, NoBufferedBlocked, On
<1>3. LanipInPass' /\ LanipAfterClose' /\ AcceptWhileOpen' /\ WatchedExactly'
  BY <1>1 DEF IndInv, LanipInPass, LanipAfterClose, AcceptWhileOpen, WatchedExactly
<1>4. BitsOfBlocked'
  BY <1>1 DEF IndInv, BitsOfBlocked, On, WaitFd
<1> QED
  BY <1>2, <1>3, <1>4 DEF IndInv

(* The invariant holds initially and every step keeps it.                  *)
THEOREM Inductive == Spec => []IndInv
<1>1. Init => IndInv
  <2> SUFFICES ASSUME Init PROVE IndInv
    OBVIOUS
  <2>1. TypeOK
    BY InitTypes
  <2>2. Cardinality({}) = 0
    BY FS_EmptySet
  <2>3. Accounting /\ CountBound
    BY <2>2, EngineAssumption DEF Init, Accounting, CountBound
  <2> QED
    BY <2>1, <2>3 DEF Init, IndInv, TodoReady, NoBufferedBlocked, WatchedExactly,
         BitsOfBlocked, LanipInPass, LanipAfterClose, AcceptWhileOpen, On
<1>2. IndInv /\ [Next]_vars => IndInv'
  <2> SUFFICES ASSUME IndInv, [Next]_vars PROVE IndInv'
    OBVIOUS
  <2>1. TypeOK'
    BY TypeStep DEF IndInv
  <2>2. CASE LoopTop \/ EndProcess \/ Select \/ EndAccept
    BY <2>1, <2>2, LoopInv
  <2>3. CASE FdsetUpdate
    BY <2>3, FdsetUpdateInv
  <2>4. ASSUME NEW r \in Requests, FlushRequest(r) PROVE IndInv'
    <3>1. PICK f \in ReqFlush(r) : Turn(r, FlushedRet(r), status[r], f)
      BY <2>4 DEF FlushRequest
    <3>2. /\ status[r] \in Statuses /\ "sent" \in Responses
          /\ FlushedRet(r) \in {-1, 0, 1} /\ FlushedRet(r) # -1
          /\ FlushedRet(r) = 0 => status[r] # "LANIP_CHANGE"
      BY DEF IndInv, TypeOK, Responses, FlushedRet
    <3>3. /\ f.buf \in Buffers
          /\ f.waitsec \in -1..WriteWait
          /\ f.lag \in 0..WriteWait + 1
      BY <3>2, FlushTypes DEF IndInv
    <3>4. pc = "process" /\ r \in todo
      BY <2>4 DEF FlushRequest
    <3> QED
      BY <3>1, <3>2, <3>3, <3>4, TurnInv
  <2>5. ASSUME NEW r \in Requests, NEW o \in HandlerOf(r), HandleRequest(r, o)
        PROVE  IndInv'
    <3>1. PICK f \in Respond(r, o.resp) : Turn(r, o.ret, o.status, f)
      BY <2>5 DEF HandleRequest
    <3>2. GoodOutcome(o)
      BY HandlerOutcome DEF HandlerOf, IndInv, TypeOK
    <3>3. /\ f.buf \in Buffers
          /\ f.waitsec \in -1..WriteWait
          /\ f.lag \in 0..WriteWait + 1
          /\ o.resp = "none" => f.buf = "empty"
      BY <3>2, FlushTypes DEF GoodOutcome, IndInv
    <3>4. pc = "process" /\ r \in todo
      BY <2>5 DEF HandleRequest
    <3> QED
      BY <3>1, <3>2, <3>3, <3>4, TurnInv DEF GoodOutcome
  <2>6. ASSUME NEW s \in Sockets, Accept(s) PROVE IndInv'
    BY <2>6, AcceptInv
  <2>7. CASE Tick \/ SigTerm \/ (\E r \in MayStall : Stall(r)) \/ UNCHANGED vars
    BY <2>1, <2>7, QuietInv
    DEF Tick, SigTerm, Stall, vars, reqVars, loopVars, ghosts
  <2> QED
    BY <2>2, <2>3, <2>4, <2>5, <2>6, <2>7 DEF Next, Server, Dead
<1> QED
  BY <1>1, <1>2, PTL DEF Spec

(* The connection count is off by exactly the failed accept() calls, and   *)
(* the sockets the server holds are those of its busy requests.            *)
THEOREM AccountingHolds == Spec => []Accounting
BY Inductive, PTL DEF IndInv

(* However many accept() calls fail, each lets one connection too many in. *)
THEOREM ConnectionBoundHolds == Spec => []ConnectionBound
<1>1. IndInv => ConnectionBound
  BY OpenFinite, EngineAssumption
  DEF IndInv, TypeOK, Accounting, CountBound, ConnectionBound
<1> QED
  BY <1>1, Inductive, PTL

(* No request waits on the block list with bytes in its buffer, where      *)
(* neither the timeout nor select() would ever reach it.                   *)
THEOREM NoBufferedBlockedHolds == Spec => []NoBufferedBlocked
BY Inductive, PTL DEF IndInv

(* select() waits on exactly the descriptors the blocked requests need.    *)
THEOREM WatchedExactlyHolds == Spec => []WatchedExactly
BY Inductive, PTL DEF IndInv

(* The LAN address changes only after the response that asked for it has   *)
(* gone out and its socket is closed.                                      *)
THEOREM LanipAfterCloseHolds == Spec => []LanipAfterClose
BY Inductive, PTL DEF IndInv

-----------------------------------------------------------------------------
(***************************************************************************)
(* The engine implements the connection pool.  Its busy requests are the   *)
(* ones not on the free list, it drains in lame duck mode, and it has      *)
(* exited once die(SHUTDOWN) was called.                                   *)
(***************************************************************************)
Busy == {r \in Requests : where[r] # "free"}

(* A step that changes neither the free list, nor lame_duck_mode, nor      *)
(* calls die() is a stuttering step of the pool.                           *)
LEMMA PoolStutter ==
  ASSUME where' = where, lameDuck' = lameDuck, (pc' = "dead") = (pc = "dead")
  PROVE  UNCHANGED Pool!vars
BY DEF Pool!vars

(* A turn of process_requests() or a pass of fdset_update() releases the   *)
(* requests it frees.                                                      *)
LEMMA PoolRelease ==
  ASSUME NEW rs \in SUBSET Requests, Busy' = Busy \ rs,
         lameDuck' = lameDuck, pc # "dead", pc' # "dead"
  PROVE  Pool!Next
<1>1. Pool!Release(rs)
  BY DEF Pool!Release, Busy
<1> QED
  BY <1>1 DEF Pool!Next

(* A turn of process_requests() frees at most one request and is a Release *)
(* of the pool or a stuttering step.                                       *)
LEMMA PoolTurn ==
  ASSUME IndInv, pc = "process", NEW r \in todo, NEW s, NEW ret, NEW f,
         Turn(r, ret, s, f)
  PROVE  Pool!Next
<1>1. r \in Requests /\ where[r] = "ready"
  BY DEF IndInv, TypeOK, TodoReady, On
<1>2. pc' = pc /\ lameDuck' = lameDuck
  BY DEF Turn
<1>3. \/ where' = where
      \/ where' = [where EXCEPT ![r] = "block"]
      \/ where' = [where EXCEPT ![r] = "free"]
  BY DEF Turn, Dispose, Parked, Finished, Continued
<1>4. Busy' = Busy \ {} \/ Busy' = Busy \ {r}
  BY <1>1, <1>3 DEF Busy, IndInv, TypeOK
<1>5. {} \in SUBSET Requests /\ {r} \in SUBSET Requests
  BY <1>1
<1> QED
  BY <1>2, <1>4, <1>5, PoolRelease

(* Every behaviour of the engine is one of the pool: no connection is      *)
(* accepted after SIGTERM was served, and none is cut off by the exit.     *)
THEOREM PoolImplemented == Spec => PoolSpec
<1>1. Init => Pool!Init
  BY DEF Init, Pool!Init
<1>2. IndInv /\ [Next]_vars => [Pool!Next]_(Pool!vars)
  <2> SUFFICES ASSUME IndInv, [Next]_vars PROVE Pool!Next \/ UNCHANGED Pool!vars
    OBVIOUS
  <2>1. CASE LoopTop
    <3>1. pc = "top" /\ where' = where
      BY <2>1 DEF LoopTop, reqVars
    <3>2. CASE lameDuck' = 0
      <4>1. lameDuck = 0 /\ pc' = "update"
        BY <2>1, <3>2 DEF LoopTop
      <4> QED
        BY <3>1, <3>2, <4>1, PoolStutter
    <3>3. CASE lameDuck' # 0
      <4>1. pc' = "update" \/ (pc' = "dead" /\ Busy = {})
        BY <2>1, <3>3 DEF LoopTop, Idle, On, Busy, IndInv, TypeOK, Lists
      <4>2. Pool!Terminate
        BY <3>1, <3>3, <4>1 DEF Pool!Terminate, Busy
      <4> QED
        BY <4>2 DEF Pool!Next
    <3> QED
      BY <3>2, <3>3
  <2>2. CASE EndProcess \/ Select \/ EndAccept
    BY <2>2, PoolStutter DEF EndProcess, Select, EndAccept, reqVars
  <2>3. CASE FdsetUpdate
    <3> DEFINE freed == {r \in Requests : where[r] = "block" /\ where'[r] = "free"}
    <3>1. Busy' = Busy \ freed
      <4>1. \A r \in Requests : where'[r] \in {"free", "ready", where[r]}
        BY <2>3 DEF FdsetUpdate
      <4>2. \A r \in Requests : where'[r] # where[r] => where[r] = "block"
        BY <2>3 DEF FdsetUpdate, On
      <4> QED
        BY <4>1, <4>2 DEF Busy
    <3>2. lameDuck' = lameDuck /\ pc = "update" /\ pc' # "dead"
      BY <2>3 DEF FdsetUpdate
    <3> QED
      BY <3>1, <3>2, PoolRelease
  <2>4. ASSUME NEW r \in Requests, FlushRequest(r) PROVE Pool!Next
    BY <2>4, PoolTurn DEF FlushRequest
  <2>5. ASSUME NEW r \in Requests, NEW o \in HandlerOf(r), HandleRequest(r, o)
        PROVE  Pool!Next
    BY <2>5, PoolTurn DEF HandleRequest
  <2>6. ASSUME NEW s \in Sockets, Accept(s)
        PROVE  Pool!Next \/ UNCHANGED Pool!vars
    <3>1. pc = "accept" /\ pc' = pc /\ lameDuck' = lameDuck /\ lameDuck = 0
      BY <2>6 DEF Accept, IndInv, AcceptWhileOpen
    <3>2. CASE Refuse \/ AcceptFails
      BY <3>1, <3>2, PoolStutter DEF Refuse, AcceptFails, reqVars
    <3>3. ASSUME NEW r \in On("free"), AcceptInto(r) PROVE Pool!Next
      <4>1. r \in Requests /\ r \notin Busy /\ Busy' = Busy \cup {r}
        BY <3>3 DEF On, Busy, AcceptInto, IndInv, TypeOK
      <4>2. Pool!Admit(r)
        BY <3>1, <4>1 DEF Pool!Admit, Busy
      <4> QED
        BY <4>1, <4>2 DEF Pool!Next
    <3> QED
      BY <2>6, <3>2, <3>3 DEF Accept, GetSockRequest
  <2>7. CASE Tick \/ SigTerm \/ (\E r \in MayStall : Stall(r)) \/ UNCHANGED vars
    BY <2>7, PoolStutter DEF Tick, SigTerm, Stall, vars, reqVars, loopVars
  <2> QED
    BY <2>1, <2>2, <2>3, <2>4, <2>5, <2>6, <2>7 DEF Next, Server, Dead
<1> QED
  BY <1>1, <1>2, Inductive, PTL DEF Spec, PoolSpec, Pool!Spec
=============================================================================
