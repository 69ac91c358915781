---------------------------- MODULE RequestEngine ----------------------------
(***************************************************************************)
(* The request engine of the Boa web server: the pool of request structs,  *)
(* the ready, block and free lists, the select() loop of main(), and the   *)
(* way a response leaves through the output buffer of its request.         *)
(*                                                                         *)
(* The server is one thread.  What interleaves with it is the alarm clock  *)
(* (SIGALRM, one per second), SIGTERM, and the clients: which descriptor   *)
(* is ready, how much a read() or write() moves, whether it fails.         *)
(*                                                                         *)
(* The data of a request is abstracted to what the loop looks at: its      *)
(* status, whether its output buffer holds bytes (buffer_end), and how     *)
(* long ago time_last was set.  READ_HEADER stands for the four statuses   *)
(* that read_header() serves (READ_HEADER, ONE_CR, ONE_LF, TWO_CR).        *)
(* Keep-alive is absent: with SUPPORT_ASP a Connection header always gives *)
(* KA_STOPPED, so KA_ACTIVE is never set.                                  *)
(***************************************************************************)
EXTENDS Integers, FiniteSets

CONSTANTS
  Requests,        \* the structs of init_free_requests(30)
  WebSockets,      \* listening sockets on server_port and server_sub_port
  RedirSocket,     \* redir_server_s, the access-limit listening socket
  MaxConnections,  \* max_connections, -1 for unlimited
  RequestTimeout,  \* REQUEST_TIMEOUT, in seconds
  WriteWait,       \* the 10 seconds of req_flush()
  MaySigTerm,      \* is the server ever told to terminate
  MayStall,        \* requests whose client may fall silent
  MaxAcceptErrs    \* bound: how often accept() may fail

ASSUME EngineAssumption ==
  /\ IsFiniteSet(Requests)
  /\ RedirSocket \notin WebSockets
  /\ MaxConnections \in Nat \cup {-1}
  /\ RequestTimeout \in Nat \ {0}
  /\ WriteWait \in Nat \ {0}
  /\ MaySigTerm \in BOOLEAN
  /\ MayStall \subseteq Requests
  /\ MaxAcceptErrs \in Nat

Lists == {"ready", "block", "free"}

Statuses == {"READ_HEADER", "BODY_READ", "BODY_WRITE", "WRITE",
             "PIPE_READ", "PIPE_WRITE", "CLOSE", "LANIP_CHANGE"}

(* The descriptor and fd_set a request waits on.                           *)
FdKinds == {"fd_write", "fd_read", "data_fd_read", "post_data_fd_write"}

Buffers == {"empty", "bytes"}

Sockets == WebSockets \cup {RedirSocket}

VARIABLES
  pc,           \* where the while (1) of main() stands
  where,        \* the list each request is on
  status,       \* req->status
  buf,          \* does the output buffer hold bytes (buffer_end # 0)
  age,          \* time_counter - req->time_last, up to RequestTimeout + 1
  open,         \* requests whose fd is an open client socket
  connections,  \* status.connections
  fdset,        \* bits of client descriptors in the two fd_sets
  listen,       \* bits of listening sockets in block_read_fdset
  waitsec,      \* the countdown of req_flush(), shared by all requests
  lag,          \* time_counter - lasttime up to WriteWait + 1, if waitsec > 0
  lameDuck,     \* lame_duck_mode
  sigterm,      \* SIGTERM is set in signal_action
  todo,         \* ready requests process_requests() has not reached yet
  stalled,      \* clients that have stopped sending and reading
  lanip,        \* requests for which this pass has called restart_lanip()
  acceptErrs    \* how many accept() calls failed

reqVars  == <<where, status, buf, age, open>>
loopVars == <<pc, fdset, listen, todo>>
ghosts   == <<stalled, lanip, acceptErrs>>
vars == <<pc, where, status, buf, age, open, connections, fdset, listen,
          waitsec, lag, lameDuck, sigterm, todo, stalled, lanip, acceptErrs>>

On(list) == {r \in Requests : where[r] = list}

(***************************************************************************)
(* The descriptor on which block_request() parks a request, ready_request()*)
(* releases it and fdset_update() looks for it.                            *)
(***************************************************************************)
WaitKind(s, b) ==
  CASE b = "bytes" \/ s \in {"PIPE_WRITE", "WRITE"} -> "fd_write"
    [] b = "empty" /\ s = "PIPE_READ"  -> "data_fd_read"
    [] b = "empty" /\ s = "BODY_WRITE" -> "post_data_fd_write"
    [] OTHER                           -> "fd_read"

WaitFd(r) == <<r, WaitKind(status[r], buf[r])>>

-----------------------------------------------------------------------------
(***************************************************************************)
(* What one call of a handler may do: the value it returns, the status it  *)
(* leaves, and what it did with a response ("none": nothing was written to *)
(* the buffer, "queued": req_write() only, "sent": req_write() and then    *)
(* req_flush()).  A return value other than -1, 0 and 1 makes              *)
(* process_requests() call send_r_error() and go on as for 0.              *)
(***************************************************************************)
Outcome(ret, s, resp) == [ret |-> ret, status |-> s, resp |-> resp]

(* init_form(): status CLOSE, then the form handler, which may ask for     *)
(* LANIP_CHANGE and writes its page.                                       *)
InitForm == {Outcome(1, s, p) : s \in {"CLOSE", "LANIP_CHANGE"},
                                p \in {"none", "queued", "sent"}}

(* init_cgi(): a pipe to the child, or a failure that keeps the status.    *)
InitCgi(s) == {Outcome(1, "PIPE_READ", "none"), Outcome(0, s, "none"),
               Outcome(0, s, "sent")}

(* init_get2(): an .asp page is expanded into the buffer as a whole; any   *)
(* other uri is a form.                                                    *)
InitGet2 == InitForm \cup {Outcome(0, "BODY_READ", "sent"),
                           Outcome(0, "BODY_READ", "queued"),
                           Outcome(0, "CLOSE", "queued"),
                           Outcome(1, "BODY_READ", "queued")}

(* init_get(): the head of the file goes into the buffer.                  *)
InitGet == {Outcome(0, "WRITE", "sent"), Outcome(0, "WRITE", "queued"),
            Outcome(0, "CLOSE", "queued"), Outcome(1, "WRITE", "queued")}

(* process_header_end(): refuse or redirect, else POST, script or file.    *)
ProcessHeaderEnd ==
  {Outcome(0, "BODY_READ", "sent"), Outcome(0, "BODY_READ", "none"),
   Outcome(1, "BODY_READ", "none")}
    \cup InitGet2 \cup InitGet \cup InitCgi("BODY_READ")

(* read_header(): blocked, closed, malformed, incomplete, or complete.     *)
ReadHeader ==
  {Outcome(-1, "READ_HEADER", "none"), Outcome(0, "READ_HEADER", "none"),
   Outcome(0, "READ_HEADER", "sent"), Outcome(1, "READ_HEADER", "none")}
    \cup ProcessHeaderEnd

ReadBody == {Outcome(-1, "BODY_READ", "none"), Outcome(0, "BODY_READ", "sent"),
             Outcome(0, "BODY_READ", "none"),
             Outcome(1, "BODY_READ", "none"), Outcome(1, "BODY_WRITE", "none")}

(* write_body(): -2 is reported with send_r_error().                       *)
WriteBody == {Outcome(-1, "BODY_WRITE", "none"), Outcome(0, "BODY_WRITE", "sent"),
              Outcome(1, "BODY_WRITE", "none"), Outcome(1, "BODY_READ", "none")}
                \cup InitForm \cup InitCgi("BODY_WRITE")

ProcessGet == {Outcome(k, "WRITE", "none") : k \in {-1, 0, 1}}

(* read_from_pipe(), with process_cgi_header() on the first full buffer.   *)
ReadFromPipe == {Outcome(k, "PIPE_READ", "none") : k \in {-1, 0, 1}}
                  \cup {Outcome(1, "PIPE_WRITE", "none"),
                        Outcome(1, "PIPE_WRITE", "queued"),
                        Outcome(0, "PIPE_WRITE", "sent")}

WriteFromPipe == {Outcome(k, "PIPE_WRITE", "none") : k \in {-1, 0, 1}}
                   \cup {Outcome(1, "PIPE_READ", "none")}

(* The dispatch of process_requests() on the status of a request.          *)
Handler(s) ==
  CASE s = "READ_HEADER" -> ReadHeader
    [] s = "BODY_READ"   -> ReadBody
    [] s = "BODY_WRITE"  -> WriteBody
    [] s = "WRITE"       -> ProcessGet
    [] s = "PIPE_READ"   -> ReadFromPipe
    [] s = "PIPE_WRITE"  -> WriteFromPipe
    [] OTHER             -> {Outcome(0, s, "none")}

(* A client that has stalled keeps its socket open and moves no byte: a    *)
(* read or write of it answers EAGAIN.  Files and pipes still move.        *)
StalledHandler(s) ==
  CASE s = "READ_HEADER" -> {Outcome(-1, s, "none")}
    [] s = "BODY_READ"   -> {Outcome(-1, s, "none"), Outcome(1, "BODY_WRITE", "none")}
    [] s \in {"WRITE", "PIPE_WRITE"} -> {Outcome(-1, s, "none")}
    [] OTHER -> Handler(s)

HandlerOf(r) == IF r \in stalled THEN StalledHandler(status[r])
                                 ELSE Handler(status[r])

-----------------------------------------------------------------------------
(***************************************************************************)
(* req_flush(): one write() of the buffer under a countdown that all       *)
(* requests share.  The countdown starts at WriteWait when it is 0, loses  *)
(* the seconds since the last failed write at each failure, gives up when  *)
(* it is exactly 0, and any successful write resets it.  All negative      *)
(* values behave alike (they only decrease), so they are one value, -1;    *)
(* the time since the last failure matters only to a positive countdown.   *)
(***************************************************************************)
Flush(b, w, l) == [buf |-> b, waitsec |-> w, lag |-> l]

Clip(n) == IF n < 0 THEN -1 ELSE n

(* Mutant: the elapsed seconds are added to the countdown.                 *)
FailedWriteAdds ==
  Clip((IF waitsec = 0 THEN WriteWait ELSE waitsec)
         + (IF waitsec = 0 THEN 0 ELSE lag))

(* Mutant: lasttime is set anew and nothing is subtracted.                 *)
FailedWriteFrozen == IF waitsec = 0 THEN WriteWait ELSE waitsec

FailedWrite ==
  LET start == IF waitsec = 0 THEN WriteWait ELSE waitsec
      spent == IF waitsec = 0 THEN 0 ELSE lag
  IN  Clip(start - spent)

Written == {Flush(b, 0, 0) : b \in Buffers}

WouldBlock == IF FailedWrite = 0 THEN {Flush("empty", 0, 0)}
                                 ELSE {Flush("bytes", FailedWrite, 0)}

WriteError == {Flush("empty", FailedWrite, 0)}

ReqFlush(r) == IF r \in stalled THEN WouldBlock
                                ELSE Written \cup WouldBlock \cup WriteError

NoFlush(b) == {Flush(b, waitsec, lag)}

(* What a handler's response leaves in the buffer.                         *)
Respond(r, resp) ==
  CASE resp = "none"   -> NoFlush("empty")
    [] resp = "queued" -> NoFlush("bytes")
    [] resp = "sent"   -> ReqFlush(r)

-----------------------------------------------------------------------------
Init ==
  /\ pc = "top"
  /\ where = [r \in Requests |-> "free"]
  /\ status = [r \in Requests |-> "READ_HEADER"]
  /\ buf = [r \in Requests |-> "empty"]
  /\ age = [r \in Requests |-> 0]
  /\ open = {}
  /\ connections = 0
  /\ fdset = {} /\ listen = {}
  /\ waitsec = 0 /\ lag = 0
  /\ lameDuck = 0 /\ sigterm = FALSE
  /\ todo = {}
  /\ stalled = {} /\ lanip = {} /\ acceptErrs = 0

(* sigalrm(): time_counter++.                                              *)
Tick ==
  /\ pc # "dead"
  /\ age' = [r \in Requests |->
               IF where[r] # "free" /\ age[r] <= RequestTimeout
                 THEN age[r] + 1 ELSE age[r]]
  /\ lag' = IF waitsec > 0 /\ lag <= WriteWait THEN lag + 1 ELSE lag
  /\ UNCHANGED <<pc, where, status, buf, open, connections, fdset, listen,
                 waitsec, lameDuck, sigterm, todo, ghosts>>

(* set_boa_signal_handler(SIGTERM).                                        *)
SigTerm ==
  /\ MaySigTerm /\ pc # "dead" /\ ~sigterm
  /\ sigterm' = TRUE
  /\ UNCHANGED <<pc, reqVars, connections, fdset, listen, waitsec, lag,
                 lameDuck, todo, ghosts>>

(* A client stops sending and reading, its connection still up.            *)
Stall(r) ==
  /\ pc # "dead" /\ r \in open \ stalled
  /\ stalled' = stalled \cup {r}
  /\ UNCHANGED <<loopVars, reqVars, connections, waitsec, lag, lameDuck,
                 sigterm, lanip, acceptErrs>>

(* Is no client connected?  Mutant: the block list is forgotten.           *)
IdleReadyOnly == On("ready") = {}

Idle == On("ready") \cup On("block") = {}

(* The top of the loop: the deferred sigterm() closes redir_server_s,      *)
(* lame_duck_mode_run() closes the web sockets, and a server without       *)
(* requests dies.                                                          *)
LoopTop ==
  /\ pc = "top"
  /\ sigterm' = FALSE
  /\ lameDuck' = IF ~sigterm THEN lameDuck
                 ELSE IF WebSockets # {} THEN 2 ELSE 1
  /\ listen' = IF sigterm THEN listen \ WebSockets ELSE listen
  /\ pc' = IF lameDuck' # 0 /\ Idle THEN "dead" ELSE "update"
  /\ UNCHANGED <<reqVars, connections, fdset, waitsec, lag, todo, ghosts>>

(* free_request() of the requests rs, whose buffers are empty: it returns  *)
(* at once when buffer_end is set.  The fields of a free request are dead, *)
(* new_request() clears them; here the callers reset status and age.       *)
(* Mutant: the socket is closed and stays in req->fd.                      *)
FreeRequestsKeepFd(rs) ==
  /\ connections' = connections - Cardinality(rs)
  /\ stalled' = stalled \ rs
  /\ UNCHANGED open

FreeRequests(rs) ==
  /\ open' = open \ rs
  /\ connections' = connections - Cardinality(rs)
  /\ stalled' = stalled \ rs

(* The bits of requests that leave the block list are cleared, those of    *)
(* the requests that stay are set.  Mutant: no bit is cleared.             *)
UpdatedFdsetStale(gone, watched) == fdset \cup {WaitFd(r) : r \in watched}

UpdatedFdset(gone, watched) ==
  (fdset \ {WaitFd(r) : r \in gone}) \cup {WaitFd(r) : r \in watched}

(* May one more connection be taken?  Mutant: one too many.                *)
HasRoomOffByOne == MaxConnections = -1 \/ connections <= MaxConnections

HasRoom == MaxConnections = -1 \/ connections < MaxConnections

(* fdset_update(): time out, wake up or watch every blocked request, and   *)
(* watch the web sockets while connections may be taken.                   *)
FdsetUpdate ==
  LET block   == On("block")
      expired == {r \in block : age[r] > RequestTimeout}
      freed   == {r \in expired : buf[r] = "empty"}
      woken   == {r \in block \ expired : WaitFd(r) \in fdset}
      watched == {r \in block \ (expired \cup woken) : buf[r] = "empty"}
  IN
  /\ pc = "update"
  /\ FreeRequests(freed)
  /\ where' = [r \in Requests |-> IF r \in freed THEN "free"
                                  ELSE IF r \in woken THEN "ready"
                                  ELSE where[r]]
  /\ status' = [r \in Requests |-> IF r \in freed THEN "READ_HEADER" ELSE status[r]]
  /\ age' = [r \in Requests |-> IF r \in freed THEN 0 ELSE age[r]]
  /\ fdset' = UpdatedFdset(freed \cup woken, watched)
  /\ listen' = IF lameDuck = 0 /\ HasRoom'
                 THEN listen \cup WebSockets ELSE listen \ WebSockets
  /\ IF On("ready") \cup woken # {}
       THEN pc' = "process" /\ todo' = On("ready") \cup woken
       ELSE pc' = "select" /\ todo' = {}
  /\ UNCHANGED <<buf, waitsec, lag, lameDuck, sigterm, lanip, acceptErrs>>

(* How process_requests() acts on the value ret it got for request r: park *)
(* it, free it unless its buffer holds bytes, or refresh time_last.        *)
(* restart_lanip() runs after free_request(), on the status left behind;   *)
(* no code sets the status REBOOT that is looked for there too.            *)
(* Mutant of Parked: blocking refreshes time_last.                         *)
ParkedRefreshing(r) ==
  /\ where' = [where EXCEPT ![r] = "block"]
  /\ fdset' = fdset \cup {<<r, WaitKind(status'[r], buf'[r])>>}
  /\ age' = [age EXCEPT ![r] = 0]
  /\ UNCHANGED <<open, connections, stalled, lanip>>

Parked(r) ==
  /\ where' = [where EXCEPT ![r] = "block"]
  /\ fdset' = fdset \cup {<<r, WaitKind(status'[r], buf'[r])>>}
  /\ UNCHANGED <<age, open, connections, stalled, lanip>>

Finished(r, s) ==
  /\ lanip' = IF s = "LANIP_CHANGE" THEN lanip \cup {r} ELSE lanip
  /\ IF buf'[r] = "bytes"
       THEN UNCHANGED <<where, age, open, connections, fdset, stalled>>
       ELSE /\ FreeRequests({r})
            /\ where' = [where EXCEPT ![r] = "free"]
            /\ age' = [age EXCEPT ![r] = 0]
            /\ fdset' = fdset \ {<<r, WaitKind(s, "empty")>>}

Continued(r) ==
  /\ age' = [age EXCEPT ![r] = 0]
  /\ UNCHANGED <<where, open, connections, fdset, stalled, lanip>>

Dispose(r, ret, s) ==
  /\ status' = [status EXCEPT ![r] = IF ret = 0 /\ buf'[r] = "empty" THEN "READ_HEADER" ELSE s]
  /\ \/ ret = -1 /\ Parked(r)
     \/ ret = 0  /\ Finished(r, s)
     \/ ret = 1  /\ Continued(r)

(* One turn of process_requests(): f is what req_flush() did, ret and s    *)
(* what the turn returned and the status it left.                          *)
Turn(r, ret, s, f) ==
  /\ todo' = todo \ {r}
  /\ buf' = [buf EXCEPT ![r] = f.buf]
  /\ waitsec' = f.waitsec /\ lag' = f.lag
  /\ Dispose(r, ret, s)
  /\ UNCHANGED <<pc, listen, lameDuck, sigterm, acceptErrs>>

(* The turn of a request with bytes in its buffer.                         *)
(* Mutants of the value: -1 for what req_flush() left in the buffer, 0 for *)
(* LANIP_CHANGE as for CLOSE.                                              *)
FlushedRetBlocks(r) ==
  IF buf'[r] = "bytes" THEN -1 ELSE IF status[r] = "CLOSE" THEN 0 ELSE 1

FlushedRetLanip(r) == IF status[r] \in {"CLOSE", "LANIP_CHANGE"} THEN 0 ELSE 1

FlushedRet(r) == IF status[r] = "CLOSE" THEN 0 ELSE 1

FlushRequest(r) ==
  /\ pc = "process" /\ r \in todo /\ buf[r] = "bytes"
  /\ \E f \in ReqFlush(r) : Turn(r, FlushedRet(r), status[r], f)

(* The turn of a request with an empty buffer, whose handler does o.       *)
HandleRequest(r, o) ==
  /\ pc = "process" /\ r \in todo /\ buf[r] = "empty"
  /\ \E f \in Respond(r, o.resp) : Turn(r, o.ret, o.status, f)

(* After process_requests(), main() clears both fd_sets.                   *)
EndProcess ==
  /\ pc = "process" /\ todo = {}
  /\ pc' = "top" /\ fdset' = {} /\ listen' = {} /\ lanip' = {}
  /\ UNCHANGED <<reqVars, connections, waitsec, lag, lameDuck, sigterm, todo,
                 stalled, acceptErrs>>

(* select(), reached only when no request is ready.  redir_server_s is set *)
(* without a condition; once sigterm() has closed it, select() fails with  *)
(* EBADF, as it fails with EINTR on a signal: the sets keep their bits and *)
(* the loop continues.  After a timeout the sets are empty.                *)
Select ==
  /\ pc = "select"
  /\ LET asked == listen \cup {RedirSocket} IN
     \/ pc' = "top" /\ listen' = asked /\ UNCHANGED fdset
     \/ /\ lameDuck = 0
        /\ \E bits \in SUBSET fdset, socks \in SUBSET asked :
             /\ fdset' = bits
             /\ listen' = socks
             /\ pc' = IF bits = {} /\ socks = {} THEN "top" ELSE "accept"
  /\ UNCHANGED <<reqVars, connections, waitsec, lag, lameDuck, sigterm, todo, ghosts>>

(* get_sock_request(): no connection at the limit or when the free list is *)
(* empty; else a struct is cleared and accept() is tried.  On failure      *)
(* free_request() finds fd 0 in the cleared struct, not -1, closes it and  *)
(* counts one connection less.                                             *)
Refuse ==
  /\ ~HasRoom \/ On("free") = {}
  /\ UNCHANGED <<reqVars, connections, acceptErrs>>

AcceptFails ==
  /\ acceptErrs < MaxAcceptErrs
  /\ acceptErrs' = acceptErrs + 1
  /\ connections' = connections - 1
  /\ UNCHANGED reqVars

AcceptInto(r) ==
  /\ where' = [where EXCEPT ![r] = "block"]
  /\ status' = [status EXCEPT ![r] = "READ_HEADER"]
  /\ buf' = [buf EXCEPT ![r] = "empty"]
  /\ age' = [age EXCEPT ![r] = 0]
  /\ open' = open \cup {r}
  /\ connections' = connections + 1
  /\ UNCHANGED acceptErrs

GetSockRequest ==
  \/ Refuse
  \/ /\ HasRoom /\ On("free") # {}
     /\ AcceptFails \/ \E r \in On("free") : AcceptInto(r)

(* get_request() and get_access_redir_request() for each socket select()   *)
(* reported.  The bit of a socket that was served is written again before  *)
(* it is next read, so it is dropped here.                                 *)
Accept(s) ==
  /\ pc = "accept" /\ s \in listen
  /\ listen' = listen \ {s}
  /\ GetSockRequest
  /\ UNCHANGED <<pc, fdset, waitsec, lag, lameDuck, sigterm, todo, stalled,
                 lanip>>

EndAccept ==
  /\ pc = "accept" /\ listen = {}
  /\ pc' = "top"
  /\ UNCHANGED <<reqVars, connections, fdset, listen, waitsec, lag, lameDuck,
                 sigterm, todo, ghosts>>

(* die(SHUTDOWN) has been called.                                          *)
Dead == pc = "dead" /\ UNCHANGED vars

Server ==
  \/ LoopTop \/ FdsetUpdate \/ EndProcess \/ Select \/ EndAccept
  \/ \E r \in Requests : FlushRequest(r)
  \/ \E r \in Requests : \E o \in HandlerOf(r) : HandleRequest(r, o)
  \/ \E s \in Sockets : Accept(s)

Next == Server \/ Tick \/ SigTerm \/ (\E r \in MayStall : Stall(r)) \/ Dead

Spec == Init /\ [][Next]_vars

(* The loop keeps running and the alarm keeps ticking.                     *)
FairSpec == Spec /\ WF_vars(Server) /\ WF_vars(Tick)

-----------------------------------------------------------------------------
TypeOK ==
  /\ pc \in {"top", "update", "process", "select", "accept", "dead"}
  /\ where \in [Requests -> Lists]
  /\ status \in [Requests -> Statuses]
  /\ buf \in [Requests -> Buffers]
  /\ age \in [Requests -> 0..RequestTimeout + 1]
  /\ open \subseteq Requests
  /\ connections \in Int
  /\ fdset \subseteq Requests \X FdKinds
  /\ listen \subseteq Sockets
  /\ waitsec \in -1..WriteWait
  /\ lag \in 0..WriteWait + 1
  /\ lameDuck \in 0..2
  /\ sigterm \in BOOLEAN
  /\ todo \subseteq Requests
  /\ stalled \subseteq Requests /\ lanip \subseteq Requests
  /\ acceptErrs \in Nat

(* status.connections, off by one for every accept() that failed, is the   *)
(* number of client sockets the server holds, and exactly the requests on  *)
(* the ready and block lists hold one: no path of free_request() leaks a   *)
(* socket, closes one twice, or loses a struct.                            *)
Accounting ==
  /\ connections + acceptErrs = Cardinality(open)
  /\ open = {r \in Requests : where[r] # "free"}

(* The limit on connections holds up to one connection more for every      *)
(* accept() that failed.                                                   *)
ConnectionBound ==
  MaxConnections # -1 => Cardinality(open) <= MaxConnections + acceptErrs

(* A blocked request has an empty buffer.  free_request() ignores a        *)
(* request with bytes in its buffer and fdset_update() never watches one,  *)
(* so a blocked request with bytes would neither time out nor wake up.     *)
NoBufferedBlocked == \A r \in On("block") : buf[r] = "empty"

(* When select() is called, the fd_sets hold the descriptor each blocked   *)
(* request waits on, in the right set, and no bit of any other request.    *)
WatchedExactly == pc = "select" => fdset = {WaitFd(r) : r \in On("block")}

(* restart_lanip() moves the LAN address only once the response that asked *)
(* for it is flushed and its socket closed ("Boa must go through the       *)
(* normal free_request ... Then it can reset the new LAN_IP", fmtcpip.c).  *)
LanipAfterClose == \A r \in lanip : r \notin open /\ buf[r] = "empty"

-----------------------------------------------------------------------------
(***************************************************************************)
(* The inductive invariant: what holds between two steps of the loop that  *)
(* the invariants above need.                                              *)
(***************************************************************************)
(* process_requests() has before it only requests of the ready list.       *)
TodoReady ==
  /\ todo \subseteq On("ready")
  /\ pc # "process" => todo = {}

LanipInPass == pc # "process" => lanip = {}

CountBound == MaxConnections # -1 => connections <= MaxConnections

(* Outside process_requests(), which sets bits of requests it parks, every *)
(* bit belongs to a blocked request.                                       *)
BitsOfBlocked == pc # "process" => fdset \subseteq {WaitFd(r) : r \in On("block")}

AcceptWhileOpen == pc = "accept" => lameDuck = 0

IndInv ==
  /\ TypeOK /\ Accounting
  /\ TodoReady /\ NoBufferedBlocked /\ WatchedExactly /\ BitsOfBlocked
  /\ LanipInPass /\ LanipAfterClose /\ CountBound /\ AcceptWhileOpen

-----------------------------------------------------------------------------
(* Seen from outside the engine is a pool of connections that admits none  *)
(* once it drains and exits only when the last one is closed.              *)
Pool == INSTANCE RequestPool
          WITH busy <- {r \in Requests : where[r] # "free"},
               draining <- lameDuck # 0,
               exited <- pc = "dead"

(* After SIGTERM no connection is accepted any more, on any listening      *)
(* socket and whatever bits were pending, and die(SHUTDOWN) cuts off no    *)
(* client: the engine implements the connection pool.                      *)
PoolSpec == Pool!Spec

(* A client that goes silent in mid-header or in mid-download is           *)
(* disconnected: spurious wake-ups by EINTR do not refresh time_last.      *)
IdleClosed ==
  \A r \in Requests :
    (/\ r \in stalled /\ buf[r] = "empty"
     /\ status[r] \in {"READ_HEADER", "WRITE"}) ~> r \notin open

(* "allow write() trying for waitsec" (util.c:662): a response to a client *)
(* that reads nothing is given up in the end, unless the countdown steps   *)
(* over 0 or is shared with another request that is ready as well.         *)
StalledDropped ==
  \A r \in Requests :
    (r \in stalled /\ buf[r] = "bytes")
      ~> (buf[r] = "empty" \/ waitsec < 0 \/ On("ready") \ {r} # {})
=============================================================================
