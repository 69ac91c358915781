# Formal model of the router web server and its configuration daemon

The repository holds the user space of a home router: a much modified Boa 0.93
web server (`src/src/*.c`), a configuration daemon with its client library and
some four hundred thousand lines of router utilities (`src/src/LINUX`), and the
web pages. This directory models the parts in which state, scheduling and
failure meet: the request engine of the web server and its reading of a
request, the message exchange with the configuration daemon, the settings on
flash, the firmware upgrade, the configuration cluster, the list of web
sessions, and the signal dispatch.
Each module was translated from the C source; `PROJECT.json` names for every
definition the lines it stands for.

## 1. Inventory

| Component | State it keeps | Operations | What is hard |
|---|---|---|---|
| Request engine (`request.c`, `queue.c`, `boa.c`, `util.c`) | pool of request structs on three lists, `status.connections`, two `fd_set`s, output buffers, `time_last`, the countdown of `req_flush()`, `lame_duck_mode` | one pass of `while (1)`: signals, `fdset_update()`, `process_requests()` or `select()`, `get_request()` per listening socket | partial writes, clients that stop, timeouts, failing `accept()`, SIGTERM at any point |
| Request handlers (`read.c`, `get.c`, `pipe.c`, `cgi.c`) | status and buffer of the request | `read_header()`, `read_body()`, `write_body()`, `process_get()`, `read_from_pipe()`, `write_from_pipe()`, `init_*()` | many return paths; 0 with bytes still buffered |
| Configuration daemon (`msgutil.c`, `LINUX/configd.c`, `LINUX/msgparser.c`, `LINUX/sysconfig.c`) | request and reply queue (5 messages each), one shared memory segment, pid file used as lock file | clients: lock, put, send, wait, fetch, unlock; configd: receive, process, check the caller, reply, make room | many processes, killed clients, full queues, reused tids, start and stop of configd |
| Login sessions (`boa.c`, `auth.c`, `response.c`, `fmmgmt.c`) | linked list `user_login_list` | login, cookie, refresh, logout, sweep, flush | deletion while walking, several sessions behind one address |
| Failed-login list (`boa.c`, `fmmgmt.c`) | linked list `errlogin_list` | count, lock out, sweep | the same walk |
| Signals (`signals.c`, `boa.c`) | bit set `signal_action` | handler, dispatch | the handler runs between any two instructions |
| HTTP authentication (`auth.c`) | digest nonces | check, expire | nonce counters |
| Reading of requests (`read.c`, `request.c`) | `client_stream`, `buffer`, scanner state, file of the body | scan, cut a line out, carry the body to the file, run the form | a `read()` may end at any byte, a `write()` may take any part |
| MIB and flash (`LINUX/mib.c`, `LINUX/load_save_xml_file.c`, `LINUX/flash.c`) | settings in the memory of configd, `config.xml` and its backup | save, load with repair, reset to defaults, `flash` in a second process, reboot | power failure between any two steps, a full flash, two processes on the files |
| Firmware upgrade (`fmmgmt.c`, `request.c`, `LINUX/msgparser.c`, `climenu.c`) | two banks with valid flags, the committed bank, the upgrade lock, globals handed to a thread | upload, flash, mark, commit, reset; switch banks by hand | threads of two uploads, files unlinked by another request, power failure at any step |
| Configuration cluster (`LINUX/cluster_*.c`) | sequence numbers at both ends, bit mask of frames, the managed router's MIB | broadcast of all settings in frames, parse, save when complete | lost, late and repeated frames, changes inside a round, restarts |
| Forms and ASP pages, response formatting, logging, configuration files, start-up scripts, CLI, small daemons | – | – | sequential or pure I/O |

How they interact. The engine is one thread; form handlers run inside
`process_requests()` and call the client library of configd, so a call that
never returns stops the web server. `SIGALRM` advances `time_counter`, the
clock of timeouts and sessions, from a handler. All other signals set a bit
that `main()` looks at once per pass. The session sweep runs in every pass.
configd and its clients share two System V queues and the segment; nothing
else, except that the `flash` command works on the files of the settings
itself and that an upgrade runs in a thread of configd beside its message loop.
`mib_update()` sends `SIGUSR1` to the cluster client, which reads the settings
through the same library.

What makes each part correct:

* engine: sockets, structs and the count agree; `select()` waits on exactly
  what is needed; no request is lost on a list; idle clients go; after SIGTERM
  none is admitted and none cut off;
* configd: one reply per request, to its caller; the segment belongs to one
  call at a time; configd keeps serving; who waits is answered;
* sessions: the list stays a list, no entry is leaked, the limit holds, idle
  sessions end;
* reading: the lines and the body come through exactly, however they are
  divided between calls; buffers are not overrun; reading ends;
* settings: a boot finds the settings last saved or those being saved, and an
  orderly reboot loses no update its caller was told of;
* upgrade: the running image is not written over, and the committed bank boots
  at every instant;
* cluster: a complete set of frames is the client's settings, and the server
  has them in the end;
* signals: every delivery leads to its action, none runs without one, a fault
  ends the process.

The list of hazards in `PROJECT.json` says where in the code each of these can
go wrong and which property watches it.

## 2. Modules

| Module | Content |
|---|---|
| `RequestEngine` | the engine, its properties and the inductive invariant |
| `RequestPool` | what the engine promises: a pool of connections that drains |
| `RequestEngineProofs` | theorems about `RequestEngine`, refinement included |
| `ConfigdIpc`, `ConfigdIpcProofs` | configd, its clients, the queues and the shared memory, and their theorems |
| `LoginList`, `LoginListProofs` | the session list at pointer level, and its theorems |
| `SignalDispatch`, `SignalDispatchProofs` | signal bits and their theorem |
| `ReadRequest`, `ReadRequestProofs` | the header scanner and the body of a POST, byte by byte, and their theorems |
| `ConfigSave`, `ConfigSaveProofs` | the settings in memory and on flash, configd and the `flash` command, and their theorems |
| `FirmwareUpgrade`, `FirmwareUpgradeProofs` | the upgrade of the two banks and its theorems |
| `ClusterSync`, `ClusterSyncProofs` | both programs of the configuration cluster and the frames between them, and their theorems |
| `MC...` | the same modules with symmetry sets and values for TLC |

### RequestEngine

`pc` is the place in `main()`: `top` (signal dispatch and lame-duck switch),
`update` (`fdset_update()`), `process` (the walk over the ready list, `todo`
the part still ahead), `select`, `accept`. One action is one stretch of code
between two points where a client, the clock or a signal can make a
difference; a turn of `process_requests()` for one request is one action
(`FlushRequest` if its buffer holds bytes, `HandleRequest` else), with
`block_request()`, `free_request()` and `restart_lanip()` as part of it.

The walk over the ready list is in any order: the properties do not depend on
it and requests are enqueued at the head. Descriptors are pairs of a request
and what it waits for. Handlers are sets of outcomes (return value, status,
response), each set read off the return statements of its function. A stalled
client (`Stall`) is one whose socket gives and takes nothing any more. The
clocks are relative: `age` and `lag` stop one above their limit. Keep-alive is
absent from this build (with `SUPPORT_ASP` a Connection header always gives
`KA_STOPPED`); SSL and `USER_WEB_WIZARD` (under which `process_requests()` frees
a request that it would block), which depend on the product configuration, are
left out. No code gives a request the status `REBOOT`, after which
`process_requests()` would reset the router, so it is not among `Statuses`.

### ConfigdIpc

A client thread is one tid; `cpc` is its place in a function of
`sysconfig.c`. The daemon's `spc` is its place in `msg_handler()` and
`send_message_nonblock()`; the retries of ten seconds are one wait. `dropped`,
`unsafe` and `stale` are history variables. A `msgsnd()` of a client on a full
queue may wait or fail (it is interrupted by an alarm). A killed client
releases its lock, as the kernel closes its files; its tid may come back under
another thread group.

### LoginList

`head` and `next` are the pointers; freed structs keep their `next` field, as
the allocator does not write there, so a walk that steps through a freed entry
is followed exactly. Every action requires that no freed struct is on the list
(`Sound`): what follows otherwise is undefined, and the model stops there.

### SignalDispatch

The clearing `*sig &= ~bit` is a load and a store. `owed` records deliveries
whose action has not been begun. `Break` lets an instruction of `main()`
fault; `Refault` is the fault handler and the return to the same instruction.

### ReadRequest

One letter stands for a method or a kind of header line, so that a stream of
bytes is short, but line ends, the terminator the scanner writes, the positions
in both buffers and the moving of bytes when a line is cut out are those of the
code. `Reading` is one call of `read_header()` or `read_body()` with the
`read()` it makes, `Scan` one round of the scanner's loop, `Writing` one call of
`write_body()`. In this build a request is never followed by another on the
same connection (no keep-alive, hence no pipelining); reading through SSL is
left out.

### ConfigSave

The settings are one number, 0 for the defaults. Files are inodes, because
`mv` from `/var` to the configuration partition is a copy and `cp` goes on
writing to an inode that another process has renamed. That
writes reach the flash in the order they are made is an assumption on the file
system, which the code shares: it calls `sync` only at the end of a save. The
encryption of the file is left out. `UpdateNow` also stands for the commit that
`systemd` makes some time after `UpdateLater`. `hurt` collects the
causes for which settings may be lost: a failed write, an unlinked
`config.xml`, and a repair beside another process. A behaviour that has met one
is not extended (`Unhurt`), as `CrashConsistent` makes no claim about it.
`reboot_now`, with which `cfg_reboot()` says whether a reset is to follow the
commit and `cfg_mib_update()` commits at once, is not a variable: the reset may
be taken or not, and an update may commit at once or later at any time.

### FirmwareUpgrade

The web server is one thread that waits while its command is with configd;
each upload has a thread in configd. `file` follows the uploaded file, which
`free_request()` unlinks unless `g_upgrade_firmware` is set, and `glob` the
variables through which `cfg_upload()` hands it over. Flash variables, the
script that writes a bank, the upgrade lock and the boot loader are outside the
repository; the boot loader is taken to prefer a committed bank that is valid
and whole and otherwise the other one if it is whole. The cancel branch of
`cfg_upload()` (second argument 0) has no caller. `causes` collects why the
committed bank may not boot, six in all: uploads that overlap (`overlap`), an
upload begun while the banks differ (`differ`), a flash variable that cannot be
set (`env`), `sw_active` that cannot be read (`unknown`), an upgrade that marks
or commits a bank before one was chosen (`garbage`), and a switch by hand to a
bank that is not whole (`toggle`).

The result of `rtk_env_get("sw_active")` is not looked at, and `active` has no
initial value (`msgparser.c:2285`): `upgrade_bank` is then either bank, the
running one included, or a number that is none. Neither variable is set either
when the file is gone at `stat()`, after which the label `done` commits
`active`, and when, in builds with `CONFIG_LUNA_FWU_SIGNATURE`, the image is
refused: `fwu_success` is still 1, and `done` marks and commits `upgrade_bank`
as after an upgrade. A number that is none is taken to be refused by
`set_valid_info()` and `set_commit_info()`, which are outside the repository. A
failing upgrade commits the bank its thread takes for the running one. The
command of the script is put together before the valid flag is cleared, so the
file it names (`named`) is fixed then; `unlink()` follows the global name.
TLC does not follow a behaviour beyond two causes (`OneCause`); the theorems
have no such limit.

### ClusterSync

The settings are an option read at the beginning of a round, one read when its
frame is filled, and a chain of up to `MaxChain` entries, each with the version
of the settings it was read from. A frame is lost when it is sent or arrives in
any order; duplicates are the frames of the next round. The load of `next_seq`
and the store to `cur_seq` are two steps, as `SIGUSR1` may come between them.
The client writes its pid file before it sets its handler, so that a signal in
between kills it; one that comes later, but before the loop, is counted.
Sequence numbers have 16 bits in the code and do not wrap
within `MaxEvents` changes. The order of the entries of a chain is left out.

Neither end looks at what its MIB calls return, and `Faulty` lets any of them
fail. At the client, a wlan entry or a single value that cannot be read is sent
as whatever the stack held (`NoVersion`), and an entry of a chain is left out,
with the rest of its chain: `addOption()` returns 0 and no length, so
`configrations_send()` goes on to the next type (its -2 is returned only at the
end of a chain). At the server, `handle_conf_packet()` masks a frame before it
parses it and ignores the outcome: `Misread` are the options that are left when
one is skipped (a set that fails, an ATM_VC entry of another length) or when
`PARSE_FAIL` ends the frame in mid-chain, `TYPE_IDX_END` included, before or
after the chain was cleared. `whole` records that no frame masked under the
present number met any of this. The product's chains are one chain in the model;
that `chain_idx` is left standing when a chain is cut short, so that entries at
the front of the next chain are missing too, is not seen, but such a frame is
not whole either.

## 3. Runs

| Run | Expect | Checks | Instance |
|---|---|---|---|
| `engine_safety` | pass | `TypeOK`, `Accounting`, `ConnectionBound`, `NoBufferedBlocked`, `WatchedExactly`, `LanipAfterClose`, `PoolSpec` | 2 structs, 1 connection allowed, 1 web socket and the redirect socket, 1 failing `accept()`, SIGTERM |
| `engine_idle` | pass | `IdleClosed`, `StalledDropped` | 2 structs, one client may stall, fair |
| `ipc_exchange` | pass | `TypeOK`, `ExactlyOnce`, `ReplyMatches`, `ShmOwn`, `SendBackFits`, `Answered` | 2 clients, 2 calls each, queues of 2, 1 kill with reuse of the tid, late start, SIGTERM, fair |
| `ipc_hang` | violation | `Listening` | 2 clients, queues of 1, fair |
| `login_walk` | pass | `TypeOK`, `NoLeak`, `SessionBound`, `WalkExact` | 4 structs, 2 addresses, 2 session ids, 3 sessions allowed |
| `signal_bits` | pass | `NoSpurious`, `WorkSignalsRun` | SEGV, TERM, HUP, INT, CHLD, 5 sent, fair |
| `config_save` | pass | `TypeOK`, `CrashConsistent`, `RebootFlushes` | configd and one `flash` command, 4 inodes, 2 changes, 2 power failures, 1 failing call |
| `fw_banks` | pass | `TypeOK`, `CommitBootable`, `RunningIntact` | 2 uploads, 1 failing call, 1 power failure |
| `fw_keep` | violation | `FileKept` | 1 upload |
| `read_stream` | pass | `TypeOK`, `LinesExact`, `KeptIntact`, `BodyExact`, `InBuffer`, `FormWhole`, `ReadEnds` | about 700 requests, all streams of up to 4 bytes, two that fill the buffer; buffers of 8 bytes, fair |
| `read_split` | violation | `MalformedOnly` | 2 requests that fit the buffer |
| `cluster_sync` | pass | `TypeOK`, `InSync`, `Converges` | frames of 3 options, chains of up to 2 entries, 2 events (changes, restarts, failing MIB calls), 2 frames under way, fair |

The violations are disagreements between the code and its own comments or
documents; `PROJECT.json` quotes the lines. In short: configd can wait for ever
on its own reply queue; an uploaded image can be unlinked before the upgrade
has read it; a request whose packet ends inside a line is refused.

Other deviations are part of what the passing properties say. A failed
`accept()` raises the connection limit by one (`ConnectionBound`). The
countdown of a stalled write can step over 0 and is shared between requests
(`StalledDropped`). Replies to live clients are dropped before those to dead
ones, as the thread group asked about is always 0 (`Answered` names dropped
replies). Two neighbouring sessions that are deleted together behind one that
stays leave freed memory on the list (`WalkExact`). A signal that arrives while
another bit is cleared is lost (`WorkSignalsRun` speaks of those that arrive
outside the dispatch), and a memory fault loops in place. A repair of
`config.xml` that races with a save, and a write that fails, can lose settings
(`CrashConsistent`). Six causes can leave a bank committed that does not boot
(`CommitBootable`), and one of them, a failing read of `sw_active`, lets the
running image be written over (`RunningIntact`). A restarted cluster client uses
its numbers again, an empty chain is never cleared, and a frame that was only
partly read or applied is not taken again under its number (`InSync`,
`Converges`).

Bounds. `RequestTimeout` and `WriteWait` are 1 second instead of 60 and 10:
only "not yet", "exactly" and "beyond" are told apart, and with 1 the countdown
can already be met or overstepped. Two structs are the fewest with
which one request can disturb another; the theorems cover any number. A queue
of two instead of five lets it fill up with replies of a reused tid, and one
kill is what each scenario needs. Three listed sessions are the fewest with
two neighbours behind a third, and a fourth struct shows the limit. Five
signals, one of each kind of action (abort, exit, return), fill one dispatch.
Four inodes are the three files a save has in use at once and one that a copy
still writes; two power failures let a repair be interrupted. Two uploads are
what an overlap needs. Buffers of 8 bytes hold a request line, an option line
and the beginning of a body, and are also filled to the last byte; a length of
9 is larger than the buffer and than the limit on uploads. With three options
to a frame the settings need one frame or two, depending on the chain, so that
the number of frames changes with them; two events are two changes, a change
and a restart of either side, or a failing call and the change or restart that
makes up for it. TLC explores each instance completely.

Deadlock is checked for the engine, which never stops short of `die()`. It is
switched off where the model may end: bounded calls, signals, uploads, changes
and power failures, a request that has been read, a cluster client that was
killed, and the undefined behaviour at which `LoginList` stops.

While a request spins on the ready list, `select()` is not called, so no
connection is accepted and no blocked request is woken. The code promises
nothing else; `IdleClosed` therefore speaks of clients whose own buffer is
empty, which `fdset_update()` times out in every pass.

## 4. Fairness

* Engine: weak fairness of the loop (one thread that the scheduler keeps
  running and whose `select()` has a time limit) and of the clock (`sigalrm()`
  re-arms `alarm(1)`). None of clients.
* configd: weak fairness of the daemon, which runs at priority -19 and waits
  only in `msgrcv()`, and of each client inside a call. None of new calls,
  kills, reuse or SIGTERM.
* Reading: weak fairness of the handlers, which the engine calls again as long
  as the request is on its lists, with a client that sends all it has and then
  closes.
* Settings and upgrade: none; their properties are about safety.
* Cluster: weak fairness of the signal that follows a change, of the client's
  loop and of the arrival of what is under way; strong fairness of sending, for
  each frame: the network may lose any frame any number of times, but not the
  same one in every round for ever. None of changes, restarts and failing
  calls.
* Signals: weak fairness of `main()` and of a faulting instruction faulting
  again. None of deliveries.

## 5. Proofs

`RequestEngineProofs` proves, for every finite set of structs, every limit,
timeout and number of failed `accept()` calls, that `TypeOK`, `Accounting`,
`ConnectionBound`, `NoBufferedBlocked`, `WatchedExactly` and `LanipAfterClose`
are invariants and that the engine implements `RequestPool`. The only
assumption is `EngineAssumption` on the constants.

The invariants are not inductive one by one. `IndInv` adds what holds between
two steps of the loop: `TodoReady` (the walk has only ready requests before it,
so a turn never disturbs a blocked or free one), `BitsOfBlocked` (outside the
walk every bit of an `fd_set` belongs to a blocked request; without it
`WatchedExactly` could be broken by a bit left from an earlier pass),
`LanipInPass` (the requests of the current pass only, so that a struct given
out again by `accept()` is not among them), `CountBound` (the count, not the
sockets, is what the guard looks at) and `AcceptWhileOpen` (sockets are served
only before lame-duck mode). The proof has one lemma for a turn, one for
`fdset_update()`, one for `accept()` and one for the steps that move nothing,
each split by conjunct; types are proved first, from the lemmas on
`req_flush()` and on the outcomes of handlers. The refinement maps the busy
structs, `lame_duck_mode` and `die()`, and uses `IndInv` for the two steps that
matter: no admission while draining and exit only when both lists are empty.

`SignalDispatchProofs` proves `NoSpurious` for any selection of signals; the
strengthening says that what the load has read is owed as well.

`FirmwareUpgradeProofs` proves, for any number of uploads, failing calls and
power failures, that `TypeOK`, `RunningIntact` and `CommitBootable` are
invariants, assuming only that the bounds are natural numbers
(`BoundsAssumption`), with the boot loader as above. For `RunningIntact` the
invariant must say that a thread that may still flash holds the bank that is
not running, as long as `sw_active` could be read, and, until a bank was marked
or committed unchosen, that every thread does (`OtherBank`), and that a script
is started only for what is a bank (`WritesBank`);
the running image being whole is in turn what the boot loader
falls back on, which keeps it true across a power failure. `CommitBootable`
needs `Orderly`: as long as no cause has happened, at most one thread runs, the
committed bank is the running one until that thread commits, and what it marks
and commits is a bank and whole. Each of the six causes breaks one of these conjuncts,
which is why the property names them.

`ConfigdIpcProofs` proves `TypeOK`, `ExactlyOnce`, `ReplyMatches`, `ShmOwn` and
`SendBackFits` for any set of clients, any queue length and any number of calls
and kills. `IndInv` has six parts. `Base` are the types with the place of each
message: configd has a message in hand exactly while it works, and while it
drains the replies, those still to come and those put aside are together no
more than a queue holds. `Numbers` keeps a call's number from being used before
the call is made, so that no message under way can be taken for that of a later
call. `OnceInv` counts messages place by place (both queues, the one in hand,
those put aside), which `ExactlyOnce` counts all together; without it a step
that moves a message from one place to another could not be shown to leave it
there once. `Requests` says that the request queue holds requests and no
replies, and that configd executes one; `ShmInv` says who may use the shared
memory: the holder of the lock from its call to its return, and configd on its
behalf. `SendBackFits` rests on the loop of `drop_unexist_pid_message()`, here
the recursive function `Without`: that it keeps at most what it was given and
drops the first message is shown by an argument on the least number of rounds
for which it would fail (`LeastNat`, from the well-foundedness of the natural
numbers), as the library's induction rules cannot be applied.

`ConfigSaveProofs` proves `TypeOK`, `CrashConsistent` and the action property
`RebootFlushes` for any number of inodes from four, changes, failing calls and
power failures. `Base` adds to the types who holds the lock of the files and
which inodes each step of a save, a load or a repair has open. `FlashInv` says,
for each of these steps, which of `config.xml`, the backup and the temporary
file is whole and what is in it, as long as no cause of `hurt` has happened; a
power failure at that step then finds what `CrashConsistent` promises.
`FlushInv` follows an update from the answer to its caller until the commit of
`sysReboot()`.

`ClusterSyncProofs` proves `TypeOK`, and `InSync` under the hypothesis
`MaxEvents < 65536`: the code compares 16-bit sequence numbers, which come
round after that many changes. `Counts` bounds the numbers by the changes made.
`SyncInv` says of every whole frame of the present run under the present
sequence number that it holds its slice of the present settings, once every
change is announced (`FrameInv`), and of the mask that, while all of its frames
were taken whole, each has left its slice in the managed router's MIB
(`MibInv`). `Cutting` shows that a failing call changes the frames of a round
only by ending it, so that `option` stays at the beginning of a slice. A set that is complete under
the number of the last change is then that change throughout, although its
frames may come from several rounds.

`ReadRequestProofs` proves `TypeOK`, `InBuffer`, `FormWhole`, `KeptIntact`,
`LinesExact` and `BodyExact` for every request, length claimed, buffer size and
limit on uploads, and every division of the bytes between `read()` and
`write()`. `Base` says where the bytes are: what is behind the beginning of the
current line in `client_stream` are the last bytes read, the file holds the
first bytes of the body and the buffer the last ones, both together all of
them until the limit is passed. `KeptInv` puts every string that `req` points
to, with its terminator, before the current line, which is all that the
scanner writes to or moves. `FeedInv` ties the scanner to the stream: as many
lines were processed as line feeds have been seen, the current line begins
behind the last of them, and the automaton is in a CR state exactly when the
byte before is a CR; `LinesExact` and `BodyExact` are stated with the number
of a line feed (`LineFeedIs`) and follow from these counts. The only
assumption is `ReadAssumption` on the constants.

`LoginListProofs` proves `TypeOK`, `NoLeak`, `SessionBound` and the action
property `WalkExact` for any finite set of structs, any addresses and session
ids and any limits. `ListInv` says that a list without a freed entry is a chain
of all that is malloc'ed, each entry once (`Chain`). What a deleting walk leaves
is stated round by round (`Passed`): which entries were freed, where the list
begins, and that the predecessor of a freed entry skips it only if an entry
before stays. If two neighbours behind an entry that stays are freed, that entry
is left pointing to the second of them, since freeing the second changes only
the first; the walk from the head then meets a freed entry (`NearUnsound`) and
the list is not sound. Otherwise what is left is the chain of the entries that
stay (`WithoutChain`). The walks are recursive functions: that they are defined is
`LoopExists`, and what they compute is shown as for `Without` above. The
assumptions are `LoginAssumption`: finitely many structs, an address, and
session ids other than the strings that mark a missing one.

Each inductive invariant was model-checked too, on the instance of its
component's run.

Only model-checked: the liveness properties (`IdleClosed`, `StalledDropped`,
`Answered`, `WorkSignalsRun`, `ReadEnds`, `Converges`), which need fairness and
ENABLED.

## 6. Not modelled

* Descriptor numbers, so that a failed `accept()` closes descriptor 0 is not
  seen.
* The failed-login list and digest nonces.
* What a header line says, and the bytes of the pipe and CGI handlers.
* The MIB tables and chains, the text of `config.xml`, its encryption, and the
  hardware settings (the same code on other files).
* The MIB lock, which no program in the repository takes, and the restart of
  configd after a crash.
* Several clients in one cluster, changes made at the managed router, and
  several chains with the index that one leaves to the next.
* What `rtk_env_get()`, `set_valid_info()` and `set_commit_info()` do beyond
  succeeding, failing and refusing a number that is no bank; builds with one
  image.
* Branches of other build options: SSL, `USER_WEB_WIZARD`, low-memory upgrades.
* Network set-up, the largest part of `LINUX/`: sequences of shell commands and
  files made from MIB values. What they do is decided by programs outside the
  repository.
* CLI front ends, small daemons, pages and all formatting.

`PROJECT.json` lists each with its reason.

## 7. Plan

1. An abstract call/return specification that `ConfigdIpc` implements.
2. `ErrLogin`: the failed-login list with lock-out, composed with `LoginList`;
   a list-level abstraction that both implement.
3. The restart of configd after a crash.
4. Descriptor numbers under `RequestEngine`, and the doubly linked lists of
   `queue.c` as a refinement of `where`.
5. Digest nonces (`auth.c`) and the call-out list of `subr_timer.c`.
