----------------------------- MODULE ConfigSave -----------------------------
(***************************************************************************)
(* The settings of the router on flash.  configd keeps the current         *)
(* settings in memory; _save_xml_file() writes them to config.xml by way   *)
(* of a temporary file and keeps the file it replaces as a backup;         *)
(* _mib_load() reads them back and repairs a broken config.xml from the    *)
(* backup.  The flash command runs the same code in a process of its own,  *)
(* with a memory of its own, beside configd.  The power may fail between   *)
(* any two steps.                                                          *)
(*                                                                         *)
(* A value of the settings is a number, 0 for the factory defaults.  Files *)
(* are inodes: cp keeps writing to the inode it opened when another        *)
(* process renames it.  Writes reach the flash in the order they are made. *)
(***************************************************************************)
EXTENDS Integers, FiniteSets

CONSTANTS
    NInodes,     \* inodes of the configuration partition
    MaxVersion,  \* bound: changes of the settings
    MaxCrash,    \* bound: power failures
    MaxFault,    \* bound: failing opens and writes
    MaxTool      \* bound: runs of the flash command

ASSUME BoundsAssumption ==
    /\ NInodes \in Nat /\ NInodes >= 4
    /\ {MaxVersion, MaxCrash, MaxFault, MaxTool} \subseteq Nat

VARIABLES
    dir,        \* the names config.xml and its backup, to inodes
    data,       \* content of each inode
    tmp,        \* content of /var/_config_tmp.xml
    lock,       \* holder of /tmp/_config_xml_lock
    pc,         \* where each process is
    ret,        \* where each process goes after the current call
    mem,        \* the settings in the memory of each process
    fd,         \* the inode a cp or mv of the process is writing
    src,        \* what that cp writes
    empty,      \* savefile_empty of _save_xml_file()
    cmd,        \* command of the flash process
    rpc,        \* the thread of sysReboot()
    deferred,   \* an update was answered and is not on flash yet
    late,       \* ... and was answered after the commit of sysReboot()
    committed,  \* last settings whose save returned success
    hurt,       \* causes for which settings may be lost
    version, crashes, faults, tools

files == <<dir, data, tmp, lock>>
procs == <<pc, ret, mem, fd, src, empty, cmd>>
hist == <<deferred, late, committed, hurt>>
bounds == <<version, crashes, faults, tools>>
vars == <<files, procs, rpc, hist, bounds>>

Procs == {"configd", "flash"}
Inodes == 1..NInodes
NoFile == 0
Part == -1              \* missing its end: checkConfigFile() rejects it
Versions == 0..MaxVersion
NoProc == "none"

\* Steps of a process inside _save_xml_file(), the lock held.
Saving == {"open", "write", "backup", "move", "moving", "sync"}
\* Steps inside the cp of _load_xml_file() or generate_xmlfile_backup().
Copying == {"restore", "restoring", "bakcopy", "bakcopying"}
Resting == {"idle", "off", "dead", "command"}

\* isXmlFileValid(): the file is there and has its trailer.
Whole(name) == dir[name] # NoFile /\ data[dir[name]] # Part

\* What a boot would load if the power failed now.
Recover ==
    CASE Whole("save") -> data[dir["save"]]
      [] ~Whole("save") /\ Whole("bak") -> data[dir["bak"]]
      [] OTHER -> 0

FreeInode ==
    CHOOSE i \in Inodes : /\ \A n \in DOMAIN dir : dir[n] # i
                          /\ \A p \in Procs : fd[p] # i

Others(p) == Procs \ {p}

TypeOK ==
    /\ dir \in [{"save", "bak"} -> Inodes \cup {NoFile}]
    /\ data \in [Inodes -> Versions \cup {Part}]
    /\ tmp \in Versions \cup {Part, -2}
    /\ lock \in Procs \cup {NoProc}
    /\ pc \in [Procs -> Saving \cup Copying \cup Resting \cup
                 {"load", "read", "lock", "bakcheck", "reload", "wait"}]
    /\ ret \in [Procs -> {"idle", "bakcheck", "default", "command",
                          "reload", "off"}]
    /\ mem \in [Procs -> Versions]
    /\ fd \in [Procs -> Inodes \cup {NoFile}]
    /\ src \in [Procs -> Versions \cup {Part}]
    /\ empty \in [Procs -> BOOLEAN]
    /\ cmd \in {"get", "set", "default", "clear"}
    /\ rpc \in {"none", "commit", "wait", "flushed"}
    /\ deferred \in BOOLEAN /\ late \in BOOLEAN
    /\ committed \in Versions
    /\ hurt \subseteq {"fault", "error", "race", "clear"}
    /\ version \in Versions
    /\ crashes \in 0..MaxCrash /\ faults \in 0..MaxFault
    /\ tools \in 0..MaxTool

Init ==
    /\ dir = [n \in {"save", "bak"} |-> NoFile]
    /\ data = [i \in Inodes |-> Part]
    /\ tmp = -2 /\ lock = NoProc
    /\ pc = [p \in Procs |-> "off"] /\ ret = [p \in Procs |-> "off"]
    /\ mem = [p \in Procs |-> 0]
    /\ fd = [p \in Procs |-> NoFile] /\ src = [p \in Procs |-> Part]
    /\ empty = [p \in Procs |-> FALSE]
    /\ cmd = "get" /\ rpc = "none"
    /\ deferred = FALSE /\ late = FALSE
    /\ committed = 0 /\ hurt = {}
    /\ version = 0 /\ crashes = 0 /\ faults = 0 /\ tools = 0

-----------------------------------------------------------------------------
(* Steps of either process p                                               *)

Goto(p, l) == pc' = [pc EXCEPT ![p] = l]

\* A failing open or write, up to the bound.
Fault(cause) ==
    /\ faults < MaxFault
    /\ faults' = faults + 1
    /\ hurt' = hurt \cup {cause}
    /\ UNCHANGED <<version, crashes, tools>>

NoFault == UNCHANGED <<hurt, bounds>>

\* p writes a file while another process is at one of the steps.
NoteRace(p, steps) ==
    hurt' = IF \E q \in Others(p) : pc[q] \in steps
            THEN hurt \cup {"race"} ELSE hurt

\* checkConfigFile() waits for the lock that a save holds on config.xml
\* while it writes the temporary file.
Readable(p) == \A q \in Others(p) : pc[q] # "write"

\* _mib_load() starts from the factory defaults; _load_xml_file() decides
\* whether config.xml must be replaced by its backup.
Load(p) ==
    /\ pc[p] = "load" /\ Readable(p)
    /\ mem' = [mem EXCEPT ![p] = 0]
    /\ Goto(p, IF ~Whole("save") /\ Whole("bak") THEN "restore" ELSE "read")
    /\ UNCHANGED <<files, ret, fd, src, empty, cmd, rpc, hist, bounds>>

\* cp opens its target, which creates or empties it.
CopyOpen(p, from, to, next) ==
    LET i == IF dir[to] = NoFile THEN FreeInode ELSE dir[to] IN
    /\ dir' = [dir EXCEPT ![to] = i]
    /\ data' = [data EXCEPT ![i] = Part]
    /\ fd' = [fd EXCEPT ![p] = i]
    /\ src' = [src EXCEPT ![p] = data[dir[from]]]
    /\ Goto(p, next)

\* cp -rf of the backup over config.xml; no lock is taken.
RestoreOpen(p) ==
    /\ pc[p] = "restore"
    /\ CopyOpen(p, "bak", "save", "restoring")
    /\ hurt' = IF \/ Whole("save")
                  \/ \E q \in Others(p) : pc[q] \in Saving \cup Copying
               THEN hurt \cup {"race"} ELSE hurt
    /\ UNCHANGED <<tmp, lock, ret, mem, empty, cmd, rpc,
                   deferred, late, committed, bounds>>

\* cp writes to the inode it opened; the flash may be full.
CopyEnd(p, next) ==
    /\ \/ data' = [data EXCEPT ![fd[p]] = src[p]] /\ NoFault
       \/ data' = data /\ Fault("fault")
    /\ fd' = [fd EXCEPT ![p] = NoFile]
    /\ src' = [src EXCEPT ![p] = Part]
    /\ Goto(p, next)
    /\ UNCHANGED <<dir, tmp, lock, ret, mem, empty, cmd, rpc,
                   deferred, late, committed>>

RestoreCopy(p) == pc[p] = "restoring" /\ CopyEnd(p, "read")

\* The rest of _mib_load(): config.xml, else its backup, which is then
\* saved as config.xml, else failure, on which mib_init() saves the
\* defaults and a reload leaves them in memory.
Read(p) ==
    /\ pc[p] = "read" /\ Readable(p)
    /\ \/ /\ Whole("save")
          /\ mem' = [mem EXCEPT ![p] = data[dir["save"]]]
          /\ Goto(p, ret[p]) /\ UNCHANGED ret
       \/ /\ ~Whole("save") /\ Whole("bak")
          /\ mem' = [mem EXCEPT ![p] = data[dir["bak"]]]
          /\ Goto(p, "lock") /\ UNCHANGED ret
       \/ /\ ~Whole("save") /\ ~Whole("bak")
          /\ ret' = [ret EXCEPT ![p] = IF @ = "idle" THEN "idle"
                                                     ELSE "default"]
          /\ Goto(p, IF ret[p] = "idle" THEN "idle" ELSE "lock")
          /\ UNCHANGED mem
    /\ UNCHANGED <<files, fd, src, empty, cmd, rpc, hist, bounds>>

\* _save_xml_file(): the lock file serialises the saves of all processes.
SaveLock(p) ==
    /\ pc[p] = "lock" /\ lock = NoProc
    /\ lock' = p
    /\ Goto(p, "open")
    /\ UNCHANGED <<dir, data, tmp, ret, mem, fd, src, empty, cmd, rpc,
                   hist, bounds>>

\* Broken form of SaveOpen: config.xml is opened for writing and emptied.
SaveOpenInPlace(p) ==
    /\ pc[p] = "open"
    /\ empty' = [empty EXCEPT ![p] = dir["save"] = NoFile]
    /\ IF dir["save"] = NoFile
       THEN /\ dir' = [dir EXCEPT !["save"] = FreeInode]
            /\ data' = [data EXCEPT ![FreeInode] = Part]
       ELSE /\ data' = [data EXCEPT ![dir["save"]] = Part]
            /\ UNCHANGED dir
    /\ tmp' = Part
    /\ Goto(p, "write")
    /\ UNCHANGED <<lock, ret, mem, fd, src, cmd, rpc, hist, bounds>>

\* config.xml is opened, or created empty, and the temporary file begun.
SaveOpen(p) ==
    /\ pc[p] = "open"
    /\ empty' = [empty EXCEPT ![p] = dir["save"] = NoFile]
    /\ IF dir["save"] = NoFile
       THEN /\ dir' = [dir EXCEPT !["save"] = FreeInode]
            /\ data' = [data EXCEPT ![FreeInode] = Part]
       ELSE UNCHANGED <<dir, data>>
    /\ tmp' = Part
    /\ Goto(p, "write")
    /\ UNCHANGED <<lock, ret, mem, fd, src, cmd, rpc, hist, bounds>>

\* A file cannot be opened or memory is short: the save is given up.  When
\* the defaults cannot be saved mib_init() fails, and configd with it.
SaveError(p) ==
    /\ pc[p] \in {"open", "write"}
    /\ lock' = NoProc
    /\ Goto(p, CASE ret[p] # "default" -> ret[p]
                 [] ret[p] = "default" /\ p = "configd" -> "dead"
                 [] OTHER -> "command")
    /\ Fault("error")
    /\ UNCHANGED <<dir, data, tmp, ret, mem, fd, src, empty, cmd, rpc,
                   deferred, late, committed>>

\* The settings go to the temporary file; what fwrite() and fflush()
\* return is not looked at.
SaveWrite(p) ==
    /\ pc[p] = "write"
    /\ \/ tmp' = mem[p] /\ NoFault
       \/ tmp' = Part /\ Fault("fault")
    /\ Goto(p, IF empty[p] THEN "move" ELSE "backup")
    /\ UNCHANGED <<dir, data, lock, ret, mem, fd, src, empty, cmd, rpc,
                   deferred, late, committed>>

\* generate_xmlfile_backup2(): config.xml is renamed over the backup.
SaveBackup(p) ==
    /\ pc[p] = "backup"
    /\ dir' = IF dir["save"] = NoFile THEN dir
              ELSE [dir EXCEPT !["bak"] = dir["save"], !["save"] = NoFile]
    /\ NoteRace(p, Copying \ {"bakcopy"})
    /\ Goto(p, "move")
    /\ UNCHANGED <<data, tmp, lock, ret, mem, fd, src, empty, cmd, rpc,
                   deferred, late, committed, bounds>>

\* mv of the temporary file, which is on another file system: a target is
\* unlinked, and a new file is written.
MoveOpen(p) ==
    /\ pc[p] = "move"
    /\ dir' = [dir EXCEPT !["save"] = FreeInode]
    /\ data' = [data EXCEPT ![FreeInode] = Part]
    /\ fd' = [fd EXCEPT ![p] = FreeInode]
    /\ Goto(p, "moving")
    /\ UNCHANGED <<tmp, lock, ret, mem, src, empty, cmd, rpc, hist, bounds>>

MoveCopy(p) ==
    /\ pc[p] = "moving"
    /\ \/ data' = [data EXCEPT ![fd[p]] = tmp] /\ NoFault
       \/ data' = data /\ Fault("fault")
    /\ tmp' = -2
    /\ fd' = [fd EXCEPT ![p] = NoFile]
    /\ Goto(p, "sync")
    /\ UNCHANGED <<dir, lock, ret, mem, src, empty, cmd, rpc,
                   deferred, late, committed>>

\* Broken form of SaveDone: mib_init() forgets the check of the backup.
SaveDoneNoCheck(p) ==
    /\ pc[p] = "sync"
    /\ lock' = NoProc
    /\ committed' = mem[p]
    /\ deferred' = (deferred /\ p # "configd")
    /\ late' = (late /\ p # "configd")
    /\ Goto(p, ret[p])
    /\ UNCHANGED <<dir, data, tmp, ret, mem, fd, src, empty, cmd, rpc,
                   hurt, bounds>>

\* The save ends with success: sync, unlock, return 0.
SaveDone(p) ==
    /\ pc[p] = "sync"
    /\ lock' = NoProc
    /\ committed' = mem[p]
    /\ deferred' = (deferred /\ p # "configd")
    /\ late' = (late /\ p # "configd")
    /\ Goto(p, IF ret[p] = "default" THEN "bakcheck" ELSE ret[p])
    /\ UNCHANGED <<dir, data, tmp, ret, mem, fd, src, empty, cmd, rpc,
                   hurt, bounds>>

Ready(p) == IF p = "configd" THEN "idle" ELSE "command"

\* The end of mib_init(): a missing or broken backup is made anew.
BakCheck(p) ==
    /\ pc[p] = "bakcheck"
    /\ Goto(p, IF ~Whole("bak") /\ dir["save"] # NoFile THEN "bakcopy"
               ELSE Ready(p))
    /\ UNCHANGED <<files, ret, mem, fd, src, empty, cmd, rpc, hist, bounds>>

\* generate_xmlfile_backup(): cp of config.xml, if it is there.
BakOpen(p) ==
    /\ pc[p] = "bakcopy"
    /\ dir["save"] # NoFile
    /\ CopyOpen(p, "save", "bak", "bakcopying")
    /\ NoteRace(p, Saving \cup Copying)
    /\ UNCHANGED <<tmp, lock, ret, mem, empty, cmd, rpc,
                   deferred, late, committed, bounds>>

BakSkip(p) ==
    /\ pc[p] = "bakcopy" /\ dir["save"] = NoFile
    /\ Goto(p, IF ret[p] = "reload" THEN "off" ELSE Ready(p))
    /\ UNCHANGED <<files, ret, mem, fd, src, empty, cmd, rpc, hist, bounds>>

BakCopy(p) ==
    /\ pc[p] = "bakcopying"
    /\ CopyEnd(p, IF ret[p] = "reload" THEN "off" ELSE Ready(p))

Step(p) ==
    \/ Load(p) \/ RestoreOpen(p) \/ RestoreCopy(p) \/ Read(p)
    \/ SaveLock(p) \/ SaveOpen(p) \/ SaveError(p) \/ SaveWrite(p)
    \/ SaveBackup(p) \/ MoveOpen(p) \/ MoveCopy(p) \/ SaveDone(p)
    \/ BakCheck(p) \/ BakOpen(p) \/ BakSkip(p) \/ BakCopy(p)

-----------------------------------------------------------------------------
(* Messages to configd and its start                                       *)

Boot ==
    /\ pc["configd"] = "off"
    /\ Goto("configd", "load")
    /\ ret' = [ret EXCEPT !["configd"] = "bakcheck"]
    /\ UNCHANGED <<files, mem, fd, src, empty, cmd, rpc, hist, bounds>>

Call(l) ==
    /\ pc["configd"] = "idle"
    /\ Goto("configd", l)
    /\ ret' = [ret EXCEPT !["configd"] = "idle"]
    /\ UNCHANGED <<files, fd, src, empty, cmd, hurt, committed>>

\* cfg_mib_set() and the other messages that change the settings in memory.
MibSet ==
    /\ version < MaxVersion
    /\ Call("idle")
    /\ version' = version + 1
    /\ mem' = [mem EXCEPT !["configd"] = version + 1]
    /\ UNCHANGED <<rpc, deferred, late, crashes, faults, tools>>

\* cfg_mib_update() with commitnow.
UpdateNow == Call("lock") /\ UNCHANGED <<mem, rpc, deferred, late, bounds>>

\* mib_update() of the current settings: systemd is asked to commit some
\* time later, and the caller is told that it succeeded.  An update of
\* settings that are on flash already changes nothing and is left out.
UpdateLater ==
    /\ pc["configd"] \notin {"off", "dead"}
    /\ mem["configd"] # committed
    /\ deferred' = TRUE
    /\ late' = (rpc \in {"wait", "flushed"})
    /\ UNCHANGED <<files, procs, rpc, committed, hurt, bounds>>

\* cfg_mib_reload(): settings that were not saved are dropped.
Reload ==
    /\ Call("load")
    /\ deferred' = FALSE /\ late' = FALSE
    /\ UNCHANGED <<mem, rpc, bounds>>

\* cfg_mib_to_default() and cfg_mib_flash_to_default().
ToDefault(l) ==
    /\ Call(l)
    /\ mem' = [mem EXCEPT !["configd"] = 0]
    /\ UNCHANGED <<rpc, deferred, late, bounds>>

\* cfg_reboot() starts the thread of sysReboot(), once.  Whether a reset
\* follows, reboot_now, is left open: Reset may be taken or not, and updates
\* may commit at once or later at any time.
RebootCmd ==
    /\ rpc = "none"
    /\ Call("idle")
    /\ rpc' = "commit"
    /\ UNCHANGED <<mem, deferred, late, bounds>>

\* Broken form of RebootCommit: nothing is saved before the reset.
RebootCommitSkipped ==
    /\ rpc = "commit"
    /\ Call("idle")
    /\ rpc' = "wait"
    /\ UNCHANGED <<mem, deferred, late, bounds>>

\* system("mib commit cs now") and its end, whatever it returns.
RebootCommit ==
    /\ rpc = "commit"
    /\ Call("lock")
    /\ rpc' = "wait"
    /\ UNCHANGED <<mem, deferred, late, bounds>>

RebootFlushed ==
    /\ rpc = "wait" /\ pc["configd"] = "idle"
    /\ rpc' = "flushed"
    /\ UNCHANGED <<files, procs, hist, bounds>>

-----------------------------------------------------------------------------
(* The flash command                                                       *)

ToolStart ==
    /\ tools < MaxTool
    /\ pc["flash"] = "off" /\ pc["configd"] # "off"
    /\ tools' = tools + 1
    /\ cmd' \in {"get", "set", "default", "clear"}
    /\ Goto("flash", "load")
    /\ ret' = [ret EXCEPT !["flash"] = "bakcheck"]
    /\ UNCHANGED <<files, mem, fd, src, empty, rpc, hist,
                   version, crashes, faults>>

\* The command itself, once mib_init() is through.
ToolCommand ==
    /\ pc["flash"] = "command"
    /\ \/ /\ cmd = "get"
          /\ Goto("flash", "off")
          /\ UNCHANGED <<dir, ret, mem, hurt, version>>
       \/ /\ cmd = "set" /\ version < MaxVersion
          /\ version' = version + 1
          /\ mem' = [mem EXCEPT !["flash"] = version + 1]
          /\ ret' = [ret EXCEPT !["flash"] = "off"]
          /\ Goto("flash", "lock") /\ UNCHANGED <<dir, hurt>>
       \/ /\ cmd = "default"
          /\ mem' = [mem EXCEPT !["flash"] = 0]
          /\ ret' = [ret EXCEPT !["flash"] = "reload"]
          /\ Goto("flash", "lock") /\ UNCHANGED <<dir, hurt, version>>
       \/ /\ cmd = "clear"
          /\ dir' = [dir EXCEPT !["save"] = NoFile]
          /\ hurt' = hurt \cup {"clear"}
          /\ Goto("flash", "off") /\ UNCHANGED <<ret, mem, version>>
    /\ UNCHANGED <<data, tmp, lock, fd, src, empty, cmd, rpc, deferred,
                   late, committed, crashes, faults, tools>>

\* default_func() has configd read the new file, then makes the backup.
ToolReload ==
    /\ pc["flash"] = "reload" /\ pc["configd"] = "idle"
    /\ pc' = [pc EXCEPT !["flash"] = "wait", !["configd"] = "load"]
    /\ ret' = [ret EXCEPT !["configd"] = "idle"]
    /\ deferred' = FALSE /\ late' = FALSE
    /\ UNCHANGED <<files, mem, fd, src, empty, cmd, rpc, committed, hurt,
                   bounds>>

ToolReloaded ==
    /\ \/ pc["flash"] = "wait" /\ pc["configd"] = "idle"
       \/ pc["flash"] = "reload" /\ pc["configd"] = "dead"
    /\ Goto("flash", "bakcopy")
    /\ UNCHANGED <<files, ret, mem, fd, src, empty, cmd, rpc, hist, bounds>>

-----------------------------------------------------------------------------
(* Power                                                                   *)

PowerDown ==
    /\ data' = [i \in Inodes |->
                  IF \E n \in DOMAIN dir : dir[n] = i THEN data[i] ELSE Part]
    /\ tmp' = -2 /\ lock' = NoProc
    /\ pc' = [p \in Procs |-> "off"] /\ ret' = [p \in Procs |-> "off"]
    /\ mem' = [p \in Procs |-> 0]
    /\ fd' = [p \in Procs |-> NoFile] /\ src' = [p \in Procs |-> Part]
    /\ empty' = [p \in Procs |-> FALSE]
    /\ cmd' = "get" /\ rpc' = "none"
    /\ deferred' = FALSE /\ late' = FALSE
    /\ committed' = Recover
    /\ UNCHANGED <<dir, hurt, version, faults, tools>>

Crash ==
    /\ crashes < MaxCrash /\ pc["configd"] # "off"
    /\ crashes' = crashes + 1
    /\ PowerDown

\* The end of sysReboot(): the reset line, then reboot().
Reset ==
    /\ rpc = "flushed"
    /\ PowerDown
    /\ UNCHANGED crashes

Next ==
    \/ \E p \in Procs : Step(p)
    \/ Boot \/ MibSet \/ UpdateNow \/ UpdateLater \/ Reload
    \/ \E l \in {"idle", "lock"} : ToDefault(l)
    \/ RebootCmd \/ RebootCommit \/ RebootFlushed
    \/ ToolStart \/ ToolCommand \/ ToolReload \/ ToolReloaded
    \/ Crash \/ Reset

Spec == Init /\ [][Next]_vars

-----------------------------------------------------------------------------
(* Properties                                                              *)

(***************************************************************************)
(* CrashConsistent: at every instant, inside a save or a repair too, a     *)
(* power failure leaves the settings last saved or those being saved, as   *)
(* long as no write has failed, config.xml was not unlinked, and no repair *)
(* ran beside another process that uses the files.                         *)
(***************************************************************************)
CrashConsistent ==
    hurt \subseteq {"error"} =>
        Recover \in {committed} \cup {mem[p] : p \in {q \in Procs :
                                            pc[q] \in Saving}}

(***************************************************************************)
(* RebootFlushes: an orderly reboot loses no update whose caller was told  *)
(* that it succeeded, unless it was told so after the commit of            *)
(* sysReboot() or the commit failed.                                       *)
(***************************************************************************)
RebootFlushes ==
    [][rpc = "flushed" /\ rpc' = "none" /\ hurt = {} /\ deferred
          => late]_vars

=============================================================================
