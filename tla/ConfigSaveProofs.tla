-------------------------- MODULE ConfigSaveProofs --------------------------
(***************************************************************************)
(* Theorems about ConfigSave: its types, that a power failure at any       *)
(* instant leaves the settings last saved or those being saved, and that   *)
(* an orderly reboot flushes the updates it was told of.  They hold for    *)
(* any number of inodes from four on, and any number of changes, failing   *)
(* calls, runs of the flash command and power failures.                    *)
(***************************************************************************)
EXTENDS ConfigSave, TLAPS

\* The steps of _mib_load(), and those before its file is known to be whole.
Loading == {"load", "restore", "restoring", "read"}
Unloaded == {"off", "load", "restore", "restoring"}

\* The lock file is held by the process that is inside a save, and by no
\* other.
LockHeld == \A p \in Procs : pc[p] \in Saving <=> lock = p

\* What the place of a process says of the rest of its state.
Control ==
    /\ \A p \in Procs :
         /\ pc[p] \in Loading => ret[p] \in {"idle", "bakcheck"}
         /\ pc[p] \notin {"restoring", "bakcopying", "moving"}
              => fd[p] = NoFile
         /\ pc[p] \in {"write", "backup", "move", "moving"} => tmp # -2
         /\ pc[p] = "restore" => dir["bak"] # NoFile
    /\ dir["save"] = NoFile \/ dir["save"] # dir["bak"]

Base == TypeOK /\ LockHeld /\ Control

\* No write has failed, config.xml was not unlinked and no repair has raced:
\* the premise of CrashConsistent.
Unhurt == hurt \subseteq {"error"}

\* The backup is never the better file.
Clean == Whole("save") \/ ~Whole("bak")

\* A boot would load the settings last saved, or at the end of a save those
\* that it wrote.
RecoverInv ==
    /\ (\A p \in Procs : pc[p] # "sync") => Recover = committed
    /\ \A p \in Procs : pc[p] = "sync" =>
         Whole("save") /\ data[dir["save"]] = mem[p]

\* Once a process has loaded the settings the backup is the better file only
\* while a save moves the new file in place.
LoadedInv ==
    (\E p \in Procs : pc[p] \notin Unloaded) =>
        Clean \/ \E q \in Procs : pc[q] \in {"move", "moving"}

\* A repair writes the whole backup over a broken config.xml, alone.
Restores(p) ==
    /\ pc[p] \in {"restore", "restoring"} => Whole("bak")
    /\ pc[p] = "restoring" =>
         /\ \A q \in Others(p) : pc[q] \in {"off", "load", "restore"}
         /\ src[p] = data[dir["bak"]]
         /\ fd[p] = dir["save"] /\ dir["save"] # NoFile /\ ~Whole("save")

\* A copy of config.xml to a backup that was broken: it does not make the
\* backup the better file.
Backs(p) ==
    pc[p] = "bakcopying" =>
        /\ \A q \in Others(p) : pc[q] # "bakcopying"
        /\ fd[p] = dir["bak"] /\ dir["bak"] # NoFile /\ ~Whole("bak")
        /\ Whole("save") \/ src[p] = Part

\* A save has its settings in the temporary file before config.xml is
\* renamed, and writes a file that was not there.
Saves(p) ==
    /\ pc[p] \in {"backup", "move", "moving"} => tmp = mem[p]
    /\ pc[p] = "move" \/ (pc[p] = "write" /\ empty[p]) => ~Whole("save")
    /\ pc[p] = "moving" => /\ fd[p] = dir["save"] /\ dir["save"] # NoFile
                           /\ ~Whole("save")

FlashInv ==
    Unhurt => /\ RecoverInv /\ LoadedInv
              /\ \A p \in Procs : Restores(p) /\ Backs(p) /\ Saves(p)

\* Until sysReboot() has waited for its commit, an update that was answered
\* before has a save to come.
FlushInv ==
    hurt = {} /\ deferred /\ ~late =>
        \/ rpc \in {"none", "commit"}
        \/ rpc = "wait" /\ pc["configd"] \in {"lock"} \cup Saving

\* The bounds are numbers.
LEMMA BoundsType ==
    /\ NInodes \in Nat /\ NInodes >= 4
    /\ MaxVersion \in Nat /\ MaxCrash \in Nat /\ MaxFault \in Nat
    /\ MaxTool \in Nat
BY BoundsAssumption

\* An open finds an inode no name and no running copy uses: three of the
\* four at most are taken.
LEMMA FreeInodeFree ==
    ASSUME Base, NEW p \in Procs, fd[p] = NoFile
    PROVE  /\ FreeInode \in Inodes /\ FreeInode # NoFile
           /\ FreeInode # dir["save"] /\ FreeInode # dir["bak"]
           /\ \A q \in Procs : fd[q] # FreeInode
<1> DEFINE Free(i) == /\ \A n \in DOMAIN dir : dir[n] # i
                      /\ \A q \in Procs : fd[q] # i
<1>1. {1, 2, 3, 4} \subseteq Inodes /\ NoFile \notin Inodes
  BY BoundsType DEF Inodes, NoFile
<1>2. DOMAIN dir = {"save", "bak"}
  BY DEF Base, TypeOK
<1>3. \E i \in {1, 2, 3, 4} : Free(i)
  <2>1. PICK q \in Procs : Procs = {p, q}
    BY DEF Procs
  <2>2. \E i \in {1, 2, 3, 4} : i # dir["save"] /\ i # dir["bak"] /\ i # fd[q]
    OBVIOUS
  <2> QED BY <2>1, <2>2, <1>2, <1>1
<1>4. FreeInode \in Inodes /\ Free(FreeInode)
  BY <1>1, <1>3 DEF FreeInode
<1> QED BY <1>1, <1>2, <1>4

\* The router starts with no file and no process.
LEMMA InitBase == Init => Base
<1> SUFFICES ASSUME Init
             PROVE  Base
  OBVIOUS
<1>1. TypeOK
  <2>1. /\ dir \in [{"save", "bak"} -> Inodes \cup {NoFile}]
        /\ data \in [Inodes -> Versions \cup {Part}]
        /\ tmp \in Versions \cup {Part, -2}
        /\ lock \in Procs \cup {NoProc}
    BY DEF Init
  <2>2. /\ pc \in [Procs -> Saving \cup Copying \cup Resting \cup
                 {"load", "read", "lock", "bakcheck", "reload", "wait"}]
        /\ fd \in [Procs -> Inodes \cup {NoFile}]
        /\ src \in [Procs -> Versions \cup {Part}]
    BY DEF Init, Resting
  <2>3. /\ 0 \in Versions
        /\ crashes \in 0..MaxCrash /\ faults \in 0..MaxFault
        /\ tools \in 0..MaxTool
    BY BoundsType DEF Init, Versions
  <2>4. empty \in [Procs -> BOOLEAN]
    BY Zenon DEF Init
  <2> QED BY <2>1, <2>2, <2>3, <2>4 DEF Init, TypeOK
<1>2. LockHeld
  BY DEF Init, LockHeld, Saving, Procs, NoProc
<1>3. Control
  BY DEF Init, Control, Loading
<1> QED BY <1>1, <1>2, <1>3 DEF Base

\* A failing call counts against its bound and names its cause.
LEMMA FaultType ==
    ASSUME TypeOK, NEW c \in {"fault", "error"}, NoFault \/ Fault(c)
    PROVE  /\ hurt' \subseteq {"fault", "error", "race", "clear"}
           /\ version' \in Versions /\ crashes' \in 0..MaxCrash
           /\ faults' \in 0..MaxFault /\ tools' \in 0..MaxTool
<1>1. CASE NoFault
  BY <1>1 DEF TypeOK, NoFault, bounds
<1>2. CASE Fault(c)
  <2>1. faults \in 0..MaxFault /\ faults < MaxFault /\ faults' = faults + 1
    BY <1>2 DEF TypeOK, Fault
  <2>2. faults' \in 0..MaxFault
    BY <2>1, BoundsType
  <2> QED BY <1>2, <2>2 DEF TypeOK, Fault
<1> QED BY <1>1, <1>2

\* Every step of _mib_load(), _save_xml_file() and the copies of the backup
\* keeps the types, the lock and the control state.
LEMMA StepBase ==
    ASSUME Base, NEW p \in Procs, Step(p)
    PROVE  Base'
<1> USE BoundsType DEF Base, TypeOK, LockHeld, Control, NoProc, Saving,
                       Copying, Resting, Loading, files, procs, hist, bounds,
                       Goto, NoFault, Fault, Procs, NoFile, Part, Versions
<1>0. /\ {0} \subseteq Versions /\ NoFile \notin Inodes
  BY DEF Inodes
<1>1. CASE Load(p)
  <2>1. PICK l \in {"restore", "read"} :
           /\ pc' = [pc EXCEPT ![p] = l]
           /\ l = "restore" => dir["bak"] # NoFile
    BY <1>1 DEF Load, Whole
  <2>2. /\ mem' = [mem EXCEPT ![p] = 0]
        /\ UNCHANGED <<files, ret, fd, src, empty, cmd, rpc, hist, bounds>>
    BY <1>1 DEF Load
  <2>3. TypeOK'
    BY <1>0, <2>1, <2>2
  <2> QED BY <1>1, <2>1, <2>2, <2>3 DEF Load
<1>2. CASE RestoreOpen(p)
  <2> DEFINE i == IF dir["save"] = NoFile THEN FreeInode ELSE dir["save"]
  <2>1. fd[p] = NoFile /\ dir["bak"] \in Inodes
    BY <1>2 DEF RestoreOpen
  <2>2. i \in Inodes /\ i # NoFile /\ i # dir["bak"]
    BY <2>1, FreeInodeFree
  <2> HIDE DEF i
  <2>3. /\ dir' = [dir EXCEPT !["save"] = i]
        /\ data' = [data EXCEPT ![i] = Part]
        /\ fd' = [fd EXCEPT ![p] = i]
        /\ src' = [src EXCEPT ![p] = data[dir["bak"]]]
        /\ pc' = [pc EXCEPT ![p] = "restoring"]
        /\ hurt' \subseteq hurt \cup {"race"}
    BY <1>2 DEF RestoreOpen, CopyOpen, i
  <2>4. UNCHANGED <<tmp, lock, ret, mem, empty, cmd, rpc,
                   deferred, late, committed, bounds>>
    BY <1>2 DEF RestoreOpen
  <2>5. TypeOK'
    <3>1. /\ dir' \in [{"save", "bak"} -> Inodes \cup {NoFile}]
          /\ data' \in [Inodes -> Versions \cup {Part}]
          /\ fd' \in [Procs -> Inodes \cup {NoFile}]
          /\ src' \in [Procs -> Versions \cup {Part}]
      BY <2>1, <2>2, <2>3
    <3>2. /\ pc' \in [Procs -> Saving \cup Copying \cup Resting \cup
                 {"load", "read", "lock", "bakcheck", "reload", "wait"}]
          /\ hurt' \subseteq {"fault", "error", "race", "clear"}
      BY <2>3
    <3> QED BY <2>4, <3>1, <3>2
  <2> QED BY <1>2, <2>1, <2>2, <2>3, <2>4, <2>5 DEF RestoreOpen
<1>3. CASE RestoreCopy(p)
  <2>1. /\ data' = data \/ data' = [data EXCEPT ![fd[p]] = src[p]]
        /\ fd' = [fd EXCEPT ![p] = NoFile]
        /\ src' = [src EXCEPT ![p] = Part]
        /\ NoFault \/ Fault("fault")
        /\ UNCHANGED <<dir, tmp, lock, ret, mem, empty, cmd, rpc,
                       deferred, late, committed>>
    BY <1>3 DEF RestoreCopy, CopyEnd
  <2>2. pc' = [pc EXCEPT ![p] = "read"]
    BY <1>3 DEF RestoreCopy, CopyEnd, Ready
  <2>3. TypeOK'
    <3>1. data' \in [Inodes -> Versions \cup {Part}]
      BY <2>1
    <3> QED BY <2>1, <2>2, <3>1, FaultType
  <2> QED BY <1>3, <2>1, <2>2, <2>3 DEF RestoreCopy
<1>4. CASE Read(p)
  <2>1. UNCHANGED <<files, fd, src, empty, cmd, rpc, hist, bounds>>
    BY <1>4 DEF Read
  <2>2. /\ mem' \in [Procs -> Versions]
        /\ \E l \in {"idle", "bakcheck", "lock"} : pc' = [pc EXCEPT ![p] = l]
        /\ \/ ret' = ret
           \/ ret' = [ret EXCEPT ![p] = "idle"]
           \/ ret' = [ret EXCEPT ![p] = "default"]
    BY <1>4, <1>0 DEF Read, Whole
  <2>3. TypeOK'
    BY <2>1, <2>2
  <2> QED BY <1>4, <2>1, <2>2, <2>3 DEF Read
<1>5. CASE SaveLock(p)
  BY <1>5 DEF SaveLock
<1>6. CASE SaveOpen(p)
  BY <1>6, FreeInodeFree DEF SaveOpen
<1>7. CASE SaveError(p)
  BY <1>7 DEF SaveError
<1>8. CASE SaveWrite(p)
  <2>1. UNCHANGED <<dir, data, lock, ret, mem, fd, src, empty, cmd, rpc,
                   deferred, late, committed>>
    BY <1>8 DEF SaveWrite
  <2>2. /\ tmp' \in Versions \cup {Part}
        /\ NoFault \/ Fault("fault")
    BY <1>8 DEF SaveWrite
  <2>3. PICK l \in {"move", "backup"} : pc' = [pc EXCEPT ![p] = l]
    BY <1>8 DEF SaveWrite
  <2>4. TypeOK'
    BY <2>1, <2>2, <2>3, FaultType
  <2> QED BY <1>8, <2>1, <2>2, <2>3, <2>4 DEF SaveWrite
<1>9. CASE SaveBackup(p)
  BY <1>9 DEF SaveBackup, NoteRace
<1>10. CASE MoveOpen(p)
  <2>1. fd[p] = NoFile
    BY <1>10 DEF MoveOpen
  <2>2. PICK i \in Inodes : i = FreeInode /\ i # NoFile /\ i # dir["bak"]
    BY <2>1, FreeInodeFree
  <2>3. /\ dir' = [dir EXCEPT !["save"] = i]
        /\ data' = [data EXCEPT ![i] = Part]
        /\ fd' = [fd EXCEPT ![p] = i]
        /\ pc' = [pc EXCEPT ![p] = "moving"]
    BY <1>10, <2>2 DEF MoveOpen
  <2>4. UNCHANGED <<tmp, lock, ret, mem, src, empty, cmd, rpc, hist, bounds>>
    BY <1>10 DEF MoveOpen
  <2>5. TypeOK'
    BY <2>2, <2>3, <2>4
  <2> QED BY <1>10, <2>1, <2>2, <2>3, <2>4, <2>5 DEF MoveOpen
<1>11. CASE MoveCopy(p)
  <2>1. /\ data' = data \/ data' = [data EXCEPT ![fd[p]] = tmp]
        /\ tmp' = -2
        /\ fd' = [fd EXCEPT ![p] = NoFile]
        /\ pc' = [pc EXCEPT ![p] = "sync"]
        /\ NoFault \/ Fault("fault")
        /\ UNCHANGED <<dir, lock, ret, mem, src, empty, cmd, rpc,
                       deferred, late, committed>>
    BY <1>11 DEF MoveCopy
  <2>2. TypeOK'
    <3>1. data' \in [Inodes -> Versions \cup {Part}]
      BY <1>11, <2>1 DEF MoveCopy
    <3> QED BY <2>1, <3>1, FaultType
  <2> QED BY <1>11, <2>1, <2>2 DEF MoveCopy
<1>12. CASE SaveDone(p)
  BY <1>12 DEF SaveDone
<1>13. CASE BakCheck(p)
  BY <1>13 DEF BakCheck, Ready
<1>14. CASE BakOpen(p)
  <2> DEFINE i == IF dir["bak"] = NoFile THEN FreeInode ELSE dir["bak"]
  <2>1. fd[p] = NoFile /\ dir["save"] \in Inodes
    BY <1>14 DEF BakOpen
  <2>2. i \in Inodes /\ i # NoFile /\ i # dir["save"]
    BY <2>1, FreeInodeFree
  <2> HIDE DEF i
  <2>3. /\ dir' = [dir EXCEPT !["bak"] = i]
        /\ data' = [data EXCEPT ![i] = Part]
        /\ fd' = [fd EXCEPT ![p] = i]
        /\ src' = [src EXCEPT ![p] = data[dir["save"]]]
        /\ pc' = [pc EXCEPT ![p] = "bakcopying"]
        /\ hurt' \subseteq hurt \cup {"race"}
    BY <1>14 DEF BakOpen, CopyOpen, NoteRace, i
  <2>4. UNCHANGED <<tmp, lock, ret, mem, empty, cmd, rpc,
                   deferred, late, committed, bounds>>
    BY <1>14 DEF BakOpen
  <2>5. TypeOK'
    <3>1. /\ dir' \in [{"save", "bak"} -> Inodes \cup {NoFile}]
          /\ data' \in [Inodes -> Versions \cup {Part}]
          /\ fd' \in [Procs -> Inodes \cup {NoFile}]
          /\ src' \in [Procs -> Versions \cup {Part}]
      BY <2>1, <2>2, <2>3
    <3>2. /\ pc' \in [Procs -> Saving \cup Copying \cup Resting \cup
                 {"load", "read", "lock", "bakcheck", "reload", "wait"}]
          /\ hurt' \subseteq {"fault", "error", "race", "clear"}
      BY <2>3
    <3> QED BY <2>4, <3>1, <3>2
  <2> QED BY <1>14, <2>1, <2>2, <2>3, <2>4, <2>5 DEF BakOpen
<1>15. CASE BakSkip(p)
  BY <1>15 DEF BakSkip, Ready
<1>16. CASE BakCopy(p)
  <2>1. /\ data' = data \/ data' = [data EXCEPT ![fd[p]] = src[p]]
        /\ fd' = [fd EXCEPT ![p] = NoFile]
        /\ src' = [src EXCEPT ![p] = Part]
        /\ NoFault \/ Fault("fault")
        /\ UNCHANGED <<dir, tmp, lock, ret, mem, empty, cmd, rpc,
                       deferred, late, committed>>
    BY <1>16 DEF BakCopy, CopyEnd
  <2>2. PICK l \in {"off", "idle", "command"} : pc' = [pc EXCEPT ![p] = l]
    BY <1>16 DEF BakCopy, CopyEnd, Ready
  <2>3. TypeOK'
    <3>1. data' \in [Inodes -> Versions \cup {Part}]
      BY <2>1
    <3> QED BY <2>1, <2>2, <3>1, FaultType
  <2> QED BY <1>16, <2>1, <2>2, <2>3 DEF BakCopy
<1> QED BY <1>1, <1>2, <1>3, <1>4, <1>5, <1>6, <1>7, <1>8, <1>9, <1>10,
           <1>11, <1>12, <1>13, <1>14, <1>15, <1>16
        DEF Step

\* So do the messages to configd, the flash command and a loss of power.
LEMMA OtherBase ==
    ASSUME Base,
           \/ Boot \/ MibSet \/ UpdateNow \/ UpdateLater \/ Reload
           \/ \E l \in {"idle", "lock"} : ToDefault(l)
           \/ RebootCmd \/ RebootCommit \/ RebootFlushed
           \/ ToolStart \/ ToolCommand \/ ToolReload \/ ToolReloaded
           \/ Crash \/ Reset
    PROVE  Base'
<1> USE BoundsType DEF Base, TypeOK, LockHeld, Control, NoProc, Saving,
                       Copying, Resting, Loading, files, procs, hist, bounds,
                       Goto, Procs, NoFile, Part
<1>0. 0 \in Versions
  BY DEF Versions
<1>1. CASE Boot
  BY <1>1 DEF Boot
<1>2. CASE MibSet
  BY <1>2 DEF MibSet, Call, Versions
<1>3. CASE UpdateNow
  BY <1>3 DEF UpdateNow, Call
<1>4. CASE UpdateLater
  BY <1>4 DEF UpdateLater
<1>5. CASE Reload
  BY <1>5 DEF Reload, Call
<1>6. CASE \E l \in {"idle", "lock"} : ToDefault(l)
  BY <1>0, <1>6 DEF ToDefault, Call
<1>7. CASE RebootCmd \/ RebootCommit
  <2>1. CASE RebootCmd
    BY <2>1 DEF RebootCmd, Call
  <2>2. CASE RebootCommit
    BY <2>2 DEF RebootCommit, Call
  <2> QED BY <1>7, <2>1, <2>2
<1>8. CASE RebootFlushed
  BY <1>8 DEF RebootFlushed
<1>9. CASE ToolStart
  BY <1>9 DEF ToolStart
<1>10. CASE ToolCommand
  <2>1. UNCHANGED <<data, tmp, lock, fd, src, empty, cmd, rpc, deferred,
                   late, committed, crashes, faults, tools>>
    BY <1>10 DEF ToolCommand
  <2>2. PICK l \in {"off", "lock"} : pc' = [pc EXCEPT !["flash"] = l]
    BY <1>10 DEF ToolCommand
  <2>3. /\ ret' \in [Procs -> {"idle", "bakcheck", "default", "command",
                                "reload", "off"}]
        /\ ret'["configd"] = ret["configd"]
        /\ mem' \in [Procs -> Versions] /\ version' \in Versions
        /\ hurt' \subseteq {"fault", "error", "race", "clear"}
        /\ dir' = dir \/ dir' = [dir EXCEPT !["save"] = NoFile]
    <3>1. CASE cmd \in {"get", "clear"}
      BY <1>10, <3>1 DEF ToolCommand
    <3>2. CASE cmd = "set"
      <4>1. version + 1 \in Versions
        BY <1>10, <3>2 DEF ToolCommand, Versions
      <4>2. /\ mem' = [mem EXCEPT !["flash"] = version + 1]
            /\ ret' = [ret EXCEPT !["flash"] = "off"]
            /\ version' = version + 1 /\ dir' = dir /\ hurt' = hurt
        BY <1>10, <3>2 DEF ToolCommand
      <4> QED BY <4>1, <4>2
    <3>3. CASE cmd = "default"
      <4>1. /\ mem' = [mem EXCEPT !["flash"] = 0]
            /\ ret' = [ret EXCEPT !["flash"] = "reload"]
            /\ version' = version /\ dir' = dir /\ hurt' = hurt
        BY <1>10, <3>3 DEF ToolCommand
      <4> QED BY <1>0, <4>1
    <3> QED BY <3>1, <3>2, <3>3
  <2>4. TypeOK'
    BY <2>1, <2>2, <2>3
  <2> QED BY <1>10, <2>1, <2>2, <2>3, <2>4 DEF ToolCommand
<1>11. CASE ToolReload
  BY <1>11 DEF ToolReload
<1>12. CASE ToolReloaded
  BY <1>12 DEF ToolReloaded
<1>13. ASSUME PowerDown, crashes' \in 0..MaxCrash
       PROVE  Base'
  <2>1. data' \in [Inodes -> Versions \cup {Part}]
    BY <1>13 DEF PowerDown
  <2>2. /\ dir' = dir /\ tmp' = -2 /\ lock' = NoProc
        /\ pc' = [q \in Procs |-> "off"] /\ ret' = [q \in Procs |-> "off"]
        /\ mem' = [q \in Procs |-> 0] /\ fd' = [q \in Procs |-> NoFile]
        /\ src' = [q \in Procs |-> Part]
    BY <1>13 DEF PowerDown
  <2>3. empty' = [q \in Procs |-> FALSE]
    BY <1>13 DEF PowerDown
  <2>4. empty' \in [Procs -> BOOLEAN]
    BY ONLY <2>3, Zenon
  <2>5. /\ cmd' = "get" /\ rpc' = "none"
        /\ deferred' = FALSE /\ late' = FALSE
        /\ committed' = Recover
        /\ UNCHANGED <<hurt, version, faults, tools>>
    BY <1>13 DEF PowerDown
  <2>6. Recover \in Versions
    BY <1>0 DEF Recover, Whole
  <2>7. TypeOK'
    <3>1. /\ mem' \in [Procs -> Versions]
          /\ fd' \in [Procs -> Inodes \cup {NoFile}]
          /\ src' \in [Procs -> Versions \cup {Part}]
      BY <1>0, <2>2
    <3>2. pc' \in [Procs -> Saving \cup Copying \cup Resting \cup
                 {"load", "read", "lock", "bakcheck", "reload", "wait"}]
      BY <2>2
    <3>3. ret' \in [Procs -> {"idle", "bakcheck", "default", "command",
                                "reload", "off"}]
      BY <2>2
    <3>4. tmp' \in Versions \cup {Part, -2} /\ lock' \in Procs \cup {NoProc}
      BY <2>2
    <3> QED BY <1>13, <2>1, <2>2, <2>4, <2>5, <2>6, <3>1, <3>2, <3>3, <3>4
  <2>8. LockHeld' /\ Control'
    BY <2>2
  <2> QED BY <2>7, <2>8
<1>14. CASE Crash
  BY <1>13, <1>14 DEF Crash
<1>15. CASE Reset
  BY <1>13, <1>15 DEF Reset
<1> QED BY <1>1, <1>2, <1>3, <1>4, <1>5, <1>6, <1>7, <1>8, <1>9, <1>10, <1>11,
           <1>12, <1>14, <1>15

\* The types, the lock and the control state are inductive by themselves.
LEMMA NextBase == Base /\ [Next]_vars => Base'
<1>1. Base /\ Next => Base'
  BY StepBase, OtherBase DEF Next
<1>2. Base /\ UNCHANGED vars => Base'
  BY DEF Base, TypeOK, LockHeld, Control, vars, files, procs, hist, bounds
<1> QED BY <1>1, <1>2

(***************************************************************************)
(* TypeCorrect: the types are kept, with any number of failing calls and   *)
(* races; so an open always finds a free inode, and the temporary file is  *)
(* there when it is moved.                                                 *)
(***************************************************************************)
THEOREM TypeCorrect == Spec => []TypeOK
<1>1. Base => TypeOK
  BY DEF Base
<1> QED BY <1>1, InitBase, NextBase, PTL DEF Spec

\* The save that sysReboot() asked for ends in SaveDone(), which clears
\* deferred, or in SaveError(), which is a cause of loss.
LEMMA FlushStep ==
    ASSUME Base, FlushInv, Next
    PROVE  FlushInv'
<1> SUFFICES ASSUME (hurt = {})', deferred', ~late'
             PROVE  \/ rpc' \in {"none", "commit"}
                    \/ rpc' = "wait" /\ pc'["configd"] \in {"lock"} \cup Saving
  BY DEF FlushInv
<1> USE DEF Base, TypeOK, FlushInv, files, procs, hist, bounds, Goto, NoFault,
            Fault, Saving, Procs
<1>1. ASSUME NEW p \in Procs, Step(p)
      PROVE  \/ rpc' \in {"none", "commit"}
             \/ rpc' = "wait" /\ pc'["configd"] \in {"lock"} \cup Saving
  <2>1. CASE Load(p)
    BY <2>1 DEF Load, Readable
  <2>2. CASE RestoreOpen(p)
    BY <2>2 DEF RestoreOpen, CopyOpen
  <2>3. CASE RestoreCopy(p)
    BY <2>3 DEF RestoreCopy, CopyEnd
  <2>4. CASE Read(p)
    BY <2>4 DEF Read, Readable
  <2>5. CASE SaveLock(p)
    BY <2>5 DEF SaveLock
  <2>6. CASE SaveOpen(p)
    BY <2>6 DEF SaveOpen
  <2>7. CASE SaveError(p)
    BY <2>7 DEF SaveError
  <2>8. CASE SaveWrite(p)
    BY <2>8 DEF SaveWrite
  <2>9. CASE SaveBackup(p)
    BY <2>9 DEF SaveBackup, NoteRace
  <2>10. CASE MoveOpen(p)
    BY <2>10 DEF MoveOpen
  <2>11. CASE MoveCopy(p)
    BY <2>11 DEF MoveCopy
  <2>12. CASE SaveDone(p)
    BY <2>12 DEF SaveDone
  <2>13. CASE BakCheck(p)
    BY <2>13 DEF BakCheck, Ready
  <2>14. CASE BakOpen(p)
    BY <2>14 DEF BakOpen, CopyOpen, NoteRace
  <2>15. CASE BakSkip(p)
    BY <2>15 DEF BakSkip, Ready
  <2>16. CASE BakCopy(p)
    BY <2>16 DEF BakCopy, CopyEnd, Ready
  <2> QED BY <1>1, <2>1, <2>2, <2>3, <2>4, <2>5, <2>6, <2>7, <2>8, <2>9,
             <2>10, <2>11, <2>12, <2>13, <2>14, <2>15, <2>16
          DEF Step
<1>2. CASE Boot
  BY <1>2 DEF Boot
<1>3. CASE MibSet
  BY <1>3 DEF MibSet, Call
<1>4. CASE UpdateNow
  BY <1>4 DEF UpdateNow, Call
<1>5. CASE UpdateLater
  BY <1>5 DEF UpdateLater
<1>6. CASE Reload
  BY <1>6 DEF Reload, Call
<1>7. CASE \E l \in {"idle", "lock"} : ToDefault(l)
  BY <1>7 DEF ToDefault, Call
<1>8. CASE RebootCmd
  BY <1>8 DEF RebootCmd, Call
<1>9. CASE RebootCommit
  BY <1>9 DEF RebootCommit, Call
<1>10. CASE RebootFlushed
  BY <1>10 DEF RebootFlushed
<1>11. CASE ToolStart
  BY <1>11 DEF ToolStart
<1>12. CASE ToolCommand
  BY <1>12 DEF ToolCommand
<1>13. CASE ToolReload
  BY <1>13 DEF ToolReload
<1>14. CASE ToolReloaded
  BY <1>14 DEF ToolReloaded
<1>15. CASE Crash
  BY <1>15 DEF Crash, PowerDown
<1>16. CASE Reset
  BY <1>16 DEF Reset, PowerDown
<1> QED BY <1>1, <1>2, <1>3, <1>4, <1>5, <1>6, <1>7, <1>8, <1>9, <1>10,
           <1>11, <1>12, <1>13, <1>14, <1>15, <1>16
        DEF Next

\* A step of either process keeps what a boot would load.  The opens of the
\* three copies that take no lock, and the rename, note the race that would
\* break it.
LEMMA FlashStep ==
    ASSUME Base, FlashInv, NEW p \in Procs, Step(p)
    PROVE  FlashInv'
<1> USE DEF Base, TypeOK, LockHeld, Control, NoProc, Saving, Copying, Resting,
            Loading, files, procs, hist, bounds, Goto, NoFault, Fault, Procs,
            NoFile, Part, FlashInv, Unhurt, Clean, RecoverInv, LoadedInv,
            Restores, Backs, Saves, Whole, Recover, Others, Unloaded
<1>1. CASE Load(p)
  BY <1>1 DEF Load, Readable
<1>2. CASE RestoreOpen(p)
  BY <1>2, FreeInodeFree DEF RestoreOpen, CopyOpen
<1>3. CASE RestoreCopy(p)
  BY <1>3 DEF RestoreCopy, CopyEnd
<1>4. CASE Read(p)
  BY <1>4 DEF Read, Readable
<1>5. CASE SaveLock(p)
  BY <1>5 DEF SaveLock
<1>6. CASE SaveOpen(p)
  <2>1. fd[p] = NoFile
    BY <1>6 DEF SaveOpen
  <2>2. PICK i \in Inodes : i = FreeInode /\ i # NoFile /\ i # dir["bak"]
    BY <2>1, FreeInodeFree
  <2>3. CASE dir["save"] = NoFile
    <3>1. /\ dir' = [dir EXCEPT !["save"] = i]
          /\ data' = [data EXCEPT ![i] = Part]
          /\ pc' = [pc EXCEPT ![p] = "write"]
          /\ UNCHANGED <<lock, ret, mem, fd, src, cmd, rpc, hist, bounds>>
      BY <1>6, <2>2, <2>3 DEF SaveOpen
    <3> QED BY <1>6, <2>1, <2>2, <2>3, <3>1 DEF SaveOpen
  <2>4. CASE dir["save"] # NoFile
    <3>1. /\ dir' = dir /\ data' = data
          /\ empty' = [empty EXCEPT ![p] = FALSE]
          /\ pc' = [pc EXCEPT ![p] = "write"]
          /\ UNCHANGED <<lock, ret, mem, fd, src, cmd, rpc, hist, bounds>>
      BY <1>6, <2>4 DEF SaveOpen
    <3> QED BY <1>6, <2>4, <3>1 DEF SaveOpen
  <2> QED BY <2>3, <2>4
<1>7. CASE SaveError(p)
  BY <1>7 DEF SaveError
<1>8. CASE SaveWrite(p)
  BY <1>8 DEF SaveWrite
<1>9. CASE SaveBackup(p)
  BY <1>9 DEF SaveBackup, NoteRace
<1>10. CASE MoveOpen(p)
  BY <1>10, FreeInodeFree DEF MoveOpen
<1>11. CASE MoveCopy(p)
  <2> SUFFICES ASSUME Unhurt'
               PROVE  FlashInv'
    OBVIOUS
  <2>1. /\ data' = [data EXCEPT ![fd[p]] = tmp] /\ hurt' = hurt
        /\ fd' = [fd EXCEPT ![p] = NoFile]
        /\ pc' = [pc EXCEPT ![p] = "sync"]
        /\ UNCHANGED <<dir, lock, ret, mem, src, empty, cmd, rpc,
                       deferred, late, committed>>
    BY <1>11 DEF MoveCopy
  <2>2. /\ fd[p] = dir["save"] /\ dir["save"] \in Inodes
        /\ dir["save"] # dir["bak"]
        /\ tmp = mem[p] /\ mem[p] # Part
    BY <1>11, <2>1, BoundsType DEF MoveCopy, Versions
  <2>3. \A q \in Others(p) : pc[q] \notin Saving /\ pc[q] # "restoring"
    BY <1>11, <2>1 DEF MoveCopy
  <2>4. (Whole("save") /\ data[dir["save"]] = mem[p])'
    <3>1. dir' = dir /\ mem' = mem /\ dir["save"] # NoFile
      BY <2>1, <2>2, BoundsType DEF Inodes
    <3>2. data'[dir["save"]] = mem[p]
      BY <2>1, <2>2
    <3> QED BY <2>2, <3>1, <3>2
  <2>5. RecoverInv' /\ LoadedInv'
    BY <2>1, <2>3, <2>4
  <2>6. \A q \in Procs : Restores(q)' /\ Backs(q)' /\ Saves(q)'
    BY <1>11, <2>1, <2>2, <2>3 DEF MoveCopy
  <2> QED BY <2>5, <2>6
<1>12. CASE SaveDone(p)
  BY <1>12 DEF SaveDone
<1>13. CASE BakCheck(p)
  BY <1>13 DEF BakCheck, Ready
<1>14. CASE BakOpen(p)
  BY <1>14, FreeInodeFree DEF BakOpen, CopyOpen, NoteRace
<1>15. CASE BakSkip(p)
  BY <1>15 DEF BakSkip, Ready
<1>16. CASE BakCopy(p)
  <2> SUFFICES ASSUME Unhurt'
               PROVE  FlashInv'
    OBVIOUS
  <2>1. /\ data' = [data EXCEPT ![fd[p]] = src[p]] /\ hurt' = hurt
        /\ fd' = [fd EXCEPT ![p] = NoFile]
        /\ UNCHANGED <<dir, tmp, lock, ret, mem, empty, cmd, rpc,
                       deferred, late, committed>>
    BY <1>16 DEF BakCopy, CopyEnd
  <2>2. PICK l \in {"off", "idle", "command"} : pc' = [pc EXCEPT ![p] = l]
    BY <1>16 DEF BakCopy, CopyEnd, Ready
  <2>3. /\ fd[p] = dir["bak"] /\ dir["bak"] \in Inodes
        /\ dir["save"] # dir["bak"]
        /\ ~Whole("bak") /\ (Whole("save") \/ src[p] = Part)
        /\ Whole("save") => Whole("save")'
        /\ Whole("save")' => /\ Whole("save")
                             /\ data'[dir["save"]] = data[dir["save"]]
    BY <1>16, <2>1 DEF BakCopy
  <2>4. Recover' = Recover
    BY <2>1, <2>3
  <2>5. RecoverInv'
    BY <1>16, <2>1, <2>2, <2>3, <2>4 DEF BakCopy
  <2>6. LoadedInv'
    BY <1>16, <2>1, <2>2, <2>3 DEF BakCopy
  <2>7. \A q \in Procs : Restores(q)' /\ Backs(q)' /\ Saves(q)'
    BY <1>16, <2>1, <2>2, <2>3 DEF BakCopy
  <2> QED BY <2>5, <2>6, <2>7
<1> QED BY <1>1, <1>2, <1>3, <1>4, <1>5, <1>6, <1>7, <1>8, <1>9, <1>10,
           <1>11, <1>12, <1>13, <1>14, <1>15, <1>16
        DEF Step

\* The other steps write no file, but for the unlink of the flash command,
\* which is a cause of loss; a loss of power keeps what a boot would load.
LEMMA FlashOther ==
    ASSUME Base, FlashInv,
           \/ Boot \/ MibSet \/ UpdateNow \/ UpdateLater \/ Reload
           \/ \E l \in {"idle", "lock"} : ToDefault(l)
           \/ RebootCmd \/ RebootCommit \/ RebootFlushed
           \/ ToolStart \/ ToolCommand \/ ToolReload \/ ToolReloaded
           \/ Crash \/ Reset
    PROVE  FlashInv'
<1> USE DEF Base, TypeOK, LockHeld, Control, NoProc, Saving, Copying, Resting,
            Loading, files, procs, hist, bounds, Goto, NoFault, Fault, Procs,
            NoFile, Part, FlashInv, Unhurt, Clean, RecoverInv, LoadedInv,
            Restores, Backs, Saves, Whole, Recover, Others, Unloaded
<1>1. CASE Boot
  BY <1>1 DEF Boot
<1>2. CASE MibSet
  BY <1>2 DEF MibSet, Call
<1>3. CASE UpdateNow
  BY <1>3 DEF UpdateNow, Call
<1>4. CASE UpdateLater
  BY <1>4 DEF UpdateLater
<1>5. CASE Reload
  BY <1>5 DEF Reload, Call
<1>6. CASE \E l \in {"idle", "lock"} : ToDefault(l)
  BY <1>6 DEF ToDefault, Call
<1>7. CASE RebootCmd
  BY <1>7 DEF RebootCmd, Call
<1>8. CASE RebootCommit
  BY <1>8 DEF RebootCommit, Call
<1>9. CASE RebootFlushed
  BY <1>9 DEF RebootFlushed
<1>10. CASE ToolStart
  BY <1>10 DEF ToolStart
<1>11. CASE ToolCommand
  BY <1>11 DEF ToolCommand
<1>12. CASE ToolReload
  BY <1>12 DEF ToolReload
<1>13. CASE ToolReloaded
  BY <1>13 DEF ToolReloaded
<1>14. CASE Crash
  BY <1>14 DEF Crash, PowerDown
<1>15. CASE Reset
  BY <1>15 DEF Reset, PowerDown
<1> QED BY <1>1, <1>2, <1>3, <1>4, <1>5, <1>6, <1>7, <1>8, <1>9, <1>10, <1>11,
           <1>12, <1>13, <1>14, <1>15

\* The next-state relation keeps the whole invariant.
LEMMA Inductive ==
    /\ Init => Base /\ FlashInv /\ FlushInv
    /\ Base /\ FlashInv /\ FlushInv /\ [Next]_vars
          => Base' /\ FlashInv' /\ FlushInv'
<1>1. Init => FlashInv /\ FlushInv
  BY DEF Init, FlashInv, FlushInv, RecoverInv, LoadedInv, Restores, Backs,
         Saves, Recover, Whole, Clean, Unloaded, Procs, NoFile
<1>2. Base /\ FlashInv /\ FlushInv /\ Next => FlashInv' /\ FlushInv'
  BY FlashStep, FlashOther, FlushStep DEF Next
<1>3. FlashInv /\ FlushInv /\ UNCHANGED vars => FlashInv' /\ FlushInv'
  BY DEF FlashInv, FlushInv, RecoverInv, LoadedInv, Restores, Backs, Saves,
         Unhurt, Recover, Whole, Clean, vars, files, procs, hist
<1> QED BY <1>1, <1>2, <1>3, InitBase, NextBase

(***************************************************************************)
(* CrashConsistentHolds: a power failure between any two steps of a save,  *)
(* a repair or a copy of the backup leaves the settings last saved or      *)
(* those being saved, unless a write failed, config.xml was unlinked or a  *)
(* repair raced.                                                           *)
(***************************************************************************)
THEOREM CrashConsistentHolds == Spec => []CrashConsistent
<1>1. Base /\ FlashInv => CrashConsistent
  BY DEF Base, TypeOK, FlashInv, Unhurt, RecoverInv, CrashConsistent, Recover,
         Whole, Saving
<1> QED BY <1>1, Inductive, PTL DEF Spec

(***************************************************************************)
(* RebootFlushesHolds: the reset at the end of sysReboot() finds on flash  *)
(* every update that was answered before its commit.                       *)
(***************************************************************************)
THEOREM RebootFlushesHolds == Spec => RebootFlushes
<1>1. FlushInv => (rpc = "flushed" /\ rpc' = "none" /\ hurt = {} /\ deferred
                     => late)
  BY DEF FlushInv
<1> QED BY <1>1, Inductive, PTL DEF Spec, RebootFlushes
=============================================================================
