--------------------------- MODULE FirmwareUpgrade ---------------------------
(***************************************************************************)
(* A firmware upgrade of the two-bank router.  formUpload() of the web     *)
(* server takes the upgrade lock, checks the banks and the image, and      *)
(* sends CMD_UPLOAD to configd; the command line sends it without any of   *)
(* that.  cfg_upload() leaves the arguments in globals and starts a        *)
(* thread, which flashes the bank that is not running, marks it valid,     *)
(* makes it the committed one and resets the router.  Meanwhile the web    *)
(* server frees its requests, and with them their uploaded files.  The     *)
(* power may fail between any two steps.                                   *)
(*                                                                         *)
(* The flash variables, the script that writes a bank, the upgrade lock    *)
(* and the boot loader are outside the repository.                         *)
(***************************************************************************)
EXTENDS Naturals

CONSTANTS
    MaxUpload,  \* bound: uploads, from the web or the command line
    MaxFault,   \* bound: failing calls
    MaxCrash    \* bound: power failures

ASSUME BoundsAssumption == {MaxUpload, MaxFault, MaxCrash} \subseteq Nat

VARIABLES
    active,     \* the bank the router runs from
    commit,     \* the bank it is to boot from
    image,      \* what is in each bank
    valid,      \* the valid flag of each bank
    file,       \* the uploaded file of each upload
    uplock,     \* lockUpgrade()
    flags,      \* gIsCommit and gIsReboot of the web server
    keep,       \* g_upgrade_firmware
    form,       \* the request of each upload in the web server
    farg,       \* isCommit and isReboot of its formUpload()
    glob,       \* the g_upload_ variables of configd
    pc,         \* where the thread of each upload is
    arg,        \* its needcommit and needreboot
    bank,       \* its upgrade_bank
    named,      \* the file named in its command
    mixed,      \* another thread wrote the bank beside it
    rebooting,  \* start_reboot of sysReboot()
    causes,     \* why the committed bank may not boot
    faults, crashes

flash == <<active, commit, image, valid>>
web == <<uplock, flags, keep, form, farg>>
thread == <<glob, pc, arg, bank, named, mixed>>
vars == <<flash, file, web, thread, rebooting, causes, faults, crashes>>

Banks == {0, 1}
NoBank == 2             \* a local variable that is neither: not set yet, or garbage
Uploads == 1..MaxUpload
Args == [commit : BOOLEAN, reboot : BOOLEAN]
NoArgs == [commit |-> FALSE, reboot |-> FALSE]
Causes == {"overlap", "differ", "env", "unknown", "garbage", "toggle"}
Other(b) == 1 - b

Running == {t \in Uploads : pc[t] \notin {"none", "ended"}}

TypeOK ==
    /\ active \in Banks /\ commit \in Banks
    /\ image \in [Banks -> {"whole", "part"}]
    /\ valid \in [Banks -> BOOLEAN]
    /\ file \in [Uploads -> {"none", "there", "gone"}]
    /\ uplock \in BOOLEAN /\ flags \in Args /\ keep \in BOOLEAN
    /\ form \in [Uploads -> {"none", "sending", "responding", "freed"}]
    /\ farg \in [Uploads -> Args]
    /\ glob \in [file : Uploads \cup {0}, args : Args]
    /\ pc \in [Uploads -> {"none", "start", "invalidate", "script", "flashing",
                           "mark", "commit", "fail", "reboot", "ended"}]
    /\ arg \in [Uploads -> Args]
    /\ bank \in [Uploads -> Banks \cup {NoBank}]
    /\ named \in [Uploads -> Uploads \cup {0}]
    /\ mixed \in [Uploads -> BOOLEAN]
    /\ rebooting \in BOOLEAN
    /\ causes \subseteq Causes
    /\ faults \in 0..MaxFault /\ crashes \in 0..MaxCrash

Init ==
    /\ active = 0 /\ commit = 0
    /\ image = [b \in Banks |-> "whole"] /\ valid = [b \in Banks |-> TRUE]
    /\ file = [u \in Uploads |-> "none"]
    /\ uplock = FALSE /\ flags = NoArgs /\ keep = FALSE
    /\ form = [u \in Uploads |-> "none"]
    /\ farg = [u \in Uploads |-> NoArgs]
    /\ glob = [file |-> 0, args |-> NoArgs]
    /\ pc = [u \in Uploads |-> "none"]
    /\ arg = [u \in Uploads |-> NoArgs]
    /\ bank = [u \in Uploads |-> NoBank]
    /\ named = [u \in Uploads |-> 0]
    /\ mixed = [u \in Uploads |-> FALSE]
    /\ rebooting = FALSE /\ causes = {} /\ faults = 0 /\ crashes = 0

-----------------------------------------------------------------------------
(* The web server: one thread, which waits while a command is with configd *)

WebIdle == \A u \in Uploads : form[u] # "sending"

\* The uploads are numbered in the order they begin.
Fresh(u) == /\ form[u] = "none"
            /\ \A v \in 1..(u - 1) : form[v] # "none"

\* formUpload3() to formUpload6(): the check boxes of the upgrade page.
SetFlags(f) ==
    /\ WebIdle
    /\ \/ f.commit # flags.commit /\ f.reboot = flags.reboot
       \/ f.commit = flags.commit /\ f.reboot # flags.reboot
    /\ flags' = f
    /\ UNCHANGED <<flash, file, uplock, keep, form, farg, thread, rebooting,
                   causes, faults, crashes>>

\* The committed bank is the running one: no upgrade waits for a reset.
BanksAgree == active = commit

\* formUpload() up to cmd_upload().  An upload is refused, with the lock
\* as it was, when it is too large or malformed, the lock is taken, the
\* banks differ, or the image does not pass its checks.
FormUpload(u) ==
    /\ WebIdle /\ Fresh(u)
    /\ file' = [file EXCEPT ![u] = "there"]
    /\ flags' = NoArgs
    /\ \/ /\ form' = [form EXCEPT ![u] = "responding"]
          /\ UNCHANGED <<uplock, keep, farg>>
       \/ /\ ~uplock /\ BanksAgree
          /\ uplock' = TRUE /\ keep' = TRUE
          /\ farg' = [farg EXCEPT ![u] = flags]
          /\ form' = [form EXCEPT ![u] = "sending"]
    /\ UNCHANGED <<flash, thread, rebooting, causes, faults, crashes>>

\* cfg_upload(): the globals are overwritten, whoever may still need them.
StartThread(u, a) ==
    /\ glob' = [file |-> u, args |-> a]
    /\ pc' = [pc EXCEPT ![u] = "start"]
    /\ causes' = causes \cup (IF Running # {} THEN {"overlap"} ELSE {})
                        \cup (IF BanksAgree THEN {} ELSE {"differ"})
    /\ UNCHANGED <<arg, bank, named, mixed>>

\* configd serves the upload of the form, which then ends; it keeps the
\* lock only when a reset is to follow.
FormSent(u) ==
    /\ form[u] = "sending"
    /\ StartThread(u, farg[u])
    /\ form' = [form EXCEPT ![u] = "responding"]
    /\ uplock' = farg[u].reboot
    /\ farg' = [farg EXCEPT ![u] = NoArgs]
    /\ UNCHANGED <<flash, file, flags, keep, rebooting, faults, crashes>>

\* free_request() of the upload's request: the file is unlinked with it
\* unless it is the first request freed since formUpload() asked to keep
\* it.  /tmp/g_upgrade_firmware is never created.
FormFreed(u) ==
    /\ WebIdle /\ form[u] = "responding"
    /\ form' = [form EXCEPT ![u] = "freed"]
    /\ keep' = FALSE
    /\ file' = [file EXCEPT ![u] = IF keep THEN @ ELSE "gone"]
    /\ UNCHANGED <<flash, uplock, flags, farg, thread, rebooting,
                   causes, faults, crashes>>

\* free_request() of any other request.
OtherFreed ==
    /\ WebIdle /\ keep
    /\ keep' = FALSE
    /\ UNCHANGED <<flash, file, uplock, flags, form, farg, thread, rebooting,
                   causes, faults, crashes>>

\* formBankStatus(): the other bank is committed, whatever is in it, and
\* the router reset, as the two boxes say.
BankStatus(isCommit, isReboot) ==
    /\ WebIdle
    /\ IF isCommit
       THEN /\ commit' = Other(commit)
            /\ causes' = IF /\ image[Other(commit)] = "whole"
                            /\ valid[Other(commit)] /\ Running = {}
                         THEN causes ELSE causes \cup {"toggle"}
       ELSE UNCHANGED <<commit, causes>>
    /\ rebooting' = (rebooting \/ isReboot)
    /\ UNCHANGED <<active, image, valid, file, web, thread, faults, crashes>>

\* The upload menu of the command line: no lock, no check of the banks.
CliUpload(u) ==
    /\ Fresh(u)
    /\ StartThread(u, [commit |-> TRUE, reboot |-> TRUE])
    /\ file' = [file EXCEPT ![u] = "there"]
    /\ form' = [form EXCEPT ![u] = "freed"]
    /\ UNCHANGED <<flash, uplock, flags, keep, farg, rebooting, faults, crashes>>

-----------------------------------------------------------------------------
(* The thread t of configd: fwUpload() and fw_upload()                     *)

At(t, from, to) == pc[t] = from /\ pc' = [pc EXCEPT ![t] = to]

\* pthread_exit(): the locals are gone.
End(t, from) ==
    /\ At(t, from, "ended")
    /\ arg' = [arg EXCEPT ![t] = NoArgs]
    /\ bank' = [bank EXCEPT ![t] = NoBank]
    /\ named' = [named EXCEPT ![t] = 0]
    /\ mixed' = [mixed EXCEPT ![t] = FALSE]

Faulty(cause) ==
    /\ faults < MaxFault
    /\ faults' = faults + 1
    /\ causes' = causes \cup cause

\* Broken forms of UpgradeBank: the operands swapped, and the bank not
\* committed.
UpgradeBankSwapped == active - 1
UpgradeBankOfCommit == Other(commit)

\* The bank to be flashed is the one that is not running.
UpgradeBank == Other(active)

\* What an uninitialised local variable holds.
AnyBank(t) == \E b \in Banks \cup {NoBank} : bank' = [bank EXCEPT ![t] = b]

\* The arguments are read from the globals, the file is looked at, the bank
\* chosen and the command put together.  fname still points to the global
\* name.  Nobody looks whether sw_active could be read: the bank is then
\* any.  With CONFIG_LUNA_FWU_SIGNATURE an image that is refused is taken
\* for an upgrade that is done, of a bank not chosen yet.
Prepare(t) ==
    /\ \/ /\ At(t, "start", "invalidate")
          /\ file[glob.file] = "there"
          /\ \/ /\ bank' = [bank EXCEPT ![t] = UpgradeBank]
                /\ UNCHANGED <<causes, faults>>
             \/ AnyBank(t) /\ Faulty({"unknown"})
          /\ named' = [named EXCEPT ![t] = glob.file]
          /\ arg' = [arg EXCEPT ![t] = glob.args]
       \/ /\ At(t, "start", "mark")
          /\ file[glob.file] = "there"
          /\ AnyBank(t) /\ Faulty({"garbage"})
          /\ arg' = [arg EXCEPT ![t] = [glob.args EXCEPT !.reboot = FALSE]]
          /\ UNCHANGED named
       \/ /\ At(t, "start", "fail")
          /\ \/ file[glob.file] = "gone" /\ UNCHANGED <<causes, faults>>
             \/ Faulty({})
          /\ arg' = [arg EXCEPT ![t] = glob.args]
          /\ UNCHANGED <<bank, named>>
    /\ UNCHANGED <<flash, file, web, glob, mixed, rebooting, crashes>>

\* A flash variable cannot be set; there is none for a bank that is none.
NotSet(t) ==
    \/ bank[t] = NoBank /\ UNCHANGED <<causes, faults>>
    \/ bank[t] # NoBank /\ Faulty({"env"})

\* set_valid_info(upgrade_bank, 0).  When it fails fwu_success is still 1,
\* and the label done treats the upgrade as done.
Invalidate(t) ==
    /\ \/ /\ At(t, "invalidate", "script")
          /\ bank[t] # NoBank
          /\ valid' = [valid EXCEPT ![bank[t]] = FALSE]
          /\ UNCHANGED <<arg, causes, faults>>
       \/ /\ At(t, "invalidate", "mark")
          /\ arg' = [arg EXCEPT ![t].reboot = FALSE]
          /\ NotSet(t) /\ UNCHANGED valid
    /\ UNCHANGED <<active, commit, image, file, web, glob, bank, named, mixed,
                   rebooting, crashes>>

\* The script begins to write the bank, or gives up before it does.
ScriptStart(t) ==
    LET beside == {u \in Uploads \ {t} : pc[u] = "flashing"
                                         /\ bank[u] = bank[t]}
    IN
    /\ \/ /\ At(t, "script", "flashing")
          /\ file[named[t]] = "there"
          /\ image' = [image EXCEPT ![bank[t]] = "part"]
          /\ mixed' = [u \in Uploads |-> \/ mixed[u] \/ u \in beside
                                         \/ u = t /\ beside # {}]
       \/ At(t, "script", "fail") /\ UNCHANGED <<image, mixed>>
    /\ UNCHANGED <<active, commit, valid, file, web, glob, arg, bank, named,
                   rebooting, causes, faults, crashes>>

\* Broken form of ScriptEnd: fwu_success is not cleared by a failure.
ScriptEndIgnored(t) ==
    /\ At(t, "flashing", "mark")
    /\ \/ image' = [image EXCEPT ![bank[t]] = "whole"]
       \/ UNCHANGED image
    /\ UNCHANGED <<active, commit, valid, file, web, glob, arg, bank, named,
                   mixed, rebooting, causes, faults, crashes>>

\* The script ends; what two scripts wrote at once is not an image.
ScriptEnd(t) ==
    /\ \/ /\ At(t, "flashing", "mark")
          /\ image' = [image EXCEPT ![bank[t]] =
                         IF mixed[t] THEN "part" ELSE "whole"]
       \/ At(t, "flashing", "fail") /\ UNCHANGED image
    /\ UNCHANGED <<active, commit, valid, file, web, glob, arg, bank, named,
                   mixed, rebooting, causes, faults, crashes>>

\* set_valid_info(upgrade_bank, 1); a failure is only printed.
MarkValid(t) ==
    /\ At(t, "mark", "commit")
    /\ \/ /\ bank[t] # NoBank
          /\ valid' = [valid EXCEPT ![bank[t]] = TRUE]
          /\ UNCHANGED <<causes, faults>>
       \/ NotSet(t) /\ UNCHANGED valid
    /\ UNCHANGED <<active, commit, image, file, web, glob, arg, bank, named,
                   mixed, rebooting, crashes>>

\* unlink(fname) of whatever the global name is by now.
Unlink == file' = [file EXCEPT ![glob.file] = "gone"]

\* set_commit_info(b) if needcommit; a failure is only printed.
CommitInfo(t, b) ==
    \/ arg[t].commit /\ b # NoBank /\ commit' = b /\ UNCHANGED faults
    \/ arg[t].commit /\ b # NoBank /\ Faulty({}) /\ UNCHANGED commit
    \/ (arg[t].commit => b = NoBank) /\ UNCHANGED <<commit, faults>>

\* The upgrade is done: its bank is committed, and the router reset unless
\* the label done was jumped to.
Commit(t) ==
    /\ CommitInfo(t, bank[t]) /\ UNCHANGED causes
    /\ \/ /\ arg[t].reboot /\ At(t, "commit", "reboot")
          /\ UNCHANGED <<file, arg, bank, named, mixed>>
       \/ ~arg[t].reboot /\ End(t, "commit") /\ Unlink
    /\ UNCHANGED <<active, image, valid, web, glob, rebooting, crashes>>

\* The label done of a failed upgrade: the bank taken for the running one
\* is committed, which is any when the file could not be read.  The router
\* is not reset and the lock not released.
Fail(t) ==
    /\ End(t, "fail")
    /\ \/ /\ bank[t] # NoBank
          /\ CommitInfo(t, Other(bank[t])) /\ UNCHANGED causes
       \/ /\ bank[t] = NoBank /\ arg[t].commit
          /\ commit' \in Banks
          /\ causes' = causes \cup {"garbage"} /\ UNCHANGED faults
       \/ /\ bank[t] = NoBank /\ ~arg[t].commit
          /\ UNCHANGED <<commit, causes, faults>>
    /\ Unlink
    /\ UNCHANGED <<active, image, valid, web, glob, rebooting, crashes>>

\* sysReboot() does nothing when a reset is already under way.
Reboot(t) ==
    /\ End(t, "reboot")
    /\ rebooting' = TRUE
    /\ UNCHANGED <<flash, file, web, glob, causes, faults, crashes>>

Thread(t) ==
    \/ Prepare(t) \/ Invalidate(t) \/ ScriptStart(t) \/ ScriptEnd(t)
    \/ MarkValid(t) \/ Commit(t) \/ Fail(t) \/ Reboot(t)

-----------------------------------------------------------------------------
(* Power                                                                   *)

\* The boot loader takes the committed bank if it can.
BootBank ==
    IF image[commit] = "whole" /\ valid[commit] THEN commit
    ELSE IF image[Other(commit)] = "whole" THEN Other(commit) ELSE commit

PowerCycle ==
    /\ active' = BootBank
    /\ file' = [u \in Uploads |-> IF file[u] = "none" THEN "none" ELSE "gone"]
    /\ uplock' = FALSE /\ flags' = NoArgs /\ keep' = FALSE
    /\ form' = [u \in Uploads |-> IF form[u] = "none" THEN "none" ELSE "freed"]
    /\ farg' = [u \in Uploads |-> NoArgs]
    /\ glob' = [file |-> 0, args |-> NoArgs]
    /\ pc' = [u \in Uploads |-> IF pc[u] = "none" THEN "none" ELSE "ended"]
    /\ arg' = [u \in Uploads |-> NoArgs]
    /\ bank' = [u \in Uploads |-> NoBank]
    /\ named' = [u \in Uploads |-> 0]
    /\ mixed' = [u \in Uploads |-> FALSE]
    /\ rebooting' = FALSE
    /\ UNCHANGED <<commit, image, valid, causes, faults>>

Crash == crashes < MaxCrash /\ crashes' = crashes + 1 /\ PowerCycle

Reset == rebooting /\ PowerCycle /\ UNCHANGED crashes

Next ==
    \/ \E f \in Args : SetFlags(f)
    \/ \E u \in Uploads : FormUpload(u) \/ FormSent(u) \/ FormFreed(u)
                          \/ CliUpload(u)
    \/ OtherFreed
    \/ \E c, r \in BOOLEAN : BankStatus(c, r)
    \/ \E t \in Uploads : Thread(t)
    \/ Crash \/ Reset

Spec == Init /\ [][Next]_vars

-----------------------------------------------------------------------------
(* Properties                                                              *)

(***************************************************************************)
(* CommitBootable: whatever step an upgrade is at when the power fails,    *)
(* the committed bank holds a whole image and is marked valid, unless two  *)
(* upgrades overlapped, one began while the banks differed (the command    *)
(* line does not check, and the check of formUpload() may be stale), a     *)
(* flash variable could not be set, sw_active could not be read, a bank    *)
(* was marked or committed before one was chosen, or the committed bank    *)
(* was switched by hand to one that is not whole.                          *)
(***************************************************************************)
CommitBootable ==
    causes = {} => image[commit] = "whole" /\ valid[commit]

(***************************************************************************)
(* RunningIntact: no sequence of uploads, overlapping ones, failing calls  *)
(* and hand-made switches included, makes fw_upload() write over the image *)
(* the router runs from, unless sw_active could not be read: fw_upload()   *)
(* does not look whether it was, and flashes a bank all the same.          *)
(***************************************************************************)
RunningIntact == "unknown" \notin causes => image[active] = "whole"

(***************************************************************************)
(* FileKept: the file of an upload is there until its thread has read it;  *)
(* formUpload() sets g_upgrade_firmware to "Save file for upgrade          *)
(* Firmware".                                                              *)
(***************************************************************************)
FileKept ==
    \A u \in Uploads : pc[u] \in {"start", "invalidate", "script"}
                       => file[u] = "there"
=============================================================================
