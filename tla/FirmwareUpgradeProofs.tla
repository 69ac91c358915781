----------------------- MODULE FirmwareUpgradeProofs -----------------------
(***************************************************************************)
(* Theorems about FirmwareUpgrade: its types, and that the running image   *)
(* is not written over while sw_active can be read, for any number of      *)
(* uploads, failing calls and power failures.                              *)
(***************************************************************************)
EXTENDS FirmwareUpgrade, TLAPS

\* The steps of a thread at which it is about to write the bank it has
\* chosen, or writes it.
Writing == {"invalidate", "script", "flashing"}

\* While sw_active could be read, no thread writes the running bank; while
\* no image was refused either, no thread takes another bank for its own.
OtherBank ==
    /\ "unknown" \notin causes =>
         \A t \in Uploads : pc[t] \in Writing => bank[t] = Other(active)
    /\ causes \cap {"unknown", "garbage"} = {} =>
         \A t \in Uploads : bank[t] \in {Other(active), NoBank}

\* A script is started only for what is a bank.
WritesBank ==
    \A t \in Uploads : pc[t] \in {"script", "flashing"} => bank[t] \in Banks

IndInv == TypeOK /\ OtherBank /\ WritesBank /\ RunningIntact

\* There are two banks, and Other() swaps them.
LEMMA OtherType ==
    \A b \in Banks : /\ Other(b) \in Banks /\ Other(b) # b
                     /\ Other(Other(b)) = b /\ Other(b) # NoBank
                     /\ \A c \in Banks : c = b \/ c = Other(b)
BY DEF Banks, Other, NoBank

\* The bounds are numbers.
LEMMA BoundsType == MaxUpload \in Nat /\ MaxFault \in Nat /\ MaxCrash \in Nat
BY BoundsAssumption

\* The router starts from a whole image, with no thread.
LEMMA InitInv == Init => IndInv
<1> SUFFICES ASSUME Init
             PROVE  IndInv
  OBVIOUS
<1>1. NoArgs \in Args
  BY DEF NoArgs, Args
<1>2. TypeOK
  <2>1. active \in Banks /\ commit \in Banks
    BY DEF Init, Banks
  <2>2. /\ image \in [Banks -> {"whole", "part"}]
        /\ valid \in [Banks -> BOOLEAN]
    BY DEF Init
  <2>3. /\ file \in [Uploads -> {"none", "there", "gone"}]
        /\ uplock \in BOOLEAN /\ flags \in Args /\ keep \in BOOLEAN
        /\ form \in [Uploads -> {"none", "sending", "responding", "freed"}]
        /\ farg \in [Uploads -> Args]
        /\ glob \in [file : Uploads \cup {0}, args : Args]
    BY <1>1 DEF Init
  <2>4. /\ pc \in [Uploads -> {"none", "start", "invalidate", "script",
                               "flashing", "mark", "commit", "fail",
                               "reboot", "ended"}]
        /\ arg \in [Uploads -> Args]
        /\ bank \in [Uploads -> Banks \cup {NoBank}]
        /\ named \in [Uploads -> Uploads \cup {0}]
        /\ mixed \in [Uploads -> BOOLEAN]
        /\ rebooting \in BOOLEAN /\ causes \subseteq Causes
    BY <1>1 DEF Init
  <2>5. faults \in 0..MaxFault /\ crashes \in 0..MaxCrash
    BY BoundsType DEF Init
  <2> QED BY <2>1, <2>2, <2>3, <2>4, <2>5 DEF TypeOK
<1>3. OtherBank /\ WritesBank
  BY DEF Init, OtherBank, WritesBank, Writing
<1>4. RunningIntact
  BY DEF Init, RunningIntact, Banks
<1> QED BY <1>2, <1>3, <1>4 DEF IndInv

\* The steps of the web server and the command line leave the banks alone.
LEMMA WebStep ==
    ASSUME IndInv,
           \/ \E f \in Args : SetFlags(f)
           \/ \E u \in Uploads : FormUpload(u) \/ FormSent(u) \/ FormFreed(u)
                                 \/ CliUpload(u)
           \/ OtherFreed
           \/ \E c, r \in BOOLEAN : BankStatus(c, r)
    PROVE  IndInv'
<1> USE OtherType DEF IndInv, TypeOK, OtherBank, WritesBank, RunningIntact, flash, web,
                      thread
<1>1. ASSUME NEW f \in Args, SetFlags(f)
      PROVE  IndInv'
  BY <1>1 DEF SetFlags
<1>2. ASSUME NEW u \in Uploads, FormUpload(u)
      PROVE  IndInv'
  <2>1. NoArgs \in Args
    BY DEF Args, NoArgs
  <2>2. /\ farg' \in [Uploads -> Args]
        /\ file' \in [Uploads -> {"none", "there", "gone"}]
        /\ form' \in [Uploads -> {"none", "sending", "responding", "freed"}]
        /\ uplock' \in BOOLEAN /\ keep' \in BOOLEAN
        /\ flags' \in Args
    <3>1. UNCHANGED farg \/ farg' = [farg EXCEPT ![u] = flags]
      BY <1>2 DEF FormUpload
    <3>2. farg' \in [Uploads -> Args]
      BY <3>1
    <3>3. flags' = NoArgs /\ file' = [file EXCEPT ![u] = "there"]
      BY <1>2 DEF FormUpload
    <3>4. \/ /\ uplock' = uplock /\ keep' = keep
             /\ form' = [form EXCEPT ![u] = "responding"]
          \/ /\ uplock' = TRUE /\ keep' = TRUE
             /\ form' = [form EXCEPT ![u] = "sending"]
      BY <1>2 DEF FormUpload
    <3> QED BY <2>1, <3>2, <3>3, <3>4
  <2>3. TypeOK'
    <3>1. /\ UNCHANGED <<active, commit, image, valid, glob, pc, arg, bank>>
          /\ UNCHANGED <<named, mixed, rebooting, causes, faults, crashes>>
      BY <1>2 DEF FormUpload
    <3> QED BY <2>2, <3>1
  <2>4. OtherBank' /\ WritesBank'
    BY <1>2 DEF FormUpload
  <2> QED BY <1>2, <2>3, <2>4 DEF FormUpload
<1>3. ASSUME NEW u \in Uploads, FormSent(u)
      PROVE  IndInv'
  <2>1. farg[u] \in Args /\ farg[u].reboot \in BOOLEAN /\ NoArgs \in Args
    BY DEF Args, NoArgs
  <2>2. causes' \subseteq Causes
    BY <1>3 DEF FormSent, StartThread, Causes
  <2>3. TypeOK'
    BY <1>3, <2>1, <2>2 DEF FormSent, StartThread
  <2>4. OtherBank' /\ WritesBank'
    BY <1>3 DEF FormSent, StartThread, Writing
  <2>5. UNCHANGED <<active, image>> /\ causes \subseteq causes'
    BY <1>3 DEF FormSent, StartThread
  <2>6. RunningIntact'
    BY <2>5
  <2> QED BY <2>3, <2>4, <2>6
<1>4. ASSUME NEW u \in Uploads, FormFreed(u)
      PROVE  IndInv'
  BY <1>4 DEF FormFreed
<1>5. ASSUME NEW u \in Uploads, CliUpload(u)
      PROVE  IndInv'
  <2>1. [commit |-> TRUE, reboot |-> TRUE] \in Args
    BY DEF Args
  <2>2. causes' \subseteq Causes
    BY <1>5 DEF CliUpload, StartThread, Causes
  <2>3. TypeOK'
    BY <1>5, <2>1, <2>2 DEF CliUpload, StartThread
  <2>4. OtherBank' /\ WritesBank'
    BY <1>5 DEF CliUpload, StartThread, Writing
  <2>5. UNCHANGED <<active, image>> /\ causes \subseteq causes'
    BY <1>5 DEF CliUpload, StartThread
  <2>6. RunningIntact'
    BY <2>5
  <2> QED BY <2>3, <2>4, <2>6
<1>6. ASSUME OtherFreed
      PROVE  IndInv'
  BY <1>6 DEF OtherFreed
<1>7. ASSUME NEW c \in BOOLEAN, NEW r \in BOOLEAN, BankStatus(c, r)
      PROVE  IndInv'
  <2>1. commit' \in Banks
    BY <1>7 DEF BankStatus
  <2>2. causes' \subseteq Causes
    <3>1. causes' = causes \/ causes' = causes \cup {"toggle"}
      BY <1>7 DEF BankStatus
    <3>2. "toggle" \in Causes
      BY DEF Causes
    <3> QED BY <3>1, <3>2
  <2> QED BY <1>7, <2>1, <2>2 DEF BankStatus
<1> QED BY <1>1, <1>2, <1>3, <1>4, <1>5, <1>6, <1>7

\* A step of a thread changes only the bank that is not running.
LEMMA ThreadStep ==
    ASSUME IndInv, NEW t \in Uploads, Thread(t)
    PROVE  IndInv'
<1> USE OtherType DEF IndInv, TypeOK, OtherBank, WritesBank, RunningIntact, flash, web,
                      At
<1>0. /\ NoArgs \in Args /\ glob.args \in Args
      /\ [glob.args EXCEPT !.reboot = FALSE] \in Args
      /\ [arg EXCEPT ![t].reboot = FALSE] \in [Uploads -> Args]
      /\ {"env", "unknown", "garbage"} \subseteq Causes
  <2>1. NoArgs \in Args /\ glob.args \in Args
    BY DEF Args, NoArgs
  <2>2. \A a \in Args : [a EXCEPT !.reboot = FALSE] \in Args
    BY ZenonT(40) DEF Args
  <2>3. [arg EXCEPT ![t].reboot = FALSE] \in [Uploads -> Args]
    BY <2>2
  <2>4. {"env", "unknown", "garbage"} \subseteq Causes
    BY DEF Causes
  <2> QED BY <2>1, <2>2, <2>3, <2>4
<1>f. ASSUME NEW c, Faulty(c), c \subseteq Causes
      PROVE  /\ causes' \subseteq Causes /\ faults' \in 0..MaxFault
             /\ causes' = causes \cup c
  BY <1>f, BoundsType DEF Faulty
<1>n. ASSUME NotSet(t)
      PROVE  /\ causes' \subseteq Causes /\ faults' \in 0..MaxFault
             /\ causes \subseteq causes'
  BY <1>0, <1>f, <1>n DEF NotSet
<1>1. CASE Prepare(t)
  <2> DEFINE Known == bank' = [bank EXCEPT ![t] = UpgradeBank]
                      /\ UNCHANGED <<causes, faults>>
  <2> DEFINE Unset == UNCHANGED bank /\ causes' = causes
                      /\ faults' \in 0..MaxFault
  <2>1. /\ pc[t] = "start" /\ \E to \in {"invalidate", "mark", "fail"} :
                                   pc' = [pc EXCEPT ![t] = to]
        /\ \/ pc'[t] = "invalidate" /\ Known
           \/ AnyBank(t) /\ Faulty({"unknown"})
           \/ pc'[t] = "mark" /\ AnyBank(t) /\ Faulty({"garbage"})
           \/ pc'[t] = "fail" /\ Unset
    <3>1. Faulty({}) => causes' = causes /\ faults' \in 0..MaxFault
      BY <1>f
    <3> QED BY <1>1, <3>1 DEF Prepare
  <2>2. \A b : bank' = [bank EXCEPT ![t] = b] =>
             /\ bank'[t] = b
             /\ \A u \in Uploads : u # t => bank'[u] = bank[u]
    OBVIOUS
  <2>3. \A u \in Uploads : u # t => bank'[u] = bank[u] /\ pc'[u] = pc[u]
    BY <2>1, <2>2 DEF AnyBank
  <2>4. bank' \in [Uploads -> Banks \cup {NoBank}]
    BY <2>1 DEF AnyBank, UpgradeBank
  <2>5. /\ causes' \subseteq Causes /\ faults' \in 0..MaxFault
        /\ causes \subseteq causes'
    BY <1>0, <1>f, <2>1
  <2>6. /\ UNCHANGED <<active, commit, image, valid, file, uplock, flags>>
        /\ UNCHANGED <<keep, form, farg, glob, mixed, rebooting, crashes>>
    BY <1>1 DEF Prepare
  <2>7. TypeOK'
    <3>1. \/ arg' = [arg EXCEPT ![t] = glob.args]
          \/ arg' = [arg EXCEPT ![t] = [glob.args EXCEPT !.reboot = FALSE]]
      BY <1>1 DEF Prepare
    <3>2. arg' \in [Uploads -> Args]
      <4>1. PICK a : a = glob.args
        OBVIOUS
      <4>2. a \in Args /\ [a EXCEPT !.reboot = FALSE] \in Args
        BY <4>1 DEF Args
      <4>3. \E c \in Args : arg' = [arg EXCEPT ![t] = c]
        BY <3>1, <4>1, <4>2
      <4> QED BY ONLY <4>3, arg \in [Uploads -> Args]
    <3>3. named' = named \/ named' = [named EXCEPT ![t] = glob.file]
      BY <1>1 DEF Prepare
    <3>4. named' \in [Uploads -> Uploads \cup {0}]
      BY <3>3
    <3>5. pc' \in [Uploads -> {"none", "start", "invalidate", "script",
                               "flashing", "mark", "commit", "fail",
                               "reboot", "ended"}]
      BY <2>1
    <3> QED BY <2>4, <2>5, <2>6, <3>2, <3>4, <3>5
  <2>8. WritesBank'
    <3>1. pc'[t] \notin {"script", "flashing"}
      BY <2>1
    <3> QED BY <2>3, <3>1
  <2>9. OtherBank'
    <3>1. CASE pc'[t] = "invalidate" /\ Known
      <4>1. bank'[t] = Other(active)
        BY <2>2, <3>1 DEF UpgradeBank
      <4> QED BY <2>3, <2>6, <3>1, <4>1
    <3>2. CASE Faulty({"unknown"})
      BY <3>2 DEF Faulty
    <3>3. CASE pc'[t] = "mark" /\ Faulty({"garbage"})
      BY <2>3, <2>5, <2>6, <3>3 DEF Faulty, Writing
    <3>4. CASE pc'[t] = "fail" /\ Unset
      BY <2>3, <2>6, <3>4 DEF Writing
    <3> QED BY <2>1, <3>1, <3>2, <3>3, <3>4
  <2> QED BY <2>5, <2>6, <2>7, <2>8, <2>9
<1>2. CASE Invalidate(t)
  <2>1. /\ causes' \subseteq Causes /\ faults' \in 0..MaxFault
        /\ causes \subseteq causes'
    BY <1>2, <1>n DEF Invalidate
  <2>2. TypeOK'
    <3>1. arg' = arg \/ arg' = [arg EXCEPT ![t].reboot = FALSE]
      BY <1>2 DEF Invalidate
    <3>2. arg' \in [Uploads -> Args]
      BY <1>0, <3>1
    <3>3. /\ valid' \in [Banks -> BOOLEAN]
          /\ pc' \in [Uploads -> {"none", "start", "invalidate", "script",
                                   "flashing", "mark", "commit", "fail",
                                   "reboot", "ended"}]
      <4>1. \/ valid' = valid
            \/ valid' = [valid EXCEPT ![bank[t]] = FALSE]
        BY <1>2 DEF Invalidate
      <4>2. valid' \in [Banks -> BOOLEAN]
        BY <4>1, Zenon
      <4> QED BY <1>2, <4>2 DEF Invalidate
    <3>4. /\ UNCHANGED <<active, commit, image, file, uplock, flags, keep>>
          /\ UNCHANGED <<form, farg, glob, bank, named, mixed, rebooting>>
          /\ UNCHANGED crashes
      BY <1>2 DEF Invalidate
    <3> QED BY <2>1, <3>2, <3>3, <3>4
  <2>3. OtherBank' /\ WritesBank'
    BY <1>2, <2>1 DEF Invalidate, Writing
  <2> QED BY <1>2, <2>1, <2>2, <2>3 DEF Invalidate
<1>3. CASE ScriptStart(t)
  <2>1. "unknown" \notin causes => bank[t] = Other(active)
    BY <1>3 DEF ScriptStart, Writing
  <2>2. TypeOK'
    <3>1. mixed' \in [Uploads -> BOOLEAN]
      <4> DEFINE beside == {u \in Uploads \ {t} : pc[u] = "flashing"
                                                  /\ bank[u] = bank[t]}
      <4> DEFINE M == [u \in Uploads |-> \/ mixed[u] \/ u \in beside
                                         \/ u = t /\ beside # {}]
      <4>1. mixed' = mixed \/ mixed' = M
        BY <1>3 DEF ScriptStart
      <4>2. \A u \in Uploads : mixed[u] \in BOOLEAN
        OBVIOUS
      <4>3. M \in [Uploads -> BOOLEAN]
        <5> HIDE DEF beside
        <5> QED BY <4>2, Zenon
      <4> QED BY <4>1, <4>3
    <3>2. image' \in [Banks -> {"whole", "part"}]
      BY <1>3 DEF ScriptStart
    <3>3. pc' \in [Uploads -> {"none", "start", "invalidate", "script",
                               "flashing", "mark", "commit", "fail",
                               "reboot", "ended"}]
      BY <1>3 DEF ScriptStart
    <3>4. /\ UNCHANGED <<active, commit, valid, file, uplock, flags, keep>>
          /\ UNCHANGED <<form, farg, glob, arg, bank, named, rebooting>>
          /\ UNCHANGED <<causes, faults, crashes>>
      BY <1>3 DEF ScriptStart
    <3> QED BY <3>1, <3>2, <3>3, <3>4
  <2>3. OtherBank' /\ WritesBank'
    BY <1>3 DEF ScriptStart, Writing
  <2>4. RunningIntact'
    BY <1>3, <2>1 DEF ScriptStart
  <2> QED BY <2>2, <2>3, <2>4
<1>4. CASE ScriptEnd(t)
  <2>1. "unknown" \notin causes => bank[t] = Other(active)
    BY <1>4 DEF ScriptEnd, Writing
  <2>2. TypeOK'
    BY <1>4 DEF ScriptEnd
  <2>3. OtherBank' /\ WritesBank'
    BY <1>4 DEF ScriptEnd, Writing
  <2>4. RunningIntact'
    BY <1>4, <2>1 DEF ScriptEnd
  <2> QED BY <2>2, <2>3, <2>4
<1>5. CASE MarkValid(t)
  <2>1. /\ causes' \subseteq Causes /\ faults' \in 0..MaxFault
        /\ causes \subseteq causes'
    BY <1>5, <1>n DEF MarkValid
  <2>2. TypeOK'
    <3>1. valid' \in [Banks -> BOOLEAN]
      <4>1. valid' = valid \/ \E b : valid' = [valid EXCEPT ![b] = TRUE]
        BY <1>5 DEF MarkValid
      <4> QED BY ONLY <4>1, valid \in [Banks -> BOOLEAN]
    <3>2. pc' \in [Uploads -> {"none", "start", "invalidate", "script",
                               "flashing", "mark", "commit", "fail",
                               "reboot", "ended"}]
      BY <1>5 DEF MarkValid
    <3>3. UNCHANGED <<active, commit, image, file, web, glob, arg, bank, named,
                      mixed, rebooting, crashes>>
      BY <1>5 DEF MarkValid
    <3> QED BY <2>1, <3>1, <3>2, <3>3
  <2>3. OtherBank' /\ WritesBank'
    BY <1>5, <2>1 DEF MarkValid, Writing
  <2> QED BY <1>5, <2>1, <2>2, <2>3 DEF MarkValid
<1>6. CASE Commit(t)
  <2>1. causes' \subseteq Causes /\ faults' \in 0..MaxFault
    BY <1>6, <1>f DEF Commit, CommitInfo
  <2>3. commit' \in Banks
    BY <1>6 DEF Commit, CommitInfo
  <2>4. TypeOK'
    <3>1. CASE UNCHANGED <<file, arg, bank, named, mixed>>
      BY <1>6, <2>1, <2>3, <3>1 DEF Commit, End
    <3>2. CASE End(t, "commit") /\ Unlink
      BY <1>0, <1>6, <2>1, <2>3, <3>2 DEF Commit, End, Unlink
    <3> QED BY <1>6, <3>1, <3>2 DEF Commit
  <2>5. OtherBank' /\ WritesBank'
    BY <1>6 DEF Commit, End, Writing
  <2> QED BY <1>6, <2>4, <2>5 DEF Commit
<1>7. CASE Fail(t)
  <2>1. /\ causes' \subseteq Causes /\ faults' \in 0..MaxFault
        /\ causes \subseteq causes'
    <3>1. causes' \subseteq Causes /\ causes \subseteq causes'
      BY <1>0, <1>7 DEF Fail
    <3> QED BY <1>7, <1>f, <3>1 DEF Fail, CommitInfo
  <2>c. commit' \in Banks
    <3>1. \A b : CommitInfo(t, b) => commit' = commit \/ commit' = b
      BY DEF CommitInfo
    <3>2. bank[t] # NoBank => Other(bank[t]) \in Banks
      OBVIOUS
    <3> QED BY <1>7, <3>1, <3>2 DEF Fail
  <2>2. TypeOK'
    BY <1>0, <1>7, <2>1, <2>c DEF Fail, End, Unlink
  <2>3. OtherBank' /\ WritesBank'
    BY <1>7, <2>1 DEF Fail, End, Writing
  <2> QED BY <1>7, <2>1, <2>2, <2>3 DEF Fail
<1>8. CASE Reboot(t)
  <2>1. TypeOK'
    BY <1>0, <1>8 DEF Reboot, End
  <2>2. OtherBank' /\ WritesBank'
    BY <1>8 DEF Reboot, End, Writing
  <2> QED BY <1>8, <2>1, <2>2 DEF Reboot
<1> QED BY <1>1, <1>2, <1>3, <1>4, <1>5, <1>6, <1>7, <1>8 DEF Thread

\* The boot loader finds a whole image, because there is one: the one that
\* was running.
LEMMA PowerStep ==
    ASSUME IndInv, Crash \/ Reset
    PROVE  IndInv'
<1> USE OtherType DEF IndInv, TypeOK, OtherBank, WritesBank, RunningIntact
<1>1. PowerCycle /\ crashes' \in 0..MaxCrash
  BY BoundsType DEF Crash, Reset
<1>2. /\ BootBank \in Banks
      /\ "unknown" \notin causes => image[BootBank] = "whole"
  BY DEF BootBank
<1>3. NoArgs \in Args
  BY DEF Args, NoArgs
<1>4. TypeOK'
  BY <1>1, <1>2, <1>3 DEF PowerCycle
<1>5. OtherBank' /\ WritesBank'
  BY <1>1 DEF PowerCycle, Writing
<1>6. RunningIntact'
  BY <1>1, <1>2 DEF PowerCycle
<1> QED BY <1>4, <1>5, <1>6

(***************************************************************************)
(* Inductive: IndInv, the types together with the fact that no thread is   *)
(* at work on the running bank while sw_active could be read, is an        *)
(* invariant.                                                              *)
(***************************************************************************)
THEOREM Inductive == Spec => []IndInv
<1>1. Init => IndInv
  BY InitInv
<1>2. IndInv /\ [Next]_vars => IndInv'
  <2> SUFFICES ASSUME IndInv, [Next]_vars
               PROVE  IndInv'
    OBVIOUS
  <2>1. CASE UNCHANGED vars
    BY <2>1 DEF IndInv, TypeOK, OtherBank, WritesBank, RunningIntact, vars, flash, web,
                thread
  <2>2. CASE Next
    BY <2>2, WebStep, ThreadStep, PowerStep DEF Next
  <2> QED BY <2>1, <2>2
<1> QED BY <1>1, <1>2, PTL DEF Spec

(***************************************************************************)
(* TypeCorrect: every variable of the upgrade keeps its type.              *)
(***************************************************************************)
THEOREM TypeCorrect == Spec => []TypeOK
BY Inductive, PTL DEF IndInv

(***************************************************************************)
(* RunningIntactHolds: fw_upload() does not write over the image the       *)
(* router runs from, whatever uploads overlap and whatever else fails, as  *)
(* long as every upgrade could read sw_active.                             *)
(***************************************************************************)
THEOREM RunningIntactHolds == Spec => []RunningIntact
BY Inductive, PTL DEF IndInv

\* The steps of a thread before it has committed its bank.
Undone == {"start", "invalidate", "script", "flashing", "mark", "commit",
           "fail"}

\* While none of the causes has happened, one thread at a time works beside
\* a committed bank that is the running one, and marks and commits only what
\* it has written whole.
Orderly ==
    /\ image[commit] = "whole" /\ valid[commit]
    /\ \A t, u \in Running : t = u
    /\ \A t \in Uploads :
         /\ ~mixed[t]
         /\ pc[t] \in Undone => commit = active
         /\ pc[t] \in {"mark", "commit"} => /\ bank[t] # NoBank
                                            /\ image[bank[t]] = "whole"
         /\ pc[t] = "commit" => valid[bank[t]]

OrderlyInv == causes = {} => Orderly

\* A thread that starts is alone, and starts with the banks agreeing.
LEMMA StartOrderly ==
    ASSUME IndInv, Orderly, NEW u \in Uploads, NEW a, StartThread(u, a),
           UNCHANGED flash, causes' = {}
    PROVE  Orderly'
<1>1. Running = {} /\ active = commit
  BY DEF StartThread, BanksAgree
<1>2. pc' = [pc EXCEPT ![u] = "start"] /\ UNCHANGED <<arg, bank, mixed>>
  BY DEF StartThread
<1>3. pc \in [Uploads -> {"none", "start", "invalidate", "script",
                          "flashing", "mark", "commit", "fail",
                          "reboot", "ended"}]
  BY DEF IndInv, TypeOK
<1>4. \A t \in Uploads : t # u => pc'[t] = pc[t] /\ pc[t] \in {"none", "ended"}
  BY <1>1, <1>2, <1>3 DEF Running
<1>5. pc'[u] = "start"
  BY <1>2, <1>3
<1>6. \A t, v \in Running' : t = v
  BY <1>4 DEF Running
<1> QED BY <1>1, <1>2, <1>4, <1>5, <1>6 DEF Orderly, flash

\* The web server and the command line keep the order.
LEMMA WebOrderly ==
    ASSUME IndInv, OrderlyInv, causes' = {},
           \/ \E f \in Args : SetFlags(f)
           \/ \E u \in Uploads : FormUpload(u) \/ FormSent(u) \/ FormFreed(u)
                                 \/ CliUpload(u)
           \/ OtherFreed
           \/ \E c, r \in BOOLEAN : BankStatus(c, r)
    PROVE  Orderly'
<1>1. ASSUME UNCHANGED <<flash, thread, causes>>
      PROVE  Orderly'
  BY <1>1 DEF OrderlyInv, Orderly, Running, flash, thread
<1>2. ASSUME NEW f \in Args, SetFlags(f)
      PROVE  Orderly'
  BY <1>1, <1>2 DEF SetFlags
<1>3. ASSUME NEW u \in Uploads, FormUpload(u) \/ FormFreed(u)
      PROVE  Orderly'
  BY <1>1, <1>3 DEF FormUpload, FormFreed
<1>4. ASSUME NEW u \in Uploads, FormSent(u)
      PROVE  Orderly'
  <2>1. causes = {} /\ StartThread(u, farg[u]) /\ UNCHANGED flash
    BY <1>4 DEF FormSent, StartThread
  <2> QED BY <2>1, StartOrderly DEF OrderlyInv
<1>5. ASSUME NEW u \in Uploads, CliUpload(u)
      PROVE  Orderly'
  <2>1. /\ causes = {} /\ UNCHANGED flash
        /\ StartThread(u, [commit |-> TRUE, reboot |-> TRUE])
    BY <1>5 DEF CliUpload, StartThread
  <2> QED BY <2>1, StartOrderly DEF OrderlyInv
<1>6. ASSUME OtherFreed
      PROVE  Orderly'
  BY <1>1, <1>6 DEF OtherFreed
<1>7. ASSUME NEW c \in BOOLEAN, NEW r \in BOOLEAN, BankStatus(c, r)
      PROVE  Orderly'
  <2>1. CASE ~c
    BY <1>1, <1>7, <2>1 DEF BankStatus, flash
  <2>2. CASE c
    <3>1. /\ commit' = Other(commit) /\ image[Other(commit)] = "whole"
          /\ valid[Other(commit)] /\ Running = {} /\ causes = {}
          /\ UNCHANGED <<image, valid, active, thread>>
      BY <1>7, <2>2 DEF BankStatus
    <3>2. \A t \in Uploads : pc[t] \in {"none", "ended"}
      BY <3>1 DEF Running
    <3> QED BY <3>1, <3>2 DEF OrderlyInv, Orderly, Running, thread, Undone
  <2> QED BY <2>1, <2>2
<1> QED BY <1>2, <1>3, <1>4, <1>5, <1>6, <1>7

\* So do the steps of a thread.
LEMMA ThreadOrderly ==
    ASSUME IndInv, OrderlyInv, causes' = {}, NEW t \in Uploads, Thread(t)
    PROVE  Orderly'
<1>0. /\ causes = {} /\ Orderly
      /\ \A c : Faulty(c) => c = {}
  BY DEF OrderlyInv, Thread, Prepare, Invalidate, ScriptStart, ScriptEnd,
         MarkValid, Commit, Fail, Reboot, Faulty, NotSet, CommitInfo
<1> USE OtherType DEF Orderly, At
<1>1. /\ active \in Banks /\ commit \in Banks
      /\ image \in [Banks -> {"whole", "part"}]
      /\ valid \in [Banks -> BOOLEAN]
      /\ pc \in [Uploads -> {"none", "start", "invalidate", "script",
                             "flashing", "mark", "commit", "fail",
                             "reboot", "ended"}]
      /\ bank \in [Uploads -> Banks \cup {NoBank}]
      /\ mixed \in [Uploads -> BOOLEAN]
      /\ pc[t] \in Writing => bank[t] = Other(active)
      /\ bank[t] \in {Other(active), NoBank}
  BY <1>0 DEF IndInv, TypeOK, OtherBank
<1>2. ASSUME pc[t] \notin {"none", "ended"}
      PROVE  \A u \in Uploads : u # t => pc[u] \in {"none", "ended"}
  BY <1>0, <1>2 DEF Running
<1>3. ASSUME pc[t] \notin {"none", "ended"}, NEW to, pc' = [pc EXCEPT ![t] = to]
      PROVE  /\ pc'[t] = to
             /\ \A u \in Uploads : u # t => pc'[u] \in {"none", "ended"}
             /\ \A u, v \in Running' : u = v
  <2>1. pc'[t] = to /\ \A u \in Uploads : u # t => pc'[u] = pc[u]
    BY <1>1, <1>3
  <2>2. \A u \in Uploads : u # t => pc'[u] \in {"none", "ended"}
    BY <1>2, <1>3, <2>1
  <2> QED BY <2>1, <2>2 DEF Running
<1>n. NotSet(t) => bank[t] = NoBank
  BY <1>0 DEF NotSet
<1>4. CASE Prepare(t)
  <2>1. /\ pc[t] = "start"
        /\ \E to \in {"invalidate", "fail"} : pc' = [pc EXCEPT ![t] = to]
        /\ UNCHANGED <<flash, mixed>>
    <3>1. ~Faulty({"garbage"})
      BY <1>0
    <3> QED BY <1>4, <3>1 DEF Prepare
  <2> QED BY <1>0, <1>1, <1>3, <2>1 DEF Undone, flash
<1>5. CASE Invalidate(t)
  <2>1. /\ pc[t] = "invalidate" /\ pc' = [pc EXCEPT ![t] = "script"]
        /\ valid' = [valid EXCEPT ![bank[t]] = FALSE]
        /\ UNCHANGED <<active, commit, image, bank, mixed>>
    BY <1>0, <1>1, <1>5, <1>n DEF Invalidate, Writing
  <2>2. commit = active /\ bank[t] = Other(active)
    BY <1>0, <1>1, <2>1 DEF Undone, Writing
  <2>3. image'[commit'] = "whole" /\ valid'[commit']
    BY <1>0, <1>1, <2>1, <2>2
  <2>4. /\ pc'[t] = "script"
        /\ \A u \in Uploads : u # t => pc'[u] \in {"none", "ended"}
        /\ \A u, v \in Running' : u = v
    BY <1>3, <2>1
  <2> QED BY <1>0, <2>1, <2>2, <2>3, <2>4 DEF Undone
<1>6. CASE ScriptStart(t)
  <2>1. /\ pc[t] = "script"
        /\ \E to \in {"flashing", "fail"} : pc' = [pc EXCEPT ![t] = to]
        /\ image' = image \/ image' = [image EXCEPT ![bank[t]] = "part"]
        /\ UNCHANGED <<active, commit, valid, bank>>
    BY <1>6 DEF ScriptStart
  <2>2. commit = active /\ bank[t] = Other(active)
    BY <1>0, <1>1, <2>1 DEF Undone, Writing
  <2>3. \A u \in Uploads : ~mixed'[u]
    <3> DEFINE beside == {u \in Uploads \ {t} : pc[u] = "flashing"
                                                /\ bank[u] = bank[t]}
    <3>1. beside = {}
      BY <1>2, <2>1
    <3>2. \/ UNCHANGED mixed
          \/ mixed' = [u \in Uploads |-> \/ mixed[u] \/ u \in beside
                                         \/ u = t /\ beside # {}]
      BY <1>6 DEF ScriptStart
    <3> HIDE DEF beside
    <3> QED BY <1>0, <3>1, <3>2
  <2>4. image'[commit'] = "whole" /\ valid'[commit']
    BY <1>0, <1>1, <2>1, <2>2
  <2>5. /\ pc'[t] \in {"flashing", "fail"}
        /\ \A u \in Uploads : u # t => pc'[u] \in {"none", "ended"}
        /\ \A u, v \in Running' : u = v
    BY <1>3, <2>1
  <2> QED BY <2>1, <2>2, <2>3, <2>4, <2>5 DEF Undone
<1>7. CASE ScriptEnd(t)
  <2>1. /\ pc[t] = "flashing"
        /\ \/ /\ pc' = [pc EXCEPT ![t] = "mark"]
              /\ image' = [image EXCEPT ![bank[t]] = "whole"]
           \/ pc' = [pc EXCEPT ![t] = "fail"] /\ UNCHANGED image
        /\ UNCHANGED <<active, commit, valid, bank, mixed>>
    BY <1>0, <1>7 DEF ScriptEnd
  <2>2. commit = active /\ bank[t] = Other(active)
    BY <1>0, <1>1, <2>1 DEF Undone, Writing
  <2> QED BY <1>0, <1>1, <1>3, <2>1, <2>2 DEF Undone
<1>8. CASE MarkValid(t)
  <2>1. /\ pc[t] = "mark" /\ pc' = [pc EXCEPT ![t] = "commit"]
        /\ valid' = [valid EXCEPT ![bank[t]] = TRUE]
        /\ UNCHANGED <<active, commit, image, bank, mixed>>
    BY <1>0, <1>8, <1>n DEF MarkValid
  <2>2. commit = active /\ bank[t] = Other(active)
    BY <1>0, <1>1, <2>1 DEF Undone
  <2>3. image'[commit'] = "whole" /\ valid'[commit']
    BY <1>0, <1>1, <2>1, <2>2
  <2>4. image'[bank'[t]] = "whole" /\ valid'[bank'[t]]
    BY <1>0, <1>1, <2>1, <2>2
  <2>5. /\ pc'[t] = "commit"
        /\ \A u \in Uploads : u # t => pc'[u] \in {"none", "ended"}
        /\ \A u, v \in Running' : u = v
    BY <1>3, <2>1
  <2> QED BY <1>0, <2>1, <2>2, <2>3, <2>4, <2>5 DEF Undone
<1>9. CASE Commit(t)
  <2>1. /\ pc[t] = "commit"
        /\ \E to \in {"reboot", "ended"} : pc' = [pc EXCEPT ![t] = to]
        /\ commit' \in {commit, bank[t]}
        /\ UNCHANGED <<active, image, valid>>
    BY <1>9 DEF Commit, CommitInfo, End
  <2>2. \A u \in Uploads : ~mixed'[u]
    BY <1>0, <1>1, <1>9 DEF Commit, End
  <2>3. image'[commit'] = "whole" /\ valid'[commit']
    BY <1>0, <2>1
  <2>4. /\ pc'[t] \in {"reboot", "ended"}
        /\ \A u \in Uploads : u # t => pc'[u] \in {"none", "ended"}
        /\ \A u, v \in Running' : u = v
    BY <1>3, <2>1
  <2> QED BY <2>2, <2>3, <2>4 DEF Undone
<1>10. CASE Fail(t)
  <2>1. /\ pc[t] = "fail" /\ pc' = [pc EXCEPT ![t] = "ended"]
        /\ commit' \in {commit, active}
        /\ mixed' = [mixed EXCEPT ![t] = FALSE]
        /\ UNCHANGED <<active, image, valid>>
    <3>1. bank[t] # NoBank => Other(bank[t]) = active
      BY <1>1
    <3>2. \A b : CommitInfo(t, b) => commit' = commit \/ commit' = b
      BY DEF CommitInfo
    <3>3. \/ bank[t] # NoBank /\ CommitInfo(t, Other(bank[t]))
          \/ commit' = commit
      BY <1>10 DEF Fail
    <3>4. commit' \in {commit, active}
      BY <3>1, <3>2, <3>3
    <3> QED BY <1>10, <3>4 DEF Fail, End
  <2>2. commit = active
    BY <1>0, <2>1 DEF Undone
  <2> QED BY ZenonT(40), <1>0, <1>1, <1>3, <2>1, <2>2 DEF Undone
<1>11. CASE Reboot(t)
  <2>1. /\ pc[t] = "reboot" /\ pc' = [pc EXCEPT ![t] = "ended"]
        /\ mixed' = [mixed EXCEPT ![t] = FALSE]
        /\ UNCHANGED <<active, commit, image, valid>>
    BY <1>11 DEF Reboot, End, flash
  <2> QED BY ZenonT(40), <1>0, <1>1, <1>3, <2>1 DEF Undone
<1> QED BY <1>4, <1>5, <1>6, <1>7, <1>8, <1>9, <1>10, <1>11 DEF Thread

\* A power cycle boots the committed bank.
LEMMA PowerOrderly ==
    ASSUME IndInv, OrderlyInv, causes' = {}, Crash \/ Reset
    PROVE  Orderly'
<1>1. PowerCycle
  BY DEF Crash, Reset
<1>2. /\ causes = {} /\ UNCHANGED <<commit, image, valid>>
      /\ \A t \in Uploads : pc'[t] \in {"none", "ended"} /\ ~mixed'[t]
  BY <1>1 DEF PowerCycle
<1> QED BY <1>2 DEF OrderlyInv, Orderly, Running, Undone

(***************************************************************************)
(* CommitBootableHolds: as long as none of the six causes has happened,    *)
(* the committed bank boots at every step of an upgrade.                   *)
(***************************************************************************)
THEOREM CommitBootableHolds == Spec => []CommitBootable
<1>1. Init => OrderlyInv
  BY DEF Init, OrderlyInv, Orderly, Running, Undone, Banks
<1>2. IndInv /\ OrderlyInv /\ [Next]_vars => OrderlyInv'
  <2> SUFFICES ASSUME IndInv, OrderlyInv, [Next]_vars, causes' = {}
               PROVE  Orderly'
    BY DEF OrderlyInv
  <2>1. CASE UNCHANGED vars
    BY <2>1 DEF OrderlyInv, Orderly, Running, vars, flash, thread
  <2>2. CASE Next
    BY <2>2, WebOrderly, ThreadOrderly, PowerOrderly DEF Next
  <2> QED BY <2>1, <2>2
<1>3. OrderlyInv => CommitBootable
  BY DEF OrderlyInv, Orderly, CommitBootable
<1> QED BY <1>1, <1>2, <1>3, Inductive, PTL DEF Spec
============================================================================
