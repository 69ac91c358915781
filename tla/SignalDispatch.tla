---------------------------- MODULE SignalDispatch ----------------------------
(***************************************************************************)
(* The signals of the web server.  init_signals() installs one handler,    *)
(* set_boa_signal_handler(), that only sets a bit of signal_action; once   *)
(* per pass main() calls boa_do_signal_handler_for_mib(), which looks at   *)
(* the bits in a fixed order, runs the action of each bit that is set and  *)
(* then clears it with &= ~bit: a load and a store, between which a        *)
(* handler may run.  A handler runs between two instructions of main()     *)
(* and, all signals being masked, is not interrupted itself.               *)
(***************************************************************************)
EXTENDS Naturals, SequencesExt

CONSTANTS
  Order,     \* the order in which the bits are looked at
  MaxSignals \* bound: signals sent by others

(* SIGALRM is not deferred and SIGPIPE is ignored.                         *)
Known == <<"SEGV", "BUS", "TERM", "HUP", "INT", "CHLD", "USR1", "USR2">>

ASSUME SignalAssumption ==
  /\ Order = SelectSeq(Known, LAMBDA s : s \in Range(Order))
  /\ MaxSignals \in Nat

Signals == Range(Order)

(* SIGSEGV and SIGBUS come from an instruction of main() itself.           *)
Faults == Signals \cap {"SEGV", "BUS"}

VARIABLES
  pc,             \* main(): "work", "test", "run", "load", "store", "dead"
  at,             \* the place in Order that the dispatch has reached
  reg,            \* what the load that begins the clearing of a bit has read
  signal_action,  \* the bits that are set
  owed,           \* signals delivered since their action was last begun
  fault,          \* the fault that the next instruction of main() raises
  sent            \* how many signals were sent

vars == <<pc, at, reg, signal_action, owed, fault, sent>>

Init ==
  /\ pc = "work" /\ at = 1 /\ reg = {}
  /\ signal_action = {} /\ owed = {} /\ fault = {} /\ sent = 0

(* set_boa_signal_handler(s).                                              *)
Deliver(s) ==
  /\ signal_action' = signal_action \cup {s}
  /\ owed' = owed \cup {s}
  /\ UNCHANGED <<pc, at, reg, fault>>

(* Another process, or a child that ends, sends a signal.                  *)
Receive(s) ==
  /\ pc # "dead" /\ sent < MaxSignals
  /\ sent' = sent + 1
  /\ Deliver(s)

(* main() comes to an instruction that faults.                             *)
Break(s) ==
  /\ pc = "work" /\ fault = {}
  /\ fault' = {s}
  /\ UNCHANGED <<pc, at, reg, signal_action, owed, sent>>

(* The kernel calls the handler; when it returns, the instruction is       *)
(* executed again.                                                         *)
Refault(s) ==
  /\ s \in fault
  /\ Deliver(s)
  /\ UNCHANGED sent

(* The rest of the loop is over: boa_do_signal_handler_for_mib().          *)
Dispatch ==
  /\ pc = "work" /\ fault = {}
  /\ pc' = "test" /\ at' = 1
  /\ UNCHANGED <<reg, signal_action, owed, fault, sent>>

(* The test of a bit, or the return to the loop after the last one.        *)
Test ==
  /\ pc = "test"
  /\ IF at > Len(Order)
       THEN pc' = "work" /\ at' = 1 /\ UNCHANGED owed
       ELSE IF Order[at] \in signal_action
       THEN pc' = "run" /\ owed' = owed \ {Order[at]} /\ UNCHANGED at
       ELSE pc' = "test" /\ at' = at + 1 /\ UNCHANGED owed
  /\ UNCHANGED <<reg, signal_action, fault, sent>>

(* The action: sigsegv() and sigbus() abort, sigint() exits, the others    *)
(* come back.                                                              *)
Fatal == {"SEGV", "BUS", "INT"}

Run ==
  /\ pc = "run"
  /\ pc' = IF Order[at] \in Fatal THEN "dead" ELSE "load"
  /\ UNCHANGED <<at, reg, signal_action, owed, fault, sent>>

Load ==
  /\ pc = "load"
  /\ reg' = signal_action
  /\ pc' = "store"
  /\ UNCHANGED <<at, signal_action, owed, fault, sent>>

(* What the store writes.  Mutants: all bits are kept; all are cleared.    *)
ClearedKeep == reg

ClearedAll == {}

Cleared == reg \ {Order[at]}

Store ==
  /\ pc = "store"
  /\ signal_action' = Cleared
  /\ pc' = "test" /\ at' = at + 1 /\ reg' = {}
  /\ UNCHANGED <<owed, fault, sent>>

Main == Dispatch \/ Test \/ Run \/ Load \/ Store

Next ==
  \/ Main
  \/ \E s \in Signals \ Faults : Receive(s)
  \/ \E s \in Faults : Break(s) \/ Refault(s)

Spec == Init /\ [][Next]_vars

(* main() is one thread that never blocks for more than the time-out of    *)
(* its select(); a faulting instruction faults again.                      *)
FairSpec == Spec /\ WF_vars(Main) /\ \A s \in Faults : WF_vars(Refault(s))

-----------------------------------------------------------------------------
(* The action of a signal is not begun without a delivery since its last   *)
(* run, and bits are left over by no path of the dispatch: outside the     *)
(* stretch from the test of a bit to its clearing, every bit is owed.      *)
NoSpurious ==
  /\ pc \in {"work", "test"} => signal_action \subseteq owed
  /\ pc \in {"run", "load", "store"} => signal_action \ {Order[at]} \subseteq owed

(* A signal whose bit is set while main() is at its own work has its       *)
(* action run in the next dispatch, whatever other signals arrive then.    *)
WorkSignalsRun ==
  \A s \in Signals \ Faults :
    (pc = "work" /\ s \in signal_action /\ fault = {})
      ~> (s \notin owed \/ pc = "dead" \/ fault # {})
=============================================================================
