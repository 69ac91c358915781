------------------------- MODULE SignalDispatchProofs -------------------------
(***************************************************************************)
(* No action of a signal is run without a delivery, for any set of         *)
(* signals and any number of deliveries.                                   *)
(***************************************************************************)
EXTENDS SignalDispatch, TLAPS

(* NoSpurious is not inductive: the store writes back what the load read,  *)
(* so what was read has to be owed as well.  Deliveries between the two    *)
(* only add to owed.                                                       *)
IndInv ==
  /\ NoSpurious
  /\ pc = "store" => reg \ {Order[at]} \subseteq owed

(* boa_do_signal_handler_for_mib() begins the action of a signal only if   *)
(* it was delivered since its last run, in spite of the handlers that run  *)
(* between its load and its store.                                         *)
THEOREM NoSpuriousHolds == Spec => []NoSpurious
<1>1. Init => IndInv
  BY DEF Init, IndInv, NoSpurious
<1>2. IndInv /\ [Next]_vars => IndInv'
  <2> SUFFICES ASSUME IndInv, [Next]_vars
               PROVE  IndInv'
    OBVIOUS
  <2>1. ASSUME NEW s \in Signals, Receive(s) PROVE IndInv'
    BY <2>1 DEF IndInv, NoSpurious, Receive, Deliver
  <2>2. ASSUME NEW s \in Faults, Break(s) PROVE IndInv'
    BY <2>2 DEF IndInv, NoSpurious, Break
  <2>3. ASSUME NEW s \in Faults, Refault(s) PROVE IndInv'
    BY <2>3 DEF IndInv, NoSpurious, Refault, Deliver
  <2>4. CASE Dispatch
    BY <2>4 DEF IndInv, NoSpurious, Dispatch
  <2>5. CASE Test
    <3>1. CASE at > Len(Order)
      BY <2>5, <3>1 DEF IndInv, NoSpurious, Test
    <3>2. CASE ~(at > Len(Order)) /\ Order[at] \in signal_action
      BY <2>5, <3>2 DEF IndInv, NoSpurious, Test
    <3>3. CASE ~(at > Len(Order)) /\ Order[at] \notin signal_action
      BY <2>5, <3>3 DEF IndInv, NoSpurious, Test
    <3> QED
      BY <3>1, <3>2, <3>3
  <2>6. CASE Run
    BY <2>6 DEF IndInv, NoSpurious, Run
  <2>7. CASE Load
    BY <2>7 DEF IndInv, NoSpurious, Load
  <2>8. CASE Store
    BY <2>8 DEF IndInv, NoSpurious, Store, Cleared
  <2>9. CASE UNCHANGED vars
    BY <2>9 DEF IndInv, NoSpurious, vars
  <2> QED
    BY <2>1, <2>2, <2>3, <2>4, <2>5, <2>6, <2>7, <2>8, <2>9 DEF Next, Main
<1>3. IndInv => NoSpurious
  BY DEF IndInv
<1> QED
  BY <1>1, <1>2, <1>3, PTL DEF Spec
=============================================================================
