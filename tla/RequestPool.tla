----------------------------- MODULE RequestPool -----------------------------
(***************************************************************************)
(* What the request engine promises about its connections, whatever the    *)
(* clients do: a struct of the pool serves one connection at a time; after *)
(* a request to terminate no connection is admitted, those under way are   *)
(* served to their end, and the process exits only when none is left.      *)
(***************************************************************************)
CONSTANT Requests

VARIABLES
  busy,      \* requests that serve a connection
  draining,  \* the server has been told to terminate
  exited     \* the process has exited

vars == <<busy, draining, exited>>

Init == busy = {} /\ draining = FALSE /\ exited = FALSE

Admit(r) ==
  /\ ~draining /\ r \notin busy
  /\ busy' = busy \cup {r}
  /\ UNCHANGED <<draining, exited>>

(* One pass over the block list may time out several connections.          *)
Release(rs) ==
  /\ ~exited
  /\ busy' = busy \ rs
  /\ UNCHANGED <<draining, exited>>

(* An idle server may exit as soon as it is told to.                       *)
Terminate ==
  /\ draining' = TRUE
  /\ \/ UNCHANGED exited
     \/ busy = {} /\ exited' = TRUE
  /\ UNCHANGED busy

Next ==
  \/ \E r \in Requests : Admit(r)
  \/ \E rs \in SUBSET Requests : Release(rs)
  \/ Terminate

Spec == Init /\ [][Next]_vars
=============================================================================
