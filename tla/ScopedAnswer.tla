----------------------------- MODULE ScopedAnswer -----------------------------
(***************************************************************************)
(* What the partner portal promises of a request: it is answered once.     *)
(* The first answer the engine takes binds the request, and only the bound *)
(* answer goes out, as often as it is retried.  A request that was         *)
(* reopened may be bound again, and gives up the promise.                  *)
(***************************************************************************)
CONSTANTS Requests, Responses, None

VARIABLES bound, emitted, reopened

vars == <<bound, emitted, reopened>>

Init ==
  /\ bound = [r \in Requests |-> None]
  /\ emitted = {}
  /\ reopened = {}

Bind(r, a) ==
  /\ bound[r] = None \/ r \in reopened
  /\ bound' = [bound EXCEPT ![r] = a]
  /\ UNCHANGED <<emitted, reopened>>

Emit(r, a) ==
  /\ bound[r] = a \/ r \in reopened
  /\ emitted' = emitted \cup {<<r, a>>}
  /\ UNCHANGED <<bound, reopened>>

Reopen(r) ==
  /\ bound[r] # None
  /\ reopened' = reopened \cup {r}
  /\ UNCHANGED <<bound, emitted>>

Next ==
  \E r \in Requests : Reopen(r) \/ \E a \in Responses : Bind(r, a) \/ Emit(r, a)

Spec == Init /\ [][Next]_vars
==============================================================================
