---------------------------- MODULE IngressReplay ----------------------------
(***************************************************************************)
(* The two Firestore records that guard the signed webhook of the demo     *)
(* provider: the replay receipt of a nonce and the fixed-window counter of *)
(* a rate-limit key.  Each operator is the body of one transaction: what   *)
(* it decides from the stored record, and what it stores.                  *)
(*                                                                         *)
(* A claim c is what one webhook request presents: the nonce's payload     *)
(* digest and semantic id, the lease it generated, and the time at which   *)
(* the request was authenticated.  Times are integers in one unit.         *)
(***************************************************************************)
EXTENDS Integers

CONSTANTS
  LeaseTime,    \* how long a claimed nonce is leased (one minute in the code)
  Window,       \* length of a rate-limit window (one minute)
  Limit         \* requests admitted per key and window (60)

ASSUME ReplayAssumption ==
  LeaseTime \in Nat \ {0} /\ Window \in Nat \ {0} /\ Limit \in Nat \ {0}

ReplayState == {"LEASED", "PUBLISHED", "FAILED_RETRYABLE"}
NoReplay == [state |-> "NONE"]

(***************************************************************************)
(* claim.  A receipt of another payload is a conflict, a published one a   *)
(* duplicate, a live lease of anyone is in progress; everything else is    *)
(* leased to the claim, whoever held it.                                   *)
(***************************************************************************)
\* Mutant: the stored payload is not compared.
SameReplayAlways(stored, c) == TRUE

SameReplay(stored, c) == stored.digest = c.digest /\ stored.semanticId = c.semanticId

\* Mutant: a lease is taken over while it is live.
ClaimDecisionNoLease(stored, c) ==
  CASE stored = NoReplay -> "CLAIMED"
    [] stored # NoReplay /\ ~SameReplay(stored, c) -> "REPLAY_CONFLICT"
    [] stored # NoReplay /\ SameReplay(stored, c) /\ stored.state = "PUBLISHED" -> "DUPLICATE"
    [] OTHER -> "CLAIMED"

\* Mutant: a nonce that is only leased counts as already delivered once its lease has run out.
ClaimDecisionEager(stored, c) ==
  CASE stored = NoReplay -> "CLAIMED"
    [] stored # NoReplay /\ ~SameReplay(stored, c) -> "REPLAY_CONFLICT"
    [] stored # NoReplay /\ SameReplay(stored, c)
         /\ (stored.state = "LEASED" => stored.leaseUntil <= c.now) -> "DUPLICATE"
    [] OTHER -> "IN_PROGRESS"

ClaimDecision(stored, c) ==
  CASE stored = NoReplay -> "CLAIMED"
    [] stored # NoReplay /\ ~SameReplay(stored, c) -> "REPLAY_CONFLICT"
    [] stored # NoReplay /\ SameReplay(stored, c) /\ stored.state = "PUBLISHED" -> "DUPLICATE"
    [] stored # NoReplay /\ SameReplay(stored, c)
         /\ stored.state = "LEASED" /\ stored.leaseUntil > c.now -> "IN_PROGRESS"
    [] OTHER -> "CLAIMED"

LeasedReceipt(c) ==
  [state |-> "LEASED", digest |-> c.digest, semanticId |-> c.semanticId,
   leaseId |-> c.leaseId, leaseUntil |-> c.now + LeaseTime]

(***************************************************************************)
(* markPublished and release share their guard: the receipt must be this   *)
(* payload's; once PUBLISHED they do nothing; otherwise the claim must     *)
(* still hold the lease.                                                   *)
(***************************************************************************)
LeaseOwner(stored, c) == stored.state = "LEASED" /\ stored.leaseId = c.leaseId

Settles(stored, c) ==
  /\ stored # NoReplay
  /\ SameReplay(stored, c)
  /\ stored.state = "PUBLISHED" \/ LeaseOwner(stored, c)

MarkedPublished(stored) == [stored EXCEPT !.state = "PUBLISHED"]

\* Mutant: a release that comes late reopens a published receipt.
ReleasedAlways(stored, c) == [stored EXCEPT !.state = "FAILED_RETRYABLE", !.leaseUntil = c.now]

Released(stored, c) ==
  IF stored.state = "PUBLISHED" THEN stored
  ELSE [stored EXCEPT !.state = "FAILED_RETRYABLE", !.leaseUntil = c.now]

(***************************************************************************)
(* consume: the counter of a window admits up to Limit requests.           *)
(***************************************************************************)
WindowOf(now) == now \div Window

\* Mutant: the comparison lets one request too many through.
AdmitsOneMore(count) == count <= Limit

Admits(count) == count < Limit
==============================================================================
