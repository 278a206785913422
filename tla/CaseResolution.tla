--------------------------- MODULE CaseResolution ---------------------------
(***************************************************************************)
(* The life of one seeded case.  Signed provider events and scoped partner *)
(* responses reach the engine through a broker that may deliver late, out  *)
(* of order and more than once; several engine instances handle them, each *)
(* loading the case, planning a mutation and committing it later under an  *)
(* expected version; the automation worker evaluates resolution the same   *)
(* way from the requests the commits leave in the outbox; callers of       *)
(* transitionCase move the case along the transition matrix.  Any of them  *)
(* may crash between two of its store calls.                               *)
(*                                                                         *)
(* Time is abstracted: a lease may expire, and a retry may fall due, at    *)
(* any moment.                                                             *)
(***************************************************************************)
EXTENDS CaseStore

CONSTANTS
  Handlers,             \* concurrent push deliveries in the engine
  Callers,              \* concurrent calls of transitionCase
  Workers,              \* automation batches
  CallerTriggers,       \* trigger kinds those callers pass
  Releasing,            \* whether a gateway client calls the release operation
  MaxRetries,           \* retry cap of an automation request (5 in the code)
  MaxDeliveryAttempts,  \* dead-letter bound of the subscription (5)
  MaxVersion,           \* bound: callers start no transition beyond this version
  MaxCrashes            \* bound: crashes in a behaviour

ASSUME ResolutionAssumption ==
  /\ CallerTriggers \subseteq TriggerKind
  /\ Releasing \in BOOLEAN
  /\ MaxRetries \in Nat \ {0}
  /\ MaxDeliveryAttempts \in Nat \ {0}
  /\ MaxVersion \in Nat
  /\ MaxCrashes \in Nat

VARIABLES
  db,        \* the stored records of the case
  handlers,  \* local state of each push delivery
  callers,   \* local state of each transitionCase call
  workers,   \* local state of each automation batch
  prepared,  \* partner events prepared by the engine and not yet published
  broker,    \* events accepted by the broker: each may be delivered again
  attempts,  \* failed deliveries of each event
  acks,      \* history: every acknowledged processing result
  crashes    \* crashes so far

vars == <<db, handlers, callers, workers, prepared, broker, attempts, acks, crashes>>

Deliverable == ProviderEvents \cup PartnerEvents
Idle == [pc |-> "idle"]

Init ==
  /\ db = SeededCase
  /\ handlers = [h \in Handlers |-> Idle]
  /\ callers = [c \in Callers |-> Idle]
  /\ workers = [w \in Workers |-> Idle]
  /\ prepared = {}
  /\ broker = {}
  /\ attempts = [e \in Deliverable |-> 0]
  /\ acks = {}
  /\ crashes = 0

(***************************************************************************)
(* Ingress and partner gateway.                                            *)
(***************************************************************************)
PublishProviderEvent(e) ==
  /\ e \notin broker
  /\ broker' = broker \cup {e}
  /\ UNCHANGED <<db, handlers, callers, workers, prepared, attempts, acks, crashes>>

SetReceipt(r, receipt) ==
  /\ db' = [db EXCEPT !.receipts[r] = receipt]
  /\ UNCHANGED <<handlers, callers, workers, broker, attempts, acks, crashes>>

\* Mutant: a token in use may be reserved for another answer.
ReserveSubmissionAgain(r, a) ==
  /\ SetReceipt(r, [state |-> "RESERVED", event |-> PartnerEvent(r, a, 0).id])
  /\ UNCHANGED prepared

\* A submission whose access check finds the token usable reserves it for one event.
ReserveSubmission(r, a) ==
  /\ db.receipts[r].state \in {"OPEN", "FAILED_RETRYABLE"}
  /\ SetReceipt(r, [state |-> "RESERVED", event |-> PartnerEvent(r, a, 0).id])
  /\ UNCHANGED prepared

\* The reservation is marked PUBLISHED and the event handed to the publisher; an
\* identical submission repeats this with the timestamp of its own attempt.
MarkSubmissionPublished(r, a, t) ==
  LET event == PartnerEvent(r, a, t) IN
  /\ db.receipts[r].state \in {"RESERVED", "PUBLISHED"}
  /\ db.receipts[r].event = event.id
  /\ SetReceipt(r, [state |-> "PUBLISHED", event |-> event.id])
  /\ prepared' = prepared \cup ({event} \ broker)

ReleaseSubmission(r) ==
  /\ Releasing
  /\ db.receipts[r].state \in {"RESERVED", "PUBLISHED"}
  /\ SetReceipt(r, [db.receipts[r] EXCEPT !.state = "FAILED_RETRYABLE"])
  /\ UNCHANGED prepared

PublishPartnerEvent(e) ==
  /\ e \in prepared
  /\ prepared' = prepared \ {e}
  /\ broker' = broker \cup {e}
  /\ UNCHANGED <<db, handlers, callers, workers, attempts, acks, crashes>>

(***************************************************************************)
(* A push delivery: processProviderEvent or processPartnerEvent, and the   *)
(* acknowledgement the push route derives from its result.                 *)
(***************************************************************************)
Ack(e, result) == acks' = acks \cup {[event |-> e, result |-> result]}

StoredEvents(e) == { s \in db.events : s.id = e.id }

\* Mutant: an equal id is taken for an equal event.
DuplicateById(e) == "DUPLICATE_EVENT"

\* Equal digests mean the same event; another payload under the id fails closed.
DuplicateOrIntegrity(e) ==
  IF e \in StoredEvents(e) THEN "DUPLICATE_EVENT" ELSE "CASE_INTEGRITY_ERROR"

EventValid(e) == e \in PartnerEvents => PartnerEventValid(db, e)

PlanEvent(e) ==
  AttachOutbox(IF e \in ProviderEvents THEN PlanProviderRefund(db, e)
                                       ELSE PlanPartnerEvidence(db, e))

CanDeliver(h, e) ==
  /\ e \in broker
  /\ attempts[e] < MaxDeliveryAttempts
  /\ handlers[h] = Idle

\* The event id is already stored, or the plan is refused: settled on the first load.
DeliverSettled(h, e) ==
  /\ CanDeliver(h, e)
  /\ \/ /\ StoredEvents(e) # {}
        /\ Ack(e, DuplicateOrIntegrity(e))
     \/ /\ StoredEvents(e) = {}
        /\ ~EventValid(e)
        /\ Ack(e, "CASE_INTEGRITY_ERROR")
  /\ UNCHANGED <<db, handlers, callers, workers, prepared, broker, attempts, crashes>>

DeliverPlanned(h, e) ==
  /\ CanDeliver(h, e)
  /\ StoredEvents(e) = {}
  /\ EventValid(e)
  /\ handlers' = [handlers EXCEPT ![h] = [pc |-> "planned", event |-> e, mutation |-> PlanEvent(e)]]
  /\ UNCHANGED <<db, callers, workers, prepared, broker, attempts, acks, crashes>>

CommitEvent(h) ==
  LET m == handlers[h].mutation
      e == handlers[h].event
      result == CommitResult(db, m)
  IN  /\ handlers[h].pc = "planned"
      /\ db' = IF result = "COMMITTED" THEN ApplyMutation(db, m) ELSE db
      /\ IF result = "VERSION_CONFLICT"
           THEN /\ handlers' = [handlers EXCEPT ![h] = [pc |-> "conflict", event |-> e]]
                /\ UNCHANGED acks
           ELSE /\ handlers' = [handlers EXCEPT ![h] = Idle]
                /\ Ack(e, result)
      /\ UNCHANGED <<callers, workers, prepared, broker, attempts, crashes>>

\* Mutant: a delivery that lost to another event is acknowledged all the same.
RecheckEventRejecting(h) ==
  LET e == handlers[h].event IN
  /\ handlers[h].pc = "conflict"
  /\ handlers' = [handlers EXCEPT ![h] = Idle]
  /\ Ack(e, IF StoredEvents(e) # {} THEN DuplicateOrIntegrity(e) ELSE "VERSION_CONFLICT")
  /\ UNCHANGED <<db, callers, workers, prepared, broker, attempts, crashes>>

\* Mutant: a delivery that lost waits for the winner to be its own event.
RecheckEventWaiting(h) ==
  LET e == handlers[h].event IN
  /\ handlers[h].pc = "conflict"
  /\ StoredEvents(e) # {}
  /\ handlers' = [handlers EXCEPT ![h] = Idle]
  /\ Ack(e, DuplicateOrIntegrity(e))
  /\ UNCHANGED <<db, callers, workers, prepared, broker, attempts, crashes>>

\* After a version conflict the bundle is loaded again: a concurrent delivery of the
\* same event settles this one, any other winner sends it back to the broker.
RecheckEvent(h) ==
  LET e == handlers[h].event IN
  /\ handlers[h].pc = "conflict"
  /\ handlers' = [handlers EXCEPT ![h] = Idle]
  /\ IF StoredEvents(e) # {}
       THEN Ack(e, DuplicateOrIntegrity(e)) /\ UNCHANGED attempts
       ELSE attempts' = [attempts EXCEPT ![e] = @ + 1] /\ UNCHANGED acks
  /\ UNCHANGED <<db, callers, workers, prepared, broker, crashes>>

\* The instance dies before it answers: the delivery times out and counts as failed.
CrashHandler(h) ==
  LET e == handlers[h].event IN
  /\ handlers[h] # Idle
  /\ crashes < MaxCrashes
  /\ crashes' = crashes + 1
  /\ handlers' = [handlers EXCEPT ![h] = Idle]
  /\ attempts' = [attempts EXCEPT ![e] = @ + 1]
  /\ UNCHANGED <<db, callers, workers, prepared, broker, acks>>

(***************************************************************************)
(* transitionCase.                                                         *)
(***************************************************************************)
PlanTransition(c, target, kind, evidenceIds) ==
  /\ callers[c] = Idle
  /\ db.kase.version < MaxVersion
  /\ TransitionAllowed(db.kase, target, kind, evidenceIds)
  /\ callers' = [callers EXCEPT ![c] =
       [pc |-> "planned", mutation |-> PlanCallerTransition(db, target, kind, evidenceIds)]]
  /\ UNCHANGED <<db, handlers, workers, prepared, broker, attempts, acks, crashes>>

\* Mutant: the result of the commit is not looked at.
CommitTransitionBlind(c) ==
  /\ callers[c].pc = "planned"
  /\ db' = ApplyMutation(db, callers[c].mutation)
  /\ callers' = [callers EXCEPT ![c] = Idle]
  /\ UNCHANGED <<handlers, workers, prepared, broker, attempts, acks, crashes>>

\* Any result but COMMITTED is thrown to the caller.
CommitTransition(c) ==
  LET m == callers[c].mutation IN
  /\ callers[c].pc = "planned"
  /\ db' = IF CommitResult(db, m) = "COMMITTED" THEN ApplyMutation(db, m) ELSE db
  /\ callers' = [callers EXCEPT ![c] = Idle]
  /\ UNCHANGED <<handlers, workers, prepared, broker, attempts, acks, crashes>>

(***************************************************************************)
(* The automation batch, for EVALUATE_RESOLUTION requests.  A claim takes  *)
(* queued work, or work whose lease has expired at the price of a retry.   *)
(***************************************************************************)
RetriesOnClaim(request) == request.retries + (IF request.state = "LEASED" THEN 1 ELSE 0)

MayBeClaimed(v) ==
  /\ v \in DOMAIN db.requests
  /\ db.requests[v].state \in {"PENDING", "FAILED_RETRYABLE", "LEASED"}
  /\ RetriesOnClaim(db.requests[v]) < MaxRetries

\* Mutant: a claim takes the request off the queue before the work is done.
ClaimRequestOnce(w, v) ==
  /\ workers[w] = Idle
  /\ v \in DOMAIN db.requests
  /\ db.requests[v].state = "PENDING"
  /\ db' = [db EXCEPT !.requests[v].state = "SUCCEEDED"]
  /\ workers' = [workers EXCEPT ![w] = [pc |-> "claimed", version |-> v]]
  /\ UNCHANGED <<handlers, callers, prepared, broker, attempts, acks, crashes>>

ClaimRequest(w, v) ==
  /\ workers[w] = Idle
  /\ MayBeClaimed(v)
  /\ db' = [db EXCEPT !.requests[v] =
              [state |-> "LEASED", owner |-> w, retries |-> RetriesOnClaim(db.requests[v])]]
  /\ workers' = [workers EXCEPT ![w] = [pc |-> "claimed", version |-> v]]
  /\ UNCHANGED <<handlers, callers, prepared, broker, attempts, acks, crashes>>

Finishing(v, outcome) == [pc |-> "finishing", version |-> v, outcome |-> outcome]

\* The bundle is loaded: stale work is terminal, an evaluation without change succeeds.
DecideRequest(w) ==
  LET v == workers[w].version IN
  /\ workers[w].pc = "claimed"
  /\ \/ /\ db.kase.version # v
        /\ workers' = [workers EXCEPT ![w] = Finishing(v, "FAILED_TERMINAL")]
     \/ /\ db.kase.version = v
        /\ ~ResolutionReady(db)
        /\ workers' = [workers EXCEPT ![w] = Finishing(v, "SUCCEEDED")]
     \/ /\ db.kase.version = v
        /\ ResolutionReady(db)
        /\ \E cited \in ResolutionEvidence(db) :
             workers' = [workers EXCEPT ![w] =
               [pc |-> "planned", version |-> v,
                mutation |-> AttachOutbox(PlanResolution(db, cited))]]
  /\ UNCHANGED <<db, handlers, callers, prepared, broker, attempts, acks, crashes>>

CommitResolution(w) ==
  LET m == workers[w].mutation
      result == CommitResult(db, m)
      outcome == CASE result = "COMMITTED"        -> "SUCCEEDED"
                   [] result = "VERSION_CONFLICT" -> "FAILED_RETRYABLE"
                   [] OTHER                       -> "FAILED_TERMINAL"
  IN  /\ workers[w].pc = "planned"
      /\ db' = IF result = "COMMITTED" THEN ApplyMutation(db, m) ELSE db
      /\ workers' = [workers EXCEPT ![w] = Finishing(workers[w].version, outcome)]
      /\ UNCHANGED <<handlers, callers, prepared, broker, attempts, acks, crashes>>

CompletedRequest(request, outcome) ==
  LET retries == request.retries + (IF outcome = "FAILED_RETRYABLE" THEN 1 ELSE 0) IN
  [state |-> IF outcome = "FAILED_RETRYABLE" /\ retries >= MaxRetries
               THEN "FAILED_TERMINAL" ELSE outcome,
   owner |-> "nobody", retries |-> retries]

\* Only the lease owner completes; a mismatch is reported to a worker that ignores it.
CompleteRequest(w) ==
  LET v == workers[w].version
      request == db.requests[v]
  IN  /\ workers[w].pc = "finishing"
      /\ db' = IF request.state = "LEASED" /\ request.owner = w
                 THEN [db EXCEPT !.requests[v] = CompletedRequest(request, workers[w].outcome)]
                 ELSE db
      /\ workers' = [workers EXCEPT ![w] = Idle]
      /\ UNCHANGED <<handlers, callers, prepared, broker, attempts, acks, crashes>>

CrashWorker(w) ==
  /\ workers[w] # Idle
  /\ crashes < MaxCrashes
  /\ crashes' = crashes + 1
  /\ workers' = [workers EXCEPT ![w] = Idle]
  /\ UNCHANGED <<db, handlers, callers, prepared, broker, attempts, acks>>

-----------------------------------------------------------------------------

Ingress ==
  \/ \E e \in ProviderEvents : PublishProviderEvent(e)
  \/ \E r \in PartnerRequests, a \in Responses :
       \/ ReserveSubmission(r, a)
       \/ \E t \in Stamps : MarkSubmissionPublished(r, a, t)
  \/ \E r \in PartnerRequests : ReleaseSubmission(r)
  \/ \E e \in PartnerEvents : PublishPartnerEvent(e)

HandlerStep(h) == CommitEvent(h) \/ RecheckEvent(h)

Handling ==
  \E h \in Handlers :
    \/ \E e \in Deliverable : DeliverSettled(h, e) \/ DeliverPlanned(h, e)
    \/ HandlerStep(h)
    \/ CrashHandler(h)

Calling ==
  \E c \in Callers :
    \/ \E target \in CaseState, kind \in CallerTriggers,
          evidenceIds \in {{}, IdsOf(db.evidence)} :
         PlanTransition(c, target, kind, evidenceIds)
    \/ CommitTransition(c)

WorkerStep(w) == DecideRequest(w) \/ CommitResolution(w) \/ CompleteRequest(w)

Automation ==
  \E w \in Workers :
    \/ \E v \in DOMAIN db.requests : ClaimRequest(w, v)
    \/ WorkerStep(w)
    \/ CrashWorker(w)

Next == Ingress \/ Handling \/ Calling \/ Automation

(***************************************************************************)
(* Fairness: the broker keeps delivering an event until it is settled, the *)
(* scheduler keeps starting batches, and a process that was not killed     *)
(* gets through its calls.  Nothing obliges a provider, a partner or a     *)
(* caller to act, and nothing obliges a process to crash.                  *)
(***************************************************************************)
Fairness ==
  /\ \A e \in Deliverable :
       WF_vars(\E h \in Handlers : DeliverSettled(h, e) \/ DeliverPlanned(h, e))
  /\ \A h \in Handlers : WF_vars(HandlerStep(h))
  /\ \A w \in Workers : WF_vars(WorkerStep(w))
  /\ \A w \in Workers :
       WF_vars(db.kase.version \in DOMAIN db.requests /\ ClaimRequest(w, db.kase.version))

Spec == Init /\ [][Next]_vars
FairSpec == Spec /\ Fairness

(***************************************************************************)
(* Types.                                                                  *)
(***************************************************************************)
EvidenceId == EventId
ClaimId == ({"refund-exists", "refund-status"} \X (Providers \X Refunds))
             \cup ({"partner"} \X (EvidenceType \X PartnerRequests))
             \cup ({"seed"} \X ({"refund"} \X {"processed"}))

Evidence ==
  [id: EvidenceId, type: {"COMMUNICATION", "PROVIDER_TRANSACTION", "PARTNER_RESPONSE"},
   source: Providers \cup {"LOCAL_DEMO_FIXTURE", "resolvia_demo_partner"},
   level: VerificationLevel, requested: EvidenceType \cup {"NONE"},
   status: ProviderStatus \cup {"NONE", "CONFIRMED", "NOT_CONFIRMED"}, about: SUBSET ClaimId]

Claim ==
  [id: ClaimId, claimant: Party, source: EventId,
   status: {"SUPPORTED", "CONTRADICTED", "UNVERIFIED"}, evidence: SUBSET EvidenceId]

Transaction ==
  [id: Providers \X Refunds, status: {"PENDING", "SUCCEEDED", "FAILED", "CANCELED"},
   evidence: EvidenceId]

RequestState == {"PENDING", "LEASED", "SUCCEEDED", "FAILED_RETRYABLE", "FAILED_TERMINAL"}
Request == [state: RequestState, owner: Workers \cup {"nobody"}, retries: 0..MaxRetries]

CaseMutation ==
  [expected: Nat, kase: CaseRecord, events: SUBSET Event, evidence: SUBSET Evidence,
   claims: SUBSET Claim, transactions: SUBSET Transaction, audit: Audit, requests: SUBSET Nat]

DatabaseOK ==
  /\ DOMAIN db = {"kase", "events", "evidence", "claims", "transactions", "audits",
                  "requests", "receipts"}
  /\ db.kase \in CaseRecord
  /\ db.events \subseteq Event
  /\ db.evidence \subseteq Evidence
  /\ db.claims \subseteq Claim
  /\ db.transactions \subseteq Transaction
  /\ db.audits \in Seq(Audit)
  /\ DOMAIN db.requests \subseteq Nat
  /\ \A v \in DOMAIN db.requests : db.requests[v] \in Request
  /\ db.receipts \in [PartnerRequests -> Receipt]

HandlerState ==
  {Idle} \cup [pc: {"planned"}, event: Deliverable, mutation: CaseMutation]
         \cup [pc: {"conflict"}, event: Deliverable]

CallerState == {Idle} \cup [pc: {"planned"}, mutation: CaseMutation]

WorkerState ==
  {Idle} \cup [pc: {"claimed"}, version: Nat]
         \cup [pc: {"planned"}, version: Nat, mutation: CaseMutation]
         \cup [pc: {"finishing"}, version: Nat,
               outcome: {"SUCCEEDED", "FAILED_RETRYABLE", "FAILED_TERMINAL"}]

TypeOK ==
  /\ DatabaseOK
  /\ handlers \in [Handlers -> HandlerState]
  /\ callers \in [Callers -> CallerState]
  /\ workers \in [Workers -> WorkerState]
  /\ prepared \subseteq PartnerEvents
  /\ broker \subseteq Deliverable
  /\ attempts \in [Deliverable -> Nat]
  /\ acks \subseteq [event: Deliverable,
                     result: {"COMMITTED", "DUPLICATE_EVENT", "CASE_INTEGRITY_ERROR"}]
  /\ crashes \in 0..MaxCrashes

(***************************************************************************)
(* Safety.                                                                 *)
(***************************************************************************)
\* Optimistic concurrency loses nothing: every version above the seed's has exactly one
\* audit record, each audit starts in the state the one before it ended in, and the last
\* one ends in the state the case is in.  A mutation planned from an older bundle and
\* applied anyway breaks the chain.
AuditTrail ==
  /\ db.kase.version = Len(db.audits) + 2
  /\ \A i \in 1..(Len(db.audits) - 1) : db.audits[i].resulting = db.audits[i + 1].previous
  /\ db.audits[Len(db.audits)].resulting = db.kase.state

\* However often an event is delivered and to however many instances, it has one semantic
\* effect: no two stored events share an id, and no two audit records of events that come
\* from the broker or from automation name the same trigger.
OneSemanticEffect ==
  /\ \A e, f \in db.events : e.id = f.id => e = f
  /\ \A i, j \in DOMAIN db.audits :
       /\ db.audits[i].trigger = db.audits[j].trigger
       /\ db.audits[i].trigger[1] # "trigger"
       => i = j

\* Whenever the audit trail shows the case becoming RESOLVED, that audit cites stored
\* evidence of a succeeded provider transaction and of a confirmed customer receipt.
ResolutionJustified ==
  \A i \in DOMAIN db.audits :
    db.audits[i].resulting = "RESOLVED" /\ db.audits[i].previous # "RESOLVED" =>
      /\ \E t \in db.transactions, ev \in db.evidence :
           SucceededOutcome(db, t, ev) /\ ev.id \in db.audits[i].evidence
      /\ \E ev \in db.evidence : ConfirmedReceipt(db, ev) /\ ev.id \in db.audits[i].evidence

\* A process that resolves the case does it on what is stored at that very moment: no claim
\* is contradicted in the state its commit is applied to, although the claims were read
\* two steps earlier.
NoResolutionOverContradiction ==
  [][db.kase.state # "RESOLVED" /\ db'.kase.state = "RESOLVED" => ~ContradictionBlocks(db)]_vars

\* An event acknowledged as processed is in the store, with the payload that was
\* acknowledged, in every later state.
AckedMeansStored ==
  \A a \in acks : a.result \in {"COMMITTED", "DUPLICATE_EVENT"} => a.event \in db.events

\* A worker is at the request of a version: it holds a claim it has yet to decide, or a
\* mutation planned from that version.
Attended(v) == \E w \in Workers : workers[w].pc \in {"claimed", "planned"} /\ workers[w].version = v

\* As long as fewer processes died than a request has attempts, a case whose evidence
\* satisfies every gate is never left without an evaluation to come: a worker is at the
\* request pinned to its current version, or one that starts now may claim it.
ResolutionNeverStranded ==
  ResolutionReady(db) /\ crashes < MaxRetries =>
    Attended(db.kase.version) \/ MayBeClaimed(db.kase.version)

\* One scoped request yields one answer: the case never stores two different partner
\* responses to the same request.
OneResponsePerRequest ==
  \A e, f \in db.events :
    /\ e.kind = "PARTNER_EVIDENCE_SUBMITTED" /\ f.kind = "PARTNER_EVIDENCE_SUBMITTED"
    /\ RequestOf(e) = RequestOf(f)
    => e = f

(***************************************************************************)
(* Liveness.                                                               *)
(***************************************************************************)
\* A case that is ready does not stay ready: it is resolved, or new evidence intervenes.
ReadyCaseIsDecided == ResolutionReady(db) ~> ~ResolutionReady(db)

\* Every event the broker accepted is settled by an acknowledgement or dead-lettered.
AcceptedEventsSettle ==
  \A e \in Deliverable :
    e \in broker ~> \/ \E a \in acks : a.event = e
                    \/ attempts[e] >= MaxDeliveryAttempts

(***************************************************************************)
(* What the repository says of the program and the code does not do.       *)
(***************************************************************************)
\* The state of a case changes only along a pair the transition matrix declares, and never
\* out of CLOSED (tests/unit/state-machine.test.ts).
DeclaredTransitionsOnly ==
  [][db'.kase.state # db.kase.state =>
       \E rule \in TransitionMatrix : rule.from = db.kase.state /\ rule.to = db'.kase.state]_vars

\* A provider event forwarded by the adapter is processed, or was already: it is never
\* refused (docs/runbooks/stripe-test-mode-smoke.md).
ProviderEventsAccepted ==
  \A a \in acks : a.event \in ProviderEvents => a.result # "CASE_INTEGRITY_ERROR"

\* A submission retried with the same response is deduplicated, not refused
\* (src/application/partners/submit-partner-response.ts).
RetryDeduplicated ==
  \A a \in acks :
    a.event \in PartnerEvents /\ StoredEvents(a.event) # {} => a.result # "CASE_INTEGRITY_ERROR"
=============================================================================
