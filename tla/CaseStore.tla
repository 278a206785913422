------------------------------ MODULE CaseStore ------------------------------
(***************************************************************************)
(* The authoritative records of one resolution case and everything the     *)
(* domain layer computes from them: the transition matrix, the policies    *)
(* that plan a mutation from a loaded bundle (signed provider refund,      *)
(* scoped partner response, automated resolution, caller transition), the  *)
(* outbox attached to a mutation, and the store boundary that accepts or   *)
(* rejects one.  No variable is declared here; CaseResolution keeps the    *)
(* records in a variable and interleaves the handlers that use them.       *)
(*                                                                         *)
(* A bundle or snapshot d is a record                                      *)
(*   kase         the case record: state, version, parties, resolvedAt     *)
(*   events, evidence, claims, transactions   sets of records              *)
(*   audits       sequence of audit records                                *)
(*   requests     EVALUATE_RESOLUTION automation requests, keyed by the    *)
(*                case version they are pinned to (automationKey)          *)
(*   receipts     partner token receipts, one per partner request          *)
(*                                                                         *)
(* Record ids are built as the code builds them: "evidence:<eventId>" is   *)
(* the evidence whose field event is that id, and so on.  Texts (summary,  *)
(* blocker, next best action) are left out.                                *)
(***************************************************************************)
EXTENDS Integers, Sequences, FiniteSets

CONSTANTS
  Providers,        \* provider names a signed event may carry
  Refunds,          \* provider object ids
  ProviderEventIds, \* provider event ids (Stripe evt_..., demo nonce-bound ids)
  ProviderEvents,   \* the normalized provider events the adapters emit
  PartnerRequests,  \* partner requests opened for the case
  RequestedType,    \* evidence type each partner request asks for
  Responses,        \* structured responses a partner may give
  ResponseStatus,   \* CONFIRMED or NOT_CONFIRMED, per response
  Stamps            \* timestamps an attempt may carry (occurredAt, receivedAt)

CaseState ==
  {"NEW", "EVIDENCE_COLLECTION", "INVESTIGATING", "WAITING_EXTERNAL",
   "ACTION_REQUIRED", "ESCALATION_REQUIRED", "RESOLUTION_PENDING",
   "RESOLVED", "CLOSED"}

EvidenceType == {"SETTLEMENT_OCCURRED", "CUSTOMER_RECEIPT"}
ProviderStatus == {"pending", "requires_action", "succeeded", "failed", "canceled"}

(***************************************************************************)
(* The transition matrix.                                                  *)
(***************************************************************************)
Rule(from, to, triggers) == [from |-> from, to |-> to, triggers |-> triggers]

TransitionMatrix ==
  { Rule("NEW", "EVIDENCE_COLLECTION", {"CASE_INTAKE_STARTED"}),
    Rule("EVIDENCE_COLLECTION", "INVESTIGATING", {"INITIAL_EVIDENCE_RECORDED"}),
    Rule("INVESTIGATING", "WAITING_EXTERNAL", {"EXTERNAL_EVIDENCE_REQUESTED"}),
    Rule("INVESTIGATING", "ACTION_REQUIRED", {"USER_ACTION_REQUIRED"}),
    Rule("INVESTIGATING", "ESCALATION_REQUIRED", {"ESCALATION_NEEDED"}),
    Rule("INVESTIGATING", "RESOLUTION_PENDING", {"RESOLUTION_PROVISIONAL"}),
    Rule("WAITING_EXTERNAL", "INVESTIGATING", {"RELEVANT_EVIDENCE_RECEIVED"}),
    Rule("ACTION_REQUIRED", "INVESTIGATING",
         {"REQUIRED_ACTION_COMPLETED", "RELEVANT_EVIDENCE_RECEIVED"}),
    Rule("ESCALATION_REQUIRED", "INVESTIGATING",
         {"ESCALATION_COMPLETED", "RELEVANT_EVIDENCE_RECEIVED"}),
    Rule("RESOLUTION_PENDING", "RESOLVED", {"RESOLUTION_EVIDENCE_SATISFIED"}),
    Rule("RESOLUTION_PENDING", "INVESTIGATING", {"RESOLUTION_EVIDENCE_INVALIDATED"}),
    Rule("RESOLVED", "INVESTIGATING", {"CASE_REOPENED"}),
    Rule("RESOLVED", "CLOSED", {"CASE_CLOSED"}) }

TriggerKind == UNION { rule.triggers : rule \in TransitionMatrix }

(***************************************************************************)
(* Events.  subject names what an event is about, value what it says.      *)
(***************************************************************************)
ProviderEvent ==
  [id: {"provider"} \X ProviderEventIds,
   kind: {"PROVIDER_REFUND_OBSERVED", "PROVIDER_REFUND_STATUS_UPDATED"},
   stamp: Stamps, subject: Providers \X Refunds, value: ProviderStatus]

PartnerEvent(request, response, stamp) ==
  [id |-> <<"partner", <<request, response>>>>, kind |-> "PARTNER_EVIDENCE_SUBMITTED",
   stamp |-> stamp, subject |-> <<"partner", request>>, value |-> response]

PartnerEvents == { PartnerEvent(r, a, t) : r \in PartnerRequests, a \in Responses, t \in Stamps }

CaseEvent(id, kind, value) ==
  [id |-> id, kind |-> kind, stamp |-> 0, subject |-> <<"case", "case">>, value |-> value]

\* The system event of an automated resolution: its id is derived from the case version.
EvaluationEvent(v) ==
  CaseEvent(<<"automation", v>>, "RESOLUTION_EVIDENCE_SATISFIED", "resolution-evaluation-v1")

\* The event a caller of transitionCase supplies as trigger, one per kind.
TriggerEvent(kind) == CaseEvent(<<"trigger", kind>>, kind, "caller")

IntakeEvent   == CaseEvent(<<"seed", "intake">>, "CASE_INTAKE_STARTED", "seed")
EvidenceEvent == CaseEvent(<<"seed", "evidence">>, "INITIAL_EVIDENCE_RECORDED", "seed")

EventId == ({"provider"} \X ProviderEventIds)
             \cup ({"partner"} \X (PartnerRequests \X Responses))
             \cup ({"automation"} \X Nat)
             \cup ({"trigger"} \X TriggerKind)
             \cup ({"seed"} \X {"intake", "evidence"})

EvaluationEvents ==
  [id: {"automation"} \X Nat, kind: {"RESOLUTION_EVIDENCE_SATISFIED"}, stamp: {0},
   subject: {<<"case", "case">>}, value: {"resolution-evaluation-v1"}]

Event == ProviderEvents \cup PartnerEvents \cup EvaluationEvents
           \cup { TriggerEvent(k) : k \in TriggerKind }
           \cup { IntakeEvent, EvidenceEvent }

NoEvent == <<"none", "none">>

ASSUME StoreAssumption ==
  /\ Providers \subseteq {"stripe", "resolvia_demo_provider"}
  /\ ProviderEvents \subseteq ProviderEvent
  /\ RequestedType \in [PartnerRequests -> EvidenceType]
  /\ ResponseStatus \in [Responses -> {"CONFIRMED", "NOT_CONFIRMED"}]

(***************************************************************************)
(* The record types.  stamped holds which of resolvedAt and closedAt are   *)
(* set on the case.                                                        *)
(***************************************************************************)
Party == {"customer", "merchant", "resolvia_demo_partner"} \cup Providers

CaseRecord ==
  [state: CaseState, version: Nat, parties: SUBSET Party,
   stamped: SUBSET {"resolvedAt", "closedAt"}]

VerificationLevel ==
  {"AUTHENTICATED_SOURCE", "PROVIDER_VERIFIED", "DEMO_PROVIDER_VERIFIED", "PARTNER_VERIFIED"}

Audit ==
  [trigger: EventId, previous: CaseState, resulting: CaseState, evidence: SUBSET EventId]

ReceiptState == {"OPEN", "RESERVED", "PUBLISHED", "FAILED_RETRYABLE"}
Receipt == [state: ReceiptState, event: EventId \cup {NoEvent}]

NewRequest == [state |-> "PENDING", owner |-> "nobody", retries |-> 0]

\* What a case mutation carries; every handler plans exactly one audit record.
Mutation(expected, kase, events, evidence, claims, transactions, audit, requests) ==
  [expected |-> expected, kase |-> kase, events |-> events, evidence |-> evidence,
   claims |-> claims, transactions |-> transactions, audit |-> audit, requests |-> requests]

IdsOf(records) == { r.id : r \in records }

(***************************************************************************)
(* attachAutomationOutbox: a mutation that advances the case by one        *)
(* version carries the automation request pinned to the version it makes.  *)
(***************************************************************************)
\* Mutant: commits leave no work behind.
AttachOutboxNever(m) == [m EXCEPT !.requests = {}]

AttachOutbox(m) ==
  [m EXCEPT !.requests = IF m.kase.version = m.expected + 1 THEN {m.kase.version} ELSE {}]

(***************************************************************************)
(* planProviderRefundMutation.  The state never changes; a transaction     *)
(* record is added for every event, named by provider and object.          *)
(***************************************************************************)
MapTransactionStatus(status) ==
  CASE status \in {"pending", "requires_action"} -> "PENDING"
    [] status = "succeeded" -> "SUCCEEDED"
    [] status = "failed"    -> "FAILED"
    [] status = "canceled"  -> "CANCELED"

ProviderEvidence(e) ==
  [id |-> e.id, type |-> "PROVIDER_TRANSACTION", source |-> e.subject[1],
   level |-> IF e.subject[1] = "resolvia_demo_provider"
               THEN "DEMO_PROVIDER_VERIFIED" ELSE "PROVIDER_VERIFIED",
   requested |-> "NONE", status |-> e.value,
   about |-> {<<"refund-exists", e.subject>>, <<"refund-status", e.subject>>}]

ProviderClaim(aspect, e) ==
  [id |-> <<aspect, e.subject>>, claimant |-> e.subject[1], source |-> e.id,
   status |-> "SUPPORTED", evidence |-> {e.id}]

ProviderTransaction(e) ==
  [id |-> e.subject, status |-> MapTransactionStatus(e.value), evidence |-> e.id]

PlanProviderRefund(d, e) ==
  Mutation(d.kase.version,
           [d.kase EXCEPT !.version = @ + 1, !.parties = @ \cup {e.subject[1]}],
           {e}, {ProviderEvidence(e)},
           {ProviderClaim("refund-exists", e), ProviderClaim("refund-status", e)},
           {ProviderTransaction(e)},
           [trigger |-> e.id, previous |-> d.kase.state, resulting |-> d.kase.state,
            evidence |-> {e.id}],
           {})

(***************************************************************************)
(* planPartnerEvidenceMutation.  The event is valid only against the       *)
(* receipt of its request: PUBLISHED, and for this very event.  A          *)
(* confirmed customer receipt moves the case to RESOLUTION_PENDING when a  *)
(* succeeded transaction is already stored, whatever state the case is in. *)
(***************************************************************************)
RequestOf(e) == e.subject[2]

PartnerEventValid(d, e) ==
  d.receipts[RequestOf(e)] = [state |-> "PUBLISHED", event |-> e.id]

PartnerClaimId(e) == <<"partner", <<RequestedType[RequestOf(e)], RequestOf(e)>>>>

PartnerEvidence(e) ==
  [id |-> e.id, type |-> "PARTNER_RESPONSE", source |-> "resolvia_demo_partner",
   level |-> "PARTNER_VERIFIED", requested |-> RequestedType[RequestOf(e)],
   status |-> ResponseStatus[e.value], about |-> {PartnerClaimId(e)}]

PartnerClaim(e) ==
  [id |-> PartnerClaimId(e), claimant |-> "resolvia_demo_partner", source |-> e.id,
   status |-> IF ResponseStatus[e.value] = "CONFIRMED" THEN "SUPPORTED" ELSE "CONTRADICTED",
   evidence |-> {e.id}]

PartnerResultingState(d, e) ==
  IF /\ RequestedType[RequestOf(e)] = "CUSTOMER_RECEIPT"
     /\ ResponseStatus[e.value] = "CONFIRMED"
     /\ \E t \in d.transactions : t.status = "SUCCEEDED"
    THEN "RESOLUTION_PENDING"
    ELSE d.kase.state

PlanPartnerEvidence(d, e) ==
  Mutation(d.kase.version,
           [d.kase EXCEPT !.state = PartnerResultingState(d, e), !.version = @ + 1,
                          !.parties = @ \cup {"resolvia_demo_partner"}],
           {e}, {PartnerEvidence(e)}, {PartnerClaim(e)}, {},
           [trigger |-> e.id, previous |-> d.kase.state,
            resulting |-> PartnerResultingState(d, e), evidence |-> {e.id}],
           {})

(***************************************************************************)
(* The resolution evidence gates shared by automation and projection.      *)
(***************************************************************************)
ContradictionBlocks(d) == \E c \in d.claims : c.status \in {"CONTRADICTED", "PARTIALLY_VERIFIED"}

SucceededOutcome(d, t, ev) ==
  /\ t \in d.transactions /\ t.status = "SUCCEEDED"
  /\ ev \in d.evidence /\ ev.id = t.evidence
  /\ ev.source = t.id[1] /\ ev.level \in {"PROVIDER_VERIFIED", "DEMO_PROVIDER_VERIFIED"}

ConfirmedReceipt(d, ev) ==
  /\ ev \in d.evidence
  /\ ev.type = "PARTNER_RESPONSE" /\ ev.level = "PARTNER_VERIFIED"
  /\ ev.requested = "CUSTOMER_RECEIPT" /\ ev.status = "CONFIRMED"

ProviderOutcomeKnown(d) == \E t \in d.transactions, ev \in d.evidence : SucceededOutcome(d, t, ev)
CustomerReceiptKnown(d) == \E ev \in d.evidence : ConfirmedReceipt(d, ev)

(***************************************************************************)
(* planCaseTransition: the case record and audit of a declared transition. *)
(***************************************************************************)
\* Mutant: the trigger of a declared pair is not compared.
TransitionAllowedAnyTrigger(kase, target, kind, evidenceIds) ==
  \E rule \in TransitionMatrix : rule.from = kase.state /\ rule.to = target

TransitionAllowed(kase, target, kind, evidenceIds) ==
  /\ \E rule \in TransitionMatrix :
       rule.from = kase.state /\ rule.to = target /\ kind \in rule.triggers
  /\ kind = "CASE_REOPENED" => evidenceIds # {}

TransitionedCase(kase, target) ==
  [kase EXCEPT
    !.state = target,
    !.version = @ + 1,
    !.stamped = (@ \cup (CASE target = "RESOLVED" -> {"resolvedAt"}
                           [] target = "CLOSED"   -> {"closedAt"}
                           [] OTHER               -> {}))
                  \ (IF kase.state = "RESOLVED" /\ target = "INVESTIGATING"
                       THEN {"resolvedAt"} ELSE {})]

TransitionAudit(kase, target, event, evidenceIds) ==
  [trigger |-> event.id, previous |-> kase.state, resulting |-> target,
   evidence |-> evidenceIds]

(***************************************************************************)
(* planAutomatedResolutionEvaluation.  NO_CHANGE unless ResolutionReady.   *)
(***************************************************************************)
ResolutionReady(d) ==
  /\ d.kase.state = "RESOLUTION_PENDING"
  /\ ~ContradictionBlocks(d)
  /\ ProviderOutcomeKnown(d)
  /\ CustomerReceiptKnown(d)

\* The evidence pairs an evaluation may cite: the code takes the first of each kind.
ResolutionEvidence(d) ==
  { {outcome.id, receipt.id} :
      outcome \in { ev \in d.evidence : \E t \in d.transactions : SucceededOutcome(d, t, ev) },
      receipt \in { ev \in d.evidence : ConfirmedReceipt(d, ev) } }

PlanResolution(d, cited) ==
  LET event == EvaluationEvent(d.kase.version) IN
  Mutation(d.kase.version, TransitionedCase(d.kase, "RESOLVED"), {event}, {}, {}, {},
           TransitionAudit(d.kase, "RESOLVED", event, cited), {})

(***************************************************************************)
(* transitionCase, on behalf of a caller: the trigger event is appended    *)
(* unless the case already holds it, and no outbox is attached.            *)
(***************************************************************************)
PlanCallerTransition(d, target, kind, evidenceIds) ==
  LET event == TriggerEvent(kind) IN
  Mutation(d.kase.version, TransitionedCase(d.kase, target),
           IF event.id \in IdsOf(d.events) THEN {} ELSE {event}, {}, {}, {},
           TransitionAudit(d.kase, target, event, evidenceIds), {})

(***************************************************************************)
(* applyCaseMutation: the checks of the store boundary, in their order,    *)
(* and the snapshot a committed mutation produces.                         *)
(***************************************************************************)
UpsertClaims(stored, incoming) ==
  { c \in stored : c.id \notin IdsOf(incoming) } \cup incoming

VersionMatches(d, m) == m.expected = d.kase.version /\ m.kase.version = d.kase.version + 1

HasDuplicateEventId(d, m) == IdsOf(m.events) \cap IdsOf(d.events) # {}

HasDuplicateRecord(d, m) ==
  \/ IdsOf(m.evidence) \cap IdsOf(d.evidence) # {}
  \/ IdsOf(m.transactions) \cap IdsOf(d.transactions) # {}
  \/ \E c1, c2 \in m.claims : c1 # c2 /\ c1.id = c2.id
  \/ \E v \in m.requests : v # m.kase.version \/ v \in DOMAIN d.requests

Authenticates(ev, t) ==
  /\ ev.id = t.evidence /\ ev.source = t.id[1]
  /\ ev.level = IF t.id[1] = "stripe" THEN "PROVIDER_VERIFIED" ELSE "DEMO_PROVIDER_VERIFIED"

RecordsRefer(d, m) ==
  LET evidence == d.evidence \cup m.evidence
      claims   == UpsertClaims(d.claims, m.claims)
  IN  /\ \A c \in claims : /\ c.claimant \in m.kase.parties
                           /\ c.source \in IdsOf(d.events \cup m.events)
                           /\ c.evidence \subseteq IdsOf(evidence)
      /\ \A ev \in evidence : ev.about \subseteq IdsOf(claims)
      /\ \A t \in d.transactions \cup m.transactions : \E ev \in evidence : Authenticates(ev, t)

AuditRefers(d, m) ==
  /\ m.audit.trigger \in IdsOf(d.events \cup m.events)
  /\ m.audit.evidence \subseteq IdsOf(d.evidence \cup m.evidence)
  /\ m.audit.previous = d.kase.state
  /\ m.audit.resulting = m.kase.state

ReferencesAreValid(d, m) == RecordsRefer(d, m) /\ AuditRefers(d, m)

\* Mutant: the store trusts the planner's reading of version and event ids.
CommitResultTrusting(d, m) ==
  IF ReferencesAreValid(d, m) THEN "COMMITTED" ELSE "CASE_INTEGRITY_ERROR"

CommitResult(d, m) ==
  IF ~VersionMatches(d, m) THEN "VERSION_CONFLICT"
  ELSE IF HasDuplicateEventId(d, m) THEN "DUPLICATE_EVENT"
  ELSE IF HasDuplicateRecord(d, m) \/ ~ReferencesAreValid(d, m) THEN "CASE_INTEGRITY_ERROR"
  ELSE "COMMITTED"

\* Mutant: the commit is split and the write of the records behind the case is lost.
ApplyMutationSplit(d, m) == [d EXCEPT !.kase = m.kase, !.audits = Append(@, m.audit)]

ApplyMutation(d, m) ==
  [d EXCEPT !.kase = m.kase,
            !.events = @ \cup m.events,
            !.evidence = @ \cup m.evidence,
            !.claims = UpsertClaims(@, m.claims),
            !.transactions = @ \cup m.transactions,
            !.audits = Append(@, m.audit),
            !.requests = [v \in DOMAIN @ \cup m.requests |->
                            IF v \in m.requests THEN NewRequest ELSE @[v]]]

(***************************************************************************)
(* The case as seedDemoCase leaves it: version 4, INVESTIGATING, with the  *)
(* merchant's unverified claim and the audits of its two transitions.      *)
(***************************************************************************)
SeedAudit(event, from, to, evidence) ==
  [trigger |-> event.id, previous |-> from, resulting |-> to, evidence |-> evidence]

SeededCase ==
  [kase |-> [state |-> "INVESTIGATING", version |-> 4,
             parties |-> {"customer", "merchant"}, stamped |-> {}],
   events |-> {IntakeEvent, EvidenceEvent},
   evidence |-> {[id |-> EvidenceEvent.id, type |-> "COMMUNICATION",
                  source |-> "LOCAL_DEMO_FIXTURE", level |-> "AUTHENTICATED_SOURCE",
                  requested |-> "NONE", status |-> "NONE",
                  about |-> {<<"seed", <<"refund", "processed">>>>}]},
   claims |-> {[id |-> <<"seed", <<"refund", "processed">>>>, claimant |-> "merchant",
                source |-> EvidenceEvent.id, status |-> "UNVERIFIED",
                evidence |-> {EvidenceEvent.id}]},
   transactions |-> {},
   audits |-> <<SeedAudit(IntakeEvent, "NEW", "EVIDENCE_COLLECTION", {}),
                SeedAudit(EvidenceEvent, "EVIDENCE_COLLECTION", "INVESTIGATING",
                          {EvidenceEvent.id})>>,
   requests |-> [v \in {} |-> NewRequest],
   receipts |-> [r \in PartnerRequests |-> [state |-> "OPEN", event |-> NoEvent]]]
=============================================================================
