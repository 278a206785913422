------------------------ MODULE CaseResolution_proofs ------------------------
(***************************************************************************)
(* Theorems about CaseResolution, for every value of its constants.        *)
(***************************************************************************)
EXTENDS CaseResolution, FiniteSetTheorems, TLAPS

USE DEF Idle

(***************************************************************************)
(* Types of what the policies plan.                                        *)
(***************************************************************************)
LEMMA EventIds ==
  ASSUME NEW e \in Deliverable
  PROVE  e.id \in EventId /\ e \in Event
  BY StoreAssumption
     DEF Deliverable, ProviderEvent, PartnerEvents, PartnerEvent, EventId, Event

LEMMA PartiesKnown == Providers \subseteq Party /\ "resolvia_demo_partner" \in Party
  BY DEF Party

LEMMA MutationTyped ==
  ASSUME NEW expected \in Nat, NEW kase \in CaseRecord, NEW events \in SUBSET Event,
         NEW evidence \in SUBSET Evidence, NEW claims \in SUBSET Claim,
         NEW transactions \in SUBSET Transaction, NEW audit \in Audit,
         NEW requests \in SUBSET Nat
  PROVE  Mutation(expected, kase, events, evidence, claims, transactions, audit, requests)
           \in CaseMutation
  BY DEF Mutation, CaseMutation

LEMMA ProviderPlanTyped ==
  ASSUME DatabaseOK, NEW e \in ProviderEvents
  PROVE  PlanProviderRefund(db, e) \in CaseMutation
<1>1. e \in ProviderEvent /\ e.id \in EventId /\ e \in Event
  BY StoreAssumption, EventIds DEF Deliverable
<1>2. e.subject \in Providers \X Refunds /\ e.subject[1] \in Providers /\ e.value \in ProviderStatus
  BY <1>1 DEF ProviderEvent
<1>3. ProviderEvidence(e) \in Evidence
  BY <1>1, <1>2 DEF ProviderEvidence, Evidence, EvidenceId, VerificationLevel, ClaimId
<1>4. /\ ProviderClaim("refund-exists", e) \in Claim
      /\ ProviderClaim("refund-status", e) \in Claim
  BY <1>1, <1>2, PartiesKnown DEF ProviderClaim, Claim, ClaimId, EvidenceId
<1>5. ProviderTransaction(e) \in Transaction
  BY <1>1, <1>2 DEF ProviderTransaction, Transaction, MapTransactionStatus, ProviderStatus, EvidenceId
<1>6. [db.kase EXCEPT !.version = @ + 1, !.parties = @ \cup {e.subject[1]}] \in CaseRecord
  <2>1. db.kase \in CaseRecord /\ db.kase.version + 1 \in Nat
    BY DEF DatabaseOK, CaseRecord
  <2>2. db.kase.parties \cup {e.subject[1]} \in SUBSET Party
    BY <1>2, <2>1, PartiesKnown DEF CaseRecord
  <2> QED
    BY <2>1, <2>2 DEF CaseRecord
<1>7. [trigger |-> e.id, previous |-> db.kase.state, resulting |-> db.kase.state,
       evidence |-> {e.id}] \in Audit
  BY <1>1 DEF DatabaseOK, CaseRecord, Audit
<1>8. db.kase.version \in Nat
  BY DEF DatabaseOK, CaseRecord
<1>9. /\ {e} \in SUBSET Event
      /\ {ProviderEvidence(e)} \in SUBSET Evidence
      /\ {ProviderClaim("refund-exists", e), ProviderClaim("refund-status", e)} \in SUBSET Claim
      /\ {ProviderTransaction(e)} \in SUBSET Transaction
      /\ {} \in SUBSET Nat
  BY <1>1, <1>3, <1>4, <1>5
<1> QED
  BY <1>6, <1>7, <1>8, <1>9, MutationTyped DEF PlanProviderRefund

LEMMA PartnerPlanTyped ==
  ASSUME DatabaseOK, NEW e \in PartnerEvents
  PROVE  PlanPartnerEvidence(db, e) \in CaseMutation
<1>1. e.id \in EventId /\ e \in Event
  BY EventIds DEF Deliverable
<1>2. RequestOf(e) \in PartnerRequests /\ e.value \in Responses
  BY DEF PartnerEvents, PartnerEvent, RequestOf
<1>3. /\ RequestedType[RequestOf(e)] \in EvidenceType
      /\ ResponseStatus[e.value] \in {"CONFIRMED", "NOT_CONFIRMED"}
  BY <1>2, StoreAssumption
<1>4. PartnerClaimId(e) \in ClaimId
  BY <1>2, <1>3 DEF PartnerClaimId, ClaimId
<1>5. PartnerEvidence(e) \in Evidence
  BY <1>1, <1>3, <1>4 DEF PartnerEvidence, Evidence, EvidenceId, VerificationLevel
<1>6. PartnerClaim(e) \in Claim
  BY <1>1, <1>4, PartiesKnown DEF PartnerClaim, Claim, EvidenceId
<1>7. db.kase \in CaseRecord /\ db.kase.version \in Nat /\ db.kase.version + 1 \in Nat
  BY DEF DatabaseOK, CaseRecord
<1>8. PartnerResultingState(db, e) \in CaseState
  BY <1>7 DEF PartnerResultingState, CaseRecord, CaseState
<1>9. [db.kase EXCEPT !.state = PartnerResultingState(db, e), !.version = @ + 1,
                      !.parties = @ \cup {"resolvia_demo_partner"}] \in CaseRecord
  BY <1>7, <1>8, PartiesKnown DEF CaseRecord
<1>10. [trigger |-> e.id, previous |-> db.kase.state,
        resulting |-> PartnerResultingState(db, e), evidence |-> {e.id}] \in Audit
  BY <1>1, <1>7, <1>8 DEF CaseRecord, Audit
<1>11. /\ {e} \in SUBSET Event
       /\ {PartnerEvidence(e)} \in SUBSET Evidence
       /\ {PartnerClaim(e)} \in SUBSET Claim
       /\ {} \in SUBSET Transaction
       /\ {} \in SUBSET Nat
  BY <1>1, <1>5, <1>6
<1> QED
  BY <1>7, <1>9, <1>10, <1>11, MutationTyped DEF PlanPartnerEvidence

LEMMA OutboxTyped ==
  ASSUME NEW m \in CaseMutation
  PROVE  AttachOutbox(m) \in CaseMutation
  BY DEF AttachOutbox, CaseMutation, CaseRecord

LEMMA EventPlanTyped ==
  ASSUME DatabaseOK, NEW e \in Deliverable
  PROVE  PlanEvent(e) \in CaseMutation
  BY ProviderPlanTyped, PartnerPlanTyped, OutboxTyped DEF PlanEvent, Deliverable

LEMMA TransitionTyped ==
  ASSUME NEW kase \in CaseRecord, NEW target \in CaseState
  PROVE  TransitionedCase(kase, target) \in CaseRecord
<1>1. /\ kase.version + 1 \in Nat
      /\ (kase.stamped \cup (CASE target = "RESOLVED" -> {"resolvedAt"}
                              [] target = "CLOSED"   -> {"closedAt"}
                              [] OTHER               -> {}))
           \ (IF kase.state = "RESOLVED" /\ target = "INVESTIGATING"
                THEN {"resolvedAt"} ELSE {}) \in SUBSET {"resolvedAt", "closedAt"}
  BY DEF CaseRecord
<1> QED
  BY <1>1 DEF CaseRecord, TransitionedCase

LEMMA ResolutionPlanTyped ==
  ASSUME DatabaseOK, NEW cited \in ResolutionEvidence(db)
  PROVE  PlanResolution(db, cited) \in CaseMutation
<1>1. db.kase \in CaseRecord /\ db.kase.version \in Nat /\ "RESOLVED" \in CaseState
  BY DEF DatabaseOK, CaseRecord, CaseState
<1>2. TransitionedCase(db.kase, "RESOLVED") \in CaseRecord
  BY <1>1, TransitionTyped
<1>3. /\ EvaluationEvent(db.kase.version) \in Event
      /\ EvaluationEvent(db.kase.version).id \in EventId
  BY <1>1 DEF EvaluationEvent, CaseEvent, EvaluationEvents, Event, EventId
<1>4. cited \subseteq EventId
  BY DEF ResolutionEvidence, DatabaseOK, Evidence, EvidenceId
<1>5. TransitionAudit(db.kase, "RESOLVED", EvaluationEvent(db.kase.version), cited) \in Audit
  BY <1>1, <1>3, <1>4 DEF TransitionAudit, Audit, CaseRecord
<1>6. /\ {EvaluationEvent(db.kase.version)} \in SUBSET Event
      /\ {} \in SUBSET Evidence /\ {} \in SUBSET Claim
      /\ {} \in SUBSET Transaction /\ {} \in SUBSET Nat
  BY <1>3
<1> QED
  BY <1>1, <1>2, <1>5, <1>6, MutationTyped DEF PlanResolution

LEMMA CallerPlanTyped ==
  ASSUME DatabaseOK, NEW target \in CaseState, NEW kind \in TriggerKind,
         NEW evidenceIds \in {{}, IdsOf(db.evidence)}
  PROVE  PlanCallerTransition(db, target, kind, evidenceIds) \in CaseMutation
<1>1. db.kase \in CaseRecord /\ db.kase.version \in Nat
  BY DEF DatabaseOK, CaseRecord
<1>2. TransitionedCase(db.kase, target) \in CaseRecord
  BY <1>1, TransitionTyped
<1>3. TriggerEvent(kind) \in Event /\ TriggerEvent(kind).id \in EventId
  BY DEF TriggerEvent, CaseEvent, Event, EventId
<1>4. evidenceIds \subseteq EventId
  BY DEF IdsOf, DatabaseOK, Evidence, EvidenceId
<1>5. TransitionAudit(db.kase, target, TriggerEvent(kind), evidenceIds) \in Audit
  BY <1>1, <1>3, <1>4 DEF TransitionAudit, Audit, CaseRecord
<1>6. /\ (IF TriggerEvent(kind).id \in IdsOf(db.events) THEN {} ELSE {TriggerEvent(kind)})
           \in SUBSET Event
      /\ {} \in SUBSET Evidence /\ {} \in SUBSET Claim
      /\ {} \in SUBSET Transaction /\ {} \in SUBSET Nat
  BY <1>3
<1> QED
  BY <1>1, <1>2, <1>5, <1>6, MutationTyped DEF PlanCallerTransition

(***************************************************************************)
(* Type correctness.  The cap on retries is what keeps the retry count of  *)
(* a completed request in its type: a leased request is below it.          *)
(***************************************************************************)
LeasedBelowCap ==
  \A v \in DOMAIN db.requests :
    db.requests[v].state = "LEASED" => db.requests[v].retries < MaxRetries

TypeInv == TypeOK /\ LeasedBelowCap

LEMMA ApplyTyped ==
  ASSUME DatabaseOK, LeasedBelowCap, NEW m \in CaseMutation, db' = ApplyMutation(db, m)
  PROVE  DatabaseOK' /\ LeasedBelowCap'
<1>1. /\ DOMAIN db' = DOMAIN db
      /\ db'.kase = m.kase
      /\ db'.events = db.events \cup m.events
      /\ db'.evidence = db.evidence \cup m.evidence
      /\ db'.claims = UpsertClaims(db.claims, m.claims)
      /\ db'.transactions = db.transactions \cup m.transactions
      /\ db'.audits = Append(db.audits, m.audit)
      /\ db'.requests = [v \in DOMAIN db.requests \cup m.requests |->
                           IF v \in m.requests THEN NewRequest ELSE db.requests[v]]
      /\ db'.receipts = db.receipts
  BY DEF ApplyMutation, DatabaseOK
<1>2. /\ m.kase \in CaseRecord /\ m.events \subseteq Event /\ m.evidence \subseteq Evidence
      /\ m.claims \subseteq Claim /\ m.transactions \subseteq Transaction
      /\ m.audit \in Audit /\ m.requests \subseteq Nat
  BY DEF CaseMutation
<1>3. UpsertClaims(db.claims, m.claims) \subseteq Claim
  BY <1>2 DEF UpsertClaims, DatabaseOK
<1>4. Append(db.audits, m.audit) \in Seq(Audit)
  BY <1>2 DEF DatabaseOK
<1>5. NewRequest \in Request /\ NewRequest.state = "PENDING"
  BY ResolutionAssumption DEF NewRequest, Request, RequestState
<1>6. /\ DOMAIN db'.requests \subseteq Nat
      /\ \A v \in DOMAIN db'.requests : db'.requests[v] \in Request
      /\ LeasedBelowCap'
  BY <1>1, <1>2, <1>5 DEF DatabaseOK, LeasedBelowCap
<1> QED
  BY <1>1, <1>2, <1>3, <1>4, <1>6 DEF DatabaseOK

LEMMA ReceiptTyped ==
  ASSUME DatabaseOK, LeasedBelowCap, NEW r \in PartnerRequests, NEW receipt \in Receipt,
         SetReceipt(r, receipt)
  PROVE  DatabaseOK' /\ LeasedBelowCap'
<1>1. db' = [db EXCEPT !.receipts = [db.receipts EXCEPT ![r] = receipt]]
  BY DEF SetReceipt
<1>2. [db.receipts EXCEPT ![r] = receipt] \in [PartnerRequests -> Receipt]
  BY DEF DatabaseOK
<1> QED
  BY <1>1, <1>2 DEF DatabaseOK, LeasedBelowCap

LEMMA RequestTyped ==
  ASSUME DatabaseOK, LeasedBelowCap, NEW v, NEW request \in Request,
         request.state = "LEASED" => request.retries < MaxRetries,
         db' = [db EXCEPT !.requests[v] = request]
  PROVE  DatabaseOK' /\ LeasedBelowCap'
<1>1. db' = [db EXCEPT !.requests = [db.requests EXCEPT ![v] = request]]
  OBVIOUS
<1>2. /\ DOMAIN db'.requests = DOMAIN db.requests
      /\ \A u \in DOMAIN db.requests :
           db'.requests[u] = IF u = v THEN request ELSE db.requests[u]
  BY <1>1 DEF DatabaseOK
<1>3. /\ \A u \in DOMAIN db'.requests : db'.requests[u] \in Request
      /\ LeasedBelowCap'
  BY <1>2 DEF DatabaseOK, LeasedBelowCap
<1> QED
  BY <1>1, <1>2, <1>3 DEF DatabaseOK

LEMMA TypeInit == Init => TypeInv
<1> SUFFICES ASSUME Init PROVE TypeInv
  OBVIOUS
<1>1. db.kase \in CaseRecord
  BY DEF Init, SeededCase, CaseRecord, CaseState, Party
<1>2. /\ IntakeEvent \in Event /\ EvidenceEvent \in Event
      /\ IntakeEvent.id \in EventId /\ EvidenceEvent.id \in EventId
  BY DEF IntakeEvent, EvidenceEvent, CaseEvent, Event, EventId
<1>3. db.evidence \subseteq Evidence
  BY <1>2 DEF Init, SeededCase, Evidence, EvidenceId, ClaimId, VerificationLevel
<1>4. db.claims \subseteq Claim
  BY <1>2 DEF Init, SeededCase, Claim, EvidenceId, ClaimId, Party
<1>5. db.audits \in Seq(Audit)
  BY <1>2 DEF Init, SeededCase, SeedAudit, Audit, CaseState
<1>6. db.receipts \in [PartnerRequests -> Receipt]
  BY DEF Init, SeededCase, Receipt, ReceiptState
<1>7. DatabaseOK /\ LeasedBelowCap
  BY <1>1, <1>2, <1>3, <1>4, <1>5, <1>6 DEF Init, SeededCase, DatabaseOK, LeasedBelowCap
<1> QED
  BY <1>7, ResolutionAssumption
     DEF Init, TypeInv, TypeOK, HandlerState, CallerState, WorkerState

LEMMA PlannedHandler ==
  ASSUME TypeInv, NEW h \in Handlers, handlers[h].pc = "planned"
  PROVE  handlers[h].event \in Deliverable /\ handlers[h].mutation \in CaseMutation
  BY DEF TypeInv, TypeOK, HandlerState

LEMMA PlannedCaller ==
  ASSUME TypeInv, NEW c \in Callers, callers[c].pc = "planned"
  PROVE  callers[c].mutation \in CaseMutation
  BY DEF TypeInv, TypeOK, CallerState

LEMMA PlannedWorker ==
  ASSUME TypeInv, NEW w \in Workers, workers[w].pc = "planned"
  PROVE  workers[w].version \in Nat /\ workers[w].mutation \in CaseMutation
  BY DEF TypeInv, TypeOK, WorkerState

LEMMA TypeStep == TypeInv /\ [Next]_vars => TypeInv'
<1> SUFFICES ASSUME TypeInv, [Next]_vars PROVE TypeInv'
  OBVIOUS
<1> USE DEF TypeInv
<1>1. ASSUME NEW e \in ProviderEvents, PublishProviderEvent(e) PROVE TypeInv'
  BY <1>1 DEF PublishProviderEvent, TypeOK, DatabaseOK, LeasedBelowCap, Deliverable
<1>2. ASSUME NEW r \in PartnerRequests, NEW a \in Responses, ReserveSubmission(r, a)
      PROVE  TypeInv'
  <2>1. [state |-> "RESERVED", event |-> PartnerEvent(r, a, 0).id] \in Receipt
    BY DEF Receipt, ReceiptState, PartnerEvent, EventId
  <2> QED
    BY <1>2, <2>1, ReceiptTyped DEF ReserveSubmission, SetReceipt, TypeOK
<1>3. ASSUME NEW r \in PartnerRequests, NEW a \in Responses, NEW t \in Stamps,
             MarkSubmissionPublished(r, a, t)
      PROVE  TypeInv'
  <2>1. [state |-> "PUBLISHED", event |-> PartnerEvent(r, a, t).id] \in Receipt
    BY DEF Receipt, ReceiptState, PartnerEvent, EventId
  <2>2. PartnerEvent(r, a, t) \in PartnerEvents
    BY DEF PartnerEvents
  <2> QED
    BY <1>3, <2>1, <2>2, ReceiptTyped DEF MarkSubmissionPublished, SetReceipt, TypeOK
<1>4. ASSUME NEW r \in PartnerRequests, ReleaseSubmission(r) PROVE TypeInv'
  <2>1. [db.receipts[r] EXCEPT !.state = "FAILED_RETRYABLE"] \in Receipt
    <3>1. db.receipts[r] \in Receipt
      BY DEF TypeOK, DatabaseOK
    <3> QED
      BY <3>1 DEF Receipt, ReceiptState
  <2> QED
    BY <1>4, <2>1, ReceiptTyped DEF ReleaseSubmission, SetReceipt, TypeOK
<1>5. ASSUME NEW e \in PartnerEvents, PublishPartnerEvent(e) PROVE TypeInv'
  BY <1>5 DEF PublishPartnerEvent, TypeOK, DatabaseOK, LeasedBelowCap, Deliverable
<1>6. ASSUME NEW h \in Handlers, NEW e \in Deliverable, DeliverSettled(h, e) PROVE TypeInv'
  BY <1>6 DEF DeliverSettled, Ack, DuplicateOrIntegrity, TypeOK, DatabaseOK, LeasedBelowCap
<1>7. ASSUME NEW h \in Handlers, NEW e \in Deliverable, DeliverPlanned(h, e) PROVE TypeInv'
  <2>1. [pc |-> "planned", event |-> e, mutation |-> PlanEvent(e)] \in HandlerState
    BY EventPlanTyped DEF TypeOK, HandlerState
  <2> QED
    BY <1>7, <2>1 DEF DeliverPlanned, TypeOK, DatabaseOK, LeasedBelowCap
<1>8. ASSUME NEW h \in Handlers, CommitEvent(h) PROVE TypeInv'
  <2>1. handlers[h].event \in Deliverable /\ handlers[h].mutation \in CaseMutation
    BY <1>8, PlannedHandler DEF CommitEvent
  <2>2. DatabaseOK' /\ LeasedBelowCap'
    BY <1>8, <2>1, ApplyTyped DEF CommitEvent, TypeOK, DatabaseOK, LeasedBelowCap
  <2>3. Idle \in HandlerState /\ [pc |-> "conflict", event |-> handlers[h].event] \in HandlerState
    BY <2>1 DEF HandlerState
  <2>4. handlers' \in [Handlers -> HandlerState]
    BY <1>8, <2>3 DEF CommitEvent, TypeOK
  <2>5. acks' \subseteq [event: Deliverable,
                        result: {"COMMITTED", "DUPLICATE_EVENT", "CASE_INTEGRITY_ERROR"}]
    BY <1>8, <2>1 DEF CommitEvent, CommitResult, Ack, TypeOK
  <2> QED
    BY <1>8, <2>2, <2>4, <2>5 DEF CommitEvent, TypeOK
<1>9. ASSUME NEW h \in Handlers, RecheckEvent(h) PROVE TypeInv'
  <2>1. handlers[h].event \in Deliverable
    BY <1>9 DEF RecheckEvent, TypeOK, HandlerState
  <2>2. Idle \in HandlerState
    BY DEF HandlerState
  <2> QED
    BY <1>9, <2>1, <2>2
       DEF RecheckEvent, Ack, DuplicateOrIntegrity, TypeOK, DatabaseOK, LeasedBelowCap
<1>10. ASSUME NEW h \in Handlers, CrashHandler(h) PROVE TypeInv'
  <2>1. handlers[h].event \in Deliverable
    BY <1>10 DEF CrashHandler, TypeOK, HandlerState
  <2>2. Idle \in HandlerState
    BY DEF HandlerState
  <2> QED
    BY <1>10, <2>1, <2>2, ResolutionAssumption
       DEF CrashHandler, TypeOK, DatabaseOK, LeasedBelowCap
<1>11. ASSUME NEW c \in Callers, NEW target \in CaseState, NEW kind \in CallerTriggers,
              NEW evidenceIds \in {{}, IdsOf(db.evidence)},
              PlanTransition(c, target, kind, evidenceIds)
       PROVE  TypeInv'
  <2>1. [pc |-> "planned", mutation |-> PlanCallerTransition(db, target, kind, evidenceIds)]
          \in CallerState
    BY CallerPlanTyped, ResolutionAssumption DEF TypeOK, CallerState
  <2> QED
    BY <1>11, <2>1 DEF PlanTransition, TypeOK, DatabaseOK, LeasedBelowCap
<1>12. ASSUME NEW c \in Callers, CommitTransition(c) PROVE TypeInv'
  <2>1. callers[c].mutation \in CaseMutation
    BY <1>12, PlannedCaller DEF CommitTransition
  <2>2. DatabaseOK' /\ LeasedBelowCap'
    BY <1>12, <2>1, ApplyTyped DEF CommitTransition, TypeOK, DatabaseOK, LeasedBelowCap
  <2>3. Idle \in CallerState
    BY DEF CallerState
  <2> QED
    BY <1>12, <2>2, <2>3 DEF CommitTransition, TypeOK
<1>13. ASSUME NEW w \in Workers, NEW v \in DOMAIN db.requests, ClaimRequest(w, v)
       PROVE  TypeInv'
  <2> DEFINE retries == RetriesOnClaim(db.requests[v])
  <2>1. v \in Nat /\ db.requests[v] \in Request
    BY DEF TypeOK, DatabaseOK
  <2>2. retries \in Nat /\ retries < MaxRetries
    BY <1>13, <2>1 DEF ClaimRequest, MayBeClaimed, RetriesOnClaim, Request
  <2>3. [state |-> "LEASED", owner |-> w, retries |-> retries] \in Request
    BY <2>2, ResolutionAssumption DEF Request, RequestState
  <2>4. DatabaseOK' /\ LeasedBelowCap'
    BY <1>13, <2>2, <2>3, RequestTyped DEF ClaimRequest, TypeOK
  <2>5. [pc |-> "claimed", version |-> v] \in WorkerState
    BY <2>1 DEF WorkerState
  <2> QED
    BY <1>13, <2>4, <2>5 DEF ClaimRequest, TypeOK
<1>14. ASSUME NEW w \in Workers, DecideRequest(w) PROVE TypeInv'
  <2>1. workers[w].version \in Nat
    BY <1>14 DEF DecideRequest, TypeOK, WorkerState
  <2>2. /\ Finishing(workers[w].version, "FAILED_TERMINAL") \in WorkerState
        /\ Finishing(workers[w].version, "SUCCEEDED") \in WorkerState
    BY <2>1 DEF Finishing, WorkerState
  <2>3. ASSUME NEW cited \in ResolutionEvidence(db)
        PROVE  [pc |-> "planned", version |-> workers[w].version,
                mutation |-> AttachOutbox(PlanResolution(db, cited))] \in WorkerState
    BY <2>1, ResolutionPlanTyped, OutboxTyped DEF TypeOK, WorkerState
  <2>4. workers' \in [Workers -> WorkerState]
    BY <1>14, <2>2, <2>3 DEF DecideRequest, TypeOK
  <2> QED
    BY <1>14, <2>4 DEF DecideRequest, TypeOK, DatabaseOK, LeasedBelowCap
<1>15. ASSUME NEW w \in Workers, CommitResolution(w) PROVE TypeInv'
  <2>1. workers[w].version \in Nat /\ workers[w].mutation \in CaseMutation
    BY <1>15, PlannedWorker DEF CommitResolution
  <2>2. DatabaseOK' /\ LeasedBelowCap'
    BY <1>15, <2>1, ApplyTyped DEF CommitResolution, TypeOK, DatabaseOK, LeasedBelowCap
  <2>3. workers' \in [Workers -> WorkerState]
    BY <1>15, <2>1 DEF CommitResolution, Finishing, TypeOK, WorkerState
  <2> QED
    BY <1>15, <2>2, <2>3 DEF CommitResolution, TypeOK
<1>16. ASSUME NEW w \in Workers, CompleteRequest(w) PROVE TypeInv'
  <2> DEFINE v == workers[w].version
             outcome == workers[w].outcome
             completed == CompletedRequest(db.requests[v], outcome)
  <2>1. outcome \in {"SUCCEEDED", "FAILED_RETRYABLE", "FAILED_TERMINAL"}
    BY <1>16 DEF CompleteRequest, TypeOK, WorkerState
  <2>2. ASSUME v \in DOMAIN db.requests, db.requests[v].state = "LEASED"
        PROVE  completed \in Request /\ completed.state # "LEASED"
    <3>1. db.requests[v] \in Request /\ db.requests[v].retries < MaxRetries
      BY <2>2 DEF TypeOK, DatabaseOK, LeasedBelowCap
    <3> QED
      BY <2>1, <3>1, ResolutionAssumption DEF CompletedRequest, Request, RequestState
  <2>3. DatabaseOK' /\ LeasedBelowCap'
    <3>1. CASE v \in DOMAIN db.requests /\ db.requests[v].state = "LEASED" /\ db.requests[v].owner = w
      BY <1>16, <2>2, <3>1, RequestTyped DEF CompleteRequest, TypeOK
    <3>2. CASE v \notin DOMAIN db.requests
      BY <1>16, <3>2 DEF CompleteRequest, TypeOK, DatabaseOK, LeasedBelowCap
    <3>3. CASE ~(db.requests[v].state = "LEASED" /\ db.requests[v].owner = w)
      BY <1>16, <3>3 DEF CompleteRequest, TypeOK, DatabaseOK, LeasedBelowCap
    <3> QED
      BY <3>1, <3>2, <3>3
  <2>4. Idle \in WorkerState
    BY DEF WorkerState
  <2> QED
    BY <1>16, <2>3, <2>4 DEF CompleteRequest, TypeOK
<1>17. ASSUME NEW w \in Workers, CrashWorker(w) PROVE TypeInv'
  <2>1. Idle \in WorkerState
    BY DEF WorkerState
  <2> QED
    BY <1>17, <2>1, ResolutionAssumption DEF CrashWorker, TypeOK, DatabaseOK, LeasedBelowCap
<1>18. ASSUME UNCHANGED vars PROVE TypeInv'
  BY <1>18 DEF vars, TypeOK, DatabaseOK, LeasedBelowCap
<1> QED
  BY <1>1, <1>2, <1>3, <1>4, <1>5, <1>6, <1>7, <1>8, <1>9, <1>10, <1>11, <1>12, <1>13,
     <1>14, <1>15, <1>16, <1>17, <1>18
     DEF Next, Ingress, Handling, HandlerStep, Calling, Automation, WorkerStep

\* Every record, in the store, in flight and in the history, keeps its type.
THEOREM TypeCorrect == Spec => []TypeOK
<1>1. Spec => []TypeInv
  BY TypeInit, TypeStep, PTL DEF Spec
<1> QED
  BY <1>1, PTL DEF TypeInv

(***************************************************************************)
(* Mutations in flight.  A mutation that still expects the version of the  *)
(* stored case was planned from the bundle that is stored now; one that    *)
(* does not will never be accepted.  So what the planner saw may be used   *)
(* as if plan and commit were a single step.                               *)
(***************************************************************************)
InFlight(m) ==
  \/ \E h \in Handlers : handlers[h].pc = "planned" /\ m = handlers[h].mutation
  \/ \E c \in Callers : callers[c].pc = "planned" /\ m = callers[c].mutation
  \/ \E w \in Workers : workers[w].pc = "planned" /\ m = workers[w].mutation

CitesResolutionEvidence(d, audit) ==
  /\ \E t \in d.transactions, ev \in d.evidence :
       SucceededOutcome(d, t, ev) /\ ev.id \in audit.evidence
  /\ \E ev \in d.evidence : ConfirmedReceipt(d, ev) /\ ev.id \in audit.evidence

NamesItsEvent(m) == m.audit.trigger[1] # "trigger" => m.audit.trigger \in IdsOf(m.events)

UniqueIds(events) == \A e, f \in events : e.id = f.id => e = f

PlannedFresh(d, m) == \A e \in m.events : e \in Deliverable => e.id \notin IdsOf(d.events)

\* No caller declares the resolution evidence satisfied; only automation does.
HonestCallers == "RESOLUTION_EVIDENCE_SATISFIED" \notin CallerTriggers

PlannedJustified(d, m) ==
  HonestCallers /\ m.kase.state = "RESOLVED" /\ d.kase.state # "RESOLVED" =>
    ~ContradictionBlocks(d) /\ CitesResolutionEvidence(d, m.audit)

\* What holds of a mutation at the moment it is planned.
WellPlanned(d, m) ==
  /\ m.expected = d.kase.version
  /\ NamesItsEvent(m) /\ UniqueIds(m.events)
  /\ PlannedFresh(d, m)
  /\ PlannedJustified(d, m)

FlightInv ==
  \A m : InFlight(m) =>
    /\ m.expected \in Nat /\ m.expected <= db.kase.version
    /\ NamesItsEvent(m) /\ UniqueIds(m.events)
    /\ m.expected = db.kase.version => WellPlanned(db, m)

\* The fields of the stored case that planners read, receipts aside.
SameCase ==
  /\ db'.kase = db.kase /\ db'.events = db.events /\ db'.evidence = db.evidence
  /\ db'.claims = db.claims /\ db'.transactions = db.transactions /\ db'.audits = db.audits

CommitsMutation ==
  \E m : InFlight(m) /\ CommitResult(db, m) = "COMMITTED" /\ db' = ApplyMutation(db, m)

LEMMA Committed ==
  ASSUME NEW d, NEW m, CommitResult(d, m) = "COMMITTED"
  PROVE  VersionMatches(d, m) /\ ~HasDuplicateEventId(d, m) /\ ReferencesAreValid(d, m)
  BY DEF CommitResult

LEMMA Applied ==
  ASSUME DatabaseOK, NEW m, db' = ApplyMutation(db, m)
  PROVE  /\ db'.kase = m.kase
         /\ db'.events = db.events \cup m.events
         /\ db'.evidence = db.evidence \cup m.evidence
         /\ db'.transactions = db.transactions \cup m.transactions
         /\ db'.audits = Append(db.audits, m.audit)
  BY DEF ApplyMutation, DatabaseOK

\* A step leaves the case alone or commits one mutation that was in flight.
LEMMA CaseStep ==
  ASSUME TypeInv, [Next]_vars
  PROVE  SameCase \/ CommitsMutation
<1> USE DEF TypeInv, TypeOK, DatabaseOK
<1>1. ASSUME NEW r \in PartnerRequests, NEW receipt, SetReceipt(r, receipt) PROVE SameCase
  BY <1>1 DEF SetReceipt, SameCase
<1>2. ASSUME Ingress PROVE SameCase
  BY <1>1, <1>2 DEF Ingress, PublishProviderEvent, ReserveSubmission, MarkSubmissionPublished,
     ReleaseSubmission, PublishPartnerEvent, SameCase
<1>3. ASSUME NEW h \in Handlers, CommitEvent(h) PROVE SameCase \/ CommitsMutation
  BY <1>3 DEF CommitEvent, SameCase, CommitsMutation, InFlight
<1>4. ASSUME NEW c \in Callers, CommitTransition(c) PROVE SameCase \/ CommitsMutation
  BY <1>4 DEF CommitTransition, SameCase, CommitsMutation, InFlight
<1>5. ASSUME NEW w \in Workers, CommitResolution(w) PROVE SameCase \/ CommitsMutation
  BY <1>5 DEF CommitResolution, SameCase, CommitsMutation, InFlight
<1>6. ASSUME NEW v, NEW request, db' = [db EXCEPT !.requests[v] = request] PROVE SameCase
  BY <1>6 DEF SameCase
<1>7. ASSUME NEW w \in Workers, NEW v, ClaimRequest(w, v) PROVE SameCase
  BY <1>6, <1>7 DEF ClaimRequest
<1>8. ASSUME NEW w \in Workers, CompleteRequest(w) PROVE SameCase
  BY <1>6, <1>8 DEF CompleteRequest, SameCase
<1>9. ASSUME UNCHANGED db PROVE SameCase
  BY <1>9 DEF SameCase
<1>10. CASE Handling
  BY <1>3, <1>9, <1>10 DEF Handling, HandlerStep, DeliverSettled, DeliverPlanned, RecheckEvent, CrashHandler
<1>11. CASE Calling
  BY <1>4, <1>9, <1>11 DEF Calling, PlanTransition
<1>12. CASE Automation
  BY <1>5, <1>7, <1>8, <1>9, <1>12 DEF Automation, WorkerStep, DecideRequest, CrashWorker
<1> QED
  BY <1>2, <1>9, <1>10, <1>11, <1>12 DEF Next, vars

LEMMA EventWellPlanned ==
  ASSUME DatabaseOK, NEW e \in Deliverable, StoredEvents(e) = {}
  PROVE  WellPlanned(db, PlanEvent(e)) /\ PlanEvent(e).events = {e}
<1> DEFINE plan == IF e \in ProviderEvents THEN PlanProviderRefund(db, e)
                                           ELSE PlanPartnerEvidence(db, e)
<1>1. /\ PlanEvent(e).expected = plan.expected /\ PlanEvent(e).kase = plan.kase
      /\ PlanEvent(e).events = plan.events /\ PlanEvent(e).audit = plan.audit
  BY DEF PlanEvent, AttachOutbox, PlanProviderRefund, PlanPartnerEvidence, Mutation
<1>2. /\ plan.expected = db.kase.version /\ plan.events = {e} /\ plan.audit.trigger = e.id
  BY DEF PlanProviderRefund, PlanPartnerEvidence, Mutation
<1>3. db.kase \in CaseRecord
  BY DEF DatabaseOK
<1>4. plan.kase.state \in {db.kase.state, "RESOLUTION_PENDING"}
  BY <1>3 DEF PlanProviderRefund, PlanPartnerEvidence, Mutation, PartnerResultingState, CaseRecord
<1>5. e.id \notin IdsOf(db.events)
  BY DEF StoredEvents, IdsOf
<1> QED
  BY <1>1, <1>2, <1>4, <1>5
     DEF WellPlanned, NamesItsEvent, UniqueIds, PlannedFresh, PlannedJustified, IdsOf

LEMMA ResolutionWellPlanned ==
  ASSUME DatabaseOK, ResolutionReady(db), NEW cited \in ResolutionEvidence(db)
  PROVE  WellPlanned(db, AttachOutbox(PlanResolution(db, cited)))
<1> DEFINE plan == PlanResolution(db, cited)
           m == AttachOutbox(plan)
           event == EvaluationEvent(db.kase.version)
<1>1. /\ m.expected = plan.expected /\ m.kase = plan.kase
      /\ m.events = plan.events /\ m.audit = plan.audit
  BY DEF AttachOutbox, PlanResolution, Mutation
<1>2. /\ plan.expected = db.kase.version /\ plan.events = {event}
      /\ plan.audit.trigger = event.id /\ plan.audit.evidence = cited
  BY DEF PlanResolution, Mutation, TransitionAudit
<1>3. event \notin Deliverable
  <2>1. event.kind = "RESOLUTION_EVIDENCE_SATISFIED"
    BY DEF EvaluationEvent, CaseEvent
  <2>2. \A e \in Deliverable : e.kind # "RESOLUTION_EVIDENCE_SATISFIED"
    BY StoreAssumption DEF Deliverable, ProviderEvent, PartnerEvents, PartnerEvent
  <2> QED
    BY <2>1, <2>2
<1>4. ~ContradictionBlocks(db)
  BY DEF ResolutionReady
<1>5. CitesResolutionEvidence(db, plan.audit)
  <2>1. PICK outcome \in { ev \in db.evidence : \E t \in db.transactions : SucceededOutcome(db, t, ev) },
             receipt \in { ev \in db.evidence : ConfirmedReceipt(db, ev) } :
          cited = {outcome.id, receipt.id}
    BY DEF ResolutionEvidence
  <2> QED
    BY <1>2, <2>1 DEF CitesResolutionEvidence
<1> QED
  BY <1>1, <1>2, <1>3, <1>4, <1>5
     DEF WellPlanned, NamesItsEvent, UniqueIds, PlannedFresh, PlannedJustified, IdsOf

LEMMA CallerWellPlanned ==
  ASSUME DatabaseOK, NEW target \in CaseState, NEW kind \in CallerTriggers, NEW evidenceIds,
         TransitionAllowed(db.kase, target, kind, evidenceIds)
  PROVE  WellPlanned(db, PlanCallerTransition(db, target, kind, evidenceIds))
<1> DEFINE m == PlanCallerTransition(db, target, kind, evidenceIds)
<1>1. /\ m.expected = db.kase.version /\ m.kase = TransitionedCase(db.kase, target)
      /\ m.events \subseteq {TriggerEvent(kind)} /\ m.audit.trigger = TriggerEvent(kind).id
  BY DEF PlanCallerTransition, Mutation, TransitionAudit
<1>2. TriggerEvent(kind).id = <<"trigger", kind>> /\ TriggerEvent(kind).subject = <<"case", "case">>
  BY DEF TriggerEvent, CaseEvent
<1>3. TriggerEvent(kind).id \in IdsOf(db.events) => m.events = {}
  BY DEF PlanCallerTransition, Mutation
<1>4. m.kase.state = target
  BY <1>1 DEF TransitionedCase, DatabaseOK, CaseRecord
<1>5. target = "RESOLVED" => ~HonestCallers
  BY DEF TransitionAllowed, TransitionMatrix, Rule, HonestCallers
<1> QED
  BY <1>1, <1>2, <1>3, <1>4, <1>5
     DEF WellPlanned, NamesItsEvent, UniqueIds, PlannedFresh, PlannedJustified

\* Who may put a new mutation in flight: each group of actions moves its own processes only.
LEMMA ProcessesMove ==
  ASSUME [Next]_vars
  PROVE  /\ handlers' # handlers => Handling
         /\ callers' # callers => Calling
         /\ workers' # workers => Automation
<1>1. Ingress => handlers' = handlers /\ callers' = callers /\ workers' = workers
  BY DEF Ingress, PublishProviderEvent, ReserveSubmission, MarkSubmissionPublished,
     ReleaseSubmission, SetReceipt, PublishPartnerEvent
<1>2. Handling => callers' = callers /\ workers' = workers
  BY DEF Handling, HandlerStep, DeliverSettled, DeliverPlanned, CommitEvent, RecheckEvent,
     CrashHandler
<1>3. Calling => handlers' = handlers /\ workers' = workers
  BY DEF Calling, PlanTransition, CommitTransition
<1>4. Automation => handlers' = handlers /\ callers' = callers
  BY DEF Automation, WorkerStep, ClaimRequest, DecideRequest, CommitResolution, CompleteRequest,
     CrashWorker
<1> QED
  BY <1>1, <1>2, <1>3, <1>4 DEF Next, vars

LEMMA NewlyPlannedHandler ==
  ASSUME TypeInv, [Next]_vars, NEW h \in Handlers, handlers'[h].pc = "planned",
         handlers'[h] # handlers[h]
  PROVE  \E e \in Deliverable : DeliverPlanned(h, e) /\ handlers'[h].mutation = PlanEvent(e)
<1> USE DEF TypeInv, TypeOK
<1>1. PICK i \in Handlers : \/ \E e \in Deliverable : DeliverSettled(i, e) \/ DeliverPlanned(i, e)
                           \/ CommitEvent(i) \/ RecheckEvent(i) \/ CrashHandler(i)
  BY ProcessesMove DEF Handling, HandlerStep
<1>2. ~CommitEvent(i)
  BY DEF CommitEvent
<1>3. ~RecheckEvent(i) /\ ~CrashHandler(i)
  BY DEF RecheckEvent, CrashHandler
<1>4. \A e \in Deliverable : ~DeliverSettled(i, e)
  BY DEF DeliverSettled
<1>5. PICK e \in Deliverable : DeliverPlanned(i, e)
  BY <1>1, <1>2, <1>3, <1>4
<1>6. i = h /\ handlers'[h].mutation = PlanEvent(e)
  BY <1>5 DEF DeliverPlanned
<1> QED
  BY <1>5, <1>6

LEMMA NewlyPlannedCaller ==
  ASSUME TypeInv, [Next]_vars, NEW c \in Callers, callers'[c].pc = "planned",
         callers'[c] # callers[c]
  PROVE  \E target \in CaseState, kind \in CallerTriggers, evidenceIds \in {{}, IdsOf(db.evidence)} :
           /\ PlanTransition(c, target, kind, evidenceIds)
           /\ callers'[c].mutation = PlanCallerTransition(db, target, kind, evidenceIds)
<1> USE DEF TypeInv, TypeOK
<1>1. PICK i \in Callers :
        \/ \E target \in CaseState, kind \in CallerTriggers, evidenceIds \in {{}, IdsOf(db.evidence)} :
             PlanTransition(i, target, kind, evidenceIds)
        \/ CommitTransition(i)
  BY ProcessesMove DEF Calling
<1>2. ~CommitTransition(i)
  BY DEF CommitTransition
<1>3. PICK target \in CaseState, kind \in CallerTriggers, evidenceIds \in {{}, IdsOf(db.evidence)} :
        PlanTransition(i, target, kind, evidenceIds)
  BY <1>1, <1>2
<1>4. i = c /\ callers'[c].mutation = PlanCallerTransition(db, target, kind, evidenceIds)
  BY <1>3 DEF PlanTransition
<1> QED
  BY <1>3, <1>4

LEMMA NewlyPlannedWorker ==
  ASSUME TypeInv, [Next]_vars, NEW w \in Workers, workers'[w].pc = "planned",
         workers'[w] # workers[w]
  PROVE  /\ DecideRequest(w) /\ ResolutionReady(db)
         /\ \E cited \in ResolutionEvidence(db) :
              workers'[w].mutation = AttachOutbox(PlanResolution(db, cited))
<1> USE DEF TypeInv, TypeOK
<1>1. PICK i \in Workers :
        \/ \E v \in DOMAIN db.requests : ClaimRequest(i, v)
        \/ DecideRequest(i) \/ CommitResolution(i) \/ CompleteRequest(i) \/ CrashWorker(i)
  BY ProcessesMove DEF Automation, WorkerStep
<1>2. \A v \in DOMAIN db.requests : ~ClaimRequest(i, v)
  BY DEF ClaimRequest
<1>3. ~CommitResolution(i)
  BY DEF CommitResolution, Finishing
<1>4. ~CompleteRequest(i) /\ ~CrashWorker(i)
  BY DEF CompleteRequest, CrashWorker
<1>5. DecideRequest(i)
  BY <1>1, <1>2, <1>3, <1>4
<1>6. i = w
  BY <1>5 DEF DecideRequest
<1> QED
  BY <1>5, <1>6 DEF DecideRequest, Finishing

\* Whatever is in flight after a step was in flight before it, or was planned by the step,
\* which then left the store alone.
LEMMA NewlyPlanned ==
  ASSUME TypeInv, [Next]_vars, NEW m, InFlight(m)'
  PROVE  InFlight(m) \/ (db' = db /\ WellPlanned(db, m))
<1>0. DatabaseOK
  BY DEF TypeInv, TypeOK
<1>1. ASSUME NEW h \in Handlers, handlers'[h].pc = "planned", m = handlers'[h].mutation,
             handlers'[h] # handlers[h]
      PROVE  db' = db /\ WellPlanned(db, m)
  <2>1. PICK e \in Deliverable : DeliverPlanned(h, e) /\ m = PlanEvent(e)
    BY <1>1, NewlyPlannedHandler
  <2>2. StoredEvents(e) = {} /\ db' = db
    BY <2>1 DEF DeliverPlanned
  <2> QED
    BY <1>0, <2>1, <2>2, EventWellPlanned
<1>2. ASSUME NEW c \in Callers, callers'[c].pc = "planned", m = callers'[c].mutation,
             callers'[c] # callers[c]
      PROVE  db' = db /\ WellPlanned(db, m)
  <2>1. PICK target \in CaseState, kind \in CallerTriggers, evidenceIds \in {{}, IdsOf(db.evidence)} :
          /\ PlanTransition(c, target, kind, evidenceIds)
          /\ m = PlanCallerTransition(db, target, kind, evidenceIds)
    BY <1>2, NewlyPlannedCaller
  <2>2. db' = db /\ TransitionAllowed(db.kase, target, kind, evidenceIds)
    BY <2>1 DEF PlanTransition
  <2> QED
    BY <1>0, <2>1, <2>2, CallerWellPlanned
<1>3. ASSUME NEW w \in Workers, workers'[w].pc = "planned", m = workers'[w].mutation,
             workers'[w] # workers[w]
      PROVE  db' = db /\ WellPlanned(db, m)
  <2>1. /\ DecideRequest(w) /\ ResolutionReady(db)
        /\ \E cited \in ResolutionEvidence(db) : m = AttachOutbox(PlanResolution(db, cited))
    BY <1>3, NewlyPlannedWorker
  <2>2. db' = db
    BY <2>1 DEF DecideRequest
  <2> QED
    BY <1>0, <2>1, <2>2, ResolutionWellPlanned
<1> QED
  BY <1>1, <1>2, <1>3 DEF InFlight

LEMMA FlightStep == TypeInv /\ FlightInv /\ [Next]_vars => FlightInv'
<1> SUFFICES ASSUME TypeInv, FlightInv, [Next]_vars, NEW m, InFlight(m)'
             PROVE  /\ m.expected \in Nat /\ m.expected <= db'.kase.version
                    /\ NamesItsEvent(m) /\ UniqueIds(m.events)
                    /\ m.expected = db'.kase.version => WellPlanned(db', m)
  BY DEF FlightInv
<1>0. db.kase.version \in Nat
  BY DEF TypeInv, TypeOK, DatabaseOK, CaseRecord
<1>1. CASE SameCase
  <2>1. WellPlanned(db, m) => WellPlanned(db', m)
    BY <1>1 DEF SameCase, WellPlanned, PlannedFresh, PlannedJustified, CitesResolutionEvidence,
       ContradictionBlocks, SucceededOutcome, ConfirmedReceipt
  <2>2. db'.kase.version = db.kase.version
    BY <1>1 DEF SameCase
  <2>3. CASE InFlight(m)
    BY <2>1, <2>2, <2>3 DEF FlightInv
  <2>4. CASE db' = db /\ WellPlanned(db, m)
    BY <1>0, <2>4 DEF WellPlanned
  <2> QED
    BY <2>3, <2>4, NewlyPlanned
<1>2. CASE CommitsMutation
  <2>1. PICK n : InFlight(n) /\ CommitResult(db, n) = "COMMITTED" /\ db' = ApplyMutation(db, n)
    BY <1>2 DEF CommitsMutation
  <2>2. db'.kase.version = db.kase.version + 1
    BY <2>1, Committed, Applied DEF VersionMatches, TypeInv, TypeOK
  <2>3. InFlight(m)
    BY <1>0, <2>2, NewlyPlanned
  <2> QED
    BY <1>0, <2>2, <2>3 DEF FlightInv
<1> QED
  BY <1>1, <1>2, CaseStep

LEMMA FlightInit == Init => FlightInv
  BY DEF Init, FlightInv, InFlight

\* What a committed mutation does to the case, in one place.
LEMMA CommitEffect ==
  ASSUME TypeInv, FlightInv, NEW m, InFlight(m), CommitResult(db, m) = "COMMITTED",
         db' = ApplyMutation(db, m)
  PROVE  /\ WellPlanned(db, m)
         /\ db'.kase = m.kase
         /\ db'.events = db.events \cup m.events
         /\ db'.evidence = db.evidence \cup m.evidence
         /\ db'.transactions = db.transactions \cup m.transactions
         /\ db'.audits = Append(db.audits, m.audit)
         /\ m.kase.version = db.kase.version + 1
         /\ IdsOf(m.events) \cap IdsOf(db.events) = {}
         /\ m.audit.previous = db.kase.state
         /\ m.audit.resulting = m.kase.state
         /\ m.audit \in Audit
<1>1. m \in CaseMutation
  BY PlannedHandler, PlannedCaller, PlannedWorker DEF InFlight
<1>2. /\ m.expected = db.kase.version /\ m.kase.version = db.kase.version + 1
      /\ IdsOf(m.events) \cap IdsOf(db.events) = {}
      /\ m.audit.previous = db.kase.state /\ m.audit.resulting = m.kase.state
  BY Committed DEF VersionMatches, HasDuplicateEventId, ReferencesAreValid, RecordsRefer,
     AuditRefers
<1>3. WellPlanned(db, m)
  BY <1>2 DEF FlightInv
<1>4. m.audit \in Audit
  BY <1>1 DEF CaseMutation
<1> QED
  BY <1>2, <1>3, <1>4, Applied DEF TypeInv, TypeOK

(***************************************************************************)
(* The audit trail.                                                        *)
(***************************************************************************)
AuditInv == AuditTrail /\ Len(db.audits) >= 2

LEMMA AuditInit == Init => AuditInv
  BY DEF Init, SeededCase, SeedAudit, AuditInv, AuditTrail

LEMMA AuditStep == TypeInv /\ FlightInv /\ AuditInv /\ [Next]_vars => AuditInv'
<1> SUFFICES ASSUME TypeInv, FlightInv, AuditInv, [Next]_vars PROVE AuditInv'
  OBVIOUS
<1>1. CASE SameCase
  BY <1>1 DEF SameCase, AuditInv, AuditTrail
<1>2. CASE CommitsMutation
  <2>1. PICK m : InFlight(m) /\ CommitResult(db, m) = "COMMITTED" /\ db' = ApplyMutation(db, m)
    BY <1>2 DEF CommitsMutation
  <2>2. /\ db'.kase = m.kase /\ db'.audits = Append(db.audits, m.audit) /\ m.audit \in Audit
        /\ m.kase.version = db.kase.version + 1
        /\ m.audit.previous = db.kase.state /\ m.audit.resulting = m.kase.state
    BY <2>1, CommitEffect
  <2>3. db.audits \in Seq(Audit) /\ db.kase.version \in Nat
    BY DEF TypeInv, TypeOK, DatabaseOK, CaseRecord
  <2>4. /\ Len(db'.audits) = Len(db.audits) + 1 /\ Len(db.audits) \in Nat
        /\ \A i \in 1..Len(db.audits) : db'.audits[i] = db.audits[i]
        /\ db'.audits[Len(db.audits) + 1] = m.audit
    BY <2>2, <2>3
  <2>5. db'.kase.version = Len(db'.audits) + 2
    BY <2>2, <2>3, <2>4 DEF AuditInv, AuditTrail
  <2>6. ASSUME NEW i \in 1..(Len(db'.audits) - 1)
        PROVE  db'.audits[i].resulting = db'.audits[i + 1].previous
    <3>1. CASE i = Len(db.audits)
      BY <2>2, <2>4, <3>1 DEF AuditInv, AuditTrail
    <3>2. CASE i \in 1..(Len(db.audits) - 1)
      BY <2>4, <3>2 DEF AuditInv, AuditTrail
    <3> QED
      BY <2>4, <3>1, <3>2
  <2>7. db'.audits[Len(db'.audits)].resulting = db'.kase.state
    BY <2>2, <2>4
  <2> QED
    BY <2>4, <2>5, <2>6, <2>7 DEF AuditInv, AuditTrail
<1> QED
  BY <1>1, <1>2, CaseStep

\* Optimistic concurrency loses no update and applies none to a case it was not planned from.
THEOREM AuditTrailHolds == Spec => []AuditTrail
<1>1. Init => TypeInv /\ FlightInv /\ AuditInv
  BY TypeInit, FlightInit, AuditInit
<1>2. TypeInv /\ FlightInv /\ AuditInv /\ [Next]_vars => (TypeInv /\ FlightInv /\ AuditInv)'
  BY TypeStep, FlightStep, AuditStep
<1> QED
  BY <1>1, <1>2, PTL DEF Spec, AuditInv

(***************************************************************************)
(* One semantic effect per event.                                          *)
(***************************************************************************)
TriggersStored ==
  \A i \in DOMAIN db.audits :
    db.audits[i].trigger[1] # "trigger" => db.audits[i].trigger \in IdsOf(db.events)

EffectInv == OneSemanticEffect /\ TriggersStored

LEMMA EffectInit == Init => EffectInv
<1> SUFFICES ASSUME Init PROVE EffectInv
  OBVIOUS
<1>1. /\ db.events = {IntakeEvent, EvidenceEvent}
      /\ DOMAIN db.audits = {1, 2}
      /\ db.audits[1].trigger = IntakeEvent.id /\ db.audits[2].trigger = EvidenceEvent.id
  BY DEF Init, SeededCase, SeedAudit
<1>2. IntakeEvent.id # EvidenceEvent.id
  BY DEF IntakeEvent, EvidenceEvent, CaseEvent
<1>3. OneSemanticEffect
  BY <1>1, <1>2 DEF OneSemanticEffect
<1>4. TriggersStored
  BY <1>1 DEF TriggersStored, IdsOf
<1> QED
  BY <1>3, <1>4 DEF EffectInv

LEMMA EffectStep == TypeInv /\ FlightInv /\ EffectInv /\ [Next]_vars => EffectInv'
<1> SUFFICES ASSUME TypeInv, FlightInv, EffectInv, [Next]_vars PROVE EffectInv'
  OBVIOUS
<1>1. CASE SameCase
  BY <1>1 DEF SameCase, EffectInv, OneSemanticEffect, TriggersStored
<1>2. CASE CommitsMutation
  <2>1. PICK m : InFlight(m) /\ CommitResult(db, m) = "COMMITTED" /\ db' = ApplyMutation(db, m)
    BY <1>2 DEF CommitsMutation
  <2>2. /\ db'.events = db.events \cup m.events /\ db'.audits = Append(db.audits, m.audit)
        /\ IdsOf(m.events) \cap IdsOf(db.events) = {} /\ m.audit \in Audit
        /\ NamesItsEvent(m) /\ UniqueIds(m.events)
    BY <2>1, CommitEffect DEF WellPlanned
  <2>3. db.audits \in Seq(Audit)
    BY DEF TypeInv, TypeOK, DatabaseOK
  <2>4. /\ Len(db.audits) \in Nat /\ DOMAIN db.audits = 1..Len(db.audits)
        /\ DOMAIN db'.audits = 1..(Len(db.audits) + 1)
        /\ \A i \in 1..Len(db.audits) : db'.audits[i] = db.audits[i]
        /\ db'.audits[Len(db.audits) + 1] = m.audit
    BY <2>2, <2>3
  <2>5. UniqueIds(db'.events)
    BY <2>2 DEF UniqueIds, IdsOf, EffectInv, OneSemanticEffect
  <2>6. IdsOf(db.events) \subseteq IdsOf(db'.events) /\ IdsOf(m.events) \subseteq IdsOf(db'.events)
    BY <2>2 DEF IdsOf
  <2>7. ASSUME NEW i \in DOMAIN db'.audits, db'.audits[i].trigger[1] # "trigger"
        PROVE  db'.audits[i].trigger \in IdsOf(db'.events)
    <3>1. CASE i \in 1..Len(db.audits)
      BY <2>4, <2>6, <2>7, <3>1 DEF TriggersStored, EffectInv
    <3>2. CASE i = Len(db.audits) + 1
      BY <2>2, <2>4, <2>6, <2>7, <3>2 DEF NamesItsEvent
    <3> QED
      BY <2>4, <3>1, <3>2
  <2>8. ASSUME NEW i \in 1..Len(db.audits), m.audit.trigger[1] # "trigger"
        PROVE  db.audits[i].trigger # m.audit.trigger
    BY <2>2, <2>4, <2>8 DEF EffectInv, TriggersStored, NamesItsEvent
  <2>9. ASSUME NEW i \in DOMAIN db'.audits, NEW j \in DOMAIN db'.audits,
               db'.audits[i].trigger = db'.audits[j].trigger,
               db'.audits[i].trigger[1] # "trigger"
        PROVE  i = j
    <3>1. CASE i \in 1..Len(db.audits) /\ j \in 1..Len(db.audits)
      BY <2>4, <2>9, <3>1 DEF EffectInv, OneSemanticEffect
    <3>2. CASE i \in 1..Len(db.audits) /\ j = Len(db.audits) + 1
      BY <2>4, <2>8, <2>9, <3>2
    <3>3. CASE i = Len(db.audits) + 1 /\ j \in 1..Len(db.audits)
      BY <2>4, <2>8, <2>9, <3>3
    <3> QED
      BY <2>4, <3>1, <3>2, <3>3
  <2> QED
    BY <2>5, <2>7, <2>9 DEF EffectInv, OneSemanticEffect, TriggersStored, UniqueIds
<1> QED
  BY <1>1, <1>2, CaseStep

\* However often and wherever an event is delivered, it is stored once and audited once.
THEOREM OneSemanticEffectHolds == Spec => []OneSemanticEffect
<1>1. Init => TypeInv /\ FlightInv /\ EffectInv
  BY TypeInit, FlightInit, EffectInit
<1>2. TypeInv /\ FlightInv /\ EffectInv /\ [Next]_vars => (TypeInv /\ FlightInv /\ EffectInv)'
  BY TypeStep, FlightStep, EffectStep
<1> QED
  BY <1>1, <1>2, PTL DEF Spec, EffectInv

(***************************************************************************)
(* Resolution.  The two theorems assume HonestCallers: a caller allowed to *)
(* name the resolution trigger itself resolves the case without evidence.  *)
(***************************************************************************)
LEMMA ResolutionInit == Init => ResolutionJustified
<1> SUFFICES ASSUME Init PROVE ResolutionJustified
  OBVIOUS
<1>1. /\ DOMAIN db.audits = {1, 2}
      /\ db.audits[1].resulting # "RESOLVED" /\ db.audits[2].resulting # "RESOLVED"
  BY DEF Init, SeededCase, SeedAudit
<1> QED
  BY <1>1 DEF ResolutionJustified

\* What an audit cites stays stored.
LEMMA CitationsStay ==
  ASSUME NEW audit, CitesResolutionEvidence(db, audit),
         db.transactions \subseteq db'.transactions, db.evidence \subseteq db'.evidence
  PROVE  CitesResolutionEvidence(db', audit)
  BY DEF CitesResolutionEvidence, SucceededOutcome, ConfirmedReceipt

LEMMA ResolutionStep ==
  HonestCallers /\ TypeInv /\ FlightInv /\ ResolutionJustified /\ [Next]_vars
    => ResolutionJustified'
<1> SUFFICES ASSUME HonestCallers, TypeInv, FlightInv, ResolutionJustified, [Next]_vars
             PROVE  ResolutionJustified'
  OBVIOUS
<1>1. CASE SameCase
  BY <1>1 DEF SameCase, ResolutionJustified, SucceededOutcome, ConfirmedReceipt
<1>2. CASE CommitsMutation
  <2>1. PICK m : InFlight(m) /\ CommitResult(db, m) = "COMMITTED" /\ db' = ApplyMutation(db, m)
    BY <1>2 DEF CommitsMutation
  <2>2. /\ db'.audits = Append(db.audits, m.audit) /\ m.audit \in Audit
        /\ db'.evidence = db.evidence \cup m.evidence
        /\ db'.transactions = db.transactions \cup m.transactions
        /\ m.audit.previous = db.kase.state /\ m.audit.resulting = m.kase.state
        /\ PlannedJustified(db, m)
    BY <2>1, CommitEffect DEF WellPlanned
  <2>3. db.audits \in Seq(Audit)
    BY DEF TypeInv, TypeOK, DatabaseOK
  <2>4. /\ Len(db.audits) \in Nat /\ DOMAIN db.audits = 1..Len(db.audits)
        /\ DOMAIN db'.audits = 1..(Len(db.audits) + 1)
        /\ \A i \in 1..Len(db.audits) : db'.audits[i] = db.audits[i]
        /\ db'.audits[Len(db.audits) + 1] = m.audit
    BY <2>2, <2>3
  <2>5. ASSUME NEW i \in DOMAIN db'.audits, db'.audits[i].resulting = "RESOLVED",
               db'.audits[i].previous # "RESOLVED"
        PROVE  CitesResolutionEvidence(db', db'.audits[i])
    <3>1. CASE i \in 1..Len(db.audits)
      <4>1. CitesResolutionEvidence(db, db.audits[i])
        BY <2>4, <2>5, <3>1 DEF ResolutionJustified, CitesResolutionEvidence
      <4> QED
        BY <2>2, <2>4, <3>1, <4>1, CitationsStay
    <3>2. CASE i = Len(db.audits) + 1
      <4>1. CitesResolutionEvidence(db, m.audit)
        BY <2>2, <2>4, <2>5, <3>2 DEF PlannedJustified
      <4> QED
        BY <2>2, <2>4, <3>2, <4>1, CitationsStay
    <3> QED
      BY <2>4, <3>1, <3>2
  <2> QED
    BY <2>5 DEF ResolutionJustified, CitesResolutionEvidence
<1> QED
  BY <1>1, <1>2, CaseStep

\* No interleaving makes a case RESOLVED on an audit that does not cite the evidence for it.
THEOREM ResolutionJustifiedHolds ==
  ASSUME HonestCallers
  PROVE  Spec => []ResolutionJustified
<1>1. Init => TypeInv /\ FlightInv /\ ResolutionJustified
  BY TypeInit, FlightInit, ResolutionInit
<1>2. TypeInv /\ FlightInv /\ ResolutionJustified /\ [Next]_vars
        => (TypeInv /\ FlightInv /\ ResolutionJustified)'
  BY TypeStep, FlightStep, ResolutionStep
<1> QED
  BY <1>1, <1>2, PTL DEF Spec

\* The claims an evaluation found uncontradicted are still so when its commit is applied.
THEOREM NoResolutionOverContradictionHolds ==
  ASSUME HonestCallers
  PROVE  Spec => NoResolutionOverContradiction
<1>1. Init => TypeInv /\ FlightInv
  BY TypeInit, FlightInit
<1>2. TypeInv /\ FlightInv /\ [Next]_vars => (TypeInv /\ FlightInv)'
  BY TypeStep, FlightStep
<1>3. TypeInv /\ FlightInv /\ [Next]_vars
        => [db.kase.state # "RESOLVED" /\ db'.kase.state = "RESOLVED"
              => ~ContradictionBlocks(db)]_vars
  <2> SUFFICES ASSUME TypeInv, FlightInv, [Next]_vars,
                      db.kase.state # "RESOLVED", db'.kase.state = "RESOLVED"
               PROVE  ~ContradictionBlocks(db)
    OBVIOUS
  <2>1. CommitsMutation
    BY CaseStep DEF SameCase
  <2>2. PICK m : InFlight(m) /\ CommitResult(db, m) = "COMMITTED" /\ db' = ApplyMutation(db, m)
    BY <2>1 DEF CommitsMutation
  <2>3. PlannedJustified(db, m) /\ db'.kase = m.kase
    BY <2>2, CommitEffect DEF WellPlanned
  <2> QED
    BY <2>3 DEF PlannedJustified
<1> QED
  BY <1>1, <1>2, <1>3, PTL DEF Spec, NoResolutionOverContradiction

(***************************************************************************)
(* Acknowledgements.  A delivery is acknowledged as a duplicate at commit  *)
(* only if another event had stored its id in between; but then the        *)
(* version has moved too, and the store answers that first.                *)
(***************************************************************************)
CarriesItsEvent ==
  \A h \in Handlers :
    handlers[h].pc = "planned" => handlers[h].mutation.events = {handlers[h].event}

AckInv == AckedMeansStored /\ CarriesItsEvent

LEMMA AckInit == Init => AckInv
  BY DEF Init, AckInv, AckedMeansStored, CarriesItsEvent

LEMMA CarriesStep == TypeInv /\ CarriesItsEvent /\ [Next]_vars => CarriesItsEvent'
<1> SUFFICES ASSUME TypeInv, CarriesItsEvent, [Next]_vars,
                    NEW h \in Handlers, handlers'[h].pc = "planned"
             PROVE  handlers'[h].mutation.events = {handlers'[h].event}
  BY DEF CarriesItsEvent
<1>1. CASE handlers'[h] = handlers[h]
  BY <1>1 DEF CarriesItsEvent
<1>2. CASE handlers'[h] # handlers[h]
  <2>1. PICK e \in Deliverable : DeliverPlanned(h, e) /\ handlers'[h].mutation = PlanEvent(e)
    BY <1>2, NewlyPlannedHandler
  <2>2. handlers'[h].event = e /\ StoredEvents(e) = {}
    BY <2>1 DEF DeliverPlanned, TypeInv, TypeOK
  <2>3. PlanEvent(e).events = {e}
    BY <2>2, EventWellPlanned DEF TypeInv, TypeOK
  <2> QED
    BY <2>1, <2>2, <2>3
<1> QED
  BY <1>1, <1>2

\* A new acknowledgement comes from a delivery that was settled, committed or rechecked.
LEMMA NewAck ==
  ASSUME [Next]_vars, acks' # acks
  PROVE  \E h \in Handlers :
           \/ \E e \in Deliverable : DeliverSettled(h, e)
           \/ CommitEvent(h) \/ RecheckEvent(h)
<1>1. Ingress => acks' = acks
  BY DEF Ingress, PublishProviderEvent, ReserveSubmission, MarkSubmissionPublished,
     ReleaseSubmission, SetReceipt, PublishPartnerEvent
<1>2. Calling => acks' = acks
  BY DEF Calling, PlanTransition, CommitTransition
<1>3. Automation => acks' = acks
  BY DEF Automation, WorkerStep, ClaimRequest, DecideRequest, CommitResolution, CompleteRequest,
     CrashWorker
<1>4. PICK h \in Handlers :
        \/ \E e \in Deliverable : DeliverSettled(h, e) \/ DeliverPlanned(h, e)
        \/ CommitEvent(h) \/ RecheckEvent(h) \/ CrashHandler(h)
  BY <1>1, <1>2, <1>3 DEF Next, vars, Handling, HandlerStep
<1>5. ~CrashHandler(h) /\ \A e \in Deliverable : ~DeliverPlanned(h, e)
  BY DEF CrashHandler, DeliverPlanned
<1> QED
  BY <1>4, <1>5

LEMMA EventsStay == TypeInv /\ [Next]_vars => db.events \subseteq db'.events
  BY CaseStep, Applied DEF SameCase, CommitsMutation, TypeInv, TypeOK

LEMMA AckStep == TypeInv /\ FlightInv /\ AckInv /\ [Next]_vars => AckInv'
<1> SUFFICES ASSUME TypeInv, FlightInv, AckInv, [Next]_vars,
                    NEW a \in acks', a.result \in {"COMMITTED", "DUPLICATE_EVENT"}
             PROVE  a.event \in db'.events
  BY CarriesStep DEF AckInv, AckedMeansStored
<1>1. CASE a \in acks
  BY <1>1, EventsStay DEF AckInv, AckedMeansStored
<1>2. ASSUME a \notin acks, NEW h \in Handlers, NEW e \in Deliverable, DeliverSettled(h, e)
      PROVE  a.event \in db'.events
  BY <1>2 DEF DeliverSettled, Ack, DuplicateOrIntegrity, StoredEvents
<1>3. ASSUME a \notin acks, NEW h \in Handlers, RecheckEvent(h)
      PROVE  a.event \in db'.events
  BY <1>3 DEF RecheckEvent, Ack, DuplicateOrIntegrity, StoredEvents
<1>4. ASSUME a \notin acks, NEW h \in Handlers, CommitEvent(h)
      PROVE  a.event \in db'.events
  <2> DEFINE m == handlers[h].mutation
             e == handlers[h].event
  <2>1. handlers[h].pc = "planned" /\ m.events = {e} /\ e \in Deliverable /\ InFlight(m)
    BY <1>4, PlannedHandler DEF CommitEvent, AckInv, CarriesItsEvent, InFlight
  <2>2. a = [event |-> e, result |-> CommitResult(db, m)]
    BY <1>4 DEF CommitEvent, Ack
  <2>3. CASE CommitResult(db, m) = "COMMITTED"
    <3>1. db' = ApplyMutation(db, m)
      BY <1>4, <2>3 DEF CommitEvent
    <3> QED
      BY <2>1, <2>2, <3>1, Applied DEF TypeInv, TypeOK
  <2>4. CASE CommitResult(db, m) = "DUPLICATE_EVENT"
    <3>1. VersionMatches(db, m) /\ HasDuplicateEventId(db, m)
      BY <2>4 DEF CommitResult
    <3>2. e.id \notin IdsOf(db.events)
      BY <2>1, <3>1 DEF VersionMatches, FlightInv, WellPlanned, PlannedFresh
    <3> QED
      BY <2>1, <3>1, <3>2 DEF HasDuplicateEventId, IdsOf
  <2> QED
    BY <2>2, <2>3, <2>4
<1> QED
  BY <1>1, <1>2, <1>3, <1>4, NewAck

\* What the broker was told is done is done: an acknowledged event is stored, and as sent.
THEOREM AckedMeansStoredHolds == Spec => []AckedMeansStored
<1>1. Init => TypeInv /\ FlightInv /\ AckInv
  BY TypeInit, FlightInit, AckInit
<1>2. TypeInv /\ FlightInv /\ AckInv /\ [Next]_vars => (TypeInv /\ FlightInv /\ AckInv)'
  BY TypeStep, FlightStep, AckStep
<1> QED
  BY <1>1, <1>2, PTL DEF Spec, AckInv

(***************************************************************************)
(* One response per request.  A token in use stays bound to one event, so  *)
(* a stored response, and one that is about to be stored, is the one its   *)
(* receipt names.  A released token may be bound anew, hence ~Releasing.   *)
(***************************************************************************)
IsResponse(e) == e.kind = "PARTNER_EVIDENCE_SUBMITTED"

Bound(receipt) == receipt.state \in {"RESERVED", "PUBLISHED"}

Answers(d, e) == Bound(d.receipts[RequestOf(e)]) /\ d.receipts[RequestOf(e)].event = e.id

ReceiptInv ==
  /\ \A r \in PartnerRequests : db.receipts[r].state # "FAILED_RETRYABLE"
  /\ \A e \in db.events : IsResponse(e) => Answers(db, e)
  /\ \A m : InFlight(m) => \A e \in m.events : IsResponse(e) => Answers(db, e)

LEMMA ResponsesArePartnerEvents ==
  ASSUME NEW e \in Event, IsResponse(e)
  PROVE  e \in PartnerEvents /\ RequestOf(e) \in PartnerRequests
<1>1. e \notin ProviderEvents
  BY StoreAssumption DEF ProviderEvent, IsResponse
<1>2. e \notin EvaluationEvents /\ e # IntakeEvent /\ e # EvidenceEvent
  BY DEF EvaluationEvents, IntakeEvent, EvidenceEvent, CaseEvent, IsResponse
<1>3. "PARTNER_EVIDENCE_SUBMITTED" \notin TriggerKind
  BY DEF TriggerKind, TransitionMatrix, Rule
<1>4. \A k \in TriggerKind : e # TriggerEvent(k)
  BY <1>3 DEF TriggerEvent, CaseEvent, IsResponse
<1>5. e \in PartnerEvents
  BY <1>1, <1>2, <1>4 DEF Event
<1> QED
  BY <1>5 DEF PartnerEvents, PartnerEvent, RequestOf

LEMMA ReceiptInit == Init => ReceiptInv
  BY DEF Init, SeededCase, ReceiptInv, InFlight, IsResponse, IntakeEvent, EvidenceEvent, CaseEvent

\* Without release a bound token keeps its event.
LEMMA ReceiptsStay ==
  ASSUME ~Releasing, TypeInv, [Next]_vars,
         \A r \in PartnerRequests : db.receipts[r].state # "FAILED_RETRYABLE"
  PROVE  \A r \in PartnerRequests :
           /\ db'.receipts[r].state # "FAILED_RETRYABLE"
           /\ Bound(db.receipts[r]) =>
                Bound(db'.receipts[r]) /\ db'.receipts[r].event = db.receipts[r].event
<1> USE DEF TypeInv, TypeOK, DatabaseOK
<1>1. CASE db'.receipts = db.receipts
  BY <1>1
<1>2. ASSUME NEW r \in PartnerRequests, NEW receipt, SetReceipt(r, receipt)
      PROVE  \A q \in PartnerRequests :
               db'.receipts[q] = IF q = r THEN receipt ELSE db.receipts[q]
  BY <1>2 DEF SetReceipt
<1>3. ASSUME NEW r \in PartnerRequests, NEW a \in Responses, ReserveSubmission(r, a)
      PROVE  \A q \in PartnerRequests :
               \/ db'.receipts[q] = db.receipts[q]
               \/ /\ ~Bound(db.receipts[q])
                  /\ db'.receipts[q].state = "RESERVED"
  BY <1>2, <1>3 DEF ReserveSubmission, Bound
<1>4. ASSUME NEW r \in PartnerRequests, NEW a \in Responses, NEW t \in Stamps,
             MarkSubmissionPublished(r, a, t)
      PROVE  \A q \in PartnerRequests :
               \/ db'.receipts[q] = db.receipts[q]
               \/ /\ db'.receipts[q].state = "PUBLISHED"
                  /\ db'.receipts[q].event = db.receipts[q].event
  BY <1>2, <1>4 DEF MarkSubmissionPublished
<1>5. ASSUME NEW r \in PartnerRequests, ReleaseSubmission(r) PROVE FALSE
  BY <1>5 DEF ReleaseSubmission
<1>6. CASE Ingress
  <2>1. CASE \E r \in PartnerRequests, a \in Responses : ReserveSubmission(r, a)
    BY <1>3, <2>1 DEF Bound
  <2>2. CASE \E r \in PartnerRequests, a \in Responses, t \in Stamps :
               MarkSubmissionPublished(r, a, t)
    BY <1>4, <2>2 DEF Bound
  <2>3. CASE \/ \E e \in ProviderEvents : PublishProviderEvent(e)
             \/ \E e \in PartnerEvents : PublishPartnerEvent(e)
    BY <1>1, <2>3 DEF PublishProviderEvent, PublishPartnerEvent
  <2> QED
    BY <1>5, <1>6, <2>1, <2>2, <2>3 DEF Ingress
<1>7. ASSUME NEW n, db' = ApplyMutation(db, n) PROVE db'.receipts = db.receipts
  BY <1>7 DEF ApplyMutation
<1>8. ASSUME NEW v, NEW request, db' = [db EXCEPT !.requests[v] = request]
      PROVE  db'.receipts = db.receipts
  BY <1>8
<1>9. CASE Handling
  BY <1>1, <1>7, <1>9 DEF Handling, HandlerStep, DeliverSettled, DeliverPlanned, CommitEvent,
     RecheckEvent, CrashHandler
<1>10. CASE Calling
  BY <1>1, <1>7, <1>10 DEF Calling, PlanTransition, CommitTransition
<1>11. CASE Automation
  BY <1>1, <1>7, <1>8, <1>11 DEF Automation, WorkerStep, ClaimRequest, DecideRequest,
     CommitResolution, CompleteRequest, CrashWorker
<1> QED
  BY <1>1, <1>6, <1>9, <1>10, <1>11 DEF Next, vars

\* A response is planned only while its receipt names it; no other mutation carries one.
LEMMA NewResponseAnswers ==
  ASSUME TypeInv, [Next]_vars, NEW m, InFlight(m)', ~InFlight(m), NEW e \in m.events, IsResponse(e)
  PROVE  Answers(db, e)
<1>0. DatabaseOK
  BY DEF TypeInv, TypeOK
<1>1. ASSUME NEW h \in Handlers, handlers'[h].pc = "planned", m = handlers'[h].mutation,
             handlers'[h] # handlers[h]
      PROVE  Answers(db, e)
  <2>1. PICK f \in Deliverable : DeliverPlanned(h, f) /\ m = PlanEvent(f)
    BY <1>1, NewlyPlannedHandler
  <2>2. e = f /\ EventValid(f)
    BY <1>0, <2>1, EventWellPlanned DEF DeliverPlanned
  <2>3. e \in PartnerEvents
    BY <2>2, EventIds, ResponsesArePartnerEvents
  <2> QED
    BY <2>2, <2>3 DEF EventValid, PartnerEventValid, Answers, Bound
<1>2. ASSUME NEW c \in Callers, callers'[c].pc = "planned", m = callers'[c].mutation,
             callers'[c] # callers[c]
      PROVE  FALSE
  <2>1. PICK target \in CaseState, kind \in CallerTriggers, evidenceIds \in {{}, IdsOf(db.evidence)} :
          m = PlanCallerTransition(db, target, kind, evidenceIds)
    BY <1>2, NewlyPlannedCaller
  <2>2. e = TriggerEvent(kind) /\ kind \in TriggerKind
    BY <2>1, ResolutionAssumption DEF PlanCallerTransition, Mutation
  <2>3. "PARTNER_EVIDENCE_SUBMITTED" \notin TriggerKind
    BY DEF TriggerKind, TransitionMatrix, Rule
  <2> QED
    BY <2>2, <2>3 DEF TriggerEvent, CaseEvent, IsResponse
<1>3. ASSUME NEW w \in Workers, workers'[w].pc = "planned", m = workers'[w].mutation,
             workers'[w] # workers[w]
      PROVE  FALSE
  <2>1. PICK cited \in ResolutionEvidence(db) : m = AttachOutbox(PlanResolution(db, cited))
    BY <1>3, NewlyPlannedWorker
  <2>2. e = EvaluationEvent(db.kase.version)
    BY <2>1 DEF AttachOutbox, PlanResolution, Mutation
  <2> QED
    BY <2>2 DEF EvaluationEvent, CaseEvent, IsResponse
<1> QED
  BY <1>1, <1>2, <1>3 DEF InFlight

LEMMA ReceiptStep ==
  ~Releasing /\ TypeInv /\ ReceiptInv /\ [Next]_vars => ReceiptInv'
<1> SUFFICES ASSUME ~Releasing, TypeInv, ReceiptInv, [Next]_vars PROVE ReceiptInv'
  OBVIOUS
<1>1. ASSUME NEW e \in Event, IsResponse(e), Answers(db, e) PROVE Answers(db', e)
  BY <1>1, ReceiptsStay, ResponsesArePartnerEvents DEF ReceiptInv, Answers
<1>2. ASSUME NEW m, InFlight(m) PROVE m.events \subseteq Event
  BY <1>2, PlannedHandler, PlannedCaller, PlannedWorker DEF InFlight, CaseMutation
<1>3. ASSUME NEW e \in db'.events, IsResponse(e) PROVE e \in Event /\ Answers(db, e)
  <2>1. CASE e \in db.events
    BY <1>3, <2>1 DEF ReceiptInv, TypeInv, TypeOK, DatabaseOK
  <2>2. CASE e \notin db.events
    <3>1. PICK m : InFlight(m) /\ db' = ApplyMutation(db, m)
      BY <2>2, CaseStep DEF SameCase, CommitsMutation
    <3>2. e \in m.events
      BY <2>2, <3>1, Applied DEF TypeInv, TypeOK
    <3> QED
      BY <1>2, <1>3, <3>1, <3>2 DEF ReceiptInv
  <2> QED
    BY <2>1, <2>2
<1>4. ASSUME NEW m, InFlight(m)', NEW e \in m.events, IsResponse(e) PROVE Answers(db', e)
  <2>1. Answers(db, e)
    BY <1>4, NewResponseAnswers DEF ReceiptInv
  <2>2. e \in Event
    <3>1. TypeInv'
      BY TypeStep
    <3>2. m \in CaseMutation
      BY <1>4, <3>1 DEF InFlight, TypeInv, TypeOK, HandlerState, CallerState, WorkerState
    <3> QED
      BY <1>4, <3>2 DEF CaseMutation
  <2> QED
    BY <1>1, <1>4, <2>1, <2>2
<1> QED
  BY <1>1, <1>3, <1>4, ReceiptsStay DEF ReceiptInv

\* Unless tokens are released, one partner request yields one stored answer.
THEOREM OneResponsePerRequestHolds ==
  ASSUME ~Releasing
  PROVE  Spec => []OneResponsePerRequest
<1>1. Init => TypeInv /\ FlightInv /\ EffectInv /\ ReceiptInv
  BY TypeInit, FlightInit, EffectInit, ReceiptInit
<1>2. TypeInv /\ FlightInv /\ EffectInv /\ ReceiptInv /\ [Next]_vars
        => (TypeInv /\ FlightInv /\ EffectInv /\ ReceiptInv)'
  BY TypeStep, FlightStep, EffectStep, ReceiptStep
<1>3. EffectInv /\ ReceiptInv => OneResponsePerRequest
  BY DEF EffectInv, OneSemanticEffect, ReceiptInv, OneResponsePerRequest, IsResponse, Answers
<1> QED
  BY <1>1, <1>2, <1>3, PTL DEF Spec

(***************************************************************************)
(* No ready case is stranded before its request runs out of attempts.  A   *)
(* request is closed by a worker that found nothing to resolve at the      *)
(* version the request is pinned to, or whose commit moved the case on;    *)
(* that a commit at that version is accepted takes what the store checks   *)
(* of a resolution to hold of what is stored.  So the request of a ready   *)
(* case stays open, and each of its attempts is a worker still at it or a  *)
(* process that died.                                                      *)
(***************************************************************************)
\* transitionCase attaches no outbox: no caller moves a case to RESOLUTION_PENDING.
PendingByEventsOnly == "RESOLUTION_PROVISIONAL" \notin CallerTriggers

RequestsPinned == \A v \in DOMAIN db.requests : v <= db.kase.version

EvaluationsPast ==
  \A e \in db.events, v \in Nat : e.id = <<"automation", v>> => v < db.kase.version

\* What applyCaseMutation checks of the records of a snapshot.
RecordsStand(d) ==
  /\ \A c \in d.claims : /\ c.claimant \in d.kase.parties
                         /\ c.source \in IdsOf(d.events)
                         /\ c.evidence \subseteq IdsOf(d.evidence)
  /\ \A ev \in d.evidence : ev.about \subseteq IdsOf(d.claims)
  /\ \A t \in d.transactions : \E ev \in d.evidence : Authenticates(ev, t)

LeavesWork(m) == m.kase.state = "RESOLUTION_PENDING" => m.kase.version \in m.requests

EvaluatesItsVersion(m) ==
  \A e \in m.events, v \in Nat : e.id = <<"automation", v>> => v = m.expected

WorkStands(s, d) ==
  /\ s.pc # "idle" => s.version <= d.kase.version
  /\ s.pc = "planned" => /\ s.mutation.expected = s.version
                         /\ s.version = d.kase.version => CommitResult(d, s.mutation) = "COMMITTED"
  /\ s.pc = "finishing" /\ s.version = d.kase.version =>
       s.outcome = "SUCCEEDED" /\ ~ResolutionReady(d)

\* The request of the version a ready case is at is open.
RequestOpen ==
  ResolutionReady(db) =>
    /\ db.kase.version \in DOMAIN db.requests
    /\ db.requests[db.kase.version].state \in {"PENDING", "LEASED", "FAILED_RETRYABLE"}

\* The workers that hold a claim of the version the case is at.
AtWork == { w \in Workers : workers[w].pc # "idle" /\ workers[w].version = db.kase.version }

AttemptsAccounted ==
  /\ IsFiniteSet(AtWork)
  /\ ResolutionReady(db) =>
       RetriesOnClaim(db.requests[db.kase.version]) <= Cardinality(AtWork) + crashes

ReadyInv ==
  /\ RequestOpen
  /\ AttemptsAccounted
  /\ RequestsPinned /\ EvaluationsPast /\ RecordsStand(db)
  /\ \A m : InFlight(m) => LeavesWork(m) /\ EvaluatesItsVersion(m)
  /\ \A w \in Workers : WorkStands(workers[w], db)

LEMMA ReadyInit == Init => ReadyInv
<1> SUFFICES ASSUME Init PROVE ReadyInv
  OBVIOUS
<1> DEFINE seed == <<"seed", <<"refund", "processed">>>>
<1>1. db.kase.state = "INVESTIGATING" /\ db.kase.parties = {"customer", "merchant"}
  BY DEF Init, SeededCase
<1>2. db.events = {IntakeEvent, EvidenceEvent} /\ DOMAIN db.requests = {} /\ db.transactions = {}
  BY DEF Init, SeededCase
<1>3. /\ \E c : db.claims = {c}
      /\ \E ev : db.evidence = {ev}
  BY DEF Init, SeededCase
<1>4. /\ \A c \in db.claims : /\ c.id = seed /\ c.claimant = "merchant"
                              /\ c.source = EvidenceEvent.id /\ c.evidence = {EvidenceEvent.id}
  BY DEF Init, SeededCase
<1>5. \A ev \in db.evidence : ev.id = EvidenceEvent.id /\ ev.about = {seed}
  BY DEF Init, SeededCase
<1>6. ~ResolutionReady(db)
  BY <1>1 DEF ResolutionReady
<1>7. EvaluationsPast
  BY <1>2 DEF EvaluationsPast, IntakeEvent, EvidenceEvent, CaseEvent
<1>8. RecordsStand(db)
  BY <1>1, <1>2, <1>3, <1>4, <1>5 DEF RecordsStand, IdsOf
<1>9. /\ \A m : ~InFlight(m)
      /\ \A w \in Workers : workers[w].pc = "idle"
  BY DEF Init, InFlight
<1>10. AttemptsAccounted
  <2>1. AtWork = {}
    BY <1>9 DEF AtWork
  <2> QED
    BY <1>6, <2>1, FS_EmptySet DEF AttemptsAccounted
<1> QED
  BY <1>2, <1>6, <1>7, <1>8, <1>9, <1>10
     DEF ReadyInv, RequestOpen, RequestsPinned, WorkStands

\* A resolution that is planned now would be accepted now.
LEMMA ResolutionCommits ==
  ASSUME DatabaseOK, RequestsPinned, EvaluationsPast, RecordsStand(db), ResolutionReady(db),
         NEW cited \in ResolutionEvidence(db)
  PROVE  CommitResult(db, AttachOutbox(PlanResolution(db, cited))) = "COMMITTED"
<1> DEFINE event == EvaluationEvent(db.kase.version)
           plan == PlanResolution(db, cited)
           m == AttachOutbox(plan)
<1>1. db.kase \in CaseRecord /\ db.kase.version \in Nat /\ DOMAIN db.requests \subseteq Nat
  BY DEF DatabaseOK, CaseRecord
<1>2. /\ plan.expected = db.kase.version /\ plan.kase = TransitionedCase(db.kase, "RESOLVED")
      /\ plan.events = {event} /\ plan.evidence = {} /\ plan.claims = {} /\ plan.transactions = {}
      /\ plan.audit = [trigger |-> event.id, previous |-> db.kase.state, resulting |-> "RESOLVED",
                       evidence |-> cited]
  BY DEF PlanResolution, Mutation, TransitionAudit
<1>3. /\ plan.kase.version = db.kase.version + 1 /\ plan.kase.state = "RESOLVED"
      /\ plan.kase.parties = db.kase.parties
  BY <1>1, <1>2 DEF TransitionedCase, CaseRecord
<1>4. /\ m.expected = plan.expected /\ m.kase = plan.kase /\ m.events = plan.events
      /\ m.evidence = plan.evidence /\ m.claims = plan.claims
      /\ m.transactions = plan.transactions /\ m.audit = plan.audit
      /\ m.requests = {m.kase.version}
  BY <1>2, <1>3 DEF AttachOutbox, PlanResolution, Mutation
<1> HIDE DEF m, plan
<1>5. VersionMatches(db, m)
  BY <1>2, <1>3, <1>4 DEF VersionMatches
<1>6. ~HasDuplicateEventId(db, m)
  <2>1. event.id = <<"automation", db.kase.version>>
    BY DEF EvaluationEvent, CaseEvent
  <2>2. \A e \in db.events : e.id # event.id
    BY <1>1, <2>1 DEF EvaluationsPast
  <2> QED
    BY <1>2, <1>4, <2>2 DEF HasDuplicateEventId, IdsOf
<1>7. ~HasDuplicateRecord(db, m)
  <2>1. m.kase.version \notin DOMAIN db.requests
    BY <1>1, <1>3, <1>4 DEF RequestsPinned
  <2> QED
    BY <1>2, <1>4, <2>1 DEF HasDuplicateRecord, IdsOf
<1>8. RecordsRefer(db, m)
  <2>1. UpsertClaims(db.claims, m.claims) = db.claims
    BY <1>2, <1>4 DEF UpsertClaims, IdsOf
  <2>2. db.evidence \cup m.evidence = db.evidence
        /\ db.transactions \cup m.transactions = db.transactions
    BY <1>2, <1>4
  <2>3. IdsOf(db.events) \subseteq IdsOf(db.events \cup m.events)
    BY DEF IdsOf
  <2> QED
    BY <1>3, <1>4, <2>1, <2>2, <2>3 DEF RecordsRefer, RecordsStand
<1>9. AuditRefers(db, m)
  <2>1. cited \subseteq IdsOf(db.evidence)
    BY DEF ResolutionEvidence, IdsOf
  <2>2. event.id \in IdsOf(db.events \cup m.events)
    BY <1>2, <1>4 DEF IdsOf
  <2> QED
    BY <1>2, <1>3, <1>4, <2>1, <2>2 DEF AuditRefers, IdsOf
<1> QED
  BY <1>5, <1>6, <1>7, <1>8, <1>9 DEF CommitResult, ReferencesAreValid, m, plan

\* A step that commits nothing leaves the outbox alone, or claims or completes one request.
LEMMA OutboxStep ==
  ASSUME TypeInv, [Next]_vars, ~CommitsMutation
  PROVE  /\ SameCase
         /\ \/ db'.requests = db.requests
            \/ \E w \in Workers, v \in DOMAIN db.requests : ClaimRequest(w, v)
            \/ \E w \in Workers : CompleteRequest(w)
<1> SUFFICES \/ db'.requests = db.requests
             \/ \E w \in Workers, v \in DOMAIN db.requests : ClaimRequest(w, v)
             \/ \E w \in Workers : CompleteRequest(w)
  BY CaseStep
<1>1. DatabaseOK
  BY DEF TypeInv, TypeOK
<1>2. ASSUME NEW r, NEW receipt, SetReceipt(r, receipt) PROVE db'.requests = db.requests
  BY <1>1, <1>2 DEF SetReceipt, DatabaseOK
<1>3. CASE Ingress
  BY <1>2, <1>3 DEF Ingress, PublishProviderEvent, ReserveSubmission, MarkSubmissionPublished,
     ReleaseSubmission, PublishPartnerEvent
<1>4. ASSUME NEW h \in Handlers, CommitEvent(h) PROVE db' = db
  BY <1>4 DEF CommitEvent, CommitsMutation, InFlight
<1>5. CASE Handling
  BY <1>4, <1>5 DEF Handling, HandlerStep, DeliverSettled, DeliverPlanned, RecheckEvent, CrashHandler
<1>6. CASE Calling
  BY <1>6 DEF Calling, PlanTransition, CommitTransition, CommitsMutation, InFlight
<1>7. ASSUME NEW w \in Workers, CommitResolution(w) PROVE db' = db
  BY <1>7 DEF CommitResolution, CommitsMutation, InFlight
<1>8. CASE Automation
  BY <1>7, <1>8 DEF Automation, WorkerStep, DecideRequest, CrashWorker
<1> QED
  BY <1>3, <1>5, <1>6, <1>8 DEF Next, vars

\* Every mutation that leads to RESOLUTION_PENDING leaves an evaluation behind, and a
\* mutation that carries an evaluation event is pinned to the version of that event.
LEMMA PlannedLeavesWork ==
  ASSUME PendingByEventsOnly, TypeInv, [Next]_vars, NEW m, InFlight(m)', ~InFlight(m)
  PROVE  LeavesWork(m) /\ EvaluatesItsVersion(m)
<1>0. db.kase \in CaseRecord /\ db.kase.version \in Nat
  BY DEF TypeInv, TypeOK, DatabaseOK, CaseRecord
<1>1. ASSUME NEW h \in Handlers, handlers'[h].pc = "planned", m = handlers'[h].mutation,
             handlers'[h] # handlers[h]
      PROVE  LeavesWork(m) /\ EvaluatesItsVersion(m)
  <2>1. PICK e \in Deliverable : m = PlanEvent(e)
    BY <1>1, NewlyPlannedHandler
  <2> DEFINE plan == IF e \in ProviderEvents THEN PlanProviderRefund(db, e)
                                             ELSE PlanPartnerEvidence(db, e)
  <2>2. /\ plan.expected = db.kase.version /\ plan.kase.version = db.kase.version + 1
        /\ plan.events = {e}
    BY <1>0 DEF PlanProviderRefund, PlanPartnerEvidence, Mutation, CaseRecord
  <2>3. m.kase = plan.kase /\ m.events = plan.events /\ m.requests = {m.kase.version}
    BY <2>1, <2>2 DEF PlanEvent, AttachOutbox, PlanProviderRefund, PlanPartnerEvidence, Mutation
  <2>4. \A v \in Nat : e.id # <<"automation", v>>
    BY StoreAssumption DEF Deliverable, ProviderEvent, PartnerEvents, PartnerEvent
  <2> QED
    BY <2>2, <2>3, <2>4 DEF LeavesWork, EvaluatesItsVersion
<1>2. ASSUME NEW c \in Callers, callers'[c].pc = "planned", m = callers'[c].mutation,
             callers'[c] # callers[c]
      PROVE  LeavesWork(m) /\ EvaluatesItsVersion(m)
  <2>1. PICK target \in CaseState, kind \in CallerTriggers, evidenceIds \in {{}, IdsOf(db.evidence)} :
          /\ PlanTransition(c, target, kind, evidenceIds)
          /\ m = PlanCallerTransition(db, target, kind, evidenceIds)
    BY <1>2, NewlyPlannedCaller
  <2>2. TransitionAllowed(db.kase, target, kind, evidenceIds)
    BY <2>1 DEF PlanTransition
  <2>3. target # "RESOLUTION_PENDING"
    BY <2>2 DEF TransitionAllowed, TransitionMatrix, Rule, PendingByEventsOnly
  <2>4. m.kase.state = target /\ m.events \subseteq {TriggerEvent(kind)}
    BY <1>0, <2>1 DEF PlanCallerTransition, Mutation, TransitionedCase, CaseRecord
  <2>5. TriggerEvent(kind).id = <<"trigger", kind>>
    BY DEF TriggerEvent, CaseEvent
  <2> QED
    BY <2>3, <2>4, <2>5 DEF LeavesWork, EvaluatesItsVersion
<1>3. ASSUME NEW w \in Workers, workers'[w].pc = "planned", m = workers'[w].mutation,
             workers'[w] # workers[w]
      PROVE  LeavesWork(m) /\ EvaluatesItsVersion(m)
  <2>1. PICK cited \in ResolutionEvidence(db) : m = AttachOutbox(PlanResolution(db, cited))
    BY <1>3, NewlyPlannedWorker
  <2>2. /\ m.kase = TransitionedCase(db.kase, "RESOLVED") /\ m.expected = db.kase.version
        /\ m.events = {EvaluationEvent(db.kase.version)}
    BY <2>1 DEF AttachOutbox, PlanResolution, Mutation
  <2>3. m.kase.state = "RESOLVED"
    BY <1>0, <2>2 DEF TransitionedCase, CaseRecord
  <2>4. EvaluationEvent(db.kase.version).id = <<"automation", db.kase.version>>
    BY DEF EvaluationEvent, CaseEvent
  <2> QED
    BY <2>2, <2>3, <2>4 DEF LeavesWork, EvaluatesItsVersion
<1> QED
  BY <1>1, <1>2, <1>3 DEF InFlight

\* What a batch holds was there before the step, or is what the step gave it.
LEMMA WorkerMoves ==
  ASSUME TypeInv, [Next]_vars, NEW w \in Workers, workers'[w] # workers[w]
  PROVE  \/ workers'[w] = Idle
         \/ \E v \in DOMAIN db.requests : ClaimRequest(w, v) /\ workers'[w] = [pc |-> "claimed", version |-> v]
         \/ DecideRequest(w) \/ CommitResolution(w)
<1> USE DEF TypeInv, TypeOK
<1>1. PICK i \in Workers :
        \/ \E v \in DOMAIN db.requests : ClaimRequest(i, v)
        \/ DecideRequest(i) \/ CommitResolution(i) \/ CompleteRequest(i) \/ CrashWorker(i)
  BY ProcessesMove DEF Automation, WorkerStep
<1>2. i = w
  BY <1>1 DEF ClaimRequest, DecideRequest, CommitResolution, CompleteRequest, CrashWorker
<1>3. CompleteRequest(w) \/ CrashWorker(w) => workers'[w] = Idle
  BY DEF CompleteRequest, CrashWorker
<1>4. \A v : ClaimRequest(w, v) => workers'[w] = [pc |-> "claimed", version |-> v]
  BY DEF ClaimRequest
<1> QED
  BY <1>1, <1>2, <1>3, <1>4

\* Whatever a batch holds after a step is a claim of a version that was there before it.
LEMMA HeldVersion ==
  ASSUME TypeInv, ReadyInv, [Next]_vars, NEW w \in Workers, workers'[w].pc # "idle"
  PROVE  /\ workers'[w].version \in Nat /\ workers'[w].version <= db.kase.version
         /\ \/ workers[w].pc # "idle" /\ workers[w].version = workers'[w].version
            \/ ClaimRequest(w, workers'[w].version)
<1>1. DatabaseOK /\ WorkStands(workers[w], db) /\ RequestsPinned /\ workers[w] \in WorkerState
  BY DEF TypeInv, TypeOK, ReadyInv
<1>2. workers[w].pc # "idle" => workers[w].version \in Nat /\ workers[w].version <= db.kase.version
  BY <1>1 DEF WorkerState, WorkStands
<1>3. CASE workers'[w] = workers[w]
  BY <1>2, <1>3
<1>4. ASSUME NEW v \in DOMAIN db.requests, ClaimRequest(w, v),
             workers'[w] = [pc |-> "claimed", version |-> v]
      PROVE  /\ workers'[w].version \in Nat /\ workers'[w].version <= db.kase.version
             /\ ClaimRequest(w, workers'[w].version)
  BY <1>1, <1>4 DEF RequestsPinned, DatabaseOK
<1>5. ASSUME DecideRequest(w) \/ CommitResolution(w)
      PROVE  workers[w].pc # "idle" /\ workers[w].version = workers'[w].version
  BY <1>5 DEF DecideRequest, CommitResolution, Finishing, TypeInv, TypeOK
<1>6. workers'[w] # Idle
  OBVIOUS
<1> QED
  BY <1>2, <1>3, <1>4, <1>5, <1>6, WorkerMoves

LEMMA WorkStep ==
  ASSUME TypeInv, ReadyInv, [Next]_vars, NEW w \in Workers,
         \/ CommitsMutation /\ db'.kase.version = db.kase.version + 1
         \/ SameCase /\ DOMAIN db'.requests = DOMAIN db.requests
  PROVE  WorkStands(workers'[w], db')
<1>1. db.kase.version \in Nat /\ DatabaseOK /\ WorkStands(workers[w], db)
  BY DEF TypeInv, TypeOK, DatabaseOK, CaseRecord, ReadyInv
<1>2. workers[w].pc # "idle" => workers[w].version \in Nat /\ workers[w].version <= db.kase.version
  BY <1>1 DEF TypeInv, TypeOK, WorkerState, WorkStands
<1>3. db'.kase.version \in Nat /\ db.kase.version <= db'.kase.version
  BY <1>1 DEF SameCase
<1>4. CASE workers'[w] = workers[w]
  <2>1. CASE db'.kase.version = db.kase.version + 1
    BY <1>1, <1>2, <1>4, <2>1 DEF WorkStands
  <2>2. CASE SameCase /\ DOMAIN db'.requests = DOMAIN db.requests
    <3>1. ResolutionReady(db') = ResolutionReady(db)
      BY <2>2 DEF SameCase, ResolutionReady, ContradictionBlocks, ProviderOutcomeKnown,
         CustomerReceiptKnown, SucceededOutcome, ConfirmedReceipt
    <3>2. \A m : CommitResult(db', m) = CommitResult(db, m)
      BY <2>2 DEF SameCase, CommitResult, VersionMatches, HasDuplicateEventId, HasDuplicateRecord,
         ReferencesAreValid, RecordsRefer, AuditRefers
    <3>3. db'.kase.version = db.kase.version
      BY <2>2 DEF SameCase
    <3> QED
      BY <1>1, <1>4, <3>1, <3>2, <3>3 DEF WorkStands
  <2> QED
    BY <2>1, <2>2
<1>5. CASE workers'[w] = Idle
  BY <1>5 DEF WorkStands
<1>6. ASSUME NEW v \in DOMAIN db.requests, workers'[w] = [pc |-> "claimed", version |-> v]
      PROVE  WorkStands(workers'[w], db')
  <2>1. v \in Nat /\ v <= db.kase.version
    BY <1>1, <1>6 DEF ReadyInv, RequestsPinned, DatabaseOK
  <2>2. v <= db'.kase.version
    BY <1>1, <1>3, <2>1
  <2> QED
    BY <1>6, <2>2 DEF WorkStands
<1>7. CASE DecideRequest(w)
  <2>1. db' = db /\ workers[w].pc = "claimed"
    BY <1>7 DEF DecideRequest
  <2> DEFINE v == workers[w].version
  <2>2. v \in Nat /\ v <= db.kase.version
    BY <1>2, <2>1
  <2>3. \/ db.kase.version # v /\ workers'[w] = Finishing(v, "FAILED_TERMINAL")
        \/ ~ResolutionReady(db) /\ workers'[w] = Finishing(v, "SUCCEEDED")
        \/ /\ db.kase.version = v /\ ResolutionReady(db)
           /\ \E cited \in ResolutionEvidence(db) :
                workers'[w] = [pc |-> "planned", version |-> v,
                               mutation |-> AttachOutbox(PlanResolution(db, cited))]
    BY <1>7 DEF DecideRequest, TypeInv, TypeOK
  <2>4. ASSUME NEW cited \in ResolutionEvidence(db), ResolutionReady(db)
        PROVE  /\ CommitResult(db, AttachOutbox(PlanResolution(db, cited))) = "COMMITTED"
               /\ AttachOutbox(PlanResolution(db, cited)).expected = db.kase.version
    <3>1. AttachOutbox(PlanResolution(db, cited)).expected = db.kase.version
      BY DEF AttachOutbox, PlanResolution, Mutation
    <3> QED
      BY <1>1, <2>4, <3>1, ResolutionCommits DEF ReadyInv
  <2>5. CASE db.kase.version # v /\ workers'[w] = Finishing(v, "FAILED_TERMINAL")
    BY <2>1, <2>2, <2>5 DEF WorkStands, Finishing
  <2>6. CASE ~ResolutionReady(db) /\ workers'[w] = Finishing(v, "SUCCEEDED")
    BY <2>1, <2>2, <2>6 DEF WorkStands, Finishing
  <2>7. ASSUME db.kase.version = v, ResolutionReady(db), NEW cited \in ResolutionEvidence(db),
               workers'[w] = [pc |-> "planned", version |-> v,
                              mutation |-> AttachOutbox(PlanResolution(db, cited))]
        PROVE  WorkStands(workers'[w], db')
    BY <2>1, <2>2, <2>4, <2>7 DEF WorkStands
  <2> QED
    BY <2>3, <2>5, <2>6, <2>7
<1>8. CASE CommitResolution(w)
  <2> DEFINE m == workers[w].mutation
             v == workers[w].version
  <2>1. workers[w].pc = "planned" /\ v \in Nat /\ v <= db.kase.version
    BY <1>2, <1>8 DEF CommitResolution
  <2>2. \E outcome : workers'[w] = Finishing(v, outcome)
    BY <1>8 DEF CommitResolution, TypeInv, TypeOK
  <2>3. CASE CommitResult(db, m) = "COMMITTED"
    <3>1. db' = ApplyMutation(db, m) /\ VersionMatches(db, m)
      BY <1>8, <2>3, Committed DEF CommitResolution
    <3>2. db'.kase.version = db.kase.version + 1
      BY <1>1, <3>1, Applied DEF VersionMatches
    <3>3. v # db'.kase.version /\ v <= db'.kase.version
      BY <1>1, <2>1, <3>2
    <3> QED
      BY <2>2, <3>3 DEF WorkStands, Finishing
  <2>4. CASE CommitResult(db, m) # "COMMITTED"
    <3>1. v # db.kase.version
      BY <1>1, <2>1, <2>4 DEF WorkStands
    <3>2. db' = db
      BY <1>8, <2>4 DEF CommitResolution
    <3> QED
      BY <2>1, <2>2, <3>1, <3>2 DEF WorkStands, Finishing
  <2> QED
    BY <2>3, <2>4
<1> QED
  BY <1>4, <1>5, <1>6, <1>7, <1>8, WorkerMoves

\* A commit that leads to RESOLUTION_PENDING leaves an open request for the new version.
LEMMA ReadyCommit ==
  ASSUME TypeInv, FlightInv, ReadyInv, NEW m, InFlight(m), CommitResult(db, m) = "COMMITTED",
         db' = ApplyMutation(db, m)
  PROVE  /\ RequestOpen' /\ RequestsPinned' /\ EvaluationsPast' /\ RecordsStand(db')
         /\ db'.kase.version = db.kase.version + 1
<1>1. /\ WellPlanned(db, m) /\ db'.kase = m.kase /\ db'.events = db.events \cup m.events
      /\ db'.evidence = db.evidence \cup m.evidence
      /\ db'.transactions = db.transactions \cup m.transactions
      /\ m.kase.version = db.kase.version + 1
  BY CommitEffect
<1>2. db.kase.version \in Nat /\ DatabaseOK /\ DOMAIN db.requests \subseteq Nat
  BY DEF TypeInv, TypeOK, DatabaseOK, CaseRecord
<1>3. /\ db'.claims = UpsertClaims(db.claims, m.claims)
      /\ db'.requests = [v \in DOMAIN db.requests \cup m.requests |->
                           IF v \in m.requests THEN NewRequest ELSE db.requests[v]]
  BY <1>2 DEF ApplyMutation, DatabaseOK
<1>4. LeavesWork(m) /\ EvaluatesItsVersion(m) /\ m.expected = db.kase.version
  BY <1>1 DEF ReadyInv, WellPlanned
<1>5. \A v \in m.requests : v = m.kase.version
  BY DEF CommitResult, HasDuplicateRecord
<1>6. RequestOpen'
  <2> SUFFICES ASSUME m.kase.state = "RESOLUTION_PENDING"
               PROVE  /\ m.kase.version \in DOMAIN db'.requests
                      /\ db'.requests[m.kase.version].state = "PENDING"
    BY <1>1 DEF RequestOpen, ResolutionReady
  <2> QED
    BY <1>3, <1>4 DEF LeavesWork, NewRequest
<1>7. RequestsPinned'
  BY <1>1, <1>2, <1>3, <1>5 DEF RequestsPinned, ReadyInv
<1>8. EvaluationsPast'
  BY <1>1, <1>2, <1>4 DEF EvaluationsPast, EvaluatesItsVersion, ReadyInv
<1>9. RecordsStand(db')
  <2>1. RecordsRefer(db, m)
    BY Committed DEF ReferencesAreValid
  <2> QED
    BY <1>1, <1>3, <2>1 DEF RecordsRefer, RecordsStand
<1> QED
  BY <1>1, <1>6, <1>7, <1>8, <1>9

\* A claim leaves the request open, and the request of a ready case is not completed.
LEMMA ReadyQuiet ==
  ASSUME TypeInv, ReadyInv, [Next]_vars, ~CommitsMutation
  PROVE  /\ RequestOpen' /\ RequestsPinned' /\ EvaluationsPast' /\ RecordsStand(db')
         /\ SameCase /\ DOMAIN db'.requests = DOMAIN db.requests
<1>1. SameCase
  BY OutboxStep
<1>2. db.kase.version \in Nat /\ DatabaseOK
  BY DEF TypeInv, TypeOK, DatabaseOK, CaseRecord
<1>3. ResolutionReady(db') = ResolutionReady(db)
  BY <1>1 DEF SameCase, ResolutionReady, ContradictionBlocks, ProviderOutcomeKnown,
     CustomerReceiptKnown, SucceededOutcome, ConfirmedReceipt
<1> DEFINE current == db.kase.version
           Open(r) == r.state \in {"PENDING", "LEASED", "FAILED_RETRYABLE"}
           StaysOpen ==
             ResolutionReady(db) /\ current \in DOMAIN db.requests /\ Open(db.requests[current])
               => Open(db'.requests[current])
<1>4. /\ DOMAIN db'.requests = DOMAIN db.requests
      /\ StaysOpen
  <2>1. CASE db'.requests = db.requests
    BY <2>1
  <2>2. ASSUME NEW w \in Workers, NEW v \in DOMAIN db.requests, ClaimRequest(w, v)
        PROVE  DOMAIN db'.requests = DOMAIN db.requests /\ StaysOpen
    <3> DEFINE q == [state |-> "LEASED", owner |-> w, retries |-> RetriesOnClaim(db.requests[v])]
    <3>1. db' = [db EXCEPT !.requests[v] = q] /\ q.state = "LEASED"
      BY <2>2 DEF ClaimRequest
    <3> HIDE DEF q
    <3>2. db'.requests = [db.requests EXCEPT ![v] = q]
      BY <1>2, <3>1 DEF DatabaseOK
    <3> QED
      BY <3>1, <3>2
  <2>3. ASSUME NEW w \in Workers, CompleteRequest(w)
        PROVE  DOMAIN db'.requests = DOMAIN db.requests /\ StaysOpen
    <3> DEFINE v == workers[w].version
    <3>1. db' = db \/ db' = [db EXCEPT !.requests[v] =
                               CompletedRequest(db.requests[v], workers[w].outcome)]
      BY <2>3 DEF CompleteRequest
    <3>2. db'.requests = db.requests
          \/ \E q : db'.requests = [db.requests EXCEPT ![v] = q]
      BY <1>2, <3>1 DEF DatabaseOK
    <3>3. ResolutionReady(db) => v # current
      BY <2>3 DEF CompleteRequest, ReadyInv, WorkStands
    <3> QED
      BY <3>2, <3>3
  <2> QED
    BY <2>1, <2>2, <2>3, OutboxStep
<1>5. db'.kase = db.kase
  BY <1>1 DEF SameCase
<1>6. RequestOpen'
  BY <1>3, <1>4, <1>5 DEF RequestOpen, ReadyInv
<1>7. RequestsPinned' /\ EvaluationsPast' /\ RecordsStand(db')
  BY <1>1, <1>4 DEF SameCase, RequestsPinned, EvaluationsPast, RecordsStand, ReadyInv
<1> QED
  BY <1>1, <1>4, <1>6, <1>7

\* A step that commits nothing claims or completes a request, kills a worker, or leaves
\* requests and their holders as they are and kills at most one process.
LEMMA HoldersStep ==
  ASSUME TypeInv, [Next]_vars, ~CommitsMutation
  PROVE  \/ \E w \in Workers, v \in DOMAIN db.requests : ClaimRequest(w, v)
         \/ \E w \in Workers : CompleteRequest(w) \/ CrashWorker(w)
         \/ /\ db'.requests = db.requests /\ crashes' \in {crashes, crashes + 1}
            /\ \A w \in Workers : /\ workers'[w].pc = "idle" <=> workers[w].pc = "idle"
                                  /\ workers[w].pc # "idle" => workers'[w].version = workers[w].version
<1> USE DEF TypeInv, TypeOK
<1>1. ASSUME NEW r, NEW receipt, SetReceipt(r, receipt)
      PROVE  db'.requests = db.requests /\ crashes' = crashes /\ workers' = workers
  BY <1>1 DEF SetReceipt, DatabaseOK
<1>2. CASE Ingress
  BY <1>1, <1>2 DEF Ingress, PublishProviderEvent, ReserveSubmission, MarkSubmissionPublished,
     ReleaseSubmission, PublishPartnerEvent
<1>3. ASSUME NEW h \in Handlers, CommitEvent(h) PROVE db' = db
  BY <1>3 DEF CommitEvent, CommitsMutation, InFlight
<1>4. CASE Handling
  BY <1>3, <1>4 DEF Handling, HandlerStep, DeliverSettled, DeliverPlanned, CommitEvent,
     RecheckEvent, CrashHandler
<1>5. CASE Calling
  BY <1>5 DEF Calling, PlanTransition, CommitTransition, CommitsMutation, InFlight
<1>6. ASSUME NEW i \in Workers, DecideRequest(i) \/ CommitResolution(i)
      PROVE  /\ db' = db /\ crashes' = crashes
             /\ workers[i].pc # "idle" /\ workers'[i].pc # "idle"
             /\ workers'[i].version = workers[i].version
             /\ \A w \in Workers : w # i => workers'[w] = workers[w]
  <2>1. CASE DecideRequest(i)
    BY <2>1 DEF DecideRequest, Finishing
  <2>2. CASE CommitResolution(i)
    <3>1. db' = db
      BY <2>2 DEF CommitResolution, CommitsMutation, InFlight
    <3> QED
      BY <2>2, <3>1 DEF CommitResolution, Finishing
  <2> QED
    BY <1>6, <2>1, <2>2
<1>7. CASE Automation
  BY <1>6, <1>7 DEF Automation, WorkerStep
<1>8. CASE UNCHANGED vars
  BY <1>8 DEF vars
<1> QED
  BY <1>2, <1>4, <1>5, <1>7, <1>8 DEF Next

\* A claim adds an attempt and a worker, a death turns a worker into a crash, and no worker
\* lets go of the request of a ready case otherwise.
LEMMA AttemptsQuiet ==
  ASSUME TypeInv, ReadyInv, [Next]_vars, ~CommitsMutation
  PROVE  AttemptsAccounted'
<1> DEFINE current == db.kase.version
           Used == RetriesOnClaim(db.requests[current])
<1>1. SameCase /\ db'.kase = db.kase
  BY OutboxStep DEF SameCase
<1>2. ResolutionReady(db') = ResolutionReady(db)
  BY <1>1 DEF SameCase, ResolutionReady, ContradictionBlocks, ProviderOutcomeKnown,
     CustomerReceiptKnown, SucceededOutcome, ConfirmedReceipt
<1>3. /\ DatabaseOK /\ crashes \in Nat /\ current \in Nat
      /\ workers \in [Workers -> WorkerState]
  BY ResolutionAssumption DEF TypeInv, TypeOK, DatabaseOK, CaseRecord
<1>4. IsFiniteSet(AtWork) /\ Cardinality(AtWork) \in Nat
  BY FS_CardinalityType DEF ReadyInv, AttemptsAccounted
<1>5. ResolutionReady(db) =>
        /\ current \in DOMAIN db.requests
        /\ db.requests[current].retries \in Nat /\ Used \in Nat
        /\ Used <= Cardinality(AtWork) + crashes
  <2>1. ResolutionReady(db) =>
          current \in DOMAIN db.requests /\ db.requests[current] \in Request
    BY <1>3 DEF ReadyInv, RequestOpen, DatabaseOK
  <2>2. ResolutionReady(db) => db.requests[current].retries \in Nat
    BY <2>1, ResolutionAssumption DEF Request
  <2> QED
    BY <2>1, <2>2 DEF ReadyInv, AttemptsAccounted, RetriesOnClaim
<1>6. ASSUME NEW w \in Workers, NEW v \in DOMAIN db.requests, ClaimRequest(w, v)
      PROVE  AttemptsAccounted'
  <2> DEFINE q == [state |-> "LEASED", owner |-> w, retries |-> RetriesOnClaim(db.requests[v])]
  <2>1. /\ workers[w].pc = "idle" /\ workers' = [workers EXCEPT ![w] = [pc |-> "claimed", version |-> v]]
        /\ db' = [db EXCEPT !.requests[v] = q] /\ crashes' = crashes
    BY <1>6 DEF ClaimRequest
  <2>2. q.state = "LEASED" /\ q.retries = RetriesOnClaim(db.requests[v])
    OBVIOUS
  <2> HIDE DEF q
  <2>3. db'.requests = [db.requests EXCEPT ![v] = q]
    BY <1>3, <2>1 DEF DatabaseOK
  <2>4. CASE v = current
    <3>1. AtWork' = AtWork \cup {w} /\ w \notin AtWork
      BY <1>1, <1>3, <2>1, <2>4 DEF AtWork
    <3>2. IsFiniteSet(AtWork') /\ Cardinality(AtWork') = Cardinality(AtWork) + 1
      BY <1>4, <3>1, FS_AddElement
    <3>3. ResolutionReady(db) => RetriesOnClaim(db'.requests[current]) = Used + 1
      BY <1>5, <2>2, <2>3, <2>4 DEF RetriesOnClaim
    <3> QED
      BY <1>1, <1>2, <1>3, <1>4, <1>5, <2>1, <3>2, <3>3 DEF AttemptsAccounted
  <2>5. CASE v # current
    <3>1. AtWork' = AtWork
      BY <1>1, <1>3, <2>1, <2>5 DEF AtWork
    <3>2. db'.requests[current] = db.requests[current]
      BY <2>3, <2>5
    <3> QED
      BY <1>1, <1>2, <1>4, <1>5, <2>1, <3>1, <3>2 DEF AttemptsAccounted
  <2> QED
    BY <2>4, <2>5
<1>7. ASSUME NEW w \in Workers, CompleteRequest(w) PROVE AttemptsAccounted'
  <2> DEFINE v == workers[w].version
  <2>1. /\ workers[w].pc = "finishing" /\ workers' = [workers EXCEPT ![w] = Idle]
        /\ crashes' = crashes
        /\ db' = db \/ db' = [db EXCEPT !.requests[v] =
                               CompletedRequest(db.requests[v], workers[w].outcome)]
    BY <1>7 DEF CompleteRequest
  <2>2. db'.requests = db.requests \/ \E q : db'.requests = [db.requests EXCEPT ![v] = q]
    BY <1>3, <2>1 DEF DatabaseOK
  <2>3. AtWork' = AtWork \ {w}
    BY <1>1, <1>3, <2>1 DEF AtWork
  <2>4. IsFiniteSet(AtWork')
    BY <1>4, <2>3, FS_RemoveElement
  <2>5. ASSUME ResolutionReady(db)
        PROVE  AtWork' = AtWork /\ db'.requests[current] = db.requests[current]
    <3>1. v # current
      BY <2>1, <2>5 DEF ReadyInv, WorkStands
    <3>2. w \notin AtWork
      BY <3>1 DEF AtWork
    <3>3. current \in DOMAIN db.requests
      BY <1>5, <2>5
    <3>4. db'.requests[current] = db.requests[current]
      BY <2>2, <3>1, <3>3
    <3> QED
      BY <2>3, <3>2, <3>4
  <2> QED
    BY <1>1, <1>2, <1>5, <2>1, <2>4, <2>5 DEF AttemptsAccounted
<1>8. ASSUME NEW w \in Workers, CrashWorker(w) PROVE AttemptsAccounted'
  <2>1. db' = db /\ crashes' = crashes + 1 /\ workers' = [workers EXCEPT ![w] = Idle]
    BY <1>8 DEF CrashWorker
  <2>2. AtWork' = AtWork \ {w}
    BY <1>1, <1>3, <2>1 DEF AtWork
  <2>3. IsFiniteSet(AtWork') /\ Cardinality(AtWork') \in {Cardinality(AtWork), Cardinality(AtWork) - 1}
    BY <1>4, <2>2, FS_RemoveElement
  <2> QED
    BY <1>3, <1>4, <1>5, <2>1, <2>3 DEF AttemptsAccounted
<1>9. ASSUME db'.requests = db.requests, crashes' \in {crashes, crashes + 1},
             \A w \in Workers : /\ workers'[w].pc = "idle" <=> workers[w].pc = "idle"
                                /\ workers[w].pc # "idle" => workers'[w].version = workers[w].version
      PROVE  AttemptsAccounted'
  <2>1. ASSUME NEW w \in Workers
        PROVE  w \in AtWork' <=> w \in AtWork
    BY <1>1, <1>9 DEF AtWork
  <2>2. AtWork \subseteq Workers /\ AtWork' \subseteq Workers
    BY DEF AtWork
  <2>3. AtWork' = AtWork
    BY <2>1, <2>2
  <2> QED
    BY <1>1, <1>2, <1>3, <1>4, <1>5, <1>9, <2>3 DEF AttemptsAccounted
<1> QED
  BY <1>6, <1>7, <1>8, <1>9, HoldersStep

\* The request a commit leaves behind is new, and no worker is at it yet.
LEMMA AttemptsCommit ==
  ASSUME TypeInv, TypeInv', FlightInv, ReadyInv, [Next]_vars, NEW m, InFlight(m),
         CommitResult(db, m) = "COMMITTED", db' = ApplyMutation(db, m)
  PROVE  AttemptsAccounted'
<1>1. db'.kase = m.kase /\ m.kase.version = db.kase.version + 1
  BY CommitEffect
<1>2. db.kase.version \in Nat /\ crashes' \in Nat
  BY ResolutionAssumption DEF TypeInv, TypeOK, DatabaseOK, CaseRecord
<1>3. AtWork' = {}
  <2> SUFFICES ASSUME NEW w \in Workers, workers'[w].pc # "idle"
               PROVE  workers'[w].version # db'.kase.version
    BY DEF AtWork
  <2> QED
    BY <1>1, <1>2, HeldVersion
<1>4. ResolutionReady(db') => RetriesOnClaim(db'.requests[db'.kase.version]) = 0
  <2>1. LeavesWork(m)
    BY DEF ReadyInv
  <2>2. db'.requests = [v \in DOMAIN db.requests \cup m.requests |->
                          IF v \in m.requests THEN NewRequest ELSE db.requests[v]]
    BY DEF ApplyMutation, TypeInv, TypeOK, DatabaseOK
  <2> QED
    BY <1>1, <2>1, <2>2 DEF ResolutionReady, LeavesWork, NewRequest, RetriesOnClaim
<1> QED
  BY <1>2, <1>3, <1>4, FS_EmptySet DEF AttemptsAccounted

LEMMA ReadyStep ==
  PendingByEventsOnly /\ TypeInv /\ FlightInv /\ ReadyInv /\ [Next]_vars => ReadyInv'
<1> SUFFICES ASSUME PendingByEventsOnly, TypeInv, FlightInv, ReadyInv, [Next]_vars
             PROVE  ReadyInv'
  OBVIOUS
<1>1. ASSUME NEW m, InFlight(m)' PROVE LeavesWork(m) /\ EvaluatesItsVersion(m)
  BY <1>1, PlannedLeavesWork DEF ReadyInv
<1>2. CASE CommitsMutation
  <2>1. PICK m : InFlight(m) /\ CommitResult(db, m) = "COMMITTED" /\ db' = ApplyMutation(db, m)
    BY <1>2 DEF CommitsMutation
  <2>2. /\ RequestOpen' /\ RequestsPinned' /\ EvaluationsPast' /\ RecordsStand(db')
        /\ db'.kase.version = db.kase.version + 1
    BY <2>1, ReadyCommit
  <2>3. \A w \in Workers : WorkStands(workers'[w], db')
    BY <1>2, <2>2, WorkStep
  <2>4. AttemptsAccounted'
    BY <2>1, AttemptsCommit, TypeStep
  <2> QED
    BY <1>1, <2>2, <2>3, <2>4 DEF ReadyInv
<1>3. CASE ~CommitsMutation
  <2>1. /\ RequestOpen' /\ RequestsPinned' /\ EvaluationsPast' /\ RecordsStand(db')
        /\ SameCase /\ DOMAIN db'.requests = DOMAIN db.requests
    BY <1>3, ReadyQuiet
  <2>2. \A w \in Workers : WorkStands(workers'[w], db')
    BY <2>1, WorkStep
  <2> QED
    BY <1>1, <1>3, <2>1, <2>2, AttemptsQuiet DEF ReadyInv
<1> QED
  BY <1>2, <1>3

\* An open request with an attempt left may be claimed; without one, fewer crashes than
\* attempts leave a worker at it, which has not finished since the case is still ready.
LEMMA ReadyAttended == TypeInv /\ ReadyInv => ResolutionNeverStranded
<1> SUFFICES ASSUME TypeInv, ReadyInv, ResolutionReady(db), crashes < MaxRetries,
                    ~MayBeClaimed(db.kase.version)
             PROVE  Attended(db.kase.version)
  BY DEF ResolutionNeverStranded
<1> DEFINE current == db.kase.version
<1>1. /\ current \in DOMAIN db.requests /\ db.requests[current] \in Request
      /\ db.requests[current].state \in {"PENDING", "LEASED", "FAILED_RETRYABLE"}
  BY DEF ReadyInv, RequestOpen, TypeInv, TypeOK, DatabaseOK
<1>2. RetriesOnClaim(db.requests[current]) \in Nat /\ crashes \in Nat /\ MaxRetries \in Nat
  BY <1>1, ResolutionAssumption DEF RetriesOnClaim, Request, TypeInv, TypeOK
<1>3. RetriesOnClaim(db.requests[current]) >= MaxRetries
  BY <1>1, <1>2 DEF MayBeClaimed
<1>4. IsFiniteSet(AtWork) /\ RetriesOnClaim(db.requests[current]) <= Cardinality(AtWork) + crashes
  BY DEF ReadyInv, AttemptsAccounted
<1>5. AtWork # {}
  BY <1>2, <1>3, <1>4, FS_EmptySet
<1>6. PICK w \in Workers : workers[w].pc # "idle" /\ workers[w].version = current
  BY <1>5 DEF AtWork
<1>7. workers[w].pc \in {"claimed", "planned"}
  BY <1>6 DEF ReadyInv, WorkStands, TypeInv, TypeOK, WorkerState
<1> QED
  BY <1>6, <1>7 DEF Attended

\* Unless a caller declares a case provisionally resolved, a case whose evidence satisfies
\* every gate has an evaluation to come as long as fewer processes died than a request has
\* attempts: a worker is at the request of the version it is at, or may claim it, whatever
\* workers race, crash or come late.
THEOREM ResolutionNeverStrandedHolds ==
  ASSUME PendingByEventsOnly
  PROVE  Spec => []ResolutionNeverStranded
<1>1. Init => TypeInv /\ FlightInv /\ ReadyInv
  BY TypeInit, FlightInit, ReadyInit
<1>2. TypeInv /\ FlightInv /\ ReadyInv /\ [Next]_vars => (TypeInv /\ FlightInv /\ ReadyInv)'
  BY TypeStep, FlightStep, ReadyStep
<1>3. TypeInv /\ ReadyInv => ResolutionNeverStranded
  BY ReadyAttended
<1> QED
  BY <1>1, <1>2, <1>3, PTL DEF Spec
=============================================================================
