------------------------ MODULE FirestoreStore_proofs ------------------------
(***************************************************************************)
(* Theorems about FirestoreStore, for every set of processes, events and   *)
(* requests, and for all values of the limit on documents and of the bound *)
(* on resets.                                                              *)
(***************************************************************************)
EXTENDS FirestoreStore, FiniteSetTheorems, SequenceTheorems, TLAPS

IsRecord(d, fields) == DOMAIN d = fields /\ d = [x \in fields |-> d[x]]

Fields == {"kase", "events", "evidence", "claims", "transactions", "audits", "requests",
           "receipts", "runs"}

Kinds == {"events", "evidence", "audits", "transactions", "requests", "receipts", "runs"}

LEMMA OwnedKindsAre == OwnedKinds = Kinds
  BY DEF OwnedKinds, OwnedDocs, Kinds

(***************************************************************************)
(* Shapes: what is stored or was read of the case, a task, and a plan.     *)
(***************************************************************************)
KaseOK(kase) == kase = NoCase \/ (kase \in CaseRecord /\ kase.version > 0)

DocsOK(d) ==
  /\ IsRecord(d, Fields)
  /\ KaseOK(d.kase)
  /\ d.events \subseteq Event
  /\ IdsOf(d.evidence) \subseteq EventId
  /\ IdsOf(d.transactions) \subseteq Providers \X Refunds
  /\ d.audits \in Seq(Audit)
  /\ \A r \in DOMAIN d.receipts : d.receipts[r] \in Receipt

IndexOK ==
  /\ IsRecord(index, {"events", "objects", "owned"})
  /\ IsRecord(index.owned, Kinds)
  /\ index.events \subseteq Event
  /\ index.objects \subseteq Providers \X Refunds
  /\ index.owned.events \cup index.owned.evidence \cup index.owned.audits \subseteq EventId

SeedStep(k) == [kind |-> "seed", step |-> k]

TaskOK(t) ==
  \/ t.kind = "event" /\ t.event \in ProviderEvents \cup PartnerEvents
  \/ t.kind = "evaluate"
  \/ t.kind = "seed" /\ t.step \in 1 .. 4 /\ t = SeedStep(t.step)

SeedEvents == {IntakeEvent, EvidenceEvent}

\* A plan raises the version it expects by one; only a seed writes the events of a seed.
PlanOK(task, m) ==
  /\ m.expected \in Nat
  /\ m.kase \in CaseRecord /\ m.kase.version = m.expected + 1
  /\ m.events \subseteq Event
  /\ IdsOf(m.evidence) \subseteq EventId
  /\ IdsOf(m.transactions) \subseteq Providers \X Refunds
  /\ m.audit = NoAudit \/ m.audit \in Audit
  /\ task.kind # "seed" => \E e \in m.events : e \notin SeedEvents

(***************************************************************************)
(* What the plans of a case are.                                           *)
(***************************************************************************)
LEMMA EventIds == \A e \in Event : e.id \in EventId
<1>1. ASSUME NEW e \in ProviderEvents PROVE e.id \in EventId
  BY StoreAssumption DEF ProviderEvent, EventId
<1>2. ASSUME NEW e \in PartnerEvents PROVE e.id \in EventId
  BY DEF PartnerEvents, PartnerEvent, EventId
<1>3. ASSUME NEW e \in EvaluationEvents PROVE e.id \in EventId
  BY DEF EvaluationEvents, EventId
<1>4. ASSUME NEW e, \E k \in TriggerKind : e = TriggerEvent(k) PROVE e.id \in EventId
  BY <1>4 DEF TriggerEvent, CaseEvent, EventId
<1>5. IntakeEvent.id \in EventId /\ EvidenceEvent.id \in EventId
  BY DEF IntakeEvent, EvidenceEvent, CaseEvent, EventId
<1> QED
  BY <1>1, <1>2, <1>3, <1>4, <1>5 DEF Event

LEMMA EventKinds ==
  /\ \A e \in ProviderEvents : e \in Event /\ e \notin SeedEvents
                               /\ e.kind # "PARTNER_EVIDENCE_SUBMITTED"
  /\ \A e \in PartnerEvents : e \in Event /\ e \notin SeedEvents
                              /\ e.kind = "PARTNER_EVIDENCE_SUBMITTED"
  /\ \A v \in Nat : EvaluationEvent(v) \in Event /\ EvaluationEvent(v) \notin SeedEvents
  /\ SeedEvents \subseteq Event
<1>1. \A e \in ProviderEvents : e \in Event /\ e \notin SeedEvents
                                /\ e.kind # "PARTNER_EVIDENCE_SUBMITTED"
  BY StoreAssumption DEF ProviderEvent, Event, SeedEvents, IntakeEvent, EvidenceEvent, CaseEvent
<1>2. \A e \in PartnerEvents : e \in Event /\ e \notin SeedEvents
                               /\ e.kind = "PARTNER_EVIDENCE_SUBMITTED"
  BY DEF PartnerEvents, PartnerEvent, Event, SeedEvents, IntakeEvent, EvidenceEvent, CaseEvent
<1>3. \A v \in Nat : EvaluationEvent(v) \in Event /\ EvaluationEvent(v) \notin SeedEvents
  BY DEF EvaluationEvent, EvaluationEvents, Event, SeedEvents, IntakeEvent, EvidenceEvent, CaseEvent
<1>4. SeedEvents \subseteq Event
  BY DEF SeedEvents, Event
<1> QED
  BY <1>1, <1>2, <1>3, <1>4

LEMMA ProviderPlanOK ==
  ASSUME NEW b, b.kase \in CaseRecord, NEW e \in ProviderEvents
  PROVE  /\ PlanProviderRefund(b, e).expected = b.kase.version
         /\ PlanOK([kind |-> "event"], PlanProviderRefund(b, e))
<1> DEFINE m == PlanProviderRefund(b, e)
           kase == [b.kase EXCEPT !.version = @ + 1, !.parties = @ \cup {e.subject[1]}]
<1>1. e \in Event /\ e.id \in EventId /\ e \notin SeedEvents /\ e.subject \in Providers \X Refunds
  BY EventIds, EventKinds, StoreAssumption DEF ProviderEvent
<1>2. /\ m.expected = b.kase.version /\ m.kase = kase /\ m.events = {e}
      /\ m.evidence = {ProviderEvidence(e)} /\ m.transactions = {ProviderTransaction(e)}
      /\ m.audit = [trigger |-> e.id, previous |-> b.kase.state, resulting |-> b.kase.state,
                    evidence |-> {e.id}]
  BY DEF PlanProviderRefund, Mutation
<1>3. kase \in CaseRecord /\ kase.version = b.kase.version + 1 /\ b.kase.version \in Nat
  <2>1. b.kase.version + 1 \in Nat /\ b.kase.parties \cup {e.subject[1]} \in SUBSET Party
    BY <1>1 DEF CaseRecord, Party
  <2> QED
    BY <2>1 DEF CaseRecord
<1>4. m.audit \in Audit
  BY <1>1, <1>2 DEF Audit, CaseRecord
<1>5. IdsOf(m.evidence) \subseteq EventId /\ IdsOf(m.transactions) \subseteq Providers \X Refunds
  BY <1>1, <1>2 DEF IdsOf, ProviderEvidence, ProviderTransaction
<1> HIDE DEF m, kase
<1>6. PlanOK([kind |-> "event"], m)
  BY <1>1, <1>2, <1>3, <1>4, <1>5 DEF PlanOK
<1> QED
  BY <1>2, <1>6 DEF m

LEMMA PartnerPlanOK ==
  ASSUME NEW b, b.kase \in CaseRecord, NEW e \in PartnerEvents
  PROVE  /\ PlanPartnerEvidence(b, e).expected = b.kase.version
         /\ PlanOK([kind |-> "event"], PlanPartnerEvidence(b, e))
<1> DEFINE m == PlanPartnerEvidence(b, e)
           kase == [b.kase EXCEPT !.state = PartnerResultingState(b, e), !.version = @ + 1,
                                  !.parties = @ \cup {"resolvia_demo_partner"}]
<1>1. e \in Event /\ e.id \in EventId /\ e \notin SeedEvents
  BY EventIds, EventKinds
<1>2. /\ m.expected = b.kase.version /\ m.kase = kase /\ m.events = {e}
      /\ m.evidence = {PartnerEvidence(e)} /\ m.transactions = {}
      /\ m.audit = [trigger |-> e.id, previous |-> b.kase.state,
                    resulting |-> PartnerResultingState(b, e), evidence |-> {e.id}]
  BY DEF PlanPartnerEvidence, Mutation
<1>3. PartnerResultingState(b, e) \in CaseState
  BY DEF PartnerResultingState, CaseRecord, CaseState
<1>4. kase \in CaseRecord /\ kase.version = b.kase.version + 1 /\ b.kase.version \in Nat
  <2>1. /\ b.kase.version + 1 \in Nat
        /\ b.kase.parties \cup {"resolvia_demo_partner"} \in SUBSET Party
    BY DEF CaseRecord, Party
  <2> QED
    BY <1>3, <2>1 DEF CaseRecord
<1>5. m.audit \in Audit
  BY <1>1, <1>2, <1>3 DEF Audit, CaseRecord
<1>6. IdsOf(m.evidence) \subseteq EventId /\ IdsOf(m.transactions) \subseteq Providers \X Refunds
  BY <1>1, <1>2 DEF IdsOf, PartnerEvidence
<1> HIDE DEF m, kase
<1>7. PlanOK([kind |-> "event"], m)
  BY <1>1, <1>2, <1>4, <1>5, <1>6 DEF PlanOK
<1> QED
  BY <1>2, <1>7 DEF m

LEMMA TransitionOK ==
  ASSUME NEW kase \in CaseRecord, NEW target \in CaseState
  PROVE  /\ TransitionedCase(kase, target) \in CaseRecord
         /\ TransitionedCase(kase, target).version = kase.version + 1
<1>1. /\ kase.version + 1 \in Nat
      /\ (kase.stamped \cup (CASE target = "RESOLVED" -> {"resolvedAt"}
                              [] target = "CLOSED"   -> {"closedAt"}
                              [] OTHER               -> {}))
           \ (IF kase.state = "RESOLVED" /\ target = "INVESTIGATING"
                THEN {"resolvedAt"} ELSE {}) \in SUBSET {"resolvedAt", "closedAt"}
  BY DEF CaseRecord
<1> QED
  BY <1>1 DEF CaseRecord, TransitionedCase

LEMMA ResolutionPlanOK ==
  ASSUME NEW b, b.kase \in CaseRecord, IdsOf(b.evidence) \subseteq EventId,
         NEW cited \in ResolutionEvidence(b)
  PROVE  /\ PlanResolution(b, cited).expected = b.kase.version
         /\ PlanOK([kind |-> "evaluate"], PlanResolution(b, cited))
<1> DEFINE m == PlanResolution(b, cited)
           event == EvaluationEvent(b.kase.version)
<1>1. b.kase.version \in Nat /\ event \in Event /\ event \notin SeedEvents /\ event.id \in EventId
  BY EventIds, EventKinds DEF CaseRecord
<1>2. /\ m.expected = b.kase.version /\ m.kase = TransitionedCase(b.kase, "RESOLVED")
      /\ m.events = {event} /\ m.evidence = {} /\ m.transactions = {}
      /\ m.audit = TransitionAudit(b.kase, "RESOLVED", event, cited)
  BY DEF PlanResolution, Mutation
<1>3. m.kase \in CaseRecord /\ m.kase.version = b.kase.version + 1
  BY <1>2, TransitionOK DEF CaseState
<1>4. cited \subseteq EventId
  BY DEF ResolutionEvidence, IdsOf
<1>5. m.audit \in Audit
  BY <1>1, <1>2, <1>4 DEF TransitionAudit, Audit, CaseRecord, CaseState
<1>6. IdsOf(m.evidence) \subseteq EventId /\ IdsOf(m.transactions) \subseteq Providers \X Refunds
  BY <1>2 DEF IdsOf
<1> HIDE DEF m, event
<1>7. PlanOK([kind |-> "evaluate"], m)
  BY <1>1, <1>2, <1>3, <1>5, <1>6 DEF PlanOK
<1> QED
  BY <1>2, <1>7 DEF m

LEMMA OutboxOK ==
  ASSUME NEW m, NEW task, DOMAIN m = DOMAIN Mutation(0, 0, 0, 0, 0, 0, 0, 0), PlanOK(task, m)
  PROVE  AttachOutbox(m).expected = m.expected /\ PlanOK(task, AttachOutbox(m))
<1> DEFINE n == AttachOutbox(m)
<1>1. /\ n.expected = m.expected /\ n.kase = m.kase /\ n.events = m.events
      /\ n.evidence = m.evidence /\ n.transactions = m.transactions /\ n.audit = m.audit
  BY DEF AttachOutbox, Mutation
<1> HIDE DEF n
<1> QED
  BY <1>1 DEF PlanOK, n

LEMMA EventPlanOK ==
  ASSUME NEW b, b.kase \in CaseRecord, NEW e \in ProviderEvents \cup PartnerEvents
  PROVE  /\ EventPlan(b, e).expected = b.kase.version
         /\ PlanOK([kind |-> "event"], EventPlan(b, e))
<1>1. CASE e \in ProviderEvents
  <2>1. DOMAIN PlanProviderRefund(b, e) = DOMAIN Mutation(0, 0, 0, 0, 0, 0, 0, 0)
    BY DEF PlanProviderRefund, Mutation
  <2>2. EventPlan(b, e) = AttachOutbox(PlanProviderRefund(b, e))
    BY <1>1, EventKinds DEF EventPlan
  <2> QED
    BY <1>1, <2>1, <2>2, ProviderPlanOK, OutboxOK
<1>2. CASE e \in PartnerEvents
  <2>1. DOMAIN PlanPartnerEvidence(b, e) = DOMAIN Mutation(0, 0, 0, 0, 0, 0, 0, 0)
    BY DEF PlanPartnerEvidence, Mutation
  <2>2. EventPlan(b, e) = AttachOutbox(PlanPartnerEvidence(b, e))
    BY <1>2, EventKinds DEF EventPlan
  <2> QED
    BY <1>2, <2>1, <2>2, PartnerPlanOK, OutboxOK
<1> QED
  BY <1>1, <1>2

LEMMA EvaluationPlansOK ==
  ASSUME NEW b, b.kase \in CaseRecord, IdsOf(b.evidence) \subseteq EventId,
         NEW v, NEW m \in EvaluationPlans(b, v)
  PROVE  m.expected = b.kase.version /\ PlanOK([kind |-> "evaluate"], m)
<1>1. PICK cited \in ResolutionEvidence(b) : m = AttachOutbox(PlanResolution(b, cited))
  BY DEF EvaluationPlans
<1>2. DOMAIN PlanResolution(b, cited) = DOMAIN Mutation(0, 0, 0, 0, 0, 0, 0, 0)
  BY DEF PlanResolution, Mutation
<1> QED
  BY <1>1, <1>2, ResolutionPlanOK, OutboxOK

SeedTargets == {"EVIDENCE_COLLECTION", "INVESTIGATING"}

LEMMA SeedTransitionOK ==
  ASSUME NEW b, b.kase \in CaseRecord, NEW target \in SeedTargets, NEW event \in SeedEvents,
         NEW cited \in SUBSET EventId
  PROVE  /\ SeedTransition(b, target, event, cited).expected = b.kase.version
         /\ PlanOK([kind |-> "seed"], SeedTransition(b, target, event, cited))
<1> DEFINE m == SeedTransition(b, target, event, cited)
           events == IF event.id \in IdsOf(b.events) THEN {} ELSE {event}
<1>1. target \in CaseState /\ event \in Event /\ event.id \in EventId /\ b.kase.version \in Nat
  BY EventIds, EventKinds DEF SeedTargets, CaseState, CaseRecord
<1>2. /\ m.expected = b.kase.version /\ m.kase = TransitionedCase(b.kase, target)
      /\ m.events = events /\ m.evidence = {} /\ m.transactions = {}
      /\ m.audit = TransitionAudit(b.kase, target, event, cited)
  BY DEF SeedTransition, Mutation
<1>3. m.kase \in CaseRecord /\ m.kase.version = b.kase.version + 1
  BY <1>1, <1>2, TransitionOK
<1>4. m.audit \in Audit
  BY <1>1, <1>2 DEF TransitionAudit, Audit, CaseRecord
<1>5. IdsOf(m.evidence) \subseteq EventId /\ IdsOf(m.transactions) \subseteq Providers \X Refunds
  BY <1>2 DEF IdsOf
<1>6. events \subseteq Event
  BY <1>1
<1> HIDE DEF m, events
<1>7. PlanOK([kind |-> "seed"], m)
  BY <1>1, <1>2, <1>3, <1>4, <1>5, <1>6 DEF PlanOK
<1> QED
  BY <1>2, <1>7 DEF m

LEMMA SeededEvidenceIds ==
  /\ IdsOf(SeededCase.evidence) = {EvidenceEvent.id}
  /\ IdsOf({}) = {} /\ EvidenceEvent.id \in EventId
<1>1. EvidenceEvent.id \in EventId
  BY EventIds, EventKinds DEF SeedEvents
<1> QED
  BY <1>1 DEF IdsOf, SeededCase

LEMMA SeedPlansOK ==
  ASSUME NEW k \in 1 .. 4, NEW b, b.kase \in CaseRecord \/ k = 1, NEW m \in SeedPlans(k, b)
  PROVE  /\ m.expected = IF k = 1 THEN 0 ELSE b.kase.version
         /\ PlanOK([kind |-> "seed"], m)
<1>1. CASE k = 1
  <2>1. m = Mutation(0, InitialCase, {}, {}, {}, {}, NoAudit, {})
    BY <1>1 DEF SeedPlans
  <2>2. /\ m.expected = 0 /\ m.kase = InitialCase /\ m.events = {} /\ m.evidence = {}
        /\ m.transactions = {} /\ m.audit = NoAudit
    BY <2>1 DEF Mutation
  <2>3. InitialCase \in CaseRecord /\ InitialCase.version = 0 + 1
    BY DEF InitialCase, CaseRecord, CaseState, Party
  <2> QED
    BY <1>1, <2>2, <2>3, SeededEvidenceIds DEF PlanOK
<1>2. CASE k = 2
  <2>1. m = SeedTransition(b, "EVIDENCE_COLLECTION", IntakeEvent, {})
    BY <1>2 DEF SeedPlans
  <2> QED
    BY <1>2, <2>1, SeedTransitionOK DEF SeedTargets, SeedEvents
<1>3. CASE k = 3
  <2> DEFINE kase == [b.kase EXCEPT !.version = @ + 1]
  <2>1. m = Mutation(b.kase.version, kase, {EvidenceEvent}, SeededCase.evidence,
                     SeededCase.claims, {}, NoAudit, {})
    BY <1>3 DEF SeedPlans
  <2>2. /\ m.expected = b.kase.version /\ m.kase = kase /\ m.events = {EvidenceEvent}
        /\ m.evidence = SeededCase.evidence /\ m.transactions = {} /\ m.audit = NoAudit
    BY <2>1 DEF Mutation
  <2>3. kase \in CaseRecord /\ kase.version = b.kase.version + 1 /\ b.kase.version \in Nat
    BY <1>3 DEF CaseRecord
  <2> HIDE DEF kase
  <2> QED
    BY <1>3, <2>2, <2>3, SeededEvidenceIds, EventKinds DEF PlanOK, SeedEvents
<1>4. CASE k = 4
  <2>1. m = SeedTransition(b, "INVESTIGATING", EvidenceEvent, {EvidenceEvent.id})
    BY <1>4 DEF SeedPlans
  <2> QED
    BY <1>4, <2>1, SeedTransitionOK, SeededEvidenceIds DEF SeedTargets, SeedEvents
<1> QED
  BY <1>1, <1>2, <1>3, <1>4

\* The plans made from b, the token receipt of a partner event aside.
PlansFor(task, b) ==
  IF task.kind = "event" THEN {EventPlan(b, task.event)} ELSE Plans(task, b)

LEMMA PlansOK ==
  ASSUME NEW task, TaskOK(task), NEW b, IdsOf(b.evidence) \subseteq EventId,
         b.kase \in CaseRecord \/ task = SeedStep(1), NEW m \in Plans(task, b)
  PROVE  /\ PlanOK(task, m) /\ m \in PlansFor(task, b)
         /\ m.expected = IF task = SeedStep(1) THEN 0 ELSE b.kase.version
<1>1. CASE task.kind = "event" /\ task.event \in ProviderEvents \cup PartnerEvents
  <2>1. m = EventPlan(b, task.event) /\ task # SeedStep(1)
    BY <1>1 DEF Plans, SeedStep
  <2>2. PlanOK([kind |-> "event"], m) /\ m.expected = b.kase.version
    BY <1>1, <2>1, EventPlanOK
  <2> QED
    BY <1>1, <2>1, <2>2 DEF PlanOK, PlansFor
<1>2. CASE task.kind = "evaluate"
  <2>1. m \in EvaluationPlans(b, task.version) /\ task # SeedStep(1)
    BY <1>2 DEF Plans, SeedStep
  <2>2. PlanOK([kind |-> "evaluate"], m) /\ m.expected = b.kase.version
    BY <2>1, EvaluationPlansOK
  <2> QED
    BY <1>2, <2>1, <2>2 DEF PlanOK, PlansFor
<1>3. CASE task.kind = "seed" /\ task.step \in 1 .. 4 /\ task = SeedStep(task.step)
  <2>1. m \in SeedPlans(task.step, b) /\ (task = SeedStep(1) <=> task.step = 1)
    BY <1>3 DEF Plans, SeedStep
  <2>2. /\ PlanOK([kind |-> "seed"], m)
        /\ m.expected = IF task.step = 1 THEN 0 ELSE b.kase.version
    BY <1>3, <2>1, SeedPlansOK
  <2> QED
    BY <1>3, <2>1, <2>2 DEF PlanOK, PlansFor
<1> QED
  BY <1>1, <1>2, <1>3 DEF TaskOK

Relevant(task) == ({"kase"} \cup Looks(task)) \ {"receipts"}

\* A plan depends on the collections its task looks at, and on no other.
LEMMA PlansAgree ==
  ASSUME NEW task, TaskOK(task), NEW b, NEW d, \A c \in Relevant(task) : b[c] = d[c]
  PROVE  PlansFor(task, b) = PlansFor(task, d)
<1>0. b.kase = d.kase
  BY DEF Relevant
<1>1. CASE task.kind = "event" /\ task.event \in ProviderEvents
  <2>1. task.event.kind # "PARTNER_EVIDENCE_SUBMITTED"
    BY <1>1, EventKinds
  <2>2. PlanProviderRefund(b, task.event) = PlanProviderRefund(d, task.event)
    BY <1>0 DEF PlanProviderRefund
  <2> QED
    BY <1>1, <2>1, <2>2 DEF PlansFor, EventPlan
<1>2. CASE task.kind = "event" /\ task.event \in PartnerEvents /\ task.event \notin ProviderEvents
  <2>1. b.transactions = d.transactions
    BY <1>2 DEF Relevant, Looks
  <2>2. PartnerResultingState(b, task.event) = PartnerResultingState(d, task.event)
    BY <1>0, <2>1 DEF PartnerResultingState
  <2>3. PlanPartnerEvidence(b, task.event) = PlanPartnerEvidence(d, task.event)
    BY <1>0, <2>2 DEF PlanPartnerEvidence
  <2> QED
    BY <1>2, <2>3, EventKinds DEF PlansFor, EventPlan
<1>3. CASE task.kind = "evaluate"
  <2>1. b.claims = d.claims /\ b.evidence = d.evidence /\ b.transactions = d.transactions
    BY <1>3 DEF Relevant, Looks
  <2>2. ResolutionEvidence(b) = ResolutionEvidence(d)
    BY <2>1 DEF ResolutionEvidence, SucceededOutcome, ConfirmedReceipt
  <2>3. ResolutionReady(b) <=> ResolutionReady(d)
    BY <1>0, <2>1 DEF ResolutionReady, ContradictionBlocks, ProviderOutcomeKnown,
                     CustomerReceiptKnown, SucceededOutcome, ConfirmedReceipt
  <2>4. \A cited : PlanResolution(b, cited) = PlanResolution(d, cited)
    BY <1>0 DEF PlanResolution
  <2>5. EvaluationPlans(b, task.version) = EvaluationPlans(d, task.version)
    BY <1>0, <2>2, <2>3, <2>4 DEF EvaluationPlans
  <2> QED
    BY <1>3, <2>5 DEF PlansFor, Plans
<1>4. CASE task.kind = "seed" /\ task.step \in 1 .. 4 /\ task = SeedStep(task.step)
  <2>1. b.events = d.events
    BY <1>4 DEF Relevant, Looks
  <2>2. \A target, event, cited :
          SeedTransition(b, target, event, cited) = SeedTransition(d, target, event, cited)
    BY <1>0, <2>1 DEF SeedTransition
  <2>3. SeedPlans(task.step, b) = SeedPlans(task.step, d)
    BY <1>0, <1>4, <2>2 DEF SeedPlans
  <2> QED
    BY <1>4, <2>3 DEF PlansFor, Plans
<1> QED
  BY <1>1, <1>2, <1>3, <1>4 DEF TaskOK

(***************************************************************************)
(* What a process may be at.                                               *)
(***************************************************************************)
LoadingOK(l) ==
  /\ IsRecord(l, {"pc", "task", "view", "unread", "since", "reset"}) /\ l.pc = "loading"
  /\ TaskOK(l.task) /\ DocsOK(l.view)
  /\ l.unread \subseteq {"kase"} \cup Looks(l.task)
  /\ IF "kase" \in l.unread THEN l.unread = {"kase"} \cup Looks(l.task)
                            ELSE l.view.kase # NoCase
  /\ l.since \in Nat /\ l.reset \in BOOLEAN
  /\ l.reset => l.task.kind = "seed"

PlannedOK(l) ==
  /\ IsRecord(l, {"pc", "task", "mutation", "since", "reset"}) /\ l.pc = "planned"
  /\ TaskOK(l.task) /\ PlanOK(l.task, l.mutation)
  /\ l.since \in Nat /\ l.reset \in BOOLEAN
  /\ l.reset => l.task.kind = "seed"

LocalOK(l) ==
  \/ "pc" \in DOMAIN l /\ l.pc \in {"idle", "deleting", "verifying", "appending", "ended"}
  \/ LoadingOK(l) \/ PlannedOK(l)

TypeInv ==
  /\ DocsOK(docs) /\ IndexOK
  /\ process = [p \in Processes |-> process[p]]
  /\ \A p \in Processes : LocalOK(process[p])
  /\ resets \in Nat /\ died \in BOOLEAN /\ raced \in BOOLEAN

(***************************************************************************)
(* What a process read, and what it planned, still stands while the        *)
(* version it read does; both are of the case since the last reset.  A     *)
(* seed that is at step k finds at least what its steps before k wrote.    *)
(***************************************************************************)
SnapshotOf(d) == IF d.kase = NoCase THEN EmptySnapshot ELSE d

ViewStands(l, d) ==
  /\ l.view.kase.version <= d.kase.version
  /\ l.view.kase.version = d.kase.version => \A c \in Relevant(l.task) \ l.unread : l.view[c] = d[c]
  /\ l.task.kind = "seed" => l.task.step - 1 <= l.view.kase.version

PlanStands(l, d) ==
  /\ l.mutation.expected <= d.kase.version
  /\ l.mutation.expected = d.kase.version => l.mutation \in PlansFor(l.task, SnapshotOf(d))
  /\ l.task.kind = "seed" => l.task.step - 1 <= l.mutation.expected

Busy == {"loading", "planned"}

Fresh(l, d, n) ==
  l.pc \in Busy =>
    /\ l.since <= n
    /\ l.since = n =>
         /\ l.task.kind = "seed" => l.task.step - 1 <= d.kase.version
         /\ l.pc = "loading" /\ "kase" \notin l.unread => ViewStands(l, d)
         /\ l.pc = "planned" => PlanStands(l, d)

FreshInv == \A p \in Processes : Fresh(process[p], docs, resets)

LEMMA Versions ==
  /\ NoCase.version = 0 /\ NoCase \notin CaseRecord
  /\ \A kase : KaseOK(kase) => kase.version \in Nat /\ (kase.version = 0 <=> kase = NoCase)
  BY DEF KaseOK, NoCase, CaseRecord, CaseState

LEMMA EmptyOK == DocsOK(EmptySnapshot) /\ EmptySnapshot.kase = NoCase
<1>1. <<>> \in Seq(Audit) /\ IdsOf({}) = {}
  BY DEF IdsOf
<1> QED
  BY <1>1 DEF DocsOK, EmptySnapshot, IsRecord, Fields, KaseOK

LEMMA SnapshotKase == Snapshot = SnapshotOf(docs) /\ Snapshot.kase = docs.kase
  BY DEF Snapshot, SnapshotOf, EmptySnapshot

\* What a commit of others, or a reset, leaves of what a process read and planned.
LEMMA FreshKept ==
  ASSUME NEW l, LocalOK(l), NEW d, NEW e, NEW n \in Nat, NEW o \in Nat,
         DocsOK(d), DocsOK(e), Fresh(l, d, n),
         \/ o = n /\ d.kase.version < e.kase.version
         \/ o = n /\ \A c \in {"kase", "events", "evidence", "claims", "transactions"} : d[c] = e[c]
         \/ o > n
  PROVE  Fresh(l, e, o)
<1> SUFFICES ASSUME l.pc \in Busy PROVE Fresh(l, e, o)
  BY DEF Fresh
<1>0. /\ l.since \in Nat /\ l.since <= n /\ TaskOK(l.task)
      /\ d.kase.version \in Nat /\ e.kase.version \in Nat
      /\ LoadingOK(l) \/ PlannedOK(l)
  BY Versions DEF LocalOK, LoadingOK, PlannedOK, Fresh, DocsOK, Busy
<1>1. CASE o > n
  BY <1>0, <1>1 DEF Fresh
<1>2. CASE l.since # n /\ o = n
  BY <1>0, <1>2 DEF Fresh
<1>3. CASE l.since = n /\ o = n /\ d.kase.version < e.kase.version
  <2>1. l.task.kind = "seed" => l.task.step \in Nat
    BY <1>0 DEF TaskOK
  <2>2. l.task.kind = "seed" => l.task.step - 1 <= e.kase.version
    BY <1>0, <1>3, <2>1 DEF Fresh
  <2>3. ASSUME l.pc = "loading", "kase" \notin l.unread PROVE ViewStands(l, e)
    <3>1. l.view.kase.version \in Nat
      BY <1>0, <2>3, Versions DEF LoadingOK, PlannedOK, DocsOK
    <3> QED
      BY <1>0, <1>3, <2>3, <3>1 DEF Fresh, ViewStands
  <2>4. ASSUME l.pc = "planned" PROVE PlanStands(l, e)
    <3>1. l.mutation.expected \in Nat
      BY <1>0, <2>4 DEF LoadingOK, PlannedOK, PlanOK
    <3> QED
      BY <1>0, <1>3, <2>4, <3>1 DEF Fresh, PlanStands
  <2> QED
    BY <1>0, <1>3, <2>2, <2>3, <2>4 DEF Fresh
<1>4. CASE /\ l.since = n /\ o = n
           /\ \A c \in {"kase", "events", "evidence", "claims", "transactions"} : d[c] = e[c]
  <2>1. d.kase = e.kase /\ \A c \in Relevant(l.task) : d[c] = e[c]
    BY <1>0, <1>4 DEF Relevant, Looks, TaskOK
  <2>2. \A c \in Relevant(l.task) : SnapshotOf(d)[c] = SnapshotOf(e)[c]
    BY <2>1 DEF SnapshotOf
  <2>3. PlansFor(l.task, SnapshotOf(d)) = PlansFor(l.task, SnapshotOf(e))
    BY <1>0, <2>2, PlansAgree
  <2> QED
    BY <1>0, <1>4, <2>1, <2>3 DEF Fresh, ViewStands, PlanStands
<1> QED
  BY <1>0, <1>1, <1>2, <1>3, <1>4

(***************************************************************************)
(* One read.                                                               *)
(***************************************************************************)
Seen(l, c) == [l EXCEPT !.view[c] = docs[c], !.unread = @ \ {c}]

Missing(c) == c = "kase" /\ docs.kase = NoCase

LEMMA AfterReadIs ==
  ASSUME NEW l, NEW n \in AfterRead(l)
  PROVE  \E c \in NextReads(l.unread) :
           \/ l.task = SeedStep(1) /\ Missing(c) /\ n \in Planned(Seen(l, c))
           \/ l.task = SeedStep(1) /\ ~Missing(c) /\ n = Return(l)
           \/ /\ l.task # SeedStep(1) /\ Missing(c)
              /\ n = IF l.task.kind = "seed" THEN Throw(l) ELSE Idle
           \/ /\ l.task # SeedStep(1) /\ ~Missing(c)
              /\ Seen(l, c).unread = {} \/ Settled(l.task, Seen(l, c).view)
              /\ n \in Planned(Seen(l, c))
           \/ /\ l.task # SeedStep(1) /\ ~Missing(c) /\ Seen(l, c).unread # {}
              /\ n = Seen(l, c)
  BY DEF AfterRead, Seen, Missing, SeedStep

LEMMA SeenIs ==
  ASSUME NEW l, LoadingOK(l), DocsOK(docs), NEW c \in NextReads(l.unread)
  PROVE  LET s == Seen(l, c) IN
         /\ IsRecord(s, {"pc", "task", "view", "unread", "since", "reset"})
         /\ s.pc = "loading" /\ s.task = l.task /\ s.since = l.since /\ s.reset = l.reset
         /\ s.unread = l.unread \ {c} /\ c \in Fields
         /\ s.view[c] = docs[c] /\ \A f \in Fields : f # c => s.view[f] = l.view[f]
         /\ DocsOK(s.view)
         /\ "kase" \in l.unread => c = "kase"
         /\ "kase" \notin s.unread
<1> DEFINE s == Seen(l, c)
           view == [l.view EXCEPT ![c] = docs[c]]
<1>1. "kase" \in l.unread => c = "kase"
  BY DEF NextReads
<1>2. c \in l.unread /\ c \in Fields
  BY DEF NextReads, LoadingOK, Looks, TaskOK, Fields
<1>3. /\ DOMAIN l.view = Fields /\ DOMAIN docs = Fields
      /\ DOMAIN l = {"pc", "task", "view", "unread", "since", "reset"}
  BY DEF LoadingOK, DocsOK, IsRecord
<1>4. /\ DOMAIN s = DOMAIN l /\ s = [x \in DOMAIN l |-> s[x]]
      /\ s.pc = l.pc /\ s.task = l.task /\ s.since = l.since /\ s.reset = l.reset
      /\ s.unread = l.unread \ {c} /\ s.view = view
  BY <1>3 DEF Seen
<1>5. /\ DOMAIN view = Fields /\ view = [x \in Fields |-> view[x]]
      /\ view[c] = docs[c] /\ \A f \in Fields : f # c => view[f] = l.view[f]
  BY <1>2, <1>3
<1> HIDE DEF view
<1>6. DocsOK(view)
  <2>1. \A f \in Fields : view[f] = docs[f] \/ view[f] = l.view[f]
    BY <1>5
  <2>2. DocsOK(l.view)
    BY DEF LoadingOK
  <2>3. KaseOK(view.kase) /\ view.events \subseteq Event /\ view.audits \in Seq(Audit)
    BY <2>1, <2>2 DEF DocsOK, Fields
  <2>4. /\ IdsOf(view.evidence) \subseteq EventId
        /\ IdsOf(view.transactions) \subseteq Providers \X Refunds
        /\ \A r \in DOMAIN view.receipts : view.receipts[r] \in Receipt
    BY <2>1, <2>2 DEF DocsOK, Fields
  <2> QED
    BY <1>5, <2>3, <2>4 DEF DocsOK, IsRecord
<1> QED
  BY <1>1, <1>2, <1>3, <1>4, <1>5, <1>6 DEF IsRecord, LoadingOK

LEMMA SettledPlansNothing ==
  ASSUME NEW task, TaskOK(task), NEW b, Settled(task, b)
  PROVE  Plans(task, b) = {}
<1>1. CASE task.kind = "event" /\ task.event.id \in IdsOf(b.events)
  BY <1>1 DEF Plans, EventTaken
<1>2. CASE task.kind = "evaluate" /\ (b.kase.version # task.version \/ b.kase.state # "RESOLUTION_PENDING")
  BY <1>2 DEF Plans, EvaluationPlans, ResolutionReady
<1> QED
  BY <1>1, <1>2 DEF Settled

\* Where the last read of a load leads: nowhere, or to a plan.
LEMMA PlannedIs ==
  ASSUME NEW s, NEW n \in Planned(s), TaskOK(s.task), IdsOf(s.view.evidence) \subseteq EventId,
         s.view.kase \in CaseRecord \/ s.task = SeedStep(1),
         s.since \in Nat, s.reset \in BOOLEAN, s.reset => s.task.kind = "seed"
  PROVE  \/ Plans(s.task, s.view) = {} /\ n = IF s.task.kind = "seed" THEN Throw(s) ELSE Idle
         \/ /\ Plans(s.task, s.view) # {}
            /\ PlannedOK(n) /\ n.task = s.task /\ n.since = s.since /\ n.reset = s.reset
            /\ n.mutation \in PlansFor(s.task, s.view)
            /\ n.mutation.expected = IF s.task = SeedStep(1) THEN 0 ELSE s.view.kase.version
<1>1. CASE Plans(s.task, s.view) = {}
  BY <1>1 DEF Planned
<1>2. CASE Plans(s.task, s.view) # {}
  <2>1. PICK m \in Plans(s.task, s.view) :
          n = [pc |-> "planned", task |-> s.task, mutation |-> m, since |-> s.since,
               reset |-> s.reset]
    BY <1>2 DEF Planned
  <2>2. /\ PlanOK(s.task, m) /\ m \in PlansFor(s.task, s.view)
        /\ m.expected = IF s.task = SeedStep(1) THEN 0 ELSE s.view.kase.version
    BY PlansOK
  <2>3. /\ IsRecord(n, {"pc", "task", "mutation", "since", "reset"}) /\ n.pc = "planned"
        /\ n.task = s.task /\ n.mutation = m /\ n.since = s.since /\ n.reset = s.reset
    BY <2>1 DEF IsRecord
  <2> QED
    BY <1>2, <2>2, <2>3 DEF PlannedOK
<1> QED
  BY <1>1, <1>2

\* The first read is of the case document: each later one is of a collection as it was at
\* least as late as the version that was read.
LEMMA SeenStands ==
  ASSUME NEW l, LoadingOK(l), DocsOK(docs), resets \in Nat, Fresh(l, docs, resets),
         NEW c \in NextReads(l.unread), l.since = resets
  PROVE  ViewStands(Seen(l, c), docs)
<1> DEFINE s == Seen(l, c)
<1>1. /\ s.task = l.task /\ s.unread = l.unread \ {c} /\ s.view[c] = docs[c]
      /\ \A f \in Fields : f # c => s.view[f] = l.view[f]
      /\ "kase" \in l.unread => c = "kase"
  BY SeenIs
<1>2. /\ docs.kase.version \in Nat /\ TaskOK(l.task)
      /\ Relevant(l.task) \subseteq Fields
      /\ l.task.kind = "seed" => l.task.step - 1 <= docs.kase.version
  BY Versions DEF DocsOK, LoadingOK, TaskOK, Relevant, Looks, Fields, Fresh, Busy
<1> HIDE DEF s
<1>3. CASE "kase" \in l.unread
  <2>1. c = "kase" /\ l.unread = {"kase"} \cup Looks(l.task)
    BY <1>1, <1>3 DEF LoadingOK
  <2>2. s.view.kase = docs.kase /\ Relevant(l.task) \ s.unread \subseteq {"kase"}
    BY <1>1, <2>1 DEF Relevant
  <2> QED
    BY <1>1, <1>2, <2>2 DEF ViewStands, s
<1>4. CASE "kase" \notin l.unread
  <2>1. ViewStands(l, docs)
    BY <1>4 DEF Fresh, LoadingOK, Busy
  <2>2. c # "kase" /\ s.view.kase = l.view.kase
    BY <1>1, <1>4 DEF NextReads, Fields
  <2>3. \A f \in Relevant(l.task) \ s.unread : f = c \/ f \in Relevant(l.task) \ l.unread
    BY <1>1
  <2> QED
    BY <1>1, <1>2, <2>1, <2>2, <2>3 DEF ViewStands, s
<1> QED
  BY <1>3, <1>4

LEMMA FirstPlanIsFixed ==
  ASSUME NEW b, NEW d
  PROVE  PlansFor(SeedStep(1), b) = PlansFor(SeedStep(1), d)
  BY DEF PlansFor, Plans, SeedPlans, SeedStep

LEMMA EndsAreOK ==
  ASSUME NEW l, LoadingOK(l) \/ PlannedOK(l), NEW n \in {Idle, Throw(l), Return(l)}
  PROVE  LocalOK(n) /\ n.pc \notin Busy /\ n.pc # "deleting"
<1>1. "pc" \in DOMAIN l
  BY DEF LoadingOK, PlannedOK, IsRecord
<1>2. "pc" \in DOMAIN n /\ n.pc \in {"idle", "verifying", "ended"}
  BY <1>1 DEF Idle, Throw, Return
<1> QED
  BY <1>2 DEF LocalOK, Busy

LEMMA AfterReadOK ==
  ASSUME NEW l, LoadingOK(l), DocsOK(docs), resets \in Nat, Fresh(l, docs, resets),
         NEW n \in AfterRead(l)
  PROVE  /\ LocalOK(n) /\ Fresh(n, docs, resets) /\ n.pc # "deleting"
         /\ n.pc \in Busy => n.task = l.task /\ n.since = l.since /\ n.reset = l.reset
<1>0. PICK c \in NextReads(l.unread) :
        \/ l.task = SeedStep(1) /\ Missing(c) /\ n \in Planned(Seen(l, c))
        \/ l.task = SeedStep(1) /\ ~Missing(c) /\ n = Return(l)
        \/ /\ l.task # SeedStep(1) /\ Missing(c)
           /\ n = IF l.task.kind = "seed" THEN Throw(l) ELSE Idle
        \/ /\ l.task # SeedStep(1) /\ ~Missing(c)
           /\ Seen(l, c).unread = {} \/ Settled(l.task, Seen(l, c).view)
           /\ n \in Planned(Seen(l, c))
        \/ /\ l.task # SeedStep(1) /\ ~Missing(c) /\ Seen(l, c).unread # {}
           /\ n = Seen(l, c)
  BY AfterReadIs
<1> DEFINE s == Seen(l, c)
<1>1. /\ IsRecord(s, {"pc", "task", "view", "unread", "since", "reset"})
      /\ s.pc = "loading" /\ s.task = l.task /\ s.since = l.since /\ s.reset = l.reset
      /\ s.unread = l.unread \ {c} /\ s.view[c] = docs[c] /\ DocsOK(s.view)
      /\ "kase" \notin s.unread
      /\ "kase" \in l.unread => c = "kase"
      /\ c # "kase" => s.view.kase = l.view.kase
  BY SeenIs DEF Fields
<1>2. /\ TaskOK(l.task) /\ l.since \in Nat /\ l.since <= resets /\ l.reset \in BOOLEAN
      /\ l.reset => l.task.kind = "seed"
      /\ l.since = resets /\ l.task.kind = "seed" => l.task.step - 1 <= docs.kase.version
      /\ IdsOf(s.view.evidence) \subseteq EventId
  BY <1>1 DEF LoadingOK, Fresh, Busy, DocsOK
<1> HIDE DEF s
<1>3. ASSUME ~Missing(c) PROVE s.view.kase # NoCase /\ s.view.kase \in CaseRecord
  <2>1. s.view.kase # NoCase
    BY <1>1, <1>3 DEF Missing, LoadingOK
  <2> QED
    BY <1>1, <2>1 DEF DocsOK, KaseOK
<1>4. l.since = resets => ViewStands(s, docs)
  BY SeenStands DEF s
<1>5. /\ LocalOK(Idle) /\ LocalOK(Return(l)) /\ LocalOK(Throw(l)) /\ LocalOK(Throw(s))
      /\ \A x \in {Idle, Return(l), Throw(l), Throw(s)} : x.pc \notin Busy /\ x.pc # "deleting"
  <2>1. Throw(s) = Throw(l)
    BY <1>1 DEF Throw
  <2> QED
    BY <2>1, EndsAreOK
<1>6. CASE n \in {Idle, Return(l), Throw(l), Throw(s)}
  BY <1>5, <1>6 DEF Fresh
<1>7. CASE l.task = SeedStep(1) /\ Missing(c) /\ n \in Planned(s) /\ n \notin {Idle, Throw(s)}
  <2>1. /\ PlannedOK(n) /\ n.task = l.task /\ n.since = l.since /\ n.reset = l.reset
        /\ n.mutation \in PlansFor(l.task, s.view) /\ n.mutation.expected = 0
    BY <1>1, <1>2, <1>7, PlannedIs
  <2>2. PlansFor(l.task, s.view) = PlansFor(l.task, SnapshotOf(docs))
    BY <1>7, FirstPlanIsFixed
  <2>3. docs.kase.version \in Nat /\ l.task.kind = "seed" /\ l.task.step = 1
    BY <1>7, Versions DEF DocsOK, SeedStep
  <2>4. PlanStands(n, docs)
    BY <2>1, <2>2, <2>3 DEF PlanStands
  <2>5. n.pc = "planned"
    BY <2>1 DEF PlannedOK
  <2> QED
    BY <1>2, <2>1, <2>4, <2>5 DEF LocalOK, Fresh, Busy
<1>8. CASE /\ l.task # SeedStep(1) /\ ~Missing(c)
           /\ s.unread = {} \/ Settled(l.task, s.view)
           /\ n \in Planned(s) /\ n \notin {Idle, Throw(s)}
  <2>1. /\ Plans(l.task, s.view) # {}
        /\ PlannedOK(n) /\ n.task = l.task /\ n.since = l.since /\ n.reset = l.reset
        /\ n.mutation \in PlansFor(l.task, s.view) /\ n.mutation.expected = s.view.kase.version
    BY <1>1, <1>2, <1>3, <1>8, PlannedIs
  <2>2. s.unread = {}
    BY <1>2, <1>8, <2>1, SettledPlansNothing
  <2>3. n.pc = "planned"
    BY <2>1 DEF PlannedOK
  <2>4. ASSUME l.since = resets PROVE PlanStands(n, docs)
    <3>1. /\ s.view.kase.version \in Nat /\ s.view.kase.version > 0 /\ docs.kase.version \in Nat
      BY <1>1, <1>3, <1>8, Versions DEF DocsOK
    <3>2. ASSUME s.view.kase.version = docs.kase.version
          PROVE  n.mutation \in PlansFor(l.task, SnapshotOf(docs))
      <4>1. SnapshotOf(docs) = docs
        BY <3>1, <3>2, Versions DEF SnapshotOf
      <4>2. \A f \in Relevant(l.task) : s.view[f] = docs[f]
        BY <1>1, <1>4, <2>2, <2>4, <3>2 DEF ViewStands
      <4>3. PlansFor(l.task, s.view) = PlansFor(l.task, docs)
        BY <1>2, <4>2, PlansAgree
      <4> QED
        BY <2>1, <4>1, <4>3
    <3> QED
      BY <1>1, <1>4, <2>1, <2>4, <3>2 DEF ViewStands, PlanStands
  <2> QED
    BY <1>2, <2>1, <2>3, <2>4 DEF LocalOK, Fresh, Busy
<1>9. CASE ~Missing(c) /\ s.unread # {} /\ n = s
  <2>1. LoadingOK(n)
    BY <1>1, <1>2, <1>3, <1>9 DEF LoadingOK
  <2> QED
    BY <1>1, <1>2, <1>4, <1>9, <2>1 DEF LocalOK, Fresh, Busy
<1> QED
  BY <1>0, <1>6, <1>7, <1>8, <1>9 DEF s

(***************************************************************************)
(* What a commit and a batch of deletions make of the documents.           *)
(***************************************************************************)
LEMMA CommittedIs ==
  ASSUME NEW m, CommitAnswer(m) = "COMMITTED"
  PROVE  /\ m.expected = docs.kase.version
         /\ \A e \in index.events : e.id \notin IdsOf(m.events)
<1>1. VersionMatches(Snapshot, m)
  BY DEF CommitAnswer, Validated
<1>2. \A e \in index.events : e.id \notin IdsOf(m.events)
  BY DEF CommitAnswer
<1> QED
  BY <1>1, <1>2, SnapshotKase DEF VersionMatches

LEMMA WriteIs ==
  ASSUME DOMAIN docs = Fields, NEW m, Write(m)
  PROVE  /\ IsRecord(docs', Fields)
         /\ docs'.kase = m.kase
         /\ docs'.events = docs.events \cup m.events
         /\ docs'.evidence = docs.evidence \cup m.evidence
         /\ docs'.claims = UpsertClaims(docs.claims, m.claims)
         /\ docs'.transactions = docs.transactions \cup m.transactions
         /\ docs'.audits = IF m.audit = NoAudit THEN docs.audits ELSE Append(docs.audits, m.audit)
         /\ docs'.requests = [v \in DOMAIN docs.requests \cup m.requests |->
                                IF v \in m.requests THEN NewRequest ELSE docs.requests[v]]
         /\ docs'.receipts = docs.receipts /\ docs'.runs = docs.runs
  BY DEF Write, ApplyMutation, Fields, IsRecord

LEMMA IdsOfUnion == \A A, B : IdsOf(A \cup B) = IdsOf(A) \cup IdsOf(B)
  BY DEF IdsOf

LEMMA WriteOK ==
  ASSUME DocsOK(docs), NEW task, NEW m, PlanOK(task, m), CommitAnswer(m) = "COMMITTED", Write(m)
  PROVE  DocsOK(docs') /\ docs'.kase = m.kase /\ docs'.kase.version = docs.kase.version + 1
<1>1. m.expected = docs.kase.version /\ docs.kase.version \in Nat
  BY CommittedIs, Versions DEF DocsOK
<1>2. DOMAIN docs = Fields
  BY DEF DocsOK, IsRecord
<1>3. docs'.kase \in CaseRecord /\ docs'.kase.version = docs.kase.version + 1 /\ docs'.kase = m.kase
  BY <1>1, <1>2, WriteIs DEF PlanOK
<1>4. KaseOK(docs'.kase)
  BY <1>1, <1>3 DEF KaseOK
<1>5. IsRecord(docs', Fields) /\ docs'.events \subseteq Event
  BY <1>2, WriteIs DEF PlanOK, DocsOK
<1>6. /\ IdsOf(docs'.evidence) \subseteq EventId
      /\ IdsOf(docs'.transactions) \subseteq Providers \X Refunds
  <2>1. /\ IdsOf(docs'.evidence) = IdsOf(docs.evidence) \cup IdsOf(m.evidence)
        /\ IdsOf(docs'.transactions) = IdsOf(docs.transactions) \cup IdsOf(m.transactions)
    <3>1. /\ docs'.evidence = docs.evidence \cup m.evidence
          /\ docs'.transactions = docs.transactions \cup m.transactions
      BY <1>2, WriteIs
    <3> QED
      BY <3>1 DEF IdsOf
  <2> QED
    BY <2>1 DEF PlanOK, DocsOK
<1>7. docs'.audits \in Seq(Audit)
  <2>1. docs.audits \in Seq(Audit)
    BY DEF DocsOK
  <2>2. m.audit \in Audit => Append(docs.audits, m.audit) \in Seq(Audit)
    BY <2>1
  <2> QED
    BY <1>2, <2>1, <2>2, WriteIs DEF PlanOK
<1>8. \A r \in DOMAIN docs'.receipts : docs'.receipts[r] \in Receipt
  BY <1>2, WriteIs DEF DocsOK
<1> QED
  BY <1>3, <1>4, <1>5, <1>6, <1>7, <1>8 DEF DocsOK

LEMMA WriteIndexesOK ==
  ASSUME IndexOK, NEW task, NEW m, PlanOK(task, m), WriteIndexes(m)
  PROVE  IndexOK'
<1>1. /\ index'.events = index.events \cup m.events
      /\ index'.objects = index.objects \cup IdsOf(m.transactions)
      /\ index'.owned = Own(Owned(m))
      /\ IsRecord(index', {"events", "objects", "owned"})
  BY DEF WriteIndexes, IsRecord
<1>2. /\ Owned(m).events = IdsOf(m.events) /\ Owned(m).evidence = IdsOf(m.evidence)
      /\ Owned(m).audits = IF m.audit = NoAudit THEN {} ELSE {m.audit.trigger}
  BY OwnedKindsAre DEF Owned, NothingOwned, Kinds
<1>3. IsRecord(index'.owned, Kinds)
  BY <1>1, OwnedKindsAre DEF Own, IsRecord
<1>4. \A k \in Kinds : index'.owned[k] = index.owned[k] \cup Owned(m)[k]
  BY <1>1, OwnedKindsAre DEF Own
<1>5. IdsOf(m.events) \subseteq EventId /\ (m.audit = NoAudit \/ m.audit.trigger \in EventId)
  BY EventIds DEF PlanOK, IdsOf, Audit
<1>6. index'.owned.events \cup index'.owned.evidence \cup index'.owned.audits \subseteq EventId
  BY <1>2, <1>4, <1>5 DEF IndexOK, PlanOK, Kinds
<1>7. index'.events \subseteq Event /\ index'.objects \subseteq Providers \X Refunds
  BY <1>1 DEF IndexOK, PlanOK
<1> QED
  BY <1>1, <1>3, <1>6, <1>7 DEF IndexOK

\* Each number below the count of a finite set of numbers is the rank of one of them.
LEMMA RankExists ==
  ASSUME NEW S \in SUBSET Nat, IsFiniteSet(S), NEW j \in 1 .. Cardinality(S)
  PROVE  \E i \in S : Cardinality({ h \in S : h < i }) = j - 1
<1> DEFINE n == Cardinality(S)
           Below(i) == { h \in S : h < i }
           rank == [i \in S |-> Cardinality(Below(i))]
<1>0. n \in Nat /\ n > 0 /\ j - 1 \in 0 .. (n - 1)
  BY FS_CardinalityType
<1>1. ASSUME NEW i \in S
      PROVE  IsFiniteSet(Below(i)) /\ Cardinality(Below(i)) \in 0 .. (n - 1)
  <2>1. Below(i) \subseteq S /\ i \notin Below(i)
    OBVIOUS
  <2>2. /\ IsFiniteSet(Below(i)) /\ Cardinality(Below(i)) \in Nat
        /\ Cardinality(Below(i)) <= n /\ Cardinality(Below(i)) # n
    BY <2>1, FS_Subset, FS_CardinalityType
  <2> QED
    BY <1>0, <2>2
<1>2. ASSUME NEW h \in S, NEW i \in S, h < i
      PROVE  Cardinality(Below(h)) # Cardinality(Below(i))
  <2>1. \A g \in S : g \in Nat /\ (g < h => g < i) /\ ~(g < g)
    BY <1>2
  <2>2. Below(h) \subseteq Below(i) /\ h \in Below(i) /\ h \notin Below(h)
    BY <1>2, <2>1
  <2> QED
    BY <1>1, <2>2, FS_Subset
<1>3. rank \in Injection(S, 0 .. (n - 1))
  <2>1. rank \in [S -> 0 .. (n - 1)]
    BY <1>1
  <2>2. ASSUME NEW h \in S, NEW i \in S, rank[h] = rank[i] PROVE h = i
    <3>1. ~(h < i) /\ ~(i < h)
      BY <1>2, <2>2
    <3> QED
      BY <3>1
  <2> QED
    BY <2>1, <2>2 DEF Injection, IsInjective
<1>4. IsFiniteSet(0 .. (n - 1)) /\ Cardinality(0 .. (n - 1)) = n
  BY <1>0, FS_Interval
<1>5. rank \in Surjection(S, 0 .. (n - 1))
  <2> HIDE DEF rank
  <2> QED
    BY <1>3, <1>4, FS_Injection
<1>6. \E i \in S : rank[i] = j - 1
  <2> HIDE DEF rank
  <2> QED
    BY <1>0, <1>5 DEF Surjection
<1> QED
  BY <1>6

LEMMA KeptTyped ==
  ASSUME NEW S, NEW audits \in Seq(S), NEW deleted
  PROVE  KeptAudits(audits, deleted) \in Seq(S)
<1> DEFINE kept == { i \in DOMAIN audits : audits[i].trigger \notin deleted }
           n == Cardinality(kept)
           Nth(j) == CHOOSE i \in kept : Cardinality({ h \in kept : h < i }) = j - 1
<1>1. kept \in SUBSET Nat /\ IsFiniteSet(kept) /\ n \in Nat
  <2>1. kept \subseteq 1 .. Len(audits) /\ IsFiniteSet(1 .. Len(audits))
    BY FS_Interval
  <2> QED
    BY <2>1, FS_Subset, FS_CardinalityType
<1>2. ASSUME NEW j \in 1 .. n PROVE Nth(j) \in kept
  <2> HIDE DEF kept
  <2>1. \E i \in kept : Cardinality({ h \in kept : h < i }) = j - 1
    BY <1>1, <1>2, RankExists
  <2> QED
    BY <2>1
<1>3. \A i \in kept : audits[i] \in S
  OBVIOUS
<1>4. KeptAudits(audits, deleted) = [j \in 1 .. n |-> audits[Nth(j)]]
  BY DEF KeptAudits
<1> HIDE DEF kept, n, Nth
<1>5. \A j \in 1 .. n : audits[Nth(j)] \in S
  BY <1>2, <1>3
<1>6. [j \in 1 .. n |-> audits[Nth(j)]] \in Seq(S)
  BY <1>1, <1>5
<1> QED
  BY <1>4, <1>6

LEMMA KeptNone ==
  ASSUME NEW audits, NEW deleted, \A i \in DOMAIN audits : audits[i].trigger \in deleted
  PROVE  KeptAudits(audits, deleted) = <<>>
<1> DEFINE kept == { i \in DOMAIN audits : audits[i].trigger \notin deleted }
<1>1. kept = {} /\ Cardinality(kept) = 0
  BY FS_EmptySet
<1>2. KeptAudits(audits, deleted) =
        [j \in 1 .. Cardinality(kept) |->
           audits[CHOOSE i \in kept : Cardinality({ h \in kept : h < i }) = j - 1]]
  BY DEF KeptAudits
<1> HIDE DEF kept
<1> QED
  BY <1>1, <1>2

(***************************************************************************)
(* Each action keeps the types, and what the processes read and planned.   *)
(***************************************************************************)
Same(d, e) == \A c \in {"kase", "events", "evidence", "claims", "transactions"} : d[c] = e[c]

LEMMA OthersKeep ==
  ASSUME TypeInv, FreshInv, NEW p \in Processes, NEW n, Become(p, n), LocalOK(n),
         Fresh(n, docs', resets'), DocsOK(docs'), resets' \in Nat,
         \/ resets' = resets /\ docs.kase.version < docs'.kase.version
         \/ resets' = resets /\ Same(docs, docs')
         \/ resets' > resets
  PROVE  /\ process' = [q \in Processes |-> process'[q]]
         /\ \A q \in Processes : LocalOK(process'[q])
         /\ FreshInv'
<1>1. /\ process' = [q \in Processes |-> process'[q]]
      /\ \A q \in Processes : process'[q] = IF q = p THEN n ELSE process[q]
  BY DEF TypeInv, Become
<1>2. ASSUME NEW q \in Processes, q # p
      PROVE  LocalOK(process[q]) /\ Fresh(process[q], docs', resets')
  <2>1. LocalOK(process[q]) /\ Fresh(process[q], docs, resets) /\ DocsOK(docs) /\ resets \in Nat
    BY DEF TypeInv, FreshInv
  <2> QED
    BY <2>1, FreshKept DEF Same
<1>3. \A q \in Processes : LocalOK(process'[q]) /\ Fresh(process'[q], docs', resets')
  BY <1>1, <1>2
<1> QED
  BY <1>1, <1>3 DEF FreshInv

\* The same of a step that leaves the documents as they are.
LEMMA QuietStep ==
  ASSUME TypeInv, FreshInv, NEW p \in Processes, NEW n, Become(p, n), LocalOK(n),
         Fresh(n, docs, resets), UNCHANGED <<docs, index, resets>>, died' \in BOOLEAN,
         raced' \in BOOLEAN
  PROVE  TypeInv' /\ FreshInv'
<1>1. /\ process' = [q \in Processes |-> process'[q]]
      /\ \A q \in Processes : process'[q] = IF q = p THEN n ELSE process[q]
  BY DEF TypeInv, Become
<1>2. \A q \in Processes : LocalOK(process'[q]) /\ Fresh(process'[q], docs, resets)
  BY <1>1 DEF TypeInv, FreshInv
<1>3. FreshInv'
  BY <1>2 DEF FreshInv
<1>4. DocsOK(docs') /\ IndexOK' /\ resets' \in Nat
  BY DEF TypeInv, IndexOK
<1> QED
  BY <1>1, <1>2, <1>3, <1>4 DEF TypeInv

LEMMA AtRestOK ==
  ASSUME NEW n, "pc" \in DOMAIN n, n.pc \in {"idle", "deleting", "verifying", "appending", "ended"}
  PROVE  LocalOK(n) /\ \A d, k : Fresh(n, d, k)
  BY DEF LocalOK, Fresh, Busy

LEMMA LoadingIsOK ==
  ASSUME TypeInv, NEW task, TaskOK(task)
  PROVE  /\ LoadingOK(Loading(task)) /\ Loading(task).task = task
         /\ Loading(task).since = resets /\ Loading(task).reset = FALSE
         /\ Loading(task).unread = {"kase"} \cup Looks(task)
  BY EmptyOK DEF Loading, LoadingOK, IsRecord, TypeInv

LEMMA StartIs ==
  ASSUME NEW p \in Processes, Deliver(p) \/ Evaluate(p) \/ SeedDemo(p)
  PROVE  \E task : /\ TaskOK(task) /\ Start(p, task)
                   /\ task.kind = "seed" => task.step = 1
<1>1. ASSUME Deliver(p)
      PROVE  \E e \in ProviderEvents \cup PartnerEvents : Start(p, [kind |-> "event", event |-> e])
  BY <1>1 DEF Deliver
<1>2. ASSUME Evaluate(p) PROVE \E v : Start(p, [kind |-> "evaluate", version |-> v])
  BY <1>2 DEF Evaluate
<1>3. ASSUME SeedDemo(p) PROVE Start(p, SeedStep(1))
  BY <1>3 DEF SeedDemo, SeedStep
<1>4. /\ \A e \in ProviderEvents \cup PartnerEvents : TaskOK([kind |-> "event", event |-> e])
      /\ \A v : TaskOK([kind |-> "evaluate", version |-> v])
      /\ TaskOK(SeedStep(1)) /\ SeedStep(1).step = 1
      /\ \A e : [kind |-> "event", event |-> e].kind # "seed"
      /\ \A v : [kind |-> "evaluate", version |-> v].kind # "seed"
  BY DEF TaskOK, SeedStep
<1>5. CASE Deliver(p)
  BY <1>1, <1>4, <1>5
<1>6. CASE Evaluate(p)
  BY <1>2, <1>4, <1>6
<1>7. CASE SeedDemo(p)
  BY <1>3, <1>4, <1>7
<1> QED
  BY <1>5, <1>6, <1>7

LEMMA StartReads ==
  ASSUME TypeInv, NEW task, TaskOK(task), task.kind = "seed" => task.step = 1,
         NEW n \in AfterRead(Loading(task))
  PROVE  /\ LocalOK(n) /\ Fresh(n, docs, resets) /\ n.pc # "deleting"
         /\ n.pc \in Busy => n.task = task /\ n.since = resets /\ n.reset = FALSE
<1>1. LoadingOK(Loading(task)) /\ DocsOK(docs) /\ resets \in Nat /\ docs.kase.version \in Nat
  BY LoadingIsOK, Versions DEF TypeInv, DocsOK
<1>2. Fresh(Loading(task), docs, resets)
  <2> DEFINE l == Loading(task)
  <2>1. /\ l.pc = "loading" /\ l.task = task /\ l.since = resets /\ "kase" \in l.unread
        /\ task.kind = "seed" => task.step - 1 <= docs.kase.version
    <3>1. task.kind = "seed" => task.step - 1 = 0
      OBVIOUS
    <3>2. /\ l.pc = "loading" /\ l.task = task /\ l.since = resets
          /\ l.unread = {"kase"} \cup Looks(task)
      BY DEF Loading
    <3> HIDE DEF l
    <3> QED
      BY <1>1, <3>1, <3>2
  <2> HIDE DEF l
  <2>2. Fresh(l, docs, resets)
    BY <1>1, <2>1 DEF Fresh
  <2> QED
    BY <2>2 DEF l
<1>3. /\ Loading(task).task = task /\ Loading(task).since = resets
      /\ Loading(task).reset = FALSE
  BY DEF Loading
<1>4. /\ LocalOK(n) /\ Fresh(n, docs, resets) /\ n.pc # "deleting"
      /\ n.pc \in Busy => /\ n.task = Loading(task).task /\ n.since = Loading(task).since
                           /\ n.reset = Loading(task).reset
  BY <1>1, <1>2, AfterReadOK
<1> QED
  BY <1>3, <1>4

LEMMA StartKeeps ==
  ASSUME TypeInv, FreshInv, NEW p \in Processes, NEW task, TaskOK(task), Start(p, task),
         task.kind = "seed" => task.step = 1
  PROVE  TypeInv' /\ FreshInv'
<1>1. PICK n \in AfterRead(Loading(task)) : Become(p, n)
  BY DEF Start
<1>2. LocalOK(n) /\ Fresh(n, docs, resets)
  BY StartReads
<1> QED
  BY <1>1, <1>2, QuietStep DEF Start, TypeInv

LEMMA ReadReads ==
  ASSUME TypeInv, FreshInv, NEW p \in Processes, process[p].pc = "loading",
         NEW n \in AfterRead(process[p])
  PROVE  /\ LocalOK(n) /\ Fresh(n, docs, resets) /\ n.pc # "deleting"
         /\ n.pc \in Busy => /\ n.task = process[p].task /\ n.since = process[p].since
                              /\ n.reset = process[p].reset
<1>1. LoadingOK(process[p]) /\ DocsOK(docs) /\ resets \in Nat /\ Fresh(process[p], docs, resets)
  BY DEF TypeInv, FreshInv, LocalOK, PlannedOK
<1> QED
  BY <1>1, AfterReadOK

LEMMA ReadKeeps ==
  ASSUME TypeInv, FreshInv, NEW p \in Processes, Read(p)
  PROVE  TypeInv' /\ FreshInv'
<1>1. PICK n \in AfterRead(process[p]) : Become(p, n)
  BY DEF Read
<1>2. LocalOK(n) /\ Fresh(n, docs, resets)
  BY ReadReads DEF Read
<1> QED
  BY <1>1, <1>2, QuietStep DEF Read, TypeInv

LEMMA NextSeedStep ==
  ASSUME NEW task, TaskOK(task), task.kind = "seed", task.step # 4
  PROVE  /\ TaskOK([task EXCEPT !.step = @ + 1])
         /\ [task EXCEPT !.step = @ + 1] = SeedStep(task.step + 1)
  BY DEF TaskOK, SeedStep

\* Where the process that committed stands.
LEMMA CommittedOK ==
  ASSUME TypeInv, FreshInv, NEW p \in Processes, process[p].pc = "planned",
         CommitAnswer(process[p].mutation) = "COMMITTED", Write(process[p].mutation),
         resets' = resets
  PROVE  LocalOK(Committed(process[p])) /\ Fresh(Committed(process[p]), docs', resets)
<1> DEFINE l == process[p]
           task == [l.task EXCEPT !.step = @ + 1]
           n == [Loading(task) EXCEPT !.since = l.since, !.reset = l.reset]
<1>1. PlannedOK(l) /\ TaskOK(l.task) /\ PlanOK(l.task, l.mutation) /\ Fresh(l, docs, resets)
  BY DEF TypeInv, FreshInv, LocalOK, LoadingOK, PlannedOK
<1>2. CASE l.task.kind # "seed" \/ l.task.step = 4
  <2>1. Committed(l) \in {Idle, Return(l)}
    BY <1>2 DEF Committed
  <2> QED
    BY <1>1, <2>1, EndsAreOK DEF Fresh
<1>3. CASE l.task.kind = "seed" /\ l.task.step # 4
  <2>1. Committed(l) = n /\ TaskOK(task) /\ task = SeedStep(l.task.step + 1)
    BY <1>1, <1>3, NextSeedStep DEF Committed
  <2>2. /\ IsRecord(n, {"pc", "task", "view", "unread", "since", "reset"}) /\ n.pc = "loading"
        /\ n.task = task /\ n.since = l.since /\ n.reset = l.reset /\ n.view = EmptySnapshot
        /\ n.unread = {"kase"} \cup Looks(task)
    BY DEF Loading, IsRecord
  <2>3. n.task.kind = "seed" /\ n.task.step = l.task.step + 1 /\ l.task.step \in 1 .. 4
    BY <1>1, <1>3, <2>1, <2>2 DEF SeedStep, TaskOK
  <2> HIDE DEF n, task
  <2>4. LoadingOK(n)
    BY <1>1, <2>1, <2>2, <2>3, EmptyOK DEF LoadingOK, PlannedOK
  <2>5. Fresh(n, docs', resets)
    <3>1. l.since <= resets
      BY <1>1 DEF Fresh, PlannedOK, Busy
    <3>2. l.since = resets => l.task.step - 1 <= docs.kase.version
      BY <1>1, <1>3 DEF Fresh, PlannedOK, Busy
    <3>3. docs'.kase.version = docs.kase.version + 1 /\ docs.kase.version \in Nat
      BY <1>1, WriteOK, Versions DEF TypeInv, DocsOK
    <3> QED
      BY <2>2, <2>3, <3>1, <3>2, <3>3 DEF Fresh
  <2> QED
    BY <2>1, <2>4, <2>5 DEF LocalOK
<1> QED
  BY <1>2, <1>3

LEMMA CommitKeeps ==
  ASSUME TypeInv, FreshInv, NEW p \in Processes, Commit(p)
  PROVE  TypeInv' /\ FreshInv'
<1> DEFINE l == process[p]
           n == IF l.task.kind = "seed" THEN Throw(l) ELSE Idle
<1>1. PlannedOK(l) /\ PlanOK(l.task, l.mutation)
  BY DEF Commit, TypeInv, LocalOK, LoadingOK, PlannedOK
<1>2. CASE CommitAnswer(l.mutation) = "COMMITTED"
  <2>1. /\ Write(l.mutation) /\ WriteIndexes(l.mutation) /\ Become(p, Committed(l))
        /\ resets' = resets /\ died' = died /\ raced' = (raced \/ Resetting(p))
        /\ l.pc = "planned"
    BY <1>2 DEF Commit
  <2>2. LocalOK(Committed(l)) /\ Fresh(Committed(l), docs', resets')
    BY <1>2, <2>1, CommittedOK
  <2>3. DocsOK(docs') /\ docs'.kase.version = docs.kase.version + 1 /\ IndexOK'
    BY <1>1, <1>2, <2>1, WriteOK, WriteIndexesOK DEF TypeInv
  <2>4. docs.kase.version < docs'.kase.version /\ resets' \in Nat
    BY <2>1, <2>3, Versions DEF TypeInv, DocsOK
  <2>5. /\ process' = [q \in Processes |-> process'[q]]
        /\ \A q \in Processes : LocalOK(process'[q])
        /\ FreshInv'
    BY <2>1, <2>2, <2>3, <2>4, OthersKeep
  <2>6. died' \in BOOLEAN /\ raced' \in BOOLEAN
    BY <2>1 DEF TypeInv
  <2> QED
    BY <2>3, <2>4, <2>5, <2>6 DEF TypeInv
<1>3. CASE CommitAnswer(l.mutation) # "COMMITTED"
  <2>1. Become(p, n) /\ UNCHANGED <<docs, index, resets, died, raced>>
    BY <1>3 DEF Commit
  <2>2. LocalOK(n) /\ Fresh(n, docs, resets)
    BY <1>1, EndsAreOK DEF Fresh
  <2> HIDE DEF n
  <2> QED
    BY <2>1, <2>2, QuietStep DEF TypeInv
<1> QED
  BY <1>2, <1>3

LEMMA ResetPlanKeeps ==
  ASSUME TypeInv, FreshInv, NEW p \in Processes,
         PlanReset(p) \/ VerifyReset(p) \/ LeaveReset(p) \/ Crash(p)
  PROVE  TypeInv' /\ FreshInv'
<1>1. UNCHANGED <<docs, index, resets, raced>> /\ died' \in BOOLEAN
  BY DEF PlanReset, VerifyReset, LeaveReset, Crash, TypeInv
<1>2. \E n : /\ Become(p, n) /\ "pc" \in DOMAIN n
             /\ n.pc \in {"idle", "deleting", "verifying", "appending", "ended"}
  <2>1. ASSUME PlanReset(p)
        PROVE  \E n \in {Idle, [pc |-> "deleting", docs |-> docs, index |-> index]} : Become(p, n)
    BY <2>1 DEF PlanReset
  <2>2. ASSUME VerifyReset(p)
        PROVE  \E n \in {[process[p] EXCEPT !.pc = "appending"], Ended(FALSE)} : Become(p, n)
    BY <2>2 DEF VerifyReset
  <2>3. ASSUME LeaveReset(p) \/ Crash(p) PROVE Become(p, Idle)
    BY <2>3 DEF LeaveReset, Crash
  <2>4. ASSUME VerifyReset(p) PROVE "pc" \in DOMAIN process[p]
    BY <2>4 DEF TypeInv, LocalOK, LoadingOK, PlannedOK, IsRecord
  <2> QED
    BY <2>1, <2>2, <2>3, <2>4 DEF Idle, Ended
<1>3. PICK n : /\ Become(p, n) /\ "pc" \in DOMAIN n
               /\ n.pc \in {"idle", "deleting", "verifying", "appending", "ended"}
  BY <1>2
<1> QED
  BY <1>1, <1>3, AtRestOK, QuietStep DEF TypeInv

LEMMA DocumentsLeftIs ==
  ASSUME NEW plan
  PROVE  LET d == DocumentsLeft(plan) IN
         /\ IsRecord(d, Fields) /\ d.kase = CaseLeft(plan)
         /\ d.events = docs.events \ plan.docs.events
         /\ d.evidence = docs.evidence \ plan.docs.evidence
         /\ d.claims = { c \in docs.claims : c.id \notin IdsOf(plan.docs.claims) }
         /\ d.transactions = docs.transactions \ plan.docs.transactions
         /\ d.audits = KeptAudits(docs.audits, AuditIds(plan.docs.audits))
         /\ d.requests = Without(docs.requests, DOMAIN plan.docs.requests)
         /\ d.receipts = Without(docs.receipts, DOMAIN plan.docs.receipts)
         /\ d.runs = docs.runs \ plan.docs.runs
  BY DEF DocumentsLeft, IsRecord, Fields

LEMMA DeleteBatchKeeps ==
  ASSUME TypeInv, FreshInv, NEW p \in Processes, DeleteBatch(p)
  PROVE  TypeInv' /\ FreshInv'
<1> DEFINE task == SeedStep(1)
           n == [Loading(task) EXCEPT !.since = resets', !.reset = TRUE]
<1>1. /\ docs' = DocumentsLeft(process[p]) /\ index' = IndexesLeft(process[p])
      /\ resets' = resets + 1 /\ Become(p, n) /\ died' = FALSE /\ raced' \in BOOLEAN
      /\ resets \in Nat /\ DocsOK(docs) /\ IndexOK
  BY DEF DeleteBatch, TypeInv, SeedStep
<1>2. DocsOK(docs')
  <2>1. KaseOK(docs'.kase)
    BY <1>1, DocumentsLeftIs DEF CaseLeft, KaseOK, DocsOK
  <2>2. /\ docs'.events \subseteq docs.events /\ docs'.evidence \subseteq docs.evidence
        /\ docs'.transactions \subseteq docs.transactions
    BY <1>1, DocumentsLeftIs
  <2>3. /\ IdsOf(docs'.evidence) \subseteq IdsOf(docs.evidence)
        /\ IdsOf(docs'.transactions) \subseteq IdsOf(docs.transactions)
    BY <2>2 DEF IdsOf
  <2>4. docs'.audits \in Seq(Audit)
    <3>1. docs'.audits = KeptAudits(docs.audits, AuditIds(process[p].docs.audits))
      BY <1>1, DocumentsLeftIs
    <3>2. docs.audits \in Seq(Audit)
      BY <1>1 DEF DocsOK
    <3> QED
      BY <3>1, <3>2, KeptTyped
  <2>5. \A r \in DOMAIN docs'.receipts : docs'.receipts[r] \in Receipt
    <3>1. docs'.receipts = Without(docs.receipts, DOMAIN process[p].docs.receipts)
      BY <1>1, DocumentsLeftIs
    <3> QED
      BY <1>1, <3>1 DEF Without, DocsOK
  <2>6. IsRecord(docs', Fields)
    BY <1>1, DocumentsLeftIs
  <2> QED
    BY <1>1, <2>1, <2>2, <2>3, <2>4, <2>5, <2>6 DEF DocsOK
<1>3. IndexOK'
  <2>1. /\ IsRecord(index', {"events", "objects", "owned"}) /\ IsRecord(index'.owned, Kinds)
        /\ index'.events \subseteq index.events /\ index'.objects \subseteq index.objects
        /\ \A k \in Kinds : index'.owned[k] \subseteq index.owned[k]
    BY <1>1, OwnedKindsAre DEF IndexesLeft, IsRecord
  <2> QED
    BY <1>1, <2>1 DEF IndexOK, Kinds
<1>4. TaskOK(task) /\ task.kind = "seed" /\ task.step = 1
  BY DEF TaskOK, SeedStep
<1>5. LoadingOK(n) /\ Fresh(n, docs', resets')
  <2>1. /\ IsRecord(n, {"pc", "task", "view", "unread", "since", "reset"}) /\ n.pc = "loading"
        /\ n.task = task /\ n.since = resets' /\ n.reset = TRUE /\ n.view = EmptySnapshot
        /\ n.unread = {"kase"} \cup Looks(task)
    BY DEF Loading, IsRecord
  <2>2. docs'.kase.version \in Nat /\ resets' \in Nat /\ resets' <= resets'
    BY <1>1, <1>2, Versions DEF DocsOK
  <2> HIDE DEF n, task
  <2>3. LoadingOK(n)
    BY <1>4, <2>1, <2>2, EmptyOK DEF LoadingOK
  <2>4. n.task.kind = "seed" /\ n.task.step - 1 = 0 /\ "kase" \in n.unread
    BY <1>4, <2>1
  <2>5. Fresh(n, docs', resets')
    BY <2>1, <2>2, <2>4 DEF Fresh
  <2> QED
    BY <2>3, <2>5
<1> HIDE DEF n
<1>6. resets' > resets /\ resets' \in Nat /\ died' \in BOOLEAN
  <2>1. resets' > resets /\ resets' \in Nat
    <3>1. resets' = resets + 1 /\ resets \in Nat
      BY <1>1
    <3> QED
      BY <3>1
  <2>2. died' \in BOOLEAN
    BY <1>1
  <2> QED
    BY <2>1, <2>2
<1>7. /\ process' = [q \in Processes |-> process'[q]]
      /\ \A q \in Processes : LocalOK(process'[q])
      /\ FreshInv'
  BY <1>1, <1>2, <1>5, <1>6, OthersKeep DEF LocalOK
<1> QED
  BY <1>1, <1>2, <1>3, <1>7, <1>6 DEF TypeInv

LEMMA AppendKeeps ==
  ASSUME TypeInv, FreshInv, NEW p \in Processes, AppendBaselineRun(p)
  PROVE  TypeInv' /\ FreshInv'
<1>1. PICK ok \in BOOLEAN : Become(p, Ended(ok))
  BY DEF AppendBaselineRun
<1>2. LocalOK(Ended(ok)) /\ Fresh(Ended(ok), docs', resets')
  BY AtRestOK DEF Ended
<1>3. /\ DOMAIN docs' = Fields /\ docs' = [f \in Fields |-> docs'[f]]
      /\ \A f \in Fields : f # "runs" => docs'[f] = docs[f]
  BY DEF AppendBaselineRun, TypeInv, DocsOK, IsRecord
<1>4. DocsOK(docs') /\ Same(docs, docs')
  BY <1>3 DEF TypeInv, DocsOK, IsRecord, Fields, Same
<1>5. IndexOK'
  <2>1. /\ IsRecord(index', {"events", "objects", "owned"}) /\ IsRecord(index'.owned, Kinds)
        /\ index'.events = index.events /\ index'.objects = index.objects
        /\ \A k \in Kinds : k # "runs" => index'.owned[k] = index.owned[k]
    BY DEF AppendBaselineRun, TypeInv, IndexOK, IsRecord
  <2> QED
    BY <2>1 DEF TypeInv, IndexOK, Kinds
<1>6. resets' = resets /\ died' = died /\ raced' \in BOOLEAN /\ resets' \in Nat
  BY DEF AppendBaselineRun, TypeInv
<1>7. /\ process' = [q \in Processes |-> process'[q]]
      /\ \A q \in Processes : LocalOK(process'[q])
      /\ FreshInv'
  BY <1>1, <1>2, <1>4, <1>6, OthersKeep
<1> QED
  BY <1>4, <1>5, <1>6, <1>7 DEF TypeInv

LEMMA PartnerKeeps ==
  ASSUME TypeInv, FreshInv, NEW r \in PartnerRequests,
         CreatePartnerRequest(r) \/ UpdatePartnerReceipt(r)
  PROVE  TypeInv' /\ FreshInv'
<1>1. /\ UNCHANGED <<process, resets, died>> /\ raced' \in BOOLEAN
  BY DEF CreatePartnerRequest, UpdatePartnerReceipt, TypeInv
<1>2. /\ DOMAIN docs' = Fields /\ docs' = [f \in Fields |-> docs'[f]]
      /\ \A f \in Fields : f # "receipts" => docs'[f] = docs[f]
  BY DEF CreatePartnerRequest, UpdatePartnerReceipt, TypeInv, DocsOK, IsRecord
<1>3. \A q \in DOMAIN docs'.receipts : docs'.receipts[q] \in Receipt
  <2>1. DOMAIN docs = Fields /\ \A q \in DOMAIN docs.receipts : docs.receipts[q] \in Receipt
    BY DEF TypeInv, DocsOK, IsRecord
  <2>2. ASSUME CreatePartnerRequest(r)
        PROVE  \A q \in DOMAIN docs'.receipts : docs'.receipts[q] \in Receipt
    <3>1. [state |-> "OPEN", event |-> NoEvent] \in Receipt
      BY DEF Receipt, ReceiptState
    <3>2. docs'.receipts = [q \in DOMAIN docs.receipts \cup {r} |->
            IF q = r THEN [state |-> "OPEN", event |-> NoEvent] ELSE docs.receipts[q]]
      BY <2>1, <2>2 DEF CreatePartnerRequest, Fields
    <3> QED
      BY <2>1, <3>1, <3>2
  <2>3. ASSUME UpdatePartnerReceipt(r)
        PROVE  \A q \in DOMAIN docs'.receipts : docs'.receipts[q] \in Receipt
    <3>1. PICK receipt \in ReceiptAfter(r, docs.receipts[r]) :
            docs' = [docs EXCEPT !.receipts[r] = receipt]
      BY <2>3 DEF UpdatePartnerReceipt
    <3>2. docs.receipts[r] \in Receipt
      BY <2>1, <2>3 DEF UpdatePartnerReceipt
    <3>3. receipt \in Receipt
      <4>1. \A e \in PartnerEvents : [state |-> "RESERVED", event |-> e.id] \in Receipt
        BY EventKinds, EventIds DEF Receipt, ReceiptState
      <4>2. [docs.receipts[r] EXCEPT !.state = "PUBLISHED"] \in Receipt
        BY <3>2 DEF Receipt, ReceiptState
      <4> QED
        BY <3>1, <4>1, <4>2 DEF ReceiptAfter
    <3>4. docs'.receipts = [docs.receipts EXCEPT ![r] = receipt]
      BY <2>1, <3>1 DEF Fields
    <3> QED
      BY <2>1, <3>3, <3>4
  <2> QED
    BY <2>2, <2>3
<1>4. DocsOK(docs') /\ Same(docs, docs')
  BY <1>2, <1>3 DEF TypeInv, DocsOK, IsRecord, Fields, Same
<1>5. IndexOK'
  <2>1. /\ IsRecord(index', {"events", "objects", "owned"}) /\ IsRecord(index'.owned, Kinds)
        /\ index'.events = index.events /\ index'.objects = index.objects
        /\ \A k \in Kinds : k # "receipts" => index'.owned[k] = index.owned[k]
    BY DEF CreatePartnerRequest, UpdatePartnerReceipt, TypeInv, IndexOK, IsRecord
  <2> QED
    BY <2>1 DEF TypeInv, IndexOK, Kinds
<1>6. FreshInv'
  <2>1. ASSUME NEW q \in Processes PROVE Fresh(process[q], docs', resets)
    <3>1. LocalOK(process[q]) /\ Fresh(process[q], docs, resets) /\ DocsOK(docs) /\ resets \in Nat
      BY DEF TypeInv, FreshInv
    <3> QED
      BY <1>4, <3>1, FreshKept DEF Same
  <2> QED
    BY <1>1, <2>1 DEF FreshInv
<1> QED
  BY <1>1, <1>4, <1>5, <1>6 DEF TypeInv

LEMMA InitOK == Init => TypeInv /\ FreshInv
<1> SUFFICES ASSUME Init PROVE TypeInv /\ FreshInv
  OBVIOUS
<1>1. DocsOK(docs) /\ resets \in Nat /\ died \in BOOLEAN /\ raced \in BOOLEAN
  BY EmptyOK DEF Init
<1>2. IndexOK
  BY OwnedKindsAre DEF Init, IndexOK, IsRecord, NothingOwned, Kinds
<1>3. /\ process = [p \in Processes |-> process[p]]
      /\ \A p \in Processes : process[p] = Idle
  BY DEF Init
<1>4. \A p \in Processes : LocalOK(process[p]) /\ Fresh(process[p], docs, resets)
  BY <1>3, AtRestOK DEF Idle
<1> QED
  BY <1>1, <1>2, <1>3, <1>4 DEF TypeInv, FreshInv

LEMMA NextKeeps == TypeInv /\ FreshInv /\ [Next]_vars => TypeInv' /\ FreshInv'
<1> SUFFICES ASSUME TypeInv, FreshInv, [Next]_vars PROVE TypeInv' /\ FreshInv'
  OBVIOUS
<1>1. ASSUME NEW p \in Processes, Deliver(p) \/ Evaluate(p) \/ SeedDemo(p)
      PROVE  TypeInv' /\ FreshInv'
  <2>1. PICK task : /\ TaskOK(task) /\ Start(p, task)
                    /\ task.kind = "seed" => task.step = 1
    BY <1>1, StartIs
  <2> QED
    BY <2>1, StartKeeps
<1>2. CASE UNCHANGED vars
  BY <1>2 DEF vars, TypeInv, FreshInv, IndexOK
<1>3. CASE Next
  BY <1>1, <1>3, ReadKeeps, CommitKeeps, ResetPlanKeeps, DeleteBatchKeeps,
     AppendKeeps, PartnerKeeps DEF Next
<1> QED
  BY <1>2, <1>3

LEMMA AlwaysTyped == Spec => [](TypeInv /\ FreshInv)
<1> QED
  BY InitOK, NextKeeps, PTL DEF Spec

\* Every record that is stored, indexed or recorded of a token has its type, and every
\* process is where the code lets a request be.
THEOREM TypeCorrect == Spec => []TypeOK
<1>1. ASSUME TypeInv PROVE TypeOK
  <2>1. \A p \in Processes : process[p].pc \in
          {"idle", "loading", "planned", "deleting", "verifying", "appending", "ended"}
    BY <1>1 DEF TypeInv, LocalOK, LoadingOK, PlannedOK
  <2> QED
    BY <1>1, <2>1 DEF TypeInv, DocsOK, KaseOK, IndexOK, TypeOK
<1> QED
  BY <1>1, AlwaysTyped, PTL

(***************************************************************************)
(* A torn load does no harm: what is committed is a plan of the case that  *)
(* is stored when it is committed.                                         *)
(***************************************************************************)
LEMMA StepIsFresh ==
  ASSUME TypeInv, FreshInv, Next, NEW p \in Processes, process[p].pc = "planned",
         process'[p] # process[p], docs' # docs, process[p].since = resets
  PROVE  process[p].mutation \in FreshPlans(process[p].task)
<1>1. \A q, r \in Processes : \A n : Become(q, n) /\ r # q => process'[r] = process[r]
  BY DEF Become, TypeInv
<1>2. Commit(p)
  <2>1. PICK q \in Processes :
          \/ Deliver(q) \/ Evaluate(q) \/ SeedDemo(q) \/ Read(q) \/ Commit(q)
          \/ PlanReset(q) \/ DeleteBatch(q) \/ VerifyReset(q) \/ AppendBaselineRun(q)
          \/ LeaveReset(q) \/ Crash(q)
    BY DEF Next, CreatePartnerRequest, UpdatePartnerReceipt
  <2>2. Commit(q) \/ DeleteBatch(q) \/ AppendBaselineRun(q)
    BY <2>1 DEF Deliver, Evaluate, SeedDemo, Start, Read, PlanReset, VerifyReset, LeaveReset, Crash
  <2>3. \E n : Become(q, n)
    BY <2>2 DEF Commit, DeleteBatch, AppendBaselineRun
  <2>4. q = p
    BY <1>1, <2>3
  <2> QED
    BY <2>2, <2>4 DEF DeleteBatch, AppendBaselineRun
<1>3. CommitAnswer(process[p].mutation) = "COMMITTED"
  BY <1>2 DEF Commit
<1>4. process[p].mutation.expected = docs.kase.version
  BY <1>3, CommittedIs
<1>5. PlanStands(process[p], docs)
  BY DEF FreshInv, Fresh, Busy
<1>6. process[p].mutation \in PlansFor(process[p].task, Snapshot)
  BY <1>4, <1>5, SnapshotKase DEF PlanStands
<1> QED
  BY <1>6 DEF FreshPlans, PlansFor

\* A load reads the case document first and each collection after it, and others commit in
\* between: still, what a process commits is a plan of the case as it then is, for any number
\* of processes and events, and any reads between two commits.
THEOREM PlansAreFreshHolds == Spec => PlansAreFresh
<1>1. TypeInv /\ FreshInv /\ [Next]_vars =>
        [\A p \in Processes :
           /\ process[p].pc = "planned" /\ process'[p] # process[p]
           /\ docs' # docs /\ process[p].since = resets
           => process[p].mutation \in FreshPlans(process[p].task)]_vars
  BY StepIsFresh
<1> QED
  BY <1>1, AlwaysTyped, PTL DEF Spec, PlansAreFresh

(***************************************************************************)
(* The indexes.  Until a commit falls into a reset, a plan of a reset that *)
(* is still to be carried out is of the documents there are.               *)
(***************************************************************************)
Agreed(i, d) ==
  i = [events |-> d.events, objects |-> IdsOf(d.transactions), owned |-> OwnedDocs(d)]

AgreeInv ==
  ~raced => /\ Agreed(index, docs)
            /\ \A p \in Processes : process[p].pc = "deleting" =>
                 process[p].docs = docs /\ process[p].index = index

LEMMA OwnedDocsIs ==
  ASSUME NEW d
  PROVE  LET o == OwnedDocs(d) IN
         /\ IsRecord(o, Kinds)
         /\ o.events = IdsOf(d.events) /\ o.evidence = IdsOf(d.evidence)
         /\ o.audits = AuditIds(d.audits) /\ o.transactions = IdsOf(d.transactions)
         /\ o.requests = DOMAIN d.requests /\ o.receipts = DOMAIN d.receipts /\ o.runs = d.runs
  BY DEF OwnedDocs, IsRecord, Kinds

LEMMA EmptyIs ==
  /\ IsRecord(EmptySnapshot, Fields)
  /\ EmptySnapshot.kase = NoCase /\ EmptySnapshot.events = {} /\ EmptySnapshot.evidence = {}
  /\ EmptySnapshot.claims = {} /\ EmptySnapshot.transactions = {} /\ EmptySnapshot.audits = <<>>
  /\ EmptySnapshot.requests = [v \in {} |-> NewRequest]
  /\ EmptySnapshot.receipts = [r \in {} |-> NewRequest] /\ EmptySnapshot.runs = {}
  BY DEF EmptySnapshot, IsRecord, Fields

LEMMA AuditIdsAppend ==
  ASSUME NEW S, NEW s \in Seq(S), NEW a
  PROVE  AuditIds(Append(s, a)) = AuditIds(s) \cup {a.trigger}
<1>1. DOMAIN Append(s, a) = 1 .. (Len(s) + 1) /\ DOMAIN s = 1 .. Len(s) /\ Len(s) \in Nat
  OBVIOUS
<1>2. \A i \in 1 .. (Len(s) + 1) : Append(s, a)[i] = IF i = Len(s) + 1 THEN a ELSE s[i]
  OBVIOUS
<1>3. \A i : i \in 1 .. (Len(s) + 1) <=> i \in 1 .. Len(s) \/ i = Len(s) + 1
  BY <1>1
<1>4. Len(s) + 1 \notin 1 .. Len(s)
  BY <1>1
<1> DEFINE n == Len(s) + 1
<1> HIDE DEF n
<1>5. /\ DOMAIN Append(s, a) = DOMAIN s \cup {n} /\ n \notin DOMAIN s
      /\ \A i \in DOMAIN s : Append(s, a)[i] = s[i]
      /\ Append(s, a)[n] = a
  BY <1>1, <1>2, <1>3, <1>4 DEF n
<1> QED
  BY <1>5 DEF AuditIds

LEMMA CommitAgrees ==
  ASSUME TypeInv, Agreed(index, docs), NEW m, Write(m), WriteIndexes(m)
  PROVE  Agreed(index', docs')
<1>1. DOMAIN docs = Fields /\ docs.audits \in Seq(Audit)
  BY DEF TypeInv, DocsOK, IsRecord
<1>2. /\ index'.events = docs'.events
      /\ index'.objects = IdsOf(docs'.transactions)
      /\ IsRecord(index', {"events", "objects", "owned"})
  <2>1. /\ docs'.events = docs.events \cup m.events
        /\ docs'.transactions = docs.transactions \cup m.transactions
    BY <1>1, WriteIs
  <2> QED
    BY <2>1 DEF WriteIndexes, Agreed, IdsOf, IsRecord
<1>3. IsRecord(index'.owned, Kinds)
      /\ \A k \in Kinds : index'.owned[k] = index.owned[k] \cup Owned(m)[k]
  BY OwnedKindsAre DEF WriteIndexes, Own, IsRecord
<1>4. /\ Owned(m).events = IdsOf(m.events) /\ Owned(m).evidence = IdsOf(m.evidence)
      /\ Owned(m).audits = IF m.audit = NoAudit THEN {} ELSE {m.audit.trigger}
      /\ Owned(m).transactions = IdsOf(m.transactions) /\ Owned(m).requests = m.requests
      /\ Owned(m).receipts = {} /\ Owned(m).runs = {}
  BY OwnedKindsAre DEF Owned, NothingOwned, Kinds
<1> DEFINE o == OwnedDocs(docs)
           n == OwnedDocs(docs')
<1>5. index.owned = o
  BY DEF Agreed
<1>6. /\ IsRecord(n, Kinds)
      /\ o.events = IdsOf(docs.events) /\ n.events = IdsOf(docs'.events)
      /\ o.evidence = IdsOf(docs.evidence) /\ n.evidence = IdsOf(docs'.evidence)
      /\ o.audits = AuditIds(docs.audits) /\ n.audits = AuditIds(docs'.audits)
      /\ o.transactions = IdsOf(docs.transactions) /\ n.transactions = IdsOf(docs'.transactions)
      /\ o.requests = DOMAIN docs.requests /\ n.requests = DOMAIN docs'.requests
      /\ o.receipts = DOMAIN docs.receipts /\ n.receipts = DOMAIN docs'.receipts
      /\ o.runs = docs.runs /\ n.runs = docs'.runs
  BY OwnedDocsIs
<1> HIDE DEF o, n
<1>7. index'.owned.events = n.events /\ index'.owned.evidence = n.evidence
      /\ index'.owned.transactions = n.transactions
  <2>1. /\ docs'.events = docs.events \cup m.events
        /\ docs'.transactions = docs.transactions \cup m.transactions
        /\ docs'.evidence = docs.evidence \cup m.evidence
    BY <1>1, WriteIs
  <2>2. /\ IdsOf(docs'.events) = IdsOf(docs.events) \cup IdsOf(m.events)
        /\ IdsOf(docs'.transactions) = IdsOf(docs.transactions) \cup IdsOf(m.transactions)
        /\ IdsOf(docs'.evidence) = IdsOf(docs.evidence) \cup IdsOf(m.evidence)
    BY <2>1 DEF IdsOf
  <2> QED
    BY <1>3, <1>4, <1>5, <1>6, <2>2 DEF Kinds
<1>8. index'.owned.audits = n.audits
  <2>1. CASE m.audit = NoAudit
    <3>1. docs'.audits = docs.audits
      BY <1>1, <2>1, WriteIs
    <3> QED
      BY <1>3, <1>4, <1>5, <1>6, <2>1, <3>1 DEF Kinds
  <2>2. CASE m.audit # NoAudit
    <3>1. docs'.audits = Append(docs.audits, m.audit)
      BY <1>1, <2>2, WriteIs
    <3>2. AuditIds(docs'.audits) = AuditIds(docs.audits) \cup {m.audit.trigger}
      BY <1>1, <3>1, AuditIdsAppend
    <3> QED
      BY <1>3, <1>4, <1>5, <1>6, <2>2, <3>2 DEF Kinds
  <2> QED
    BY <2>1, <2>2
<1>9. index'.owned.requests = n.requests /\ index'.owned.receipts = n.receipts
      /\ index'.owned.runs = n.runs
  <2>1. /\ DOMAIN docs'.requests = DOMAIN docs.requests \cup m.requests
        /\ docs'.receipts = docs.receipts /\ docs'.runs = docs.runs
    BY <1>1, WriteIs
  <2> QED
    BY <1>3, <1>4, <1>5, <1>6, <2>1 DEF Kinds
<1>10. index'.owned = n
  <2>1. \A k \in Kinds : index'.owned[k] = n[k]
    BY <1>7, <1>8, <1>9 DEF Kinds
  <2> QED
    BY <1>3, <1>6, <2>1 DEF IsRecord
<1> QED
  BY <1>2, <1>10 DEF Agreed, IsRecord, n

NoIndexes == [events |-> {}, objects |-> {}, owned |-> NothingOwned]

\* A batch that nothing raced deletes everything there is.
LEMMA QuietBatch ==
  ASSUME TypeInv, AgreeInv, NEW p \in Processes, DeleteBatch(p), ~raced'
  PROVE  docs' = EmptySnapshot /\ index' = NoIndexes
<1> DEFINE plan == process[p]
<1>1. /\ plan.docs = docs /\ plan.index = index /\ Agreed(index, docs)
      /\ docs' = DocumentsLeft(plan) /\ index' = IndexesLeft(plan)
  BY DEF DeleteBatch, AgreeInv
<1>2. docs' = EmptySnapshot
  <2>1. /\ IsRecord(docs', Fields) /\ docs'.kase = CaseLeft(plan)
        /\ docs'.events = {} /\ docs'.evidence = {} /\ docs'.transactions = {} /\ docs'.runs = {}
        /\ docs'.claims = { c \in docs.claims : c.id \notin IdsOf(docs.claims) }
        /\ docs'.audits = KeptAudits(docs.audits, AuditIds(docs.audits))
        /\ docs'.requests = Without(docs.requests, DOMAIN docs.requests)
        /\ docs'.receipts = Without(docs.receipts, DOMAIN docs.receipts)
    <3>1. /\ IsRecord(docs', Fields) /\ docs'.kase = CaseLeft(plan)
          /\ docs'.events = docs.events \ plan.docs.events
          /\ docs'.evidence = docs.evidence \ plan.docs.evidence
          /\ docs'.claims = { c \in docs.claims : c.id \notin IdsOf(plan.docs.claims) }
          /\ docs'.transactions = docs.transactions \ plan.docs.transactions
          /\ docs'.audits = KeptAudits(docs.audits, AuditIds(plan.docs.audits))
          /\ docs'.requests = Without(docs.requests, DOMAIN plan.docs.requests)
          /\ docs'.receipts = Without(docs.receipts, DOMAIN plan.docs.receipts)
          /\ docs'.runs = docs.runs \ plan.docs.runs
      BY <1>1, DocumentsLeftIs
    <3>2. plan.docs = docs
      BY <1>1
    <3> HIDE DEF plan
    <3> QED
      BY <3>1, <3>2
  <2>2. docs'.kase = NoCase
    BY <1>1, <2>1 DEF CaseLeft
  <2>3. docs'.claims = {}
    BY <2>1 DEF IdsOf
  <2>4. docs'.audits = <<>>
    BY <2>1, KeptNone DEF AuditIds
  <2>5. \A f : Without(f, DOMAIN f) = [v \in {} |-> NewRequest]
    BY DEF Without
  <2>6. \A f \in Fields : docs'[f] = EmptySnapshot[f]
    BY <2>1, <2>2, <2>3, <2>4, <2>5, EmptyIs DEF Fields
  <2> QED
    BY <2>1, <2>6, EmptyIs DEF IsRecord
<1>3. index' = NoIndexes
  <2>1. index'.events = {} /\ index'.objects = {}
        /\ IsRecord(index', {"events", "objects", "owned"})
    BY <1>1 DEF IndexesLeft, IsRecord
  <2>2. index'.owned = NothingOwned
    BY <1>1 DEF IndexesLeft, NothingOwned
  <2> QED
    BY <2>1, <2>2 DEF NoIndexes, IsRecord
<1> QED
  BY <1>2, <1>3

LEMMA EmptyAgrees == Agreed(NoIndexes, EmptySnapshot)
<1>1. IsRecord(OwnedDocs(EmptySnapshot), Kinds)
      /\ \A k \in Kinds : OwnedDocs(EmptySnapshot)[k] = {}
  BY EmptyIs, OwnedDocsIs DEF Kinds, IdsOf, AuditIds
<1>2. OwnedDocs(EmptySnapshot) = NothingOwned
  BY <1>1, OwnedKindsAre DEF NothingOwned, IsRecord
<1> QED
  BY <1>2, EmptyIs DEF Agreed, NoIndexes, IdsOf

LEMMA OwnedDocsDiffer ==
  ASSUME NEW d, NEW e, NEW k \in {"receipts", "runs"}, DOMAIN d = Fields, DOMAIN e = Fields,
         \A f \in Fields : f # k => d[f] = e[f]
  PROVE  /\ d.events = e.events /\ IdsOf(d.transactions) = IdsOf(e.transactions)
         /\ \A j \in Kinds : j # k => OwnedDocs(d)[j] = OwnedDocs(e)[j]
         /\ IsRecord(OwnedDocs(d), Kinds) /\ IsRecord(OwnedDocs(e), Kinds)
<1>1. /\ d.events = e.events /\ d.evidence = e.evidence /\ d.audits = e.audits
      /\ d.transactions = e.transactions /\ d.requests = e.requests
      /\ k # "receipts" => d.receipts = e.receipts
      /\ k # "runs" => d.runs = e.runs
  BY DEF Fields
<1> QED
  BY <1>1, OwnedDocsIs DEF Kinds

LEMMA PartnerAgrees ==
  ASSUME TypeInv, Agreed(index, docs), NEW r \in PartnerRequests,
         CreatePartnerRequest(r) \/ UpdatePartnerReceipt(r)
  PROVE  Agreed(index', docs')
<1>1. /\ DOMAIN docs = Fields /\ DOMAIN docs' = Fields
      /\ \A f \in Fields : f # "receipts" => docs[f] = docs'[f]
  BY DEF CreatePartnerRequest, UpdatePartnerReceipt, TypeInv, DocsOK, IsRecord
<1>2. /\ docs.events = docs'.events /\ IdsOf(docs.transactions) = IdsOf(docs'.transactions)
      /\ \A j \in Kinds : j # "receipts" => OwnedDocs(docs)[j] = OwnedDocs(docs')[j]
      /\ IsRecord(OwnedDocs(docs), Kinds) /\ IsRecord(OwnedDocs(docs'), Kinds)
  BY <1>1, OwnedDocsDiffer
<1>3. OwnedDocs(docs).receipts = DOMAIN docs.receipts
      /\ OwnedDocs(docs').receipts = DOMAIN docs'.receipts
  BY OwnedDocsIs
<1>4. ASSUME CreatePartnerRequest(r) PROVE Agreed(index', docs')
  <2>1. DOMAIN docs'.receipts = DOMAIN docs.receipts \cup {r}
    BY <1>1, <1>4 DEF CreatePartnerRequest, Fields
  <2>2. /\ index.owned = OwnedDocs(docs) /\ DOMAIN index.owned = Kinds
        /\ index.events = docs.events /\ index.objects = IdsOf(docs.transactions)
    BY <1>2 DEF Agreed, IsRecord
  <2>3. /\ IsRecord(index', {"events", "objects", "owned"})
        /\ index'.events = index.events /\ index'.objects = index.objects
        /\ index'.owned = [index.owned EXCEPT !.receipts = @ \cup {r}]
    BY <1>4 DEF CreatePartnerRequest, IsRecord, TypeInv, IndexOK
  <2>4. IsRecord(index'.owned, Kinds) /\ \A j \in Kinds : index'.owned[j] = OwnedDocs(docs')[j]
    BY <1>2, <1>3, <2>1, <2>2, <2>3 DEF IsRecord, Kinds
  <2>5. index'.owned = OwnedDocs(docs')
    BY <1>2, <2>4 DEF IsRecord
  <2> QED
    BY <1>2, <2>2, <2>3, <2>5 DEF Agreed, IsRecord
<1>5. ASSUME UpdatePartnerReceipt(r) PROVE Agreed(index', docs')
  <2>1. DOMAIN docs'.receipts = DOMAIN docs.receipts /\ index' = index
    BY <1>1, <1>5 DEF UpdatePartnerReceipt, Fields
  <2>2. \A j \in Kinds : OwnedDocs(docs)[j] = OwnedDocs(docs')[j]
    BY <1>2, <1>3, <2>1
  <2>3. OwnedDocs(docs) = OwnedDocs(docs')
    BY <1>2, <2>2 DEF IsRecord
  <2> QED
    BY <1>2, <2>1, <2>3 DEF Agreed
<1> QED
  BY <1>4, <1>5

LEMMA AppendAgrees ==
  ASSUME TypeInv, Agreed(index, docs), NEW p \in Processes, AppendBaselineRun(p)
  PROVE  Agreed(index', docs')
<1>1. CASE UNCHANGED <<docs, index>>
  BY <1>1
<1>2. CASE ~UNCHANGED <<docs, index>>
  <2>1. /\ docs' = [docs EXCEPT !.runs = @ \cup {"baseline"}]
        /\ index' = [index EXCEPT !.owned.runs = @ \cup {"baseline"}]
    BY <1>2 DEF AppendBaselineRun
  <2>2. /\ DOMAIN docs = Fields /\ DOMAIN docs' = Fields
        /\ \A f \in Fields : f # "runs" => docs[f] = docs'[f]
        /\ docs'.runs = docs.runs \cup {"baseline"}
    BY <2>1 DEF TypeInv, DocsOK, IsRecord, Fields
  <2>3. /\ docs.events = docs'.events /\ IdsOf(docs.transactions) = IdsOf(docs'.transactions)
        /\ \A j \in Kinds : j # "runs" => OwnedDocs(docs)[j] = OwnedDocs(docs')[j]
        /\ IsRecord(OwnedDocs(docs), Kinds) /\ IsRecord(OwnedDocs(docs'), Kinds)
    BY <2>2, OwnedDocsDiffer
  <2>4. OwnedDocs(docs).runs = docs.runs /\ OwnedDocs(docs').runs = docs'.runs
    BY OwnedDocsIs
  <2>5. /\ index.owned = OwnedDocs(docs)
        /\ index.events = docs.events /\ index.objects = IdsOf(docs.transactions)
    BY DEF Agreed
  <2>6. /\ IsRecord(index', {"events", "objects", "owned"})
        /\ index'.events = index.events /\ index'.objects = index.objects
        /\ index'.owned = [index.owned EXCEPT !.runs = @ \cup {"baseline"}]
    BY <2>1 DEF IsRecord, TypeInv, IndexOK
  <2>7. IsRecord(index'.owned, Kinds) /\ \A j \in Kinds : index'.owned[j] = OwnedDocs(docs')[j]
    BY <2>2, <2>3, <2>4, <2>5, <2>6 DEF IsRecord, Kinds
  <2>8. index'.owned = OwnedDocs(docs')
    BY <2>3, <2>7 DEF IsRecord
  <2> QED
    BY <2>3, <2>5, <2>6, <2>8 DEF Agreed, IsRecord
<1> QED
  BY <1>1, <1>2

\* A process that changes no document, or that nobody races.
LEMMA AgreeQuiet ==
  ASSUME TypeInv, AgreeInv, NEW p \in Processes, NEW n, Become(p, n),
         n.pc = "deleting" => n.docs = docs /\ n.index = index,
         UNCHANGED <<docs, index, raced>>
  PROVE  AgreeInv'
<1>1. \A q \in Processes : process'[q] = IF q = p THEN n ELSE process[q]
  BY DEF TypeInv, Become
<1>2. ASSUME ~raced'
      PROVE  /\ Agreed(index', docs')
             /\ \A q \in Processes : process'[q].pc = "deleting" =>
                  process'[q].docs = docs' /\ process'[q].index = index'
  BY <1>1, <1>2 DEF AgreeInv
<1> QED
  BY <1>2 DEF AgreeInv

LEMMA AgreeAlone ==
  ASSUME TypeInv, AgreeInv, NEW p \in Processes, NEW n, Become(p, n), n.pc # "deleting",
         ~raced' => ~raced /\ \A q \in Processes \ {p} : ~InReset(q),
         ~raced' => Agreed(index', docs')
  PROVE  AgreeInv'
<1>1. \A q \in Processes : process'[q] = IF q = p THEN n ELSE process[q]
  BY DEF TypeInv, Become
<1>2. ASSUME ~raced', NEW q \in Processes PROVE process'[q].pc # "deleting"
  BY <1>1, <1>2 DEF InReset
<1> QED
  BY <1>2 DEF AgreeInv

LEMMA AgreeKept == TypeInv /\ FreshInv /\ AgreeInv /\ [Next]_vars => AgreeInv'
<1> SUFFICES ASSUME TypeInv, FreshInv, AgreeInv, [Next]_vars PROVE AgreeInv'
  OBVIOUS
<1>1. ASSUME NEW p \in Processes, NEW task, TaskOK(task), Start(p, task),
             task.kind = "seed" => task.step = 1
      PROVE  AgreeInv'
  <2>1. PICK n \in AfterRead(Loading(task)) : Become(p, n)
    BY <1>1 DEF Start
  <2>2. n.pc # "deleting"
    BY <1>1, <2>1, StartReads
  <2> QED
    BY <1>1, <2>1, <2>2, AgreeQuiet DEF Start
<1>2. ASSUME NEW p \in Processes, Read(p) PROVE AgreeInv'
  <2>1. PICK n \in AfterRead(process[p]) : Become(p, n)
    BY <1>2 DEF Read
  <2>2. n.pc # "deleting"
    BY <1>2, <2>1, ReadReads DEF Read
  <2> QED
    BY <1>2, <2>1, <2>2, AgreeQuiet DEF Read
<1>3. ASSUME NEW p \in Processes, Commit(p) PROVE AgreeInv'
  <2> DEFINE l == process[p]
             m == process[p].mutation
             n == IF l.task.kind = "seed" THEN Throw(l) ELSE Idle
  <2>1. PlannedOK(l)
    BY <1>3 DEF Commit, TypeInv, LocalOK, LoadingOK, PlannedOK
  <2>2. CASE CommitAnswer(m) = "COMMITTED"
    <3>1. /\ Write(m) /\ WriteIndexes(m) /\ Become(p, Committed(l))
          /\ raced' = (raced \/ Resetting(p)) /\ resets' = resets /\ l.pc = "planned"
      BY <1>3, <2>2 DEF Commit
    <3>2. Committed(l).pc # "deleting"
      <4>1. LocalOK(Committed(l)) /\ Committed(l).pc \in {"idle", "loading", "ended", "verifying"}
        BY <2>1, <2>2, <3>1, CommittedOK, EndsAreOK DEF Committed, Idle, Return, Loading, PlannedOK, IsRecord
      <4> QED
        BY <4>1
    <3>3. ~raced' => ~raced /\ \A q \in Processes \ {p} : ~InReset(q)
      BY <3>1 DEF Resetting
    <3>4. ~raced' => Agreed(index', docs')
      BY <3>1, <3>3, CommitAgrees DEF AgreeInv
    <3> QED
      BY <3>1, <3>2, <3>3, <3>4, AgreeAlone
  <2>3. CASE CommitAnswer(m) # "COMMITTED"
    <3>1. Become(p, n) /\ UNCHANGED <<docs, index, raced>>
      BY <1>3, <2>3 DEF Commit
    <3>2. n.pc # "deleting"
      BY <2>1, EndsAreOK
    <3> HIDE DEF n
    <3> QED
      BY <3>1, <3>2, AgreeQuiet
  <2> QED
    BY <2>2, <2>3
<1>4. ASSUME NEW p \in Processes, PlanReset(p) PROVE AgreeInv'
  <2>1. PICK n \in {Idle, [pc |-> "deleting", docs |-> docs, index |-> index]} : Become(p, n)
    BY <1>4 DEF PlanReset
  <2>2. n.pc = "deleting" => n.docs = docs /\ n.index = index
    BY <2>1 DEF Idle
  <2> QED
    BY <1>4, <2>1, <2>2, AgreeQuiet DEF PlanReset
<1>5. ASSUME NEW p \in Processes, VerifyReset(p) \/ LeaveReset(p) \/ Crash(p) PROVE AgreeInv'
  <2>1. UNCHANGED <<docs, index, raced>>
    BY <1>5 DEF VerifyReset, LeaveReset, Crash
  <2>2. "pc" \in DOMAIN process[p]
    BY DEF TypeInv, LocalOK, LoadingOK, PlannedOK, IsRecord
  <2>3. PICK n \in {Idle, [process[p] EXCEPT !.pc = "appending"], Ended(FALSE)} : Become(p, n)
    BY <1>5 DEF VerifyReset, LeaveReset, Crash
  <2>4. n.pc # "deleting"
    BY <2>2, <2>3 DEF Idle, Ended
  <2> QED
    BY <2>1, <2>3, <2>4, AgreeQuiet
<1>6. ASSUME NEW p \in Processes, DeleteBatch(p) PROVE AgreeInv'
  <2>1. PICK n : Become(p, n) /\ n.pc = "loading"
    <3> DEFINE n == [Loading(SeedStep(1)) EXCEPT !.since = resets', !.reset = TRUE]
    <3>1. Become(p, n)
      BY <1>6 DEF DeleteBatch, SeedStep
    <3>2. n.pc = "loading"
      BY DEF Loading
    <3> HIDE DEF n
    <3> QED
      BY <3>1, <3>2
  <2>2. ~raced' => ~raced /\ \A q \in Processes \ {p} : ~InReset(q)
    BY <1>6 DEF DeleteBatch, Resetting
  <2>3. ~raced' => Agreed(index', docs')
    BY <1>6, QuietBatch, EmptyAgrees
  <2> QED
    BY <2>1, <2>2, <2>3, AgreeAlone
<1>7. ASSUME NEW p \in Processes, AppendBaselineRun(p) PROVE AgreeInv'
  <2>1. PICK n : Become(p, n) /\ n.pc = "ended"
    BY <1>7 DEF AppendBaselineRun, Ended
  <2>2. ~raced' => ~raced /\ \A q \in Processes \ {p} : ~InReset(q)
    BY <1>7 DEF AppendBaselineRun, Resetting
  <2>3. ~raced' => Agreed(index', docs')
    BY <1>7, <2>2, AppendAgrees DEF AgreeInv
  <2> QED
    BY <2>1, <2>2, <2>3, AgreeAlone
<1>8. ASSUME NEW r \in PartnerRequests, CreatePartnerRequest(r) \/ UpdatePartnerReceipt(r)
      PROVE  AgreeInv'
  <2>1. process' = process /\ raced' = (raced \/ \E q \in Processes : InReset(q))
    BY <1>8 DEF CreatePartnerRequest, UpdatePartnerReceipt
  <2>2. ASSUME ~raced'
        PROVE  Agreed(index', docs') /\ \A q \in Processes : process'[q].pc # "deleting"
    BY <1>8, <2>1, <2>2, PartnerAgrees DEF AgreeInv, InReset
  <2> QED
    BY <2>2 DEF AgreeInv
<1>9. CASE UNCHANGED vars
  BY <1>9 DEF vars, AgreeInv
<1>10. ASSUME NEW p \in Processes, Deliver(p) \/ Evaluate(p) \/ SeedDemo(p) PROVE AgreeInv'
  <2>1. PICK task : /\ TaskOK(task) /\ Start(p, task)
                    /\ task.kind = "seed" => task.step = 1
    BY <1>10, StartIs
  <2> QED
    BY <1>1, <2>1
<1> QED
  BY <1>2, <1>3, <1>4, <1>5, <1>6, <1>7, <1>8, <1>9, <1>10 DEF Next

LEMMA AlwaysAgreed == Spec => []AgreeInv
<1>1. Init => AgreeInv
  <2> SUFFICES ASSUME Init PROVE AgreeInv
    OBVIOUS
  <2>1. Agreed(index, docs) /\ \A p \in Processes : process[p] = Idle
    BY EmptyAgrees DEF Init, NoIndexes
  <2> QED
    BY <2>1 DEF AgreeInv, Idle
<1> QED
  BY <1>1, AgreeKept, AlwaysTyped, PTL DEF Spec

\* Until a commit falls into a reset, the three index collections name exactly the documents
\* that exist: for every sequence of commits, partner requests and resets.
THEOREM IndexesAgreeHolds == Spec => []IndexesAgree
<1>1. AgreeInv => IndexesAgree
  BY DEF AgreeInv, IndexesAgree, Agreed
<1> QED
  BY <1>1, AlwaysAgreed, PTL

(***************************************************************************)
(* The seed.  At stage k the case is as the seed leaves it before its step *)
(* k; at stage 5 the seed is done.  Receipts and agent runs are left out.  *)
(***************************************************************************)
StageState(k) ==
  IF k = 2 THEN "NEW" ELSE IF k = 5 THEN "INVESTIGATING" ELSE "EVIDENCE_COLLECTION"

StageKase(k) ==
  IF k = 1 THEN NoCase
  ELSE [state |-> StageState(k), version |-> k - 1, parties |-> {"customer", "merchant"},
        stamped |-> {}]

IntakeAudit == SeedAudit(IntakeEvent, "NEW", "EVIDENCE_COLLECTION", {})
EvidenceAudit ==
  SeedAudit(EvidenceEvent, "EVIDENCE_COLLECTION", "INVESTIGATING", {EvidenceEvent.id})

AtStage(k, d) ==
  /\ d.kase = StageKase(k)
  /\ d.events = IF k <= 2 THEN {} ELSE IF k = 3 THEN {IntakeEvent} ELSE SeedEvents
  /\ d.evidence = IF k <= 3 THEN {} ELSE SeededCase.evidence
  /\ d.claims = IF k <= 3 THEN {} ELSE SeededCase.claims
  /\ d.transactions = {}
  /\ d.audits = IF k <= 2 THEN <<>> ELSE IF k <= 4 THEN <<IntakeAudit>>
                ELSE <<IntakeAudit, EvidenceAudit>>
  /\ d.requests = [v \in {} |-> NewRequest]

SeedEvidence ==
  [id |-> EvidenceEvent.id, type |-> "COMMUNICATION",
   source |-> "LOCAL_DEMO_FIXTURE", level |-> "AUTHENTICATED_SOURCE",
   requested |-> "NONE", status |-> "NONE", about |-> {<<"seed", <<"refund", "processed">>>>}]

SeedClaim ==
  [id |-> <<"seed", <<"refund", "processed">>>>, claimant |-> "merchant",
   source |-> EvidenceEvent.id, status |-> "UNVERIFIED", evidence |-> {EvidenceEvent.id}]

LEMMA SeededIs ==
  /\ SeededCase.evidence = {SeedEvidence} /\ SeededCase.claims = {SeedClaim}
  /\ SeededCase.events = SeedEvents /\ SeededCase.transactions = {}
  /\ SeededCase.audits = <<IntakeAudit, EvidenceAudit>>
  /\ SeededCase.requests = [v \in {} |-> NewRequest]
  /\ SeededCase.kase = StageKase(5)
  BY DEF SeededCase, SeedEvidence, SeedClaim, SeedEvents, IntakeAudit, EvidenceAudit, StageKase,
         StageState

LEMMA SeedIds ==
  /\ IntakeEvent.id # EvidenceEvent.id /\ IntakeEvent # EvidenceEvent
  /\ IntakeEvent.kind = "CASE_INTAKE_STARTED" /\ EvidenceEvent.kind = "INITIAL_EVIDENCE_RECORDED"
  /\ IntakeAudit.trigger = IntakeEvent.id /\ EvidenceAudit.trigger = EvidenceEvent.id
  BY DEF IntakeEvent, EvidenceEvent, CaseEvent, IntakeAudit, EvidenceAudit, SeedAudit

LEMMA StageKaseIs ==
  ASSUME NEW k \in 1 .. 5
  PROVE  /\ StageKase(k).version = k - 1
         /\ k # 1 => /\ StageKase(k).state = StageState(k) /\ StageKase(k) # NoCase
                     /\ StageKase(k) \in CaseRecord
                     /\ StageKase(k).parties = {"customer", "merchant"}
  BY DEF StageKase, NoCase, StageState, CaseRecord, CaseState, Party

LEMMA StageOfSnapshot ==
  ASSUME NEW k \in 1 .. 5, NEW d, AtStage(k, d)
  PROVE  AtStage(k, SnapshotOf(d)) /\ SnapshotOf(d).kase = d.kase
<1>1. CASE k = 1
  <2>1. d.kase = NoCase
    BY <1>1 DEF AtStage, StageKase
  <2>2. AtStage(k, EmptySnapshot)
    BY <1>1, EmptyIs DEF AtStage, StageKase
  <2> QED
    BY <2>1, <2>2, EmptyIs DEF SnapshotOf
<1>2. CASE k # 1
  <2>1. d.kase # NoCase
    BY <1>2, StageKaseIs DEF AtStage
  <2> QED
    BY <2>1 DEF SnapshotOf
<1> QED
  BY <1>1, <1>2

\* The transitions of the seed are declared.
LEMMA SeedRules ==
  ASSUME NEW kase, NEW target, NEW kind, NEW cited,
         \/ kase.state = "NEW" /\ target = "EVIDENCE_COLLECTION" /\ kind = "CASE_INTAKE_STARTED"
         \/ /\ kase.state = "EVIDENCE_COLLECTION" /\ target = "INVESTIGATING"
            /\ kind = "INITIAL_EVIDENCE_RECORDED"
  PROVE  TransitionAllowed(kase, target, kind, cited)
<1>1. Rule("NEW", "EVIDENCE_COLLECTION", {"CASE_INTAKE_STARTED"}) \in TransitionMatrix
  BY DEF TransitionMatrix
<1>2. Rule("EVIDENCE_COLLECTION", "INVESTIGATING", {"INITIAL_EVIDENCE_RECORDED"}) \in TransitionMatrix
  BY DEF TransitionMatrix
<1> QED
  BY <1>1, <1>2 DEF TransitionAllowed, Rule

LEMMA RulesFrom ==
  /\ \A rule \in TransitionMatrix :
       rule.to = "EVIDENCE_COLLECTION" => rule.from = "NEW"
  /\ \A rule \in TransitionMatrix :
       rule.to = "INVESTIGATING" => rule.from # "INVESTIGATING"
  BY DEF TransitionMatrix, Rule

LEMMA StagePlans ==
  ASSUME NEW k \in 1 .. 4, NEW b, b.kase = StageKase(k) \/ k = 1
  PROVE  SeedPlans(k, b) # {}
<1>1. CASE k = 1
  BY <1>1 DEF SeedPlans
<1>2. CASE k = 2
  <2>1. TransitionAllowed(b.kase, "EVIDENCE_COLLECTION", IntakeEvent.kind, {})
    BY <1>2, StageKaseIs, SeedIds, SeedRules DEF StageState
  <2> QED
    BY <1>2, <2>1 DEF SeedPlans
<1>3. CASE k = 3
  BY <1>3 DEF SeedPlans
<1>4. CASE k = 4
  <2>1. TransitionAllowed(b.kase, "INVESTIGATING", EvidenceEvent.kind, {EvidenceEvent.id})
    BY <1>4, StageKaseIs, SeedIds, SeedRules DEF StageState
  <2> QED
    BY <1>4, <2>1 DEF SeedPlans
<1> QED
  BY <1>1, <1>2, <1>3, <1>4

\* What the seed's step k writes at stage k.
StagePlan(k, m) ==
  /\ m.expected = k - 1 /\ m.kase = StageKase(k + 1)
  /\ m.events = IF k = 2 THEN {IntakeEvent} ELSE IF k = 3 THEN {EvidenceEvent} ELSE {}
  /\ m.evidence = IF k = 3 THEN {SeedEvidence} ELSE {}
  /\ m.claims = IF k = 3 THEN {SeedClaim} ELSE {}
  /\ m.transactions = {} /\ m.requests = {}
  /\ m.audit = IF k = 2 THEN IntakeAudit ELSE IF k = 4 THEN EvidenceAudit ELSE NoAudit

LEMMA TransitionIs ==
  ASSUME NEW kase, NEW target \in SeedTargets, kase.state # "RESOLVED", kase.stamped = {},
         IsRecord(kase, {"state", "version", "parties", "stamped"})
  PROVE  LET t == TransitionedCase(kase, target) IN
         /\ IsRecord(t, {"state", "version", "parties", "stamped"})
         /\ t.state = target /\ t.version = kase.version + 1 /\ t.parties = kase.parties
         /\ t.stamped = {}
<1> DEFINE stamped == (kase.stamped \cup (CASE target = "RESOLVED" -> {"resolvedAt"}
                                           [] target = "CLOSED"   -> {"closedAt"}
                                           [] OTHER               -> {}))
                        \ (IF kase.state = "RESOLVED" /\ target = "INVESTIGATING"
                             THEN {"resolvedAt"} ELSE {})
           t == TransitionedCase(kase, target)
<1>1. stamped = {}
  BY DEF SeedTargets
<1>2. t = [kase EXCEPT !.state = target, !.version = @ + 1, !.stamped = stamped]
  BY DEF TransitionedCase
<1> HIDE DEF stamped, t
<1>3. /\ IsRecord(t, {"state", "version", "parties", "stamped"})
      /\ t.state = target /\ t.version = kase.version + 1 /\ t.parties = kase.parties
      /\ t.stamped = stamped
  BY <1>2 DEF IsRecord
<1> QED
  BY <1>1, <1>3 DEF t

LEMMA StageTransition ==
  ASSUME NEW k \in {2, 4}
  PROVE  TransitionedCase(StageKase(k), StageState(k + 1)) = StageKase(k + 1)
<1> DEFINE kase == StageKase(k)
           next == StageKase(k + 1)
           t == TransitionedCase(kase, StageState(k + 1))
<1>1. /\ IsRecord(kase, {"state", "version", "parties", "stamped"}) /\ kase.state # "RESOLVED"
      /\ kase.stamped = {} /\ kase.version = k - 1 /\ kase.parties = {"customer", "merchant"}
  BY DEF StageKase, StageState, IsRecord
<1>2. /\ IsRecord(next, {"state", "version", "parties", "stamped"})
      /\ next.state = StageState(k + 1) /\ next.stamped = {} /\ next.version = k
      /\ next.parties = {"customer", "merchant"}
  BY DEF StageKase, StageState, IsRecord
<1>3. StageState(k + 1) \in SeedTargets /\ kase.version + 1 = k
  BY <1>1 DEF StageState, SeedTargets
<1> HIDE DEF kase, next
<1>4. /\ IsRecord(t, {"state", "version", "parties", "stamped"})
      /\ t.state = StageState(k + 1) /\ t.version = kase.version + 1 /\ t.parties = kase.parties
      /\ t.stamped = {}
  BY <1>1, <1>3, TransitionIs
<1> HIDE DEF t
<1>5. \A f \in {"state", "version", "parties", "stamped"} : t[f] = next[f]
  BY <1>1, <1>2, <1>3, <1>4
<1>6. t = next
  BY <1>2, <1>4, <1>5 DEF IsRecord
<1> QED
  BY <1>6 DEF t, kase, next

LEMMA StagePlanIs ==
  ASSUME NEW k \in 1 .. 4, NEW d, AtStage(k, d), NEW m \in SeedPlans(k, d)
  PROVE  StagePlan(k, m)
<1>1. CASE k = 1
  <2>1. m = Mutation(0, InitialCase, {}, {}, {}, {}, NoAudit, {})
    BY <1>1 DEF SeedPlans
  <2>2. InitialCase = StageKase(2)
    BY DEF InitialCase, StageKase, StageState
  <2> QED
    BY <1>1, <2>1, <2>2 DEF Mutation, StagePlan
<1>2. CASE k = 2
  <2>1. m = SeedTransition(d, "EVIDENCE_COLLECTION", IntakeEvent, {})
    BY <1>2 DEF SeedPlans
  <2>2. /\ d.kase = StageKase(2) /\ d.kase.version = 1 /\ d.kase.state = "NEW" /\ d.events = {}
    BY <1>2, StageKaseIs DEF AtStage, StageState
  <2>3. TransitionedCase(d.kase, "EVIDENCE_COLLECTION") = StageKase(3)
    BY <2>2, StageTransition DEF StageState
  <2>4. IntakeEvent.id \notin IdsOf(d.events)
    BY <2>2 DEF IdsOf
  <2>5. TransitionAudit(d.kase, "EVIDENCE_COLLECTION", IntakeEvent, {}) = IntakeAudit
    BY <2>2 DEF TransitionAudit, IntakeAudit, SeedAudit
  <2> QED
    BY <1>2, <2>1, <2>2, <2>3, <2>4, <2>5 DEF SeedTransition, Mutation, StagePlan
<1>3. CASE k = 3
  <2>1. m = Mutation(d.kase.version, [d.kase EXCEPT !.version = @ + 1], {EvidenceEvent},
                     SeededCase.evidence, SeededCase.claims, {}, NoAudit, {})
    BY <1>3 DEF SeedPlans
  <2>2. d.kase = StageKase(3) /\ d.kase.version = 2
    BY <1>3, StageKaseIs DEF AtStage
  <2>3. [d.kase EXCEPT !.version = @ + 1] = StageKase(4)
    BY <2>2 DEF StageKase, StageState
  <2> QED
    BY <1>3, <2>1, <2>2, <2>3, SeededIs DEF Mutation, StagePlan
<1>4. CASE k = 4
  <2>1. m = SeedTransition(d, "INVESTIGATING", EvidenceEvent, {EvidenceEvent.id})
    BY <1>4 DEF SeedPlans
  <2>2. /\ d.kase = StageKase(4) /\ d.kase.version = 3 /\ d.kase.state = "EVIDENCE_COLLECTION"
        /\ d.events = SeedEvents
    BY <1>4, StageKaseIs DEF AtStage, StageState
  <2>3. TransitionedCase(d.kase, "INVESTIGATING") = StageKase(5)
    BY <2>2, StageTransition DEF StageState
  <2>4. EvidenceEvent.id \in IdsOf(d.events)
    BY <2>2 DEF IdsOf, SeedEvents
  <2>5. TransitionAudit(d.kase, "INVESTIGATING", EvidenceEvent, {EvidenceEvent.id}) = EvidenceAudit
    BY <2>2 DEF TransitionAudit, EvidenceAudit, SeedAudit
  <2> QED
    BY <1>4, <2>1, <2>2, <2>3, <2>4, <2>5 DEF SeedTransition, Mutation, StagePlan
<1> QED
  BY <1>1, <1>2, <1>3, <1>4

\* The store finds nothing against it.
LEMMA StageRefers ==
  ASSUME NEW k \in 1 .. 4, NEW d, AtStage(k, d), NEW m, StagePlan(k, m)
  PROVE  /\ RecordsRefer(d, m)
         /\ \A a \in { d.audits[i] : i \in DOMAIN d.audits } :
              a.trigger \in IdsOf(d.events) /\ a.evidence \subseteq IdsOf(d.evidence)
<1>0. k \in 1 .. 4 /\ (k = 1 \/ k = 2 \/ k = 3 \/ k = 4)
  OBVIOUS
<1>1. CASE k <= 2
  <2>1. /\ d.claims = {} /\ d.evidence = {} /\ d.transactions = {} /\ d.audits = <<>>
        /\ m.claims = {} /\ m.evidence = {} /\ m.transactions = {}
    BY <1>0, <1>1 DEF AtStage, StagePlan
  <2>2. UpsertClaims(d.claims, m.claims) = {}
    BY <2>1 DEF UpsertClaims
  <2> QED
    BY <2>1, <2>2 DEF RecordsRefer
<1>2. CASE k = 3 \/ k = 4
  <2>1. /\ UpsertClaims(d.claims, m.claims) = {SeedClaim}
        /\ d.evidence \cup m.evidence = {SeedEvidence}
        /\ d.transactions \cup m.transactions = {}
        /\ EvidenceEvent \in d.events \cup m.events /\ IntakeEvent \in d.events
        /\ m.kase.parties = {"customer", "merchant"}
    <3>1. CASE k = 3
      <4>1. /\ d.claims = {} /\ d.evidence = {} /\ d.transactions = {} /\ d.events = {IntakeEvent}
            /\ m.claims = {SeedClaim} /\ m.evidence = {SeedEvidence} /\ m.transactions = {}
            /\ m.events = {EvidenceEvent} /\ m.kase = StageKase(4)
        BY <3>1 DEF AtStage, StagePlan
      <4> QED
        BY <4>1, StageKaseIs DEF UpsertClaims, IdsOf
    <3>2. CASE k = 4
      <4>1. /\ d.claims = {SeedClaim} /\ d.evidence = {SeedEvidence} /\ d.transactions = {}
            /\ d.events = SeedEvents /\ m.claims = {} /\ m.evidence = {} /\ m.transactions = {}
            /\ m.kase = StageKase(5)
        BY <3>2, SeededIs DEF AtStage, StagePlan
      <4> QED
        BY <4>1, StageKaseIs DEF UpsertClaims, IdsOf, SeedEvents
    <3> QED
      BY <1>2, <3>1, <3>2
  <2>2. /\ EvidenceEvent.id \in IdsOf(d.events \cup m.events) /\ IntakeEvent.id \in IdsOf(d.events)
        /\ IdsOf({SeedEvidence}) = {EvidenceEvent.id} /\ IdsOf({SeedClaim}) = {SeedClaim.id}
    BY <2>1 DEF IdsOf, SeedEvidence
  <2>3. RecordsRefer(d, m)
    <3>1. /\ SeedClaim.claimant = "merchant" /\ SeedClaim.source = EvidenceEvent.id
          /\ SeedClaim.evidence = {EvidenceEvent.id} /\ SeedEvidence.about = {SeedClaim.id}
      BY DEF SeedClaim, SeedEvidence
    <3> QED
      BY <2>1, <2>2, <3>1 DEF RecordsRefer
  <2>4. d.audits = <<IntakeAudit>>
    BY <1>2 DEF AtStage
  <2>5. { d.audits[i] : i \in DOMAIN d.audits } = {IntakeAudit}
    BY <2>4
  <2>6. IntakeAudit.trigger = IntakeEvent.id /\ IntakeAudit.evidence = {}
    BY DEF IntakeAudit, SeedAudit
  <2> QED
    BY <2>2, <2>3, <2>5, <2>6
<1> QED
  BY <1>0, <1>1, <1>2

LEMMA StageValidated ==
  ASSUME NEW k \in 1 .. 4, NEW d, AtStage(k, d), NEW m, StagePlan(k, m)
  PROVE  Validated(d, m) = "COMMITTED"
<1>0. k = 1 \/ k = 2 \/ k = 3 \/ k = 4
  OBVIOUS
<1>1. VersionMatches(d, m)
  <2>1. d.kase.version = k - 1 /\ m.kase.version = k /\ m.expected = k - 1
    BY StageKaseIs DEF AtStage, StagePlan
  <2> QED
    BY <2>1 DEF VersionMatches
<1>2. ~HasDuplicateEventId(d, m)
  <2>1. \/ m.events = {} \/ d.events = {}
        \/ m.events = {EvidenceEvent} /\ d.events = {IntakeEvent}
    BY <1>0 DEF AtStage, StagePlan
  <2> QED
    BY <2>1, SeedIds DEF HasDuplicateEventId, IdsOf
<1>3. ~HasDuplicateRecord(d, m)
  <2>1. /\ m.evidence = {} \/ d.evidence = {}
        /\ m.transactions = {} /\ m.requests = {} /\ (m.claims = {} \/ m.claims = {SeedClaim})
    BY <1>0 DEF AtStage, StagePlan
  <2> QED
    BY <2>1 DEF HasDuplicateRecord, IdsOf
<1>4. /\ RecordsRefer(d, m)
      /\ \A a \in { d.audits[i] : i \in DOMAIN d.audits } :
           a.trigger \in IdsOf(d.events) /\ a.evidence \subseteq IdsOf(d.evidence)
  BY StageRefers
<1>5. IF m.audit = NoAudit THEN d.kase = NoCase \/ d.kase.state = m.kase.state
                           ELSE AuditRefers(d, m)
  <2>1. CASE k = 1
    BY <2>1 DEF AtStage, StagePlan, StageKase
  <2>2. CASE k = 3
    <3>1. m.audit = NoAudit /\ d.kase.state = StageState(3) /\ m.kase.state = StageState(4)
      BY <2>2, StageKaseIs DEF AtStage, StagePlan
    <3> QED
      BY <3>1 DEF StageState
  <2>3. CASE k = 2
    <3>1. /\ m.audit = IntakeAudit /\ m.events = {IntakeEvent} /\ d.kase.state = "NEW"
          /\ m.kase.state = "EVIDENCE_COLLECTION"
      BY <2>3, StageKaseIs DEF AtStage, StagePlan, StageState
    <3>2. m.audit # NoAudit
      BY <3>1, SeedIds DEF NoAudit, NoEvent, IntakeEvent, CaseEvent
    <3>3. IntakeEvent.id \in IdsOf(d.events \cup m.events)
      BY <3>1 DEF IdsOf
    <3>4. AuditRefers(d, m)
      BY <3>1, <3>3 DEF AuditRefers, IntakeAudit, SeedAudit
    <3> QED
      BY <3>2, <3>4
  <2>4. CASE k = 4
    <3>1. /\ m.audit = EvidenceAudit /\ d.events = SeedEvents
          /\ d.kase.state = "EVIDENCE_COLLECTION" /\ m.kase.state = "INVESTIGATING"
          /\ d.evidence = {SeedEvidence}
      BY <2>4, StageKaseIs, SeededIs DEF AtStage, StagePlan, StageState
    <3>2. m.audit # NoAudit
      BY <3>1, SeedIds DEF NoAudit, NoEvent, EvidenceEvent, CaseEvent
    <3>3. EvidenceEvent.id \in IdsOf(d.events \cup m.events)
      BY <3>1 DEF IdsOf, SeedEvents
    <3>5. EvidenceEvent.id \in IdsOf(d.evidence \cup m.evidence)
      <4>1. SeedEvidence.id = EvidenceEvent.id /\ SeedEvidence \in d.evidence \cup m.evidence
        BY <3>1 DEF SeedEvidence
      <4> QED
        BY <4>1 DEF IdsOf
    <3>4. AuditRefers(d, m)
      BY <3>1, <3>3, <3>5 DEF AuditRefers, EvidenceAudit, SeedAudit
    <3> QED
      BY <3>2, <3>4
  <2> QED
    BY <1>0, <2>1, <2>2, <2>3, <2>4
<1> QED
  BY <1>1, <1>2, <1>3, <1>4, <1>5 DEF Validated

LEMMA StageCommits ==
  ASSUME Agreed(index, docs), NEW k \in 1 .. 4, AtStage(k, docs), NEW m, StagePlan(k, m)
  PROVE  CommitAnswer(m) = "COMMITTED"
<1>0. k = 1 \/ k = 2 \/ k = 3 \/ k = 4
  OBVIOUS
<1>1. Validated(Snapshot, m) = "COMMITTED"
  BY StageOfSnapshot, SnapshotKase, StageValidated
<1>2. /\ index.events = docs.events /\ index.owned = OwnedDocs(docs)
      /\ index.owned.events = IdsOf(docs.events) /\ index.owned.evidence = IdsOf(docs.evidence)
      /\ index.owned.audits = AuditIds(docs.audits)
  BY OwnedDocsIs DEF Agreed
<1>3. \/ m.events = {} \/ docs.events = {}
      \/ m.events = {EvidenceEvent} /\ docs.events = {IntakeEvent}
  BY <1>0 DEF AtStage, StagePlan
<1>4. { e \in index.events : e.id \in IdsOf(m.events) } = {}
  BY <1>2, <1>3, SeedIds DEF IdsOf
<1>5. IdsOf(m.transactions) = {}
  BY DEF StagePlan, IdsOf
<1>6. Unowned(Owned(m))
  <2>1. /\ Owned(m).events = IdsOf(m.events) /\ Owned(m).evidence = IdsOf(m.evidence)
        /\ Owned(m).audits = IF m.audit = NoAudit THEN {} ELSE {m.audit.trigger}
        /\ Owned(m).transactions = IdsOf(m.transactions) /\ Owned(m).requests = m.requests
        /\ Owned(m).receipts = {} /\ Owned(m).runs = {}
    BY OwnedKindsAre DEF Owned, NothingOwned, Kinds
  <2>2. Owned(m).events \cap index.owned.events = {}
    BY <1>2, <1>3, <2>1, SeedIds DEF IdsOf
  <2>3. Owned(m).evidence \cap index.owned.evidence = {}
    <3>1. m.evidence = {} \/ docs.evidence = {}
      BY <1>0 DEF AtStage, StagePlan
    <3> QED
      BY <1>2, <2>1, <3>1 DEF IdsOf
  <2>4. Owned(m).audits \cap index.owned.audits = {}
    <3>1. \/ m.audit = NoAudit \/ docs.audits = <<>>
          \/ m.audit = EvidenceAudit /\ docs.audits = <<IntakeAudit>>
      BY <1>0 DEF AtStage, StagePlan
    <3>2. AuditIds(<<>>) = {} /\ AuditIds(<<IntakeAudit>>) = {IntakeEvent.id}
      BY SeedIds DEF AuditIds
    <3> QED
      BY <1>2, <2>1, <3>1, <3>2, SeedIds
  <2>5. Owned(m).transactions = {} /\ Owned(m).requests = {} /\ Owned(m).receipts = {}
        /\ Owned(m).runs = {}
    BY <1>5, <2>1 DEF StagePlan
  <2> QED
    BY <2>2, <2>3, <2>4, <2>5, OwnedKindsAre DEF Unowned, Kinds
<1> QED
  BY <1>1, <1>4, <1>5, <1>6 DEF CommitAnswer

LEMMA AppendTwo ==
  ASSUME NEW x, NEW y
  PROVE  Append(<<>>, x) = <<x>> /\ Append(<<x>>, y) = <<x, y>>
<1> DEFINE s == <<x>>
           t == <<x, y>>
<1>1. s \in Seq({x, y}) /\ t \in Seq({x, y}) /\ Len(s) = 1 /\ Len(t) = 2
  OBVIOUS
<1>2. s[1] = x /\ t[1] = x /\ t[2] = y
  OBVIOUS
<1> HIDE DEF s, t
<1>3. /\ Append(s, y) \in Seq({x, y}) /\ Len(Append(s, y)) = 2
      /\ Append(s, y)[1] = s[1] /\ Append(s, y)[2] = y
  <2> DEFINE S == {x, y}
  <2>1. s \in Seq(S) /\ y \in S
    BY <1>1
  <2> HIDE DEF S
  <2>2. /\ Append(s, y) \in Seq(S) /\ Len(Append(s, y)) = Len(s) + 1
        /\ \A i \in 1 .. Len(s) : Append(s, y)[i] = s[i]
        /\ Append(s, y)[Len(s) + 1] = y
    BY <2>1, AppendProperties
  <2> QED
    BY <1>1, <2>2 DEF S
<1>4. \A i \in 1 .. 2 : Append(s, y)[i] = t[i]
  BY <1>2, <1>3
<1>5. Append(s, y) = t
  BY <1>1, <1>3, <1>4, SeqEqual
<1>6. Append(<<>>, x) = <<x>>
  OBVIOUS
<1> QED
  BY <1>5, <1>6 DEF s, t

LEMMA StageWrites ==
  ASSUME DOMAIN docs = Fields, NEW k \in 1 .. 4, AtStage(k, docs), NEW m, StagePlan(k, m), Write(m)
  PROVE  AtStage(k + 1, docs') /\ docs'.receipts = docs.receipts /\ docs'.runs = docs.runs
<1>0. k = 1 \/ k = 2 \/ k = 3 \/ k = 4
  OBVIOUS
<1>1. /\ docs'.kase = m.kase
      /\ docs'.events = docs.events \cup m.events
      /\ docs'.evidence = docs.evidence \cup m.evidence
      /\ docs'.claims = UpsertClaims(docs.claims, m.claims)
      /\ docs'.transactions = docs.transactions \cup m.transactions
      /\ docs'.audits = IF m.audit = NoAudit THEN docs.audits ELSE Append(docs.audits, m.audit)
      /\ docs'.requests = [v \in DOMAIN docs.requests \cup m.requests |->
                             IF v \in m.requests THEN NewRequest ELSE docs.requests[v]]
      /\ docs'.receipts = docs.receipts /\ docs'.runs = docs.runs
  BY WriteIs
<1>2. docs'.events = IF k + 1 <= 2 THEN {} ELSE IF k + 1 = 3 THEN {IntakeEvent} ELSE SeedEvents
  BY <1>0, <1>1 DEF AtStage, StagePlan, SeedEvents
<1>3. /\ docs'.evidence = IF k + 1 <= 3 THEN {} ELSE SeededCase.evidence
      /\ docs'.transactions = {}
  BY <1>0, <1>1, SeededIs DEF AtStage, StagePlan
<1>4. docs'.claims = IF k + 1 <= 3 THEN {} ELSE SeededCase.claims
  <2>1. /\ UpsertClaims({}, {}) = {} /\ UpsertClaims({}, {SeedClaim}) = {SeedClaim}
        /\ UpsertClaims({SeedClaim}, {}) = {SeedClaim}
    BY DEF UpsertClaims, IdsOf
  <2>2. /\ docs.claims = IF k <= 3 THEN {} ELSE {SeedClaim}
        /\ m.claims = IF k = 3 THEN {SeedClaim} ELSE {}
    BY SeededIs DEF AtStage, StagePlan
  <2>3. CASE k = 1 \/ k = 2
    BY <1>1, <2>1, <2>2, <2>3
  <2>4. CASE k = 3
    <3>1. docs.claims = {} /\ m.claims = {SeedClaim}
      BY <2>2, <2>4
    <3>2. docs'.claims = {SeedClaim}
      BY <1>1, <2>1, <3>1
    <3> QED
      BY <2>4, <3>2, SeededIs
  <2>5. CASE k = 4
    <3>1. docs.claims = {SeedClaim} /\ m.claims = {}
      BY <2>2, <2>5
    <3>2. docs'.claims = {SeedClaim}
      BY <1>1, <2>1, <3>1
    <3> QED
      BY <2>5, <3>2, SeededIs
  <2> QED
    BY <1>0, <2>3, <2>4, <2>5
<1>5. docs'.audits = IF k + 1 <= 2 THEN <<>> ELSE IF k + 1 <= 4 THEN <<IntakeAudit>>
                     ELSE <<IntakeAudit, EvidenceAudit>>
  <2>1. /\ Append(<<>>, IntakeAudit) = <<IntakeAudit>>
        /\ Append(<<IntakeAudit>>, EvidenceAudit) = <<IntakeAudit, EvidenceAudit>>
    BY AppendTwo
  <2>2. IntakeAudit # NoAudit /\ EvidenceAudit # NoAudit
    <3>1. IntakeAudit.trigger # NoAudit.trigger /\ EvidenceAudit.trigger # NoAudit.trigger
      BY SeedIds DEF NoAudit, NoEvent, IntakeEvent, EvidenceEvent, CaseEvent
    <3> QED
      BY <3>1
  <2>3. /\ docs.audits = IF k <= 2 THEN <<>> ELSE <<IntakeAudit>>
        /\ m.audit = IF k = 2 THEN IntakeAudit ELSE IF k = 4 THEN EvidenceAudit ELSE NoAudit
    BY DEF AtStage, StagePlan
  <2>4. CASE k = 1
    BY <1>1, <2>3, <2>4
  <2>5. CASE k = 2
    BY <1>1, <2>1, <2>2, <2>3, <2>5
  <2>6. CASE k = 3
    BY <1>1, <2>3, <2>6
  <2>7. CASE k = 4
    BY <1>1, <2>1, <2>2, <2>3, <2>7
  <2> QED
    BY <1>0, <2>4, <2>5, <2>6, <2>7
<1>6. docs'.requests = [v \in {} |-> NewRequest]
  BY <1>1 DEF AtStage, StagePlan
<1>7. docs'.kase = StageKase(k + 1)
  BY <1>1 DEF StagePlan
<1> QED
  BY <1>1, <1>2, <1>3, <1>4, <1>5, <1>6, <1>7 DEF AtStage

LEMMA SeedPlansAre ==
  ASSUME NEW k, NEW b
  PROVE  /\ Plans(SeedStep(k), b) = SeedPlans(k, b) /\ PlansFor(SeedStep(k), b) = SeedPlans(k, b)
         /\ SeedStep(k).kind = "seed" /\ SeedStep(k).step = k
  BY DEF Plans, PlansFor, SeedStep

\* A step of the seed the case is past is refused: by its version, by the transition matrix
\* or by the receipt of the event it would write.
LEMMA PastStepRefused ==
  ASSUME DocsOK(docs), Agreed(index, docs), NEW k \in 1 .. 5, AtStage(k, docs),
         NEW j \in 1 .. 4, j < k, NEW m, m \in SeedPlans(j, SnapshotOf(docs))
  PROVE  CommitAnswer(m) # "COMMITTED"
<1> SUFFICES ASSUME CommitAnswer(m) = "COMMITTED" PROVE FALSE
  OBVIOUS
<1> DEFINE b == SnapshotOf(docs)
<1>1. b.kase = StageKase(k) /\ k # 1 /\ docs.kase.version = k - 1
  BY StageOfSnapshot, StageKaseIs DEF AtStage
<1>2. b.kase.state = StageState(k)
  BY <1>1, StageKaseIs
<1>3. m.expected = k - 1 /\ \A e \in index.events : e.id \notin IdsOf(m.events)
  BY <1>1, CommittedIs
<1> HIDE DEF b
<1>4. CASE j = 1
  <2>1. m.expected = 0
    BY <1>4 DEF SeedPlans, Mutation
  <2> QED
    BY <1>1, <1>3, <2>1
<1>5. CASE j = 2
  <2>1. TransitionAllowed(b.kase, "EVIDENCE_COLLECTION", IntakeEvent.kind, {})
    BY <1>5 DEF SeedPlans, b
  <2>2. b.kase.state = "NEW"
    BY <2>1, RulesFrom DEF TransitionAllowed
  <2> QED
    BY <1>2, <1>5, <2>2 DEF StageState
<1>6. CASE j = 3
  <2>1. m.events = {EvidenceEvent}
    BY <1>6 DEF SeedPlans, Mutation
  <2>2. EvidenceEvent \in docs.events
    BY <1>6 DEF AtStage, SeedEvents
  <2>3. EvidenceEvent \in index.events
    BY <2>2 DEF Agreed
  <2> QED
    BY <1>3, <2>1, <2>3 DEF IdsOf
<1>7. CASE j = 4
  <2>1. TransitionAllowed(b.kase, "INVESTIGATING", EvidenceEvent.kind, {EvidenceEvent.id})
    BY <1>7 DEF SeedPlans, b
  <2>2. b.kase.state # "INVESTIGATING"
    BY <2>1, RulesFrom DEF TransitionAllowed
  <2>3. k = 5
    BY <1>7
  <2> QED
    BY <1>2, <2>2, <2>3 DEF StageState
<1> QED
  BY <1>4, <1>5, <1>6, <1>7

\* The plan of a seed since the last reset, as the case is at stage k.
LEMMA SeedPlanStands ==
  ASSUME TypeInv, FreshInv, NEW k \in 1 .. 5, AtStage(k, docs), NEW p \in Processes,
         process[p].pc = "planned", process[p].task.kind = "seed", process[p].since = resets
  PROVE  LET j == process[p].task.step
             m == process[p].mutation
         IN  /\ j \in 1 .. 4 /\ process[p].task = SeedStep(j) /\ j <= k
             /\ m.expected \in Nat /\ j - 1 <= m.expected /\ m.expected <= k - 1
             /\ m.expected = k - 1 => m \in SeedPlans(j, SnapshotOf(docs))
<1> DEFINE j == process[p].task.step
           m == process[p].mutation
<1>1. PlannedOK(process[p])
  BY DEF TypeInv, LocalOK, LoadingOK
<1>2. j \in 1 .. 4 /\ process[p].task = SeedStep(j) /\ m.expected \in Nat
  BY <1>1 DEF PlannedOK, TaskOK, PlanOK
<1>3. PlanStands(process[p], docs)
  BY DEF FreshInv, Fresh, Busy
<1>4. docs.kase.version = k - 1
  BY StageKaseIs DEF AtStage
<1>5. /\ m.expected <= k - 1 /\ j - 1 <= m.expected
      /\ m.expected = k - 1 => m \in PlansFor(process[p].task, SnapshotOf(docs))
  BY <1>3, <1>4 DEF PlanStands
<1>6. m.expected = k - 1 => m \in SeedPlans(j, SnapshotOf(docs))
  BY <1>2, <1>5, SeedPlansAre
<1> HIDE DEF j, m
<1>7. j <= k
  BY <1>2, <1>5
<1> QED
  BY <1>2, <1>5, <1>6, <1>7 DEF j, m

\* At stage k the seed's step k commits, and no other step of a seed does.
LEMMA SeedCommits ==
  ASSUME TypeInv, FreshInv, Agreed(index, docs), NEW k \in 1 .. 5, AtStage(k, docs),
         NEW p \in Processes, process[p].pc = "planned", process[p].task.kind = "seed",
         process[p].since = resets
  PROVE  LET m == process[p].mutation IN
         /\ process[p].task = SeedStep(k) => StagePlan(k, m) /\ CommitAnswer(m) = "COMMITTED"
         /\ process[p].task # SeedStep(k) => CommitAnswer(m) # "COMMITTED"
<1> DEFINE j == process[p].task.step
           m == process[p].mutation
<1>1. /\ j \in 1 .. 4 /\ process[p].task = SeedStep(j) /\ j <= k
      /\ m.expected \in Nat /\ j - 1 <= m.expected /\ m.expected <= k - 1
      /\ m.expected = k - 1 => m \in SeedPlans(j, SnapshotOf(docs))
  BY SeedPlanStands
<1>2. /\ AtStage(k, SnapshotOf(docs)) /\ SeedStep(k).step = k /\ DocsOK(docs)
      /\ docs.kase.version = k - 1
  <2>1. docs.kase.version = k - 1
    BY StageKaseIs DEF AtStage
  <2> QED
    BY <2>1, StageOfSnapshot, SeedPlansAre DEF TypeInv
<1>3. ASSUME process[p].task = SeedStep(k)
      PROVE  StagePlan(k, m) /\ CommitAnswer(m) = "COMMITTED"
  <2>1. j = k
    BY <1>2, <1>3
  <2> HIDE DEF j, m
  <2>2. m \in SeedPlans(k, SnapshotOf(docs)) /\ k \in 1 .. 4
    BY <1>1, <2>1
  <2>3. StagePlan(k, m)
    BY <1>2, <2>2, StagePlanIs
  <2> QED
    BY <2>2, <2>3, StageCommits
<1>4. ASSUME process[p].task # SeedStep(k), CommitAnswer(m) = "COMMITTED" PROVE FALSE
  <2>1. m.expected = k - 1
    BY <1>2, <1>4, CommittedIs
  <2>2. j # k
    BY <1>1, <1>4
  <2>3. j < k
    <3> HIDE DEF j
    <3> QED
      BY <1>1, <2>2
  <2>4. m \in SeedPlans(j, SnapshotOf(docs))
    BY <1>1, <2>1
  <2> HIDE DEF j, m
  <2> QED
    BY <1>1, <1>2, <1>4, <2>3, <2>4, PastStepRefused
<1> QED
  BY <1>3, <1>4

\* A read of the seed at its stage leads to its plan, sooner or later.
LEMMA SeedReads ==
  ASSUME NEW k \in 1 .. 4, AtStage(k, docs), NEW l, LoadingOK(l), DocsOK(docs), resets \in Nat,
         Fresh(l, docs, resets), l.since = resets, l.task = SeedStep(k), NEW n \in AfterRead(l)
  PROVE  n.pc \in Busy
<1>0. PICK c \in NextReads(l.unread) :
        \/ l.task = SeedStep(1) /\ Missing(c) /\ n \in Planned(Seen(l, c))
        \/ l.task = SeedStep(1) /\ ~Missing(c) /\ n = Return(l)
        \/ /\ l.task # SeedStep(1) /\ Missing(c)
           /\ n = IF l.task.kind = "seed" THEN Throw(l) ELSE Idle
        \/ /\ l.task # SeedStep(1) /\ ~Missing(c)
           /\ Seen(l, c).unread = {} \/ Settled(l.task, Seen(l, c).view)
           /\ n \in Planned(Seen(l, c))
        \/ /\ l.task # SeedStep(1) /\ ~Missing(c) /\ Seen(l, c).unread # {}
           /\ n = Seen(l, c)
  BY AfterReadIs
<1> DEFINE s == Seen(l, c)
<1>1. /\ s.pc = "loading" /\ s.task = l.task /\ s.unread = l.unread \ {c} /\ s.view[c] = docs[c]
      /\ DocsOK(s.view) /\ "kase" \notin s.unread
      /\ "kase" \in l.unread => c = "kase"
      /\ c # "kase" => s.view.kase = l.view.kase
  BY SeenIs DEF Fields
<1>2. ViewStands(s, docs)
  BY SeenStands
<1>3. docs.kase.version = k - 1 /\ docs.kase = StageKase(k)
  BY StageKaseIs DEF AtStage
<1>4. SeedStep(k).kind = "seed" /\ SeedStep(k).step = k /\ (k # 1 => SeedStep(k) # SeedStep(1))
  BY DEF SeedStep
<1> HIDE DEF s
<1>5. s.view.kase.version \in Nat /\ s.view.kase.version = k - 1
  <2>1. s.view.kase.version \in Nat
    BY <1>1, Versions DEF DocsOK
  <2>2. s.view.kase.version <= k - 1 /\ k - 1 <= s.view.kase.version
    BY <1>1, <1>2, <1>3, <1>4 DEF ViewStands
  <2> QED
    BY <2>1, <2>2
<1>6. s.view.kase = docs.kase
  BY <1>1, <1>2, <1>3, <1>5 DEF ViewStands, Relevant
<1>7. ASSUME n \in Planned(s) PROVE n.pc = "planned"
  <2>1. SeedPlans(k, s.view) # {}
    BY <1>3, <1>6, StagePlans
  <2>2. Plans(s.task, s.view) # {}
    BY <1>1, <2>1, SeedPlansAre
  <2> QED
    BY <1>7, <2>2 DEF Planned
<1>8. CASE k = 1
  <2>1. docs.kase = NoCase
    BY <1>3, <1>8 DEF StageKase
  <2>2. c = "kase"
    <3>1. ASSUME c # "kase" PROVE FALSE
      <4>1. "kase" \notin l.unread /\ s.view.kase = l.view.kase
        BY <1>1, <3>1
      <4>2. l.view.kase # NoCase
        BY <4>1 DEF LoadingOK
      <4> QED
        BY <1>6, <2>1, <4>1, <4>2
    <3> QED
      BY <3>1
  <2>3. n \in Planned(s)
    BY <1>0, <1>8, <2>1, <2>2 DEF Missing, s
  <2> QED
    BY <1>7, <2>3 DEF Busy
<1>9. CASE k # 1
  <2>1. ~Missing(c) /\ l.task # SeedStep(1)
    BY <1>3, <1>4, <1>9, StageKaseIs DEF Missing
  <2>2. n \in Planned(s) \/ n = s
    BY <1>0, <2>1 DEF s
  <2> QED
    BY <1>1, <1>7, <2>2 DEF Busy
<1> QED
  BY <1>8, <1>9

(***************************************************************************)
(* What holds of seeds and resets until a commit falls into a reset: every *)
(* seed is of the case since the last reset; a case with no events but the *)
(* seed's is at a stage, and a seed that goes on from there exists unless  *)
(* one died; what a reset has done stands.                                 *)
(***************************************************************************)
SeederAt(l, k) == l.pc \in Busy /\ l.task = SeedStep(k)

SinceReset(l, n) == l.pc \in Busy /\ l.task.kind = "seed" => l.since = n

Bare(d, runs) == d.receipts = EmptySnapshot.receipts /\ d.runs = runs

ResetStands(l, d) ==
  /\ l.pc \in Busy /\ l.reset => AtStage(l.task.step, d) /\ Bare(d, {})
  /\ l.pc \in {"verifying", "appending"} => AtStage(5, d) /\ Bare(d, {})
  /\ l.pc = "ended" => l.ok /\ AtStage(5, d) /\ Bare(d, {"baseline"})

StageKnown(d, local) ==
  d.events \subseteq SeedEvents =>
    \E k \in 1 .. 5 : /\ AtStage(k, d)
                      /\ k \in 2 .. 4 => \E p \in Processes : SeederAt(local[p], k)

SeedInv ==
  ~raced => /\ \A p \in Processes : SinceReset(process[p], resets) /\ ResetStands(process[p], docs)
            /\ ~died => StageKnown(docs, process)

LEMMA StageIsOne ==
  ASSUME NEW d, NEW j \in 1 .. 5, NEW k \in 1 .. 5, AtStage(j, d), AtStage(k, d)
  PROVE  j = k
<1>1. d.kase.version = j - 1 /\ d.kase.version = k - 1
  BY StageKaseIs DEF AtStage
<1> QED
  BY <1>1

LEMMA IdleStands == \A d, n : SinceReset(Idle, n) /\ ResetStands(Idle, d)
  BY DEF Idle, SinceReset, ResetStands, Busy

LEMMA OutsideReset ==
  ASSUME NEW q, ~InReset(q)
  PROVE  \A d : ResetStands(process[q], d)
  BY DEF InReset, ResetStands, Busy

\* A step of one process that changes no document.
LEMMA SeedQuiet ==
  ASSUME TypeInv, SeedInv, NEW p \in Processes, NEW n, Become(p, n),
         UNCHANGED <<docs, resets, raced>>,
         ~raced => SinceReset(n, resets) /\ ResetStands(n, docs),
         ~raced /\ ~died' =>
           /\ ~died
           /\ \A k \in 2 .. 4 : AtStage(k, docs) /\ SeederAt(process[p], k) => SeederAt(n, k)
  PROVE  SeedInv'
<1> SUFFICES ASSUME ~raced'
             PROVE  /\ \A q \in Processes : SinceReset(process'[q], resets')
                                            /\ ResetStands(process'[q], docs')
                    /\ ~died' => StageKnown(docs', process')
  BY DEF SeedInv
<1>0. \A q \in Processes : process'[q] = IF q = p THEN n ELSE process[q]
  BY DEF TypeInv, Become
<1>1. /\ \A q \in Processes : SinceReset(process[q], resets) /\ ResetStands(process[q], docs)
      /\ ~died => StageKnown(docs, process)
  BY DEF SeedInv
<1>2. \A q \in Processes : SinceReset(process'[q], resets') /\ ResetStands(process'[q], docs')
  BY <1>0, <1>1
<1>3. ASSUME ~died' PROVE StageKnown(docs', process')
  <2> SUFFICES ASSUME docs.events \subseteq SeedEvents
               PROVE  \E k \in 1 .. 5 :
                        /\ AtStage(k, docs)
                        /\ k \in 2 .. 4 => \E q \in Processes : SeederAt(process'[q], k)
    BY DEF StageKnown
  <2>1. PICK k \in 1 .. 5 : /\ AtStage(k, docs)
                            /\ k \in 2 .. 4 => \E q \in Processes : SeederAt(process[q], k)
    BY <1>1, <1>3 DEF StageKnown
  <2>2. ASSUME k \in 2 .. 4 PROVE \E q \in Processes : SeederAt(process'[q], k)
    <3>1. PICK q \in Processes : SeederAt(process[q], k)
      BY <2>1, <2>2
    <3>2. SeederAt(process'[q], k)
      BY <1>0, <1>3, <2>1, <2>2, <3>1
    <3> QED
      BY <3>2
  <2> QED
    BY <2>1, <2>2
<1> QED
  BY <1>2, <1>3

\* A step that changes documents while no other process is in a reset.
LEMMA SeedAlone ==
  ASSUME TypeInv, SeedInv, NEW p \in Processes, NEW n, Become(p, n),
         ~raced' => ~raced /\ \A q \in Processes \ {p} : ~InReset(q),
         resets' = resets \/ (~raced' => \A q \in Processes : ~Seeding(q)),
         ~raced' => SinceReset(n, resets') /\ ResetStands(n, docs'),
         ~raced' /\ ~died' => StageKnown(docs', process')
  PROVE  SeedInv'
<1> SUFFICES ASSUME ~raced'
             PROVE  \A q \in Processes : SinceReset(process'[q], resets')
                                         /\ ResetStands(process'[q], docs')
  BY DEF SeedInv
<1>0. \A q \in Processes : process'[q] = IF q = p THEN n ELSE process[q]
  BY DEF TypeInv, Become
<1>1. ASSUME NEW q \in Processes, q # p
      PROVE  SinceReset(process[q], resets') /\ ResetStands(process[q], docs')
  <2>1. SinceReset(process[q], resets)
    BY DEF SeedInv
  <2>2. resets' = resets \/ ~Seeding(q)
    OBVIOUS
  <2>3. SinceReset(process[q], resets')
    BY <2>1, <2>2 DEF SinceReset, Seeding, Busy
  <2> QED
    BY <1>1, <2>3, OutsideReset
<1> QED
  BY <1>0, <1>1

\* A load outside a reset that does not go on is over.
LEMMA ReadEnds ==
  ASSUME NEW l, LoadingOK(l), ~l.reset, DocsOK(docs), NEW n \in AfterRead(l), n.pc \notin Busy
  PROVE  n = Idle
<1>0. PICK c \in NextReads(l.unread) :
        \/ l.task = SeedStep(1) /\ Missing(c) /\ n \in Planned(Seen(l, c))
        \/ l.task = SeedStep(1) /\ ~Missing(c) /\ n = Return(l)
        \/ /\ l.task # SeedStep(1) /\ Missing(c)
           /\ n = IF l.task.kind = "seed" THEN Throw(l) ELSE Idle
        \/ /\ l.task # SeedStep(1) /\ ~Missing(c)
           /\ Seen(l, c).unread = {} \/ Settled(l.task, Seen(l, c).view)
           /\ n \in Planned(Seen(l, c))
        \/ /\ l.task # SeedStep(1) /\ ~Missing(c) /\ Seen(l, c).unread # {}
           /\ n = Seen(l, c)
  BY AfterReadIs
<1> DEFINE s == Seen(l, c)
<1>1. s.pc = "loading" /\ s.reset = l.reset
  BY SeenIs
<1> HIDE DEF s
<1>2. Throw(s) = Idle /\ Throw(l) = Idle /\ Return(l) = Idle
  BY <1>1 DEF Throw, Return
<1>3. ASSUME n \in Planned(s) PROVE n = Idle
  <2>1. n = Throw(s) \/ n = Idle \/ n.pc = "planned"
    BY <1>3 DEF Planned
  <2> QED
    BY <1>2, <2>1 DEF Busy
<1> QED
  BY <1>0, <1>1, <1>2, <1>3 DEF s, Busy

LEMMA StartSeeds ==
  ASSUME TypeInv, FreshInv, SeedInv, NEW p \in Processes, NEW task, TaskOK(task), Start(p, task),
         task.kind = "seed" => task.step = 1
  PROVE  SeedInv'
<1> DEFINE l == Loading(task)
<1>1. PICK n \in AfterRead(l) : Become(p, n)
  BY DEF Start
<1>2. n.pc \in Busy => n.task = task /\ n.since = resets /\ n.reset = FALSE
  BY <1>1, StartReads
<1>3. LoadingOK(l) /\ l.reset = FALSE
  BY LoadingIsOK
<1>4. n.pc \notin Busy => n = Idle
  BY <1>1, <1>3, ReadEnds DEF TypeInv
<1> HIDE DEF l
<1>5. SinceReset(n, resets) /\ ResetStands(n, docs)
  <2>1. CASE n.pc \in Busy
    BY <1>2, <2>1 DEF SinceReset, ResetStands, Busy
  <2>2. CASE n.pc \notin Busy
    BY <1>4, <2>2, IdleStands
  <2> QED
    BY <2>1, <2>2
<1>6. \A k : ~SeederAt(process[p], k)
  BY DEF Start, SeederAt, Busy
<1> QED
  BY <1>1, <1>5, <1>6, SeedQuiet DEF Start

LEMMA ReadSeeds ==
  ASSUME TypeInv, FreshInv, SeedInv, NEW p \in Processes, Read(p)
  PROVE  SeedInv'
<1> DEFINE l == process[p]
<1>0. l.pc = "loading" /\ UNCHANGED <<docs, resets, died, raced>>
  BY DEF Read
<1>1. PICK n \in AfterRead(l) : Become(p, n)
  BY DEF Read
<1>2. n.pc \in Busy => n.task = l.task /\ n.since = l.since /\ n.reset = l.reset
  BY <1>0, <1>1, ReadReads
<1>3. LoadingOK(l) /\ DocsOK(docs) /\ resets \in Nat /\ Fresh(l, docs, resets)
  BY <1>0 DEF TypeInv, FreshInv, LocalOK, PlannedOK
<1>4. ~l.reset /\ n.pc \notin Busy => n = Idle
  BY <1>1, <1>3, ReadEnds
<1> HIDE DEF l
<1>5. ASSUME ~raced, NEW k \in 1 .. 4, AtStage(k, docs), l.task = SeedStep(k) PROVE n.pc \in Busy
  <2>1. l.since = resets
    BY <1>0, <1>5, SeedPlansAre DEF SeedInv, SinceReset, Busy, l
  <2> QED
    BY <1>1, <1>3, <1>5, <2>1, SeedReads
<1>6. ASSUME ~raced PROVE SinceReset(n, resets) /\ ResetStands(n, docs)
  <2>1. SinceReset(l, resets) /\ ResetStands(l, docs)
    BY <1>6 DEF SeedInv, l
  <2>2. SinceReset(n, resets)
    BY <1>0, <1>2, <2>1 DEF SinceReset, Busy
  <2>3. CASE l.reset
    <3>1. /\ l.task.kind = "seed" /\ AtStage(l.task.step, docs) /\ Bare(docs, {})
          /\ l.task.step \in 1 .. 4 /\ l.task = SeedStep(l.task.step)
      BY <1>0, <1>3, <2>1, <2>3 DEF ResetStands, Busy, LoadingOK, TaskOK
    <3>2. n.pc \in Busy
      BY <1>5, <1>6, <3>1
    <3>3. n.task = l.task
      BY <1>2, <3>2
    <3>4. AtStage(n.task.step, docs) /\ n.pc \notin {"verifying", "appending", "ended"}
      BY <3>1, <3>2, <3>3 DEF Busy
    <3>5. ResetStands(n, docs)
      BY <3>1, <3>4 DEF ResetStands
    <3> QED
      BY <2>2, <3>5
  <2>4. CASE ~l.reset
    <3>1. CASE n.pc \in Busy
      BY <1>2, <2>2, <2>4, <3>1 DEF ResetStands, Busy
    <3>2. CASE n.pc \notin Busy
      BY <1>4, <2>4, <3>2, IdleStands
    <3> QED
      BY <3>1, <3>2
  <2> QED
    BY <2>2, <2>3, <2>4
<1>7. ASSUME ~raced, NEW k \in 2 .. 4, AtStage(k, docs), SeederAt(l, k) PROVE SeederAt(n, k)
  <2>1. l.task = SeedStep(k) /\ k \in 1 .. 4
    BY <1>7 DEF SeederAt
  <2>2. n.pc \in Busy
    BY <1>5, <1>7, <2>1
  <2> QED
    BY <1>2, <2>1, <2>2 DEF SeederAt
<1>8. ~raced /\ ~died' =>
        /\ ~died
        /\ \A k \in 2 .. 4 : AtStage(k, docs) /\ SeederAt(process[p], k) => SeederAt(n, k)
  BY <1>0, <1>7 DEF l
<1>9. UNCHANGED <<docs, resets, raced>>
  BY <1>0
<1> QED
  BY <1>1, <1>6, <1>8, <1>9, SeedQuiet

LEMMA RestSeeds ==
  ASSUME TypeInv, SeedInv, NEW p \in Processes,
         PlanReset(p) \/ VerifyReset(p) \/ LeaveReset(p) \/ Crash(p)
  PROVE  SeedInv'
<1>1. ASSUME PlanReset(p) PROVE SeedInv'
  <2>1. PICK n \in {Idle, [pc |-> "deleting", docs |-> docs, index |-> index]} : Become(p, n)
    BY <1>1 DEF PlanReset
  <2>2. SinceReset(n, resets) /\ ResetStands(n, docs)
    BY <2>1, IdleStands DEF SinceReset, ResetStands, Busy
  <2>3. \A k : ~SeederAt(process[p], k)
    BY <1>1 DEF PlanReset, SeederAt, Busy
  <2> QED
    BY <1>1, <2>1, <2>2, <2>3, SeedQuiet DEF PlanReset
<1>2. ASSUME VerifyReset(p) PROVE SeedInv'
  <2> DEFINE n == IF AtBaseline(docs) THEN [process[p] EXCEPT !.pc = "appending"] ELSE Ended(FALSE)
  <2>1. Become(p, n) /\ process[p].pc = "verifying" /\ UNCHANGED <<docs, resets, died, raced>>
    BY <1>2 DEF VerifyReset
  <2>2. "pc" \in DOMAIN process[p]
    BY DEF TypeInv, LocalOK, LoadingOK, PlannedOK, IsRecord
  <2>3. ASSUME ~raced PROVE SinceReset(n, resets) /\ ResetStands(n, docs)
    <3>1. AtStage(5, docs) /\ Bare(docs, {})
      BY <2>1, <2>3 DEF SeedInv, ResetStands
    <3>2. AtBaseline(docs)
      BY <3>1 DEF AtStage, StageKase, StageState, AtBaseline
    <3>3. n.pc = "appending"
      BY <2>2, <3>2
    <3> HIDE DEF n
    <3> QED
      BY <3>1, <3>3 DEF SinceReset, ResetStands, Busy
  <2>4. \A k : ~SeederAt(process[p], k)
    BY <2>1 DEF SeederAt, Busy
  <2> HIDE DEF n
  <2> QED
    BY <2>1, <2>3, <2>4, SeedQuiet
<1>3. ASSUME LeaveReset(p) PROVE SeedInv'
  <2>1. \A k : ~SeederAt(process[p], k)
    BY <1>3 DEF LeaveReset, SeederAt, Busy
  <2> QED
    BY <1>3, <2>1, IdleStands, SeedQuiet DEF LeaveReset
<1>4. ASSUME Crash(p) PROVE SeedInv'
  <2>1. /\ Become(p, Idle) /\ UNCHANGED <<docs, resets, raced>>
        /\ died' = (died \/ (Seeding(p) /\ HalfSeeded))
    BY <1>4 DEF Crash
  <2>2. ASSUME NEW k \in 2 .. 4, AtStage(k, docs) PROVE HalfSeeded
    <3>1. docs.kase # NoCase
      BY <2>2, StageKaseIs DEF AtStage
    <3>2. docs.audits = <<>> \/ docs.audits = <<IntakeAudit>>
      BY <2>2 DEF AtStage
    <3>3. EvidenceEvent.id \notin AuditIds(docs.audits)
      BY <3>2, SeedIds DEF AuditIds
    <3> QED
      BY <3>1, <3>3 DEF HalfSeeded
  <2>3. \A k : SeederAt(process[p], k) => Seeding(p)
    BY SeedPlansAre DEF SeederAt, Seeding, Busy
  <2>4. ~died' => /\ ~died
                  /\ \A k \in 2 .. 4 : AtStage(k, docs) => ~SeederAt(process[p], k)
    BY <2>1, <2>2, <2>3
  <2> QED
    BY <2>1, <2>4, IdleStands, SeedQuiet
<1> QED
  BY <1>1, <1>2, <1>3, <1>4

\* Where a seed that committed goes on.
LEMMA SeedGoesOn ==
  ASSUME NEW k \in 1 .. 4, NEW l, l.task = SeedStep(k)
  PROVE  /\ k = 4 => Committed(l) = Return(l)
         /\ k # 4 => /\ Committed(l).pc = "loading" /\ Committed(l).task = SeedStep(k + 1)
                     /\ Committed(l).since = l.since /\ Committed(l).reset = l.reset
<1>1. l.task.kind = "seed" /\ l.task.step = k
  BY SeedPlansAre
<1>2. CASE k = 4
  BY <1>1, <1>2 DEF Committed
<1>3. CASE k # 4
  <2> DEFINE task == [l.task EXCEPT !.step = @ + 1]
             n == [Loading(task) EXCEPT !.since = l.since, !.reset = l.reset]
  <2>1. Committed(l) = n
    BY <1>1, <1>3 DEF Committed
  <2>2. task = SeedStep(k + 1)
    BY DEF SeedStep
  <2> HIDE DEF task
  <2>3. n.pc = "loading" /\ n.task = task /\ n.since = l.since /\ n.reset = l.reset
    BY DEF Loading
  <2> HIDE DEF n
  <2> QED
    BY <1>3, <2>1, <2>2, <2>3
<1> QED
  BY <1>2, <1>3

LEMMA CommitSeeds ==
  ASSUME TypeInv, FreshInv, AgreeInv, SeedInv, NEW p \in Processes, Commit(p)
  PROVE  SeedInv'
<1> DEFINE l == process[p]
           m == process[p].mutation
           n == IF l.task.kind = "seed" THEN Throw(l) ELSE Idle
<1>1. /\ l.pc = "planned" /\ PlannedOK(l) /\ PlanOK(l.task, m) /\ TaskOK(l.task)
      /\ l.reset => l.task.kind = "seed"
      /\ DocsOK(docs) /\ DOMAIN docs = Fields /\ resets' = resets /\ died' = died
  BY DEF Commit, TypeInv, LocalOK, LoadingOK, PlannedOK, DocsOK, IsRecord
<1>2. ASSUME l.task.kind = "seed"
      PROVE  l.task.step \in 1 .. 4 /\ l.task = SeedStep(l.task.step)
  BY <1>1, <1>2 DEF TaskOK
<1>3. ASSUME ~raced
      PROVE  /\ Agreed(index, docs) /\ SinceReset(l, resets) /\ ResetStands(l, docs)
             /\ ~died => StageKnown(docs, process)
  BY <1>3 DEF AgreeInv, SeedInv
<1>4. ASSUME ~raced, l.task.kind = "seed", NEW k \in 1 .. 5, AtStage(k, docs)
      PROVE  /\ l.task = SeedStep(k) => StagePlan(k, m) /\ CommitAnswer(m) = "COMMITTED"
             /\ l.task # SeedStep(k) => CommitAnswer(m) # "COMMITTED"
  <2>1. l.since = resets
    BY <1>1, <1>3, <1>4 DEF SinceReset, Busy
  <2> QED
    BY <1>1, <1>3, <1>4, <2>1, SeedCommits
<1>5. CASE CommitAnswer(m) # "COMMITTED"
  <2>1. Become(p, n) /\ UNCHANGED <<docs, resets, raced, died>>
    BY <1>1, <1>5 DEF Commit
  <2>2. ASSUME ~raced PROVE SinceReset(n, resets) /\ ResetStands(n, docs)
    <3>1. ~l.reset
      <4>1. ASSUME l.reset PROVE FALSE
        <5>1. AtStage(l.task.step, docs) /\ l.task.kind = "seed"
          BY <1>1, <1>3, <2>2, <4>1 DEF ResetStands, Busy
        <5> QED
          BY <1>2, <1>4, <1>5, <2>2, <5>1
      <4> QED
        BY <4>1
    <3>2. n = Idle
      BY <3>1 DEF Throw
    <3> QED
      BY <3>2, IdleStands
  <2>3. ASSUME ~raced, NEW k \in 2 .. 4, AtStage(k, docs), SeederAt(process[p], k) PROVE FALSE
    <3>1. l.task = SeedStep(k) /\ l.task.kind = "seed"
      BY <2>3, SeedPlansAre DEF SeederAt
    <3> QED
      BY <1>4, <1>5, <2>3, <3>1
  <2> HIDE DEF n
  <2> QED
    BY <2>1, <2>2, <2>3, SeedQuiet
<1>6. CASE CommitAnswer(m) = "COMMITTED"
  <2>1. Write(m) /\ Become(p, Committed(l)) /\ raced' = (raced \/ Resetting(p))
    BY <1>6 DEF Commit
  <2>2. ~raced' => ~raced /\ \A q \in Processes \ {p} : ~InReset(q)
    BY <2>1 DEF Resetting
  <2>3. ASSUME ~raced, l.task.kind = "seed", NEW k \in 1 .. 5, AtStage(k, docs)
        PROVE  /\ k \in 1 .. 4 /\ l.task = SeedStep(k) /\ l.task.step = k
               /\ AtStage(k + 1, docs') /\ docs'.receipts = docs.receipts /\ docs'.runs = docs.runs
    <3>1. l.task = SeedStep(k) /\ StagePlan(k, m)
      BY <1>4, <1>6, <2>3
    <3>2. l.task.step = k /\ k \in 1 .. 4
      BY <1>2, <2>3, <3>1, SeedPlansAre
    <3> QED
      BY <1>1, <2>1, <2>3, <3>1, <3>2, StageWrites
  <2>4. ASSUME ~raced PROVE SinceReset(Committed(l), resets)
    <3>1. CASE l.task.kind = "seed"
      <4>1. l.since = resets
        BY <1>1, <1>3, <2>4, <3>1 DEF SinceReset, Busy
      <4>2. Committed(l) = Return(l) \/ Committed(l).since = l.since
        BY <1>2, <3>1, SeedGoesOn
      <4>3. Return(l).pc \notin Busy
        BY <1>1, EndsAreOK
      <4> QED
        BY <4>1, <4>2, <4>3 DEF SinceReset
    <3>2. CASE l.task.kind # "seed"
      BY <3>2, IdleStands DEF Committed
    <3> QED
      BY <3>1, <3>2
  <2>5. ASSUME ~raced PROVE ResetStands(Committed(l), docs')
    <3>1. CASE l.reset
      <4>1. l.task.kind = "seed" /\ AtStage(l.task.step, docs) /\ Bare(docs, {})
        BY <1>1, <1>3, <2>5, <3>1 DEF ResetStands, Busy
      <4>2. PICK k \in 1 .. 4 : k = l.task.step /\ l.task = SeedStep(k)
        BY <1>2, <4>1
      <4>3. AtStage(k + 1, docs') /\ Bare(docs', {})
        BY <2>3, <2>5, <4>1, <4>2 DEF Bare
      <4>4. CASE k = 4
        <5>1. "pc" \in DOMAIN l
          BY <1>1 DEF PlannedOK, IsRecord
        <5>2. Committed(l) = [l EXCEPT !.pc = "verifying"]
          BY <3>1, <4>2, <4>4, SeedGoesOn DEF Return
        <5>3. Committed(l).pc = "verifying"
          BY <5>1, <5>2
        <5>4. k + 1 = 5
          BY <4>4
        <5>5. AtStage(5, docs')
          BY <4>3, <5>4
        <5> QED
          BY <4>3, <5>3, <5>5 DEF ResetStands, Busy
      <4>5. CASE k # 4
        <5>1. Committed(l).pc = "loading" /\ Committed(l).task = SeedStep(k + 1)
          BY <4>2, <4>5, SeedGoesOn
        <5>2. Committed(l).task.step = k + 1
          BY <5>1 DEF SeedStep
        <5> QED
          BY <4>3, <5>1, <5>2 DEF ResetStands, Busy
      <4> QED
        BY <4>4, <4>5
    <3>2. CASE ~l.reset /\ l.task.kind = "seed"
      <4>1. Committed(l) = Idle \/ (Committed(l).pc = "loading" /\ Committed(l).reset = l.reset)
        BY <1>2, <3>2, SeedGoesOn DEF Return
      <4> QED
        BY <3>2, <4>1, IdleStands DEF ResetStands, Busy
    <3>3. CASE l.task.kind # "seed"
      BY <3>3, IdleStands DEF Committed
    <3> QED
      BY <3>1, <3>2, <3>3
  <2>6. ASSUME ~raced, ~died PROVE StageKnown(docs', process')
    <3> SUFFICES ASSUME docs'.events \subseteq SeedEvents
                 PROVE  \E k \in 1 .. 5 :
                          /\ AtStage(k, docs')
                          /\ k \in 2 .. 4 => \E q \in Processes : SeederAt(process'[q], k)
      BY DEF StageKnown
    <3>1. docs'.events = docs.events \cup m.events
      BY <1>1, <2>1, WriteIs
    <3>2. l.task.kind = "seed"
      BY <1>1, <3>1 DEF PlanOK
    <3>3. PICK k \in 1 .. 5 : AtStage(k, docs)
      BY <1>3, <2>6, <3>1 DEF StageKnown
    <3>4. k \in 1 .. 4 /\ l.task = SeedStep(k) /\ AtStage(k + 1, docs')
      BY <2>3, <2>6, <3>2, <3>3
    <3>5. k # 4 => SeederAt(Committed(l), k + 1)
      BY <3>4, SeedGoesOn DEF SeederAt, Busy
    <3>6. process'[p] = Committed(l)
      BY <2>1 DEF Become, TypeInv
    <3>7. k + 1 \in 1 .. 5 /\ (k + 1 \in 2 .. 4 => k # 4)
      BY <3>4
    <3>8. k + 1 \in 2 .. 4 => \E q \in Processes : SeederAt(process'[q], k + 1)
      BY <3>5, <3>6, <3>7
    <3> QED
      BY <3>4, <3>7, <3>8
  <2> QED
    BY <1>1, <2>1, <2>2, <2>4, <2>5, <2>6, SeedAlone
<1> QED
  BY <1>5, <1>6

LEMMA EmptyIsStageOne == AtStage(1, EmptySnapshot) /\ Bare(EmptySnapshot, {})
  BY EmptyIs DEF AtStage, StageKase, Bare

LEMMA BatchSeeds ==
  ASSUME TypeInv, AgreeInv, SeedInv, NEW p \in Processes, DeleteBatch(p)
  PROVE  SeedInv'
<1> DEFINE n == [Loading(SeedStep(1)) EXCEPT !.since = resets', !.reset = TRUE]
<1>1. Become(p, n)
  BY DEF DeleteBatch, SeedStep
<1>2. n.pc = "loading" /\ n.task = SeedStep(1) /\ n.since = resets' /\ n.reset = TRUE
  BY DEF Loading
<1> HIDE DEF n
<1>3. ~raced' => /\ ~raced /\ \A q \in Processes \ {p} : ~InReset(q)
                 /\ \A q \in Processes : ~Seeding(q)
  BY DEF DeleteBatch, Resetting
<1>4. ASSUME ~raced' PROVE docs' = EmptySnapshot
  BY <1>4, QuietBatch
<1>5. ASSUME ~raced' PROVE SinceReset(n, resets') /\ ResetStands(n, docs')
  <2>1. AtStage(n.task.step, docs') /\ Bare(docs', {})
    BY <1>2, <1>4, <1>5, EmptyIsStageOne, SeedPlansAre
  <2> QED
    BY <1>2, <2>1 DEF SinceReset, ResetStands, Busy
<1>6. ASSUME ~raced' PROVE StageKnown(docs', process')
  <2>1. AtStage(1, docs')
    BY <1>4, <1>6, EmptyIsStageOne
  <2> QED
    BY <2>1 DEF StageKnown
<1> QED
  BY <1>1, <1>3, <1>5, <1>6, SeedAlone

LEMMA AppendSeeds ==
  ASSUME TypeInv, AgreeInv, SeedInv, NEW p \in Processes, AppendBaselineRun(p)
  PROVE  SeedInv'
<1> DEFINE appended == docs.kase.version = 4 /\ "baseline" \notin index.owned.runs
           n == Ended(appended)
<1>1. /\ Become(p, n) /\ process[p].pc = "appending" /\ raced' = (raced \/ Resetting(p))
      /\ resets' = resets /\ died' = died
      /\ appended => docs' = [docs EXCEPT !.runs = @ \cup {"baseline"}]
  BY DEF AppendBaselineRun
<1>2. ~raced' => ~raced /\ \A q \in Processes \ {p} : ~InReset(q)
  BY <1>1 DEF Resetting
<1>3. n.pc = "ended" /\ n.ok = appended
  BY DEF Ended
<1>4. ASSUME ~raced' PROVE n.ok /\ AtStage(5, docs') /\ Bare(docs', {"baseline"})
  <2>1. AtStage(5, docs) /\ Bare(docs, {}) /\ Agreed(index, docs)
    BY <1>1, <1>2, <1>4 DEF SeedInv, ResetStands, AgreeInv
  <2>2. docs.kase.version = 4
    BY <2>1, StageKaseIs DEF AtStage
  <2>3. index.owned.runs = {}
    BY <2>1, OwnedDocsIs DEF Agreed, Bare
  <2>4. docs' = [docs EXCEPT !.runs = @ \cup {"baseline"}] /\ appended
    BY <1>1, <2>2, <2>3
  <2>5. /\ docs'.runs = {"baseline"}
        /\ \A f \in Fields : f # "runs" => docs'[f] = docs[f]
    BY <2>1, <2>4 DEF TypeInv, DocsOK, IsRecord, Fields, Bare
  <2> HIDE DEF n, appended
  <2>6. AtStage(5, docs') /\ Bare(docs', {"baseline"})
    BY <2>1, <2>5 DEF AtStage, Bare, Fields
  <2> QED
    BY <1>3, <2>4, <2>6
<1> HIDE DEF n
<1>5. ASSUME ~raced' PROVE SinceReset(n, resets') /\ ResetStands(n, docs')
  BY <1>3, <1>4, <1>5 DEF SinceReset, ResetStands, Busy
<1>6. ASSUME ~raced' PROVE StageKnown(docs', process')
  BY <1>4, <1>6 DEF StageKnown
<1> QED
  BY <1>1, <1>2, <1>5, <1>6, SeedAlone

LEMMA PartnerSeeds ==
  ASSUME TypeInv, SeedInv, NEW r \in PartnerRequests,
         CreatePartnerRequest(r) \/ UpdatePartnerReceipt(r)
  PROVE  SeedInv'
<1>1. /\ process' = process /\ resets' = resets /\ died' = died
      /\ raced' = (raced \/ \E q \in Processes : InReset(q))
      /\ \A f \in Fields : f # "receipts" => docs'[f] = docs[f]
  BY DEF CreatePartnerRequest, UpdatePartnerReceipt, TypeInv, DocsOK, IsRecord
<1> SUFFICES ASSUME ~raced'
             PROVE  /\ \A q \in Processes : SinceReset(process'[q], resets')
                                            /\ ResetStands(process'[q], docs')
                    /\ ~died' => StageKnown(docs', process')
  BY DEF SeedInv
<1>2. ~raced /\ \A q \in Processes : ~InReset(q)
  BY <1>1
<1>3. \A k : AtStage(k, docs) => AtStage(k, docs')
  BY <1>1 DEF AtStage, Fields
<1>4. docs'.events = docs.events
  BY <1>1 DEF Fields
<1>5. ~died' => StageKnown(docs', process')
  BY <1>1, <1>2, <1>3, <1>4 DEF SeedInv, StageKnown
<1> QED
  BY <1>1, <1>2, <1>5, OutsideReset DEF SeedInv

LEMMA SeedKept == TypeInv /\ FreshInv /\ AgreeInv /\ SeedInv /\ [Next]_vars => SeedInv'
<1> SUFFICES ASSUME TypeInv, FreshInv, AgreeInv, SeedInv, [Next]_vars PROVE SeedInv'
  OBVIOUS
<1>1. ASSUME NEW p \in Processes, Deliver(p) \/ Evaluate(p) \/ SeedDemo(p) PROVE SeedInv'
  <2>1. PICK task : /\ TaskOK(task) /\ Start(p, task)
                    /\ task.kind = "seed" => task.step = 1
    BY <1>1, StartIs
  <2> QED
    BY <2>1, StartSeeds
<1>2. CASE UNCHANGED vars
  BY <1>2 DEF vars, SeedInv
<1>3. CASE Next
  BY <1>1, <1>3, ReadSeeds, CommitSeeds, RestSeeds, BatchSeeds, AppendSeeds, PartnerSeeds DEF Next
<1> QED
  BY <1>2, <1>3

LEMMA AlwaysSeeded == Spec => [](TypeInv /\ SeedInv)
<1>1. Init => SeedInv
  <2> SUFFICES ASSUME Init PROVE SeedInv
    OBVIOUS
  <2>1. docs = EmptySnapshot /\ \A p \in Processes : process[p] = Idle
    BY DEF Init
  <2>2. StageKnown(docs, process)
    BY <2>1, EmptyIsStageOne DEF StageKnown
  <2> QED
    BY <2>1, <2>2, IdleStands DEF SeedInv
<1> QED
  BY <1>1, SeedKept, AlwaysAgreed, AlwaysTyped, PTL DEF Spec

\* A demo case left unfinished has a cause: it is being seeded still, its seed died, an event
\* overtook it or a commit fell into a reset.  Any number of seeds at once is safe.
THEOREM HalfSeededHasCauseHolds == Spec => []HalfSeededHasCause
<1>1. ASSUME TypeInv, SeedInv PROVE HalfSeededHasCause
  <2> SUFFICES ASSUME HalfSeeded, ~died, ~raced,
                      \A e \in docs.events : e \in {IntakeEvent, EvidenceEvent}
               PROVE  \E p \in Processes : Seeding(p)
    BY DEF HalfSeededHasCause
  <2>1. PICK k \in 1 .. 5 : /\ AtStage(k, docs)
                            /\ k \in 2 .. 4 => \E p \in Processes : SeederAt(process[p], k)
    BY <1>1 DEF SeedInv, StageKnown, SeedEvents
  <2>2. k # 1
    BY <2>1 DEF AtStage, StageKase, HalfSeeded
  <2>3. k # 5
    <3>1. ASSUME k = 5 PROVE EvidenceEvent.id \in AuditIds(docs.audits)
      <4>1. docs.audits = <<IntakeAudit, EvidenceAudit>>
        BY <2>1, <3>1 DEF AtStage
      <4>2. 2 \in DOMAIN docs.audits /\ docs.audits[2] = EvidenceAudit
        BY <4>1
      <4> QED
        BY <4>2, SeedIds DEF AuditIds
    <3> QED
      BY <3>1 DEF HalfSeeded
  <2>4. PICK p \in Processes : SeederAt(process[p], k)
    BY <2>1, <2>2, <2>3
  <2>5. Seeding(p)
    BY <2>4, SeedPlansAre DEF SeederAt, Seeding, Busy
  <2> QED
    BY <2>5
<1> QED
  BY <1>1, AlwaysSeeded, PTL

\* A reset that no commit of others falls into ends well: it leaves the baseline of the demo
\* case at version 4 with its analysis, and nothing of the case that was there before.
THEOREM QuietResetRestoresHolds == Spec => []QuietResetRestores
<1>1. ASSUME TypeInv, SeedInv PROVE QuietResetRestores
  <2> SUFFICES ASSUME NEW p \in Processes, process[p].pc = "ended", ~raced
               PROVE  /\ process[p].ok
                      /\ docs = [f \in DOMAIN docs |-> IF f = "runs" THEN {"baseline"}
                                  ELSE IF f = "receipts" THEN EmptySnapshot.receipts
                                  ELSE SeededCase[f]]
    BY DEF QuietResetRestores
  <2>1. process[p].ok /\ AtStage(5, docs) /\ Bare(docs, {"baseline"})
    BY <1>1 DEF SeedInv, ResetStands
  <2>2. DOMAIN docs = Fields /\ docs = [f \in Fields |-> docs[f]]
    BY <1>1 DEF TypeInv, DocsOK, IsRecord
  <2>3. /\ docs.kase = SeededCase.kase /\ docs.events = SeededCase.events
        /\ docs.evidence = SeededCase.evidence /\ docs.claims = SeededCase.claims
        /\ docs.transactions = SeededCase.transactions /\ docs.audits = SeededCase.audits
        /\ docs.requests = SeededCase.requests
    BY <2>1, SeededIs DEF AtStage
  <2>4. docs.runs = {"baseline"} /\ docs.receipts = EmptySnapshot.receipts
    BY <2>1 DEF Bare
  <2>5. \A f \in Fields : docs[f] = IF f = "runs" THEN {"baseline"}
                                    ELSE IF f = "receipts" THEN EmptySnapshot.receipts
                                    ELSE SeededCase[f]
    BY <2>3, <2>4 DEF Fields
  <2> QED
    BY <2>1, <2>2, <2>5
<1> QED
  BY <1>1, AlwaysSeeded, PTL
=============================================================================
