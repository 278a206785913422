--------------------------- MODULE FirestoreStore ---------------------------
(***************************************************************************)
(* The connected store: one document per record, three index collections   *)
(* (event receipts, provider object receipts, record ownership), and two   *)
(* ways of reading a case.  A commit reads and writes in one transaction;  *)
(* loadCaseBundle does not: it reads the case document and then each       *)
(* collection by itself, so commits of others fall between the reads and a *)
(* plan may be made from a case no transaction ever held.                  *)
(*                                                                         *)
(* Processes of the engine and of the web deliver events, evaluate the     *)
(* resolution, seed the demo case (four commits, each expecting the one    *)
(* before) and reset it (a plan of what to delete, one batch, a seed, and  *)
(* the baseline analysis).  Any of them may die between two of its calls.  *)
(*                                                                         *)
(* One case exists, so ownership refuses only records that may never be    *)
(* written twice; parties, claims and deadlines are left out of the index. *)
(***************************************************************************)
EXTENDS CaseStore

CONSTANTS
  Processes,   \* requests in progress, in the engine and in the web
  ResetLimit,  \* MAX_RESET_DOCUMENTS
  MaxResets    \* bound: resets in a behaviour

ASSUME FirestoreAssumption ==
  ResetLimit \in Nat /\ MaxResets \in Nat

VARIABLES
  docs,        \* the documents of the case, by collection
  index,       \* the documents of the three index collections
  process,     \* what each process is doing
  resets,      \* batches of deletions so far
  died,        \* history: a seed died and left the case unfinished
  raced        \* history: a commit fell into a reset, or a reset into a seed

vars == <<docs, index, process, resets, died, raced>>

NoCase == [state |-> "ABSENT", version |-> 0, parties |-> {}, stamped |-> {}]
NoAudit == [trigger |-> NoEvent, previous |-> "NEW", resulting |-> "NEW", evidence |-> {}]
Idle == [pc |-> "idle"]

\* What a transaction reads when the case document does not exist, whatever is left of the rest.
EmptySnapshot ==
  [kase |-> NoCase, events |-> {}, evidence |-> {}, claims |-> {}, transactions |-> {},
   audits |-> <<>>, requests |-> [v \in {} |-> NewRequest],
   receipts |-> [r \in {} |-> NewRequest], runs |-> {}]

Snapshot == IF docs.kase = NoCase THEN EmptySnapshot ELSE docs

\* The ids under which an ownership document exists, by kind.
AuditIds(audits) == { audits[i].trigger : i \in DOMAIN audits }

OwnedDocs(d) ==
  [events |-> IdsOf(d.events), evidence |-> IdsOf(d.evidence), audits |-> AuditIds(d.audits),
   transactions |-> IdsOf(d.transactions), requests |-> DOMAIN d.requests,
   receipts |-> DOMAIN d.receipts, runs |-> d.runs]

OwnedKinds == DOMAIN OwnedDocs(EmptySnapshot)
NothingOwned == [kind \in OwnedKinds |-> {}]

Init ==
  /\ docs = EmptySnapshot
  /\ index = [events |-> {}, objects |-> {}, owned |-> NothingOwned]
  /\ process = [p \in Processes |-> Idle]
  /\ resets = 0
  /\ died = FALSE
  /\ raced = FALSE

-----------------------------------------------------------------------------
(***************************************************************************)
(* Plans.  A task is an event to process, a version to evaluate, or a step *)
(* of the seed.                                                            *)
(***************************************************************************)
SeedTransition(b, target, event, evidenceIds) ==
  Mutation(b.kase.version, TransitionedCase(b.kase, target),
           IF event.id \in IdsOf(b.events) THEN {} ELSE {event}, {}, {}, {},
           TransitionAudit(b.kase, target, event, evidenceIds), {})

InitialCase ==
  [state |-> "NEW", version |-> 1, parties |-> {"customer", "merchant"}, stamped |-> {}]

\* The four commits of seedDemoCase; a transition the matrix refuses ends it.
SeedPlans(step, b) ==
  CASE step = 1 ->
         {Mutation(0, InitialCase, {}, {}, {}, {}, NoAudit, {})}
    [] step = 2 ->
         { m \in {SeedTransition(b, "EVIDENCE_COLLECTION", IntakeEvent, {})} :
             TransitionAllowed(b.kase, "EVIDENCE_COLLECTION", IntakeEvent.kind, {}) }
    [] step = 3 ->
         {Mutation(b.kase.version, [b.kase EXCEPT !.version = @ + 1], {EvidenceEvent},
                   SeededCase.evidence, SeededCase.claims, {}, NoAudit, {})}
    [] step = 4 ->
         { m \in {SeedTransition(b, "INVESTIGATING", EvidenceEvent, {EvidenceEvent.id})} :
             TransitionAllowed(b.kase, "INVESTIGATING", EvidenceEvent.kind, {EvidenceEvent.id}) }

EventPlan(b, e) ==
  AttachOutbox(IF e.kind = "PARTNER_EVIDENCE_SUBMITTED"
                 THEN PlanPartnerEvidence(b, e) ELSE PlanProviderRefund(b, e))

EventTaken(b, e) ==
  /\ e.id \notin IdsOf(b.events)
  /\ e.kind = "PARTNER_EVIDENCE_SUBMITTED" =>
       RequestOf(e) \in DOMAIN b.receipts /\ PartnerEventValid(b, e)

EvaluationPlans(b, version) ==
  IF b.kase.version = version /\ ResolutionReady(b)
    THEN { AttachOutbox(PlanResolution(b, cited)) : cited \in ResolutionEvidence(b) }
    ELSE {}

\* What a process that read b commits; nothing when its handler returns or throws first.
Plans(task, b) ==
  CASE task.kind = "event"    -> IF EventTaken(b, task.event) THEN {EventPlan(b, task.event)} ELSE {}
    [] task.kind = "evaluate" -> EvaluationPlans(b, task.version)
    [] task.kind = "seed"     -> SeedPlans(task.step, b)

\* The collections a task's plan looks at; all are read.
Looks(task) ==
  CASE task.kind = "event"    -> IF task.event \in ProviderEvents THEN {"events"}
                                   ELSE {"events", "receipts", "transactions"}
    [] task.kind = "evaluate" -> {"evidence", "claims", "transactions"}
    [] task.kind = "seed"     -> {"events"}

\* The plan is empty whatever the reads still to come bring.
Settled(task, view) ==
  \/ task.kind = "event" /\ task.event.id \in IdsOf(view.events)
  \/ /\ task.kind = "evaluate"
     /\ view.kase.version # task.version \/ view.kase.state # "RESOLUTION_PENDING"

-----------------------------------------------------------------------------
Loading(task) == [pc |-> "loading", task |-> task, view |-> EmptySnapshot,
                  unread |-> {"kase"} \cup Looks(task), since |-> resets, reset |-> FALSE]

Become(p, local) == process' = [process EXCEPT ![p] = local]

\* A reset goes on where its seed returns; a seed that throws ends it.
Return(local) == IF local.reset THEN [local EXCEPT !.pc = "verifying"] ELSE Idle
Throw(local) == IF local.reset THEN [pc |-> "ended", ok |-> FALSE] ELSE Idle

\* Mutant: the collections are read beside the case document, in any order.
NextReadsAnyOrder(unread) == unread

\* loadCaseBundle: the case document first, then the collections, each when its read is served.
NextReads(unread) == IF "kase" \in unread THEN {"kase"} ELSE unread

\* The last read of a load is followed by the plan, with no store call in between.
Planned(local) ==
  LET plans == Plans(local.task, local.view) IN
  IF plans = {}
    THEN {IF local.task.kind = "seed" THEN Throw(local) ELSE Idle}
    ELSE { [pc |-> "planned", task |-> local.task, mutation |-> m, since |-> local.since,
            reset |-> local.reset] : m \in plans }

\* Where a process may stand after its next read.
AfterRead(local) ==
  UNION { LET seen == [local EXCEPT !.view[c] = docs[c], !.unread = @ \ {c}]
              missing == c = "kase" /\ docs.kase = NoCase
          IN  IF local.task = [kind |-> "seed", step |-> 1]
                THEN (IF missing THEN Planned(seen) ELSE {Return(local)})
              ELSE IF missing
                THEN {IF local.task.kind = "seed" THEN Throw(local) ELSE Idle}
              ELSE IF seen.unread = {} \/ Settled(local.task, seen.view) THEN Planned(seen)
              ELSE {seen} :
          c \in NextReads(local.unread) }

Read(p) ==
  /\ process[p].pc = "loading"
  /\ \E local \in AfterRead(process[p]) : Become(p, local)
  /\ UNCHANGED <<docs, index, resets, died, raced>>

\* Bound: after a raced reset the requests in progress run to their end and none starts.
StartBound == ~raced

\* A request is in progress from its first read on.
Start(p, task) ==
  /\ process[p].pc = "idle" /\ StartBound
  /\ \E local \in AfterRead(Loading(task)) : Become(p, local)
  /\ UNCHANGED <<docs, index, resets, died, raced>>

Deliver(p) == \E e \in ProviderEvents \cup PartnerEvents : Start(p, [kind |-> "event", event |-> e])
Evaluate(p) == \E v \in DOMAIN docs.requests : Start(p, [kind |-> "evaluate", version |-> v])
SeedDemo(p) == Start(p, [kind |-> "seed", step |-> 1])

-----------------------------------------------------------------------------
(***************************************************************************)
(* commitCaseMutation, one transaction: the indexes are asked before the   *)
(* version, the stored records before the write.                           *)
(***************************************************************************)
Owned(m) ==
  [NothingOwned EXCEPT
     !.events = IdsOf(m.events), !.evidence = IdsOf(m.evidence),
     !.audits = IF m.audit = NoAudit THEN {} ELSE {m.audit.trigger},
     !.transactions = IdsOf(m.transactions), !.requests = m.requests]

Unowned(owned) == \A kind \in OwnedKinds : owned[kind] \cap index.owned[kind] = {}

Own(owned) == [kind \in OwnedKinds |-> index.owned[kind] \cup owned[kind]]

\* applyCaseMutation, for mutations that may create the case or carry no audit record.
Validated(d, m) ==
  IF ~VersionMatches(d, m) THEN "VERSION_CONFLICT"
  ELSE IF HasDuplicateEventId(d, m) THEN "DUPLICATE_EVENT"
  ELSE IF /\ ~HasDuplicateRecord(d, m)
          /\ RecordsRefer(d, m)
          /\ \A a \in { d.audits[i] : i \in DOMAIN d.audits } :
               a.trigger \in IdsOf(d.events) /\ a.evidence \subseteq IdsOf(d.evidence)
          /\ IF m.audit = NoAudit THEN d.kase = NoCase \/ d.kase.state = m.kase.state
             ELSE AuditRefers(d, m)
    THEN "COMMITTED" ELSE "CASE_INTEGRITY_ERROR"

\* Mutant: a creation is not compared with the stored case.
CommitAnswerRecreating(m) ==
  IF m.expected = 0 THEN "COMMITTED" ELSE Validated(Snapshot, m)

CommitAnswer(m) ==
  LET receipts == { e \in index.events : e.id \in IdsOf(m.events) } IN
  IF receipts # {}
    THEN IF receipts \subseteq m.events THEN "DUPLICATE_EVENT" ELSE "CASE_INTEGRITY_ERROR"
  ELSE IF IdsOf(m.transactions) \cap index.objects # {} \/ ~Unowned(Owned(m))
    THEN "CASE_INTEGRITY_ERROR"
  ELSE Validated(Snapshot, m)

Write(m) ==
  docs' = [ApplyMutation(docs, m) EXCEPT !.audits = IF m.audit = NoAudit THEN docs.audits ELSE @]

\* Mutant: the receipts of provider objects are not written.
WriteIndexesNoObjects(m) ==
  index' = [index EXCEPT !.events = @ \cup m.events, !.owned = Own(Owned(m))]

WriteIndexes(m) ==
  index' = [events  |-> index.events \cup m.events,
            objects |-> index.objects \cup IdsOf(m.transactions),
            owned   |-> Own(Owned(m))]

\* Whether a process is inside a reset, or has just left one.
InReset(q) ==
  process[q].pc \in {"deleting", "verifying", "appending", "ended"} \/
  (process[q].pc \in {"loading", "planned"} /\ process[q].reset)

Resetting(p) == \E q \in Processes \ {p} : InReset(q)

Seeding(p) == process[p].pc \in {"loading", "planned"} /\ process[p].task.kind = "seed"

HalfSeeded == docs.kase # NoCase /\ EvidenceEvent.id \notin AuditIds(docs.audits)

\* Where a process stands after its commit: a seed goes on to its next step.
Committed(local) ==
  IF local.task.kind # "seed" THEN Idle
  ELSE IF local.task.step = 4 THEN Return(local)
  ELSE [Loading([local.task EXCEPT !.step = @ + 1]) EXCEPT
          !.since = local.since, !.reset = local.reset]

Commit(p) ==
  LET local == process[p]
      m == local.mutation
  IN
  /\ local.pc = "planned"
  /\ IF CommitAnswer(m) = "COMMITTED"
       THEN /\ Write(m) /\ WriteIndexes(m)
            /\ Become(p, Committed(local))
            /\ raced' = (raced \/ Resetting(p))
       ELSE /\ Become(p, IF local.task.kind = "seed" THEN Throw(local) ELSE Idle)
            /\ UNCHANGED <<docs, index, raced>>
  /\ UNCHANGED <<resets, died>>

-----------------------------------------------------------------------------
(***************************************************************************)
(* Partner requests: the case version does not change.                     *)
(***************************************************************************)
CreatePartnerRequest(r) ==
  /\ docs.kase # NoCase /\ r \notin DOMAIN docs.receipts
  /\ r \notin index.owned.receipts
  /\ docs' = [docs EXCEPT !.receipts =
       [q \in DOMAIN @ \cup {r} |-> IF q = r THEN [state |-> "OPEN", event |-> NoEvent] ELSE @[q]]]
  /\ index' = [index EXCEPT !.owned.receipts = @ \cup {r}]
  /\ raced' = (raced \/ \E q \in Processes : InReset(q))
  /\ UNCHANGED <<process, resets, died>>

\* What reserving a token and marking it published make of its receipt; release, which the
\* web never calls, is in PartnerSubmission.
ReceiptAfter(r, receipt) ==
  CASE receipt.state = "OPEN" ->
         { [state |-> "RESERVED", event |-> e.id] : e \in { x \in PartnerEvents : RequestOf(x) = r } }
    [] receipt.state = "RESERVED" -> {[receipt EXCEPT !.state = "PUBLISHED"]}
    [] OTHER -> {}

UpdatePartnerReceipt(r) ==
  /\ docs.kase # NoCase /\ r \in DOMAIN docs.receipts
  /\ \E receipt \in ReceiptAfter(r, docs.receipts[r]) :
       docs' = [docs EXCEPT !.receipts[r] = receipt]
  /\ raced' = (raced \/ \E q \in Processes : InReset(q))
  /\ UNCHANGED <<index, process, resets, died>>

-----------------------------------------------------------------------------
(***************************************************************************)
(* resetConnectedRv1028.  The code plans collection by collection; here    *)
(* the plan is one read: a commit that falls between two of its reads is,  *)
(* like one after it, a commit that raced the reset.                       *)
(***************************************************************************)
DocumentCount ==
  LET owned == OwnedDocs(docs) IN
  (IF docs.kase = NoCase THEN 0 ELSE 1) + Cardinality(docs.claims)
    + 2 * (Cardinality(owned.events) + Cardinality(owned.evidence)
             + Cardinality(owned.transactions) + Cardinality(owned.requests))
    + Cardinality(index.events) + Cardinality(index.objects)

PlanReset(p) ==
  /\ process[p].pc = "idle"
  /\ resets + Cardinality({ q \in Processes : process[q].pc = "deleting" }) < MaxResets
  /\ Become(p, IF DocumentCount > ResetLimit THEN Idle
               ELSE [pc |-> "deleting", docs |-> docs, index |-> index])
  /\ UNCHANGED <<docs, index, resets, died, raced>>

\* Mutant: the deleted case leaves a cleared document behind.
CaseLeftCleared(plan) ==
  IF plan.docs.kase = NoCase THEN docs.kase ELSE [docs.kase EXCEPT !.version = 0]

CaseLeft(plan) == IF plan.docs.kase = NoCase THEN docs.kase ELSE NoCase

\* The audit documents that are not deleted, in their order.
KeptAudits(audits, deleted) ==
  LET kept == { i \in DOMAIN audits : audits[i].trigger \notin deleted }
  IN  [j \in 1 .. Cardinality(kept) |->
         audits[CHOOSE i \in kept : Cardinality({ h \in kept : h < i }) = j - 1]]

Without(function, keys) == [k \in DOMAIN function \ keys |-> function[k]]

DocumentsLeft(plan) ==
  [kase |-> CaseLeft(plan),
   events |-> docs.events \ plan.docs.events,
   evidence |-> docs.evidence \ plan.docs.evidence,
   claims |-> { c \in docs.claims : c.id \notin IdsOf(plan.docs.claims) },
   transactions |-> docs.transactions \ plan.docs.transactions,
   audits |-> KeptAudits(docs.audits, AuditIds(plan.docs.audits)),
   requests |-> Without(docs.requests, DOMAIN plan.docs.requests),
   receipts |-> Without(docs.receipts, DOMAIN plan.docs.receipts),
   runs |-> docs.runs \ plan.docs.runs]

\* Mutant: the receipts of events are not in the list of collections to delete.
IndexesLeftEvents(plan) ==
  [events |-> index.events,
   objects |-> index.objects \ plan.index.objects,
   owned |-> [kind \in OwnedKinds |-> index.owned[kind] \ plan.index.owned[kind]]]

IndexesLeft(plan) ==
  [events |-> index.events \ plan.index.events,
   objects |-> index.objects \ plan.index.objects,
   owned |-> [kind \in OwnedKinds |-> index.owned[kind] \ plan.index.owned[kind]]]

DeleteBatch(p) ==
  /\ process[p].pc = "deleting"
  /\ docs' = DocumentsLeft(process[p])
  /\ index' = IndexesLeft(process[p])
  /\ resets' = resets + 1
  /\ Become(p, [Loading([kind |-> "seed", step |-> 1]) EXCEPT !.since = resets', !.reset = TRUE])
  /\ died' = FALSE
  /\ raced' = (raced \/ Resetting(p) \/ \E q \in Processes : Seeding(q))

AtBaseline(b) == b.kase.version = 4 /\ b.kase.state = "INVESTIGATING"

Ended(ok) == [pc |-> "ended", ok |-> ok]

VerifyReset(p) ==
  /\ process[p].pc = "verifying"
  /\ Become(p, IF AtBaseline(docs) THEN [process[p] EXCEPT !.pc = "appending"] ELSE Ended(FALSE))
  /\ UNCHANGED <<docs, index, resets, died, raced>>

\* appendAgentRun of the baseline run, pinned to version 4.
AppendBaselineRun(p) ==
  LET appended == docs.kase.version = 4 /\ "baseline" \notin index.owned.runs IN
  /\ process[p].pc = "appending"
  /\ IF appended THEN /\ docs' = [docs EXCEPT !.runs = @ \cup {"baseline"}]
                      /\ index' = [index EXCEPT !.owned.runs = @ \cup {"baseline"}]
     ELSE UNCHANGED <<docs, index>>
  /\ Become(p, Ended(appended))
  /\ raced' = (raced \/ Resetting(p))
  /\ UNCHANGED <<resets, died>>

LeaveReset(p) ==
  /\ process[p].pc = "ended"
  /\ Become(p, Idle)
  /\ UNCHANGED <<docs, index, resets, died, raced>>

Crash(p) ==
  /\ process[p].pc \notin {"idle", "ended"}
  /\ died' = (died \/ (Seeding(p) /\ HalfSeeded))
  /\ Become(p, Idle)
  /\ UNCHANGED <<docs, index, resets, raced>>

Next ==
  \/ \E p \in Processes :
       \/ Deliver(p) \/ Evaluate(p) \/ SeedDemo(p) \/ Read(p) \/ Commit(p)
       \/ PlanReset(p) \/ DeleteBatch(p) \/ VerifyReset(p) \/ AppendBaselineRun(p)
       \/ LeaveReset(p) \/ Crash(p)
  \/ \E r \in PartnerRequests : CreatePartnerRequest(r) \/ UpdatePartnerReceipt(r)

Spec == Init /\ [][Next]_vars

-----------------------------------------------------------------------------
\* Types of the documents and of what a process may be at; a stored case has a version.
TypeOK ==
  /\ docs.kase = NoCase \/ (docs.kase \in CaseRecord /\ docs.kase.version > 0)
  /\ docs.events \cup index.events \subseteq Event
  /\ docs.audits \in Seq(Audit)
  /\ \A r \in DOMAIN docs.receipts : docs.receipts[r] \in Receipt
  /\ index.objects \cup IdsOf(docs.transactions) \subseteq Providers \X Refunds
  /\ index.owned.events \cup index.owned.evidence \cup index.owned.audits \subseteq EventId
  /\ \A p \in Processes : process[p].pc \in
       {"idle", "loading", "planned", "deleting", "verifying", "appending", "ended"}
  /\ resets \in Nat
  /\ died \in BOOLEAN /\ raced \in BOOLEAN

\* The index collections name exactly the documents there are: a commit, a partner request
\* and a reset keep both in step, unless a commit falls into a reset.
IndexesAgree ==
  ~raced => index = [events |-> docs.events, objects |-> IdsOf(docs.transactions),
                     owned |-> OwnedDocs(docs)]

\* The mutations that the case as stored now calls for, the state of tokens aside.
FreshPlans(task) ==
  IF task.kind = "event" THEN {EventPlan(Snapshot, task.event)} ELSE Plans(task, Snapshot)

\* Although a load is torn, what is committed is the plan of the case it is committed to:
\* the case document is read first and its version refuses every plan made from collections
\* a later commit changed.  A plan that outlives a reset is not covered: versions begin anew.
PlansAreFresh ==
  [][\A p \in Processes :
       /\ process[p].pc = "planned" /\ process'[p] # process[p]
       /\ docs' # docs /\ process[p].since = resets
       => process[p].mutation \in FreshPlans(process[p].task)]_vars

\* A case seedDemoCase left unfinished, which every later call takes for seeded, is being
\* seeded still, or its seed died or was overtaken by an event: two seeds at once are safe.
HalfSeededHasCause ==
  HalfSeeded => \/ died \/ raced \/ \E p \in Processes : Seeding(p)
                \/ \E e \in docs.events : e \notin {IntakeEvent, EvidenceEvent}

\* A reset that no commit fell into ends well, with the version 4 baseline and its indexes
\* and nothing of the case that was there.
QuietResetRestores ==
  \A p \in Processes :
    process[p].pc = "ended" /\ ~raced =>
      /\ process[p].ok
      /\ docs = [f \in DOMAIN docs |-> IF f = "runs" THEN {"baseline"}
                  ELSE IF f = "receipts" THEN EmptySnapshot.receipts ELSE SeededCase[f]]
=============================================================================
