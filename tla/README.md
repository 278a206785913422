# A verification model of Resolvia

Resolvia follows a disputed refund through a case: signed provider events and
scoped partner responses become evidence, claims and transactions; a case is
RESOLVED only when the stored evidence satisfies fixed gates; an agent may
comment on the case but never change it. The program is a set of stateless
request handlers over one transactional store. Everything that is hard about it
follows from that shape: a handler loads a bundle, plans a mutation from it, and
commits later under an expected case version, while the broker redelivers, the
automation worker evaluates, leases expire and instances are lost.

These modules model the core of that program and what surrounds it, model-check
it on small instances with TLC, and prove nearly all of its safety properties
for every instance with TLAPS. Paths below are relative to the repository
root.

## Contents

| file | role |
| --- | --- |
| `CaseStore.tla` | records of a case, the transition matrix, the planning policies, the outbox, the resolution gates and the store boundary (no variables) |
| `CaseResolution.tla` | the concurrent system around one case: ingress, partner tokens, broker, handlers, callers, evaluation workers |
| `CaseResolution_proofs.tla` | the theorems about `CaseResolution` and their proofs |
| `PartnerSubmission_proofs.tla`, `DemoWebhook_proofs.tla`, `Automation_proofs.tla`, `FirestoreStore_proofs.tla` | the same for the other four systems |
| `IngressReplay.tla` | the decisions of the replay guard and of the rate limiter (no variables) |
| `DemoWebhook.tla` | the signed demo provider webhook, await by await, over both |
| `PartnerSubmission.tla` | the life of a partner request between portal, engine and broker |
| `ScopedAnswer.tla` | the abstract promise `PartnerSubmission` implements |
| `CaseProjection.tla` | truth graph, readiness, evidence request drafts, workspace view (functions of a case) |
| `AgentPolicy.tla` | agent input, canonical proposal, validation, run record and its acceptance (functions of a case) |
| `Automation.tla` | the automation queue with its clock, and the agent's analyses, over both |
| `FirestoreStore.tla` | documents and index collections, torn loads, the seed and the reset of the demo case |
| `MC*.tla` + `*.cfg` | the finite instances TLC runs |
| `PROJECT.json` | components, runs, mutants, source map, findings, hazards, theorems |

`CaseStore` is extended by `CaseResolution`, `FirestoreStore` and
`CaseProjection`; `AgentPolicy` extends `CaseProjection`, and `Automation`
extends `AgentPolicy`. So planner, gates and store boundary are written once and
every module that commits to a case commits the same mutations.

## Inventory of the system

| component | state it keeps | operations | what makes it correct | module |
| --- | --- | --- | --- | --- |
| case lifecycle (`src/domain/cases`, `transition-case.ts`) | case record | `planCaseTransition`, `transitionCase` | the state moves along the matrix; one audit record per move | CaseStore, CaseResolution |
| store boundary (`src/domain/store/apply-mutation.ts`) | snapshot of all records | `applyCaseMutation` | all or nothing; version, duplicate and reference checks | CaseStore |
| provider and partner events | none | load, plan, attach outbox, commit, recheck | one semantic effect per event | CaseStore, CaseResolution |
| resolution evaluation | none | `planAutomatedResolutionEvaluation` | no resolution without both kinds of evidence, none over a contradiction | CaseStore, CaseResolution |
| automation queue and worker | requests: state, lease, retries, due date | attach, list, claim, complete, batch | exclusive under a lease, bounded attempts, due work reached | Automation, CaseResolution |
| agent analysis and Gemini adapter | agent runs | load, ask, judge, append | a run is pinned to what it read; all layers judge a proposal alike | AgentPolicy, Automation |
| projections and WebMCP drafts | none | pure functions | agree with the gates and with each other | CaseProjection, Automation |
| partner submission | token receipt per request | create, access, reserve, mark, publish, release | one answer per request, in time, consumable | PartnerSubmission, ScopedAnswer |
| push delivery (Pub/Sub) | none | decode, process, acknowledge or retry | nothing acknowledged that is not settled | CaseResolution |
| demo provider ingress, replay guard, rate limiter | receipt per nonce, counter per window | authenticate, consume, claim, publish, mark, release | accepted means published, one live lease, one payload per nonce | IngressReplay, DemoWebhook |
| Firestore store | documents, event and object receipts, ownership | transactions, a non-transactional load | indexes match documents, stale plans refused | FirestoreStore |
| seed and reset of the demo case | the case RV-1028 | four commits; plan, delete, seed, verify | ends in the baseline | FirestoreStore |
| Stripe ingress | none | verify, normalise, publish | every supported event is processed | CaseResolution (events only) |
| JSON and in-memory stores; sessions; retention; UI; release scripts | | | | not modelled, see below |

Interactions: ingress routes publish events; the push route calls the event
processors; every writer goes through the store; a commit leaves automation
requests that the worker claims from the same store; the worker commits through
it again or appends an agent run. The hard behaviours, each at the line where it
bites, are the `hazards` of `PROJECT.json`.

## How the models correspond to the code

### The case and its writers (`CaseStore`, `CaseResolution`)

**Data.** `db` is what the store holds for one case: `kase`, `events`,
`evidence`, `claims`, `transactions`, `audits` (a sequence, in commit order),
`requests` (EVALUATE_RESOLUTION requests by the version they are pinned to) and
`receipts` (partner tokens). Ids are built the way the code builds them, so two
records collide in the model when they collide in the code: a transaction is
named by provider and object, a partner event by request and response, an
automated event by version. A payload is a member of a small set. A digest
covers every field of an event, so equal digests are equal records.

**Steps.** A call of the store is one step. What a process holds between two
calls is its local record:

| process | steps (one per store call) |
| --- | --- |
| push delivery (`handlers`) | `DeliverSettled` (duplicate or refused on the first load) or `DeliverPlanned`, `CommitEvent`, `RecheckEvent` after a version conflict |
| `transitionCase` (`callers`) | `PlanTransition`, `CommitTransition` |
| batch (`workers`) | `ClaimRequest`, `DecideRequest`, `CommitResolution`, `CompleteRequest` |
| submission | `ReserveSubmission`, `MarkSubmissionPublished`, `PublishPartnerEvent`, `ReleaseSubmission` |
| broker | `PublishProviderEvent`; delivery of anything in `broker`, as often as `MaxDeliveryAttempts` failures allow |
| failure | `CrashHandler`, `CrashWorker`: the local record is lost, the store is not |

`Init` is the case as `seedDemoCase` leaves it (version 4, INVESTIGATING).
`acks` is a history variable of the acknowledgements. Abstractions: a lease may
expire and a retry fall due at any moment (Automation has the clock); a load is
one step (FirestoreStore has the torn one); an evaluation cites any qualifying
pair of evidence where the code takes the first of each; the broker delivers in
any order, which includes the ordered delivery configured by case id; cases
share no record except through ownership checks, which are left out with the
write count, deadlines, `causationId` and rule ids. `transitionCase` has no
caller but the seed in this repository; the model lets `Callers` use it as an
application would.

### The demo webhook (`IngressReplay`, `DemoWebhook`)

`handler[i]` is the request instance `i` serves and the stage it reached; each
await of `route.ts` is an action (`Authenticate`, `Consume`, `Claim`, `Publish`,
`MarkPublished`, `Release`), with a failing variant (`ConsumeFails`,
`ClaimFails`, `PublishFails`, `MarkFails`) that may or may not have had its
effect, and `Stop` for an instance that is lost. `Refuse` covers the answers
before the first await. A request says what `readBoundedBody` and
`authenticate` find (too large, signed, ...) instead of carrying bytes. A nonce's
digest and semantic id are the body and event it was used for. The instances
read one clock: with skewed clocks a lease would end early by the skew. The
adapter is created per request, so its own nonce map is empty and not modelled.
The TTL cleanup of receipts, documented as not activated, is left out.

### The partner portal (`PartnerSubmission`, `ScopedAnswer`)

`Access` and `Submit` are the two portal routes, `Validate`, `LoadCase`,
`Reserve` and `Mark` the store calls of `preparePartnerResponse`, `EngineFails`
the loss of the engine or of its answer between them, `Publish` and
`PublishUncertain` the portal's publication, `Release` the store operation no
client calls, `Deliver` the commit of the event and `OtherCommit` any other
commit. `ScopedAnswer` says what a partner is promised: the first answer taken
binds the request, and only the bound answer goes out, as often as it is
retried. It is instantiated with `bound` read off the receipts and `emitted` off
the topic; `OneAnswerPerRequest` is its specification as a property.

### Automation and the agent (`CaseProjection`, `AgentPolicy`, `Automation`)

`queue` holds the three requests every commit leaves, by version and kind; a
worker is one batch: `StartBatch` lists (two stages, as Firestore does: a window
of three times the limit by date, then the states), `Claim`, `Load` and the work
of the kind, `Complete`. A batch that takes no further step is one whose
instance died, so no crash action is needed. `CommitEvent` is a whole delivery,
which `CaseResolution` splits. The language model is free: an answer (`Answer`)
names any version, any action, any party or none, and cites what it was given or
an id nobody has; `Answers` is the set a run tries, and the proofs hold for
every such set. `Outages` are the ends of the stream without an answer:
`proposeResolution` makes a FAILURE of them, whose run is stored and whose
request then counts as SUCCEEDED, as `analyzeCase` has it. `JudgeAnswer` chooses
one of these or an exception, builds the run against the bundle of the second
load, and keeps the version the answer named (`workers[w].work.named`).
`PolicyIsValidated` tries every kind of answer and of ending on one bundle. A
behaviour starts after one event was committed and worked through. An answer
about another case (CASE_ID_MISMATCH) needs two cases and is left out, as are
texts, their redaction and the truncation of ids.

### The Firestore store, seed and reset (`FirestoreStore`)

`docs` are the documents by collection, `index` the three index collections. A
process loads the case document and then each collection its plan looks at in
any order (`Start`, `Read`), plans with the last read, and commits in one
transaction (`Commit`): receipts, objects and ownership before the version, the
stored records before the write. `SeedDemo` is four such rounds; a reset is
`PlanReset`, `DeleteBatch`, the seed, `VerifyReset`, `AppendBaselineRun`. `Crash`
may strike at any point. Reads whose outcome no longer matters are skipped
(`Settled`). `died` and `raced` are history variables that name the two causes
the properties except: a process that died, and a commit or a partner request
that fell into a reset (`InReset`), be it a reset of the same process or of
another. The plan of a reset, one query per collection in the
code, is one read; a commit between two of its queries counts as raced either
way.

## What is checked

Deadlock is not checked: each system stops when every event is settled, every
request closed or every clock at its bound, and that is a normal end.

| run | instance | properties | distinct states |
| --- | --- | --- | --- |
| `deliveries` | 2 handlers, 1 worker, one provider event, 2 requests answered yes or no | `TypeOK`, `AuditTrail`, `OneSemanticEffect`, `OneResponsePerRequest`, `NoResolutionOverContradiction` | 768,464 |
| `recovery` | 1 handler, 2 workers, 2 crashes, two timestamps per answer | `AckedMeansStored`, `ResolutionNeverStranded`, `OneSemanticEffect` | 621,301 |
| `callers` | 1 caller with the closing triggers, 1 handler, 1 worker, release allowed | `AuditTrail`, `ResolutionJustified` | 886,512 |
| `liveness` | fair, 1 handler, 1 worker, two providers, 1 crash | `ReadyCaseIsDecided`, `AcceptedEventsSettle` | 62,184 |
| `demo_webhook` | 2 instances, two messages of one nonce and two bad requests, 3 leases | `TypeOK`, `AcceptedMeansPublished`, `OneLiveLease`, `NonceBindsPayload`, `PublicationBudget`, `PublishedIsFinal` | 1,285,694 |
| `partner_submission` | 2 portals, a right and a wrong token, 2 answers, expiry, 2 other commits | `TypeOK`, `TopicConsumable`, `AnsweredInTime`, `StrandedOnlyByFailure`, `OneAnswerPerRequest` | 230,580 |
| `automation` | 2 batches, one provider event, a request answered yes or no, 2 ticks; an answer that always names version 6, and a deadline that passes | `TypeOK`, `AttemptsBounded`, `LiveLeaseIsExclusive`, `AnalysisIsRecorded`, `GroundedRunIsStorable`, `ShownAnalysisIsTrue`, `PolicyIsValidated`, `GuidanceIsTruthful` | 750,253 |
| `firestore_store` | 2 processes, one provider event, one partner request, one reset | `TypeOK`, `IndexesAgree`, `PlansAreFresh`, `HalfSeededHasCause`, `QuietResetRestores` | 1,066,275 |
| `undeclared_transition` | 2 requests for the receipt | `DeclaredTransitionsOnly` violated | |
| `second_refund_event` | a refund observed, then updated | `ProviderEventsAccepted` violated | |
| `retried_submission` | two timestamps per answer | `RetryDeduplicated` violated | |
| `due_work` | limit 2, hence a window of 6 | `DueWorkIsListed` violated | |

Bounds and why they are enough to meet the interesting cases:

- Two processes of a kind, or one handler beside a worker and a caller, are what
  a version race, a concurrent duplicate, a takeover and a stale plan need. A
  third only loses to one of two winners in the same way.
- `MaxRetries = 2` (5 in the code) and `MaxDeliveryAttempts = 2` (5 in the
  subscription): one retry succeeds or the cap is met; both occur.
- `MaxVersion = 8` in `CaseResolution` bounds callers only: from version 4 a case
  can be confirmed, resolved, reopened and resolved again or closed. 3 in
  `PartnerSubmission`: one commit between a load and its reservation, and one more.
- Clocks: `DemoWebhook` runs to 4 with leases and windows of 2, so a lease can
  end, be taken over and end again across two windows. `Automation` runs to 2
  with leases of 1 and retries after 2: expiry, takeover and one retry.
  `PartnerSubmission` needs one tick, from valid to expired.
- `MaxLeases = 3` authenticated requests: a first, a takeover, a late duplicate.
- `BatchLimit = 4` in `automation` (25 in the code) cuts lists, since up to nine
  requests are open; `due_work` uses 2 so that six settled requests fill a window.
- `PartyLimit`, `ReferenceLimit`, `EventLimit`, `ObservedLimit` hold the records
  of these cases; the limits themselves are discussed below.
- `ResetLimit = 24` lies between the baseline and a case with every event, so a
  reset is both allowed and refused. `MaxResets = 1`, and `StartBound` starts no
  further request once a reset was raced: those in progress run to their end.
- `MaxCrashes` is 2 in `recovery`, as large as the retry cap: the states in which
  one process died, where `ResolutionNeverStranded` must hold, and those in which
  two did, where it excepts the case nobody can recover, both occur. It is 1 in
  `liveness` and 0 where no crash is the subject.
- The answer of `automation` names version 6 whatever its input: it is dated right
  when the input is of version 6, wrong on a case that stood still at 5 or 7, and
  wrong on one that moved meanwhile. It asks the customer, so that a passed
  analysis names a party. The sets of answers and failures `PolicyIsValidated`
  quantifies over, on every case of the run, hold the kinds the dynamics leave out.
- Symmetry is used in safety runs only.

**Fairness** (`FairSpec` of `CaseResolution`). Weak fairness of: some handler
taking up each event the broker holds (Pub/Sub redelivers until acknowledged,
within the attempt limit), every step a live handler or worker has begun, and
the claim of the request pinned to the current version (Cloud Scheduler starts
batches for ever). Nothing obliges a provider, partner, caller or crash to
happen. The last assumption supposes that the listing of due work reaches the
request, which `due_work` shows to fail in the end: the liveness result is one
about the design with a listing that does what its test says. It also needs fewer
crashes than a request has attempts (`liveness`: 1 and 2): beyond that a dead
owner's last lease is claimable by nobody (see below).

The other modules state no liveness. A portal submission, a webhook request and
a seed are each driven by somebody outside who may give up, so nothing in them
must happen; what they must never do is in their safety properties.

Every property has a mutant of the mapped code that breaks it (`PROJECT.json`,
`mutants`). Dropping only the version comparison is not enough to break the
audit trail: automation keys, unique per version, and the duplicate-record
checks refuse the stale mutation too. The defences overlap, so that mutant
drops both version and event-id checks.

### What the violated properties show

1. `DeclaredTransitionsOnly`: `planPartnerEvidenceMutation` sets
   RESOLUTION_PENDING from any state, and the store never compares a state
   change with the matrix. A second confirmed receipt takes a RESOLVED case back
   to RESOLUTION_PENDING. The unit tests that reject undeclared transitions call
   `planCaseTransition` only.
2. `ProviderEventsAccepted`: the second event of a refund is a
   CASE_INTEGRITY_ERROR, because each event plans a transaction record and the
   store refuses a second one for the object. The Stripe smoke runbook expects
   `202` for `refund.updated`.
3. `RetryDeduplicated`: a retried submission has the same id and a new
   timestamp, hence another digest, and is refused once the first is stored. The
   comment in `submit-partner-response.ts` says it is deduplicated; the test
   that says so uses a constant clock. No effect is lost or doubled
   (`AckedMeansStored`, `OneSemanticEffect`).
4. `DueWorkIsListed`: Firestore is asked for the oldest 75 requests that are due
   by date, settled ones included, and settled ones never leave. After 25
   commits, over all cases, the queue can be starved for good. The test of the
   listing runs the in-memory store, which filters first.

### What else the modelling met

No run is kept for these, but they should be known to whoever changes this code:

- A lease that expires at the last attempt cannot be claimed again
  (`lease-policy.ts:14-15`), its dead owner never completes it, and nothing marks
  it FAILED_TERMINAL; it is listed in every batch. With as many dead owners as a
  request has attempts (5) the evaluation of a ready case is lost, and the case
  waits until another event happens to be committed, although
  `docs/architecture/system.md` names "expiry recovery". This is why
  `ResolutionNeverStranded` counts crashes; without that conjunct the run
  `recovery` violates it by claim, crash, claim, crash.
- The version an answer names is the model's own number
  (`gemini-resolution-proposal-transport.ts:25`). If it is wrong and the case did
  not move, the validator marks the run stale (`validate-agent-proposal.ts:51`)
  and the store, which compares the version of the input, refuses a current run so
  marked as CASE_INTEGRITY_ERROR (`apply-agent-run-mutation.ts:83-85`). The request
  ends FAILED_TERMINAL and the case has no analysis of that version.
  `GroundedRunIsStorable` says that no other grounded run is refused, and
  `PolicyIsValidated` that this one is.
- A receipt left RESERVED by a lost engine is never reopened: `leaseUntil` is
  not read, and `releasePartnerSubmission` has no caller. `StrandedOnlyByFailure`
  shows that only such a loss does it.
- `seedDemoCase` returns when the case exists, so a seed that died, or lost its
  commit to an early event, leaves the case half seeded until a reset
  (`HalfSeededHasCause` names exactly these causes).
- A commit between a reset's plan and its batch leaves orphaned receipts, with
  which the next seed ends in CASE_INTEGRITY_ERROR at version 1. A plan that
  outlives a reset may be committed to the new case, because versions begin
  anew; `PlansAreFresh` excepts it. The reset is an operator's tool.
- A stale answer of the agent is kept without validation; if it cites ids its
  input lacked, the store refuses the run and the request ends FAILED_TERMINAL.
- A RESOLVED case that the partner policy moves back keeps `resolvedAt`, and one
  that `transitionCase` moves to RESOLUTION_PENDING has no request for its new
  version (nothing in the repository calls it so).
- The bounds of the layers differ: inputs take 100 events, a run record 50 ids
  (`build-agent-input.ts:31`, `agent/model.ts:6`); 50 gaps are supplied and at
  most 25 may be observed; with more than 50 claims or evidence the derived
  assessment cannot match the stored one. The instances stay below these limits.
- The readiness action ADVANCE_TO_RESOLUTION_PENDING has no implementation; the
  workspace's `customerReceived` is UNKNOWN whatever is stored; the WebMCP truth
  graph never finds the expected evidence it looks up.

## What is proved

Each theorem holds for all values of the constants that the named assumptions of
its module and of the modules it extends allow; TLC evaluates the assumptions in
every run. Five modules hold the proofs. With the exceptions listed at the end,
every property the passing runs check is proved.

| system | theorem | statement | extra assumption |
| --- | --- | --- | --- |
| `CaseResolution` | `TypeCorrect` | `Spec => []TypeOK` | |
| | `AuditTrailHolds` | `Spec => []AuditTrail` | |
| | `OneSemanticEffectHolds` | `Spec => []OneSemanticEffect` | |
| | `AckedMeansStoredHolds` | `Spec => []AckedMeansStored` | |
| | `ResolutionJustifiedHolds` | `Spec => []ResolutionJustified` | `HonestCallers` |
| | `NoResolutionOverContradictionHolds` | `Spec => NoResolutionOverContradiction` | `HonestCallers` |
| | `ResolutionNeverStrandedHolds` | `Spec => []ResolutionNeverStranded` | `PendingByEventsOnly` |
| | `OneResponsePerRequestHolds` | `Spec => []OneResponsePerRequest` | `~Releasing` |
| `PartnerSubmission` | `TypeCorrect` | `Spec => []TypeOK` | |
| | `TopicConsumableHolds` | `Spec => []TopicConsumable` | |
| | `AnsweredInTimeHolds` | `Spec => []AnsweredInTime` | |
| | `StrandedOnlyByFailureHolds` | `Spec => []StrandedOnlyByFailure` | |
| | `OneAnswerPerRequestHolds` | `Spec => OneAnswerPerRequest` (implements `ScopedAnswer`) | |
| `DemoWebhook` | `TypeCorrect` | `Spec => []TypeOK` | |
| | `PublishedIsFinalHolds` | `Spec => PublishedIsFinal` | |
| | `NonceBindsPayloadHolds` | `Spec => []NonceBindsPayload` | |
| | `OneLiveLeaseHolds` | `Spec => []OneLiveLease` | |
| | `AcceptedMeansPublishedHolds` | `Spec => []AcceptedMeansPublished` | |
| | `PublicationBudgetHolds` | `Spec => []PublicationBudget` | |
| `Automation` | `TypeCorrect` | `Spec => []TypeOK` | |
| | `AttemptsBoundedHolds` | `Spec => []AttemptsBounded` | |
| | `LiveLeaseIsExclusiveHolds` | `Spec => []LiveLeaseIsExclusive` | |
| | `AnalysisIsRecordedHolds` | `Spec => []AnalysisIsRecorded` | |
| | `GroundedRunIsStorableHolds` | `Spec => []GroundedRunIsStorable` | |
| | `ShownAnalysisIsTrueHolds` | `Spec => []ShownAnalysisIsTrue` | |
| | `GuidanceIsTruthfulHolds` | `Spec => GuidanceIsTruthful` | |
| `FirestoreStore` | `TypeCorrect` | `Spec => []TypeOK` | |
| | `PlansAreFreshHolds` | `Spec => PlansAreFresh` | |
| | `IndexesAgreeHolds` | `Spec => []IndexesAgree` | |
| | `HalfSeededHasCauseHolds` | `Spec => []HalfSeededHasCause` | |
| | `QuietResetRestoresHolds` | `Spec => []QuietResetRestores` | |

The extra assumptions are about clients this repository does not have.
`HonestCallers`: no caller of `transitionCase` passes the trigger
RESOLUTION_EVIDENCE_SATISFIED, which that function would accept without looking
at the evidence; automation, which looks, does not use it. `PendingByEventsOnly`: no caller
passes RESOLUTION_PROVISIONAL, because `transitionCase` attaches no outbox and the
case it moves to RESOLUTION_PENDING would wait for an evaluation nobody asked
for. `~Releasing`: no client calls the release operation.

### `CaseResolution`

The argument rests on one invariant, `FlightInv`. A mutation held by any
process either expects a version older than the stored one, and then
`CommitResult` can never accept it, or it was planned from exactly the bundle
that is stored now (`WellPlanned`). It is inductive because every step that
changes anything a plan depends on increments the version; receipts are the one
exception, and no plan's content depends on them. So a load and the commit that
follows act as one atomic step, and each remaining invariant is proved for a
single kind of step: `CaseStep` says that a step leaves the case alone or
commits one mutation in flight, `CommitEffect` says what that does.

- `TypeInv` adds to `TypeOK` that a leased request is below the retry cap, which
  completion needs to stay in range.
- `AuditInv` adds that at least the seed's two audits exist.
- `EffectInv` adds that the trigger of every audit is a stored event, so that an
  event that is not stored can have no audit yet.
- `AckInv` adds that a handler's mutation carries the handler's own event.
- `ReceiptInv` ties every stored or planned response to the event its receipt is
  bound to; without release a bound token keeps its event.
- `ReadyInv` says why no worker closes the request of a ready case. A batch that
  is finishing at the current version found the case not ready. One that holds a
  plan for it will commit, and moves the version on: nothing the store checks can
  refuse that plan, since its event id and its outbox key contain the version and
  the stored records refer to each other (`RecordsStand`, which every accepted
  commit has just been checked for). So the request of a ready case is open
  (`RequestOpen`), and only the retry cap could keep a worker from it. That is
  what `AttemptsAccounted` counts: each claim made of the current request was made
  by a worker that is still at it (`AtWork`) or by a process that died, so with
  nobody at it and fewer deaths than attempts it may be claimed.

### `PartnerSubmission` and `ScopedAnswer`

`SubmissionInv`: a token nobody has answered is bound to nothing, a portal past
its reservation holds the answer the receipt is bound to, and a RESERVED receipt
has such a portal unless a failure cut it off. Reservation happens only on an
unbound or a released receipt, so the bound answer never changes before release,
and what is published is what is bound. The refinement is then one lemma per
action: a reservation is the abstract `Bind`, a publication the abstract `Emit`
of the bound answer, and everything else stutters.

### `DemoWebhook`

Four invariants, each used by the next. `IdsUnique`: a lease id belongs to one
request and to at most one publication. `PayloadKept`: a receipt names the payload
of everything claimed or published under its nonce, and says PUBLISHED only of a
message on the topic. `LeaseHeld`: while the lease of a request runs, the receipt
is leased to that very request, so two live leases of a nonce are one.
`Counted`: the lease ids drawn in a window, those of publications among them, are
no more than the window's counter, which the limiter keeps at its limit; the map
from publications to lease ids is an injection. Counting needs finitely many
`Instances`, which `WebhookAssumption` states.

### `Automation`

`TypeInv` holds the count behind `AttemptsBounded`: a waiting request was claimed
once per retry, a leased one once more, and both are below the cap. `LeaseKept`
gives the exclusive lease. `AgentInv` relates what the agent was given to the case
as it moves on. What an input supplied, gaps included, stays in the case
(`Supplies`, `SuppliesKept`), because a claim that lacks support is the seed's or
the answer to a partner request, and neither is replaced by a later event
(`RecordsOK`). An answer is a proposal at the version it names, or a failure
(`AnswerOf`, `FailuresFail`), and the validator passes none that names a party the
case does not have. So a judged run whose expected version is current is storable
unless its answer misnames the version of an unmoved case (`Grounded`,
`Misdated`), and a stored run based on the current version says what the records
say (`Truthful`), for every set of `Answers` and `Outages`. The action property `GuidanceIsTruthful`
needs `GuideInv`: the stored records refer to each other and a RESOLVED case has
a transaction. `NoWorker \notin Workers` (an owner id of a batch is a UUID, never
the absence of an owner) is assumed, and part of `AutomationAssumption`.

### `FirestoreStore`

`FreshInv`: what a process has read, and what it has planned, stands as long as
the version it read does, within the epoch since the last reset. It makes the
torn load atomic, as `FlightInv` does in `CaseResolution`, and is what
`PlansAreFresh` says of commits. `AgreeInv`: the indexes are those of the documents and
the deletions a reset planned are of the documents there are, until a commit
falls into the reset. `SeedInv` is about who is at which step of the seed: a case
that has only the seed's events is at one of five stages (`AtStage`), and at the
inner ones a seeder at that step exists, unless one died. Its main lemma,
`PastStepRefused`, shows that a step of the seed behind the case is refused, by
its version, by the transition matrix or by the receipt of its event; that is why two seeds at once
are safe.

The proof of `SeedInv` corrected the model: the partner's commits counted as a
race only against a reset of another process, and a reset of the only process
could be raced unnoticed. The history variable now asks for any process
(`InReset`). Two more definitions were rewritten so that they could be reasoned
about: the audits a partial deletion leaves (`KeptAudits`, by rank instead of
`SelectSeq`), and unions written `(UNION {...}) \cup ...`, whose precedence the
prover reads differently from TLC.

### Only model-checked

- `ReadyCaseIsDecided` and `AcceptedEventsSettle`: liveness under fairness is
  outside the prover's reach.
- `PolicyIsValidated`: it is not true for all constants. A case with more claims
  than the input holds is truncated, the derived assessment then differs from the
  stored one, and a grounded answer is refused. The property needs "the case fits
  the limits" at every step, which the code does not ensure and the instance does.
- The four violated properties, whose counterexamples TLC gives.

## Not modelled

The status and the reason of each component is in `PROJECT.json`.

- JSON and in-memory stores: each call runs alone in a promise queue, so the
  atomic steps of `CaseResolution` are theirs. What would be left to model is the
  JavaScript runtime's promise chain. Two processes on one file lose updates;
  the local store is for one.
- Ownership between cases, collection bounds, the write count and deadlines:
  each module has one case, and none of these is reached by it.
- Signature schemes, envelope parsing, encoding of documents, texts and their
  redaction: data no property tells apart; their verdicts are in the models.
- Sessions, authorization, retention, the rendered UI and the release scripts
  hold no case state.

## Plan

What would say most beyond the present theorems, in order of importance:

1. An abstract serial case: one commit at a time, planned from the case it is
   applied to, with no processes. `FlightInv` and `PlansAreFresh` are the two
   simulation arguments; `CaseResolution` and, between resets,
   `FirestoreStore` would implement the same specification.
2. `PolicyIsValidated` as an implication: the case and its guidance fit the input
   limits in both states of the step. Most of it is a lemma about the operators of
   `AgentPolicy` on one case.
3. Liveness with the listing of due work as it is, which needs `Automation`'s
   queue composed with `CaseResolution`'s worker.

No module uses a RECURSIVE operator, so nothing keeps any of them from being
proved about.
