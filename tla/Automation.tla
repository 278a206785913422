------------------------------ MODULE Automation ------------------------------
(***************************************************************************)
(* The automation worker and the agent behind it, over one seeded case.    *)
(* Every commit of the engine leaves three automation requests pinned to   *)
(* the version it made.  Batches started by the scheduler list the due     *)
(* ones, claim each under a lease, and do its work: analyse the case with  *)
(* the agent, recalculate guidance, or evaluate resolution.  Batches       *)
(* overlap and outlive their leases, and one that takes no further step is *)
(* one whose instance died; the case moves on under them.                  *)
(*                                                                         *)
(* The engine's own handlers are modelled in CaseResolution; here each of  *)
(* its commits is one step.  Times are in units of the clock; the batches  *)
(* read one clock.  A behaviour starts when one event of the case has been *)
(* committed and its requests have been worked through.                    *)
(***************************************************************************)
EXTENDS AgentPolicy, FiniteSetsExt

CONSTANTS
  Workers,     \* automation batches in flight; a batch has an owner id of its own
  BatchLimit,  \* requests a batch takes (25 in the code)
  LeaseTime,   \* life of a lease, from the start of its batch (2 minutes)
  RetryDelay,  \* delay of a retry (5 minutes)
  MaxRetries,  \* retry cap of a request (5)
  Answers,     \* what the language model may answer
  Outages,     \* how it may fail to answer
  MaxClock     \* bound: the clock stops here

NoWorker == "nobody"

\* An answer of the language model is free in every field of the transport: it names any
\* number as the version it read, recommends any action for any party or for none, cites the
\* evidence it was given or an id nobody has, and all gaps or none.
Answer ==
  [version: Int, action: ActionType, target: Party \cup {Nobody}, known: BOOLEAN, gaps: BOOLEAN]

ASSUME AutomationAssumption ==
  /\ {BatchLimit, LeaseTime, RetryDelay, MaxRetries} \subseteq Nat \ {0}
  /\ MaxClock \in Nat
  /\ LeaseTime < RetryDelay
  /\ NoWorker \notin Workers
  /\ Answers \subseteq Answer
  /\ Outages \subseteq Failures

Kinds == <<"RUN_AGENT_ANALYSIS", "RECALCULATE_GUIDANCE", "EVALUATE_RESOLUTION">>

VARIABLES
  clock,
  db,       \* the stored records of the case
  queue,    \* automation requests, by version and kind
  workers,  \* local state of each batch
  runs,     \* stored agent runs
  claims    \* history: how often each request was claimed

vars == <<clock, db, queue, workers, runs, claims>>

Idle == [pc |-> "idle"]

NewEntry == [state |-> "PENDING", owner |-> NoWorker, until |-> 0, retries |-> 0, due |-> clock]

(***************************************************************************)
(* A commit of the engine.  A partner event arrives with its receipt       *)
(* marked PUBLISHED.  The three requests of a mutation are stored with it. *)
(***************************************************************************)
Given(d, e) ==
  IF e \in ProviderEvents THEN d
  ELSE [d EXCEPT !.receipts[RequestOf(e)] = [state |-> "PUBLISHED", event |-> e.id]]

EventMutation(d, e) ==
  AttachOutbox(IF e \in ProviderEvents THEN PlanProviderRefund(d, e) ELSE PlanPartnerEvidence(d, e))

Created(m) == m.requests \X {1, 2, 3}

Enqueue(m) ==
  /\ queue' = [k \in DOMAIN queue \cup Created(m) |-> IF k \in Created(m) THEN NewEntry ELSE queue[k]]
  /\ claims' = [k \in DOMAIN queue \cup Created(m) |-> IF k \in Created(m) THEN 0 ELSE claims[k]]

CommitEvent(e) ==
  LET d == Given(db, e)
      m == EventMutation(d, e)
  IN  /\ e \in PartnerEvents => db.receipts[RequestOf(e)].state = "OPEN"
      /\ CommitResult(d, m) = "COMMITTED"
      /\ db' = ApplyMutation(d, m)
      /\ Enqueue(m)
      /\ UNCHANGED <<clock, workers, runs>>

(***************************************************************************)
(* listDueAutomationRequests.  Firestore returns at most three times the   *)
(* limit of the oldest documents that are due by date, settled ones too;   *)
(* the state is looked at afterwards.  Among equal dates any may be cut.   *)
(***************************************************************************)
Expired(q, now) == q.state = "LEASED" /\ q.until <= now
Waiting(q) == q.state \in {"PENDING", "FAILED_RETRYABLE"}

Before(j, k) ==
  \/ queue[j].due < queue[k].due
  \/ queue[j].due = queue[k].due /\ j[1] < k[1]
  \/ queue[j].due = queue[k].due /\ j[1] = k[1] /\ j[2] < k[2]

DueWindows(now) ==
  LET dated == { k \in DOMAIN queue : queue[k].due <= now }
      size  == 3 * BatchLimit
  IN  IF Cardinality(dated) <= size THEN {dated}
      ELSE { some \in kSubset(size, dated) :
               \A j \in some, k \in dated \ some : queue[j].due <= queue[k].due }

Listed(window, now) ==
  LET open == { k \in window : Waiting(queue[k]) \/ Expired(queue[k], now) }
      size == IF Cardinality(open) < BatchLimit THEN Cardinality(open) ELSE BatchLimit
  IN  [i \in 1 .. size |->
         CHOOSE k \in open : Cardinality({ j \in open : Before(j, k) }) = i - 1]

Become(w, state) == workers' = [workers EXCEPT ![w] = state]
Doing(w, pc, work) == Become(w, [workers[w] EXCEPT !.pc = pc, !.work = work])
Current(w) == Head(workers[w].todo)

Proceed(w) ==
  LET rest == Tail(workers[w].todo) IN
  Become(w, IF rest = <<>> THEN Idle
            ELSE [workers[w] EXCEPT !.pc = "next", !.todo = rest, !.work = "none"])

StartBatch(w) ==
  /\ workers[w] = Idle
  /\ \E window \in DueWindows(clock) :
       /\ Listed(window, clock) # <<>>
       /\ Become(w, [pc |-> "next", startedAt |-> clock, todo |-> Listed(window, clock),
                     work |-> "none"])
  /\ UNCHANGED <<clock, db, queue, runs, claims>>

(***************************************************************************)
(* claimAutomationRequest and completeAutomationRequest: the lease policy. *)
(* A batch claims with the time at which it started.                       *)
(***************************************************************************)
\* Mutant: a lease counts as expired before its time.
ClaimableLeased(q, now) == (Waiting(q) /\ q.due <= now) \/ q.state = "LEASED"

Claimable(q, now) ==
  /\ (Waiting(q) /\ q.due <= now) \/ Expired(q, now)
  /\ q.retries + (IF Expired(q, now) THEN 1 ELSE 0) < MaxRetries

\* Mutant: taking over an expired lease costs no retry.
ClaimedFree(q, w, now) ==
  [q EXCEPT !.state = "LEASED", !.owner = w, !.until = now + LeaseTime]

Claimed(q, w, now) ==
  [q EXCEPT !.state = "LEASED", !.owner = w, !.until = now + LeaseTime,
            !.retries = @ + (IF Expired(q, now) THEN 1 ELSE 0)]

Completed(q, outcome) ==
  LET retries == q.retries + (IF outcome = "FAILED_RETRYABLE" THEN 1 ELSE 0)
      state   == IF outcome = "FAILED_RETRYABLE" /\ retries >= MaxRetries
                   THEN "FAILED_TERMINAL" ELSE outcome
  IN  [state |-> state, owner |-> NoWorker, until |-> 0, retries |-> retries,
       due |-> IF state = "FAILED_RETRYABLE" THEN clock + RetryDelay ELSE q.due]

Claim(w) ==
  /\ workers[w].pc = "next"
  /\ LET k   == Current(w)
         now == workers[w].startedAt
     IN  IF Claimable(queue[k], now)
           THEN /\ queue' = [queue EXCEPT ![k] = Claimed(@, w, now)]
                /\ claims' = [claims EXCEPT ![k] = @ + 1]
                /\ Doing(w, "claimed", "none")
           ELSE Proceed(w) /\ UNCHANGED <<queue, claims>>
  /\ UNCHANGED <<clock, db, runs>>

\* The completion is refused unless the batch still owns the request; the batch goes on
\* to its next request either way.
Complete(w) ==
  LET q == queue[Current(w)] IN
  /\ workers[w].pc = "settling"
  /\ queue' = IF q.state = "LEASED" /\ q.owner = w
                THEN [queue EXCEPT ![Current(w)] = Completed(q, workers[w].work)] ELSE queue
  /\ Proceed(w)
  /\ UNCHANGED <<clock, db, runs, claims>>

Settle(w, outcome) == Doing(w, "settling", outcome)

(***************************************************************************)
(* The work of a claimed request, by the bundle the batch loads.           *)
(***************************************************************************)
Load(w) ==
  LET version == Current(w)[1]
      kind    == Kinds[Current(w)[2]]
  IN  /\ workers[w].pc = "claimed"
      /\ \/ db.kase.version # version /\ Settle(w, "FAILED_TERMINAL")
         \/ /\ db.kase.version = version
            /\ \/ kind = "RECALCULATE_GUIDANCE" /\ Settle(w, "SUCCEEDED")
               \/ kind = "RUN_AGENT_ANALYSIS" /\ Doing(w, "analysing", "none")
               \/ /\ kind = "EVALUATE_RESOLUTION"
                  /\ ~ResolutionReady(db)
                  /\ Settle(w, "SUCCEEDED")
               \/ /\ kind = "EVALUATE_RESOLUTION"
                  /\ ResolutionReady(db)
                  /\ \E cited \in ResolutionEvidence(db) :
                       Doing(w, "planned", AttachOutbox(PlanResolution(db, cited)))
      /\ UNCHANGED <<clock, db, queue, runs, claims>>

AppliedResult(result) ==
  CASE result = "COMMITTED"        -> "SUCCEEDED"
    [] result = "VERSION_CONFLICT" -> "FAILED_RETRYABLE"
    [] OTHER                       -> "FAILED_TERMINAL"

CommitEvaluation(w) ==
  LET m      == workers[w].work
      result == CommitResult(db, m)
  IN  /\ workers[w].pc = "planned"
      /\ IF result = "COMMITTED"
           THEN db' = ApplyMutation(db, m) /\ Enqueue(m)
           ELSE UNCHANGED <<db, queue, claims>>
      /\ Settle(w, AppliedResult(result))
      /\ UNCHANGED <<clock, runs>>

(***************************************************************************)
(* analyzeCase: it loads the case itself, asks the agent, loads the case   *)
(* again, judges the answer against what it then finds, and appends the    *)
(* run.  A run the schema rejects is an exception, as is a broken agent.   *)
(***************************************************************************)
Unknown == <<"unknown", "unknown">>

Reply(input, a) ==
  Finals(<<Answered(Transport(a.version, a.action, a.target,
                              IF a.known THEN IdsOf(input.evidence) ELSE {Unknown},
                              IF a.gaps THEN { g.gap : g \in input.gaps } ELSE {}))>>)

Replies(input) == { Reply(input, a) : a \in Answers } \cup Outages

\* The answer the first analysis got.
Sound(version) ==
  [version |-> version, action |-> "WAIT_FOR_NEW_EVIDENCE", target |-> Nobody, known |-> TRUE,
   gaps |-> TRUE]

\* The version an answer names; a failure names none, and counts for that of the input.
Named(answer, input) == IF answer.kind = "PROPOSAL" THEN answer.proposal.version ELSE input.version

LoadAnalysis(w) ==
  /\ workers[w].pc = "analysing"
  /\ Doing(w, "asked", BuildInput(db))
  /\ UNCHANGED <<clock, db, queue, runs, claims>>

JudgeAnswer(w) ==
  /\ workers[w].pc = "asked"
  /\ \/ Settle(w, "FAILED_RETRYABLE")
     \/ \E reply \in Replies(workers[w].work) :
          LET input  == workers[w].work
              answer == ProposeResolution(reply, input)
              run    == BuildAgentRun(input, answer, db)
          IN  IF RunSchemaOK(run)
                THEN Doing(w, "judged", [run |-> run, expected |-> db.kase.version,
                                         named |-> Named(answer, input)])
                ELSE Settle(w, "FAILED_RETRYABLE")
  /\ UNCHANGED <<clock, db, queue, runs, claims>>

\* Mutant: an analysis the store refuses counts as done.
AppendRunRegardless(w) ==
  LET run    == workers[w].work.run
      result == AppendResult(db, run, workers[w].work.expected)
  IN  /\ workers[w].pc = "judged"
      /\ runs' = IF result = "COMMITTED" THEN runs \cup {run} ELSE runs
      /\ Settle(w, "SUCCEEDED")
      /\ UNCHANGED <<clock, db, queue, claims>>

AppendRun(w) ==
  LET run    == workers[w].work.run
      result == AppendResult(db, run, workers[w].work.expected)
  IN  /\ workers[w].pc = "judged"
      /\ runs' = IF result = "COMMITTED" THEN runs \cup {run} ELSE runs
      /\ Settle(w, AppliedResult(result))
      /\ UNCHANGED <<clock, db, queue, claims>>

Tick ==
  /\ clock < MaxClock
  /\ clock' = clock + 1
  /\ UNCHANGED <<db, queue, workers, runs, claims>>

-----------------------------------------------------------------------------

Init ==
  /\ clock = 0
  /\ \E e \in ProviderEvents \cup PartnerEvents :
       db = ApplyMutation(Given(SeededCase, e), EventMutation(Given(SeededCase, e), e))
  /\ queue = [k \in {db.kase.version} \X {1, 2, 3} |-> [NewEntry EXCEPT !.state = "SUCCEEDED"]]
  /\ claims = [k \in DOMAIN queue |-> 1]
  /\ workers = [w \in Workers |-> Idle]
  /\ LET input == BuildInput(db)
     IN  runs = {BuildAgentRun(input, ProposeResolution(Reply(input, Sound(input.version)), input), db)}

Next ==
  \/ \E e \in ProviderEvents \cup PartnerEvents : CommitEvent(e)
  \/ \E w \in Workers :
       \/ StartBatch(w) \/ Claim(w) \/ Complete(w) \/ Load(w)
       \/ CommitEvaluation(w)
       \/ LoadAnalysis(w) \/ JudgeAnswer(w) \/ AppendRun(w)
  \/ Tick

Spec == Init /\ [][Next]_vars

-----------------------------------------------------------------------------
(***************************************************************************)
(* Properties.                                                             *)
(***************************************************************************)
Entry ==
  [state: {"PENDING", "LEASED", "SUCCEEDED", "FAILED_RETRYABLE", "FAILED_TERMINAL"},
   owner: Workers \cup {NoWorker}, until: Nat, retries: 0 .. MaxRetries, due: Nat]

\* Every request has a legal state, its retries never pass the cap, its owner and lease
\* are there exactly while it is leased, and every version the engine or an evaluation
\* made has its three requests.
TypeOK ==
  /\ clock \in 0 .. MaxClock
  /\ queue \in [((SeededCase.kase.version + 1) .. db.kase.version) \X {1, 2, 3} -> Entry]
  /\ \A k \in DOMAIN queue : queue[k].state = "LEASED" <=> queue[k].owner # NoWorker
  /\ \A w \in Workers :
       workers[w].pc \in {"idle", "next", "claimed", "settling", "planned", "analysing",
                          "asked", "judged"}

\* No request is worked on more often than the cap allows, whether its attempts failed,
\* crashed, or outlived their leases (lease-policy.ts: an expired lease is a retry).
AttemptsBounded == \A k \in DOMAIN queue : claims[k] <= MaxRetries

Working == {"claimed", "settling", "planned", "analysing", "asked", "judged"}

\* While the lease of a batch runs, the request it is working on is its own, whatever
\* other batches listed before or after it (the claim transaction against the list).
LiveLeaseIsExclusive ==
  \A w \in Workers :
    workers[w].pc \in Working /\ clock < workers[w].startedAt + LeaseTime =>
      queue[Current(w)].state = "LEASED" /\ queue[Current(w)].owner = w

\* An analysis request reported as succeeded has a stored run that read the version it
\* is pinned to or a later one, across conflicts, lost leases and crashes.
AnalysisIsRecorded ==
  \A k \in DOMAIN queue :
    Kinds[k[2]] = "RUN_AGENT_ANALYSIS" /\ queue[k].state = "SUCCEEDED" =>
      \E run \in runs : run.basedOn >= k[1]

\* The answer named another version although the case has not moved since its input.
Misdated(work) == work.named # work.run.basedOn /\ work.expected = work.run.basedOn

\* A run that cites only what its input supplied is never refused as inconsistent, even
\* when the case moved on between the two loads of analyzeCase: it is stored, or the
\* batch is told to try again.  Only an answer that names a version of its own making, on
\* a case that did not move, is refused.
GroundedRunIsStorable ==
  \A w \in Workers :
    /\ workers[w].pc = "judged"
    /\ RetainedReferencesValid(workers[w].work.run)
    /\ ~Misdated(workers[w].work)
    => AppendResult(db, workers[w].work.run, workers[w].work.expected) # "CASE_INTEGRITY_ERROR"

\* What the workspace shows as a current, passed analysis says of claims and evidence
\* what the stored records say now, and a party it recommends to turn to, which the
\* language model may have made up, is one of the case.
ShownAnalysisIsTrue ==
  \A run \in runs :
    AnalysisShown(run, db.kase.version) = [freshness |-> "CURRENT", passed |-> TRUE] =>
      /\ run.analysis.assessment = StoredAssessment(db)
      /\ run.analysis.target \in db.kase.parties \cup {Nobody}

PolicyValidated(d) ==
  LET input == BuildInput(d)
      RunOf(reply) == BuildAgentRun(input, ProposeResolution(reply, input), d)
      Stored(run) == RunSchemaOK(run) /\ AppendResult(d, run, d.kase.version) = "COMMITTED"
      Offered(a) == \E p \in input.policy :
                      /\ p.code = a.action
                      /\ a.target \in (IF p.targets = {} THEN {Nobody} ELSE p.targets)
  IN  /\ \A a \in [version: {input.version, input.version + 1}, action: ActionType,
                   target: input.parties \cup {Nobody}, known: BOOLEAN, gaps: BOOLEAN] :
           LET run == RunOf(Reply(input, a))
           IN  /\ run.outcome = "SUCCEEDED_VALID" <=>
                    /\ Offered(a) /\ a.known /\ a.version = input.version
                    /\ a.action = "WAIT_FOR_NEW_EVIDENCE" => a.gaps
               /\ Stored(run) <=> a.version = input.version
      /\ \A reply \in Failures : Stored(RunOf(reply))

\* Adapter, validator and store agree on the case of every behaviour's start and of every
\* commit: the run of an answer passes if and only if the answer cites supplied evidence, names
\* the version of the case and an action and target the action policy of the input offers, and
\* waits for nothing but a gap; it is stored, passed or not, if and only if it names that
\* version; and however else the provider's stream ends, the failed run is stored.
PolicyIsValidated == PolicyValidated(db) /\ [][db' # db => PolicyValidated(db')]_vars

GuidanceTruthful(d) ==
  /\ NextAllowedAction(d) = "NO_ACTION" => d.kase.state \in {"RESOLVED", "CLOSED"}
  /\ ~ResolutionReady(d) => ResolutionGaps(d) # {}
  /\ LET nodes == { n.id : n \in TruthNodes(d) }
     IN  \A e \in TruthEdges(d) : {e.from, e.to} \subseteq nodes
  /\ \A r \in Requirement :
       (\E target \in Target : PrepareDraft(d, r, target) = "DRAFT_ONLY") <=>
         \E g \in ResolutionGaps(d) :
           g.requirement = r /\ g.action \in {"WAIT_FOR_PROVIDER", "REQUEST_EVIDENCE"}
  /\ d.kase.state = "RESOLVED" => /\ Journey(d).refundTransaction = "VERIFIED"
                                   /\ WorkspaceGap(d) # "PROVIDER"

\* Guidance agrees with every case a commit starts from or makes: nothing is left to do only
\* when the case is decided, an undecided case that is not ready lists a gap, the WebMCP tool
\* drafts a request for exactly the gaps evidence can close, every edge of the truth graph
\* joins two of its nodes, and a resolved case shows its refund verified.
GuidanceIsTruthful == [][db' # db => \A d \in {db, db'} : GuidanceTruthful(d)]_vars

\* The store "lists bounded due work" (tests/integration/automation-store.test.ts): when a
\* request may be claimed, a batch that starts now is given one.
DueWorkIsListed ==
  (\E k \in DOMAIN queue : Claimable(queue[k], clock)) =>
    \E window \in DueWindows(clock) : Listed(window, clock) # <<>>
=============================================================================
