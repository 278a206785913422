-------------------------- MODULE Automation_proofs --------------------------
(***************************************************************************)
(* Theorems about Automation, for every set of events, requests and        *)
(* batches, and for all values of the limits, the lease, the delay, the    *)
(* retry cap and the bound on the clock.                                   *)
(***************************************************************************)
EXTENDS Automation, FiniteSetTheorems, TLAPS

(***************************************************************************)
(* Shapes.  The records of the case, the local state of a batch, and the   *)
(* mutation a batch has planned and not yet committed.                     *)
(***************************************************************************)
IsRecord(d, fields) == DOMAIN d = fields /\ d = [x \in fields |-> d[x]]

KaseShape(kase) ==
  /\ IsRecord(kase, {"state", "version", "parties", "stamped"})
  /\ kase.version \in Nat

CaseShape(d) ==
  /\ IsRecord(d, {"kase", "events", "evidence", "claims", "transactions", "audits", "requests",
                  "receipts"})
  /\ KaseShape(d.kase)
  /\ d.receipts = [r \in PartnerRequests |-> d.receipts[r]]

Outcome == {"SUCCEEDED", "FAILED_RETRYABLE", "FAILED_TERMINAL"}

BusyShape(w) ==
  /\ IsRecord(workers[w], {"pc", "startedAt", "todo", "work"})
  /\ workers[w].pc \in Working \cup {"next"}
  /\ workers[w].startedAt \in Nat /\ workers[w].startedAt <= clock
  /\ workers[w].todo \in Seq(DOMAIN queue) /\ workers[w].todo # <<>>
  /\ workers[w].pc = "settling" => workers[w].work \in Outcome

WorkersTyped ==
  /\ workers = [w \in Workers |-> workers[w]]
  /\ \A w \in Workers : workers[w] = Idle \/ BusyShape(w)

\* What holds of a planned resolution from its plan to its commit.
PlanOK(m, d) ==
  /\ m.expected \in Nat /\ m.expected <= d.kase.version
  /\ KaseShape(m.kase) /\ m.kase.version = m.expected + 1
  /\ m.requests = {m.kase.version}
  /\ m.evidence = {} /\ m.claims = {} /\ m.transactions = {}
  /\ m.events = {EvaluationEvent(m.expected)}
  /\ m.expected = d.kase.version => m.kase.parties = d.kase.parties

PlansTyped == \A w \in Workers : workers[w].pc = "planned" => PlanOK(workers[w].work, db)

\* An entry that was claimed c times: each attempt but the one at work cost a retry.
EntryOK(q, c) ==
  /\ q \in Entry
  /\ q.state = "LEASED" <=> q.owner # NoWorker
  /\ c \in Nat /\ c <= MaxRetries
  /\ Waiting(q) => c = q.retries /\ q.retries < MaxRetries
  /\ q.state = "LEASED" => c = q.retries + 1 /\ q.retries < MaxRetries

Attempts ==
  /\ claims = [k \in DOMAIN queue |-> claims[k]]
  /\ \A k \in DOMAIN queue : EntryOK(queue[k], claims[k])

TypeInv ==
  /\ TypeOK /\ CaseShape(db) /\ db.kase.version >= 5
  /\ WorkersTyped /\ PlansTyped /\ Attempts

LEMMA Constants ==
  /\ BatchLimit \in Nat \ {0} /\ LeaseTime \in Nat \ {0} /\ RetryDelay \in Nat \ {0}
  /\ MaxRetries \in Nat \ {0} /\ MaxClock \in Nat /\ NoWorker \notin Workers
  BY AutomationAssumption

LEMMA Seeded == CaseShape(SeededCase) /\ SeededCase.kase.version = 4
  BY DEF SeededCase, CaseShape, KaseShape, IsRecord

LEMMA QueueTyped ==
  ASSUME TypeOK, NEW k \in DOMAIN queue
  PROVE  /\ queue[k] \in Entry
         /\ k \in (5 .. db.kase.version) \X {1, 2, 3}
  BY Seeded DEF TypeOK

(***************************************************************************)
(* The list of a batch.  Before orders the requests totally, so each       *)
(* number below their count is the rank of one of them.                    *)
(***************************************************************************)
Ahead(S, k) == { j \in S : Before(j, k) }

LEMMA BeforeIsTotal ==
  ASSUME TypeOK
  PROVE  /\ \A k \in DOMAIN queue : ~Before(k, k)
         /\ \A j, k \in DOMAIN queue : j = k \/ Before(j, k) \/ Before(k, j)
         /\ \A i, j, k \in DOMAIN queue : Before(i, j) /\ Before(j, k) => Before(i, k)
<1>1. ASSUME NEW k \in DOMAIN queue
      PROVE  queue[k].due \in Nat /\ k[1] \in Int /\ k[2] \in Int /\ k = <<k[1], k[2]>>
  BY QueueTyped DEF Entry
<1>2. \A k \in DOMAIN queue : ~Before(k, k)
  BY <1>1 DEF Before
<1>3. \A j, k \in DOMAIN queue : j = k \/ Before(j, k) \/ Before(k, j)
  BY <1>1 DEF Before
<1>4. \A i, j, k \in DOMAIN queue : Before(i, j) /\ Before(j, k) => Before(i, k)
  BY <1>1 DEF Before
<1> QED
  BY <1>2, <1>3, <1>4

LEMMA RankExists ==
  ASSUME TypeOK, NEW S \in SUBSET DOMAIN queue, IsFiniteSet(S), NEW i \in 1 .. Cardinality(S)
  PROVE  \E k \in S : Cardinality(Ahead(S, k)) = i - 1
<1> DEFINE n == Cardinality(S)
           rank == [k \in S |-> Cardinality(Ahead(S, k))]
<1>0. n \in Nat /\ n > 0 /\ i - 1 \in 0 .. (n - 1)
  BY FS_CardinalityType
<1>1. ASSUME NEW k \in S
      PROVE  /\ IsFiniteSet(Ahead(S, k)) /\ Cardinality(Ahead(S, k)) \in 0 .. (n - 1)
  <2>1. Ahead(S, k) \subseteq S /\ k \notin Ahead(S, k)
    BY BeforeIsTotal DEF Ahead
  <2>2. IsFiniteSet(Ahead(S, k)) /\ Cardinality(Ahead(S, k)) \in Nat
        /\ Cardinality(Ahead(S, k)) <= n /\ Cardinality(Ahead(S, k)) # n
    BY <2>1, FS_Subset, FS_CardinalityType
  <2> QED
    BY <1>0, <2>2
<1>2. ASSUME NEW j \in S, NEW k \in S, Before(j, k)
      PROVE  Cardinality(Ahead(S, j)) # Cardinality(Ahead(S, k))
  <2>1. Ahead(S, j) \subseteq Ahead(S, k) /\ j \in Ahead(S, k) /\ j \notin Ahead(S, j)
    BY <1>2, BeforeIsTotal DEF Ahead
  <2> QED
    BY <1>1, <2>1, FS_Subset
<1>3. rank \in Injection(S, 0 .. (n - 1))
  <2>1. rank \in [S -> 0 .. (n - 1)]
    BY <1>1
  <2>2. ASSUME NEW j \in S, NEW k \in S, rank[j] = rank[k] PROVE j = k
    <3>1. ~Before(j, k) /\ ~Before(k, j)
      BY <1>2, <2>2
    <3> QED
      BY <3>1, BeforeIsTotal
  <2> QED
    BY <2>1, <2>2 DEF Injection, IsInjective
<1>4. IsFiniteSet(0 .. (n - 1)) /\ Cardinality(0 .. (n - 1)) = n
  BY <1>0, FS_Interval
<1>5. rank \in Surjection(S, 0 .. (n - 1))
  <2> HIDE DEF rank
  <2> QED
    BY <1>3, <1>4, FS_Injection
<1>6. \E k \in S : rank[k] = i - 1
  BY <1>0, <1>5 DEF Surjection
<1> QED
  BY <1>6

LEMMA QueueFinite == ASSUME TypeInv PROVE IsFiniteSet(DOMAIN queue)
<1>1. IsFiniteSet(5 .. db.kase.version)
  <2>1. db.kase.version \in Int
    BY DEF TypeInv, CaseShape, KaseShape
  <2> QED
    BY <2>1, FS_Interval
<1>2. IsFiniteSet({1, 2, 3})
  <2>1. IsFiniteSet({1} \cup {2})
    BY FS_Singleton, FS_AddElement
  <2>2. IsFiniteSet(({1} \cup {2}) \cup {3})
    BY <2>1, FS_AddElement
  <2>3. {1, 2, 3} = ({1} \cup {2}) \cup {3}
    OBVIOUS
  <2> QED
    BY <2>2, <2>3
<1>3. IsFiniteSet((5 .. db.kase.version) \X {1, 2, 3})
  BY <1>1, <1>2, FS_Product
<1> QED
  BY <1>3, Seeded DEF TypeInv, TypeOK

\* A batch lists requests of the queue.
LEMMA BatchTyped ==
  ASSUME TypeInv, NEW window \in DueWindows(clock)
  PROVE  Listed(window, clock) \in Seq(DOMAIN queue)
<1> DEFINE open == { k \in window : Waiting(queue[k]) \/ Expired(queue[k], clock) }
           size == IF Cardinality(open) < BatchLimit THEN Cardinality(open) ELSE BatchLimit
<1>1. window \subseteq DOMAIN queue
  BY DEF DueWindows, kSubset
<1>2. open \in SUBSET DOMAIN queue /\ IsFiniteSet(open) /\ Cardinality(open) \in Nat
  BY <1>1, QueueFinite, FS_Subset, FS_CardinalityType
<1>3. size \in Nat /\ size <= Cardinality(open)
  BY <1>2, Constants
<1>4. ASSUME NEW i \in 1 .. size
      PROVE  (CHOOSE k \in open : Cardinality({ j \in open : Before(j, k) }) = i - 1) \in DOMAIN queue
  <2>1. i \in 1 .. Cardinality(open)
    BY <1>2, <1>3
  <2>2. \E k \in open : Cardinality(Ahead(open, k)) = i - 1
    <3> HIDE DEF open
    <3> QED
      BY <1>2, <2>1, RankExists DEF TypeInv
  <2> QED
    BY <1>2, <2>2 DEF Ahead
<1>5. Listed(window, clock) \in [1 .. size -> DOMAIN queue]
  BY <1>4 DEF Listed
<1> HIDE DEF open, size
<1> QED
  BY <1>3, <1>5

-----------------------------------------------------------------------------
(***************************************************************************)
(* What a claim, a completion and a commit make of an entry.               *)
(***************************************************************************)
LEMMA ClaimedOK ==
  ASSUME NEW q, NEW c, EntryOK(q, c), NEW w \in Workers, NEW now \in Nat, Claimable(q, now)
  PROVE  EntryOK(Claimed(q, w, now), c + 1)
<1> DEFINE r == Claimed(q, w, now)
           retries == q.retries + (IF Expired(q, now) THEN 1 ELSE 0)
<1>1. /\ q \in Entry /\ q.retries \in Nat /\ now + LeaseTime \in Nat
      /\ retries \in 0 .. MaxRetries /\ retries < MaxRetries
  BY Constants DEF EntryOK, Entry, Claimable
<1>2. r.state = "LEASED" /\ r.owner = w /\ r.retries = retries
  BY <1>1 DEF Entry, Claimed
<1>3. r \in Entry
  <2> HIDE DEF retries
  <2>1. r = [q EXCEPT !.state = "LEASED", !.owner = w, !.until = now + LeaseTime, !.retries = retries]
    BY DEF Claimed, retries
  <2> QED
    BY <1>1, <2>1 DEF Entry
<1>4. c = retries
  <2>1. CASE Expired(q, now)
    BY <1>1, <2>1 DEF Expired, EntryOK
  <2>2. CASE ~Expired(q, now)
    BY <1>1, <2>2 DEF Claimable, EntryOK
  <2> QED
    BY <2>1, <2>2
<1> HIDE DEF r, retries
<1>5. EntryOK(r, c + 1)
  BY <1>1, <1>2, <1>3, <1>4, Constants DEF EntryOK, Waiting
<1> QED
  BY <1>5 DEF r

LEMMA CompletedOK ==
  ASSUME NEW q, NEW c, EntryOK(q, c), q.state = "LEASED", NEW outcome \in Outcome, clock \in Nat
  PROVE  EntryOK(Completed(q, outcome), c)
<1>1. q.retries \in Nat /\ q.due \in Nat /\ clock + RetryDelay \in Nat
  BY Constants DEF EntryOK, Entry
<1>2. CASE outcome = "FAILED_RETRYABLE"
  BY <1>1, <1>2, Constants DEF EntryOK, Entry, Waiting, Completed
<1>3. CASE outcome # "FAILED_RETRYABLE"
  BY <1>1, <1>3, Constants DEF EntryOK, Entry, Waiting, Completed, Outcome
<1> QED
  BY <1>2, <1>3

LEMMA NewOK == ASSUME clock \in Nat PROVE EntryOK(NewEntry, 0)
  BY Constants DEF EntryOK, Entry, NewEntry, Waiting

(***************************************************************************)
(* What a planned event is, and what its commit makes of the case.         *)
(***************************************************************************)
LEMMA GivenCase ==
  ASSUME NEW d, CaseShape(d), NEW e \in ProviderEvents \cup PartnerEvents
  PROVE  /\ CaseShape(Given(d, e))
         /\ Given(d, e).kase = d.kase /\ Given(d, e).events = d.events
         /\ Given(d, e).evidence = d.evidence /\ Given(d, e).claims = d.claims
         /\ Given(d, e).transactions = d.transactions
  BY DEF Given, CaseShape, IsRecord

LEMMA EventPlan ==
  ASSUME NEW d, CaseShape(d), NEW e \in ProviderEvents \cup PartnerEvents
  PROVE  LET m == EventMutation(d, e)
         IN  /\ KaseShape(m.kase) /\ m.kase.version = d.kase.version + 1
             /\ m.requests = {m.kase.version}
             /\ \E p : m.kase.parties = d.kase.parties \cup {p}
             /\ m.events = {e}
             /\ e \in ProviderEvents =>
                  /\ m.evidence = {ProviderEvidence(e)} /\ m.transactions = {ProviderTransaction(e)}
                  /\ m.claims = {ProviderClaim("refund-exists", e), ProviderClaim("refund-status", e)}
             /\ e \notin ProviderEvents =>
                  /\ m.evidence = {PartnerEvidence(e)} /\ m.transactions = {}
                  /\ m.claims = {PartnerClaim(e)}
<1>1. KaseShape(d.kase) /\ d.kase.version + 1 \in Nat
  BY DEF CaseShape, KaseShape
<1>2. CASE e \in ProviderEvents
  BY <1>1, <1>2 DEF EventMutation, AttachOutbox, PlanProviderRefund, Mutation, KaseShape, IsRecord
<1>3. CASE e \notin ProviderEvents
  BY <1>1, <1>3 DEF EventMutation, AttachOutbox, PlanPartnerEvidence, Mutation, KaseShape, IsRecord
<1> QED
  BY <1>2, <1>3

LEMMA AppliedCase ==
  ASSUME NEW d, CaseShape(d), NEW m, KaseShape(m.kase)
  PROVE  /\ CaseShape(ApplyMutation(d, m))
         /\ ApplyMutation(d, m).kase = m.kase
         /\ ApplyMutation(d, m).events = d.events \cup m.events
         /\ ApplyMutation(d, m).evidence = d.evidence \cup m.evidence
         /\ ApplyMutation(d, m).claims = UpsertClaims(d.claims, m.claims)
         /\ ApplyMutation(d, m).transactions = d.transactions \cup m.transactions
         /\ ApplyMutation(d, m).receipts = d.receipts
  BY DEF ApplyMutation, CaseShape, IsRecord

\* What every commit does: the next version of a case that only gains records, and the
\* requests of that version.
Advances ==
  /\ CaseShape(db') /\ db'.kase.version = db.kase.version + 1
  /\ db.kase.parties \subseteq db'.kase.parties /\ db.events \subseteq db'.events
  /\ db.evidence \subseteq db'.evidence /\ db.transactions \subseteq db'.transactions
  /\ \E m : Enqueue(m) /\ m.requests = {db'.kase.version}
  /\ UNCHANGED <<clock, runs>>

LEMMA CommittedVersion ==
  ASSUME NEW d, NEW m, CommitResult(d, m) = "COMMITTED"
  PROVE  /\ m.expected = d.kase.version /\ m.kase.version = d.kase.version + 1
         /\ ~HasDuplicateEventId(d, m) /\ ~HasDuplicateRecord(d, m) /\ ReferencesAreValid(d, m)
  BY DEF CommitResult, VersionMatches

LEMMA CommitEventAdvances ==
  ASSUME TypeInv, NEW e \in ProviderEvents \cup PartnerEvents, CommitEvent(e)
  PROVE  Advances
<1> DEFINE d == Given(db, e)
           m == EventMutation(d, e)
<1>1. /\ CaseShape(d) /\ d.kase = db.kase /\ d.events = db.events /\ d.evidence = db.evidence
      /\ d.transactions = db.transactions
  BY GivenCase DEF TypeInv
<1>2. /\ KaseShape(m.kase) /\ m.kase.version = d.kase.version + 1
      /\ m.requests = {m.kase.version} /\ d.kase.parties \subseteq m.kase.parties
  BY <1>1, EventPlan
<1>3. db' = ApplyMutation(d, m) /\ Enqueue(m) /\ UNCHANGED <<clock, workers, runs>>
  BY DEF CommitEvent
<1> HIDE DEF d, m
<1>4. /\ CaseShape(db') /\ db'.kase = m.kase /\ db'.events = d.events \cup m.events
      /\ db'.evidence = d.evidence \cup m.evidence
      /\ db'.transactions = d.transactions \cup m.transactions
  BY <1>1, <1>2, <1>3, AppliedCase
<1>5. \E n : Enqueue(n) /\ n.requests = {db'.kase.version}
  BY <1>2, <1>3, <1>4
<1> QED
  BY <1>1, <1>2, <1>3, <1>4, <1>5 DEF Advances

LEMMA CommitEvaluationAdvances ==
  ASSUME TypeInv, NEW w \in Workers, CommitEvaluation(w)
  PROVE  \/ UNCHANGED <<db, queue, claims>>
         \/ Advances /\ db' = ApplyMutation(db, workers[w].work)
<1> DEFINE m == workers[w].work
<1>1. CASE CommitResult(db, m) # "COMMITTED"
  BY <1>1 DEF CommitEvaluation
<1>2. CASE CommitResult(db, m) = "COMMITTED"
  <2>1. PlanOK(m, db)
    BY DEF CommitEvaluation, TypeInv, PlansTyped
  <2>2. db' = ApplyMutation(db, m) /\ Enqueue(m) /\ UNCHANGED <<clock, runs>>
    BY <1>2 DEF CommitEvaluation
  <2>3. m.expected = db.kase.version /\ m.kase.version = db.kase.version + 1
    BY <1>2, CommittedVersion
  <2> HIDE DEF m
  <2>4. /\ CaseShape(db') /\ db'.kase = m.kase /\ db'.events = db.events \cup m.events
        /\ db'.evidence = db.evidence \cup m.evidence
        /\ db'.transactions = db.transactions \cup m.transactions
    <3>1. CaseShape(db)
      BY DEF TypeInv
    <3>2. KaseShape(m.kase)
      BY <2>1 DEF PlanOK
    <3> QED
      BY <2>2, <3>1, <3>2, AppliedCase
  <2>5. \E n : Enqueue(n) /\ n.requests = {db'.kase.version}
    BY <2>1, <2>2, <2>4 DEF PlanOK
  <2>6. db.kase.parties \subseteq db'.kase.parties
    BY <2>1, <2>3, <2>4 DEF PlanOK
  <2> QED
    BY <2>2, <2>3, <2>4, <2>5, <2>6 DEF Advances, m
<1> QED
  BY <1>1, <1>2

(***************************************************************************)
(* The steps that touch the queue.                                         *)
(***************************************************************************)
Takes(w) ==
  LET k == Current(w) IN
  /\ workers[w].pc = "next"
  /\ Claimable(queue[k], workers[w].startedAt)
  /\ queue' = [queue EXCEPT ![k] = Claimed(queue[k], w, workers[w].startedAt)]
  /\ claims' = [claims EXCEPT ![k] = claims[k] + 1]
  /\ Doing(w, "claimed", "none")
  /\ UNCHANGED <<clock, db, runs>>

Ends(w) ==
  LET k == Current(w) IN
  /\ workers[w].pc = "settling"
  /\ queue[k].state = "LEASED" /\ queue[k].owner = w
  /\ queue' = [queue EXCEPT ![k] = Completed(queue[k], workers[w].work)]
  /\ Proceed(w)
  /\ UNCHANGED <<clock, db, runs, claims>>

LEMMA BusyWhen ==
  ASSUME WorkersTyped, NEW w \in Workers, workers[w].pc # "idle"
  PROVE  BusyShape(w) /\ Current(w) \in DOMAIN queue
<1>1. BusyShape(w)
  BY DEF WorkersTyped, Idle
<1> QED
  BY <1>1 DEF BusyShape, Current

LEMMA StepKinds ==
  ASSUME TypeInv, [Next]_vars
  PROVE  UNCHANGED <<db, queue, claims>> \/ Advances \/ \E w \in Workers : Takes(w) \/ Ends(w)
<1>1. ASSUME NEW w \in Workers, Claim(w)
      PROVE  UNCHANGED <<db, queue, claims>> \/ Takes(w)
  BY <1>1 DEF Claim, Takes
<1>2. ASSUME NEW w \in Workers, Complete(w)
      PROVE  UNCHANGED <<db, queue, claims>> \/ Ends(w)
  BY <1>2 DEF Complete, Ends
<1>3. ASSUME NEW w \in Workers, StartBatch(w) \/ Load(w) \/ LoadAnalysis(w) \/ JudgeAnswer(w)
                                  \/ AppendRun(w)
      PROVE  UNCHANGED <<db, queue, claims>>
  BY <1>3 DEF StartBatch, Load, LoadAnalysis, JudgeAnswer, AppendRun
<1>4. CASE Tick \/ UNCHANGED vars
  BY <1>4 DEF Tick, vars
<1> QED
  BY <1>1, <1>2, <1>3, <1>4, CommitEventAdvances, CommitEvaluationAdvances DEF Next

LEMMA QueueStep ==
  ASSUME TypeInv, [Next]_vars
  PROVE  /\ queue' \in [(5 .. db'.kase.version) \X {1, 2, 3} -> Entry]
         /\ Attempts'
         /\ DOMAIN queue \subseteq DOMAIN queue'
<1> USE DEF TypeInv
<1>0. /\ clock \in Nat /\ db.kase.version \in Nat /\ db.kase.version >= 5
      /\ queue \in [(5 .. db.kase.version) \X {1, 2, 3} -> Entry]
  BY Constants, Seeded DEF TypeOK, CaseShape, KaseShape
<1>1. CASE UNCHANGED <<db, queue, claims>>
  BY <1>0, <1>1 DEF Attempts
<1>2. CASE Advances
  <2>1. PICK m : Enqueue(m) /\ m.requests = {db'.kase.version}
    BY <1>2 DEF Advances
  <2>2. db'.kase.version = db.kase.version + 1
    BY <1>2 DEF Advances
  <2> DEFINE D == DOMAIN queue \cup Created(m)
  <2>3. D = (5 .. db'.kase.version) \X {1, 2, 3}
    BY <1>0, <2>1, <2>2 DEF Created
  <2>4. /\ queue' = [k \in D |-> IF k \in Created(m) THEN NewEntry ELSE queue[k]]
        /\ claims' = [k \in D |-> IF k \in Created(m) THEN 0 ELSE claims[k]]
    BY <2>1 DEF Enqueue
  <2>5. ASSUME NEW k \in D PROVE EntryOK(queue'[k], claims'[k])
    BY <1>0, <2>4, <2>5, NewOK DEF Attempts
  <2>6. \A k \in D : queue'[k] \in Entry
    BY <2>5 DEF EntryOK
  <2> HIDE DEF D
  <2>7. Attempts'
    BY <2>4, <2>5 DEF Attempts
  <2>8. DOMAIN queue \subseteq D
    BY DEF D
  <2> QED
    BY <2>3, <2>4, <2>6, <2>7, <2>8
<1>3. ASSUME NEW w \in Workers, NEW k \in DOMAIN queue, NEW entry, NEW count,
             EntryOK(entry, count), queue' = [queue EXCEPT ![k] = entry],
             claims' = [claims EXCEPT ![k] = count]
      PROVE  /\ queue' \in [DOMAIN queue -> Entry] /\ Attempts'
  <2>1. entry \in Entry /\ claims = [j \in DOMAIN queue |-> claims[j]]
    BY <1>3 DEF EntryOK, Attempts
  <2>2. queue' \in [DOMAIN queue -> Entry]
    BY <1>0, <1>3, <2>1
  <2>3. \A j \in DOMAIN queue : EntryOK(queue'[j], claims'[j])
    BY <1>0, <1>3, <2>1 DEF Attempts
  <2>4. claims' = [j \in DOMAIN queue |-> claims'[j]]
    BY <1>3, <2>1
  <2> QED
    BY <2>2, <2>3, <2>4 DEF Attempts
<1>4. ASSUME NEW w \in Workers, Takes(w) PROVE queue' \in [DOMAIN queue -> Entry] /\ Attempts'
  <2>1. BusyShape(w) /\ Current(w) \in DOMAIN queue
    BY <1>4, BusyWhen DEF Takes
  <2>2. EntryOK(Claimed(queue[Current(w)], w, workers[w].startedAt), claims[Current(w)] + 1)
    BY <1>4, <2>1, ClaimedOK DEF Takes, BusyShape, Attempts
  <2> QED
    BY <1>3, <1>4, <2>1, <2>2 DEF Takes
<1>5. ASSUME NEW w \in Workers, Ends(w) PROVE queue' \in [DOMAIN queue -> Entry] /\ Attempts'
  <2>1. BusyShape(w) /\ Current(w) \in DOMAIN queue
    BY <1>5, BusyWhen DEF Ends
  <2>2. EntryOK(Completed(queue[Current(w)], workers[w].work), claims[Current(w)])
    BY <1>0, <1>5, <2>1, CompletedOK DEF Ends, BusyShape, Attempts
  <2>3. claims' = [claims EXCEPT ![Current(w)] = claims[Current(w)]]
    BY <1>5, <2>1 DEF Ends, Attempts
  <2> QED
    BY <1>3, <1>5, <2>1, <2>2, <2>3 DEF Ends
<1>6. ASSUME NEW w \in Workers, Takes(w) \/ Ends(w) PROVE db' = db
  BY <1>6 DEF Takes, Ends
<1> QED
  BY <1>0, <1>1, <1>2, <1>4, <1>5, <1>6, StepKinds

(***************************************************************************)
(* The steps of a batch.                                                   *)
(***************************************************************************)
OwnStep(w) ==
  \/ StartBatch(w) \/ Claim(w) \/ Complete(w) \/ Load(w) \/ CommitEvaluation(w)
  \/ LoadAnalysis(w) \/ JudgeAnswer(w) \/ AppendRun(w)

LEMMA OthersRest ==
  ASSUME WorkersTyped, [Next]_vars, NEW w \in Workers
  PROVE  workers'[w] = workers[w] \/ OwnStep(w)
<1>1. ASSUME NEW v \in Workers, v # w, NEW state, Become(v, state) PROVE workers'[w] = workers[w]
  BY <1>1 DEF Become, WorkersTyped
<1>2. ASSUME NEW v \in Workers, OwnStep(v) PROVE UNCHANGED workers \/ \E state : Become(v, state)
  BY <1>2 DEF OwnStep, StartBatch, Claim, Complete, Load, CommitEvaluation, LoadAnalysis,
              JudgeAnswer, AppendRun, Settle, Doing, Proceed
<1>3. CASE Tick \/ UNCHANGED vars \/ \E e \in ProviderEvents \cup PartnerEvents : CommitEvent(e)
  BY <1>3 DEF Tick, vars, CommitEvent
<1> QED
  BY <1>1, <1>2, <1>3 DEF Next, OwnStep

\* What Doing and Proceed make of a batch.
LEMMA DoingMoves ==
  ASSUME WorkersTyped, NEW w \in Workers, BusyShape(w), NEW pc, NEW work, Doing(w, pc, work)
  PROVE  /\ IsRecord(workers'[w], {"pc", "startedAt", "todo", "work"})
         /\ workers'[w].pc = pc /\ workers'[w].work = work
         /\ workers'[w].startedAt = workers[w].startedAt /\ workers'[w].todo = workers[w].todo
<1>1. workers'[w] = [workers[w] EXCEPT !.pc = pc, !.work = work]
  BY DEF Doing, Become, WorkersTyped
<1> QED
  BY <1>1 DEF BusyShape, IsRecord

LEMMA ProceedMoves ==
  ASSUME WorkersTyped, NEW w \in Workers, BusyShape(w), Proceed(w)
  PROVE  \/ workers'[w] = Idle
         \/ /\ IsRecord(workers'[w], {"pc", "startedAt", "todo", "work"})
            /\ workers'[w].pc = "next"
            /\ workers'[w].startedAt = workers[w].startedAt
            /\ workers'[w].todo = Tail(workers[w].todo) /\ workers'[w].todo # <<>>
<1> DEFINE rest == Tail(workers[w].todo)
<1>1. CASE rest = <<>>
  BY <1>1 DEF Proceed, Become, WorkersTyped
<1>2. CASE rest # <<>>
  <2>1. workers'[w] = [workers[w] EXCEPT !.pc = "next", !.todo = rest, !.work = "none"]
    BY <1>2 DEF Proceed, Become, WorkersTyped
  <2> HIDE DEF rest
  <2>2. /\ IsRecord(workers'[w], {"pc", "startedAt", "todo", "work"})
        /\ workers'[w].pc = "next" /\ workers'[w].startedAt = workers[w].startedAt
        /\ workers'[w].todo = rest
    BY <2>1 DEF BusyShape, IsRecord
  <2> QED
    BY <1>2, <2>2 DEF rest
<1> QED
  BY <1>1, <1>2

\* The three ways in which a batch moves.
Starts(w) ==
  /\ workers[w] = Idle
  /\ \E window \in DueWindows(clock) :
       /\ Listed(window, clock) # <<>>
       /\ workers'[w] = [pc |-> "next", startedAt |-> clock, todo |-> Listed(window, clock),
                         work |-> "none"]

Works(w) ==
  \E pc \in Working : \E work :
    /\ Doing(w, pc, work)
    /\ pc = "settling" => work \in Outcome

LEMMA OwnMoves ==
  ASSUME WorkersTyped, NEW w \in Workers, OwnStep(w)
  PROVE  Starts(w) \/ (BusyShape(w) /\ (Proceed(w) \/ Works(w)))
<1>1. CASE StartBatch(w)
  BY <1>1 DEF StartBatch, Starts, Become, WorkersTyped
<1>2. CASE Claim(w)
  <2>1. BusyShape(w)
    BY <1>2, BusyWhen DEF Claim
  <2>2. Proceed(w) \/ Doing(w, "claimed", "none")
    BY <1>2 DEF Claim
  <2> QED
    BY <2>1, <2>2 DEF Works, Working
<1>3. CASE Complete(w)
  BY <1>3, BusyWhen DEF Complete
<1>4. CASE Load(w)
  <2>1. BusyShape(w)
    BY <1>4, BusyWhen DEF Load
  <2>2. \/ Doing(w, "settling", "FAILED_TERMINAL") \/ Doing(w, "settling", "SUCCEEDED")
        \/ Doing(w, "analysing", "none") \/ \E work : Doing(w, "planned", work)
    BY <1>4 DEF Load, Settle
  <2> QED
    BY <2>1, <2>2 DEF Works, Working, Outcome
<1>5. CASE CommitEvaluation(w)
  <2>1. BusyShape(w)
    BY <1>5, BusyWhen DEF CommitEvaluation
  <2>2. \E result : Doing(w, "settling", AppliedResult(result))
    BY <1>5 DEF CommitEvaluation, Settle
  <2>3. \A result : AppliedResult(result) \in Outcome
    BY DEF AppliedResult, Outcome
  <2> QED
    BY <2>1, <2>2, <2>3 DEF Works, Working
<1>6. CASE LoadAnalysis(w)
  <2>1. BusyShape(w)
    BY <1>6, BusyWhen DEF LoadAnalysis
  <2>2. Doing(w, "asked", BuildInput(db))
    BY <1>6 DEF LoadAnalysis
  <2> QED
    BY <2>1, <2>2 DEF Works, Working
<1>7. CASE JudgeAnswer(w)
  <2>1. BusyShape(w)
    BY <1>7, BusyWhen DEF JudgeAnswer
  <2>2. Doing(w, "settling", "FAILED_RETRYABLE") \/ \E work : Doing(w, "judged", work)
    BY <1>7 DEF JudgeAnswer, Settle
  <2> QED
    BY <2>1, <2>2 DEF Works, Working, Outcome
<1>8. CASE AppendRun(w)
  <2>1. BusyShape(w)
    BY <1>8, BusyWhen DEF AppendRun
  <2>2. \E result : Doing(w, "settling", AppliedResult(result))
    BY <1>8 DEF AppendRun, Settle
  <2>3. \A result : AppliedResult(result) \in Outcome
    BY DEF AppliedResult, Outcome
  <2> QED
    BY <2>1, <2>2, <2>3 DEF Works, Working
<1> QED
  BY <1>1, <1>2, <1>3, <1>4, <1>5, <1>6, <1>7, <1>8 DEF OwnStep

LEMMA ClockStep ==
  ASSUME TypeInv, [Next]_vars
  PROVE  clock \in Nat /\ clock' \in 0 .. MaxClock /\ clock <= clock'
<1>1. clock' = clock \/ (clock < MaxClock /\ clock' = clock + 1)
  BY DEF Next, CommitEvent, StartBatch, Claim, Complete, Load, CommitEvaluation, LoadAnalysis,
         JudgeAnswer, AppendRun, Tick, vars
<1> QED
  BY <1>1, Constants DEF TypeInv, TypeOK

LEMMA WorkersStep ==
  ASSUME TypeInv, [Next]_vars
  PROVE  WorkersTyped'
<1> USE DEF TypeInv
<1>1. clock \in Nat /\ clock' \in Nat /\ clock <= clock' /\ DOMAIN queue \subseteq DOMAIN queue'
  BY ClockStep, QueueStep
<1>2. workers' = [w \in Workers |-> workers'[w]]
  BY DEF WorkersTyped, Next, CommitEvent, StartBatch, Claim, Complete, Load, CommitEvaluation,
         LoadAnalysis, JudgeAnswer, AppendRun, Tick, vars, Settle, Doing, Proceed, Become
<1>3. ASSUME NEW w \in Workers, BusyShape(w),
             IsRecord(workers'[w], {"pc", "startedAt", "todo", "work"}),
             workers'[w].pc \in Working \cup {"next"},
             workers'[w].startedAt = workers[w].startedAt,
             workers'[w].todo \in {workers[w].todo, Tail(workers[w].todo)}, workers'[w].todo # <<>>,
             workers'[w].pc = "settling" => workers'[w].work \in Outcome
      PROVE  BusyShape(w)'
  <2>1. workers'[w].todo \in Seq(DOMAIN queue)
    <3>1. ASSUME NEW s \in Seq(DOMAIN queue), s # <<>> PROVE Tail(s) \in Seq(DOMAIN queue)
      BY <3>1
    <3> QED
      BY <1>3, <3>1 DEF BusyShape
  <2>2. workers'[w].todo \in Seq(DOMAIN queue')
    BY <1>1, <2>1
  <2> QED
    BY <1>1, <1>3, <2>2 DEF BusyShape
<1>4. ASSUME NEW w \in Workers, workers'[w] = workers[w] PROVE workers'[w] = Idle \/ BusyShape(w)'
  <2>1. CASE BusyShape(w)
    <3>1. /\ IsRecord(workers[w], {"pc", "startedAt", "todo", "work"})
          /\ workers[w].pc \in Working \cup {"next"} /\ workers[w].todo # <<>>
          /\ workers[w].pc = "settling" => workers[w].work \in Outcome
      BY <2>1 DEF BusyShape
    <3> QED
      BY <1>3, <1>4, <2>1, <3>1
  <2> QED
    BY <1>4, <2>1 DEF WorkersTyped
<1>5. ASSUME NEW w \in Workers, Starts(w) PROVE BusyShape(w)'
  <2>1. PICK window \in DueWindows(clock) :
          /\ Listed(window, clock) # <<>>
          /\ workers'[w] = [pc |-> "next", startedAt |-> clock, todo |-> Listed(window, clock),
                            work |-> "none"]
    BY <1>5 DEF Starts
  <2>2. Listed(window, clock) \in Seq(DOMAIN queue)
    BY BatchTyped
  <2>3. Listed(window, clock) \in Seq(DOMAIN queue')
    BY <1>1, <2>2
  <2> QED
    BY <1>1, <2>1, <2>3 DEF BusyShape, IsRecord
<1>6. ASSUME NEW w \in Workers, BusyShape(w), Proceed(w)
      PROVE  workers'[w] = Idle \/ BusyShape(w)'
  BY <1>3, <1>6, ProceedMoves
<1>7. ASSUME NEW w \in Workers, BusyShape(w), Works(w) PROVE BusyShape(w)'
  <2>1. PICK pc \in Working : \E work : Doing(w, pc, work) /\ (pc = "settling" => work \in Outcome)
    BY <1>7 DEF Works
  <2>2. workers[w].todo # <<>>
    BY <1>7 DEF BusyShape
  <2> QED
    BY <1>3, <1>7, <2>1, <2>2, DoingMoves
<1>8. ASSUME NEW w \in Workers PROVE workers'[w] = Idle \/ BusyShape(w)'
  BY <1>4, <1>5, <1>6, <1>7, OthersRest, OwnMoves
<1> QED
  BY <1>2, <1>8 DEF WorkersTyped

LEMMA PlanStep ==
  ASSUME TypeInv, ResolutionReady(db), NEW cited
  PROVE  PlanOK(AttachOutbox(PlanResolution(db, cited)), db)
<1>1. KaseShape(db.kase) /\ db.kase.version \in Nat /\ db.kase.version + 1 \in Nat
  BY DEF TypeInv, CaseShape, KaseShape
<1>2. /\ KaseShape(TransitionedCase(db.kase, "RESOLVED"))
      /\ TransitionedCase(db.kase, "RESOLVED").version = db.kase.version + 1
      /\ TransitionedCase(db.kase, "RESOLVED").parties = db.kase.parties
  BY <1>1 DEF TransitionedCase, KaseShape, IsRecord
<1> QED
  BY <1>1, <1>2 DEF AttachOutbox, PlanResolution, Mutation, PlanOK

\* A planned resolution was planned before, or from the case as it is and ready.
LEMMA PlannedMoves ==
  ASSUME TypeInv, [Next]_vars, NEW w \in Workers, workers'[w].pc = "planned"
  PROVE  \/ workers'[w] = workers[w]
         \/ /\ ResolutionReady(db) /\ db' = db
            /\ \E cited : workers'[w].work = AttachOutbox(PlanResolution(db, cited))
<1> USE DEF TypeInv
<1>1. CASE Load(w)
  <2>1. BusyShape(w)
    BY <1>1, BusyWhen DEF Load
  <2>2. /\ ResolutionReady(db)
        /\ \E cited \in ResolutionEvidence(db) :
             Doing(w, "planned", AttachOutbox(PlanResolution(db, cited)))
    BY <1>1, <2>1, DoingMoves DEF Load, Settle
  <2>3. PICK cited : Doing(w, "planned", AttachOutbox(PlanResolution(db, cited)))
    BY <2>2
  <2> QED
    BY <1>1, <2>1, <2>2, <2>3, DoingMoves DEF Load
<1>2. ASSUME StartBatch(w) \/ Claim(w) \/ Complete(w) PROVE FALSE
  <2>1. CASE StartBatch(w)
    BY <2>1 DEF StartBatch, Become, WorkersTyped
  <2>2. ASSUME BusyShape(w), Proceed(w) PROVE FALSE
    BY <2>2, ProceedMoves DEF Idle
  <2>3. CASE Claim(w)
    BY <2>2, <2>3, BusyWhen, DoingMoves DEF Claim
  <2>4. CASE Complete(w)
    BY <2>2, <2>4, BusyWhen DEF Complete
  <2> QED
    BY <1>2, <2>1, <2>3, <2>4
<1>3. ASSUME CommitEvaluation(w) \/ LoadAnalysis(w) \/ JudgeAnswer(w) \/ AppendRun(w) PROVE FALSE
  <2>1. BusyShape(w)
    BY <1>3, BusyWhen DEF CommitEvaluation, LoadAnalysis, JudgeAnswer, AppendRun
  <2>2. \E pc \in {"settling", "asked", "judged"} : \E work : Doing(w, pc, work)
    BY <1>3 DEF CommitEvaluation, LoadAnalysis, JudgeAnswer, AppendRun, Settle
  <2> QED
    BY <2>1, <2>2, DoingMoves
<1> QED
  BY <1>1, <1>2, <1>3, OthersRest DEF OwnStep

LEMMA PlansStep ==
  ASSUME TypeInv, [Next]_vars
  PROVE  PlansTyped'
<1> SUFFICES ASSUME NEW w \in Workers, workers'[w].pc = "planned" PROVE PlanOK(workers'[w].work, db')
  BY DEF PlansTyped
<1> USE DEF TypeInv
<1>1. CASE workers'[w] = workers[w]
  <2>1. PlanOK(workers[w].work, db)
    BY <1>1 DEF PlansTyped
  <2>2. UNCHANGED db \/ db'.kase.version = db.kase.version + 1
    BY StepKinds DEF Advances, Takes, Ends
  <2>3. db.kase.version \in Nat
    BY DEF CaseShape, KaseShape
  <2> QED
    BY <1>1, <2>1, <2>2, <2>3 DEF PlanOK
<1>2. ASSUME ResolutionReady(db), db' = db,
             NEW cited, workers'[w].work = AttachOutbox(PlanResolution(db, cited))
      PROVE  PlanOK(workers'[w].work, db')
  BY <1>2, PlanStep
<1> QED
  BY <1>1, <1>2, PlannedMoves

LEMMA TypeInit == Init => TypeInv
<1> SUFFICES ASSUME Init PROVE TypeInv
  OBVIOUS
<1>1. PICK e \in ProviderEvents \cup PartnerEvents :
        db = ApplyMutation(Given(SeededCase, e), EventMutation(Given(SeededCase, e), e))
  BY DEF Init
<1> DEFINE d == Given(SeededCase, e)
           m == EventMutation(d, e)
<1>2. CaseShape(d) /\ d.kase.version = 4
  BY Seeded, GivenCase
<1>3. KaseShape(m.kase) /\ m.kase.version = 5
  <2> HIDE DEF d
  <2> QED
    BY <1>2, EventPlan
<1>4. CaseShape(db) /\ db.kase.version = 5
  <2> HIDE DEF d, m
  <2>1. db = ApplyMutation(d, m)
    BY <1>1 DEF d, m
  <2> QED
    BY <1>2, <1>3, <2>1, AppliedCase
<1>5. /\ queue \in [(5 .. db.kase.version) \X {1, 2, 3} -> Entry]
      /\ \A k \in DOMAIN queue : EntryOK(queue[k], claims[k])
      /\ claims = [k \in DOMAIN queue |-> claims[k]]
  <2>1. clock \in Nat
    BY DEF Init
  <2>2. EntryOK([NewEntry EXCEPT !.state = "SUCCEEDED"], 1)
    BY <2>1, Constants DEF NewEntry, EntryOK, Entry, Waiting
  <2>3. [NewEntry EXCEPT !.state = "SUCCEEDED"] \in Entry
    BY <2>2 DEF EntryOK
  <2>4. (5 .. db.kase.version) \X {1, 2, 3} = {db.kase.version} \X {1, 2, 3}
    BY <1>4
  <2> QED
    BY <2>2, <2>3, <2>4 DEF Init
<1>6. clock \in 0 .. MaxClock /\ workers = [w \in Workers |-> Idle]
  BY Constants DEF Init
<1>7. TypeOK
  BY <1>5, <1>6, Seeded DEF TypeOK, EntryOK, Idle
<1> QED
  BY <1>4, <1>5, <1>6, <1>7 DEF TypeInv, WorkersTyped, PlansTyped, Attempts, Idle

LEMMA TypeStep == TypeInv /\ [Next]_vars => TypeInv'
<1> SUFFICES ASSUME TypeInv, [Next]_vars PROVE TypeInv'
  OBVIOUS
<1>1. WorkersTyped' /\ PlansTyped' /\ Attempts' /\ clock' \in 0 .. MaxClock
  BY WorkersStep, PlansStep, QueueStep, ClockStep
<1>2. CaseShape(db)' /\ db'.kase.version >= 5
  <2>1. UNCHANGED db \/ (CaseShape(db') /\ db'.kase.version = db.kase.version + 1)
    BY StepKinds DEF Advances, Takes, Ends
  <2>2. db.kase.version \in Nat /\ db.kase.version >= 5 /\ CaseShape(db)
    BY DEF TypeInv, CaseShape, KaseShape
  <2> QED
    BY <2>1, <2>2
<1>3. /\ queue' \in [(5 .. db'.kase.version) \X {1, 2, 3} -> Entry]
      /\ \A k \in DOMAIN queue' : queue'[k].state = "LEASED" <=> queue'[k].owner # NoWorker
  BY <1>1, QueueStep DEF Attempts, EntryOK
<1>4. \A w \in Workers :
        workers'[w].pc \in {"idle", "next", "claimed", "settling", "planned", "analysing",
                            "asked", "judged"}
  BY <1>1 DEF WorkersTyped, BusyShape, Working, Idle
<1>5. TypeOK'
  BY <1>1, <1>3, <1>4, Seeded DEF TypeOK
<1> QED
  BY <1>1, <1>2, <1>5 DEF TypeInv

\* Every reachable state is typed: every version has its three requests, a request has an
\* owner exactly while it is leased, and its retries stay within the cap.
THEOREM TypeCorrect == Spec => []TypeOK
<1>1. TypeInv => TypeOK
  BY DEF TypeInv
<1> QED
  BY <1>1, TypeInit, TypeStep, PTL DEF Spec

\* No request is worked on more often than the cap: an attempt that fails and a lease that
\* is taken over each cost a retry, and neither happens at the cap.
THEOREM AttemptsBoundedHolds == Spec => []AttemptsBounded
<1>1. TypeInv => AttemptsBounded
  BY DEF TypeInv, Attempts, EntryOK, AttemptsBounded
<1> QED
  BY <1>1, TypeInit, TypeStep, PTL DEF Spec

-----------------------------------------------------------------------------
(***************************************************************************)
(* A lease that runs is nobody else's.                                     *)
(***************************************************************************)
LEMMA EntryMoves ==
  ASSUME TypeInv, [Next]_vars, NEW k \in DOMAIN queue
  PROVE  \/ queue'[k] = queue[k]
         \/ \E w \in Workers : k = Current(w) /\ (Takes(w) \/ Ends(w))
<1>1. CASE Advances
  <2>1. PICK m : Enqueue(m) /\ m.requests = {db.kase.version + 1}
    BY <1>1 DEF Advances
  <2>2. k[1] <= db.kase.version /\ db.kase.version \in Nat /\ k[1] \in Int
    BY QueueTyped DEF TypeInv, CaseShape, KaseShape
  <2>3. k \notin Created(m)
    BY <2>1, <2>2 DEF Created
  <2> QED
    BY <2>1, <2>3 DEF Enqueue
<1>2. ASSUME NEW w \in Workers, k # Current(w), Takes(w) \/ Ends(w) PROVE queue'[k] = queue[k]
  <2>1. queue = [j \in DOMAIN queue |-> queue[j]]
    BY DEF TypeInv, TypeOK
  <2> QED
    BY <1>2, <2>1 DEF Takes, Ends
<1> QED
  BY <1>1, <1>2, StepKinds

\* A batch at work was at work on the same request, or has just claimed it.
Stays(w) ==
  /\ workers[w].pc \in Working
  /\ workers'[w].startedAt = workers[w].startedAt /\ workers'[w].todo = workers[w].todo

LEMMA WorkingMoves ==
  ASSUME TypeInv, [Next]_vars, NEW w \in Workers, workers'[w].pc \in Working
  PROVE  /\ BusyShape(w) /\ workers'[w].startedAt = workers[w].startedAt
         /\ workers'[w].todo = workers[w].todo
         /\ Takes(w) \/ (Stays(w) /\ ~Ends(w))
<1> USE DEF TypeInv
<1>1. ASSUME BusyShape(w), Proceed(w) PROVE FALSE
  BY <1>1, ProceedMoves DEF Idle, Working
<1>2. CASE workers'[w] = workers[w]
  <2>1. BusyShape(w)
    BY <1>2, BusyWhen DEF Working
  <2>2. ~Ends(w)
    BY <1>1, <2>1 DEF Ends
  <2> QED
    BY <1>2, <2>1, <2>2 DEF Stays
<1>3. ASSUME StartBatch(w) \/ Complete(w) PROVE FALSE
  <2>1. CASE StartBatch(w)
    BY <2>1 DEF StartBatch, Become, WorkersTyped, Working
  <2>2. CASE Complete(w)
    BY <1>1, <2>2, BusyWhen DEF Complete
  <2> QED
    BY <1>3, <2>1, <2>2
<1>4. CASE Claim(w)
  <2>1. BusyShape(w)
    BY <1>4, BusyWhen DEF Claim
  <2>2. Takes(w)
    BY <1>1, <1>4, <2>1 DEF Claim, Takes
  <2>3. Doing(w, "claimed", "none")
    BY <2>2 DEF Takes
  <2> QED
    BY <2>1, <2>2, <2>3, DoingMoves
<1>5. CASE Load(w) \/ CommitEvaluation(w) \/ LoadAnalysis(w) \/ JudgeAnswer(w) \/ AppendRun(w)
  <2>1. BusyShape(w) /\ workers[w].pc \in Working
    BY <1>5, BusyWhen DEF Load, CommitEvaluation, LoadAnalysis, JudgeAnswer, AppendRun, Working
  <2>2. \E pc, work : Doing(w, pc, work)
    BY <1>5 DEF Load, CommitEvaluation, LoadAnalysis, JudgeAnswer, AppendRun, Settle
  <2>3. ~Ends(w)
    BY <1>1, <2>1 DEF Ends
  <2> QED
    BY <2>1, <2>2, <2>3, DoingMoves DEF Stays
<1> QED
  BY <1>2, <1>3, <1>4, <1>5, OthersRest DEF OwnStep

Running(w) == workers[w].pc \in Working /\ clock < workers[w].startedAt + LeaseTime

LeaseKept ==
  \A w \in Workers : Running(w) =>
    /\ queue[Current(w)].state = "LEASED" /\ queue[Current(w)].owner = w
    /\ queue[Current(w)].until = workers[w].startedAt + LeaseTime

LEMMA LeaseStep == TypeInv /\ LeaseKept /\ [Next]_vars => LeaseKept'
<1> SUFFICES ASSUME TypeInv, LeaseKept, [Next]_vars, NEW w \in Workers,
                    workers'[w].pc \in Working, clock' < workers'[w].startedAt + LeaseTime
             PROVE  LET q == queue'[Head(workers'[w].todo)]
                    IN  /\ q.state = "LEASED" /\ q.owner = w
                        /\ q.until = workers'[w].startedAt + LeaseTime
  BY DEF LeaseKept, Running, Current
<1> USE DEF TypeInv
<1> DEFINE k == Current(w)
<1>1. /\ BusyShape(w) /\ k \in DOMAIN queue
      /\ Head(workers'[w].todo) = k /\ workers'[w].startedAt = workers[w].startedAt
      /\ Takes(w) \/ (Stays(w) /\ ~Ends(w))
  BY WorkingMoves, BusyWhen DEF BusyShape, Current, Working
<1>2. CASE Takes(w)
  <2>1. queue'[k] = Claimed(queue[k], w, workers[w].startedAt) /\ queue[k] \in Entry
    BY <1>1, <1>2, QueueTyped DEF Takes, TypeOK
  <2>2. /\ queue'[k].state = "LEASED" /\ queue'[k].owner = w
        /\ queue'[k].until = workers[w].startedAt + LeaseTime
    BY <2>1 DEF Claimed, Entry
  <2> QED
    BY <1>1, <2>2
<1>3. CASE Stays(w) /\ ~Ends(w)
  <2>1. clock \in Nat /\ clock' \in Nat /\ clock <= clock' /\ workers[w].startedAt \in Nat
    BY <1>1, ClockStep DEF BusyShape
  <2>2. clock < workers[w].startedAt + LeaseTime
    BY <1>1, <2>1, Constants
  <2>3. /\ queue[k].state = "LEASED" /\ queue[k].owner = w
        /\ queue[k].until = workers[w].startedAt + LeaseTime
    BY <1>3, <2>2 DEF LeaseKept, Running, Stays
  <2>4. ASSUME NEW v \in Workers, k = Current(v), Takes(v) PROVE FALSE
    <3>1. workers[v].startedAt \in Nat /\ workers[v].startedAt <= clock
      BY <2>4, BusyWhen DEF Takes, BusyShape
    <3>2. ~Expired(queue[k], workers[v].startedAt) /\ ~Waiting(queue[k])
      BY <2>1, <2>2, <2>3, <3>1, Constants DEF Expired, Waiting
    <3> QED
      BY <2>4, <3>2 DEF Takes, Claimable
  <2>5. ASSUME NEW v \in Workers, k = Current(v), Ends(v) PROVE FALSE
    BY <1>3, <2>3, <2>5 DEF Ends
  <2>6. queue'[k] = queue[k]
    BY <1>1, <2>4, <2>5, EntryMoves
  <2> QED
    BY <1>1, <2>3, <2>6
<1> QED
  BY <1>1, <1>2, <1>3

\* While the lease of a batch runs, the request it works on is leased to it: a batch that
\* listed the same request earlier or later claims with the time of its own start, which is
\* not past the lease.
THEOREM LiveLeaseIsExclusiveHolds == Spec => []LiveLeaseIsExclusive
<1>1. Init => LeaseKept
  BY DEF Init, LeaseKept, Running, Idle, Working
<1>2. LeaseKept => LiveLeaseIsExclusive
  BY DEF LeaseKept, Running, LiveLeaseIsExclusive
<1> QED
  BY <1>1, <1>2, TypeInit, TypeStep, LeaseStep, PTL DEF Spec
-----------------------------------------------------------------------------
(***************************************************************************)
(* An analysis that is reported is stored.                                 *)
(***************************************************************************)
Analysis == "RUN_AGENT_ANALYSIS"
Recorded(k, stored) == \E run \in stored : run.basedOn >= k[1]

\* What a batch at work on an analysis knows of the request it works on.
WorkRecorded(s, stored) ==
  LET k == Head(s.todo) IN
  /\ s.pc \in {"analysing", "asked", "judged"} => Kinds[k[2]] = Analysis
  /\ s.pc = "planned" => Kinds[k[2]] # Analysis
  /\ s.pc = "asked" => s.work.version \in Nat /\ s.work.version >= k[1]
  /\ s.pc = "judged" => s.work.run.basedOn \in Nat /\ s.work.run.basedOn >= k[1]
  /\ s.pc = "settling" /\ s.work = "SUCCEEDED" /\ Kinds[k[2]] = Analysis => Recorded(k, stored)

WorkIsRecorded == \A w \in Workers : WorkRecorded(workers[w], runs)

LEMMA RunVersion ==
  ASSUME NEW input, NEW answer, NEW d
  PROVE  BuildAgentRun(input, answer, d).basedOn = input.version
  BY DEF BuildAgentRun, JudgedRun, Run

LEMMA RunsGrow ==
  ASSUME [Next]_vars
  PROVE  runs \subseteq runs'
  BY DEF Next, CommitEvent, StartBatch, Claim, Complete, Load, CommitEvaluation, LoadAnalysis,
         JudgeAnswer, AppendRun, Tick, vars

LEMMA WorkRecordedStep ==
  ASSUME TypeInv, WorkIsRecorded, [Next]_vars
  PROVE  WorkIsRecorded'
<1> SUFFICES ASSUME NEW w \in Workers PROVE WorkRecorded(workers'[w], runs')
  BY DEF WorkIsRecorded
<1> USE DEF TypeInv
<1> DEFINE k == Current(w)
<1>0. WorkRecorded(workers[w], runs) /\ runs \subseteq runs'
  BY RunsGrow DEF WorkIsRecorded
<1>1. CASE workers'[w].pc \notin Working
  BY <1>1 DEF WorkRecorded, Working
<1>2. CASE workers'[w] = workers[w]
  BY <1>0, <1>2 DEF WorkRecorded, Recorded
<1>3. ASSUME workers'[w].pc \in Working, OwnStep(w)
      PROVE  WorkRecorded(workers'[w], runs')
  <2>1. /\ BusyShape(w) /\ Head(workers'[w].todo) = k /\ k \in DOMAIN queue
        /\ workers[w].pc # "idle"
    BY <1>3, WorkingMoves, BusyWhen DEF BusyShape, Current, Working
  <2>2. k[1] \in Nat /\ k[2] \in {1, 2, 3} /\ k[1] <= db.kase.version /\ db.kase.version \in Nat
    BY <2>1, QueueTyped DEF CaseShape, KaseShape
  <2>3. ASSUME NEW pc, NEW work, Doing(w, pc, work)
        PROVE  workers'[w].pc = pc /\ workers'[w].work = work
    BY <2>1, <2>3, DoingMoves
  <2>4. ASSUME Proceed(w) PROVE FALSE
    BY <1>3, <2>1, <2>4, ProceedMoves DEF Idle, Working
  <2>5. CASE StartBatch(w) \/ Complete(w)
    BY <2>1, <2>4, <2>5 DEF StartBatch, Complete, Idle
  <2>6. CASE Claim(w)
    BY <2>3, <2>4, <2>6 DEF Claim, WorkRecorded
  <2>7. CASE Load(w)
    <3>1. /\ workers'[w].pc \in {"analysing", "planned", "settling"}
          /\ workers'[w].pc = "analysing" => Kinds[k[2]] = Analysis
          /\ workers'[w].pc = "planned" => Kinds[k[2]] # Analysis
          /\ workers'[w].pc = "settling" /\ workers'[w].work = "SUCCEEDED" => Kinds[k[2]] # Analysis
      BY <2>3, <2>7 DEF Load, Settle, Analysis
    <3> QED
      BY <2>1, <3>1 DEF WorkRecorded
  <2>8. CASE CommitEvaluation(w)
    <3>1. workers'[w].pc = "settling" /\ Kinds[k[2]] # Analysis
      BY <1>0, <2>3, <2>8 DEF CommitEvaluation, Settle, WorkRecorded, Current
    <3> QED
      BY <2>1, <3>1 DEF WorkRecorded
  <2>9. CASE LoadAnalysis(w)
    <3>1. workers'[w].pc = "asked" /\ workers'[w].work.version = db.kase.version
      BY <2>3, <2>9 DEF LoadAnalysis, BuildInput
    <3>2. Kinds[k[2]] = Analysis
      BY <1>0, <2>9 DEF LoadAnalysis, WorkRecorded, Current
    <3> QED
      BY <2>1, <2>2, <3>1, <3>2 DEF WorkRecorded
  <2>10. CASE JudgeAnswer(w)
    <3>1. Kinds[k[2]] = Analysis /\ workers[w].work.version \in Nat /\ workers[w].work.version >= k[1]
      BY <1>0, <2>10 DEF JudgeAnswer, WorkRecorded, Current
    <3>2. CASE Settle(w, "FAILED_RETRYABLE")
      BY <2>1, <2>3, <3>2 DEF Settle, WorkRecorded
    <3>3. CASE ~Settle(w, "FAILED_RETRYABLE")
      <4>1. PICK answer :
              Doing(w, "judged", [run |-> BuildAgentRun(workers[w].work, answer, db),
                                  expected |-> db.kase.version,
                                  named |-> Named(answer, workers[w].work)])
        BY <2>10, <3>3 DEF JudgeAnswer
      <4>2. /\ workers'[w].pc = "judged"
            /\ workers'[w].work.run.basedOn = workers[w].work.version
        BY <2>3, <4>1, RunVersion
      <4> QED
        BY <2>1, <3>1, <4>2 DEF WorkRecorded
    <3> QED
      BY <3>2, <3>3
  <2>11. CASE AppendRun(w)
    <3> DEFINE run == workers[w].work.run
               result == AppendResult(db, run, workers[w].work.expected)
    <3>1. Kinds[k[2]] = Analysis /\ run.basedOn >= k[1]
      BY <1>0, <2>11 DEF AppendRun, WorkRecorded, Current
    <3>2. workers'[w].pc = "settling" /\ workers'[w].work = AppliedResult(result)
      BY <2>3, <2>11 DEF AppendRun, Settle
    <3>3. runs' = IF result = "COMMITTED" THEN runs \cup {run} ELSE runs
      BY <2>11 DEF AppendRun
    <3> HIDE DEF run, result
    <3>4. AppliedResult(result) = "SUCCEEDED" => result = "COMMITTED"
      BY DEF AppliedResult
    <3> QED
      BY <2>1, <3>1, <3>2, <3>3, <3>4 DEF WorkRecorded, Recorded
  <2> QED
    BY <1>3, <2>5, <2>6, <2>7, <2>8, <2>9, <2>10, <2>11 DEF OwnStep
<1> QED
  BY <1>1, <1>2, <1>3, OthersRest

LEMMA AnalysisStep ==
  ASSUME TypeInv, WorkIsRecorded, AnalysisIsRecorded, [Next]_vars
  PROVE  AnalysisIsRecorded'
<1> SUFFICES ASSUME NEW k \in DOMAIN queue', Kinds[k[2]] = Analysis, queue'[k].state = "SUCCEEDED"
             PROVE  Recorded(k, runs')
  BY DEF AnalysisIsRecorded, Recorded, Analysis
<1> USE DEF TypeInv
<1>0. runs \subseteq runs'
  BY RunsGrow
<1>1. CASE k \notin DOMAIN queue
  <2>1. ASSUME NEW w \in Workers, Takes(w) \/ Ends(w) PROVE DOMAIN queue' = DOMAIN queue
    BY <2>1 DEF Takes, Ends, TypeOK
  <2>2. Advances
    BY <1>1, <2>1, StepKinds
  <2> QED
    BY <1>1, <2>2 DEF Advances, Enqueue, NewEntry
<1>2. CASE k \in DOMAIN queue /\ queue'[k] = queue[k]
  <2>1. Recorded(k, runs)
    BY <1>2 DEF AnalysisIsRecorded, Recorded, Analysis
  <2> QED
    BY <1>0, <2>1 DEF Recorded
<1>3. ASSUME NEW w \in Workers, k = Current(w), k \in DOMAIN queue, Takes(w) PROVE FALSE
  <2>1. queue'[k].state = "LEASED"
    BY <1>3, QueueTyped DEF Takes, Claimed, Entry, TypeOK
  <2> QED
    BY <2>1
<1>4. ASSUME NEW w \in Workers, k = Current(w), k \in DOMAIN queue, Ends(w)
      PROVE  Recorded(k, runs')
  <2>1. queue'[k] = Completed(queue[k], workers[w].work)
    BY <1>4 DEF Ends, TypeOK
  <2>2. workers[w].work = "SUCCEEDED"
    BY <2>1 DEF Completed
  <2>3. Recorded(k, runs)
    BY <1>4, <2>2 DEF Ends, WorkIsRecorded, WorkRecorded, Current
  <2> QED
    BY <1>0, <2>3 DEF Recorded
<1> QED
  BY <1>1, <1>2, <1>3, <1>4, EntryMoves

\* An analysis request that succeeded has a stored run that read the version it is pinned
\* to or a later one: a batch reports success only of a run that was committed, and the run
\* was built on what the batch loaded after it found the case at that version.
THEOREM AnalysisIsRecordedHolds == Spec => []AnalysisIsRecorded
<1>1. Init => WorkIsRecorded /\ AnalysisIsRecorded
  <2> SUFFICES ASSUME Init PROVE WorkIsRecorded /\ AnalysisIsRecorded
    OBVIOUS
  <2>1. WorkIsRecorded
    BY DEF Init, Idle, WorkIsRecorded, WorkRecorded
  <2>2. \E run \in runs : run.basedOn = db.kase.version
    <3>1. PICK answer : runs = {BuildAgentRun(BuildInput(db), answer, db)}
      BY DEF Init
    <3>2. BuildAgentRun(BuildInput(db), answer, db).basedOn = db.kase.version
      BY RunVersion DEF BuildInput
    <3> QED
      BY <3>1, <3>2
  <2>3. ASSUME NEW k \in DOMAIN queue PROVE k[1] \in Nat /\ k[1] <= db.kase.version
    BY TypeInit, QueueTyped DEF TypeInv, CaseShape, KaseShape
  <2>4. db.kase.version \in Nat
    BY TypeInit DEF TypeInv, CaseShape, KaseShape
  <2> QED
    BY <2>1, <2>2, <2>3, <2>4 DEF AnalysisIsRecorded
<1> QED
  BY <1>1, TypeInit, TypeStep, WorkRecordedStep, AnalysisStep, PTL DEF Spec
-----------------------------------------------------------------------------
(***************************************************************************)
(* The records only grow: a claim that nothing supports is the seed's, or  *)
(* the answer to a partner request, which is given once; an event of the   *)
(* provider replaces none of them.                                         *)
(***************************************************************************)
Lasting(c, d) ==
  \/ c.id[1] = "seed"
  \/ /\ c.id[1] = "partner" /\ c.id[2][2] \in PartnerRequests
     /\ d.receipts[c.id[2][2]].state # "OPEN"

FiniteRecords(d) ==
  /\ IsFiniteSet(d.kase.parties) /\ IsFiniteSet(d.events)
  /\ IsFiniteSet(d.evidence) /\ IsFiniteSet(d.claims)

RecordsOK(d) == FiniteRecords(d) /\ \A c \in Unsupported(d) : Lasting(c, d)

\* What stays of a case d in a later one, as far as an agent run refers to it.
Keeps(d, later) ==
  /\ d.kase.parties \subseteq later.kase.parties
  /\ IdsOf(d.events) \subseteq IdsOf(later.events)
  /\ IdsOf(d.evidence) \subseteq IdsOf(later.evidence)
  /\ IdsOf(d.claims) \subseteq IdsOf(later.claims)
  /\ Unsupported(d) \subseteq Unsupported(later)

LEMMA Pairs == ASSUME NEW x, NEW y PROVE IsFiniteSet({x, y})
<1>1. IsFiniteSet({x} \cup {y})
  BY FS_Singleton, FS_AddElement
<1>2. {x, y} = {x} \cup {y}
  OBVIOUS
<1> QED
  BY <1>1, <1>2

LEMMA AppliedRecords ==
  ASSUME NEW d, CaseShape(d), FiniteRecords(d), NEW m, KaseShape(m.kase),
         IsFiniteSet(m.kase.parties), IsFiniteSet(m.events), IsFiniteSet(m.evidence),
         IsFiniteSet(m.claims), d.kase.parties \subseteq m.kase.parties,
         \A c \in Unsupported(d) : c.id \notin IdsOf(m.claims)
  PROVE  LET later == ApplyMutation(d, m)
         IN  /\ FiniteRecords(later) /\ Keeps(d, later)
             /\ \A c \in Unsupported(later) :
                  c \in Unsupported(d) \/ (c \in m.claims /\ ~Has(c, "SUPPORTS_PROPOSITION"))
<1> DEFINE later == ApplyMutation(d, m)
           kept == { c \in d.claims : c.id \notin IdsOf(m.claims) }
<1>1. /\ later.kase = m.kase /\ later.events = d.events \cup m.events
      /\ later.evidence = d.evidence \cup m.evidence
      /\ later.claims = kept \cup m.claims
  BY AppliedCase DEF UpsertClaims
<1> HIDE DEF later
<1>2. FiniteRecords(later)
  <2>1. IsFiniteSet(d.events \cup m.events) /\ IsFiniteSet(d.evidence \cup m.evidence)
    BY FS_Union DEF FiniteRecords
  <2>2. kept \subseteq d.claims
    OBVIOUS
  <2> HIDE DEF kept
  <2>3. IsFiniteSet(later.claims)
    BY <1>1, <2>2, FS_Subset, FS_Union DEF FiniteRecords
  <2> QED
    BY <1>1, <2>1, <2>3 DEF FiniteRecords
<1>3. Keeps(d, later)
  BY <1>1 DEF Keeps, IdsOf, Unsupported
<1>4. \A c \in Unsupported(later) :
        c \in Unsupported(d) \/ (c \in m.claims /\ ~Has(c, "SUPPORTS_PROPOSITION"))
  BY <1>1 DEF Unsupported
<1> QED
  BY <1>2, <1>3, <1>4 DEF later

LEMMA ProviderSupports ==
  ASSUME NEW aspect, NEW e
  PROVE  Has(ProviderClaim(aspect, e), "SUPPORTS_PROPOSITION")
<1> DEFINE c == ProviderClaim(aspect, e)
<1>1. c.status = "SUPPORTED" /\ e.id \in c.evidence
  BY DEF ProviderClaim
<1> HIDE DEF c
<1>2. [evidence |-> e.id, kind |-> "SUPPORTS_PROPOSITION"] \in Relationships(c)
  BY <1>1 DEF Relationships
<1>3. Has(c, "SUPPORTS_PROPOSITION")
  BY <1>2 DEF Has
<1> QED
  BY <1>3 DEF c

\* An event given to a case: its records grow, as the commit makes them.
LEMMA EventRecords ==
  ASSUME NEW d, CaseShape(d), RecordsOK(d), NEW e \in ProviderEvents \cup PartnerEvents,
         e \in PartnerEvents => d.receipts[RequestOf(e)].state = "OPEN"
  PROVE  LET later == ApplyMutation(Given(d, e), EventMutation(Given(d, e), e))
         IN  RecordsOK(later) /\ Keeps(d, later)
<1> DEFINE g == Given(d, e)
           m == EventMutation(g, e)
           later == ApplyMutation(g, m)
<1>1. /\ CaseShape(g) /\ g.kase = d.kase /\ g.events = d.events /\ g.evidence = d.evidence
      /\ g.claims = d.claims
  BY GivenCase
<1>2. /\ KaseShape(m.kase) /\ \E p : m.kase.parties = g.kase.parties \cup {p}
      /\ m.events = {e}
      /\ e \in ProviderEvents =>
           /\ m.evidence = {ProviderEvidence(e)}
           /\ m.claims = {ProviderClaim("refund-exists", e), ProviderClaim("refund-status", e)}
      /\ e \notin ProviderEvents => m.evidence = {PartnerEvidence(e)} /\ m.claims = {PartnerClaim(e)}
  <2> HIDE DEF g
  <2> QED
    BY <1>1, EventPlan
<1>3. later.receipts = g.receipts
  BY <1>1, <1>2, AppliedCase
<1>4. \A c \in Unsupported(d) : Lasting(c, d) /\ Lasting(c, g)
  <2>1. ASSUME NEW r \in PartnerRequests, d.receipts[r].state # "OPEN"
        PROVE  g.receipts[r].state # "OPEN"
    <3>1. CASE e \in ProviderEvents
      BY <2>1, <3>1 DEF Given
    <3>2. CASE e \notin ProviderEvents
      <4>1. g.receipts = [d.receipts EXCEPT ![RequestOf(e)] = [state |-> "PUBLISHED", event |-> e.id]]
        BY <3>2 DEF Given, CaseShape, IsRecord
      <4> HIDE DEF g
      <4>2. d.receipts = [x \in PartnerRequests |-> d.receipts[x]]
        BY DEF CaseShape
      <4> QED
        BY <2>1, <4>1, <4>2
    <3> QED
      BY <3>1, <3>2
  <2> HIDE DEF g
  <2> QED
    BY <2>1 DEF RecordsOK, Lasting
<1>5. Unsupported(g) = Unsupported(d)
  BY <1>1 DEF Unsupported
<1>6. FiniteRecords(g)
  BY <1>1 DEF RecordsOK, FiniteRecords
<1>7. /\ IsFiniteSet(m.kase.parties) /\ IsFiniteSet(m.events) /\ IsFiniteSet(m.evidence)
      /\ IsFiniteSet(m.claims) /\ g.kase.parties \subseteq m.kase.parties
  <2>1. PICK p : m.kase.parties = g.kase.parties \cup {p}
    BY <1>2
  <2>2. IsFiniteSet(m.kase.parties)
    BY <1>6, <2>1, FS_AddElement DEF FiniteRecords
  <2> HIDE DEF g, m
  <2>3. IsFiniteSet(m.events)
    <3>1. m.events = {e}
      BY <1>2
    <3> QED
      BY <3>1, FS_Singleton
  <2>4. IsFiniteSet(m.evidence) /\ IsFiniteSet(m.claims)
    <3>1. PICK ev, x, y : m.evidence = {ev} /\ m.claims = {x, y}
      <4>1. CASE e \in ProviderEvents
        <5>1. m.evidence = {ProviderEvidence(e)}
              /\ m.claims = {ProviderClaim("refund-exists", e), ProviderClaim("refund-status", e)}
          BY <1>2, <4>1
        <5> QED
          BY <5>1
      <4>2. CASE e \notin ProviderEvents
        <5>1. m.claims = {PartnerClaim(e), PartnerClaim(e)}
          BY <1>2, <4>2
        <5> QED
          BY <1>2, <4>2, <5>1
      <4> QED
        BY <4>1, <4>2
    <3>2. IsFiniteSet({ev}) /\ IsFiniteSet({x, y})
      BY FS_Singleton, Pairs
    <3> QED
      BY <3>1, <3>2
  <2> QED
    BY <2>1, <2>2, <2>3, <2>4
<1>8. \A c \in Unsupported(g) : c.id \notin IdsOf(m.claims)
  <2>1. CASE e \in ProviderEvents
    <3>1. \A x \in m.claims : x.id[1] \in {"refund-exists", "refund-status"}
      BY <1>2, <2>1 DEF ProviderClaim
    <3> HIDE DEF g, m
    <3> QED
      BY <1>4, <1>5, <3>1 DEF Lasting, IdsOf
  <2>2. CASE e \notin ProviderEvents
    <3>1. \A x \in m.claims : x.id[1] = "partner" /\ x.id[2][2] = RequestOf(e)
      BY <1>2, <2>2 DEF PartnerClaim, PartnerClaimId
    <3>2. d.receipts[RequestOf(e)].state = "OPEN"
      BY <2>2
    <3> HIDE DEF g, m
    <3> QED
      BY <1>4, <1>5, <3>1, <3>2 DEF Lasting, IdsOf
  <2> QED
    BY <2>1, <2>2
<1>9. /\ FiniteRecords(later) /\ Keeps(g, later)
      /\ \A c \in Unsupported(later) :
           c \in Unsupported(g) \/ (c \in m.claims /\ ~Has(c, "SUPPORTS_PROPOSITION"))
  <2> HIDE DEF g, m
  <2> QED
    BY <1>1, <1>2, <1>6, <1>7, <1>8, AppliedRecords
<1>10. ASSUME NEW c \in m.claims, ~Has(c, "SUPPORTS_PROPOSITION") PROVE Lasting(c, g)
  <2>1. CASE e \in ProviderEvents
    BY <1>2, <1>10, <2>1, ProviderSupports
  <2>2. CASE e \notin ProviderEvents
    <3>1. c.id[1] = "partner" /\ c.id[2][2] = RequestOf(e)
      BY <1>2, <2>2 DEF PartnerClaim, PartnerClaimId
    <3>2. RequestOf(e) \in PartnerRequests
      BY <2>2 DEF PartnerEvents, PartnerEvent, RequestOf
    <3>3. g.receipts[RequestOf(e)].state = "PUBLISHED"
      BY <2>2, <3>2 DEF Given, CaseShape, IsRecord
    <3> HIDE DEF g, m
    <3> QED
      BY <3>1, <3>2, <3>3 DEF Lasting
  <2> QED
    BY <2>1, <2>2
<1> HIDE DEF g, m, later
<1>11. \A c \in Unsupported(later) : Lasting(c, later)
  BY <1>3, <1>4, <1>5, <1>9, <1>10 DEF Lasting
<1>12. Keeps(d, later)
  BY <1>1, <1>5, <1>9 DEF Keeps
<1> QED
  BY <1>9, <1>11, <1>12 DEF RecordsOK, later, m, g

LEMMA RecordsStep ==
  ASSUME TypeInv, RecordsOK(db), [Next]_vars
  PROVE  /\ RecordsOK(db') /\ Keeps(db, db')
         /\ UNCHANGED db \/ db'.kase.version = db.kase.version + 1
<1> USE DEF TypeInv
<1>1. UNCHANGED db \/ db'.kase.version = db.kase.version + 1
  BY StepKinds DEF Advances, Takes, Ends
<1>2. CASE UNCHANGED db
  BY <1>2 DEF Keeps
<1>3. ASSUME NEW e \in ProviderEvents \cup PartnerEvents, CommitEvent(e)
      PROVE  RecordsOK(db') /\ Keeps(db, db')
  <2>1. db' = ApplyMutation(Given(db, e), EventMutation(Given(db, e), e))
    BY <1>3 DEF CommitEvent
  <2>2. e \in PartnerEvents => db.receipts[RequestOf(e)].state = "OPEN"
    BY <1>3 DEF CommitEvent
  <2> QED
    BY <2>1, <2>2, EventRecords
<1>4. ASSUME NEW w \in Workers, CommitEvaluation(w)
      PROVE  RecordsOK(db') /\ Keeps(db, db')
  <2> DEFINE m == workers[w].work
  <2>1. CASE db' = ApplyMutation(db, m) /\ m.expected = db.kase.version
    <3>1. PlanOK(m, db)
      BY <1>4 DEF CommitEvaluation, PlansTyped
    <3> HIDE DEF m
    <3>2. /\ KaseShape(m.kase) /\ m.kase.parties = db.kase.parties /\ m.evidence = {}
          /\ m.claims = {} /\ m.events = {EvaluationEvent(m.expected)}
      BY <2>1, <3>1 DEF PlanOK
    <3>3. IsFiniteSet(m.kase.parties) /\ IsFiniteSet({})
          /\ IsFiniteSet({EvaluationEvent(m.expected)})
      BY <3>2, FS_EmptySet, FS_Singleton DEF RecordsOK, FiniteRecords
    <3>4. \A c \in Unsupported(db) : c.id \notin IdsOf(m.claims)
      BY <3>2 DEF IdsOf
    <3>5. /\ FiniteRecords(db') /\ Keeps(db, db')
          /\ \A c \in Unsupported(db') : c \in Unsupported(db) \/ c \in m.claims
      BY <2>1, <3>2, <3>3, <3>4, AppliedRecords DEF RecordsOK
    <3>6. db'.receipts = db.receipts
      BY <2>1, <3>2, AppliedCase
    <3> QED
      BY <3>2, <3>5, <3>6 DEF RecordsOK, Lasting
  <2>2. CASE CommitResult(db, m) = "COMMITTED"
    BY <1>4, <2>1, <2>2, CommittedVersion DEF CommitEvaluation
  <2>3. CASE CommitResult(db, m) # "COMMITTED"
    BY <1>2, <1>4, <2>3 DEF CommitEvaluation
  <2> QED
    BY <2>2, <2>3
<1>5. ASSUME NEW w \in Workers, OwnStep(w), ~CommitEvaluation(w) PROVE UNCHANGED db
  BY <1>5 DEF OwnStep, StartBatch, Claim, Complete, Load, LoadAnalysis, JudgeAnswer, AppendRun
<1>6. CASE Tick \/ UNCHANGED vars
  BY <1>2, <1>6 DEF Tick, vars
<1> QED
  BY <1>1, <1>2, <1>3, <1>4, <1>5, <1>6 DEF Next, OwnStep

LEMMA RecordsInit == Init => RecordsOK(db)
<1> SUFFICES ASSUME Init PROVE RecordsOK(db)
  OBVIOUS
<1>1. RecordsOK(SeededCase)
  <2>1. /\ SeededCase.kase.parties = {"customer", "merchant"}
        /\ SeededCase.events = {IntakeEvent, EvidenceEvent}
        /\ \E ev : SeededCase.evidence = {ev}
    BY DEF SeededCase
  <2>2. PICK c : SeededCase.claims = {c} /\ c.id = <<"seed", <<"refund", "processed">>>>
    <3> DEFINE c == [id |-> <<"seed", <<"refund", "processed">>>>, claimant |-> "merchant",
                     source |-> EvidenceEvent.id, status |-> "UNVERIFIED",
                     evidence |-> {EvidenceEvent.id}]
    <3>1. SeededCase.claims = {c} /\ c.id = <<"seed", <<"refund", "processed">>>>
      BY DEF SeededCase
    <3> QED
      BY <3>1
  <2>3. FiniteRecords(SeededCase)
    <3>1. IsFiniteSet(SeededCase.kase.parties) /\ IsFiniteSet(SeededCase.events)
      <4>1. IsFiniteSet({"customer", "merchant"}) /\ IsFiniteSet({IntakeEvent, EvidenceEvent})
        BY Pairs
      <4> QED
        BY <2>1, <4>1
    <3>2. IsFiniteSet(SeededCase.evidence) /\ IsFiniteSet(SeededCase.claims)
      BY <2>1, <2>2, FS_Singleton
    <3> QED
      BY <3>1, <3>2 DEF FiniteRecords
  <2>4. \A x \in Unsupported(SeededCase) : Lasting(x, SeededCase)
    BY <2>2 DEF Unsupported, Lasting
  <2> QED
    BY <2>3, <2>4 DEF RecordsOK
<1>2. PICK e \in ProviderEvents \cup PartnerEvents :
        db = ApplyMutation(Given(SeededCase, e), EventMutation(Given(SeededCase, e), e))
  BY DEF Init
<1>3. e \in PartnerEvents => SeededCase.receipts[RequestOf(e)].state = "OPEN"
  BY DEF PartnerEvents, PartnerEvent, RequestOf, SeededCase
<1> QED
  BY <1>1, <1>2, <1>3, Seeded, EventRecords
-----------------------------------------------------------------------------
(***************************************************************************)
(* What an agent run says of the case it was judged against.               *)
(***************************************************************************)
LEMMA SubsetOfSize ==
  ASSUME NEW S, IsFiniteSet(S), NEW n \in Nat, n <= Cardinality(S)
  PROVE  \E T \in SUBSET S : Cardinality(T) = n
<1> DEFINE size == Cardinality(S)
<1>1. size \in Nat /\ ExistsBijection(1 .. size, S)
  BY FS_CardinalityType
<1>2. PICK f : f \in Bijection(1 .. size, S)
  BY <1>1 DEF ExistsBijection
<1> DEFINE T == { f[i] : i \in 1 .. n }
           g == [i \in 1 .. n |-> f[i]]
<1>3. 1 .. n \subseteq 1 .. size
  BY <1>1
<1>4. T \subseteq S
  BY <1>2, <1>3 DEF Bijection, Injection
<1>5. g \in Bijection(1 .. n, T)
  BY <1>2, <1>3 DEF Bijection, Injection, Surjection, IsInjective
<1>6. IsFiniteSet(1 .. n) /\ Cardinality(1 .. n) = n
  BY FS_Interval
<1> HIDE DEF T, g
<1>7. Cardinality(T) = n
  BY <1>5, <1>6, FS_Bijection DEF ExistsBijection
<1> QED
  BY <1>4, <1>7

LEMMA UptoTyped ==
  ASSUME NEW S, IsFiniteSet(S), NEW n \in Nat
  PROVE  Upto(S, n) \subseteq S /\ Cardinality(Upto(S, n)) \in Nat /\ Cardinality(Upto(S, n)) <= n
<1>1. Cardinality(S) \in Nat
  BY FS_CardinalityType
<1>2. CASE Cardinality(S) <= n
  BY <1>1, <1>2 DEF Upto
<1>3. CASE ~(Cardinality(S) <= n)
  BY <1>1, <1>3, SubsetOfSize DEF Upto
<1> QED
  BY <1>2, <1>3

\* The gaps of an input are those of the unsupported claims.
GapOf(c) == [gap |-> <<"VERIFICATION_GAP", c.id>>, claim |-> c.id,
             expected |-> <<"EXPECTED_EVIDENCE", c.id>>]

LEMMA GapsAre ==
  ASSUME NEW d
  PROVE  Gaps(d) = { <<"VERIFICATION_GAP", c.id>> : c \in Unsupported(d) }
<1>1. ASSUME NEW x \in TruthNodes(d), x.kind = "VERIFICATION_GAP"
      PROVE  \E c \in Unsupported(d) : x.id = <<"VERIFICATION_GAP", c.id>>
  <2>1. \E i \in IdsOf(Unsupported(d)) : x = Node("VERIFICATION_GAP", i)
    <3>1. \A kind, i : Node(kind, i).kind = kind
      BY DEF Node
    <3> QED
      BY <1>1, <3>1 DEF TruthNodes
  <2> QED
    BY <2>1 DEF Node, IdsOf
<1>2. ASSUME NEW c \in Unsupported(d)
      PROVE  <<"VERIFICATION_GAP", c.id>> \in Gaps(d)
  <2> DEFINE n == Node("VERIFICATION_GAP", c.id)
  <2>1. n \in TruthNodes(d)
    BY DEF TruthNodes, IdsOf
  <2>2. n.derived /\ n.kind = "VERIFICATION_GAP" /\ n.id = <<"VERIFICATION_GAP", c.id>>
    BY DEF Node
  <2> HIDE DEF n
  <2> QED
    BY <2>1, <2>2 DEF Gaps, Placeholders
<1>3. ASSUME NEW y \in Gaps(d) PROVE \E c \in Unsupported(d) : y = <<"VERIFICATION_GAP", c.id>>
  <2>1. PICK x \in TruthNodes(d) : x.kind = "VERIFICATION_GAP" /\ y = x.id
    BY DEF Gaps, Placeholders
  <2> QED
    BY <1>1, <2>1
<1> QED
  BY <1>2, <1>3

LEMMA EdgeIs ==
  ASSUME NEW kind, NEW from, NEW to
  PROVE  /\ Edge(kind, from, to).kind = kind
         /\ Edge(kind, from, to).from = from /\ Edge(kind, from, to).to = to
  BY DEF Edge

\* The kinds of edge of the truth graph, one for each kind of record.
LEMMA EdgeKinds ==
  ASSUME NEW d, NEW p \in TruthEdges(d)
  PROVE  \/ \E q \in Causes(d) : p = Edge("CAUSED", <<"EVENT", q[1]>>, <<"EVENT", q[2]>>)
         \/ \E t \in d.transactions :
              p = Edge("RESULTED_IN", <<"EVIDENCE", t.evidence>>, <<"TRANSACTION", t.id>>)
         \/ \E c \in d.claims : p = Edge("ASSERTED", <<"PARTY", c.claimant>>, <<"CLAIM", c.id>>)
         \/ \E c \in d.claims : \E r \in Relationships(c) :
              p = Edge(r.kind, <<"EVIDENCE", r.evidence>>, <<"CLAIM", c.id>>)
         \/ \E c \in Unsupported(d) :
              p = Edge("RESULTED_IN", <<"CLAIM", c.id>>, <<"VERIFICATION_GAP", c.id>>)
         \/ \E c \in Unsupported(d) :
              p = Edge("EXPECTED_TO_VERIFY", <<"EXPECTED_EVIDENCE", c.id>>, <<"CLAIM", c.id>>)
         \/ \E i \in DOMAIN d.audits :
              p = Edge("RESULTED_IN", <<"EVENT", d.audits[i].trigger>>, <<"AUDIT", i>>)
<1> DEFINE Caused   == { Edge("CAUSED", <<"EVENT", q[1]>>, <<"EVENT", q[2]>>) : q \in Causes(d) }
           Paid     == { Edge("RESULTED_IN", <<"EVIDENCE", t.evidence>>, <<"TRANSACTION", t.id>>) :
                           t \in d.transactions }
           Asserted == { Edge("ASSERTED", <<"PARTY", c.claimant>>, <<"CLAIM", c.id>>) : c \in d.claims }
           Related  == UNION { { Edge(r.kind, <<"EVIDENCE", r.evidence>>, <<"CLAIM", c.id>>) :
                                   r \in Relationships(c) } : c \in d.claims }
           Missing  == { Edge("RESULTED_IN", <<"CLAIM", c.id>>, <<"VERIFICATION_GAP", c.id>>) :
                           c \in Unsupported(d) }
           Expected == { Edge("EXPECTED_TO_VERIFY", <<"EXPECTED_EVIDENCE", c.id>>, <<"CLAIM", c.id>>) :
                           c \in Unsupported(d) }
           Audited  == { Edge("RESULTED_IN", <<"EVENT", d.audits[i].trigger>>, <<"AUDIT", i>>) :
                           i \in DOMAIN d.audits }
<1>1. TruthEdges(d) = Caused \cup Paid \cup Asserted \cup Related \cup Missing \cup Expected
                        \cup Audited
  BY DEF TruthEdges
<1>2. p \in Related => \E c \in d.claims : \E r \in Relationships(c) :
                         p = Edge(r.kind, <<"EVIDENCE", r.evidence>>, <<"CLAIM", c.id>>)
  OBVIOUS
<1>3. /\ p \in Caused => \E q \in Causes(d) : p = Edge("CAUSED", <<"EVENT", q[1]>>, <<"EVENT", q[2]>>)
      /\ p \in Asserted =>
           \E c \in d.claims : p = Edge("ASSERTED", <<"PARTY", c.claimant>>, <<"CLAIM", c.id>>)
  OBVIOUS
<1>4. /\ p \in Paid =>
           \E t \in d.transactions :
             p = Edge("RESULTED_IN", <<"EVIDENCE", t.evidence>>, <<"TRANSACTION", t.id>>)
      /\ p \in Audited =>
           \E i \in DOMAIN d.audits :
             p = Edge("RESULTED_IN", <<"EVENT", d.audits[i].trigger>>, <<"AUDIT", i>>)
  OBVIOUS
<1>5. /\ p \in Missing =>
           \E c \in Unsupported(d) :
             p = Edge("RESULTED_IN", <<"CLAIM", c.id>>, <<"VERIFICATION_GAP", c.id>>)
      /\ p \in Expected =>
           \E c \in Unsupported(d) :
             p = Edge("EXPECTED_TO_VERIFY", <<"EXPECTED_EVIDENCE", c.id>>, <<"CLAIM", c.id>>)
  OBVIOUS
<1> HIDE DEF Caused, Paid, Asserted, Related, Missing, Expected, Audited
<1> QED
  BY <1>1, <1>2, <1>3, <1>4, <1>5

\* The edges that lead to a gap or from an expectation.
LEMMA GapEdges ==
  ASSUME NEW d, NEW p \in TruthEdges(d)
  PROVE  /\ p.kind = "RESULTED_IN" /\ p.to[1] = "VERIFICATION_GAP" =>
              \E c \in Unsupported(d) : /\ p.from = <<"CLAIM", c.id>>
                                       /\ p.to = <<"VERIFICATION_GAP", c.id>>
         /\ p.kind = "EXPECTED_TO_VERIFY" =>
              \E c \in Unsupported(d) : /\ p.from = <<"EXPECTED_EVIDENCE", c.id>>
                                       /\ p.to = <<"CLAIM", c.id>>
<1>1. CASE \E q \in Causes(d) : p = Edge("CAUSED", <<"EVENT", q[1]>>, <<"EVENT", q[2]>>)
  BY <1>1, EdgeIs
<1>2. CASE \E t \in d.transactions :
             p = Edge("RESULTED_IN", <<"EVIDENCE", t.evidence>>, <<"TRANSACTION", t.id>>)
  BY <1>2, EdgeIs
<1>3. CASE \E c \in d.claims : p = Edge("ASSERTED", <<"PARTY", c.claimant>>, <<"CLAIM", c.id>>)
  BY <1>3, EdgeIs
<1>4. CASE \E c \in d.claims : \E r \in Relationships(c) :
             p = Edge(r.kind, <<"EVIDENCE", r.evidence>>, <<"CLAIM", c.id>>)
  <2>1. \A c : \A r \in Relationships(c) : r.kind \notin {"RESULTED_IN", "EXPECTED_TO_VERIFY"}
    BY DEF Relationships
  <2> QED
    BY <1>4, <2>1, EdgeIs
<1>5. CASE \E c \in Unsupported(d) :
             p = Edge("RESULTED_IN", <<"CLAIM", c.id>>, <<"VERIFICATION_GAP", c.id>>)
  BY <1>5, EdgeIs
<1>6. CASE \E c \in Unsupported(d) :
             p = Edge("EXPECTED_TO_VERIFY", <<"EXPECTED_EVIDENCE", c.id>>, <<"CLAIM", c.id>>)
  BY <1>6, EdgeIs
<1>7. CASE \E i \in DOMAIN d.audits :
             p = Edge("RESULTED_IN", <<"EVENT", d.audits[i].trigger>>, <<"AUDIT", i>>)
  BY <1>7, EdgeIs
<1> QED
  BY <1>1, <1>2, <1>3, <1>4, <1>5, <1>6, <1>7, EdgeKinds

LEMMA ProjectedGapsAre ==
  ASSUME NEW d
  PROVE  ProjectedGaps(d) \subseteq { GapOf(c) : c \in Unsupported(d) }
<1> SUFFICES ASSUME NEW p1 \in TruthEdges(d), NEW p2 \in TruthEdges(d),
                    p1.kind = "RESULTED_IN", p1.to \in Gaps(d),
                    p2.kind = "EXPECTED_TO_VERIFY", p1.from = p2.to
             PROVE  [gap |-> p1.to, claim |-> p1.from[2], expected |-> p2.from]
                      \in { GapOf(c) : c \in Unsupported(d) }
  BY DEF ProjectedGaps
<1>1. p1.to[1] = "VERIFICATION_GAP"
  BY GapsAre
<1>2. PICK c \in Unsupported(d) : p1.from = <<"CLAIM", c.id>> /\ p1.to = <<"VERIFICATION_GAP", c.id>>
  BY <1>1, GapEdges
<1>3. PICK x \in Unsupported(d) : p2.from = <<"EXPECTED_EVIDENCE", x.id>> /\ p2.to = <<"CLAIM", x.id>>
  BY GapEdges
<1>4. x.id = c.id
  <2>1. <<"CLAIM", x.id>> = <<"CLAIM", c.id>>
    BY <1>2, <1>3
  <2> QED
    BY <2>1
<1>5. p1.from[2] = c.id
  BY <1>2
<1>6. [gap |-> p1.to, claim |-> p1.from[2], expected |-> p2.from] = GapOf(c)
  BY <1>2, <1>3, <1>4, <1>5 DEF GapOf
<1> QED
  BY <1>6

LEMMA GapsFinite ==
  ASSUME NEW d, IsFiniteSet(d.claims)
  PROVE  IsFiniteSet(ProjectedGaps(d))
<1> DEFINE T == { GapOf(c) : c \in Unsupported(d) }
           f == [c \in Unsupported(d) |-> GapOf(c)]
<1>1. IsFiniteSet(Unsupported(d))
  BY FS_Subset DEF Unsupported
<1>2. f \in Surjection(Unsupported(d), T)
  BY DEF Surjection
<1> HIDE DEF f, T
<1>3. IsFiniteSet(T)
  BY <1>1, <1>2, FS_Surjection
<1>4. ProjectedGaps(d) \subseteq T
  BY ProjectedGapsAre DEF T
<1> QED
  BY <1>3, <1>4, FS_Subset

\* What an input supplies is in the case, as it was loaded and ever after.
Supplies(input, d) ==
  /\ input.parties \subseteq d.kase.parties
  /\ IdsOf(input.claims) \subseteq IdsOf(d.claims)
  /\ IdsOf(input.evidence) \subseteq IdsOf(d.evidence)
  /\ input.events \subseteq IdsOf(d.events)
  /\ { g.gap : g \in input.gaps } \subseteq Gaps(d)

LEMMA InputSupplied ==
  ASSUME NEW d, FiniteRecords(d)
  PROVE  Supplies(BuildInput(d), d)
<1> DEFINE input == BuildInput(d)
<1>0. /\ PartyLimit \in Nat /\ ReferenceLimit \in Nat /\ EventLimit \in Nat
      /\ \A n \in Nat : n <= ReferenceLimit => ReferenceLimit - n \in Nat
  BY PolicyAssumption
<1>1. input.parties \subseteq d.kase.parties
  BY <1>0, UptoTyped DEF BuildInput, FiniteRecords
<1>2. IdsOf(input.claims) \subseteq IdsOf(d.claims)
  <2>1. Upto(d.claims, ReferenceLimit) \subseteq d.claims
    BY <1>0, UptoTyped DEF FiniteRecords
  <2>2. input.claims = { [id |-> c.id, status |-> EvaluateClaimStatus(c),
                          relationships |-> Relationships(c)] : c \in Upto(d.claims, ReferenceLimit) }
    BY DEF BuildInput
  <2> HIDE DEF input
  <2> QED
    BY <2>1, <2>2 DEF IdsOf
<1>3. IdsOf(input.evidence) \subseteq IdsOf(d.evidence)
  <2> DEFINE relevant == { ev \in d.evidence : ev.about # {} }
             other    == d.evidence \ relevant
             first    == Upto(relevant, ReferenceLimit)
  <2>1. input.evidence = first \cup Upto(other, ReferenceLimit - Cardinality(first))
    BY DEF BuildInput, SelectedEvidence
  <2>2. relevant \subseteq d.evidence /\ other \subseteq d.evidence
    OBVIOUS
  <2> HIDE DEF input, relevant, other
  <2>3. IsFiniteSet(relevant) /\ IsFiniteSet(other)
    BY <2>2, FS_Subset DEF FiniteRecords
  <2>4. first \subseteq relevant /\ ReferenceLimit - Cardinality(first) \in Nat
    BY <1>0, <2>3, UptoTyped
  <2>5. Upto(other, ReferenceLimit - Cardinality(first)) \subseteq other
    BY <2>3, <2>4, UptoTyped
  <2> QED
    BY <2>1, <2>2, <2>4, <2>5 DEF IdsOf
<1>4. input.events \subseteq IdsOf(d.events)
  <2>1. IsFiniteSet(IdsOf(d.events))
    <3> DEFINE f == [e \in d.events |-> e.id]
    <3>1. f \in Surjection(d.events, IdsOf(d.events))
      BY DEF Surjection, IdsOf
    <3> HIDE DEF f
    <3> QED
      BY <3>1, FS_Surjection DEF FiniteRecords
  <2> QED
    BY <1>0, <2>1, UptoTyped DEF BuildInput
<1>5. { g.gap : g \in input.gaps } \subseteq Gaps(d)
  <2>1. input.gaps \subseteq ProjectedGaps(d)
    BY <1>0, GapsFinite, UptoTyped DEF BuildInput, FiniteRecords
  <2> HIDE DEF input
  <2>2. input.gaps \subseteq { GapOf(c) : c \in Unsupported(d) }
    BY <2>1, ProjectedGapsAre
  <2> QED
    BY <2>2, GapsAre DEF GapOf
<1> QED
  BY <1>1, <1>2, <1>3, <1>4, <1>5 DEF Supplies

LEMMA SuppliesKept ==
  ASSUME NEW input, NEW d, NEW later, Supplies(input, d), Keeps(d, later)
  PROVE  Supplies(input, later)
<1>1. Gaps(d) \subseteq Gaps(later)
  BY GapsAre DEF Keeps
<1> QED
  BY <1>1 DEF Supplies, Keeps
\* What a run that passed says is what the records of the case say.
Truthful(run, d) ==
  run.outcome = "SUCCEEDED_VALID" =>
    /\ run.analysis.assessment = StoredAssessment(d)
    /\ run.analysis.target \in d.kase.parties \cup {Nobody}

Grounded(run, d) == SuppliedReferencesValid(run, d) /\ Truthful(run, d)

LEMMA OnlyTheVersionIsStale ==
  ASSUME NEW p, NEW d
  PROVE  "STALE_CASE_VERSION" \in ValidationErrors(p, d) <=> p.version # d.kase.version
<1>1. "STALE_CASE_VERSION" \notin ReferenceErrors(p, d)
  BY DEF ReferenceErrors, When
<1>2. "STALE_CASE_VERSION" \notin AssessmentErrors(p, d)
  BY DEF AssessmentErrors, When
<1>3. "STALE_CASE_VERSION" \notin ObservedGapErrors(p, d)
  BY DEF ObservedGapErrors, When
<1>4. "STALE_CASE_VERSION" \notin BlockerErrors(p, d)
  BY DEF BlockerErrors, When
<1>5. "STALE_CASE_VERSION" \notin ActionErrors(p, d)
  BY DEF ActionErrors, When
<1> QED
  BY <1>1, <1>2, <1>3, <1>4, <1>5 DEF ValidationErrors, When

LEMMA NoErrorIsTrue ==
  ASSUME NEW p, NEW d, ValidationErrors(p, d) = {}
  PROVE  /\ p.version = d.kase.version
         /\ p.assessment = StoredAssessment(d)
         /\ p.action.target \in d.kase.parties \cup {Nobody}
<1>1. /\ When(p.version # d.kase.version, "STALE_CASE_VERSION") = {}
      /\ ReferenceErrors(p, d) = {} /\ AssessmentErrors(p, d) = {}
  BY DEF ValidationErrors
<1>2. p.version = d.kase.version
  BY <1>1 DEF When
<1>3. p.assessment = StoredAssessment(d)
  BY <1>1 DEF AssessmentErrors, When
<1>4. p.action.target \in d.kase.parties \cup {Nobody}
  BY <1>1 DEF ReferenceErrors, When
<1> QED
  BY <1>2, <1>3, <1>4

\* What the agent service hands to analyzeCase: a proposal, or a failure that is no verdict.
AgentOutcome(answer) ==
  \/ \E p : answer = Proposed(p)
  \/ \E o : answer = Failed(o) /\ o \notin {"SUCCEEDED_VALID", "REJECTED_VALIDATION"}

LEMMA TextJudged ==
  ASSUME NEW input, NEW text
  PROVE  ProposeResolution(Finals(<<text>>), input) = JudgedText(text, input)
<1> DEFINE reply == Finals(<<text>>)
<1>1. reply.kind = "finals" /\ reply.texts = <<text>> /\ Len(reply.texts) = 1
  BY DEF Finals
<1> HIDE DEF reply
<1>2. reply.texts[1] = text
  BY <1>1
<1>3. ProposeResolution(reply, input) = JudgedText(text, input)
  BY <1>1, <1>2 DEF ProposeResolution
<1> QED
  BY <1>3 DEF reply

\* An answer is a proposal at the version it names, or none the schema admits.
LEMMA AnswerOf ==
  ASSUME NEW input, NEW a
  PROVE  \/ ProposeResolution(Reply(input, a), input) = Failed("FAILED_SCHEMA")
         \/ \E p : /\ ProposeResolution(Reply(input, a), input) = Proposed(p)
                  /\ p.version = a.version
<1> DEFINE t == Transport(a.version, a.action, a.target,
                          IF a.known THEN IdsOf(input.evidence) ELSE {Unknown},
                          IF a.gaps THEN { g.gap : g \in input.gaps } ELSE {})
<1>1. Reply(input, a) = Finals(<<Answered(t)>>) /\ t.version = a.version
  BY DEF Reply, Transport
<1> HIDE DEF t
<1>2. ProposeResolution(Reply(input, a), input) = JudgedText(Answered(t), input)
  BY <1>1, TextJudged
<1>3. JudgedText(Answered(t), input) \in {Proposed(CanonicalProposal(t, input)), Failed("FAILED_SCHEMA")}
  BY DEF JudgedText, Answered
<1>4. CanonicalProposal(t, input).version = t.version
  BY DEF CanonicalProposal
<1> QED
  BY <1>1, <1>2, <1>3, <1>4

\* A reply without a transport fails the call.
LEMMA FailuresFail ==
  ASSUME NEW input, NEW reply \in Failures
  PROVE  \E o : /\ ProposeResolution(reply, input) = Failed(o)
               /\ o \notin {"SUCCEEDED_VALID", "REJECTED_VALIDATION"}
<1>1. CASE reply.kind = "thrown"
  <2>1. ProposeResolution(reply, input) = Failed(ProviderFailure(reply))
    BY <1>1 DEF ProposeResolution
  <2>2. ProviderFailure(reply) \notin {"SUCCEEDED_VALID", "REJECTED_VALIDATION"}
    BY DEF ProviderFailure
  <2> QED
    BY <2>1, <2>2
<1>2. CASE reply.kind = "finals" /\ reply.texts = <<>>
  BY <1>2 DEF ProposeResolution
<1>3. ASSUME NEW k \in {"too large", "unparsable", "foreign"},
             reply.kind = "finals", reply.texts = <<Text(k)>>
      PROVE  \E o : /\ ProposeResolution(reply, input) = Failed(o)
                   /\ o \notin {"SUCCEEDED_VALID", "REJECTED_VALIDATION"}
  <2>1. PICK text : text = Text(k)
    OBVIOUS
  <2>2. text.kind = k
    BY <2>1 DEF Text
  <2>3. Len(reply.texts) = 1 /\ reply.texts[1] = text
    <3>1. reply.texts = <<text>>
      BY <1>3, <2>1
    <3>2. Len(<<text>>) = 1 /\ <<text>>[1] = text
      OBVIOUS
    <3> QED
      BY <3>1, <3>2, Zenon
  <2>4. ProposeResolution(reply, input) = JudgedText(text, input)
    BY <1>3, <2>3 DEF ProposeResolution
  <2>5. \E o \in {"FAILED_MALFORMED_OUTPUT", "FAILED_SCHEMA"} : JudgedText(text, input) = Failed(o)
    BY <1>3, <2>2 DEF JudgedText
  <2> QED
    BY <2>4, <2>5
<1>4. CASE reply \in [kind : {"thrown"}, aborted : BOOLEAN,
                     codes : {{}, {"429", "400"}, {"400"}, {"404"}}]
  BY <1>1, <1>4
<1>5. CASE reply \in [kind : {"finals"},
                     texts : {<<>>, <<Text("too large")>>, <<Text("unparsable")>>, <<Text("foreign")>>}]
  <2>1. /\ reply.kind = "finals"
        /\ \/ reply.texts = <<>>
           \/ \E k \in {"too large", "unparsable", "foreign"} : reply.texts = <<Text(k)>>
    BY <1>5
  <2> QED
    BY <1>2, <1>3, <2>1
<1> QED
  BY <1>4, <1>5 DEF Failures

LEMMA RepliesAre ==
  ASSUME NEW input, NEW reply \in Replies(input)
  PROVE  AgentOutcome(ProposeResolution(reply, input))
<1>1. CASE reply \in Outages
  BY <1>1, FailuresFail, AutomationAssumption DEF AgentOutcome
<1>2. CASE \E a \in Answers : reply = Reply(input, a)
  BY <1>2, AnswerOf DEF AgentOutcome
<1> QED
  BY <1>1, <1>2 DEF Replies

\* The run of any answer is grounded in what its input was supplied with, and its version is
\* one the store accepts, unless the answer misnames the version of a case that stood still.
LEMMA JudgedIsGrounded ==
  ASSUME NEW d, NEW input, NEW answer, AgentOutcome(answer),
         d.kase.version \in Nat, input.version \in Nat, input.version <= d.kase.version,
         Supplies(input, d)
  PROVE  /\ Grounded(BuildAgentRun(input, answer, d), d)
         /\ Named(answer, input) = input.version \/ d.kase.version # input.version =>
              ValidRunVersion(BuildAgentRun(input, answer, d), d)
<1> DEFINE run == BuildAgentRun(input, answer, d)
           dated == Named(answer, input) = input.version \/ d.kase.version # input.version
<1>1. SuppliedReferencesValid(run, d)
  <2>1. run.supplied = [parties |-> input.parties, claims |-> IdsOf(input.claims),
                        evidence |-> IdsOf(input.evidence), events |-> input.events,
                        gaps |-> { g.gap : g \in input.gaps }]
    BY DEF BuildAgentRun, JudgedRun, Run
  <2> HIDE DEF run
  <2> QED
    BY <2>1 DEF SuppliedReferencesValid, Supplies
<1>2. ASSUME NEW o, answer = Failed(o), o \notin {"SUCCEEDED_VALID", "REJECTED_VALIDATION"}
      PROVE  ValidRunVersion(run, d) /\ Truthful(run, d)
  <2>1. run.outcome = o /\ run.basedOn = input.version
    BY <1>2 DEF BuildAgentRun, Failed, Run
  <2> HIDE DEF run
  <2> QED
    BY <1>2, <2>1 DEF ValidRunVersion, Truthful
<1>3. ASSUME NEW p, answer = Proposed(p)
      PROVE  Truthful(run, d) /\ (dated => ValidRunVersion(run, d))
  <2> DEFINE errors == IF d.kase.version # input.version THEN {"STALE_CASE_VERSION"}
                                                         ELSE ValidationErrors(p, d)
  <2>1. run = JudgedRun(input, p, errors) /\ Named(answer, input) = p.version
    BY <1>3 DEF BuildAgentRun, Proposed, Named
  <2>2. dated => ("STALE_CASE_VERSION" \in errors <=> input.version # d.kase.version)
    BY <2>1, OnlyTheVersionIsStale
  <2>3. errors = {} => /\ input.version = d.kase.version
                       /\ p.assessment = StoredAssessment(d)
                       /\ p.action.target \in d.kase.parties \cup {Nobody}
    BY NoErrorIsTrue
  <2> HIDE DEF run, errors, dated
  <2>4. /\ run.basedOn = input.version /\ run.errors = errors
        /\ run.outcome = IF errors = {} THEN "SUCCEEDED_VALID" ELSE "REJECTED_VALIDATION"
        /\ errors = {} => run.analysis = RetainedAnalysis(p)
    BY <2>1 DEF JudgedRun, Run
  <2>5. dated => ValidRunVersion(run, d)
    BY <2>2, <2>3, <2>4 DEF ValidRunVersion
  <2>6. Truthful(run, d)
    BY <2>3, <2>4 DEF Truthful, RetainedAnalysis
  <2> QED
    BY <2>5, <2>6
<1>4. Truthful(run, d) /\ (dated => ValidRunVersion(run, d))
  <2> HIDE DEF run, dated
  <2> QED
    BY <1>2, <1>3 DEF AgentOutcome
<1> QED
  BY <1>1, <1>4 DEF Grounded

(***************************************************************************)
(* The agent against a case that moves on.                                 *)
(***************************************************************************)
AgentWork(s, d) ==
  /\ s.pc = "asked" => s.work.version <= d.kase.version /\ Supplies(s.work, d)
  /\ s.pc = "judged" =>
       /\ s.work.expected \in Nat /\ s.work.expected <= d.kase.version
       /\ s.work.expected = d.kase.version =>
            /\ Grounded(s.work.run, d)
            /\ ~Misdated(s.work) => ValidRunVersion(s.work.run, d)

RunStands(run, d) ==
  /\ run.basedOn \in Nat /\ run.basedOn <= d.kase.version
  /\ run.basedOn = d.kase.version => Truthful(run, d)

AgentInv ==
  /\ RecordsOK(db) /\ WorkIsRecorded
  /\ \A w \in Workers : AgentWork(workers[w], db)
  /\ \A run \in runs : RunStands(run, db)

LEMMA AgentWorkStep ==
  ASSUME TypeInv, AgentInv, [Next]_vars, NEW w \in Workers
  PROVE  AgentWork(workers'[w], db')
<1> USE DEF TypeInv
<1>0. /\ AgentWork(workers[w], db) /\ WorkRecorded(workers[w], runs) /\ Keeps(db, db')
      /\ UNCHANGED db \/ db'.kase.version = db.kase.version + 1
      /\ db.kase.version \in Nat
  BY RecordsStep DEF AgentInv, WorkIsRecorded, CaseShape, KaseShape
<1>1. CASE workers'[w].pc \notin {"asked", "judged"}
  BY <1>1 DEF AgentWork
<1>2. CASE workers'[w] = workers[w]
  <2>1. workers[w].pc = "asked" => workers[w].work.version \in Nat
    BY <1>0 DEF WorkRecorded
  <2>2. CASE UNCHANGED db
    BY <1>0, <1>2, <2>2
  <2>3. CASE db'.kase.version = db.kase.version + 1
    BY <1>0, <1>2, <2>1, <2>3, SuppliesKept DEF AgentWork
  <2> QED
    BY <1>0, <2>2, <2>3
<1>3. ASSUME workers'[w].pc \in {"asked", "judged"}, OwnStep(w)
      PROVE  AgentWork(workers'[w], db')
  <2>1. BusyShape(w) /\ workers[w].pc # "idle"
    BY <1>3, WorkingMoves DEF Working, BusyShape
  <2>2. ASSUME NEW pc, NEW work, Doing(w, pc, work)
        PROVE  workers'[w].pc = pc /\ workers'[w].work = work
    BY <2>1, <2>2, DoingMoves
  <2>3. ASSUME Proceed(w) PROVE FALSE
    BY <1>3, <2>1, <2>3, ProceedMoves DEF Idle
  <2>4. ASSUME StartBatch(w) \/ Claim(w) \/ Complete(w) \/ Load(w) \/ CommitEvaluation(w)
                 \/ AppendRun(w)
        PROVE  FALSE
    <3>1. \/ workers[w] = Idle \/ Proceed(w)
          \/ \E pc \in {"claimed", "settling", "analysing", "planned"} : \E work : Doing(w, pc, work)
      BY <2>4 DEF StartBatch, Claim, Complete, Load, CommitEvaluation, AppendRun, Settle
    <3> QED
      BY <1>3, <2>1, <2>2, <2>3, <3>1 DEF Idle
  <2>5. CASE LoadAnalysis(w)
    <3>1. workers'[w].pc = "asked" /\ workers'[w].work = BuildInput(db) /\ db' = db
      BY <2>2, <2>5 DEF LoadAnalysis
    <3>2. Supplies(BuildInput(db), db) /\ BuildInput(db).version = db.kase.version
      BY InputSupplied DEF AgentInv, RecordsOK, BuildInput
    <3> QED
      BY <1>0, <3>1, <3>2 DEF AgentWork
  <2>6. CASE JudgeAnswer(w)
    <3> DEFINE input == workers[w].work
    <3>1. workers[w].pc = "asked" /\ db' = db
      BY <2>6 DEF JudgeAnswer
    <3>2. input.version \in Nat /\ input.version <= db.kase.version /\ Supplies(input, db)
      BY <1>0, <3>1 DEF AgentWork, WorkRecorded
    <3>3. PICK answer :
            /\ AgentOutcome(answer)
            /\ Doing(w, "judged", [run |-> BuildAgentRun(input, answer, db),
                                   expected |-> db.kase.version, named |-> Named(answer, input)])
      <4>1. ~Settle(w, "FAILED_RETRYABLE")
        BY <1>3, <2>2 DEF Settle
      <4> QED
        BY <2>6, <4>1, RepliesAre DEF JudgeAnswer
    <3> DEFINE run == BuildAgentRun(input, answer, db)
    <3>4. /\ Grounded(run, db) /\ run.basedOn = input.version
          /\ Named(answer, input) = input.version \/ db.kase.version # input.version =>
               ValidRunVersion(run, db)
      BY <1>0, <3>2, <3>3, JudgedIsGrounded, RunVersion
    <3>5. /\ workers'[w].pc = "judged" /\ workers'[w].work.expected = db.kase.version
          /\ workers'[w].work.run = run /\ workers'[w].work.named = Named(answer, input)
      BY <2>2, <3>3
    <3> HIDE DEF input, run
    <3> QED
      BY <1>0, <3>1, <3>4, <3>5 DEF AgentWork, Misdated
  <2> QED
    BY <1>3, <2>4, <2>5, <2>6 DEF OwnStep
<1> QED
  BY <1>1, <1>2, <1>3, OthersRest

LEMMA RunsStep ==
  ASSUME TypeInv, AgentInv, [Next]_vars, NEW run \in runs'
  PROVE  RunStands(run, db')
<1> USE DEF TypeInv
<1>1. /\ UNCHANGED db \/ db'.kase.version = db.kase.version + 1
      /\ db.kase.version \in Nat
  BY RecordsStep DEF AgentInv, CaseShape, KaseShape
<1>2. CASE run \in runs
  <2>1. RunStands(run, db)
    BY <1>2 DEF AgentInv
  <2>2. CASE UNCHANGED db
    BY <2>1, <2>2
  <2>3. CASE db'.kase.version = db.kase.version + 1
    BY <1>1, <2>1, <2>3 DEF RunStands
  <2> QED
    BY <1>1, <2>2, <2>3
<1>3. CASE run \notin runs
  <2>1. PICK w \in Workers : AppendRun(w)
    BY <1>3 DEF Next, CommitEvent, StartBatch, Claim, Complete, Load, CommitEvaluation, LoadAnalysis,
                JudgeAnswer, Tick, vars
  <2>2. /\ workers[w].pc = "judged" /\ run = workers[w].work.run /\ db' = db
        /\ AppendResult(db, run, workers[w].work.expected) = "COMMITTED"
    BY <1>3, <2>1 DEF AppendRun
  <2>3. workers[w].work.expected = db.kase.version /\ run.basedOn <= db.kase.version
    BY <2>2 DEF AppendResult, ValidRunVersion
  <2>4. Truthful(run, db) /\ run.basedOn \in Nat
    BY <2>2, <2>3 DEF AgentInv, AgentWork, Grounded, WorkIsRecorded, WorkRecorded
  <2> QED
    BY <2>2, <2>3, <2>4 DEF RunStands
<1> QED
  BY <1>2, <1>3

LEMMA AgentInit == Init => AgentInv
<1> SUFFICES ASSUME Init PROVE AgentInv
  OBVIOUS
<1> DEFINE input == BuildInput(db)
           answer == ProposeResolution(Reply(input, Sound(input.version)), input)
           run   == BuildAgentRun(input, answer, db)
<1>1. RecordsOK(db) /\ db.kase.version \in Nat
  BY RecordsInit, TypeInit DEF TypeInv, CaseShape, KaseShape
<1>2. \A w \in Workers : AgentWork(workers[w], db) /\ WorkRecorded(workers[w], runs)
  BY DEF Init, Idle, AgentWork, WorkRecorded
<1>3. Supplies(input, db) /\ input.version = db.kase.version
  BY <1>1, InputSupplied DEF RecordsOK, BuildInput
<1>4. runs = {run}
  BY DEF Init
<1>5. AgentOutcome(answer)
  BY AnswerOf DEF AgentOutcome
<1> HIDE DEF input, answer
<1>6. Truthful(run, db) /\ run.basedOn = db.kase.version
  BY <1>1, <1>3, <1>5, JudgedIsGrounded, RunVersion DEF Grounded
<1> HIDE DEF run
<1> QED
  BY <1>1, <1>2, <1>4, <1>6 DEF AgentInv, RunStands, WorkIsRecorded

LEMMA AgentStep == TypeInv /\ AgentInv /\ [Next]_vars => AgentInv'
<1> SUFFICES ASSUME TypeInv, AgentInv, [Next]_vars PROVE AgentInv'
  OBVIOUS
<1>1. RecordsOK(db') /\ WorkIsRecorded'
  BY RecordsStep, WorkRecordedStep DEF AgentInv
<1>2. \A w \in Workers : AgentWork(workers'[w], db')
  BY AgentWorkStep
<1>3. \A run \in runs' : RunStands(run, db')
  BY RunsStep
<1> QED
  BY <1>1, <1>2, <1>3 DEF AgentInv

\* Whatever the language model answers and however the case moves on between the two loads
\* of an analysis and its storing, a run that cites only what it was supplied with is stored
\* or is refused as too late, but for an answer that misnames the version of a case that
\* stood still: records are never taken away, and a claim that nothing supports is never
\* replaced, so that what the run was supplied with is there at every later version.
THEOREM GroundedRunIsStorableHolds == Spec => []GroundedRunIsStorable
<1>1. AgentInv => GroundedRunIsStorable
  BY DEF AgentInv, AgentWork, Grounded, GroundedRunIsStorable, AppendResult
<1> QED
  BY <1>1, TypeInit, TypeStep, AgentInit, AgentStep, PTL DEF Spec

\* Whatever version, action, party and evidence the language model names, a stored analysis
\* that is shown as current and passed says of claims and evidence what the stored records
\* say, and is directed at a party of the case: it was validated at the version it read, and
\* the case has not moved on since.
THEOREM ShownAnalysisIsTrueHolds == Spec => []ShownAnalysisIsTrue
<1>1. AgentInv => ShownAnalysisIsTrue
  <2> SUFFICES ASSUME AgentInv, NEW run \in runs,
                      AnalysisShown(run, db.kase.version) = [freshness |-> "CURRENT", passed |-> TRUE]
               PROVE  /\ run.analysis.assessment = StoredAssessment(db)
                      /\ run.analysis.target \in db.kase.parties \cup {Nobody}
    BY DEF ShownAnalysisIsTrue
  <2>1. /\ AnalysisShown(run, db.kase.version).freshness = "CURRENT"
        /\ AnalysisShown(run, db.kase.version).passed = TRUE
    OBVIOUS
  <2>2. run.basedOn = db.kase.version /\ run.outcome = "SUCCEEDED_VALID"
    BY <2>1 DEF AnalysisShown
  <2> QED
    BY <2>2 DEF AgentInv, RunStands, Truthful
<1> QED
  BY <1>1, TypeInit, TypeStep, AgentInit, AgentStep, PTL DEF Spec
-----------------------------------------------------------------------------
(***************************************************************************)
(* Guidance.  Most of it holds of any case; that the edges of the truth    *)
(* graph join its nodes, and that a resolved case has its refund, hold of  *)
(* the cases the commits make.                                             *)
(***************************************************************************)
CaseRefers(d) ==
  /\ \A c \in d.claims : c.claimant \in d.kase.parties /\ c.evidence \subseteq IdsOf(d.evidence)
  /\ \A t \in d.transactions : t.evidence \in IdsOf(d.evidence)
  /\ IntakeEvent \in d.events
  /\ \E S : d.audits \in Seq(S) /\ \A a \in S : a.trigger \in IdsOf(d.events)

ResolvedIsPaid(d) == d.kase.state = "RESOLVED" => d.transactions # {}

GuidedCase(d) == CaseShape(d) /\ CaseRefers(d) /\ ResolvedIsPaid(d)

LEMMA AppliedGuided ==
  ASSUME NEW d, GuidedCase(d), NEW m, KaseShape(m.kase),
         d.kase.parties \subseteq m.kase.parties,
         \A c \in m.claims : /\ c.claimant \in m.kase.parties
                             /\ c.evidence \subseteq IdsOf(d.evidence \cup m.evidence),
         \A t \in m.transactions : t.evidence \in IdsOf(d.evidence \cup m.evidence),
         m.audit.trigger \in IdsOf(d.events \cup m.events),
         m.kase.state = "RESOLVED" => d.kase.state = "RESOLVED" \/ d.transactions # {}
  PROVE  GuidedCase(ApplyMutation(d, m))
<1> DEFINE later == ApplyMutation(d, m)
<1>1. /\ CaseShape(later) /\ later.kase = m.kase /\ later.events = d.events \cup m.events
      /\ later.evidence = d.evidence \cup m.evidence
      /\ later.claims = UpsertClaims(d.claims, m.claims)
      /\ later.transactions = d.transactions \cup m.transactions
  BY AppliedCase DEF GuidedCase
<1>2. later.audits = Append(d.audits, m.audit)
  BY DEF ApplyMutation, GuidedCase, CaseShape, IsRecord
<1> HIDE DEF later
<1>3. \A c \in later.claims : c.claimant \in later.kase.parties /\ c.evidence \subseteq IdsOf(later.evidence)
  BY <1>1 DEF GuidedCase, CaseRefers, UpsertClaims, IdsOf
<1>4. \A t \in later.transactions : t.evidence \in IdsOf(later.evidence)
  BY <1>1 DEF GuidedCase, CaseRefers, IdsOf
<1>5. \E S : later.audits \in Seq(S) /\ \A a \in S : a.trigger \in IdsOf(later.events)
  <2>1. PICK S : d.audits \in Seq(S) /\ \A a \in S : a.trigger \in IdsOf(d.events)
    BY DEF GuidedCase, CaseRefers
  <2> DEFINE T == S \cup {m.audit}
  <2>2. \A a \in T : a.trigger \in IdsOf(later.events)
    BY <1>1, <2>1 DEF IdsOf
  <2>3. d.audits \in Seq(T) /\ m.audit \in T
    BY <2>1
  <2> HIDE DEF T
  <2>4. later.audits \in Seq(T)
    BY <1>2, <2>3
  <2> QED
    BY <2>2, <2>4
<1>6. ResolvedIsPaid(later)
  BY <1>1 DEF GuidedCase, ResolvedIsPaid
<1>7. CaseRefers(later)
  BY <1>1, <1>3, <1>4, <1>5 DEF GuidedCase, CaseRefers
<1> QED
  BY <1>1, <1>6, <1>7 DEF GuidedCase, later

LEMMA EventGuided ==
  ASSUME NEW d, GuidedCase(d), NEW e \in ProviderEvents \cup PartnerEvents
  PROVE  GuidedCase(ApplyMutation(Given(d, e), EventMutation(Given(d, e), e)))
<1> DEFINE g == Given(d, e)
           m == EventMutation(g, e)
<1>1. /\ CaseShape(g) /\ g.kase = d.kase /\ g.events = d.events /\ g.evidence = d.evidence
      /\ g.claims = d.claims /\ g.transactions = d.transactions
  BY GivenCase DEF GuidedCase
<1>2. g.audits = d.audits
  BY DEF Given, GuidedCase, CaseShape, IsRecord
<1>3. GuidedCase(g)
  <2> HIDE DEF g
  <2> QED
    BY <1>1, <1>2 DEF GuidedCase, CaseRefers, ResolvedIsPaid
<1> HIDE DEF g
<1>4. KaseShape(m.kase) /\ g.kase.parties \subseteq m.kase.parties /\ m.events = {e}
  BY <1>1, EventPlan
<1>5. m.audit.trigger = e.id /\ m.kase.state \in {g.kase.state, "RESOLUTION_PENDING"}
  <2>1. CASE e \in ProviderEvents
    BY <1>1, <2>1 DEF EventMutation, AttachOutbox, PlanProviderRefund, Mutation, CaseShape, KaseShape,
                      IsRecord
  <2>2. CASE e \notin ProviderEvents
    BY <1>1, <2>2 DEF EventMutation, AttachOutbox, PlanPartnerEvidence, Mutation, CaseShape, KaseShape,
                      IsRecord, PartnerResultingState
  <2> QED
    BY <2>1, <2>2
<1>6. /\ \A c \in m.claims : /\ c.claimant \in m.kase.parties
                             /\ c.evidence \subseteq IdsOf(m.evidence)
      /\ \A t \in m.transactions : t.evidence \in IdsOf(m.evidence)
  <2>1. CASE e \in ProviderEvents
    <3>1. m.evidence = {ProviderEvidence(e)} /\ m.transactions = {ProviderTransaction(e)}
          /\ m.claims = {ProviderClaim("refund-exists", e), ProviderClaim("refund-status", e)}
      BY <1>1, <2>1, EventPlan
    <3>2. e.subject[1] \in m.kase.parties
      BY <1>1, <2>1 DEF EventMutation, AttachOutbox, PlanProviderRefund, Mutation, CaseShape, KaseShape,
                        IsRecord
    <3>3. ProviderEvidence(e).id = e.id /\ ProviderTransaction(e).evidence = e.id
      BY DEF ProviderEvidence, ProviderTransaction
    <3>4. \A aspect : /\ ProviderClaim(aspect, e).claimant = e.subject[1]
                      /\ ProviderClaim(aspect, e).evidence = {e.id}
      BY DEF ProviderClaim
    <3>5. IdsOf(m.evidence) = {e.id}
      BY <3>1, <3>3 DEF IdsOf
    <3> HIDE DEF m
    <3> QED
      BY <3>1, <3>2, <3>3, <3>4, <3>5
  <2>2. CASE e \notin ProviderEvents
    <3>1. m.evidence = {PartnerEvidence(e)} /\ m.transactions = {} /\ m.claims = {PartnerClaim(e)}
      BY <1>1, <2>2, EventPlan
    <3>2. "resolvia_demo_partner" \in m.kase.parties
      BY <1>1, <2>2 DEF EventMutation, AttachOutbox, PlanPartnerEvidence, Mutation, CaseShape,
                        KaseShape, IsRecord
    <3>3. PartnerEvidence(e).id = e.id
      BY DEF PartnerEvidence
    <3>4. PartnerClaim(e).claimant = "resolvia_demo_partner" /\ PartnerClaim(e).evidence = {e.id}
      BY DEF PartnerClaim
    <3>5. IdsOf(m.evidence) = {e.id}
      BY <3>1, <3>3 DEF IdsOf
    <3> HIDE DEF m
    <3> QED
      BY <3>1, <3>2, <3>4, <3>5
  <2> QED
    BY <2>1, <2>2
<1> HIDE DEF m
<1>7. IdsOf(m.evidence) \subseteq IdsOf(g.evidence \cup m.evidence)
  BY DEF IdsOf
<1>8. m.audit.trigger \in IdsOf(g.events \cup m.events)
  BY <1>4, <1>5 DEF IdsOf
<1>9. GuidedCase(ApplyMutation(g, m))
  BY <1>3, <1>4, <1>5, <1>6, <1>7, <1>8, AppliedGuided
<1> QED
  BY <1>9 DEF g, m

\* The guidance that is read off a case agrees with it.
LEMMA GuidedIsTruthful ==
  ASSUME NEW d, GuidedCase(d)
  PROVE  GuidanceTruthful(d)
<1>1. NextAllowedAction(d) = "NO_ACTION" => d.kase.state \in {"RESOLVED", "CLOSED"}
  BY DEF NextAllowedAction, EvaluationReason, ResolutionReady
<1>2. ~ResolutionReady(d) => ResolutionGaps(d) # {}
  <2>1. ASSUME ~ResolutionReady(d), AllSatisfied(d) PROVE ResolutionGaps(d) # {}
    <3>1. ProviderOutcomeKnown(d) /\ CustomerReceiptKnown(d) /\ ~ContradictionBlocks(d)
      BY <2>1 DEF AllSatisfied, RequirementStatus, Requirement
    <3>2. d.kase.state # "RESOLUTION_PENDING"
      BY <2>1, <3>1 DEF ResolutionReady
    <3> QED
      BY <2>1, <3>2 DEF ResolutionGaps
  <2>2. ASSUME ~AllSatisfied(d) PROVE ResolutionGaps(d) # {}
    BY <2>2 DEF AllSatisfied, ResolutionGaps
  <2> QED
    BY <2>1, <2>2
<1>3. \A e \in TruthEdges(d) : {e.from, e.to} \subseteq { n.id : n \in TruthNodes(d) }
  <2> DEFINE ids == { n.id : n \in TruthNodes(d) }
  <2>1. /\ \A x \in d.kase.parties : <<"PARTY", x>> \in ids
        /\ \A x \in IdsOf(d.events) : <<"EVENT", x>> \in ids
        /\ \A x \in IdsOf(d.evidence) : <<"EVIDENCE", x>> \in ids
        /\ \A x \in IdsOf(d.transactions) : <<"TRANSACTION", x>> \in ids
        /\ \A x \in IdsOf(d.claims) : <<"CLAIM", x>> \in ids
        /\ \A x \in IdsOf(Unsupported(d)) : /\ <<"VERIFICATION_GAP", x>> \in ids
                                            /\ <<"EXPECTED_EVIDENCE", x>> \in ids
        /\ \A x \in DOMAIN d.audits : <<"AUDIT", x>> \in ids
    <3>1. \A kind, x : Node(kind, x) \in TruthNodes(d) => <<kind, x>> \in ids
      BY DEF Node
    <3> HIDE DEF ids
    <3> QED
      BY <3>1 DEF TruthNodes
  <2> HIDE DEF ids
  <2> SUFFICES ASSUME NEW p \in TruthEdges(d) PROVE p.from \in ids /\ p.to \in ids
    BY DEF ids
  <2>2. CASE \E q \in Causes(d) : p = Edge("CAUSED", <<"EVENT", q[1]>>, <<"EVENT", q[2]>>)
    <3>1. EvidenceEvent \in d.events /\ p = Edge("CAUSED", <<"EVENT", IntakeEvent.id>>, <<"EVENT", EvidenceEvent.id>>)
      BY <2>2 DEF Causes
    <3>2. IntakeEvent.id \in IdsOf(d.events) /\ EvidenceEvent.id \in IdsOf(d.events)
      BY <3>1 DEF GuidedCase, CaseRefers, IdsOf
    <3> QED
      BY <2>1, <3>1, <3>2, EdgeIs
  <2>3. CASE \E t \in d.transactions :
               p = Edge("RESULTED_IN", <<"EVIDENCE", t.evidence>>, <<"TRANSACTION", t.id>>)
    <3>1. PICK t \in d.transactions :
            p = Edge("RESULTED_IN", <<"EVIDENCE", t.evidence>>, <<"TRANSACTION", t.id>>)
      BY <2>3
    <3>2. t.evidence \in IdsOf(d.evidence) /\ t.id \in IdsOf(d.transactions)
      BY DEF GuidedCase, CaseRefers, IdsOf
    <3> QED
      BY <2>1, <3>1, <3>2, EdgeIs
  <2>4. CASE \E c \in d.claims : p = Edge("ASSERTED", <<"PARTY", c.claimant>>, <<"CLAIM", c.id>>)
    <3>1. PICK c \in d.claims : p = Edge("ASSERTED", <<"PARTY", c.claimant>>, <<"CLAIM", c.id>>)
      BY <2>4
    <3>2. c.claimant \in d.kase.parties /\ c.id \in IdsOf(d.claims)
      BY DEF GuidedCase, CaseRefers, IdsOf
    <3> QED
      BY <2>1, <3>1, <3>2, EdgeIs
  <2>5. CASE \E c \in d.claims : \E r \in Relationships(c) :
               p = Edge(r.kind, <<"EVIDENCE", r.evidence>>, <<"CLAIM", c.id>>)
    <3>1. PICK c \in d.claims : \E r \in Relationships(c) :
            p = Edge(r.kind, <<"EVIDENCE", r.evidence>>, <<"CLAIM", c.id>>)
      BY <2>5
    <3>2. PICK r \in Relationships(c) :
            p = Edge(r.kind, <<"EVIDENCE", r.evidence>>, <<"CLAIM", c.id>>)
      BY <3>1
    <3>3. r.evidence \in IdsOf(d.evidence) /\ c.id \in IdsOf(d.claims)
      <4>1. r.evidence \in c.evidence
        BY DEF Relationships
      <4> QED
        BY <4>1 DEF GuidedCase, CaseRefers, IdsOf
    <3> QED
      BY <2>1, <3>2, <3>3, EdgeIs
  <2>6. CASE \E c \in Unsupported(d) :
               \/ p = Edge("RESULTED_IN", <<"CLAIM", c.id>>, <<"VERIFICATION_GAP", c.id>>)
               \/ p = Edge("EXPECTED_TO_VERIFY", <<"EXPECTED_EVIDENCE", c.id>>, <<"CLAIM", c.id>>)
    <3>1. PICK c \in Unsupported(d) :
            \/ p = Edge("RESULTED_IN", <<"CLAIM", c.id>>, <<"VERIFICATION_GAP", c.id>>)
            \/ p = Edge("EXPECTED_TO_VERIFY", <<"EXPECTED_EVIDENCE", c.id>>, <<"CLAIM", c.id>>)
      BY <2>6
    <3>2. c.id \in IdsOf(d.claims) /\ c.id \in IdsOf(Unsupported(d))
      BY DEF IdsOf, Unsupported
    <3> QED
      BY <2>1, <3>1, <3>2, EdgeIs
  <2>7. CASE \E i \in DOMAIN d.audits :
               p = Edge("RESULTED_IN", <<"EVENT", d.audits[i].trigger>>, <<"AUDIT", i>>)
    <3>1. PICK i \in DOMAIN d.audits :
            p = Edge("RESULTED_IN", <<"EVENT", d.audits[i].trigger>>, <<"AUDIT", i>>)
      BY <2>7
    <3>2. d.audits[i].trigger \in IdsOf(d.events)
      <4>1. PICK S : d.audits \in Seq(S) /\ \A a \in S : a.trigger \in IdsOf(d.events)
        BY DEF GuidedCase, CaseRefers
      <4>2. d.audits[i] \in S
        BY <4>1
      <4> QED
        BY <4>1, <4>2
    <3> QED
      BY <2>1, <3>1, <3>2, EdgeIs
  <2> QED
    BY <2>2, <2>3, <2>4, <2>5, <2>6, <2>7, EdgeKinds
<1>4. ASSUME NEW r \in Requirement
      PROVE  (\E target \in Target : PrepareDraft(d, r, target) = "DRAFT_ONLY") <=>
               \E g \in ResolutionGaps(d) :
                 g.requirement = r /\ g.action \in {"WAIT_FOR_PROVIDER", "REQUEST_EVIDENCE"}
  <2> DEFINE open == RequirementStatus(d)[r] # "SATISFIED"
  <2>1. (\E target \in Target : PrepareDraft(d, r, target) = "DRAFT_ONLY") <=>
          open /\ r # "contradictions_resolved"
    BY DEF Requirement, Target, PrepareDraft
  <2>2. ASSUME open, r # "contradictions_resolved"
        PROVE  \E g \in ResolutionGaps(d) :
                 g.requirement = r /\ g.action \in {"WAIT_FOR_PROVIDER", "REQUEST_EVIDENCE"}
    <3> DEFINE g == [requirement |-> r,
                     action |-> CASE r = "contradictions_resolved"       -> "RESOLVE_CONTRADICTION"
                                  [] r = "provider_transaction_verified" -> "WAIT_FOR_PROVIDER"
                                  [] OTHER                               -> "REQUEST_EVIDENCE"]
    <3>1. g \in ResolutionGaps(d)
      BY <2>2 DEF ResolutionGaps
    <3>2. g.requirement = r /\ g.action \in {"WAIT_FOR_PROVIDER", "REQUEST_EVIDENCE"}
      BY <2>2
    <3> QED
      BY <3>1, <3>2
  <2>3. ASSUME NEW g \in ResolutionGaps(d), g.requirement = r,
               g.action \in {"WAIT_FOR_PROVIDER", "REQUEST_EVIDENCE"}
        PROVE  open /\ r # "contradictions_resolved"
    BY <2>3 DEF ResolutionGaps, Requirement
  <2> HIDE DEF open
  <2> QED
    BY <2>1, <2>2, <2>3
<1>5. d.kase.state = "RESOLVED" => /\ Journey(d).refundTransaction = "VERIFIED"
                                   /\ WorkspaceGap(d) # "PROVIDER"
  BY DEF GuidedCase, ResolvedIsPaid, Journey, WorkspaceGap
<1> QED
  BY <1>1, <1>2, <1>3, <1>4, <1>5 DEF GuidanceTruthful
GuideInv ==
  /\ GuidedCase(db)
  /\ \A w \in Workers : workers[w].pc = "planned" => db.transactions # {}

LEMMA GuideStep == TypeInv /\ GuideInv /\ [Next]_vars => GuideInv'
<1> SUFFICES ASSUME TypeInv, GuideInv, [Next]_vars PROVE GuideInv'
  OBVIOUS
<1> USE DEF TypeInv
<1>1. db.transactions \subseteq db'.transactions
  BY StepKinds DEF Advances, Takes, Ends
<1>2. ASSUME NEW w \in Workers, workers'[w].pc = "planned" PROVE db'.transactions # {}
  <2>1. CASE workers'[w] = workers[w]
    BY <1>1, <1>2, <2>1 DEF GuideInv
  <2>2. CASE ResolutionReady(db)
    BY <1>1, <2>2 DEF ResolutionReady, ProviderOutcomeKnown, SucceededOutcome
  <2> QED
    BY <1>2, <2>1, <2>2, PlannedMoves
<1>3. ASSUME NEW e \in ProviderEvents \cup PartnerEvents, CommitEvent(e) PROVE GuidedCase(db')
  <2>1. db' = ApplyMutation(Given(db, e), EventMutation(Given(db, e), e))
    BY <1>3 DEF CommitEvent
  <2> QED
    BY <2>1, EventGuided DEF GuideInv
<1>4. ASSUME NEW w \in Workers, CommitEvaluation(w) PROVE GuidedCase(db')
  <2> DEFINE m == workers[w].work
  <2>1. CASE CommitResult(db, m) # "COMMITTED"
    BY <1>4, <2>1 DEF CommitEvaluation, GuideInv
  <2>2. CASE CommitResult(db, m) = "COMMITTED"
    <3>1. db' = ApplyMutation(db, m) /\ PlanOK(m, db) /\ db.transactions # {}
      BY <1>4, <2>2 DEF CommitEvaluation, PlansTyped, GuideInv
    <3>2. m.expected = db.kase.version /\ m.audit.trigger \in IdsOf(db.events \cup m.events)
      BY <2>2, CommittedVersion DEF ReferencesAreValid, AuditRefers
    <3> HIDE DEF m
    <3>3. /\ KaseShape(m.kase) /\ m.kase.parties = db.kase.parties
          /\ m.claims = {} /\ m.transactions = {}
      BY <3>1, <3>2 DEF PlanOK
    <3>4. GuidedCase(ApplyMutation(db, m))
      BY <3>1, <3>2, <3>3, AppliedGuided DEF GuideInv
    <3> QED
      BY <3>1, <3>4
  <2> QED
    BY <2>1, <2>2
<1>5. ASSUME UNCHANGED db PROVE GuidedCase(db')
  BY <1>5 DEF GuideInv
<1>6. ASSUME NEW w \in Workers, OwnStep(w), ~CommitEvaluation(w) PROVE UNCHANGED db
  BY <1>6 DEF OwnStep, StartBatch, Claim, Complete, Load, LoadAnalysis, JudgeAnswer, AppendRun
<1>7. CASE Tick \/ UNCHANGED vars
  BY <1>2, <1>5, <1>7 DEF Tick, vars, GuideInv
<1> QED
  BY <1>2, <1>3, <1>4, <1>5, <1>6, <1>7 DEF Next, OwnStep, GuideInv

LEMMA GuideInit == Init => GuideInv
<1> SUFFICES ASSUME Init PROVE GuideInv
  OBVIOUS
<1>1. GuidedCase(SeededCase)
  <2>1. /\ SeededCase.kase.parties = {"customer", "merchant"}
        /\ SeededCase.kase.state = "INVESTIGATING" /\ SeededCase.transactions = {}
        /\ SeededCase.events = {IntakeEvent, EvidenceEvent}
    BY DEF SeededCase
  <2>2. IdsOf(SeededCase.evidence) = {EvidenceEvent.id}
    <3>1. PICK ev : SeededCase.evidence = {ev} /\ ev.id = EvidenceEvent.id
      <4> DEFINE ev == [id |-> EvidenceEvent.id, type |-> "COMMUNICATION",
                        source |-> "LOCAL_DEMO_FIXTURE", level |-> "AUTHENTICATED_SOURCE",
                        requested |-> "NONE", status |-> "NONE",
                        about |-> {<<"seed", <<"refund", "processed">>>>}]
      <4>1. SeededCase.evidence = {ev} /\ ev.id = EvidenceEvent.id
        BY DEF SeededCase
      <4> QED
        BY <4>1
    <3> QED
      BY <3>1 DEF IdsOf
  <2>3. \A c \in SeededCase.claims : c.claimant = "merchant" /\ c.evidence = {EvidenceEvent.id}
    BY DEF SeededCase
  <2>4. \E S : SeededCase.audits \in Seq(S) /\ \A a \in S : a.trigger \in IdsOf(SeededCase.events)
    <3> DEFINE first  == SeedAudit(IntakeEvent, "NEW", "EVIDENCE_COLLECTION", {})
               second == SeedAudit(EvidenceEvent, "EVIDENCE_COLLECTION", "INVESTIGATING",
                                   {EvidenceEvent.id})
               S      == {first, second}
    <3>1. SeededCase.audits = <<first, second>>
      BY DEF SeededCase
    <3>2. first.trigger = IntakeEvent.id /\ second.trigger = EvidenceEvent.id
      BY DEF SeedAudit
    <3> HIDE DEF first, second
    <3>3. SeededCase.audits \in Seq(S)
      BY <3>1
    <3>4. \A a \in S : a.trigger \in IdsOf(SeededCase.events)
      BY <2>1, <3>2 DEF IdsOf
    <3> HIDE DEF S
    <3> QED
      BY <3>3, <3>4
  <2>5. CaseRefers(SeededCase)
    BY <2>1, <2>2, <2>3, <2>4 DEF CaseRefers
  <2> QED
    BY <2>1, <2>5, Seeded DEF GuidedCase, ResolvedIsPaid
<1>2. PICK e \in ProviderEvents \cup PartnerEvents :
        db = ApplyMutation(Given(SeededCase, e), EventMutation(Given(SeededCase, e), e))
  BY DEF Init
<1>3. GuidedCase(db)
  BY <1>1, <1>2, EventGuided
<1>4. \A w \in Workers : workers[w].pc # "planned"
  BY DEF Init, Idle
<1> QED
  BY <1>3, <1>4 DEF GuideInv

\* Guidance agrees with the case before and after every commit: no action is left only when
\* the case is decided, a case that is not ready lists a gap, a request is drafted for
\* exactly the gaps evidence can close, the edges of the truth graph join its nodes, and a
\* resolved case has its refund.
THEOREM GuidanceIsTruthfulHolds == Spec => GuidanceIsTruthful
<1>1. ASSUME GuideInv, GuideInv' PROVE \A d \in {db, db'} : GuidanceTruthful(d)
  <2>1. GuidedCase(db) /\ GuidedCase(db')
    BY <1>1 DEF GuideInv
  <2> QED
    BY <2>1, GuidedIsTruthful
<1>2. TypeInv /\ GuideInv /\ [Next]_vars
        => [db' # db => \A d \in {db, db'} : GuidanceTruthful(d)]_vars
  BY <1>1, GuideStep
<1> QED
  BY <1>2, TypeInit, TypeStep, GuideInit, GuideStep, PTL DEF Spec, GuidanceIsTruthful
=============================================================================
