-------------------------- MODULE DemoWebhook_proofs --------------------------
(***************************************************************************)
(* Theorems about DemoWebhook, for every set of instances and requests and *)
(* for all values of the lease, the window, its limit and the bounds.      *)
(***************************************************************************)
EXTENDS DemoWebhook, FiniteSetTheorems, TLAPS

(***************************************************************************)
(* Types.  A request that passed authentication has a lease id, also when  *)
(* it never stores a lease.                                                *)
(***************************************************************************)
StatusCode ==
  {"OK", "UNSUPPORTED_MEDIA_TYPE", "INVALID_REQUEST_BODY", "REQUEST_TOO_LARGE",
   "INVALID_DEMO_PROVIDER_REQUEST", "RATE_LIMITED", "RATE_LIMIT_UNAVAILABLE", "DUPLICATE",
   "REPLAY_IN_PROGRESS", "DEMO_PROVIDER_PROCESSING_FAILED", "ACCEPTED"}

ActiveStage == {"authenticated", "admitted", "claimed", "failing", "published"}

Active == [stage: ActiveStage, request: Requests, authenticatedAt: 0..MaxClock,
           leaseId: 1..MaxLeases, window: Windows]
Answered == [stage: {"answered"}, request: Requests, status: StatusCode]

StoredReceipt == [state: ReplayState, digest: STRING, semanticId: STRING,
                  leaseId: 1..MaxLeases, leaseUntil: Nat]

HandlersTyped == handler \in [Instances -> {Idle} \cup Active \cup Answered]
ReceiptsTyped == receipts \in [Nonces -> {NoReplay} \cup StoredReceipt]

TypeInv == TypeOK /\ HandlersTyped /\ ReceiptsTyped

LEMMA RequestShape ==
  ASSUME NEW r \in Requests
  PROVE  /\ r.nonce \in Nonces
         /\ r.body \in STRING /\ r.event \in STRING
         /\ r \in Request
  BY WebhookAssumption DEF Request, Nonces

LEMMA HandlerShape ==
  ASSUME HandlersTyped, NEW i \in Instances, handler[i].stage \in ActiveStage
  PROVE  /\ handler[i] \in Active
         /\ handler[i].request \in Requests
         /\ handler[i].request.nonce \in Nonces
  BY RequestShape DEF HandlersTyped, Idle, Active, Answered, ActiveStage

LEMMA NoReplayIsNone == NoReplay.state = "NONE" /\ "NONE" \notin ReplayState
  BY DEF NoReplay, ReplayState

LEMMA StoredShape ==
  ASSUME ReceiptsTyped, NEW n \in Nonces, receipts[n] # NoReplay
  PROVE  receipts[n] \in StoredReceipt
  BY DEF ReceiptsTyped

LEMMA WindowTyped == TypeOK => WindowOf(clock) \in Windows /\ 0 \in Windows
<1> SUFFICES ASSUME TypeOK PROVE WindowOf(clock) \in Windows /\ 0 \in Windows
  OBVIOUS
<1>1. clock \in Nat /\ MaxClock \in Nat /\ clock <= MaxClock /\ Window \in Nat \ {0}
  BY WebhookAssumption, ReplayAssumption DEF TypeOK
<1> DEFINE a == clock \div Window
           b == MaxClock \div Window
<1>2. /\ a \in Nat /\ b \in Nat
      /\ clock < Window * (a + 1)
      /\ Window * b <= MaxClock /\ MaxClock < Window * (b + 1)
      /\ Window * a <= clock
  BY <1>1
<1>3. a <= b
  <2> HIDE DEF a, b
  <2>1. Window * a < Window * (b + 1)
    BY <1>1, <1>2
  <2> QED
    BY <1>1, <1>2, <2>1
<1> QED
  BY <1>2, <1>3 DEF WindowOf, Windows

LEMMA VerdictTyped ==
  ASSUME NEW r \in Requests, NEW now
  PROVE  Verdict(r, now) \in StatusCode \ {"ACCEPTED", "DUPLICATE"}
<1>1. BodyVerdict(r) \in StatusCode \ {"ACCEPTED", "DUPLICATE"}
  BY RequestShape DEF BodyVerdict, Request, StatusCode
<1> QED
  BY <1>1 DEF Verdict, StatusCode

LEMMA TypeInit == Init => TypeInv
<1> SUFFICES ASSUME Init PROVE TypeInv
  OBVIOUS
<1>1. TypeOK
  BY WebhookAssumption, ReplayAssumption DEF Init, TypeOK, Idle
<1> QED
  BY <1>1 DEF Init, TypeInv, HandlersTyped, ReceiptsTyped

\* The ways in which a handler moves on keep its type.
LEMMA AdvanceTyped ==
  ASSUME HandlersTyped, NEW i \in Instances, handler[i].stage \in ActiveStage,
         NEW stage \in ActiveStage, Advance(i, stage)
  PROVE  /\ HandlersTyped'
         /\ handler' = [handler EXCEPT ![i] = [handler[i] EXCEPT !.stage = stage]]
<1>1. handler' = [handler EXCEPT ![i] = [handler[i] EXCEPT !.stage = stage]]
  BY DEF Advance
<1>2. [handler[i] EXCEPT !.stage = stage] \in Active
  BY HandlerShape DEF Active
<1> QED
  BY <1>1, <1>2 DEF HandlersTyped

LEMMA AnswerTyped ==
  ASSUME HandlersTyped, NEW i \in Instances, handler[i].stage \in ActiveStage,
         NEW status \in StatusCode, Answer(i, status)
  PROVE  HandlersTyped'
<1>1. [stage |-> "answered", request |-> handler[i].request, status |-> status] \in Answered
  BY HandlerShape DEF Answered
<1> QED
  BY <1>1 DEF Answer, HandlersTyped

\* What a claim, a mark and a release store.
LEMMA LeaseTyped ==
  ASSUME TypeOK, HandlersTyped, NEW i \in Instances, handler[i].stage \in ActiveStage
  PROVE  LeasedReceipt(ReplayClaim(handler[i])) \in StoredReceipt
<1>1. handler[i] \in Active /\ handler[i].request \in Requests
  BY HandlerShape
<1>2. /\ handler[i].leaseId \in 1..MaxLeases /\ handler[i].authenticatedAt \in Nat
      /\ handler[i].request.body \in STRING /\ handler[i].request.event \in STRING
  BY <1>1, RequestShape, WebhookAssumption DEF Active
<1>3. handler[i].authenticatedAt + LeaseTime \in Nat
  BY <1>2, ReplayAssumption
<1> QED
  BY <1>2, <1>3 DEF LeasedReceipt, ReplayClaim, StoredReceipt, ReplayState

LEMMA MarkTyped ==
  ASSUME NEW stored \in StoredReceipt
  PROVE  /\ MarkedPublished(stored) \in StoredReceipt
         /\ MarkedPublished(stored).state = "PUBLISHED"
         /\ MarkedPublished(stored).digest = stored.digest
         /\ MarkedPublished(stored).semanticId = stored.semanticId
  BY DEF MarkedPublished, StoredReceipt, ReplayState

LEMMA ReleaseTyped ==
  ASSUME NEW stored \in StoredReceipt, NEW c, c.now \in Nat
  PROVE  /\ Released(stored, c) \in StoredReceipt
         /\ Released(stored, c).digest = stored.digest
         /\ Released(stored, c).semanticId = stored.semanticId
         /\ stored.state = "PUBLISHED" => Released(stored, c) = stored
         /\ stored.state # "PUBLISHED" => Released(stored, c).state = "FAILED_RETRYABLE"
  BY DEF Released, StoredReceipt, ReplayState

(***************************************************************************)
(* The three writes of a receipt, and the one of the topic, each by name.  *)
(***************************************************************************)
Nonce(i) == handler[i].request.nonce

Leases(i) ==
  /\ handler[i].stage = "admitted"
  /\ ClaimDecision(receipts[Nonce(i)], ReplayClaim(handler[i])) = "CLAIMED"
  /\ receipts' = [receipts EXCEPT ![Nonce(i)] = LeasedReceipt(ReplayClaim(handler[i]))]
  /\ UNCHANGED <<clock, counts, published, issued>>

Marks(i) ==
  /\ handler[i].stage = "published"
  /\ Settles(receipts[Nonce(i)], ReplayClaim(handler[i]))
  /\ receipts' = [receipts EXCEPT ![Nonce(i)] = MarkedPublished(receipts[Nonce(i)])]
  /\ handler'[i].stage = "answered"
  /\ UNCHANGED <<clock, counts, published, issued>>

Releases(i) ==
  /\ handler[i].stage = "failing"
  /\ Settles(receipts[Nonce(i)], ReplayClaim(handler[i]))
  /\ receipts' = [receipts EXCEPT ![Nonce(i)] =
                    Released(receipts[Nonce(i)], ReplayClaim(handler[i]))]
  /\ handler'[i].stage = "answered"
  /\ UNCHANGED <<clock, counts, published, issued>>

LEMMA ReceiptWriters ==
  ASSUME HandlersTyped, [Next]_vars
  PROVE  UNCHANGED receipts \/ \E i \in Instances : Leases(i) \/ Marks(i) \/ Releases(i)
<1>1. ASSUME NEW i \in Instances, Claim(i) PROVE UNCHANGED receipts \/ Leases(i)
  BY <1>1 DEF Claim, Leases, Store, Receipt, Nonce
<1>2. ASSUME NEW i \in Instances, ClaimFails(i) PROVE UNCHANGED receipts \/ Leases(i)
  BY <1>2 DEF ClaimFails, Leases, Store, Receipt, Nonce
<1>3. ASSUME NEW i \in Instances, MarkPublished(i) \/ MarkFails(i)
      PROVE  UNCHANGED receipts \/ Marks(i)
  BY <1>3 DEF MarkPublished, MarkFails, Marks, Store, Receipt, Nonce, Answer, HandlersTyped
<1>4. ASSUME NEW i \in Instances, Release(i) PROVE UNCHANGED receipts \/ Releases(i)
  BY <1>4 DEF Release, Releases, Store, Receipt, Nonce, Answer, HandlersTyped
<1>5. ASSUME NEW i \in Instances, \/ \E r \in Requests : Refuse(i, r) \/ Authenticate(i, r)
                                  \/ Consume(i) \/ ConsumeFails(i) \/ Publish(i)
                                  \/ PublishFails(i) \/ Stop(i)
      PROVE  UNCHANGED receipts
  BY <1>5 DEF Refuse, Authenticate, Consume, ConsumeFails, Publish, PublishFails, Stop
<1>6. CASE Tick \/ UNCHANGED vars
  BY <1>6 DEF Tick, vars
<1> QED
  BY <1>1, <1>2, <1>3, <1>4, <1>5, <1>6 DEF Next

LEMMA ReceiptsStep == TypeInv /\ [Next]_vars => ReceiptsTyped'
<1> SUFFICES ASSUME TypeOK, HandlersTyped, ReceiptsTyped, [Next]_vars PROVE ReceiptsTyped'
  BY DEF TypeInv
<1>1. CASE UNCHANGED receipts
  BY <1>1 DEF ReceiptsTyped
<1>2. ASSUME NEW i \in Instances, Leases(i) PROVE ReceiptsTyped'
  <2>1. LeasedReceipt(ReplayClaim(handler[i])) \in StoredReceipt
    BY <1>2, LeaseTyped DEF Leases, ActiveStage
  <2> QED
    BY <1>2, <2>1 DEF Leases, ReceiptsTyped
<1>3. ASSUME NEW i \in Instances, Marks(i) \/ Releases(i) PROVE ReceiptsTyped'
  <2>1. /\ Nonce(i) \in Nonces /\ receipts[Nonce(i)] # NoReplay
        /\ handler[i] \in Active
    BY <1>3, HandlerShape DEF Marks, Releases, Settles, Nonce, ActiveStage
  <2>2. receipts[Nonce(i)] \in StoredReceipt
    BY <2>1, StoredShape
  <2>3. ReplayClaim(handler[i]).now \in Nat
    BY <2>1, WebhookAssumption DEF ReplayClaim, Active
  <2>4. /\ MarkedPublished(receipts[Nonce(i)]) \in StoredReceipt
        /\ Released(receipts[Nonce(i)], ReplayClaim(handler[i])) \in StoredReceipt
    BY <2>2, <2>3, MarkTyped, ReleaseTyped
  <2> QED
    BY <1>3, <2>4 DEF Marks, Releases, ReceiptsTyped
<1> QED
  BY <1>1, <1>2, <1>3, ReceiptWriters

(***************************************************************************)
(* How a handler that is at work after a step came there.                  *)
(***************************************************************************)
Enters(i) ==
  /\ handler[i].stage \notin ActiveStage
  /\ \E r \in Requests :
       handler'[i] = [stage |-> "authenticated", request |-> r, authenticatedAt |-> clock,
                      leaseId |-> issued + 1, window |-> 0]
  /\ issued' = issued + 1
  /\ UNCHANGED <<clock, receipts, counts, published>>

Admitted(i) ==
  LET w == WindowOf(clock)
  IN /\ handler[i].stage = "authenticated"
     /\ handler'[i] = [handler[i] EXCEPT !.stage = "admitted", !.window = w]
     /\ Admits(counts[w])
     /\ counts' = [counts EXCEPT ![w] = @ + 1]
     /\ UNCHANGED <<clock, receipts, published, issued>>

Claims(i) == Leases(i) /\ handler'[i] = [handler[i] EXCEPT !.stage = "claimed"]

Publishes(i) ==
  /\ handler[i].stage = "claimed"
  /\ \/ /\ handler'[i] = [handler[i] EXCEPT !.stage = "published"]
        /\ published' = published \cup {Publication(handler[i])}
     \/ /\ handler'[i] = [handler[i] EXCEPT !.stage = "failing"]
        /\ published' \in {published, published \cup {Publication(handler[i])}}
  /\ UNCHANGED <<clock, receipts, counts, issued>>

Rests(i) == handler'[i].stage \notin ActiveStage

LEMMA OwnMoves ==
  ASSUME HandlersTyped, NEW i \in Instances,
         \/ \E r \in Requests : Refuse(i, r) \/ Authenticate(i, r)
         \/ Consume(i) \/ ConsumeFails(i) \/ Claim(i) \/ ClaimFails(i) \/ Publish(i)
         \/ PublishFails(i) \/ MarkPublished(i) \/ MarkFails(i) \/ Release(i) \/ Stop(i)
  PROVE  Rests(i) \/ Enters(i) \/ Admitted(i) \/ Claims(i) \/ Publishes(i)
<1>1. ASSUME NEW status, Answer(i, status) PROVE Rests(i)
  BY <1>1 DEF Answer, Rests, HandlersTyped, ActiveStage
<1>2. ASSUME NEW r \in Requests, Refuse(i, r) PROVE Rests(i)
  BY <1>2 DEF Refuse, Rests, HandlersTyped, ActiveStage
<1>3. ASSUME NEW r \in Requests, Authenticate(i, r) PROVE Enters(i)
  BY <1>3 DEF Authenticate, Enters, Free, HandlersTyped, ActiveStage
<1>4. CASE Consume(i)
  <2>1. CASE Admits(counts[WindowOf(clock)])
    BY <1>4, <2>1 DEF Consume, Admitted, HandlersTyped
  <2>2. CASE ~Admits(counts[WindowOf(clock)])
    BY <1>1, <1>4, <2>2 DEF Consume
  <2> QED
    BY <2>1, <2>2
<1>5. CASE Claim(i)
  <2>1. CASE ClaimDecision(receipts[Nonce(i)], ReplayClaim(handler[i])) = "CLAIMED"
    BY <1>5, <2>1 DEF Claim, Claims, Leases, Receipt, Nonce, Store, Advance, HandlersTyped
  <2>2. CASE ClaimDecision(receipts[Nonce(i)], ReplayClaim(handler[i])) # "CLAIMED"
    BY <1>1, <1>5, <2>2 DEF Claim, Receipt, Nonce
  <2> QED
    BY <2>1, <2>2
<1>6. CASE Publish(i) \/ PublishFails(i)
  BY <1>6 DEF Publish, PublishFails, Publishes, Advance, HandlersTyped
<1>7. CASE MarkPublished(i)
  BY <1>1, <1>7 DEF MarkPublished
<1>8. CASE ConsumeFails(i) \/ ClaimFails(i) \/ MarkFails(i) \/ Release(i)
  BY <1>1, <1>8 DEF ConsumeFails, ClaimFails, MarkFails, Release
<1>9. CASE Stop(i)
  BY <1>9 DEF Stop, Idle, Rests, HandlersTyped, ActiveStage
<1> QED
  BY <1>2, <1>3, <1>4, <1>5, <1>6, <1>7, <1>8, <1>9

\* An instance moves itself only.
LEMMA OthersRest ==
  ASSUME HandlersTyped, NEW i \in Instances, NEW j \in Instances, j # i,
         \/ \E r \in Requests : Refuse(j, r) \/ Authenticate(j, r)
         \/ Consume(j) \/ ConsumeFails(j) \/ Claim(j) \/ ClaimFails(j) \/ Publish(j)
         \/ PublishFails(j) \/ MarkPublished(j) \/ MarkFails(j) \/ Release(j) \/ Stop(j)
  PROVE  handler'[i] = handler[i]
  BY DEF Refuse, Authenticate, Consume, ConsumeFails, Claim, ClaimFails, Publish, PublishFails,
         MarkPublished, MarkFails, Release, Stop, Advance, Answer, HandlersTyped

LEMMA HandlerMoves ==
  ASSUME HandlersTyped, [Next]_vars, NEW i \in Instances
  PROVE  \/ handler'[i] = handler[i]
         \/ Rests(i) \/ Enters(i) \/ Admitted(i) \/ Claims(i) \/ Publishes(i)
<1>1. CASE Tick \/ UNCHANGED vars
  BY <1>1 DEF Tick, vars
<1> QED
  BY <1>1, OthersRest, OwnMoves DEF Next

LEMMA OneMoves ==
  ASSUME HandlersTyped, [Next]_vars, NEW i \in Instances, NEW j \in Instances, i # j
  PROVE  handler'[i] = handler[i] \/ handler'[j] = handler[j]
<1>1. CASE Tick \/ UNCHANGED vars
  BY <1>1 DEF Tick, vars
<1> QED
  BY <1>1, OthersRest DEF Next

LEMMA HandlersStep == TypeInv /\ [Next]_vars => HandlersTyped'
<1> SUFFICES ASSUME TypeOK, HandlersTyped, ReceiptsTyped, [Next]_vars PROVE HandlersTyped'
  BY DEF TypeInv
<1> USE DEF ActiveStage
<1>1. ASSUME NEW i \in Instances, NEW r \in Requests, Refuse(i, r) PROVE HandlersTyped'
  <2>1. [stage |-> "answered", request |-> r, status |-> Verdict(r, clock)] \in Answered
    BY VerdictTyped DEF Answered
  <2> QED
    BY <1>1, <2>1 DEF Refuse, HandlersTyped
<1>2. ASSUME NEW i \in Instances, NEW r \in Requests, Authenticate(i, r) PROVE HandlersTyped'
  <2>1. [stage |-> "authenticated", request |-> r, authenticatedAt |-> clock,
         leaseId |-> issued', window |-> 0] \in Active
    BY <1>2, WindowTyped, WebhookAssumption DEF Authenticate, Active, TypeOK
  <2> QED
    BY <1>2, <2>1 DEF Authenticate, HandlersTyped
<1>3. ASSUME NEW i \in Instances, Consume(i) PROVE HandlersTyped'
  <2>1. [handler[i] EXCEPT !.stage = "admitted", !.window = WindowOf(clock)] \in Active
    BY <1>3, HandlerShape, WindowTyped DEF Consume, Active
  <2>2. \/ Answer(i, "RATE_LIMITED")
        \/ handler' = [handler EXCEPT ![i] =
             [handler[i] EXCEPT !.stage = "admitted", !.window = WindowOf(clock)]]
    BY <1>3 DEF Consume
  <2> QED
    BY <1>3, <2>1, <2>2, AnswerTyped DEF Consume, HandlersTyped, StatusCode
<1>4. ASSUME NEW i \in Instances, Claim(i) PROVE HandlersTyped'
  BY <1>4, AdvanceTyped, AnswerTyped DEF Claim, StatusCode
<1>5. ASSUME NEW i \in Instances, Publish(i) \/ PublishFails(i) PROVE HandlersTyped'
  BY <1>5, AdvanceTyped DEF Publish, PublishFails
<1>6. ASSUME NEW i \in Instances,
             ConsumeFails(i) \/ ClaimFails(i) \/ MarkPublished(i) \/ MarkFails(i) \/ Release(i)
      PROVE  HandlersTyped'
  BY <1>6, AnswerTyped DEF ConsumeFails, ClaimFails, MarkPublished, MarkFails, Release, StatusCode
<1>7. ASSUME NEW i \in Instances, Stop(i) PROVE HandlersTyped'
  BY <1>7 DEF Stop, HandlersTyped
<1>8. CASE Tick \/ UNCHANGED vars
  BY <1>8 DEF Tick, vars, HandlersTyped
<1> QED
  BY <1>1, <1>2, <1>3, <1>4, <1>5, <1>6, <1>7, <1>8 DEF Next

LEMMA TypeStep == TypeInv /\ [Next]_vars => TypeInv'
<1> SUFFICES ASSUME TypeInv, [Next]_vars PROVE TypeInv'
  OBVIOUS
<1>1. HandlersTyped' /\ ReceiptsTyped'
  BY HandlersStep, ReceiptsStep
<1>2. /\ \A n \in DOMAIN receipts' : receipts'[n] = NoReplay \/ receipts'[n].state \in ReplayState
      /\ DOMAIN receipts' = Nonces
      /\ \A i \in Instances : handler'[i].stage \in
           {"idle", "authenticated", "admitted", "claimed", "failing", "published", "answered"}
  BY <1>1 DEF HandlersTyped, ReceiptsTyped, StoredReceipt, Idle, Active, Answered, ActiveStage
<1>3. counts' \in [Windows -> 0..Limit]
  <2>1. counts' = counts \/ /\ Admits(counts[WindowOf(clock)])
                            /\ counts' = [counts EXCEPT ![WindowOf(clock)] = @ + 1]
    BY DEF Next, Refuse, Authenticate, Consume, ConsumeFails, Claim, ClaimFails, Publish,
           PublishFails, MarkPublished, MarkFails, Release, Stop, Tick, vars
  <2> QED
    BY <2>1, WindowTyped, ReplayAssumption DEF TypeInv, TypeOK, Admits
<1>4. clock' \in 0..MaxClock /\ issued' \in 0..MaxLeases
  <2>1. /\ clock' = clock \/ (clock < MaxClock /\ clock' = clock + 1)
        /\ issued' = issued \/ (issued < MaxLeases /\ issued' = issued + 1)
    BY DEF Next, Refuse, Authenticate, Consume, ConsumeFails, Claim, ClaimFails, Publish,
           PublishFails, MarkPublished, MarkFails, Release, Stop, Tick, vars
  <2> QED
    BY <2>1, WebhookAssumption DEF TypeInv, TypeOK
<1> QED
  BY <1>1, <1>2, <1>3, <1>4 DEF TypeInv, TypeOK

\* Every reachable state is typed, with receipts and counters within their bounds.
THEOREM TypeCorrect == Spec => []TypeOK
<1>1. TypeInv => TypeOK
  BY DEF TypeInv
<1> QED
  BY <1>1, TypeInit, TypeStep, PTL DEF Spec

-----------------------------------------------------------------------------
(***************************************************************************)
(* The inductive invariant, in four parts that are proved one after the    *)
(* other: lease ids are unique, a receipt keeps the payload it was made    *)
(* for, a live lease is in the receipt, and each publication was counted.  *)
(***************************************************************************)
Busy(i) == handler[i].stage \in ActiveStage
Claimed(i) == handler[i].stage \in {"claimed", "failing", "published"}
Unpublished(i) == handler[i].stage \in {"authenticated", "admitted", "claimed"}

\* A lease id belongs to one request, and to at most one publication.
IdsUnique ==
  /\ \A i \in Instances : Busy(i) => handler[i].leaseId <= issued
  /\ \A i, j \in Instances : Busy(i) /\ Busy(j) /\ i # j => handler[i].leaseId # handler[j].leaseId
  /\ \A p \in published : p.leaseId \in 1..issued
  /\ \A p, q \in published : p.leaseId = q.leaseId => p = q
  /\ \A i \in Instances, p \in published : Unpublished(i) => p.leaseId # handler[i].leaseId

\* A receipt names the payload of everything claimed or published under its nonce, and says
\* PUBLISHED only of a message that is on the topic.
ReceiptOf(p) ==
  /\ p.nonce \in Nonces
  /\ receipts[p.nonce] # NoReplay
  /\ receipts[p.nonce].digest = p.body /\ receipts[p.nonce].semanticId = p.event

OnTopic(nonce, event) == \E p \in published : p.nonce = nonce /\ p.event = event

PayloadKept ==
  /\ \A p \in published : ReceiptOf(p)
  /\ \A i \in Instances : Claimed(i) =>
       receipts[Nonce(i)] # NoReplay /\ SameReplay(receipts[Nonce(i)], ReplayClaim(handler[i]))
  /\ \A i \in Instances : handler[i].stage = "published" =>
       OnTopic(Nonce(i), handler[i].request.event)
  /\ \A n \in Nonces : receipts[n].state = "PUBLISHED" => OnTopic(n, receipts[n].semanticId)

\* While the lease of a request at work runs, the receipt is leased to that request.
Live(i) == Working(i) /\ clock < handler[i].authenticatedAt + LeaseTime

LeaseHeld ==
  /\ \A i \in Instances : Busy(i) => handler[i].authenticatedAt <= clock
  /\ \A i \in Instances : Live(i) =>
       /\ receipts[Nonce(i)].state = "LEASED"
       /\ receipts[Nonce(i)].leaseId = handler[i].leaseId
       /\ receipts[Nonce(i)].leaseUntil = handler[i].authenticatedAt + LeaseTime

\* The lease ids the limiter let through in a window, those of publications among them.
Drawn(w) ==
  { p.leaseId : p \in { q \in published : q.window = w } }
    \cup { handler[i].leaseId : i \in { j \in Instances :
             handler[j].stage \in ActiveStage \ {"authenticated"} /\ handler[j].window = w } }

Counted == \A w \in Windows : Cardinality(Drawn(w)) <= counts[w]

(***************************************************************************)
(* A published receipt is final.                                           *)
(***************************************************************************)
LEMMA FinalStep == TypeInv /\ [Next]_vars =>
  \A n \in Nonces : receipts[n].state = "PUBLISHED" => receipts'[n] = receipts[n]
<1> SUFFICES ASSUME TypeInv, [Next]_vars, NEW n \in Nonces, receipts[n].state = "PUBLISHED"
             PROVE  receipts'[n] = receipts[n]
  OBVIOUS
<1>1. receipts[n] # NoReplay /\ receipts[n] \in StoredReceipt
  BY NoReplayIsNone, StoredShape DEF TypeInv
<1>2. ASSUME NEW i \in Instances, Leases(i) PROVE Nonce(i) # n
  BY <1>1, <1>2 DEF Leases, ClaimDecision
<1>3. ASSUME NEW i \in Instances, Nonce(i) = n, Marks(i) PROVE receipts'[n] = receipts[n]
  BY <1>1, <1>3 DEF Marks, MarkedPublished, StoredReceipt, TypeInv, ReceiptsTyped
<1>4. ASSUME NEW i \in Instances, Nonce(i) = n, Releases(i) PROVE receipts'[n] = receipts[n]
  BY <1>1, <1>4 DEF Releases, Released, TypeInv, ReceiptsTyped
<1>5. ASSUME NEW i \in Instances, Nonce(i) # n, Leases(i) \/ Marks(i) \/ Releases(i)
      PROVE  receipts'[n] = receipts[n]
  BY <1>5 DEF Leases, Marks, Releases, TypeInv, ReceiptsTyped
<1> QED
  BY <1>2, <1>3, <1>4, <1>5, ReceiptWriters DEF TypeInv

\* However late a claim, a mark or a release arrives, a receipt that says PUBLISHED stays as
\* it is: no accepted nonce is ever accepted again.
THEOREM PublishedIsFinalHolds == Spec => PublishedIsFinal
<1>1. TypeInv /\ [Next]_vars =>
        [\A n \in Nonces : receipts[n].state = "PUBLISHED" => receipts'[n] = receipts[n]]_vars
  BY FinalStep
<1> QED
  BY <1>1, TypeInit, TypeStep, PTL DEF Spec, PublishedIsFinal

(***************************************************************************)
(* Lease ids are unique.                                                   *)
(***************************************************************************)
LEMMA TopicGrows ==
  ASSUME HandlersTyped, [Next]_vars
  PROVE  \/ UNCHANGED published
         \/ \E i \in Instances :
              Publishes(i) /\ published' = published \cup {Publication(handler[i])}
<1>1. ASSUME NEW i \in Instances, Publish(i) \/ PublishFails(i)
      PROVE  UNCHANGED published
               \/ (Publishes(i) /\ published' = published \cup {Publication(handler[i])})
  BY <1>1 DEF Publish, PublishFails, Publishes, Advance, HandlersTyped
<1> QED
  BY <1>1 DEF Next, Refuse, Authenticate, Consume, ConsumeFails, Claim, ClaimFails, MarkPublished,
              MarkFails, Release, Stop, Tick, vars

LEMMA IssuedGrows ==
  ASSUME TypeOK, [Next]_vars
  PROVE  issued \in Nat /\ issued' \in Nat /\ issued <= issued'
<1>1. issued \in Nat
  BY WebhookAssumption DEF TypeOK
<1>2. issued' = issued \/ issued' = issued + 1
  BY DEF Next, Refuse, Authenticate, Consume, ConsumeFails, Claim, ClaimFails, Publish,
         PublishFails, MarkPublished, MarkFails, Release, Stop, Tick, vars
<1> QED
  BY <1>1, <1>2

\* A handler at work keeps its request, its lease id and the time it was authenticated.
SameRequest(i) ==
  /\ Busy(i)
  /\ handler'[i].request = handler[i].request
  /\ handler'[i].leaseId = handler[i].leaseId
  /\ handler'[i].authenticatedAt = handler[i].authenticatedAt

LEMMA BusyMoves ==
  ASSUME TypeInv, [Next]_vars, NEW i \in Instances, Busy(i)'
  PROVE  \/ Enters(i)
         \/ SameRequest(i) /\ (handler'[i] = handler[i] \/ Admitted(i) \/ Claims(i) \/ Publishes(i))
<1>1. CASE handler'[i] = handler[i]
  BY <1>1 DEF Busy, SameRequest
<1>2. ASSUME Admitted(i) \/ Claims(i) \/ Publishes(i) PROVE SameRequest(i)
  <2>1. handler[i].stage \in ActiveStage
    BY <1>2 DEF Admitted, Claims, Leases, Publishes, ActiveStage
  <2>2. handler[i] \in Active
    BY <2>1, HandlerShape DEF TypeInv
  <2> QED
    BY <1>2, <2>1, <2>2 DEF Admitted, Claims, Publishes, Active, SameRequest, Busy
<1> QED
  BY <1>1, <1>2, HandlerMoves DEF TypeInv, Rests, Busy

LEMMA IdsInit == Init => IdsUnique
  BY DEF Init, IdsUnique, Busy, Unpublished, ActiveStage, Idle

LEMMA IdsStep == TypeInv /\ IdsUnique /\ [Next]_vars => IdsUnique'
<1> SUFFICES ASSUME TypeInv, IdsUnique, [Next]_vars PROVE IdsUnique'
  OBVIOUS
<1>0. issued \in Nat /\ issued' \in Nat /\ issued <= issued'
  BY IssuedGrows DEF TypeInv
<1>1. ASSUME NEW i \in Instances, Busy(i)'
      PROVE  /\ handler'[i].leaseId \in Nat /\ handler'[i].leaseId <= issued'
             /\ \/ handler'[i].leaseId = issued + 1
                \/ Busy(i) /\ handler'[i].leaseId = handler[i].leaseId
  <2>1. CASE Enters(i)
    BY <1>0, <2>1 DEF Enters
  <2>2. CASE SameRequest(i)
    <3>1. handler[i].leaseId \in Nat
      BY <2>2, HandlerShape, WebhookAssumption DEF SameRequest, Busy, TypeInv, Active
    <3> QED
      BY <1>0, <2>2, <3>1 DEF SameRequest, IdsUnique
  <2> QED
    BY <1>1, <2>1, <2>2, BusyMoves
<1>2. ASSUME NEW i \in Instances, NEW j \in Instances, i # j, Busy(i)', Busy(j)'
      PROVE  handler'[i].leaseId # handler'[j].leaseId
  <2>1. CASE SameRequest(i) /\ SameRequest(j)
    BY <1>2, <2>1 DEF SameRequest, IdsUnique
  <2>2. ASSUME NEW a \in {i, j}, NEW b \in {i, j}, Enters(a), SameRequest(b)
        PROVE  handler'[a].leaseId # handler'[b].leaseId
    <3>1. handler'[a].leaseId = issued + 1
      BY <2>2 DEF Enters
    <3>2. handler'[b].leaseId <= issued /\ handler[b].leaseId \in Nat
      BY <2>2, HandlerShape, WebhookAssumption DEF SameRequest, IdsUnique, Busy, TypeInv, Active
    <3> QED
      BY <1>0, <2>2, <3>1, <3>2 DEF SameRequest
  <2>3. ASSUME Enters(i), Enters(j) PROVE FALSE
    <3>1. handler'[i] # handler[i] /\ handler'[j] # handler[j]
      BY <2>3 DEF Enters, ActiveStage
    <3> QED
      BY <1>2, <3>1, OneMoves DEF TypeInv
  <2> QED
    BY <1>2, <2>1, <2>2, <2>3, BusyMoves
<1>3. ASSUME NEW p \in published'
      PROVE  \/ p \in published
             \/ \E i \in Instances : Publishes(i) /\ p = Publication(handler[i])
  BY TopicGrows DEF TypeInv
<1>4. ASSUME NEW i \in Instances, Publishes(i)
      PROVE  /\ Busy(i) /\ Unpublished(i) /\ ~Unpublished(i)'
             /\ handler[i].leaseId \in Nat /\ handler[i].leaseId >= 1
             /\ Publication(handler[i]).leaseId = handler[i].leaseId
             /\ \A j \in Instances : j # i => handler'[j] = handler[j]
  <2>1. Busy(i) /\ Unpublished(i)
    BY <1>4 DEF Publishes, Busy, Unpublished, ActiveStage
  <2>2. handler[i] \in Active
    BY <2>1, HandlerShape DEF TypeInv, Busy
  <2>3. ~Unpublished(i)'
    BY <1>4, <2>2 DEF Publishes, Unpublished, Active
  <2>4. ASSUME NEW j \in Instances, j # i PROVE handler'[j] = handler[j]
    <3>1. handler'[i] # handler[i]
      BY <2>1, <2>3 DEF Unpublished
    <3> QED
      BY <2>4, <3>1, OneMoves DEF TypeInv
  <2> QED
    BY <2>1, <2>2, <2>3, <2>4, WebhookAssumption DEF Active, Publication
<1>5. ASSUME NEW p \in published' PROVE p.leaseId \in 1..issued'
  <2>1. CASE p \in published
    BY <1>0, <2>1 DEF IdsUnique
  <2>2. ASSUME NEW i \in Instances, Publishes(i), p = Publication(handler[i])
        PROVE  p.leaseId \in 1..issued'
    BY <1>0, <1>4, <2>2 DEF IdsUnique
  <2> QED
    BY <1>3, <2>1, <2>2
<1>6. ASSUME NEW p \in published', NEW q \in published', p.leaseId = q.leaseId PROVE p = q
  <2>1. UNCHANGED published
          \/ \E i \in Instances : Publishes(i) /\ published' = published \cup {Publication(handler[i])}
    BY TopicGrows DEF TypeInv
  <2> QED
    BY <1>4, <1>6, <2>1 DEF IdsUnique
<1>7. ASSUME NEW i \in Instances, NEW p \in published', Unpublished(i)'
      PROVE  p.leaseId # handler'[i].leaseId
  <2>1. Busy(i)'
    BY <1>7 DEF Unpublished, Busy, ActiveStage
  <2>2. CASE Enters(i)
    <3>1. handler'[i].leaseId = issued + 1 /\ p \in published
      BY <2>2 DEF Enters
    <3> QED
      BY <1>0, <3>1 DEF IdsUnique
  <2>3. CASE SameRequest(i) /\ p \in published
    <3>1. Unpublished(i)
      BY <1>7, <1>4, <2>1, <2>3, BusyMoves DEF Admitted, Claims, Leases, Unpublished, Enters, SameRequest, Busy
    <3> QED
      BY <2>3, <3>1 DEF SameRequest, IdsUnique
  <2>4. ASSUME SameRequest(i), NEW j \in Instances, Publishes(j), p = Publication(handler[j])
        PROVE  p.leaseId # handler'[i].leaseId
    <3>1. i # j
      BY <1>4, <1>7, <2>4
    <3> QED
      BY <1>4, <2>4, <3>1 DEF SameRequest, IdsUnique
  <2> QED
    BY <1>3, <2>1, <2>2, <2>3, <2>4, BusyMoves
<1> QED
  BY <1>1, <1>2, <1>5, <1>6, <1>7 DEF IdsUnique

(***************************************************************************)
(* A receipt keeps its payload.                                            *)
(***************************************************************************)
LEMMA PayloadStays ==
  ASSUME TypeInv, [Next]_vars, NEW n \in Nonces, receipts[n] # NoReplay
  PROVE  /\ receipts'[n] # NoReplay
         /\ receipts'[n].digest = receipts[n].digest
         /\ receipts'[n].semanticId = receipts[n].semanticId
<1>1. receipts[n] \in StoredReceipt
  BY StoredShape DEF TypeInv
<1>2. ASSUME NEW i \in Instances, Nonce(i) = n, Leases(i)
      PROVE  /\ receipts'[n] \in StoredReceipt
             /\ receipts'[n].digest = receipts[n].digest
             /\ receipts'[n].semanticId = receipts[n].semanticId
  <2>1. receipts'[n] = LeasedReceipt(ReplayClaim(handler[i]))
    BY <1>2 DEF Leases, TypeInv, ReceiptsTyped
  <2>2. SameReplay(receipts[n], ReplayClaim(handler[i]))
    BY <1>2 DEF Leases, ClaimDecision
  <2>3. receipts'[n] \in StoredReceipt
    BY <1>2, <2>1, LeaseTyped DEF Leases, ActiveStage, TypeInv
  <2> QED
    BY <2>1, <2>2, <2>3 DEF SameReplay, LeasedReceipt
<1>3. ASSUME NEW i \in Instances, Nonce(i) = n, Marks(i) \/ Releases(i)
      PROVE  /\ receipts'[n] \in StoredReceipt
             /\ receipts'[n].digest = receipts[n].digest
             /\ receipts'[n].semanticId = receipts[n].semanticId
  <2>1. receipts'[n] \in {MarkedPublished(receipts[n]), Released(receipts[n], ReplayClaim(handler[i]))}
    BY <1>3 DEF Marks, Releases, TypeInv, ReceiptsTyped
  <2>2. handler[i] \in Active
    BY <1>3, HandlerShape DEF Marks, Releases, ActiveStage, TypeInv
  <2>3. ReplayClaim(handler[i]).now \in Nat
    BY <2>2, WebhookAssumption DEF ReplayClaim, Active
  <2> QED
    BY <1>1, <2>1, <2>3, MarkTyped, ReleaseTyped
<1>4. ASSUME NEW i \in Instances, Nonce(i) # n, Leases(i) \/ Marks(i) \/ Releases(i)
      PROVE  receipts'[n] = receipts[n]
  BY <1>4 DEF Leases, Marks, Releases, TypeInv, ReceiptsTyped
<1>5. receipts'[n] \in StoredReceipt => receipts'[n] # NoReplay
  BY NoReplayIsNone DEF StoredReceipt
<1> QED
  BY <1>1, <1>2, <1>3, <1>4, <1>5, ReceiptWriters DEF TypeInv

LEMMA TopicStays == ASSUME HandlersTyped, [Next]_vars PROVE published \subseteq published'
  BY TopicGrows

\* ReceiptOf and OnTopic of the next state.
ReceiptOfNext(p) ==
  /\ p.nonce \in Nonces
  /\ receipts'[p.nonce] # NoReplay
  /\ receipts'[p.nonce].digest = p.body /\ receipts'[p.nonce].semanticId = p.event

OnTopicNext(nonce, event) == \E p \in published' : p.nonce = nonce /\ p.event = event

LEMMA PayloadInit == Init => PayloadKept
  BY NoReplayIsNone DEF Init, PayloadKept, Claimed, Idle

LEMMA PayloadStep == TypeInv /\ PayloadKept /\ [Next]_vars => PayloadKept'
<1> SUFFICES ASSUME TypeInv, PayloadKept, [Next]_vars PROVE PayloadKept'
  OBVIOUS
<1>0. ASSUME NEW nonce, NEW event, OnTopic(nonce, event) PROVE OnTopicNext(nonce, event)
  BY <1>0, TopicStays DEF OnTopic, OnTopicNext, TypeInv
<1>1. ASSUME NEW i \in Instances, Claimed(i)'
      PROVE  /\ handler'[i].request = handler[i].request /\ Nonce(i) \in Nonces
             /\ receipts'[Nonce(i)] # NoReplay
             /\ SameReplay(receipts'[Nonce(i)], ReplayClaim(handler[i]))
             /\ ReplayClaim(handler[i])' = ReplayClaim(handler[i])
  <2>1. Busy(i)'
    BY <1>1 DEF Claimed, Busy, ActiveStage
  <2>2. ~Enters(i) /\ ~Admitted(i)
    <3>1. CASE Enters(i)
      BY <1>1, <3>1 DEF Enters, Claimed
    <3>2. CASE Admitted(i)
      <4>1. handler[i] \in Active
        BY <3>2, HandlerShape DEF Admitted, ActiveStage, TypeInv
      <4> QED
        BY <1>1, <3>2, <4>1 DEF Admitted, Claimed, Active
    <3> QED
      BY <3>1, <3>2
  <2>3. SameRequest(i) /\ (handler'[i] = handler[i] \/ Claims(i) \/ Publishes(i))
    BY <2>1, <2>2, BusyMoves
  <2>4. Nonce(i) \in Nonces
    BY <2>3, HandlerShape DEF SameRequest, Busy, Nonce, TypeInv
  <2>5. CASE Claimed(i)
    <3>1. receipts[Nonce(i)] # NoReplay /\ SameReplay(receipts[Nonce(i)], ReplayClaim(handler[i]))
      BY <2>5 DEF PayloadKept
    <3> QED
      BY <2>3, <2>4, <3>1, PayloadStays DEF SameReplay, SameRequest, ReplayClaim
  <2>6. CASE Claims(i)
    <3>1. receipts'[Nonce(i)] = LeasedReceipt(ReplayClaim(handler[i]))
      BY <2>4, <2>6 DEF Claims, Leases, TypeInv, ReceiptsTyped
    <3>2. receipts'[Nonce(i)].state = "LEASED"
      BY <3>1 DEF LeasedReceipt
    <3> QED
      BY <2>3, <2>4, <3>1, <3>2, NoReplayIsNone DEF SameReplay, LeasedReceipt, SameRequest, ReplayClaim
  <2> QED
    BY <1>1, <2>3, <2>5, <2>6 DEF Publishes, Claimed
<1>2. ASSUME NEW i \in Instances, Publishes(i)
      PROVE  /\ Claimed(i) /\ Claimed(i)' /\ handler'[i].request = handler[i].request
             /\ Nonce(i) \in Nonces
             /\ Publication(handler[i]).nonce = Nonce(i)
             /\ Publication(handler[i]).event = handler[i].request.event
             /\ Publication(handler[i]).body = handler[i].request.body
  <2>1. handler[i] \in Active /\ Nonce(i) \in Nonces
    BY <1>2, HandlerShape DEF Publishes, ActiveStage, TypeInv, Nonce
  <2> QED
    BY <1>2, <2>1 DEF Publishes, Claimed, Active, Publication, Nonce
<1>3. ASSUME NEW p \in published' PROVE ReceiptOfNext(p)
  <2>1. CASE p \in published
    BY <2>1, PayloadStays DEF PayloadKept, ReceiptOf, ReceiptOfNext
  <2>2. ASSUME NEW i \in Instances, Publishes(i), p = Publication(handler[i])
        PROVE  ReceiptOfNext(p)
    <3>1. receipts'[Nonce(i)] # NoReplay /\ SameReplay(receipts'[Nonce(i)], ReplayClaim(handler[i]))
      BY <1>1, <1>2, <2>2
    <3> QED
      BY <1>2, <2>2, <3>1 DEF ReceiptOfNext, SameReplay, ReplayClaim
  <2> QED
    BY <2>1, <2>2, TopicGrows DEF TypeInv
<1>4. ASSUME NEW i \in Instances, handler'[i].stage = "published"
      PROVE  OnTopicNext(handler'[i].request.nonce, handler'[i].request.event)
  <2>1. Busy(i)' /\ Claimed(i)'
    BY <1>4 DEF Claimed, Busy, ActiveStage
  <2>2. handler'[i].request = handler[i].request
    BY <1>1, <2>1
  <2>3. CASE handler'[i] = handler[i]
    <3>1. OnTopic(Nonce(i), handler[i].request.event)
      BY <1>4, <2>3 DEF PayloadKept
    <3> QED
      BY <1>0, <2>2, <3>1 DEF Nonce
  <2>4. CASE Publishes(i)
    <3>1. handler[i] \in Active
      BY <2>4, HandlerShape DEF Publishes, ActiveStage, TypeInv
    <3>2. Publication(handler[i]) \in published'
      BY <1>4, <2>4, <3>1 DEF Publishes, Active
    <3> QED
      BY <1>2, <2>2, <2>4, <3>2 DEF OnTopicNext, Nonce
  <2>5. CASE Enters(i) \/ Admitted(i) \/ Claims(i)
    <3>1. CASE Enters(i)
      BY <1>4, <3>1 DEF Enters
    <3>2. CASE Admitted(i) \/ Claims(i)
      <4>1. handler[i] \in Active
        BY <3>2, HandlerShape DEF Admitted, Claims, Leases, ActiveStage, TypeInv
      <4> QED
        BY <1>4, <3>2, <4>1 DEF Admitted, Claims, Active
    <3> QED
      BY <2>5, <3>1, <3>2
  <2> QED
    BY <2>1, <2>3, <2>4, <2>5, BusyMoves
<1>5. ASSUME NEW n \in Nonces, receipts'[n].state = "PUBLISHED"
      PROVE  OnTopicNext(n, receipts'[n].semanticId)
  <2>1. CASE receipts'[n] = receipts[n]
    BY <1>0, <1>5, <2>1 DEF PayloadKept
  <2>2. ASSUME NEW i \in Instances, Nonce(i) = n, Leases(i) PROVE FALSE
    BY <1>5, <2>2 DEF Leases, LeasedReceipt, TypeInv, ReceiptsTyped
  <2>3. ASSUME NEW i \in Instances, Nonce(i) = n, Marks(i)
        PROVE  OnTopicNext(n, receipts'[n].semanticId)
    <3>1. OnTopic(n, handler[i].request.event)
      BY <2>3 DEF Marks, PayloadKept
    <3>2. receipts[n] # NoReplay /\ receipts[n].semanticId = handler[i].request.event
      BY <2>3 DEF Marks, Settles, SameReplay, ReplayClaim
    <3>3. receipts'[n].semanticId = handler[i].request.event
      BY <3>2, PayloadStays
    <3> QED
      BY <1>0, <3>1, <3>3
  <2>4. ASSUME NEW i \in Instances, Nonce(i) = n, Releases(i)
        PROVE  receipts'[n] = receipts[n]
    <3>1. /\ receipts[n] \in StoredReceipt
          /\ handler[i] \in Active
      BY <2>4, StoredShape, HandlerShape DEF Releases, Settles, ActiveStage, TypeInv
    <3>2. ReplayClaim(handler[i]).now \in Nat
      BY <3>1, WebhookAssumption DEF ReplayClaim, Active
    <3>3. receipts'[n] = Released(receipts[n], ReplayClaim(handler[i]))
      BY <2>4 DEF Releases, TypeInv, ReceiptsTyped
    <3> QED
      BY <1>5, <3>1, <3>2, <3>3, ReleaseTyped
  <2>5. ASSUME NEW i \in Instances, Nonce(i) # n, Leases(i) \/ Marks(i) \/ Releases(i)
        PROVE  receipts'[n] = receipts[n]
    BY <2>5 DEF Leases, Marks, Releases, TypeInv, ReceiptsTyped
  <2> QED
    BY <2>1, <2>2, <2>3, <2>4, <2>5, ReceiptWriters DEF TypeInv
<1>6. ASSUME NEW i \in Instances, Claimed(i)'
      PROVE  /\ receipts'[handler'[i].request.nonce] # NoReplay
             /\ SameReplay(receipts'[handler'[i].request.nonce], ReplayClaim(handler'[i]))
  BY <1>1, <1>6 DEF Nonce, ReplayClaim
<1> QED
  BY <1>3, <1>4, <1>5, <1>6 DEF PayloadKept, Nonce, ReceiptOf, ReceiptOfNext, OnTopic, OnTopicNext

\* A nonce carries one payload: whatever is published under it is what its receipt says.
THEOREM NonceBindsPayloadHolds == Spec => []NonceBindsPayload
<1>1. PayloadKept => NonceBindsPayload
  BY DEF PayloadKept, ReceiptOf, NonceBindsPayload
<1> QED
  BY <1>1, TypeInit, TypeStep, PayloadInit, PayloadStep, PTL DEF Spec

(***************************************************************************)
(* A live lease is in the receipt.                                         *)
(***************************************************************************)
LEMMA LeaseInit == Init => LeaseHeld
  BY DEF Init, LeaseHeld, Busy, Live, Working, ActiveStage, Idle

LEMMA ClockGrows ==
  ASSUME TypeOK, [Next]_vars
  PROVE  clock \in Nat /\ clock' \in Nat /\ clock <= clock'
<1>1. clock \in Nat
  BY WebhookAssumption DEF TypeOK
<1>2. clock' = clock \/ clock' = clock + 1
  BY DEF Next, Refuse, Authenticate, Consume, ConsumeFails, Claim, ClaimFails, Publish,
         PublishFails, MarkPublished, MarkFails, Release, Stop, Tick, vars
<1> QED
  BY <1>1, <1>2

\* Nobody but its holder ends a lease that runs: a claim was authenticated before the lease
\* runs out, and a mark or a release needs the lease id.
LEMMA LeaseStays ==
  ASSUME TypeInv, IdsUnique, LeaseHeld, [Next]_vars, NEW i \in Instances, Live(i),
         handler'[i].stage # "answered"
  PROVE  receipts'[Nonce(i)] = receipts[Nonce(i)]
<1> DEFINE n == Nonce(i)
<1>1. /\ receipts[n].state = "LEASED" /\ receipts[n].leaseId = handler[i].leaseId
      /\ receipts[n].leaseUntil = handler[i].authenticatedAt + LeaseTime
      /\ clock < handler[i].authenticatedAt + LeaseTime
      /\ Busy(i)
  BY DEF LeaseHeld, Live, Working, Busy, ActiveStage
<1>2. handler[i].authenticatedAt \in Nat /\ LeaseTime \in Nat /\ clock \in Nat
  BY <1>1, HandlerShape, WebhookAssumption, ReplayAssumption
  DEF Busy, Active, TypeInv, TypeOK
<1>3. ASSUME NEW j \in Instances, Nonce(j) = n, Leases(j) PROVE FALSE
  <2>1. handler[j].authenticatedAt <= clock /\ handler[j].authenticatedAt \in Nat
    BY <1>3, HandlerShape, WebhookAssumption
    DEF Leases, LeaseHeld, Busy, ActiveStage, Active, TypeInv
  <2>2. receipts[n].leaseUntil > ReplayClaim(handler[j]).now
    BY <1>1, <1>2, <2>1 DEF ReplayClaim
  <2>3. receipts[n] # NoReplay
    BY <1>1 DEF NoReplay
  <2> HIDE DEF n
  <2> QED
    BY <1>1, <1>3, <2>2, <2>3 DEF Leases, ClaimDecision
<1>4. ASSUME NEW j \in Instances, Nonce(j) = n, Marks(j) \/ Releases(j) PROVE FALSE
  <2>1. Busy(j) /\ handler[j].leaseId = receipts[n].leaseId
    BY <1>1, <1>4 DEF Marks, Releases, Busy, ActiveStage, Settles, LeaseOwner, ReplayClaim
  <2>2. i = j
    BY <1>1, <2>1 DEF IdsUnique
  <2> QED
    BY <1>4, <2>2 DEF Marks, Releases
<1>5. ASSUME NEW j \in Instances, Nonce(j) # n, Leases(j) \/ Marks(j) \/ Releases(j)
      PROVE  receipts'[n] = receipts[n]
  <2>1. n \in Nonces
    BY <1>1, HandlerShape DEF Busy, Nonce, TypeInv
  <2> QED
    BY <1>5, <2>1 DEF Leases, Marks, Releases, TypeInv, ReceiptsTyped
<1> QED
  BY <1>3, <1>4, <1>5, ReceiptWriters DEF TypeInv

LEMMA LeaseStep == TypeInv /\ IdsUnique /\ LeaseHeld /\ [Next]_vars => LeaseHeld'
<1> SUFFICES ASSUME TypeInv, IdsUnique, LeaseHeld, [Next]_vars PROVE LeaseHeld'
  OBVIOUS
<1>0. clock \in Nat /\ clock' \in Nat /\ clock <= clock'
  BY ClockGrows DEF TypeInv
<1>1. ASSUME NEW i \in Instances, Busy(i)' PROVE handler'[i].authenticatedAt <= clock'
  <2>1. CASE Enters(i)
    BY <1>0, <2>1 DEF Enters
  <2>2. CASE SameRequest(i)
    <3>1. handler[i].authenticatedAt \in Nat /\ handler[i].authenticatedAt <= clock
      BY <2>2, HandlerShape, WebhookAssumption DEF SameRequest, Busy, TypeInv, Active, LeaseHeld
    <3> QED
      BY <1>0, <2>2, <3>1 DEF SameRequest
  <2> QED
    BY <1>1, <2>1, <2>2, BusyMoves
<1>2. ASSUME NEW i \in Instances, Live(i)'
      PROVE  /\ receipts'[handler'[i].request.nonce].state = "LEASED"
             /\ receipts'[handler'[i].request.nonce].leaseId = handler'[i].leaseId
             /\ receipts'[handler'[i].request.nonce].leaseUntil
                  = handler'[i].authenticatedAt + LeaseTime
  <2>1. Busy(i)' /\ Claimed(i)' /\ handler'[i].stage # "answered"
    BY <1>2 DEF Live, Working, Busy, Claimed, ActiveStage
  <2>2. /\ SameRequest(i) /\ Nonce(i) \in Nonces /\ handler[i] \in Active
        /\ handler'[i] = handler[i] \/ Claims(i) \/ Publishes(i)
    <3>1. ASSUME SameRequest(i) PROVE Nonce(i) \in Nonces /\ handler[i] \in Active
      BY <3>1, HandlerShape DEF SameRequest, Busy, Nonce, TypeInv
    <3>2. ASSUME Enters(i) PROVE FALSE
      BY <2>1, <3>2 DEF Enters, Claimed
    <3>3. SameRequest(i) => ~Admitted(i)
      BY <2>1, <3>1 DEF Admitted, Claimed, Active
    <3> QED
      BY <2>1, <3>1, <3>2, <3>3, BusyMoves
  <2>3. CASE Claims(i)
    <3>1. receipts'[Nonce(i)] = LeasedReceipt(ReplayClaim(handler[i]))
      BY <2>2, <2>3 DEF Claims, Leases, TypeInv, ReceiptsTyped
    <3> QED
      BY <2>2, <3>1 DEF LeasedReceipt, ReplayClaim, SameRequest, Nonce
  <2>4. CASE handler'[i] = handler[i] \/ Publishes(i)
    <3>1. Live(i)
      <4>1. Working(i)
        BY <1>2, <2>4 DEF Live, Working, Publishes
      <4>2. handler[i].authenticatedAt \in Nat /\ LeaseTime \in Nat
        BY <2>2, WebhookAssumption, ReplayAssumption DEF Active
      <4>3. clock' < handler'[i].authenticatedAt + LeaseTime
        BY <1>2 DEF Live
      <4> QED
        BY <1>0, <2>2, <4>1, <4>2, <4>3 DEF Live, SameRequest
    <3>2. receipts'[Nonce(i)] = receipts[Nonce(i)]
      BY <2>1, <3>1, LeaseStays
    <3> QED
      BY <2>2, <3>1, <3>2 DEF LeaseHeld, SameRequest, Nonce
  <2> QED
    BY <2>2, <2>3, <2>4
<1> QED
  BY <1>1, <1>2 DEF LeaseHeld, Nonce

\* Two requests for a nonce are never both between their claim and its settlement while both
\* leases run, however long each waited between its authentication and its claim.
THEOREM OneLiveLeaseHolds == Spec => []OneLiveLease
<1>1. TypeInv /\ IdsUnique /\ LeaseHeld => OneLiveLease
  <2> SUFFICES ASSUME TypeInv, IdsUnique, LeaseHeld, NEW i \in Instances, NEW j \in Instances,
                      Working(i), Working(j), i # j, Nonce(i) = Nonce(j),
                      ~(handler[i].authenticatedAt + LeaseTime <= clock),
                      ~(handler[j].authenticatedAt + LeaseTime <= clock)
               PROVE  FALSE
    BY DEF OneLiveLease, Nonce
  <2>1. Busy(i) /\ Busy(j)
    BY DEF Working, Busy, ActiveStage
  <2>2. /\ handler[i].authenticatedAt \in Nat /\ handler[j].authenticatedAt \in Nat
        /\ LeaseTime \in Nat /\ clock \in Nat
    BY <2>1, HandlerShape, WebhookAssumption, ReplayAssumption DEF Busy, Active, TypeInv, TypeOK
  <2>3. Live(i) /\ Live(j)
    BY <2>2 DEF Live
  <2> QED
    BY <2>1, <2>3 DEF LeaseHeld, IdsUnique
<1> QED
  BY <1>1, TypeInit, TypeStep, IdsInit, IdsStep, LeaseInit, LeaseStep, PTL DEF Spec

(***************************************************************************)
(* ACCEPTED and DUPLICATE are only said of a published message.            *)
(***************************************************************************)
LEMMA AdvanceStage ==
  ASSUME HandlersTyped, NEW i \in Instances, handler[i].stage \in ActiveStage,
         NEW stage \in ActiveStage, Advance(i, stage)
  PROVE  handler'[i].stage = stage
BY AdvanceTyped, HandlerShape DEF HandlersTyped, Active

LEMMA AcceptedStep ==
  TypeInv /\ PayloadKept /\ AcceptedMeansPublished /\ [Next]_vars => AcceptedMeansPublished'
<1> SUFFICES ASSUME TypeInv, PayloadKept, AcceptedMeansPublished, [Next]_vars,
                    NEW i \in Instances, Status(i)' \in {"ACCEPTED", "DUPLICATE"}
             PROVE  OnTopicNext(handler'[i].request.nonce, handler'[i].request.event)
  BY DEF AcceptedMeansPublished, OnTopicNext
<1>0. ASSUME NEW nonce, NEW event, OnTopic(nonce, event) PROVE OnTopicNext(nonce, event)
  BY <1>0, TopicStays DEF OnTopic, OnTopicNext, TypeInv
<1>1. /\ handler'[i].stage = "answered"
      /\ handler'[i].status \in {"ACCEPTED", "DUPLICATE"}
  BY DEF Status
<1>2. CASE handler'[i] = handler[i]
  <2>1. OnTopic(handler[i].request.nonce, handler[i].request.event)
    BY <1>1, <1>2 DEF AcceptedMeansPublished, Status, OnTopic
  <2> QED
    BY <1>0, <1>2, <2>1
<1>3. CASE MarkPublished(i)
  <2>1. OnTopic(Nonce(i), handler[i].request.event)
    BY <1>3 DEF MarkPublished, PayloadKept
  <2>2. handler'[i].request = handler[i].request
    BY <1>3, <1>1 DEF MarkPublished, Answer, TypeInv, HandlersTyped
  <2> QED
    BY <1>0, <2>1, <2>2 DEF Nonce
<1>4. CASE Claim(i)
  <2>1. /\ handler'[i].request = handler[i].request
        /\ ClaimDecision(receipts[Nonce(i)], ReplayClaim(handler[i])) = "DUPLICATE"
    <3>1. ~Advance(i, "claimed")
      BY <1>1, <1>4, AdvanceStage DEF Claim, ActiveStage, TypeInv
    <3>2. \E status \in {"DUPLICATE", "REPLAY_IN_PROGRESS", "DEMO_PROVIDER_PROCESSING_FAILED"} :
            /\ Answer(i, status)
            /\ ClaimDecision(receipts[Nonce(i)], ReplayClaim(handler[i])) # "DUPLICATE"
                 => status # "DUPLICATE"
      BY <1>4, <3>1 DEF Claim, Receipt, Nonce
    <3> QED
      BY <1>1, <3>2 DEF Answer, TypeInv, HandlersTyped
  <2>2. Nonce(i) \in Nonces
    BY <1>4, HandlerShape DEF Claim, ActiveStage, Nonce, TypeInv
  <2>3. /\ receipts[Nonce(i)].state = "PUBLISHED"
        /\ receipts[Nonce(i)].semanticId = handler[i].request.event
    BY <2>1 DEF ClaimDecision, SameReplay, ReplayClaim
  <2>4. OnTopic(Nonce(i), handler[i].request.event)
    BY <2>2, <2>3 DEF PayloadKept
  <2> QED
    BY <1>0, <2>1, <2>4 DEF Nonce
<1>5. ASSUME NEW r \in Requests, Refuse(i, r) PROVE FALSE
  BY <1>1, <1>5, VerdictTyped DEF Refuse, TypeInv, HandlersTyped
<1>6. ASSUME \/ \E r \in Requests : Authenticate(i, r)
             \/ Consume(i) \/ ConsumeFails(i) \/ ClaimFails(i) \/ Publish(i) \/ PublishFails(i)
             \/ MarkFails(i) \/ Release(i) \/ Stop(i)
      PROVE  FALSE
  <2>1. ASSUME NEW status, Answer(i, status) PROVE handler'[i].status = status
    BY <2>1 DEF Answer, TypeInv, HandlersTyped
  <2>2. CASE Publish(i) \/ PublishFails(i)
    BY <1>1, <2>2, AdvanceStage DEF Publish, PublishFails, ActiveStage, TypeInv
  <2>3. CASE Consume(i)
    <3>1. handler[i] \in Active
      BY <2>3, HandlerShape DEF Consume, ActiveStage, TypeInv
    <3>2. ~Answer(i, "RATE_LIMITED")
      BY <1>1, <2>1
    <3>3. handler'[i] = [handler[i] EXCEPT !.stage = "admitted", !.window = WindowOf(clock)]
      BY <2>3, <3>2 DEF Consume, TypeInv, HandlersTyped
    <3> QED
      BY <1>1, <3>1, <3>3 DEF Active
  <2>4. CASE (\E r \in Requests : Authenticate(i, r)) \/ Stop(i)
    BY <1>1, <2>4 DEF Authenticate, Stop, Idle, TypeInv, HandlersTyped
  <2>5. CASE ConsumeFails(i) \/ ClaimFails(i) \/ MarkFails(i) \/ Release(i)
    BY <1>1, <2>1, <2>5 DEF ConsumeFails, ClaimFails, MarkFails, Release
  <2> QED
    BY <1>6, <2>2, <2>3, <2>4, <2>5
<1>7. ASSUME NEW j \in Instances, j # i,
             \/ \E r \in Requests : Refuse(j, r) \/ Authenticate(j, r)
             \/ Consume(j) \/ ConsumeFails(j) \/ Claim(j) \/ ClaimFails(j) \/ Publish(j)
             \/ PublishFails(j) \/ MarkPublished(j) \/ MarkFails(j) \/ Release(j) \/ Stop(j)
      PROVE  handler'[i] = handler[i]
  BY <1>7 DEF Refuse, Authenticate, Consume, ConsumeFails, Claim, ClaimFails, Publish,
              PublishFails, MarkPublished, MarkFails, Release, Stop, Advance, Answer,
              TypeInv, HandlersTyped
<1>8. CASE Tick \/ UNCHANGED vars
  BY <1>2, <1>8 DEF Tick, vars
<1> QED
  BY <1>2, <1>3, <1>4, <1>5, <1>6, <1>7, <1>8 DEF Next

\* A sender that is told ACCEPTED or DUPLICATE can stop sending: the event is on the topic.
THEOREM AcceptedMeansPublishedHolds == Spec => []AcceptedMeansPublished
<1>1. Init => AcceptedMeansPublished
  BY DEF Init, AcceptedMeansPublished, Status, Idle
<1> QED
  BY <1>1, TypeInit, TypeStep, PayloadInit, PayloadStep, AcceptedStep, PTL DEF Spec

(***************************************************************************)
(* The publications of a window were counted by the limiter.               *)
(***************************************************************************)
Drew(i, w) == handler[i].stage \in ActiveStage \ {"authenticated"} /\ handler[i].window = w

LEMMA DrawnElements ==
  ASSUME NEW w, NEW x
  PROVE  x \in Drawn(w) <=>
           \/ \E p \in published : p.window = w /\ p.leaseId = x
           \/ \E i \in Instances : Drew(i, w) /\ handler[i].leaseId = x
BY DEF Drawn, Drew

LEMMA DrawnFinite ==
  ASSUME TypeInv, IdsUnique, NEW w
  PROVE  IsFiniteSet(Drawn(w)) /\ Cardinality(Drawn(w)) \in Nat
<1>1. issued \in Nat /\ MaxLeases \in Nat /\ issued <= MaxLeases
  BY WebhookAssumption DEF TypeInv, TypeOK
<1>2. ASSUME NEW x \in Drawn(w) PROVE x \in 1..MaxLeases
  <2>1. ASSUME NEW i \in Instances, Drew(i, w) PROVE handler[i].leaseId \in 1..MaxLeases
    BY <2>1, HandlerShape DEF Drew, TypeInv, Active
  <2>2. ASSUME NEW p \in published PROVE p.leaseId \in 1..MaxLeases
    BY <1>1, <2>2 DEF IdsUnique
  <2> QED
    BY <1>2, <2>1, <2>2, DrawnElements
<1>3. IsFiniteSet(1..MaxLeases)
  BY <1>1, FS_Interval
<1>4. Drawn(w) \in SUBSET (1..MaxLeases)
  BY <1>2
<1> QED
  BY <1>3, <1>4, FS_Subset, FS_CardinalityType

LEMMA CountedInit == Init => Counted
<1> SUFFICES ASSUME Init, NEW w \in Windows PROVE Cardinality(Drawn(w)) <= counts[w]
  BY DEF Counted
<1>1. Drawn(w) = {}
  <2>1. ASSUME NEW x PROVE x \notin Drawn(w)
    BY DrawnElements DEF Init, Idle, Drew, ActiveStage
  <2> QED
    BY <2>1
<1> QED
  BY <1>1, FS_EmptySet DEF Init

\* Nobody draws from a window but a request that is admitted now, and it is counted.
LEMMA DrawnStep ==
  ASSUME TypeInv, [Next]_vars, NEW w \in Windows, NEW x, x \in Drawn(w)'
  PROVE  \/ x \in Drawn(w)
         \/ \E i \in Instances : Admitted(i) /\ w = WindowOf(clock) /\ x = handler[i].leaseId
<1>1. \/ \E p \in published' : p.window = w /\ p.leaseId = x
      \/ \E i \in Instances : /\ handler'[i].stage \in ActiveStage \ {"authenticated"}
                              /\ handler'[i].window = w /\ handler'[i].leaseId = x
  BY DEF Drawn
<1>2. ASSUME NEW i \in Instances, Publishes(i)
      PROVE  /\ Publication(handler[i]).window = w => Drew(i, w)
             /\ Publication(handler[i]).leaseId = handler[i].leaseId
             /\ handler'[i].window = handler[i].window
  <2>1. handler[i] \in Active
    BY <1>2, HandlerShape DEF Publishes, ActiveStage, TypeInv
  <2> QED
    BY <1>2, <2>1 DEF Publishes, Drew, Publication, ActiveStage, Active
<1>3. ASSUME NEW p \in published', p.window = w, p.leaseId = x PROVE x \in Drawn(w)
  <2>1. \/ p \in published
        \/ \E i \in Instances : Publishes(i) /\ p = Publication(handler[i])
    BY TopicGrows DEF TypeInv
  <2> QED
    BY <1>2, <1>3, <2>1, DrawnElements
<1>4. ASSUME NEW i \in Instances, handler'[i].stage \in ActiveStage \ {"authenticated"},
             handler'[i].window = w, handler'[i].leaseId = x
      PROVE  x \in Drawn(w) \/ (Admitted(i) /\ w = WindowOf(clock) /\ x = handler[i].leaseId)
  <2>1. Busy(i)'
    BY <1>4 DEF Busy
  <2>2. ASSUME Enters(i) PROVE FALSE
    BY <1>4, <2>2 DEF Enters
  <2>3. SameRequest(i) /\ handler[i] \in Active
    BY <2>1, <2>2, BusyMoves, HandlerShape DEF SameRequest, Busy, TypeInv
  <2>4. CASE Admitted(i)
    BY <1>4, <2>3, <2>4 DEF Admitted, Active
  <2>5. CASE Claims(i)
    <3>1. Drew(i, w)
      BY <1>4, <2>3, <2>5 DEF Claims, Leases, Active, ActiveStage, Drew
    <3> QED
      BY <1>4, <2>3, <3>1, DrawnElements DEF SameRequest
  <2>6. CASE Publishes(i)
    <3>1. Drew(i, w)
      BY <1>2, <1>4, <2>6 DEF Publishes, ActiveStage, Drew
    <3> QED
      BY <1>4, <2>3, <3>1, DrawnElements DEF SameRequest
  <2>7. CASE handler'[i] = handler[i]
    BY <1>4, <2>7, DrawnElements DEF Drew
  <2> QED
    BY <2>1, <2>2, <2>4, <2>5, <2>6, <2>7, BusyMoves
<1> QED
  BY <1>1, <1>3, <1>4

LEMMA CountedStep == TypeInv /\ IdsUnique /\ Counted /\ [Next]_vars => Counted'
<1> SUFFICES ASSUME TypeInv, IdsUnique, Counted, [Next]_vars, NEW w \in Windows
             PROVE  Cardinality(Drawn(w)') <= counts'[w]
  BY DEF Counted
<1>1. IsFiniteSet(Drawn(w)) /\ Cardinality(Drawn(w)) \in Nat
  BY DrawnFinite
<1>2. counts[w] \in Nat /\ Cardinality(Drawn(w)) <= counts[w]
  BY ReplayAssumption DEF Counted, TypeInv, TypeOK
<1>3. counts'[w] \in Nat /\ counts[w] <= counts'[w]
  <2>1. counts' = counts \/ /\ Admits(counts[WindowOf(clock)])
                            /\ counts' = [counts EXCEPT ![WindowOf(clock)] = @ + 1]
    BY DEF Next, Refuse, Authenticate, Consume, ConsumeFails, Claim, ClaimFails, Publish,
           PublishFails, MarkPublished, MarkFails, Release, Stop, Tick, vars
  <2> QED
    BY <1>2, <2>1, WindowTyped DEF TypeInv, TypeOK
<1>4. CASE Drawn(w)' \subseteq Drawn(w)
  <2>1. Cardinality(Drawn(w)') <= Cardinality(Drawn(w)) /\ Cardinality(Drawn(w)') \in Nat
    BY <1>1, <1>4, FS_Subset, FS_CardinalityType
  <2> QED
    BY <1>1, <1>2, <1>3, <2>1
<1>5. ASSUME NEW i \in Instances, Admitted(i), w = WindowOf(clock)
      PROVE  Cardinality(Drawn(w)') <= counts'[w]
  <2>1. ASSUME NEW j \in Instances, Admitted(j) PROVE handler'[j] # handler[j]
    <3>1. handler[j] \in Active
      BY <2>1, HandlerShape DEF Admitted, ActiveStage, TypeInv
    <3> QED
      BY <2>1, <3>1 DEF Admitted, Active
  <2>2. ASSUME NEW j \in Instances, Admitted(j) PROVE j = i
    BY <1>5, <2>1, <2>2, OneMoves DEF TypeInv
  <2> DEFINE D == Drawn(w) \cup {handler[i].leaseId}
  <2>3. Drawn(w)' \subseteq D
    BY <2>2, DrawnStep
  <2>4. IsFiniteSet(D) /\ Cardinality(D) \in Nat /\ Cardinality(D) <= Cardinality(Drawn(w)) + 1
    <3>1. /\ IsFiniteSet(D)
          /\ Cardinality(D) = IF handler[i].leaseId \in Drawn(w)
                               THEN Cardinality(Drawn(w)) ELSE Cardinality(Drawn(w)) + 1
      BY <1>1, FS_AddElement
    <3> HIDE DEF D
    <3> QED
      BY <1>1, <3>1
  <2>5. Cardinality(Drawn(w)') <= Cardinality(D) /\ Cardinality(Drawn(w)') \in Nat
    BY <2>3, <2>4, FS_Subset, FS_CardinalityType
  <2>6. counts'[w] = counts[w] + 1
    BY <1>5 DEF Admitted, TypeInv, TypeOK
  <2> HIDE DEF D
  <2> QED
    BY <1>1, <1>2, <2>4, <2>5, <2>6
<1> QED
  BY <1>4, <1>5, DrawnStep

\* The requests admitted in a window, however their publications end, put at most Limit
\* messages on the topic: each publication drew its own count.
THEOREM PublicationBudgetHolds == Spec => []PublicationBudget
<1>1. TypeInv /\ IdsUnique /\ Counted => PublicationBudget
  <2> SUFFICES ASSUME TypeInv, IdsUnique, Counted, NEW w \in Windows
               PROVE  Cardinality({ p \in published : p.window = w }) <= Limit
    BY DEF PublicationBudget
  <2> DEFINE S == { p \in published : p.window = w }
             f == [p \in S |-> p.leaseId]
  <2>1. f \in Injection(S, Drawn(w))
    <3>1. f \in [S -> Drawn(w)]
      BY DrawnElements
    <3>2. \A p, q \in S : f[p] = f[q] => p = q
      BY DEF IdsUnique
    <3> QED
      BY <3>1, <3>2 DEF Injection, IsInjective
  <2>2. IsFiniteSet(Drawn(w)) /\ Cardinality(Drawn(w)) \in Nat
    BY DrawnFinite
  <2>3. Cardinality(S) <= Cardinality(Drawn(w)) /\ Cardinality(S) \in Nat
    <3> HIDE DEF f, S
    <3> QED
      BY <2>1, <2>2, FS_Injection, FS_CardinalityType
  <2>4. counts[w] \in Nat /\ counts[w] <= Limit /\ Limit \in Nat
    BY ReplayAssumption DEF TypeInv, TypeOK
  <2> HIDE DEF S
  <2>5. Cardinality(S) <= Limit
    BY <2>2, <2>3, <2>4 DEF Counted
  <2> QED
    BY <2>5 DEF S
<1> QED
  BY <1>1, TypeInit, TypeStep, IdsInit, IdsStep, CountedInit, CountedStep, PTL DEF Spec
=============================================================================
