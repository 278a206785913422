----------------------------- MODULE DemoWebhook -----------------------------
(***************************************************************************)
(* The signed webhook of the demo provider, from the request to the        *)
(* broker.  Several web instances serve requests at once; a request goes   *)
(* through one await after another (authenticate, consume the rate limit,  *)
(* claim the nonce, publish, mark the nonce published or release it), and  *)
(* every other request may run in between.  Any of the remote calls may    *)
(* fail before or after it took effect, and an instance may stop anywhere. *)
(*                                                                         *)
(* The sender signs messages and sends each as often as it likes, at any   *)
(* time; a nonce may be reused for another message.                        *)
(***************************************************************************)
EXTENDS IngressReplay, FiniteSets

CONSTANTS
  Instances,     \* request handlers that run at once
  Requests,      \* HTTP requests that may arrive, see Request
  MaxAge,        \* oldest accepted timestamp (five minutes)
  MaxFutureSkew, \* furthest accepted future timestamp (one minute)
  MaxClock,      \* bound on time
  MaxLeases      \* bound on authenticated requests

\* media, length and utf8 say what readBoundedBody sees of a request; signed,
\* canonical what authenticate finds of its signature, schema and canonical form.
Request ==
  [media: BOOLEAN, length: {"fits", "malformed", "too_large"}, utf8: BOOLEAN,
   signed: BOOLEAN, canonical: BOOLEAN,
   nonce: STRING, event: STRING, body: STRING, timestamp: Nat]

ASSUME WebhookAssumption ==
  /\ Requests \subseteq Request
  /\ MaxAge \in Nat /\ MaxFutureSkew \in Nat /\ MaxClock \in Nat /\ MaxLeases \in Nat
  /\ IsFiniteSet(Instances)

Nonces == { r.nonce : r \in Requests }

VARIABLES
  clock,      \* the instances' time
  receipts,   \* nonce -> replay receipt
  counts,     \* window -> requests counted by the limiter
  handler,    \* instance -> the request it serves and how far it got
  published,  \* publications on the topic, one record each
  issued      \* lease ids generated so far

vars == <<clock, receipts, counts, handler, published, issued>>

Idle == [stage |-> "idle"]
Windows == 0..WindowOf(MaxClock)

-----------------------------------------------------------------------------
(***************************************************************************)
(* The checks before the first await of the route.                         *)
(***************************************************************************)
BodyVerdict(r) ==
  CASE ~r.media -> "UNSUPPORTED_MEDIA_TYPE"
    [] r.media /\ r.length = "malformed" -> "INVALID_REQUEST_BODY"
    [] r.media /\ r.length = "too_large" -> "REQUEST_TOO_LARGE"
    [] r.media /\ r.length = "fits" /\ ~r.utf8 -> "INVALID_REQUEST_BODY"
    [] OTHER -> "OK"

\* The adapter's own nonce map is created with the adapter, one per request: it is empty here.
Authenticates(r, now) ==
  /\ r.signed
  /\ r.canonical
  /\ now - r.timestamp <= MaxAge
  /\ r.timestamp - now <= MaxFutureSkew

Verdict(r, now) ==
  IF BodyVerdict(r) # "OK" THEN BodyVerdict(r)
  ELSE IF ~Authenticates(r, now) THEN "INVALID_DEMO_PROVIDER_REQUEST" ELSE "OK"

\* createReplayClaim
ReplayClaim(h) ==
  [digest |-> h.request.body, semanticId |-> h.request.event,
   leaseId |-> h.leaseId, now |-> h.authenticatedAt]

-----------------------------------------------------------------------------
TypeOK ==
  /\ clock \in 0..MaxClock
  /\ \A n \in DOMAIN receipts : receipts[n] = NoReplay \/ receipts[n].state \in ReplayState
  /\ DOMAIN receipts = Nonces
  /\ counts \in [Windows -> 0..Limit]
  /\ issued \in 0..MaxLeases
  /\ \A i \in Instances : handler[i].stage \in
       {"idle", "authenticated", "admitted", "claimed", "failing", "published", "answered"}

Init ==
  /\ clock = 0
  /\ receipts = [n \in Nonces |-> NoReplay]
  /\ counts = [w \in Windows |-> 0]
  /\ handler = [i \in Instances |-> Idle]
  /\ published = {}
  /\ issued = 0

Answer(i, status) ==
  handler' = [handler EXCEPT ![i] =
    [stage |-> "answered", request |-> handler[i].request, status |-> status]]

Advance(i, stage) == handler' = [handler EXCEPT ![i].stage = stage]

Receipt(i) == receipts[handler[i].request.nonce]
Store(i, receipt) == receipts' = [receipts EXCEPT ![handler[i].request.nonce] = receipt]

Free(i) == handler[i].stage \in {"idle", "answered"}

\* The request is refused before anything is read or written.
Refuse(i, r) ==
  /\ Free(i)
  /\ Verdict(r, clock) # "OK"
  /\ handler' = [handler EXCEPT ![i] =
       [stage |-> "answered", request |-> r, status |-> Verdict(r, clock)]]
  /\ UNCHANGED <<clock, receipts, counts, published, issued>>

Authenticate(i, r) ==
  /\ Free(i)
  /\ issued < MaxLeases
  /\ Verdict(r, clock) = "OK"
  /\ issued' = issued + 1
  /\ handler' = [handler EXCEPT ![i] =
       [stage |-> "authenticated", request |-> r, authenticatedAt |-> clock,
        leaseId |-> issued', window |-> 0]]
  /\ UNCHANGED <<clock, receipts, counts, published>>

Consume(i) ==
  LET w == WindowOf(clock)
  IN /\ handler[i].stage = "authenticated"
     /\ IF Admits(counts[w])
        THEN /\ counts' = [counts EXCEPT ![w] = @ + 1]
             /\ handler' = [handler EXCEPT ![i].stage = "admitted", ![i].window = w]
        ELSE /\ Answer(i, "RATE_LIMITED")
             /\ UNCHANGED counts
     /\ UNCHANGED <<clock, receipts, published, issued>>

\* The limiter's transaction fails, possibly after it counted the request.
ConsumeFails(i) ==
  LET w == WindowOf(clock)
  IN /\ handler[i].stage = "authenticated"
     /\ \/ UNCHANGED counts
        \/ Admits(counts[w]) /\ counts' = [counts EXCEPT ![w] = @ + 1]
     /\ Answer(i, "RATE_LIMIT_UNAVAILABLE")
     /\ UNCHANGED <<clock, receipts, published, issued>>

Claim(i) ==
  LET c == ReplayClaim(handler[i])
      decision == ClaimDecision(Receipt(i), c)
  IN /\ handler[i].stage = "admitted"
     /\ CASE decision = "CLAIMED" -> Store(i, LeasedReceipt(c)) /\ Advance(i, "claimed")
          [] decision = "DUPLICATE" -> Answer(i, "DUPLICATE") /\ UNCHANGED receipts
          [] decision = "IN_PROGRESS" -> Answer(i, "REPLAY_IN_PROGRESS") /\ UNCHANGED receipts
          [] OTHER -> Answer(i, "DEMO_PROVIDER_PROCESSING_FAILED") /\ UNCHANGED receipts
     /\ UNCHANGED <<clock, counts, published, issued>>

\* The claim fails, possibly after it was stored: nobody will settle that lease.
ClaimFails(i) ==
  LET c == ReplayClaim(handler[i])
  IN /\ handler[i].stage = "admitted"
     /\ \/ UNCHANGED receipts
        \/ ClaimDecision(Receipt(i), c) = "CLAIMED" /\ Store(i, LeasedReceipt(c))
     /\ Answer(i, "DEMO_PROVIDER_PROCESSING_FAILED")
     /\ UNCHANGED <<clock, counts, published, issued>>

Publication(h) ==
  [nonce |-> h.request.nonce, event |-> h.request.event, body |-> h.request.body,
   leaseId |-> h.leaseId, window |-> h.window, receivedAt |-> h.authenticatedAt]

Publish(i) ==
  /\ handler[i].stage = "claimed"
  /\ published' = published \cup {Publication(handler[i])}
  /\ Advance(i, "published")
  /\ UNCHANGED <<clock, receipts, counts, issued>>

\* The broker refuses, or takes the message and the confirmation is lost.
PublishFails(i) ==
  /\ handler[i].stage = "claimed"
  /\ published' \in {published, published \cup {Publication(handler[i])}}
  /\ Advance(i, "failing")
  /\ UNCHANGED <<clock, receipts, counts, issued>>

MarkPublished(i) ==
  /\ handler[i].stage = "published"
  /\ IF Settles(Receipt(i), ReplayClaim(handler[i]))
     THEN Store(i, MarkedPublished(Receipt(i))) /\ Answer(i, "ACCEPTED")
     ELSE Answer(i, "DEMO_PROVIDER_PROCESSING_FAILED") /\ UNCHANGED receipts
  /\ UNCHANGED <<clock, counts, published, issued>>

\* The mark fails, possibly after it was stored; the lease is kept (published is already true).
MarkFails(i) ==
  /\ handler[i].stage = "published"
  /\ \/ UNCHANGED receipts
     \/ /\ Settles(Receipt(i), ReplayClaim(handler[i]))
        /\ Store(i, MarkedPublished(Receipt(i)))
  /\ Answer(i, "DEMO_PROVIDER_PROCESSING_FAILED")
  /\ UNCHANGED <<clock, counts, published, issued>>

\* Errors of the release are swallowed: it is stored or it is not.
Release(i) ==
  LET c == ReplayClaim(handler[i])
  IN /\ handler[i].stage = "failing"
     /\ \/ Settles(Receipt(i), c) /\ Store(i, Released(Receipt(i), c))
        \/ UNCHANGED receipts
     /\ Answer(i, "DEMO_PROVIDER_PROCESSING_FAILED")
     /\ UNCHANGED <<clock, counts, published, issued>>

Stop(i) ==
  /\ ~Free(i)
  /\ handler' = [handler EXCEPT ![i] = Idle]
  /\ UNCHANGED <<clock, receipts, counts, published, issued>>

Tick ==
  /\ clock < MaxClock
  /\ clock' = clock + 1
  /\ UNCHANGED <<receipts, counts, handler, published, issued>>

Next ==
  \/ Tick
  \/ \E i \in Instances :
       \/ \E r \in Requests : Refuse(i, r) \/ Authenticate(i, r)
       \/ Consume(i) \/ ConsumeFails(i)
       \/ Claim(i) \/ ClaimFails(i)
       \/ Publish(i) \/ PublishFails(i)
       \/ MarkPublished(i) \/ MarkFails(i) \/ Release(i)
       \/ Stop(i)

Spec == Init /\ [][Next]_vars

-----------------------------------------------------------------------------
Status(i) == IF handler[i].stage = "answered" THEN handler[i].status ELSE "NONE"
Working(i) == handler[i].stage \in {"claimed", "published"}

\* A sender that was told ACCEPTED or DUPLICATE never sends the message again, so its event
\* is on the topic: the duplicate is recognised from a receipt that only a publisher marks.
AcceptedMeansPublished ==
  \A i \in Instances : Status(i) \in {"ACCEPTED", "DUPLICATE"} =>
    \E p \in published : p.nonce = handler[i].request.nonce /\ p.event = handler[i].request.event

\* One live lease exists per nonce: two requests for a nonce are never both between their
\* claim and its settlement while neither lease has run out, however long the request
\* waited between its authentication (whose time starts the lease) and its claim.
OneLiveLease ==
  \A i, j \in Instances :
    /\ Working(i) /\ Working(j) /\ i # j
    /\ handler[i].request.nonce = handler[j].request.nonce
    => handler[i].authenticatedAt + LeaseTime <= clock
         \/ handler[j].authenticatedAt + LeaseTime <= clock

\* A nonce carries one payload: two publications under a nonce are of the same body and
\* event, so a nonce reused for another message fails closed whatever happened to the
\* request that used it first (released, expired, lost its answer).
NonceBindsPayload ==
  \A p, q \in published : p.nonce = q.nonce => p.body = q.body /\ p.event = q.event

\* The requests admitted in one window put at most Limit messages on the topic, counting the
\* publications whose outcome the route never learned.
PublicationBudget ==
  \A w \in Windows : Cardinality({ p \in published : p.window = w }) <= Limit

\* An accepted nonce stays accepted: once a receipt is PUBLISHED no claim, mark or release,
\* however late, changes it.
PublishedIsFinal ==
  [][\A n \in Nonces : receipts[n].state = "PUBLISHED" => receipts'[n] = receipts[n]]_vars
==============================================================================
