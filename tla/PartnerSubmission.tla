--------------------------- MODULE PartnerSubmission ---------------------------
(***************************************************************************)
(* A scoped partner request from its creation to the event the engine      *)
(* consumes.  The portal (web) passes the token and the structured answer  *)
(* to the private engine, which checks the token, reads the case version,  *)
(* reserves the token for the event of this answer and marks it published; *)
(* the portal then puts the event on the topic.  Every step is an await:   *)
(* other submissions, other commits to the case and the token's expiry may *)
(* fall between any two, and portal, engine and broker may fail.           *)
(*                                                                         *)
(* The event of an answer is identified by request and answer (the digest  *)
(* of the response).                                                       *)
(***************************************************************************)
EXTENDS Integers, FiniteSets

CONSTANTS
  Portals,      \* portal requests served at once
  Requests,     \* partner requests of the case
  Tokens,       \* tokens that may be presented; the token of a request is its name
  Responses,    \* structured answers a partner may send
  Lifetime,     \* how long a token lives (thirty minutes)
  MaxClock,     \* bound on time
  MaxVersion    \* bound on the case version

CONSTANT None

ASSUME SubmissionAssumption ==
  /\ None \notin Responses /\ Requests \subseteq Tokens
  /\ Lifetime \in Nat \ {0} /\ MaxClock \in Nat /\ MaxVersion \in Nat \ {0}

VARIABLES
  clock,     \* the time of web and engine
  version,   \* the version of the case
  receipts,  \* request -> its token receipt
  portal,    \* portal -> the submission it serves and how far it got
  topic,     \* events the broker took: request, answer, timestamp
  recorded,  \* events the engine committed
  reopened,  \* history: requests whose submission was released
  cut        \* history: requests whose submission failed while they were reserved

vars == <<clock, version, receipts, portal, topic, recorded, reopened, cut>>

ReceiptState == {"OPEN", "RESERVED", "PUBLISHED", "FAILED_RETRYABLE"}
Absent == [state |-> "ABSENT", event |-> None, expiresAt |-> 0]
Idle == [stage |-> "idle"]
Event == [request: Requests, response: Responses, stamp: 0..MaxClock]

TypeOK ==
  /\ clock \in 0..MaxClock
  /\ version \in 1..MaxVersion
  /\ receipts \in [Requests ->
       {Absent} \cup [state: ReceiptState, event: Responses \cup {None}, expiresAt: Nat]]
  /\ \A r \in Requests : receipts[r].state \in {"RESERVED", "PUBLISHED"} => receipts[r].event # None
  /\ \A p \in Portals : portal[p].stage \in
       {"idle", "admitted", "validated", "loaded", "reserved", "prepared", "answered"}
  /\ topic \subseteq Event /\ recorded \subseteq Event
  /\ reopened \subseteq Requests /\ cut \subseteq Requests

Init ==
  /\ clock = 0
  /\ version = 1
  /\ receipts = [r \in Requests |-> Absent]
  /\ portal = [p \in Portals |-> Idle]
  /\ topic = {}
  /\ recorded = {}
  /\ reopened = {}
  /\ cut = {}

-----------------------------------------------------------------------------
(***************************************************************************)
(* The token policy and the three receipt transactions.                    *)
(***************************************************************************)
\* validatePartnerTokenAccess for the portal page and for a submission, which may also
\* repeat a published one.
TokenUsable(r, token) ==
  /\ receipts[r] # Absent
  /\ token = r
  /\ receipts[r].state \in {"OPEN", "FAILED_RETRYABLE"}
  /\ clock < receipts[r].expiresAt

TokenSubmits(r, token) ==
  \/ TokenUsable(r, token)
  \/ /\ receipts[r].state = "PUBLISHED" /\ token = r
     /\ clock < receipts[r].expiresAt

\* Mutant: the reservation does not look at the expiry again.
ReservableUnexpired(receipt, a, expected, stamp) ==
  /\ expected = version
  /\ \/ receipt.state \in {"RESERVED", "PUBLISHED"} /\ receipt.event = a
     \/ receipt.state \in {"OPEN", "FAILED_RETRYABLE"}

\* Mutant: a reserved token may be reserved again for another answer.
ReservableAgain(receipt, a, expected, stamp) ==
  /\ expected = version
  /\ stamp < receipt.expiresAt
  /\ receipt.state # "ABSENT"

\* applyPartnerSubmissionReservation: COMMITTED, without a write when the token already
\* carries this very event.
Reservable(receipt, a, expected, stamp) ==
  /\ expected = version
  /\ stamp < receipt.expiresAt
  /\ \/ receipt.state \in {"RESERVED", "PUBLISHED"} /\ receipt.event = a
     \/ receipt.state \in {"OPEN", "FAILED_RETRYABLE"}

\* Mutant: the reservation does not note the event it is for.
ReservedNameless(receipt, a) == [receipt EXCEPT !.state = "RESERVED"]

Reserved(receipt, a) ==
  IF receipt.state \in {"RESERVED", "PUBLISHED"} /\ receipt.event = a THEN receipt
  ELSE [receipt EXCEPT !.state = "RESERVED", !.event = a]

\* Publication and release share their guard.
Submitted(receipt, a) == receipt.state \in {"RESERVED", "PUBLISHED"} /\ receipt.event = a

-----------------------------------------------------------------------------
\* createPartnerRequest committed against the current case version.
OpenRequest(r) ==
  /\ receipts[r] = Absent
  /\ receipts' = [receipts EXCEPT ![r] =
       [state |-> "OPEN", event |-> None, expiresAt |-> clock + Lifetime]]
  /\ UNCHANGED <<clock, version, portal, topic, recorded, reopened, cut>>

Free(p) == portal[p].stage \in {"idle", "answered"}
Go(p, stage) == portal' = [portal EXCEPT ![p].stage = stage]
Answer(p, status) ==
  portal' = [portal EXCEPT ![p] =
    [stage |-> "answered", request |-> portal[p].request, response |-> portal[p].response,
     status |-> status]]

\* The portal page reads the context of the request, and changes nothing else.
Access(p, r, token) ==
  /\ Free(p)
  /\ portal' = [portal EXCEPT ![p] =
       [stage |-> "answered", request |-> r, response |-> None,
        status |-> IF TokenUsable(r, token) THEN "CONTEXT" ELSE "PORTAL_ACCESS_UNAVAILABLE"]]
  /\ UNCHANGED <<clock, version, receipts, topic, recorded, reopened, cut>>

\* The body is well formed and the rate limiter let the submission through.
Submit(p, r, token, a) ==
  /\ Free(p)
  /\ portal' = [portal EXCEPT ![p] =
       [stage |-> "admitted", request |-> r, response |-> a, token |-> token]]
  /\ UNCHANGED <<clock, version, receipts, topic, recorded, reopened, cut>>

\* loadPartnerRequest and the access check at the time of the load.
Validate(p) ==
  /\ portal[p].stage = "admitted"
  /\ IF TokenSubmits(portal[p].request, portal[p].token)
       THEN Go(p, "validated")
       ELSE Answer(p, "PORTAL_SUBMISSION_UNAVAILABLE")
  /\ UNCHANGED <<clock, version, receipts, topic, recorded, reopened, cut>>

\* loadCaseBundle, and the timestamp the rest of the submission uses.
LoadCase(p) ==
  /\ portal[p].stage = "validated"
  /\ portal' = [portal EXCEPT ![p] =
       [stage |-> "loaded", request |-> portal[p].request, response |-> portal[p].response,
        expected |-> version, stamp |-> clock]]
  /\ UNCHANGED <<clock, version, receipts, topic, recorded, reopened, cut>>

Reserve(p) ==
  LET s == portal[p]
      receipt == receipts[s.request]
  IN /\ s.stage = "loaded"
     /\ IF Reservable(receipt, s.response, s.expected, s.stamp)
          THEN /\ receipts' = [receipts EXCEPT ![s.request] = Reserved(receipt, s.response)]
               /\ Go(p, "reserved")
          ELSE Answer(p, "PORTAL_SUBMISSION_UNAVAILABLE") /\ UNCHANGED receipts
     /\ UNCHANGED <<clock, version, topic, recorded, reopened, cut>>

\* Mutant: the event goes out from a receipt that still says RESERVED.
MarkNothing(p) ==
  /\ portal[p].stage = "reserved"
  /\ Go(p, "prepared")
  /\ UNCHANGED <<clock, version, receipts, topic, recorded, reopened, cut>>

Mark(p) ==
  LET s == portal[p]
      receipt == receipts[s.request]
  IN /\ s.stage = "reserved"
     /\ IF Submitted(receipt, s.response)
          THEN /\ receipts' = [receipts EXCEPT ![s.request].state = "PUBLISHED"]
               /\ Go(p, "prepared")
          ELSE Answer(p, "PORTAL_SUBMISSION_UNAVAILABLE") /\ UNCHANGED receipts
     /\ UNCHANGED <<clock, version, topic, recorded, reopened, cut>>

\* A step of the engine fails, or its reply is lost: the gateway reads any failure as null.
\* What the engine stored stays stored.
EngineFails(p) ==
  /\ portal[p].stage \in {"admitted", "validated", "loaded", "reserved", "prepared"}
  /\ cut' = IF portal[p].stage = "reserved" THEN cut \cup {portal[p].request} ELSE cut
  /\ Answer(p, "PORTAL_SUBMISSION_UNAVAILABLE")
  /\ UNCHANGED <<clock, version, receipts, topic, recorded, reopened>>

SubmissionEvent(s) == [request |-> s.request, response |-> s.response, stamp |-> s.stamp]

Publish(p) ==
  /\ portal[p].stage = "prepared"
  /\ topic' = topic \cup {SubmissionEvent(portal[p])}
  /\ Answer(p, "ACCEPTED")
  /\ UNCHANGED <<clock, version, receipts, recorded, reopened, cut>>

\* Mutant: an uncertain publication gives the token back.
PublishUncertainReleasing(p) ==
  /\ portal[p].stage = "prepared"
  /\ topic' = topic \cup {SubmissionEvent(portal[p])}
  /\ receipts' = [receipts EXCEPT ![portal[p].request].state = "FAILED_RETRYABLE"]
  /\ Answer(p, "PORTAL_SUBMISSION_UNAVAILABLE")
  /\ UNCHANGED <<clock, version, recorded, reopened, cut>>

\* The broker took the message and the confirmation was lost (a message it did not take is
\* EngineFails): the receipt stays PUBLISHED.
PublishUncertain(p) ==
  /\ portal[p].stage = "prepared"
  /\ topic' = topic \cup {SubmissionEvent(portal[p])}
  /\ Answer(p, "PORTAL_SUBMISSION_UNAVAILABLE")
  /\ UNCHANGED <<clock, version, receipts, recorded, reopened, cut>>

\* The release operation of the internal route, which nothing in the web service calls.
Release(r, a) ==
  /\ Submitted(receipts[r], a)
  /\ receipts' = [receipts EXCEPT ![r].state = "FAILED_RETRYABLE"]
  /\ reopened' = reopened \cup {r}
  /\ UNCHANGED <<clock, version, portal, topic, recorded, cut>>

\* processPartnerEvent records a delivery whose receipt is PUBLISHED for it, once.
Consumable(e) ==
  receipts[e.request].state = "PUBLISHED" /\ receipts[e.request].event = e.response

Deliver(e) ==
  /\ e \in topic
  /\ version < MaxVersion
  /\ \A f \in recorded : <<f.request, f.response>> # <<e.request, e.response>>
  /\ Consumable(e)
  /\ recorded' = recorded \cup {e}
  /\ version' = version + 1
  /\ UNCHANGED <<clock, receipts, portal, topic, reopened, cut>>

OtherCommit ==
  /\ version < MaxVersion
  /\ version' = version + 1
  /\ UNCHANGED <<clock, receipts, portal, topic, recorded, reopened, cut>>

Tick ==
  /\ clock < MaxClock
  /\ clock' = clock + 1
  /\ UNCHANGED <<version, receipts, portal, topic, recorded, reopened, cut>>

PortalStep(p) ==
  \/ Validate(p) \/ LoadCase(p) \/ Reserve(p) \/ Mark(p)
  \/ EngineFails(p) \/ Publish(p) \/ PublishUncertain(p)

Next ==
  \/ Tick \/ OtherCommit
  \/ \E r \in Requests : OpenRequest(r) \/ \E a \in Responses : Release(r, a)
  \/ \E p \in Portals :
       \/ PortalStep(p)
       \/ \E r \in Requests, token \in Tokens :
            Access(p, r, token) \/ \E a \in Responses : Submit(p, r, token, a)
  \/ \E e \in topic : Deliver(e)

Spec == Init /\ [][Next]_vars

-----------------------------------------------------------------------------
\* What went out stays consumable: every event on the topic belongs to a receipt that is
\* PUBLISHED for it, whether or not the portal learned the broker's answer, so its delivery
\* is recorded; unless the release operation reopened the request.
TopicConsumable == \A e \in topic : e.request \in reopened \/ Consumable(e)

\* No answer is made after the token's expiry: the timestamp of an event on the topic lies
\* before it, also when the check and the reservation straddle the expiry.
AnsweredInTime == \A e \in topic : e.stamp < receipts[e.request].expiresAt

\* A token stays RESERVED, which refuses every further submission, only while a submission
\* is about to mark it, or because one was cut off right there: a lost race, a refused
\* reservation or a commit by somebody else never strands a partner's request.
StrandedOnlyByFailure ==
  \A r \in Requests :
    receipts[r].state = "RESERVED" =>
      r \in cut \/ \E p \in Portals : portal[p].stage = "reserved" /\ portal[p].request = r

\* The portal implements ScopedAnswer: the answer a receipt carries is the bound one.
Abstract == INSTANCE ScopedAnswer WITH
  bound   <- [r \in Requests |-> receipts[r].event],
  emitted <- { <<e.request, e.response>> : e \in topic }

\* A request is answered once: the first reservation binds the answer, and only that answer
\* is ever published for the request, unless it was reopened.
OneAnswerPerRequest == Abstract!Spec
==============================================================================
