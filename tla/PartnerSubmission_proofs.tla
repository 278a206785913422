----------------------- MODULE PartnerSubmission_proofs -----------------------
(***************************************************************************)
(* Theorems about PartnerSubmission, for every set of portals, requests    *)
(* and answers, and for every bound on time and version: its safety        *)
(* invariants, and that it implements ScopedAnswer.                        *)
(***************************************************************************)
EXTENDS PartnerSubmission, TLAPS

(***************************************************************************)
(* Types.  What a portal holds depends on how far its submission got.      *)
(***************************************************************************)
Admitted == [stage: {"admitted", "validated"}, request: Requests, response: Responses,
             token: Tokens]
Loaded == [stage: {"loaded", "reserved", "prepared"}, request: Requests, response: Responses,
           expected: 1..MaxVersion, stamp: 0..MaxClock]
Answered == [stage: {"answered"}, request: Requests, response: Responses \cup {None},
             status: {"CONTEXT", "ACCEPTED", "PORTAL_ACCESS_UNAVAILABLE",
                      "PORTAL_SUBMISSION_UNAVAILABLE"}]

PortalsTyped == portal \in [Portals -> {Idle} \cup Admitted \cup Loaded \cup Answered]

TypeInv == TypeOK /\ PortalsTyped

LEMMA PortalShape ==
  ASSUME PortalsTyped, NEW p \in Portals
  PROVE  /\ portal[p].stage \in {"admitted", "validated"} => portal[p] \in Admitted
         /\ portal[p].stage \in {"loaded", "reserved", "prepared"} => portal[p] \in Loaded
         /\ portal[p].stage \in {"admitted", "validated", "loaded", "reserved", "prepared"} =>
              portal[p].request \in Requests /\ portal[p].response \in Responses
  BY DEF PortalsTyped, Idle, Admitted, Loaded, Answered

LEMMA ReceiptShape ==
  ASSUME TypeOK, NEW r \in Requests, receipts[r].state # "ABSENT"
  PROVE  receipts[r] \in [state: ReceiptState, event: Responses \cup {None}, expiresAt: Nat]
  BY DEF TypeOK, Absent

LEMMA TypeInit == Init => TypeInv
  BY SubmissionAssumption DEF Init, TypeInv, TypeOK, PortalsTyped, Absent, Idle

\* The two ways in which a portal moves on.
LEMMA GoTyped ==
  ASSUME PortalsTyped, NEW p \in Portals, NEW stage, Go(p, stage),
         \/ portal[p].stage = "admitted" /\ stage = "validated"
         \/ portal[p].stage \in {"loaded", "reserved"} /\ stage \in {"reserved", "prepared"}
  PROVE  PortalsTyped'
<1>1. portal'[p] = [portal[p] EXCEPT !.stage = stage]
  BY DEF Go, PortalsTyped
<1>2. portal'[p] \in Admitted \cup Loaded
  <2>1. CASE portal[p].stage = "admitted" /\ stage = "validated"
    BY <1>1, <2>1, PortalShape DEF Admitted
  <2>2. CASE portal[p].stage \in {"loaded", "reserved"} /\ stage \in {"reserved", "prepared"}
    BY <1>1, <2>2, PortalShape DEF Loaded
  <2> QED
    BY <2>1, <2>2
<1> QED
  BY <1>1, <1>2 DEF Go, PortalsTyped

LEMMA AnswerTyped ==
  ASSUME PortalsTyped, NEW p \in Portals, NEW status, Answer(p, status),
         status \in {"ACCEPTED", "PORTAL_SUBMISSION_UNAVAILABLE"},
         portal[p].stage \in {"admitted", "validated", "loaded", "reserved", "prepared"}
  PROVE  PortalsTyped'
<1>1. portal[p].request \in Requests /\ portal[p].response \in Responses
  BY PortalShape
<1>2. [stage |-> "answered", request |-> portal[p].request,
       response |-> portal[p].response, status |-> status] \in Answered
  BY <1>1 DEF Answered
<1> QED
  BY <1>2 DEF Answer, PortalsTyped

\* A receipt that is written keeps its type and its expiry.
LEMMA ReservedTyped ==
  ASSUME TypeOK, NEW r \in Requests, NEW a \in Responses, NEW expected, NEW stamp,
         Reservable(receipts[r], a, expected, stamp)
  PROVE  /\ Reserved(receipts[r], a) \in
              [state: ReceiptState, event: Responses \cup {None}, expiresAt: Nat]
         /\ Reserved(receipts[r], a).state \in {"RESERVED", "PUBLISHED"}
         /\ Reserved(receipts[r], a).event = a
         /\ Reserved(receipts[r], a).expiresAt = receipts[r].expiresAt
<1>1. receipts[r] \in [state: ReceiptState, event: Responses \cup {None}, expiresAt: Nat]
  BY ReceiptShape DEF Reservable
<1> QED
  BY <1>1 DEF Reserved, Reservable, ReceiptState

LEMMA TypeStep == TypeInv /\ [Next]_vars => TypeInv'
<1> SUFFICES ASSUME TypeOK, PortalsTyped, [Next]_vars PROVE TypeOK' /\ PortalsTyped'
  BY DEF TypeInv
<1> USE SubmissionAssumption
<1>1. CASE Tick
  BY <1>1 DEF Tick, TypeOK, PortalsTyped
<1>2. CASE OtherCommit
  BY <1>2 DEF OtherCommit, TypeOK, PortalsTyped
<1>3. ASSUME NEW r \in Requests, OpenRequest(r) PROVE TypeOK' /\ PortalsTyped'
  <2>1. [state |-> "OPEN", event |-> None, expiresAt |-> clock + Lifetime]
          \in [state: ReceiptState, event: Responses \cup {None}, expiresAt: Nat]
    BY DEF TypeOK, ReceiptState
  <2> QED
    BY <1>3, <2>1 DEF OpenRequest, TypeOK, PortalsTyped
<1>4. ASSUME NEW r \in Requests, NEW a \in Responses, Release(r, a)
      PROVE  TypeOK' /\ PortalsTyped'
  <2>1. [receipts[r] EXCEPT !.state = "FAILED_RETRYABLE"]
          \in [state: {"FAILED_RETRYABLE"}, event: Responses \cup {None}, expiresAt: Nat]
    BY <1>4, ReceiptShape DEF Release, Submitted
  <2> QED
    BY <1>4, <2>1 DEF Release, TypeOK, PortalsTyped, ReceiptState
<1>5. ASSUME NEW p \in Portals, NEW r \in Requests, NEW token \in Tokens, Access(p, r, token)
      PROVE  TypeOK' /\ PortalsTyped'
  <2>1. portal'[p] \in Answered
    BY <1>5 DEF Access, PortalsTyped, Answered
  <2> QED
    BY <1>5, <2>1 DEF Access, TypeOK, PortalsTyped, Answered
<1>6. ASSUME NEW p \in Portals, NEW r \in Requests, NEW token \in Tokens, NEW a \in Responses,
             Submit(p, r, token, a)
      PROVE  TypeOK' /\ PortalsTyped'
  <2>1. portal'[p] \in Admitted
    BY <1>6 DEF Submit, PortalsTyped, Admitted
  <2> QED
    BY <1>6, <2>1 DEF Submit, TypeOK, PortalsTyped, Admitted
<1>7. ASSUME NEW p \in Portals, PortalStep(p) PROVE PortalsTyped'
  <2>1. CASE Validate(p)
    BY <2>1, GoTyped, AnswerTyped DEF Validate
  <2>2. CASE LoadCase(p)
    <3>1. portal'[p] \in Loaded
      BY <2>2, PortalShape DEF LoadCase, TypeOK, PortalsTyped, Loaded
    <3> QED
      BY <2>2, <3>1 DEF LoadCase, PortalsTyped
  <2>3. CASE Reserve(p)
    BY <2>3, GoTyped, AnswerTyped DEF Reserve
  <2>4. CASE Mark(p)
    BY <2>4, GoTyped, AnswerTyped DEF Mark
  <2>5. CASE EngineFails(p)
    BY <2>5, AnswerTyped DEF EngineFails
  <2>6. CASE Publish(p) \/ PublishUncertain(p)
    BY <2>6, AnswerTyped DEF Publish, PublishUncertain
  <2> QED
    BY <1>7, <2>1, <2>2, <2>3, <2>4, <2>5, <2>6 DEF PortalStep
<1>8. ASSUME NEW p \in Portals, PortalStep(p) PROVE TypeOK'
  <2>1. \A q \in Portals : portal'[q].stage \in
          {"idle", "admitted", "validated", "loaded", "reserved", "prepared", "answered"}
    BY <1>7, <1>8 DEF PortalsTyped, Idle, Admitted, Loaded, Answered
  <2>2. CASE Validate(p) \/ LoadCase(p)
    BY <2>1, <2>2 DEF Validate, LoadCase, TypeOK
  <2>3. CASE Reserve(p)
    <3>1. portal[p].request \in Requests /\ portal[p].response \in Responses
      BY <2>3, PortalShape DEF Reserve
    <3>2. CASE UNCHANGED receipts
      BY <2>1, <2>3, <3>2 DEF Reserve, TypeOK
    <3>3. CASE /\ Reservable(receipts[portal[p].request], portal[p].response,
                             portal[p].expected, portal[p].stamp)
               /\ receipts' = [receipts EXCEPT ![portal[p].request] =
                                 Reserved(receipts[portal[p].request], portal[p].response)]
      <4>1. /\ Reserved(receipts[portal[p].request], portal[p].response) \in
                 [state: ReceiptState, event: Responses \cup {None}, expiresAt: Nat]
            /\ Reserved(receipts[portal[p].request], portal[p].response).event # None
        BY <3>1, <3>3, ReservedTyped
      <4> QED
        BY <2>1, <2>3, <3>1, <3>3, <4>1 DEF Reserve, TypeOK
    <3> QED
      BY <2>3, <3>2, <3>3 DEF Reserve
  <2>4. CASE Mark(p)
    <3>1. portal[p].request \in Requests /\ portal[p].response \in Responses
      BY <2>4, PortalShape DEF Mark
    <3>2. CASE UNCHANGED receipts
      BY <2>1, <2>4, <3>2 DEF Mark, TypeOK
    <3>3. CASE /\ Submitted(receipts[portal[p].request], portal[p].response)
               /\ receipts' = [receipts EXCEPT ![portal[p].request].state = "PUBLISHED"]
      <4>1. /\ [receipts[portal[p].request] EXCEPT !.state = "PUBLISHED"] \in
                 [state: ReceiptState, event: Responses \cup {None}, expiresAt: Nat]
            /\ [receipts[portal[p].request] EXCEPT !.state = "PUBLISHED"].event # None
        BY <3>1, <3>3, ReceiptShape DEF Submitted, ReceiptState
      <4> QED
        BY <2>1, <2>4, <3>1, <3>3, <4>1 DEF Mark, TypeOK
    <3> QED
      BY <2>4, <3>2, <3>3 DEF Mark
  <2>5. CASE EngineFails(p)
    BY <2>1, <2>5, PortalShape DEF EngineFails, TypeOK
  <2>6. CASE Publish(p) \/ PublishUncertain(p)
    <3>1. SubmissionEvent(portal[p]) \in Event
      BY <2>6, PortalShape DEF Publish, PublishUncertain, SubmissionEvent, Event, Loaded
    <3> QED
      BY <2>1, <2>6, <3>1 DEF Publish, PublishUncertain, TypeOK
  <2> QED
    BY <1>8, <2>2, <2>3, <2>4, <2>5, <2>6 DEF PortalStep
<1>9. ASSUME NEW e \in topic, Deliver(e) PROVE TypeOK' /\ PortalsTyped'
  BY <1>9 DEF Deliver, TypeOK, PortalsTyped
<1>10. CASE UNCHANGED vars
  BY <1>10 DEF vars, TypeOK, PortalsTyped
<1> QED
  BY <1>1, <1>2, <1>3, <1>4, <1>5, <1>6, <1>7, <1>8, <1>9, <1>10 DEF Next

\* Every reachable state is typed: what the store, the topic and the log hold, and what a
\* portal may hold between two of its awaits.
THEOREM TypeCorrect == Spec => []TypeOK
<1>1. TypeInv => TypeOK
  BY DEF TypeInv
<1> QED
  BY <1>1, TypeInit, TypeStep, PTL DEF Spec

-----------------------------------------------------------------------------
(***************************************************************************)
(* The inductive invariant.  A portal past its reservation holds the       *)
(* answer its receipt is bound to, and once past the mark the receipt says *)
(* PUBLISHED; only a release undoes either.                                *)
(***************************************************************************)
Bound(r, a) == receipts[r].state \in {"RESERVED", "PUBLISHED"} /\ receipts[r].event = a
Holds(p) == portal[p].stage \in {"reserved", "prepared"}

UnboundWhileOpen ==
  \A r \in Requests :
    /\ receipts[r].state \in {"ABSENT", "OPEN"} => receipts[r].event = None
    /\ receipts[r].state = "FAILED_RETRYABLE" => r \in reopened

InTime(p) == portal[p].stamp < receipts[portal[p].request].expiresAt

IsBound(p) ==
  \/ portal[p].request \in reopened
  \/ /\ Bound(portal[p].request, portal[p].response)
     /\ portal[p].stage = "prepared" => receipts[portal[p].request].state = "PUBLISHED"

HeldIsBound == \A p \in Portals : Holds(p) => InTime(p) /\ IsBound(p)

\* A reserved receipt is about to be marked by a portal that holds its very answer.
ReservedHasHolder ==
  \A r \in Requests :
    receipts[r].state = "RESERVED" =>
      r \in cut \/ \E p \in Portals : /\ portal[p].stage = "reserved"
                                      /\ portal[p].request = r
                                      /\ portal[p].response = receipts[r].event

SubmissionInv ==
  /\ UnboundWhileOpen /\ HeldIsBound /\ ReservedHasHolder
  /\ TopicConsumable /\ AnsweredInTime

LEMMA SubmissionInit == Init => SubmissionInv
  BY DEF Init, SubmissionInv, UnboundWhileOpen, HeldIsBound, ReservedHasHolder,
         TopicConsumable, AnsweredInTime, Absent, Idle, Holds

\* The four steps that write a receipt, each by name.
Reserves(p) ==
  /\ Reserve(p)
  /\ Reservable(receipts[portal[p].request], portal[p].response, portal[p].expected,
                portal[p].stamp)

Marks(p) == Mark(p) /\ Submitted(receipts[portal[p].request], portal[p].response)

LEMMA ReceiptWriters ==
  ASSUME [Next]_vars
  PROVE  \/ UNCHANGED receipts
         \/ \E r \in Requests : OpenRequest(r)
         \/ \E p \in Portals : Reserves(p) \/ Marks(p)
         \/ \E r \in Requests, a \in Responses : Release(r, a)
<1>1. ASSUME NEW p \in Portals, PortalStep(p)
      PROVE  UNCHANGED receipts \/ Reserves(p) \/ Marks(p)
  BY <1>1 DEF PortalStep, Validate, LoadCase, Reserve, Mark, EngineFails, Publish,
              PublishUncertain, Reserves, Marks
<1>2. ASSUME NEW p \in Portals, NEW r \in Requests, NEW token \in Tokens,
             Access(p, r, token) \/ \E a \in Responses : Submit(p, r, token, a)
      PROVE  UNCHANGED receipts
  BY <1>2 DEF Access, Submit
<1>3. ASSUME NEW e \in topic, Deliver(e) PROVE UNCHANGED receipts
  BY <1>3 DEF Deliver
<1> QED
  BY <1>1, <1>2, <1>3 DEF Next, Tick, OtherCommit, vars

\* What a reservation and a mark make of the receipt, and what the portal then holds.
LEMMA ReserveEffect ==
  ASSUME TypeInv, NEW p \in Portals, Reserves(p)
  PROVE  /\ portal[p].stage = "loaded"
         /\ portal[p].request \in Requests /\ portal[p].response \in Responses
         /\ portal[p].stamp < receipts[portal[p].request].expiresAt
         /\ receipts' = [receipts EXCEPT ![portal[p].request] =
                           Reserved(receipts[portal[p].request], portal[p].response)]
         /\ receipts'[portal[p].request].state \in {"RESERVED", "PUBLISHED"}
         /\ receipts'[portal[p].request].event = portal[p].response
         /\ receipts'[portal[p].request].expiresAt = receipts[portal[p].request].expiresAt
         /\ portal' = [portal EXCEPT ![p].stage = "reserved"]
         /\ portal'[p] = [portal[p] EXCEPT !.stage = "reserved"]
         /\ portal[p] \in Loaded
         /\ UNCHANGED <<topic, reopened, cut>>
<1>1. portal[p].stage = "loaded" /\ portal[p] \in Loaded
  BY PortalShape DEF TypeInv, Reserves, Reserve
<1>2. portal[p].request \in Requests /\ portal[p].response \in Responses
  BY <1>1 DEF Loaded
<1>3. /\ portal[p].stamp < receipts[portal[p].request].expiresAt
      /\ receipts' = [receipts EXCEPT ![portal[p].request] =
                        Reserved(receipts[portal[p].request], portal[p].response)]
      /\ portal' = [portal EXCEPT ![p].stage = "reserved"]
      /\ UNCHANGED <<topic, reopened, cut>>
  BY DEF Reserves, Reserve, Reservable, Go
<1>4. receipts'[portal[p].request] = Reserved(receipts[portal[p].request], portal[p].response)
  BY <1>2, <1>3 DEF TypeInv, TypeOK
<1>5. portal'[p] = [portal[p] EXCEPT !.stage = "reserved"]
  BY <1>3 DEF TypeInv, PortalsTyped
<1>6. /\ Reserved(receipts[portal[p].request], portal[p].response).state
           \in {"RESERVED", "PUBLISHED"}
      /\ Reserved(receipts[portal[p].request], portal[p].response).event = portal[p].response
      /\ Reserved(receipts[portal[p].request], portal[p].response).expiresAt
           = receipts[portal[p].request].expiresAt
  BY <1>2, ReservedTyped DEF TypeInv, Reserves
<1> QED
  BY <1>1, <1>2, <1>3, <1>4, <1>5, <1>6

LEMMA MarkEffect ==
  ASSUME TypeInv, NEW p \in Portals, Marks(p)
  PROVE  /\ portal[p].stage = "reserved"
         /\ portal[p].request \in Requests /\ portal[p].response \in Responses
         /\ Bound(portal[p].request, portal[p].response)
         /\ receipts' = [receipts EXCEPT ![portal[p].request] =
                           [receipts[portal[p].request] EXCEPT !.state = "PUBLISHED"]]
         /\ receipts'[portal[p].request].state = "PUBLISHED"
         /\ receipts'[portal[p].request].event = portal[p].response
         /\ receipts'[portal[p].request].expiresAt = receipts[portal[p].request].expiresAt
         /\ portal' = [portal EXCEPT ![p].stage = "prepared"]
         /\ portal'[p] = [portal[p] EXCEPT !.stage = "prepared"]
         /\ portal[p] \in Loaded
         /\ UNCHANGED <<topic, reopened, cut>>
<1>1. portal[p].stage = "reserved" /\ portal[p] \in Loaded
  BY PortalShape DEF TypeInv, Marks, Mark
<1>2. portal[p].request \in Requests /\ portal[p].response \in Responses
  BY <1>1 DEF Loaded
<1>3. /\ Bound(portal[p].request, portal[p].response)
      /\ receipts' = [receipts EXCEPT ![portal[p].request] =
                        [receipts[portal[p].request] EXCEPT !.state = "PUBLISHED"]]
      /\ portal' = [portal EXCEPT ![p].stage = "prepared"]
      /\ UNCHANGED <<topic, reopened, cut>>
  BY DEF Marks, Mark, Submitted, Bound, Go
<1>4. receipts[portal[p].request] \in
        [state: ReceiptState, event: Responses \cup {None}, expiresAt: Nat]
  BY <1>2, <1>3, ReceiptShape DEF TypeInv, Bound
<1>5. portal'[p] = [portal[p] EXCEPT !.stage = "prepared"]
  BY <1>3 DEF TypeInv, PortalsTyped
<1>6. receipts'[portal[p].request] = [receipts[portal[p].request] EXCEPT !.state = "PUBLISHED"]
  BY <1>2, <1>3 DEF TypeInv, TypeOK
<1> QED
  BY <1>1, <1>2, <1>3, <1>4, <1>5, <1>6 DEF Bound

\* A bound answer stays bound, and a token's expiry stays, unless the receipt is released
\* or was not there.
LEMMA BindingStays ==
  ASSUME TypeInv, [Next]_vars, NEW r \in Requests
  PROVE  /\ receipts[r].state # "ABSENT" =>
              /\ receipts'[r].expiresAt = receipts[r].expiresAt
              /\ receipts'[r].state # "ABSENT"
         /\ \A a \in Responses : Bound(r, a) => r \in reopened' \/ Bound(r, a)'
         /\ receipts[r].state = "PUBLISHED" => r \in reopened' \/ receipts'[r].state = "PUBLISHED"
         /\ reopened \subseteq reopened'
<1>1. CASE UNCHANGED receipts
  <2>1. reopened \subseteq reopened'
    BY DEF Next, Tick, OtherCommit, OpenRequest, Release, PortalStep, Validate, LoadCase, Reserve,
           Mark, EngineFails, Publish, PublishUncertain, Access, Submit, Deliver, vars
  <2> QED
    BY <1>1, <2>1 DEF Bound
<1>2. ASSUME NEW q \in Requests, OpenRequest(q)
      PROVE  /\ reopened' = reopened
             /\ receipts[r].state # "ABSENT" => receipts'[r] = receipts[r]
  BY <1>2 DEF OpenRequest, Absent, TypeInv, TypeOK
<1>3. ASSUME NEW p \in Portals, Reserves(p)
      PROVE  /\ reopened' = reopened
             /\ receipts[r].state # "ABSENT" =>
                  /\ receipts'[r].expiresAt = receipts[r].expiresAt
                  /\ receipts'[r].state # "ABSENT"
             /\ receipts[r].state \in {"RESERVED", "PUBLISHED"} => receipts'[r] = receipts[r]
  <2>1. CASE r # portal[p].request
    BY <1>3, <2>1, ReserveEffect DEF TypeInv, TypeOK
  <2>2. CASE r = portal[p].request
    <3>1. receipts'[r] = Reserved(receipts[r], portal[p].response)
      BY <1>3, <2>2, ReserveEffect DEF TypeInv, TypeOK
    <3>2. receipts[r].state \in {"RESERVED", "PUBLISHED"} => receipts[r].event = portal[p].response
      BY <1>3, <2>2 DEF Reserves, Reservable
    <3>3. receipts[r].state \in {"RESERVED", "PUBLISHED"} => receipts'[r] = receipts[r]
      BY <3>1, <3>2 DEF Reserved
    <3>4. receipts'[r].expiresAt = receipts[r].expiresAt /\ UNCHANGED reopened
      BY <1>3, <2>2, ReserveEffect
    <3>5. receipts'[r].state \in {"RESERVED", "PUBLISHED"}
      BY <1>3, <2>2, <3>1, ReservedTyped, ReserveEffect DEF Reserves, TypeInv
    <3> QED
      BY <3>3, <3>4, <3>5
  <2> QED
    BY <2>1, <2>2
<1>4. ASSUME NEW p \in Portals, Marks(p)
      PROVE  /\ reopened' = reopened
             /\ receipts'[r].expiresAt = receipts[r].expiresAt
             /\ receipts'[r].event = receipts[r].event
             /\ receipts'[r].state \in {receipts[r].state, "PUBLISHED"}
  BY <1>4, MarkEffect DEF TypeInv, TypeOK, Bound
<1>5. ASSUME NEW q \in Requests, NEW a \in Responses, Release(q, a)
      PROVE  /\ reopened' = reopened \cup {q}
             /\ receipts[r].state # "ABSENT" =>
                  /\ receipts'[r].expiresAt = receipts[r].expiresAt
                  /\ receipts'[r].state # "ABSENT"
             /\ r # q => receipts'[r] = receipts[r]
  <2>1. receipts'[r] = IF r = q THEN [receipts[q] EXCEPT !.state = "FAILED_RETRYABLE"]
                       ELSE receipts[r]
    BY <1>5 DEF Release, TypeInv, TypeOK
  <2> QED
    BY <1>5, <2>1, ReceiptShape DEF Release, TypeInv
<1> QED
  BY <1>1, <1>2, <1>3, <1>4, <1>5, ReceiptWriters DEF Bound

\* A portal that holds a reservation has held it already, or reserves or marks it now.
LEMMA PortalMoves ==
  ASSUME TypeInv, [Next]_vars, NEW p \in Portals, Holds(p)'
  PROVE  portal'[p] = portal[p] \/ Reserves(p) \/ Marks(p)
<1>1. ASSUME NEW q \in Portals, PortalStep(q) PROVE portal'[p] = portal[p] \/ Reserves(p) \/ Marks(p)
  <2>1. CASE p # q
    BY <1>1, <2>1 DEF PortalStep, Validate, LoadCase, Reserve, Mark, EngineFails, Publish,
                      PublishUncertain, Go, Answer, TypeInv, PortalsTyped
  <2>2. CASE p = q
    <3>1. ASSUME Go(p, "validated") PROVE portal'[p] = [portal[p] EXCEPT !.stage = "validated"]
      BY <3>1 DEF Go, TypeInv, PortalsTyped
    <3>2. ASSUME NEW status, Answer(p, status) PROVE portal'[p].stage = "answered"
      BY <3>2 DEF Answer, TypeInv, PortalsTyped
    <3>3. CASE Validate(p)
      <4>1. portal[p] \in Admitted
        BY <3>3, PortalShape DEF Validate, TypeInv
      <4>2. Go(p, "validated") \/ Answer(p, "PORTAL_SUBMISSION_UNAVAILABLE")
        BY <3>3 DEF Validate
      <4>3. portal'[p].stage \in {"validated", "answered"}
        BY <3>1, <3>2, <4>1, <4>2 DEF Admitted
      <4> QED
        BY <4>3 DEF Holds
    <3>4. CASE LoadCase(p)
      BY <3>4 DEF LoadCase, Holds, TypeInv, PortalsTyped
    <3>5. CASE Reserve(p)
      BY <3>2, <3>5 DEF Reserve, Reserves, Holds
    <3>6. CASE Mark(p)
      BY <3>2, <3>6 DEF Mark, Marks, Holds
    <3>7. CASE EngineFails(p) \/ Publish(p) \/ PublishUncertain(p)
      BY <3>2, <3>7 DEF EngineFails, Publish, PublishUncertain, Holds
    <3> QED
      BY <1>1, <2>2, <3>3, <3>4, <3>5, <3>6, <3>7 DEF PortalStep
  <2> QED
    BY <2>1, <2>2
<1>2. ASSUME NEW q \in Portals, NEW r \in Requests, NEW token \in Tokens,
             Access(q, r, token) \/ \E a \in Responses : Submit(q, r, token, a)
      PROVE  portal'[p] = portal[p]
  BY <1>2 DEF Access, Submit, Holds, TypeInv, PortalsTyped
<1>3. CASE UNCHANGED portal
  BY <1>3
<1> QED
  BY <1>1, <1>2, <1>3 DEF Next, Tick, OtherCommit, OpenRequest, Release, Deliver, vars

\* What comes on the topic was prepared by a portal, and the receipts stay as they are.
Publishes(p) ==
  /\ portal[p].stage = "prepared"
  /\ topic' = topic \cup {SubmissionEvent(portal[p])}
  /\ UNCHANGED <<receipts, reopened>>

LEMMA TopicGrows ==
  ASSUME [Next]_vars
  PROVE  UNCHANGED topic \/ \E p \in Portals : Publishes(p)
  BY DEF Next, Tick, OtherCommit, OpenRequest, Release, PortalStep, Validate, LoadCase, Reserve,
         Mark, EngineFails, Publish, PublishUncertain, Access, Submit, Deliver, vars, Publishes

LEMMA UnboundStep ==
  ASSUME TypeInv, UnboundWhileOpen, [Next]_vars
  PROVE  UnboundWhileOpen'
<1> SUFFICES ASSUME NEW r \in Requests
             PROVE  /\ receipts'[r].state \in {"ABSENT", "OPEN"} => receipts'[r].event = None
                    /\ receipts'[r].state = "FAILED_RETRYABLE" => r \in reopened'
  BY DEF UnboundWhileOpen
<1>0. /\ receipts[r].state \in {"ABSENT", "OPEN"} => receipts[r].event = None
      /\ receipts[r].state = "FAILED_RETRYABLE" => r \in reopened'
  BY BindingStays DEF UnboundWhileOpen
<1>1. CASE UNCHANGED receipts
  BY <1>0, <1>1
<1>2. ASSUME NEW q \in Requests, OpenRequest(q) PROVE r = q \/ receipts'[r] = receipts[r]
  BY <1>2 DEF OpenRequest, TypeInv, TypeOK
<1>3. ASSUME NEW q \in Requests, OpenRequest(q), r = q
      PROVE  receipts'[r].state = "OPEN" /\ receipts'[r].event = None
  BY <1>3 DEF OpenRequest, TypeInv, TypeOK
<1>4. ASSUME NEW p \in Portals, Reserves(p)
      PROVE  receipts'[r].state \in {"RESERVED", "PUBLISHED"} \/ receipts'[r] = receipts[r]
  <2>1. CASE r = portal[p].request
    BY <1>4, <2>1, ReserveEffect
  <2>2. CASE r # portal[p].request
    BY <1>4, <2>2, ReserveEffect DEF TypeInv, TypeOK
  <2> QED
    BY <2>1, <2>2
<1>5. ASSUME NEW p \in Portals, Marks(p)
      PROVE  receipts'[r].state = "PUBLISHED" \/ receipts'[r] = receipts[r]
  BY <1>5, MarkEffect DEF TypeInv, TypeOK
<1>6. ASSUME NEW q \in Requests, NEW a \in Responses, Release(q, a)
      PROVE  \/ receipts'[r] = receipts[r]
             \/ receipts'[r].state = "FAILED_RETRYABLE" /\ r \in reopened'
  <2>1. receipts'[r] = IF r = q THEN [receipts[q] EXCEPT !.state = "FAILED_RETRYABLE"]
                       ELSE receipts[r]
    BY <1>6 DEF Release, TypeInv, TypeOK
  <2> QED
    BY <1>6, <2>1, ReceiptShape DEF Release, Submitted, TypeInv
<1> QED
  BY <1>0, <1>1, <1>2, <1>3, <1>4, <1>5, <1>6, ReceiptWriters

LEMMA InTimeIsThere ==
  ASSUME TypeInv, NEW r \in Requests, NEW stamp \in Nat, stamp < receipts[r].expiresAt
  PROVE  receipts[r].state # "ABSENT"
  BY DEF TypeInv, TypeOK, Absent, ReceiptState

LEMMA HeldStep ==
  ASSUME TypeInv, HeldIsBound, [Next]_vars
  PROVE  HeldIsBound'
<1> SUFFICES ASSUME NEW p \in Portals, Holds(p)' PROVE InTime(p)' /\ IsBound(p)'
  BY DEF HeldIsBound
<1>1. CASE Reserves(p)
  <2>1. /\ portal'[p].stage = "reserved" /\ portal'[p].request = portal[p].request
        /\ portal'[p].response = portal[p].response /\ portal'[p].stamp = portal[p].stamp
    BY <1>1, ReserveEffect DEF Loaded
  <2>2. InTime(p)'
    BY <1>1, <2>1, ReserveEffect DEF InTime
  <2> QED
    BY <1>1, <2>1, <2>2, ReserveEffect DEF IsBound, Bound
<1>2. CASE Marks(p)
  <2>1. InTime(p)
    BY <1>2, MarkEffect DEF HeldIsBound, Holds
  <2>2. /\ portal'[p].request = portal[p].request
        /\ portal'[p].response = portal[p].response /\ portal'[p].stamp = portal[p].stamp
    BY <1>2, MarkEffect DEF Loaded
  <2> QED
    BY <1>2, <2>1, <2>2, MarkEffect DEF InTime, IsBound, Bound
<1>3. CASE portal'[p] = portal[p]
  <2>1. Holds(p) /\ InTime(p) /\ IsBound(p)
    BY <1>3 DEF HeldIsBound, Holds
  <2>2. /\ portal[p].request \in Requests /\ portal[p].response \in Responses
        /\ portal[p].stamp \in Nat
    BY <2>1, PortalShape, SubmissionAssumption DEF TypeInv, Holds, Loaded
  <2>3. receipts[portal[p].request].state # "ABSENT"
    BY <2>1, <2>2, InTimeIsThere DEF InTime
  <2>4. receipts'[portal[p].request].expiresAt = receipts[portal[p].request].expiresAt
    BY <2>2, <2>3, BindingStays
  <2>5. IsBound(p)'
    BY <1>3, <2>1, <2>2, BindingStays DEF IsBound
  <2> QED
    BY <1>3, <2>1, <2>4, <2>5 DEF InTime
<1> QED
  BY <1>1, <1>2, <1>3, PortalMoves

LEMMA TopicStep ==
  ASSUME TypeInv, HeldIsBound, TopicConsumable, AnsweredInTime, [Next]_vars
  PROVE  TopicConsumable' /\ AnsweredInTime'
<1>1. ASSUME NEW e \in topic
      PROVE  /\ e.request \in reopened' \/ Consumable(e)'
             /\ e.stamp < receipts'[e.request].expiresAt
  <2>1. e.request \in Requests /\ e.response \in Responses /\ e.stamp \in Nat
    BY SubmissionAssumption DEF TypeInv, TypeOK, Event
  <2>2. e.request \in reopened \/ Consumable(e)
    BY DEF TopicConsumable
  <2>3. e.stamp < receipts[e.request].expiresAt
    BY DEF AnsweredInTime
  <2>4. receipts[e.request].state # "ABSENT"
    BY <2>1, <2>3, InTimeIsThere
  <2>5. receipts'[e.request].expiresAt = receipts[e.request].expiresAt
    BY <2>1, <2>4, BindingStays
  <2>6. Consumable(e) => e.request \in reopened' \/ Consumable(e)'
    BY <2>1, BindingStays DEF Consumable, Bound
  <2> QED
    BY <2>1, <2>2, <2>3, <2>5, <2>6, BindingStays
<1>2. ASSUME NEW p \in Portals, Publishes(p), NEW e \in {SubmissionEvent(portal[p])}
      PROVE  /\ e.request \in reopened' \/ Consumable(e)'
             /\ e.stamp < receipts'[e.request].expiresAt
  <2>1. /\ e.request = portal[p].request /\ e.response = portal[p].response
        /\ e.stamp = portal[p].stamp
    BY DEF SubmissionEvent
  <2>2. InTime(p) /\ IsBound(p)
    BY <1>2 DEF HeldIsBound, Holds, Publishes
  <2> QED
    BY <1>2, <2>1, <2>2 DEF InTime, IsBound, Bound, Consumable, Publishes
<1>3. ASSUME NEW e \in topic'
      PROVE  e \in topic \/ \E p \in Portals : Publishes(p) /\ e \in {SubmissionEvent(portal[p])}
  BY TopicGrows DEF Publishes
<1> QED
  BY <1>1, <1>2, <1>3 DEF TopicConsumable, AnsweredInTime

\* The portal that is about to mark receipt r.
Holder(r, p) ==
  portal[p].stage = "reserved" /\ portal[p].request = r /\ portal[p].response = receipts[r].event

\* It marks it, is cut off, or is still about to.
LEMMA HolderMoves ==
  ASSUME TypeInv, [Next]_vars, NEW p \in Portals, portal[p].stage = "reserved"
  PROVE  \/ portal'[p] = portal[p]
         \/ Marks(p)
         \/ Mark(p) /\ ~Submitted(receipts[portal[p].request], portal[p].response)
         \/ portal[p].request \in cut'
<1>1. ASSUME NEW q \in Portals, q # p, PortalStep(q) PROVE portal'[p] = portal[p]
  BY <1>1 DEF PortalStep, Validate, LoadCase, Reserve, Mark, EngineFails, Publish,
              PublishUncertain, Go, Answer, TypeInv, PortalsTyped
<1>2. CASE PortalStep(p)
  BY <1>2 DEF PortalStep, Validate, LoadCase, Reserve, Mark, Marks, EngineFails, Publish,
              PublishUncertain
<1>3. ASSUME NEW q \in Portals, NEW r \in Requests, NEW token \in Tokens,
             Access(q, r, token) \/ \E a \in Responses : Submit(q, r, token, a)
      PROVE  portal'[p] = portal[p]
  BY <1>3 DEF Access, Submit, Free, TypeInv, PortalsTyped
<1>4. CASE UNCHANGED portal
  BY <1>4
<1> QED
  BY <1>1, <1>2, <1>3, <1>4 DEF Next, Tick, OtherCommit, OpenRequest, Release, Deliver, vars

LEMMA CutGrows ==
  ASSUME [Next]_vars
  PROVE  cut \subseteq cut'
  BY DEF Next, Tick, OtherCommit, OpenRequest, Release, PortalStep, Validate, LoadCase, Reserve,
         Mark, EngineFails, Publish, PublishUncertain, Access, Submit, Deliver, vars

LEMMA HolderStep ==
  ASSUME TypeInv, ReservedHasHolder, [Next]_vars
  PROVE  ReservedHasHolder'
<1> SUFFICES ASSUME NEW r \in Requests, receipts'[r].state = "RESERVED", r \notin cut'
             PROVE  \E p \in Portals : Holder(r, p)'
  BY DEF ReservedHasHolder, Holder
<1>1. CASE receipts'[r] = receipts[r]
  <2>1. PICK p \in Portals : Holder(r, p)
    BY <1>1, CutGrows DEF ReservedHasHolder, Holder
  <2>2. ~Marks(p)
    BY <1>1, <2>1, MarkEffect DEF Holder
  <2>3. Submitted(receipts[r], portal[p].response)
    BY <1>1, <2>1 DEF Holder, Submitted
  <2>4. portal'[p] = portal[p]
    BY <2>1, <2>2, <2>3, HolderMoves DEF Holder
  <2> QED
    BY <1>1, <2>1, <2>4 DEF Holder
<1>2. ASSUME receipts'[r] # receipts[r], NEW q \in Requests, OpenRequest(q)
      PROVE  FALSE
  BY <1>2 DEF OpenRequest, TypeInv, TypeOK
<1>3. ASSUME receipts'[r] # receipts[r], NEW p \in Portals, Reserves(p)
      PROVE  Holder(r, p)'
  <2>1. r = portal[p].request
    BY <1>3, ReserveEffect DEF TypeInv, TypeOK
  <2>2. /\ portal'[p].stage = "reserved" /\ portal'[p].request = portal[p].request
        /\ portal'[p].response = portal[p].response
    BY <1>3, ReserveEffect DEF Loaded
  <2> QED
    BY <1>3, <2>1, <2>2, ReserveEffect DEF Holder
<1>4. ASSUME receipts'[r] # receipts[r], NEW p \in Portals, Marks(p)
      PROVE  FALSE
  BY <1>4, MarkEffect DEF TypeInv, TypeOK
<1>5. ASSUME receipts'[r] # receipts[r], NEW q \in Requests, NEW a \in Responses, Release(q, a)
      PROVE  FALSE
  <2>1. receipts'[r] = [receipts[r] EXCEPT !.state = "FAILED_RETRYABLE"]
    BY <1>5 DEF Release, TypeInv, TypeOK
  <2>2. r = q
    BY <1>5 DEF Release, TypeInv, TypeOK
  <2> QED
    BY <1>5, <2>1, <2>2, ReceiptShape DEF Release, Submitted, TypeInv
<1> QED
  BY <1>1, <1>2, <1>3, <1>4, <1>5, ReceiptWriters

LEMMA SubmissionStep == TypeInv /\ SubmissionInv /\ [Next]_vars => SubmissionInv'
  BY UnboundStep, HeldStep, HolderStep, TopicStep DEF SubmissionInv

LEMMA SubmissionHolds == Spec => [](TypeInv /\ SubmissionInv)
<1>1. Init => TypeInv /\ SubmissionInv
  BY TypeInit, SubmissionInit
<1>2. TypeInv /\ SubmissionInv /\ [Next]_vars => (TypeInv /\ SubmissionInv)'
  BY TypeStep, SubmissionStep
<1> QED
  BY <1>1, <1>2, PTL DEF Spec

\* However many portals submit at once, fail or learn nothing of the broker, every event on
\* the topic can be consumed until the release operation reopens its request.
THEOREM TopicConsumableHolds == Spec => []TopicConsumable
<1>1. SubmissionInv => TopicConsumable
  BY DEF SubmissionInv
<1> QED
  BY <1>1, SubmissionHolds, PTL

\* The timestamp of every event on the topic lies before the expiry of its token.
THEOREM AnsweredInTimeHolds == Spec => []AnsweredInTime
<1>1. SubmissionInv => AnsweredInTime
  BY DEF SubmissionInv
<1> QED
  BY <1>1, SubmissionHolds, PTL

\* Only a submission cut off between its reservation and its mark strands a request.
THEOREM StrandedOnlyByFailureHolds == Spec => []StrandedOnlyByFailure
<1>1. SubmissionInv => StrandedOnlyByFailure
  BY DEF SubmissionInv, ReservedHasHolder, StrandedOnlyByFailure
<1> QED
  BY <1>1, SubmissionHolds, PTL

-----------------------------------------------------------------------------
(***************************************************************************)
(* The portal implements ScopedAnswer: a reservation binds, a publication  *)
(* emits, a release reopens, and every other step stutters.                *)
(***************************************************************************)
LEMMA AbstractInit == Init => Abstract!Init
  BY DEF Init, Abstract!Init, Absent

LEMMA AbstractStep ==
  ASSUME TypeInv, SubmissionInv, [Next]_vars
  PROVE  [Abstract!Next]_(Abstract!vars)
<1> DEFINE bound == [r \in Requests |-> receipts[r].event]
           emitted == { <<e.request, e.response>> : e \in topic }
<1>1. CASE UNCHANGED <<receipts, topic, reopened>>
  BY <1>1 DEF Abstract!vars
<1>2. ASSUME NEW r \in Requests, OpenRequest(r)
      PROVE  UNCHANGED Abstract!vars
  <2>1. receipts[r].event = None /\ receipts'[r].event = None
    BY <1>2 DEF OpenRequest, Absent, TypeInv, TypeOK
  <2>2. bound' = bound
    BY <1>2, <2>1 DEF OpenRequest, TypeInv, TypeOK
  <2> QED
    BY <1>2, <2>2 DEF OpenRequest, Abstract!vars
<1>3. ASSUME NEW p \in Portals, Reserves(p)
      PROVE  Abstract!Next \/ UNCHANGED Abstract!vars
  <2> DEFINE r == portal[p].request
             a == portal[p].response
  <2>1. r \in Requests /\ a \in Responses
    BY <1>3, ReserveEffect
  <2>2. bound' = [bound EXCEPT ![r] = a]
    <3>1. /\ receipts' = [receipts EXCEPT ![r] = Reserved(receipts[r], a)]
          /\ receipts'[r].event = a
      BY <1>3, ReserveEffect
    <3>2. DOMAIN receipts = Requests
      BY DEF TypeInv, TypeOK
    <3>3. ASSUME NEW q \in Requests PROVE bound'[q] = [bound EXCEPT ![r] = a][q]
      BY <2>1, <3>1, <3>2
    <3> QED
      BY <3>3
  <2>3. bound[r] \in {None, a} \/ r \in reopened
    BY <1>3, <2>1, SubmissionInv DEF SubmissionInv, UnboundWhileOpen, Reserves, Reservable
  <2>4. UNCHANGED <<emitted, reopened>>
    BY <1>3, ReserveEffect
  <2>5. CASE bound[r] = None \/ r \in reopened
    <3> HIDE DEF r, a
    <3> QED
      BY <2>1, <2>2, <2>4, <2>5 DEF Abstract!Bind, Abstract!Next
  <2>6. CASE bound[r] = a
    <3>1. bound' = bound
      BY <2>1, <2>2, <2>6
    <3> QED
      BY <2>4, <3>1 DEF Abstract!vars
  <2> QED
    BY <2>3, <2>5, <2>6
<1>4. ASSUME NEW p \in Portals, Marks(p)
      PROVE  UNCHANGED Abstract!vars
  <2>1. ASSUME NEW r \in Requests PROVE receipts'[r].event = receipts[r].event
    BY <1>4, MarkEffect DEF Bound, TypeInv, TypeOK
  <2>2. bound' = bound
    BY <2>1
  <2> QED
    BY <1>4, <2>2, MarkEffect DEF Abstract!vars
<1>5. ASSUME NEW r \in Requests, NEW a \in Responses, Release(r, a)
      PROVE  Abstract!Reopen(r)
  <2>1. bound[r] # None
    BY <1>5, SubmissionAssumption DEF Release, Submitted
  <2>2. bound' = bound
    BY <1>5, ReceiptShape DEF Release, Submitted, TypeInv, TypeOK
  <2> QED
    BY <1>5, <2>1, <2>2 DEF Release, Abstract!Reopen
<1>6. ASSUME NEW p \in Portals, Publishes(p)
      PROVE  \E r \in Requests, a \in Responses : Abstract!Emit(r, a)
  <2> DEFINE r == portal[p].request
             a == portal[p].response
  <2>1. r \in Requests /\ a \in Responses
    BY <1>6, PortalShape DEF Publishes, TypeInv
  <2>2. bound[r] = a \/ r \in reopened
    BY <1>6, <2>1 DEF Publishes, SubmissionInv, HeldIsBound, Holds, IsBound, Bound
  <2>3. emitted' = emitted \cup {<<r, a>>}
    <3>1. topic' = topic \cup {SubmissionEvent(portal[p])}
      BY <1>6 DEF Publishes
    <3>2. /\ SubmissionEvent(portal[p]).request = r
          /\ SubmissionEvent(portal[p]).response = a
      BY DEF SubmissionEvent
    <3> QED
      BY <3>1, <3>2
  <2>4. UNCHANGED <<bound, reopened>>
    BY <1>6 DEF Publishes
  <2> QED
    BY <2>1, <2>2, <2>3, <2>4 DEF Abstract!Emit
<1>7. \/ UNCHANGED <<receipts, topic, reopened>>
      \/ \E r \in Requests : OpenRequest(r) \/ \E a \in Responses : Release(r, a)
      \/ \E p \in Portals : Reserves(p) \/ Marks(p) \/ Publishes(p)
  <2>1. ASSUME NEW p \in Portals, PortalStep(p)
        PROVE  UNCHANGED <<receipts, topic, reopened>> \/ Reserves(p) \/ Marks(p) \/ Publishes(p)
    BY <2>1 DEF PortalStep, Validate, LoadCase, Reserve, Mark, EngineFails, Publish,
                PublishUncertain, Reserves, Marks, Publishes
  <2>2. ASSUME NEW p \in Portals, NEW r \in Requests, NEW token \in Tokens,
               Access(p, r, token) \/ \E a \in Responses : Submit(p, r, token, a)
        PROVE  UNCHANGED <<receipts, topic, reopened>>
    BY <2>2 DEF Access, Submit
  <2>3. ASSUME Tick \/ OtherCommit \/ (\E e \in topic : Deliver(e)) \/ UNCHANGED vars
        PROVE  UNCHANGED <<receipts, topic, reopened>>
    BY <2>3 DEF Tick, OtherCommit, Deliver, vars
  <2> QED
    BY <2>1, <2>2, <2>3 DEF Next
<1> QED
  BY <1>1, <1>2, <1>3, <1>4, <1>5, <1>6, <1>7 DEF Abstract!Next

\* The refinement: a request is answered once, by the answer that was reserved first, for any
\* number of portals, retries, failures and lost confirmations.
THEOREM OneAnswerPerRequestHolds == Spec => OneAnswerPerRequest
<1>1. TypeInv /\ SubmissionInv /\ [Next]_vars => [Abstract!Next]_(Abstract!vars)
  BY AbstractStep
<1> QED
  BY <1>1, AbstractInit, SubmissionHolds, PTL DEF Spec, OneAnswerPerRequest, Abstract!Spec
=============================================================================
