---------------------------- MODULE CaseProjection ----------------------------
(***************************************************************************)
(* What is read off a stored case and never written back: the truth graph, *)
(* the resolution readiness and the workspace the user interface shows.    *)
(* Every operator is a function of a bundle d of CaseStore.  Node ids are  *)
(* tagged with the kind of their record, so that ids of different records  *)
(* differ as they do in the code.                                          *)
(***************************************************************************)
EXTENDS CaseStore

-----------------------------------------------------------------------------
(***************************************************************************)
(* Claims.  The relationship of a claim to its evidence is the one its     *)
(* planner stores: the seed authenticates an assertion, a provider and a   *)
(* confirming partner support the proposition, a denying one contradicts.  *)
(***************************************************************************)
Relationships(c) ==
  { [evidence |-> ev,
     kind |-> CASE c.status = "SUPPORTED"    -> "SUPPORTS_PROPOSITION"
                [] c.status = "CONTRADICTED" -> "CONTRADICTS_PROPOSITION"
                [] OTHER                     -> "AUTHENTICATES_ASSERTION"] :
    ev \in c.evidence }

Has(c, kind) == \E r \in Relationships(c) : r.kind = kind

EvaluateClaimStatus(c) ==
  CASE Has(c, "SUPPORTS_PROPOSITION") /\ Has(c, "CONTRADICTS_PROPOSITION") -> "PARTIALLY_VERIFIED"
    [] Has(c, "SUPPORTS_PROPOSITION") /\ ~Has(c, "CONTRADICTS_PROPOSITION") -> "SUPPORTED"
    [] ~Has(c, "SUPPORTS_PROPOSITION") /\ Has(c, "CONTRADICTS_PROPOSITION") -> "CONTRADICTED"
    [] OTHER -> "UNVERIFIED"

ClaimsWith(d, statuses) == { c.id : c \in { x \in d.claims : EvaluateClaimStatus(x) \in statuses } }

(***************************************************************************)
(* buildTruthGraph.                                                        *)
(***************************************************************************)
Node(kind, id) == [kind |-> kind, id |-> <<kind, id>>,
                   derived |-> kind \in {"VERIFICATION_GAP", "EXPECTED_EVIDENCE"}]
Edge(kind, from, to) == [kind |-> kind, from |-> from, to |-> to]

Unsupported(d) == { c \in d.claims : ~Has(c, "SUPPORTS_PROPOSITION") }

TruthNodes(d) ==
  { Node("PARTY", p) : p \in d.kase.parties }
    \cup { Node("EVENT", i) : i \in IdsOf(d.events) }
    \cup { Node("EVIDENCE", i) : i \in IdsOf(d.evidence) }
    \cup { Node("TRANSACTION", i) : i \in IdsOf(d.transactions) }
    \cup { Node("CLAIM", i) : i \in IdsOf(d.claims) }
    \cup { Node("VERIFICATION_GAP", i) : i \in IdsOf(Unsupported(d)) }
    \cup { Node("EXPECTED_EVIDENCE", i) : i \in IdsOf(Unsupported(d)) }
    \cup { Node("AUDIT", i) : i \in DOMAIN d.audits }

\* Only the seed's evidence event names a cause.
Causes(d) == IF EvidenceEvent \in d.events THEN { <<IntakeEvent.id, EvidenceEvent.id>> } ELSE {}

TruthEdges(d) ==
  { Edge("CAUSED", <<"EVENT", p[1]>>, <<"EVENT", p[2]>>) : p \in Causes(d) }
    \cup { Edge("RESULTED_IN", <<"EVIDENCE", t.evidence>>, <<"TRANSACTION", t.id>>) :
             t \in d.transactions }
    \cup { Edge("ASSERTED", <<"PARTY", c.claimant>>, <<"CLAIM", c.id>>) : c \in d.claims }
    \cup (UNION { { Edge(r.kind, <<"EVIDENCE", r.evidence>>, <<"CLAIM", c.id>>) :
                      r \in Relationships(c) } : c \in d.claims })
    \cup { Edge("RESULTED_IN", <<"CLAIM", c.id>>, <<"VERIFICATION_GAP", c.id>>) :
             c \in Unsupported(d) }
    \cup { Edge("EXPECTED_TO_VERIFY", <<"EXPECTED_EVIDENCE", c.id>>, <<"CLAIM", c.id>>) :
             c \in Unsupported(d) }
    \cup { Edge("RESULTED_IN", <<"EVENT", d.audits[i].trigger>>, <<"AUDIT", i>>) :
             i \in DOMAIN d.audits }

Placeholders(d, kind) == { n.id : n \in { x \in TruthNodes(d) : x.derived /\ x.kind = kind } }
Gaps(d) == Placeholders(d, "VERIFICATION_GAP")

(***************************************************************************)
(* projectResolutionReadiness.                                             *)
(***************************************************************************)
Requirement == {"provider_transaction_verified", "customer_receipt_confirmation",
                "contradictions_resolved"}

RequirementStatus(d) ==
  [provider_transaction_verified |->
     IF ProviderOutcomeKnown(d) THEN "SATISFIED" ELSE "MISSING",
   customer_receipt_confirmation |->
     IF CustomerReceiptKnown(d) THEN "SATISFIED" ELSE "MISSING",
   contradictions_resolved |->
     IF ContradictionBlocks(d) THEN "BLOCKED" ELSE "SATISFIED"]

\* The first gate planAutomatedResolutionEvaluation finds closed.
EvaluationReason(d) ==
  CASE d.kase.state # "RESOLUTION_PENDING" -> "STATE_NOT_ELIGIBLE"
    [] d.kase.state = "RESOLUTION_PENDING" /\ ContradictionBlocks(d) -> "CONTRADICTION_PRESENT"
    [] d.kase.state = "RESOLUTION_PENDING" /\ ~ContradictionBlocks(d)
         /\ ~ProviderOutcomeKnown(d) -> "PROVIDER_OUTCOME_UNKNOWN"
    [] d.kase.state = "RESOLUTION_PENDING" /\ ~ContradictionBlocks(d)
         /\ ProviderOutcomeKnown(d) /\ ~CustomerReceiptKnown(d) -> "CUSTOMER_RECEIPT_UNKNOWN"
    [] OTHER -> "NONE"

\* Mutant: the state of the case is looked at before its evidence.
NextAllowedActionStateFirst(d) ==
  CASE ResolutionReady(d) -> "REVIEW_FOR_RESOLUTION"
    [] ~ResolutionReady(d) /\ d.kase.state # "RESOLUTION_PENDING" -> "NO_ACTION"
    [] OTHER -> "WAIT_FOR_PROVIDER"

NextAllowedAction(d) ==
  IF ResolutionReady(d) THEN "REVIEW_FOR_RESOLUTION"
  ELSE IF ContradictionBlocks(d) THEN "RESOLVE_CONTRADICTION"
  ELSE IF ~ProviderOutcomeKnown(d) THEN "WAIT_FOR_PROVIDER"
  ELSE IF ~CustomerReceiptKnown(d) THEN "REQUEST_EVIDENCE"
  ELSE IF EvaluationReason(d) = "STATE_NOT_ELIGIBLE" /\ d.kase.state \notin {"RESOLVED", "CLOSED"}
    THEN "ADVANCE_TO_RESOLUTION_PENDING"
  ELSE "NO_ACTION"

AllSatisfied(d) == \A r \in Requirement : RequirementStatus(d)[r] = "SATISFIED"

\* listResolutionGaps: what is listed is a requirement, or the state gate on its own.
ResolutionGaps(d) ==
  { [requirement |-> r,
     action |-> CASE r = "contradictions_resolved"       -> "RESOLVE_CONTRADICTION"
                  [] r = "provider_transaction_verified" -> "WAIT_FOR_PROVIDER"
                  [] OTHER                               -> "REQUEST_EVIDENCE"] :
      r \in { x \in Requirement : RequirementStatus(d)[x] # "SATISFIED" } }
  \cup { g \in {[requirement |-> "case_state", action |-> NextAllowedAction(d)]} :
           ~ResolutionReady(d) /\ d.kase.state # "RESOLUTION_PENDING" /\ AllSatisfied(d) }

(***************************************************************************)
(* resolvia_prepare_evidence_request: the draft of an evidence request, or *)
(* the code of the refusal.  A draft is shown to a person and never sent.  *)
(***************************************************************************)
Target == {"PROVIDER", "PARTNER", "CUSTOMER"}

PrepareDraft(d, requirement, target) ==
  CASE RequirementStatus(d)[requirement] = "SATISFIED" -> "REQUIREMENT_ALREADY_SATISFIED"
    [] /\ RequirementStatus(d)[requirement] # "SATISFIED"
       /\ \/ requirement = "contradictions_resolved"
          \/ requirement = "customer_receipt_confirmation" /\ target = "PROVIDER"
          \/ requirement = "provider_transaction_verified" /\ target # "PROVIDER" ->
         "REQUIREMENT_NOT_ACTIONABLE"
    [] OTHER -> "DRAFT_ONLY"

(***************************************************************************)
(* buildCaseWorkspaceViewModel: the four steps of the journey and the      *)
(* verification gap.  The last step is a constant of the code.             *)
(***************************************************************************)
SeedClaimAuthenticated(d) ==
  \E c \in d.claims : c.id = <<"seed", <<"refund", "processed">>>> /\ Has(c, "AUTHENTICATES_ASSERTION")

Journey(d) ==
  [merchantClaim     |-> IF SeedClaimAuthenticated(d) THEN "AUTHENTICATED_CLAIM" ELSE "UNVERIFIED",
   refundTransaction |-> IF d.transactions # {} THEN "VERIFIED" ELSE "UNVERIFIED",
   processorStatus   |-> IF d.transactions # {} THEN "VERIFIED" ELSE "UNKNOWN",
   customerReceived  |-> "UNKNOWN"]

WorkspaceGap(d) ==
  IF Gaps(d) = {} THEN "NONE"
  ELSE IF d.transactions # {} THEN "CUSTOMER_OUTCOME" ELSE "PROVIDER"

\* Mutant: any analysis of the case counts as current.
AnalysisShownLatest(run, version) ==
  [freshness |-> IF run.basedOn <= version THEN "CURRENT" ELSE "STALE",
   passed |-> run.outcome = "SUCCEEDED_VALID"]

\* The freshness and standing the workspace gives an analysis at the current version.
AnalysisShown(run, version) ==
  [freshness |-> IF run.basedOn = version THEN "CURRENT" ELSE "STALE",
   passed |-> run.outcome = "SUCCEEDED_VALID"]
=============================================================================
