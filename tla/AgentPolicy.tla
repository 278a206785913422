----------------------------- MODULE AgentPolicy -----------------------------
(***************************************************************************)
(* What stands between the Gemini agent and the store, as functions of a   *)
(* bundle: the bounded input the agent gets, the canonical proposal the    *)
(* adapter makes of its structured answer, the validation of a proposal    *)
(* against the case and its truth graph, the AgentRun record that keeps    *)
(* the outcome, and the store's acceptance of that record.                 *)
(*                                                                         *)
(* A bundle holds one case, so the errors about records of another case    *)
(* cannot occur here; an id that is not of this case is a missing one.     *)
(***************************************************************************)
EXTENDS CaseProjection

CONSTANTS
  PartyLimit,      \* parties in an input (25 in the code)
  ReferenceLimit,  \* claims, evidence and gaps in an input, ids in a record (50)
  EventLimit,      \* events in an input (100)
  ObservedLimit,   \* observed gaps in a proposal (25)
  Nobody           \* no target party

ASSUME PolicyAssumption ==
  /\ {PartyLimit, ReferenceLimit, EventLimit, ObservedLimit} \subseteq Nat \ {0}
  /\ Nobody \notin Party

ActionType ==
  {"REVIEW_EXISTING_EVIDENCE", "WAIT_FOR_NEW_EVIDENCE", "REQUEST_USER_EVIDENCE",
   "PREPARE_EXTERNAL_FOLLOW_UP", "REFER_TO_HUMAN_REVIEW", "NO_PERMITTED_ACTION"}

RequiredApproval ==
  [a \in ActionType |->
     CASE a \in {"REVIEW_EXISTING_EVIDENCE", "WAIT_FOR_NEW_EVIDENCE"} -> "SAFE_INTERNAL"
       [] a = "NO_PERMITTED_ACTION" -> "OUT_OF_SCOPE_HIGH_RISK"
       [] OTHER -> "USER_APPROVAL_REQUIRED"]

RequiresTarget == {"REQUEST_USER_EVIDENCE", "PREPARE_EXTERNAL_FOLLOW_UP"}

\* The parties of a kind of target: the customer, or anybody else.
Customers(parties) == parties \cap {"customer"}
Others(parties) == parties \ {"customer"}

(***************************************************************************)
(* buildAgentResolutionInput.  Records are taken in the order of their     *)
(* ids, evidence that is about a claim first, up to the limits; which ids  *)
(* come first is left open.                                                *)
(***************************************************************************)
Upto(records, limit) ==
  IF Cardinality(records) <= limit THEN records
  ELSE CHOOSE some \in SUBSET records : Cardinality(some) = limit

SelectedEvidence(d) ==
  LET relevant == { ev \in d.evidence : ev.about # {} }
      first    == Upto(relevant, ReferenceLimit)
  IN  first \cup Upto(d.evidence \ relevant, ReferenceLimit - Cardinality(first))

\* The gaps that lead from a claim, through the edges of the truth graph.
ProjectedGaps(d) ==
  LET edges    == TruthEdges(d)
      gaps     == Gaps(d)
      results  == { e \in edges : e.kind = "RESULTED_IN" /\ e.to \in gaps }
      expected == { e \in edges : e.kind = "EXPECTED_TO_VERIFY" }
  IN  { [gap |-> p[1].to, claim |-> p[1].from[2], expected |-> p[2].from] :
          p \in { q \in results \X expected : q[1].from = q[2].to } }

ActionPolicy(parties, gaps) ==
  { [code |-> a, targets |-> CASE a = "REQUEST_USER_EVIDENCE"      -> Customers(parties)
                               [] a = "PREPARE_EXTERNAL_FOLLOW_UP" -> Others(parties)
                               [] OTHER                            -> {}] :
      a \in { x \in ActionType :
                /\ x = "WAIT_FOR_NEW_EVIDENCE" => gaps # {}
                /\ x = "REQUEST_USER_EVIDENCE" => Customers(parties) # {}
                /\ x = "PREPARE_EXTERNAL_FOLLOW_UP" => Others(parties) # {} } }

BuildInput(d) ==
  LET gaps == Upto(ProjectedGaps(d), ReferenceLimit) IN
  [version |-> d.kase.version,
   policy |-> ActionPolicy(d.kase.parties, gaps),
   parties |-> Upto(d.kase.parties, PartyLimit),
   claims |-> { [id |-> c.id, status |-> EvaluateClaimStatus(c), relationships |-> Relationships(c)] :
                  c \in Upto(d.claims, ReferenceLimit) },
   evidence |-> SelectedEvidence(d),
   events |-> Upto(IdsOf(d.events), EventLimit),
   gaps |-> gaps]

(***************************************************************************)
(* canonicalizeGeminiResolutionProposal.  The model answers with a         *)
(* transport record: the version it read, an action, its target, and the   *)
(* evidence and gaps it cites.  Claim truth, blocker and observed gaps     *)
(* come from the input, never from the answer.                             *)
(***************************************************************************)
Transport(version, action, target, evidence, gaps) ==
  [version |-> version, action |-> action, target |-> target, evidence |-> evidence, gaps |-> gaps]

InputClaims(input, statuses) == IdsOf({ c \in input.claims : c.status \in statuses })
InputEvidence(input, level) == IdsOf({ ev \in input.evidence : ev.level = level })

DerivedAssessment(input) ==
  [authenticated |-> IdsOf({ c \in input.claims :
                               \E r \in c.relationships : r.kind = "AUTHENTICATES_ASSERTION" }),
   supported |-> InputClaims(input, {"SUPPORTED", "PARTIALLY_VERIFIED"}),
   contradicted |-> InputClaims(input, {"CONTRADICTED", "PARTIALLY_VERIFIED"}),
   unknown |-> InputClaims(input, {"UNVERIFIED"}),
   provider |-> InputEvidence(input, "PROVIDER_VERIFIED"),
   demoProvider |-> InputEvidence(input, "DEMO_PROVIDER_VERIFIED")]

DerivedBlocker(input) ==
  LET contradicted == DerivedAssessment(input).contradicted
      claims       == { g.claim : g \in input.gaps } \cup contradicted
  IN  [code |-> IF contradicted # {} THEN "CONTRADICTORY_EVIDENCE"
                ELSE IF input.gaps # {} THEN "MISSING_SUPPORTING_EVIDENCE"
                ELSE "NO_CURRENT_BLOCKER",
       claims |-> claims,
       evidence |-> IdsOf({ ev \in input.evidence : ev.about \cap claims # {} }),
       gaps |-> { g.gap : g \in input.gaps }]

GroundedClaims(transport, input) ==
  (UNION { ev.about : ev \in { x \in input.evidence : x.id \in transport.evidence } })
    \cup { g.claim : g \in { x \in input.gaps : x.gap \in transport.gaps } }

CanonicalProposal(transport, input) ==
  [version |-> transport.version,
   assessment |-> DerivedAssessment(input),
   blocker |-> DerivedBlocker(input),
   action |-> [type |-> transport.action, target |-> transport.target,
               claims |-> GroundedClaims(transport, input), evidence |-> transport.evidence,
               gaps |-> transport.gaps, approval |-> RequiredApproval[transport.action]],
   observed |-> input.gaps]

\* The bounds AgentResolutionProposalSchema puts on a canonical proposal.
ProposalSchemaOK(p) ==
  /\ p.version \in Nat \ {0}
  /\ Cardinality(p.observed) <= ObservedLimit
  /\ \A field \in DOMAIN p.assessment : Cardinality(p.assessment[field]) <= ReferenceLimit
  /\ \A part \in {p.blocker, p.action} :
       \A ids \in {"claims", "evidence", "gaps"} : Cardinality(part[ids]) <= ReferenceLimit

(***************************************************************************)
(* proposeResolution.  A reply is what the provider's event stream comes   *)
(* to: an exception, the abort of the deadline or a provider error with    *)
(* its codes; or the final events, one at most of which is read.  A final  *)
(* text is too large, unparsable, of another schema, or a transport.       *)
(***************************************************************************)
QuotaCodes == {"429", "RESOURCE_EXHAUSTED"}
SchemaCodes == {"400", "INVALID_ARGUMENT"}
ConfigurationCodes ==
  {"401", "403", "404", "UNAUTHENTICATED", "PERMISSION_DENIED", "NOT_FOUND", "FAILED_PRECONDITION"}

Thrown(aborted, codes) == [kind |-> "thrown", aborted |-> aborted, codes |-> codes]
Finals(texts) == [kind |-> "finals", texts |-> texts]
Text(kind) == [kind |-> kind]
Answered(transport) == [kind |-> "transport", transport |-> transport]

Failed(outcome) == [kind |-> "FAILURE", outcome |-> outcome]
Proposed(p) == [kind |-> "PROPOSAL", proposal |-> p]

\* The replies that carry no transport: codes of every class, and of two at once.
Failures ==
  [kind : {"thrown"}, aborted : BOOLEAN, codes : {{}, {"429", "400"}, {"400"}, {"404"}}]
    \cup [kind : {"finals"},
          texts : {<<>>, <<Text("too large")>>, <<Text("unparsable")>>, <<Text("foreign")>>}]

ProviderFailure(reply) ==
  CASE reply.aborted -> "FAILED_TIMEOUT"
    [] ~reply.aborted /\ reply.codes \cap QuotaCodes # {} -> "FAILED_QUOTA"
    [] ~reply.aborted /\ reply.codes \cap QuotaCodes = {}
         /\ reply.codes \cap SchemaCodes # {} -> "FAILED_SCHEMA"
    [] ~reply.aborted /\ reply.codes \cap (QuotaCodes \cup SchemaCodes) = {}
         /\ reply.codes \cap ConfigurationCodes # {} -> "FAILED_CONFIGURATION"
    [] OTHER -> "FAILED_NETWORK"

JudgedText(text, input) ==
  CASE text.kind \in {"too large", "unparsable"} -> Failed("FAILED_MALFORMED_OUTPUT")
    [] text.kind = "foreign" -> Failed("FAILED_SCHEMA")
    [] text.kind = "transport" ->
         LET p == CanonicalProposal(text.transport, input)
         IN  IF ProposalSchemaOK(p) THEN Proposed(p) ELSE Failed("FAILED_SCHEMA")

ProposeResolution(reply, input) ==
  CASE reply.kind = "thrown" -> Failed(ProviderFailure(reply))
    [] reply.kind = "finals" /\ Len(reply.texts) # 1 -> Failed("FAILED_MALFORMED_OUTPUT")
    [] reply.kind = "finals" /\ Len(reply.texts) = 1 -> JudgedText(reply.texts[1], input)

(***************************************************************************)
(* validateAgentResolutionProposal: the set of error codes.                *)
(***************************************************************************)
ReferenceErrorCode == {"MISSING_REFERENCE", "UNKNOWN_VERIFICATION_GAP"}

When(condition, code) == IF condition THEN {code} ELSE {}

ProposalClaims(p) ==
  p.assessment.authenticated \cup p.assessment.supported \cup p.assessment.contradicted
    \cup p.assessment.unknown \cup p.blocker.claims \cup p.action.claims
    \cup { g.claim : g \in p.observed }

ProposalEvidence(p) ==
  p.assessment.provider \cup p.assessment.demoProvider \cup p.blocker.evidence \cup p.action.evidence

ProposalGaps(p) == p.blocker.gaps \cup p.action.gaps \cup { g.gap : g \in p.observed }

ReferenceErrors(p, d) ==
  When(\/ ~(ProposalClaims(p) \subseteq IdsOf(d.claims))
       \/ ~(ProposalEvidence(p) \subseteq IdsOf(d.evidence))
       \/ p.action.target \notin d.kase.parties \cup {Nobody}, "MISSING_REFERENCE")
    \cup When(~(ProposalGaps(p) \subseteq Gaps(d)), "UNKNOWN_VERIFICATION_GAP")

StoredAssessment(d) ==
  [authenticated |-> IdsOf({ c \in d.claims : Has(c, "AUTHENTICATES_ASSERTION") }),
   supported |-> ClaimsWith(d, {"SUPPORTED", "PARTIALLY_VERIFIED"}),
   contradicted |-> ClaimsWith(d, {"CONTRADICTED", "PARTIALLY_VERIFIED"}),
   unknown |-> ClaimsWith(d, {"UNVERIFIED"}),
   provider |-> IdsOf({ ev \in d.evidence : ev.level = "PROVIDER_VERIFIED" }),
   demoProvider |-> IdsOf({ ev \in d.evidence : ev.level = "DEMO_PROVIDER_VERIFIED" })]

AssessmentErrors(p, d) ==
  LET stored == StoredAssessment(d)
      given  == p.assessment
  IN  When(given # stored, "ASSESSMENT_MISMATCH")
        \cup When(\/ ~(given.provider \cap IdsOf(d.evidence) \subseteq stored.provider)
                  \/ ~(given.demoProvider \cap IdsOf(d.evidence) \subseteq stored.demoProvider)
                  \/ ~(given.provider \cup given.demoProvider \subseteq IdsOf(d.evidence)),
                  "PROVIDER_VERIFICATION_PROMOTION")
        \cup When(given.supported \cap stored.authenticated \cap stored.unknown # {},
                  "AUTHENTICATION_TRUTH_PROMOTION")
        \cup When(\/ given.unknown # stored.unknown
                  \/ (given.supported \cup given.contradicted) \cap stored.unknown # {},
                  "UNKNOWN_PROMOTION")

ObservedGapErrors(p, d) ==
  LET edges    == TruthEdges(d)
      gaps     == Gaps(d)
      expected == Placeholders(d, "EXPECTED_EVIDENCE")
  IN  When(\E g \in p.observed :
             \/ g.claim \notin IdsOf(d.claims) \/ g.gap \notin gaps \/ g.expected \notin expected
             \/ Edge("RESULTED_IN", <<"CLAIM", g.claim>>, g.gap) \notin edges
             \/ Edge("EXPECTED_TO_VERIFY", g.expected, <<"CLAIM", g.claim>>) \notin edges,
           "UNKNOWN_VERIFICATION_GAP")

BlockerErrors(p, d) ==
  LET unsupported == \E c \in d.claims : c.id \in p.blocker.claims /\ EvaluateClaimStatus(c) # "SUPPORTED"
      edges       == TruthEdges(d)
      matched     == \E g \in p.blocker.gaps, i \in p.blocker.claims :
                       Edge("RESULTED_IN", <<"CLAIM", i>>, g) \in edges
      open        == \/ Gaps(d) # {}
                     \/ StoredAssessment(d).contradicted # {}
  IN  When(\/ p.blocker.code = "MISSING_SUPPORTING_EVIDENCE" /\ ~(unsupported /\ matched)
           \/ p.blocker.code = "NO_CURRENT_BLOCKER" /\ open, "ASSESSMENT_MISMATCH")

\* Mutant: the kind of the target party is not looked at.
ActionErrorsAnyTarget(p, d) ==
  When(p.action.type \in RequiresTarget /\ p.action.target \notin d.kase.parties, "ACTION_NOT_ALLOWED")

ActionErrors(p, d) ==
  LET action  == p.action
      targets == CASE action.type = "REQUEST_USER_EVIDENCE"      -> Customers(d.kase.parties)
                   [] action.type = "PREPARE_EXTERNAL_FOLLOW_UP" -> Others(d.kase.parties)
                   [] OTHER                                      -> {Nobody}
  IN  When(action.approval # RequiredApproval[action.type], "APPROVAL_LEVEL_MISMATCH")
        \cup When(\/ action.target \notin targets
                  \/ action.type = "WAIT_FOR_NEW_EVIDENCE" /\ action.gaps = {}, "ACTION_NOT_ALLOWED")

ValidationErrors(p, d) ==
  When(p.version # d.kase.version, "STALE_CASE_VERSION")
    \cup ReferenceErrors(p, d) \cup AssessmentErrors(p, d) \cup ObservedGapErrors(p, d)
    \cup BlockerErrors(p, d) \cup ActionErrors(p, d)

(***************************************************************************)
(* buildAgentRun.  An answer is a technical failure or a proposal; one     *)
(* whose case has moved on is kept as stale without further validation.    *)
(***************************************************************************)
NoAnalysis == [kind |-> "none"]
RetainedAnalysis(p) ==
  [kind |-> "kept", assessment |-> p.assessment, claims |-> ProposalClaims(p),
   evidence |-> ProposalEvidence(p), gaps |-> ProposalGaps(p), target |-> p.action.target]

Run(input, outcome, errors, analysis) ==
  [basedOn |-> input.version, outcome |-> outcome, errors |-> errors, analysis |-> analysis,
   supplied |-> [parties |-> input.parties, claims |-> IdsOf(input.claims),
                 evidence |-> IdsOf(input.evidence), events |-> input.events,
                 gaps |-> { g.gap : g \in input.gaps }]]

JudgedRun(input, p, errors) ==
  Run(input, IF errors = {} THEN "SUCCEEDED_VALID" ELSE "REJECTED_VALIDATION", errors,
      IF errors \cap ReferenceErrorCode = {} THEN RetainedAnalysis(p) ELSE NoAnalysis)

\* Mutant: a case that moved on is judged again, without the mark of a stale run.
BuildAgentRunUnmarked(input, answer, d) ==
  IF answer.kind = "FAILURE" THEN Run(input, answer.outcome, {}, NoAnalysis)
  ELSE JudgedRun(input, answer.proposal,
                 ValidationErrors([answer.proposal EXCEPT !.version = d.kase.version], d))

BuildAgentRun(input, answer, d) ==
  IF answer.kind = "FAILURE" THEN Run(input, answer.outcome, {}, NoAnalysis)
  ELSE JudgedRun(input, answer.proposal,
                 IF d.kase.version # input.version THEN {"STALE_CASE_VERSION"}
                                                   ELSE ValidationErrors(answer.proposal, d))

\* AgentRunRecordSchema: the bounds on the ids, and which outcomes keep an analysis.
RunSchemaOK(run) ==
  /\ \A field \in DOMAIN run.supplied : Cardinality(run.supplied[field]) <= ReferenceLimit
  /\ CASE run.outcome = "SUCCEEDED_VALID" -> run.errors = {} /\ run.analysis # NoAnalysis
       [] run.outcome = "REJECTED_VALIDATION" ->
            run.errors # {} /\ (run.errors \cap ReferenceErrorCode # {} => run.analysis = NoAnalysis)
       [] OTHER -> run.errors = {} /\ run.analysis = NoAnalysis

(***************************************************************************)
(* applyAgentRunMutation: only the run is stored, the case is untouched.   *)
(***************************************************************************)
ValidRunVersion(run, d) ==
  LET stale == "STALE_CASE_VERSION" \in run.errors IN
  /\ run.basedOn <= d.kase.version
  /\ run.outcome = "SUCCEEDED_VALID" => run.basedOn = d.kase.version
  /\ run.outcome = "REJECTED_VALIDATION" => (stale <=> run.basedOn < d.kase.version)

SuppliedReferencesValid(run, d) ==
  /\ run.supplied.parties \subseteq d.kase.parties
  /\ run.supplied.claims \subseteq IdsOf(d.claims)
  /\ run.supplied.evidence \subseteq IdsOf(d.evidence)
  /\ run.supplied.events \subseteq IdsOf(d.events)
  /\ run.supplied.gaps \subseteq Gaps(d)

RetainedReferencesValid(run) ==
  run.analysis # NoAnalysis =>
    /\ run.analysis.claims \subseteq run.supplied.claims
    /\ run.analysis.evidence \subseteq run.supplied.evidence
    /\ run.analysis.gaps \subseteq run.supplied.gaps
    /\ run.analysis.target \in run.supplied.parties \cup {Nobody}

AppendResult(d, run, expected) ==
  IF expected # d.kase.version THEN "VERSION_CONFLICT"
  ELSE IF ValidRunVersion(run, d) /\ SuppliedReferencesValid(run, d) /\ RetainedReferencesValid(run)
    THEN "COMMITTED"
  ELSE "CASE_INTEGRITY_ERROR"
=============================================================================
