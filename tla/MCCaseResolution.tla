-------------------------- MODULE MCCaseResolution --------------------------
(***************************************************************************)
(* Small instances of CaseResolution.                                      *)
(***************************************************************************)
EXTENDS CaseResolution, TLC

Observed(n, provider, refund, status) ==
  [id |-> <<"provider", n>>, kind |-> "PROVIDER_REFUND_OBSERVED", stamp |-> 1,
   subject |-> <<provider, refund>>, value |-> status]

Updated(n, provider, refund, status) ==
  [Observed(n, provider, refund, status) EXCEPT !.kind = "PROVIDER_REFUND_STATUS_UPDATED"]

MCProviders == {"stripe", "resolvia_demo_provider"}
MCRefunds == {"re1"}
MCProviderEventIds == {"evt1", "evt2"}

\* The succeeded refund of the demo provider, and a pending refund of Stripe.
MCTwoProviders == { Observed("evt1", "resolvia_demo_provider", "re1", "succeeded"),
                    Observed("evt2", "stripe", "re1", "pending") }

\* A refund observed by Stripe and updated later.
MCStripeUpdate == { Observed("evt1", "stripe", "re1", "pending"),
                    Updated("evt2", "stripe", "re1", "succeeded") }

MCOneProvider == { Observed("evt1", "resolvia_demo_provider", "re1", "succeeded") }

MCRequestedType == [r \in PartnerRequests |-> "CUSTOMER_RECEIPT"]
MCResponses == {"yes", "no"}
MCResponseStatus == [a \in Responses |-> IF a = "no" THEN "NOT_CONFIRMED" ELSE "CONFIRMED"]
MCYes == {"yes"}

MCRequests1 == {"r1"}
MCRequests2 == {"r1", "r2"}
MCStamps1 == {1}
MCStamps2 == {1, 2}

\* What a caller may do around the resolution of a case; the trigger that lets a caller
\* declare the resolution evidence satisfied is left to automation.
MCClosingTriggers ==
  {"RESOLUTION_PROVISIONAL", "RESOLUTION_EVIDENCE_INVALIDATED", "CASE_REOPENED", "CASE_CLOSED"}
MCNoTriggers == {}

Symmetry == Permutations(Handlers) \cup Permutations(Workers)
=============================================================================
