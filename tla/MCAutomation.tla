----------------------------- MODULE MCAutomation -----------------------------
(***************************************************************************)
(* Small instances of Automation: one provider event and the answer to one *)
(* partner request.                                                        *)
(***************************************************************************)
EXTENDS Automation, TLC

MCProviderEvents ==
  { [id |-> <<"provider", "evt1">>, kind |-> "PROVIDER_REFUND_OBSERVED", stamp |-> 1,
     subject |-> <<"resolvia_demo_provider", "re1">>, value |-> "succeeded"] }

MCRequestedType == [r \in PartnerRequests |-> "CUSTOMER_RECEIPT"]
MCResponseStatus == [a \in Responses |-> IF a = "no" THEN "NOT_CONFIRMED" ELSE "CONFIRMED"]
MCStamps == {1}

\* The agent asks the customer and takes the case for one with both of its events: the version
\* it names is that of its input, or one the case has yet to reach, or has left.
MCAnswers ==
  { [version |-> SeededCase.kase.version + 2, action |-> "REQUEST_USER_EVIDENCE",
     target |-> "customer", known |-> TRUE, gaps |-> TRUE] }

\* Or its deadline passes.
MCOutages == {Thrown(TRUE, {})}

Symmetry == Permutations(Workers)
=============================================================================
