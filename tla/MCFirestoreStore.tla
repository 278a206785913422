-------------------------- MODULE MCFirestoreStore --------------------------
(***************************************************************************)
(* Small instances of FirestoreStore.                                      *)
(***************************************************************************)
EXTENDS FirestoreStore, TLC

MCProviderEvents ==
  { [id |-> <<"provider", "evt1">>, kind |-> "PROVIDER_REFUND_OBSERVED", stamp |-> 1,
     subject |-> <<"resolvia_demo_provider", "re1">>, value |-> "succeeded"] }

MCRequestedType == [r \in PartnerRequests |-> "CUSTOMER_RECEIPT"]
MCResponseStatus == [a \in Responses |-> "CONFIRMED"]
MCStamps == {1}

Symmetry == Permutations(Processes)
=============================================================================
