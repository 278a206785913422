--------------------------- MODULE MCDemoWebhook ---------------------------
EXTENDS DemoWebhook, TLC

Valid(nonce, event, body, timestamp) ==
  [media |-> TRUE, length |-> "fits", utf8 |-> TRUE, signed |-> TRUE, canonical |-> TRUE,
   nonce |-> nonce, event |-> event, body |-> body, timestamp |-> timestamp]

\* Two messages that reuse one nonce, and each way a request is refused.
MCRequests ==
  LET first == Valid("n1", "e1", "b1", 0)
  IN { first, Valid("n1", "e2", "b2", 1),
       [first EXCEPT !.length = "too_large"],
       [first EXCEPT !.signed = FALSE] }

Symmetry == Permutations(Instances)
==============================================================================
