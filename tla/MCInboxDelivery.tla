----------------------------- MODULE MCInboxDelivery -----------------------------
(***************************************************************************)
(* Small instances of InboxDelivery for TLC.                               *)
(***************************************************************************)
EXTENDS InboxDelivery, TLC

CONSTANTS request, reminder, other, alice, bob, carol

\* Alice asks Bob and reminds him; a client of hers reuses the nonce for Carol.
MCSender == [l \in Letters |-> alice]
MCNonce == [l \in Letters |-> IF l = reminder THEN 2 ELSE 1]
MCRecipient == [l \in Letters |-> IF l = other THEN carol ELSE bob]
MCObject == [l \in Letters |-> 1]

=============================================================================
