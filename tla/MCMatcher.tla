------------------------------- MODULE MCMatcher -------------------------------
(***************************************************************************)
(* A small instance of Matcher: the tokens of MCBlockchains, created in    *)
(* the genesis block so that no fork removes them, and orders of which one *)
(* is filled by two others.                                                *)
(***************************************************************************)
EXTENDS Matcher, MCBlockchains

\* v sells B twice, at 2 A and at 1 A for one B.
TwoBuyers == <<Of(M, <<CreateA, CreateB>>), Of(B, <<SellB1>>), Of(B, <<SellB2>>)>>

\* u sells A to one of them only, or to both; a peer has matched the first.
PeerOrders == {Of(A, <<AnOrder(A, 1, B, 2, 1, "u")>>), Of(A, <<SellA>>),
               Of(M, <<AMatch(5, 1, 1, 2, 1, 1)>>)}

=============================================================================
