------------------------------- MODULE MCMining -------------------------------
(***************************************************************************)
(* Small instances of Mining: the tokens and blocks of MCBlockchains.      *)
(***************************************************************************)
EXTENDS Mining, MCBlockchains

\* The chain of matches is as long as MaxHeight at first, so that blocks are only
\* mined for the two tokens, which keeps the instances small.
TwoTokens == <<Of(M, <<CreateA>>), Of(M, <<CreateB>>)>>

\* Transactions that do not depend on each other.
TransferA1 == ATransfer(A, 1, 1, "u", "v")
TransferA2 == ATransfer(A, 2, 2, "u", "v")
Independent == {TransferA1, TransferA2}

\* The second is only accepted once the first is.
Dependent == {TransferA1, ATransfer(A, 2, 1, "v", "u")}

\* Two tokens traded once: a rollback of either token undoes its order, and with
\* it the match on the chain of matches.
TradedTokens == <<Of(M, <<CreateA>>), Of(M, <<CreateB>>), Of(A, <<SellA>>),
                  Of(B, <<SellB1>>), Of(M, <<Match1>>),
                  Of(B, <<ATransfer(B, 3, 1, "v", "u")>>)>>

PeerTransfer == {Of(A, <<ATransfer(A, 3, 1, "u", "v")>>)}

=============================================================================
