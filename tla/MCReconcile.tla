---------------------------- MODULE MCReconcile ----------------------------
(***************************************************************************)
(* Instances of Reconcile for TLC.                                         *)
(***************************************************************************)
EXTENDS Reconcile, TLC

CONSTANTS a, b

Chain(hashes) ==
    [i \in 1 .. Len(hashes) |->
        [hash |-> hashes[i], prev |-> IF i = 1 THEN NoHash ELSE hashes[i - 1]]]

\* Two nodes with a block in common that went on from it on their own.
Forked == a :> Chain(<<0, 1, 2, 3>>) @@ b :> Chain(<<0, 1, 4>>)

\* The first node was there before the second, whose seed it is.
SeedsOfB == a :> {} @@ b :> {a}

=============================================================================
