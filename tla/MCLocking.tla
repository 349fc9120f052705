------------------------------- MODULE MCLocking -------------------------------
(***************************************************************************)
(* Three goroutines: two peers are reconciled with, or one while another   *)
(* reads, and the node mines, or a client offers a transaction, a cancel   *)
(* to sign, or asks for a book.                                            *)
(***************************************************************************)
EXTENDS Locking, TLC

MCJobsOf == (1 :> {"reconcileChain"}) @@ (2 :> {"reconcileChain", "Read"})
              @@ (3 :> {"ApplyLoop", "AddTransaction", "CancelOrder", "GetBook"})

=============================================================================
