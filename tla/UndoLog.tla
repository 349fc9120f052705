------------------------------- MODULE UndoLog -------------------------------
(***************************************************************************)
(* What a list of uncommitted transactions promises to its users: a stack  *)
(* of ledgers.  Adding a transaction pushes the ledger it results in,      *)
(* undoing one uncovers the ledger that was there before it, unchanged,    *)
(* and when the list is dropped the top is kept and the past forgotten.    *)
(***************************************************************************)
EXTENDS Sequences, Naturals

CONSTANT Ledgers

VARIABLE stack

Init == stack \in [1 .. 1 -> Ledgers]

Push == \* a ledger on top of the stack
  /\ Len(stack') = Len(stack) + 1
  /\ stack'[Len(stack')] \in Ledgers
  /\ stack = SubSeq(stack', 1, Len(stack))

Pop == /\ Len(stack) > 1
       /\ stack' = SubSeq(stack, 1, Len(stack) - 1)

Forget == stack' = <<stack[Len(stack)]>>

Next == Push \/ Pop \/ Forget

Spec == Init /\ [][Next]_stack

=============================================================================
