--------------------------- MODULE MCCreditLedger ---------------------------
(* CreditLedger with the nodes of one operator and nodes bound to none.    *)
EXTENDS CreditLedger, TLC

CONSTANTS Operator, Fleet

MCOperatorOf == [n \in Nodes |-> IF n \in Fleet THEN Operator ELSE NoOperator]

Symmetric == Permutations(Handlers) \union Permutations(Nonces) \union Permutations(Fleet)

=============================================================================
