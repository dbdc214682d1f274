----------------------------- MODULE MCMemPool ------------------------------
(***************************************************************************)
(* Two branches above height 10: A1 with the chain t1, t2, then A2, against  *)
(* the heavier B1, with as much work as A2, and B2.  t1 and t3 spend the     *)
(* same output; t4 spends t2 and a coinbase that is mature from height 11    *)
(* on, t5 spends t2 and t4.  t6 spends the coinbase of A1, from height 12    *)
(* on.                                                                     *)
(***************************************************************************)
EXTENDS MemPool, TLC

CONSTANTS c0, c1, cA, t1, t2, t3, t4, t5, t6, root, A1, A2, B1, B2

McTxs == {c0, c1, cA, t1, t2, t3, t4, t5, t6}
McCoinbases == {c0, c1, cA}
McOutputs == {0, 1}
McOuts == [t \in McTxs |-> IF t \in {c0, t2} THEN {0, 1} ELSE {0}]
McInputs ==
  [t \in McTxs |-> CASE t \in {t1, t3} -> {<<c0, 0>>}
                     [] t = t2 -> {<<t1, 0>>}
                     [] t = t4 -> {<<t2, 0>>, <<c1, 0>>}
                     [] t = t5 -> {<<t2, 1>>, <<t4, 0>>}
                     [] t = t6 -> {<<cA, 0>>}
                     [] OTHER -> {}]
McBlocks == {root, A1, A2, B1, B2}
McParent == root :> root @@ A1 :> root @@ A2 :> A1 @@ B1 :> root @@ B2 :> B1
McPath ==
  root :> {root} @@ A1 :> {root, A1} @@ A2 :> {root, A1, A2}
    @@ B1 :> {root, B1} @@ B2 :> {root, B1, B2}
McHeight == root :> 10 @@ A1 :> 11 @@ A2 :> 12 @@ B1 :> 11 @@ B2 :> 12
McChainWork == root :> 0 @@ A1 :> 1 @@ A2 :> 3 @@ B1 :> 3 @@ B2 :> 5
McBlockTxs ==
  [b \in McBlocks |-> CASE b = A1 -> <<cA, t1, t2>> [] b = B1 -> <<t3>> [] OTHER -> <<>>]
McRootTxs == {c0, c1}
McRootCoins == [t \in McTxs |-> IF t \in {c0, c1} THEN McOuts[t] ELSE {}]
McBornAt == c0 :> 5 @@ c1 :> 10 @@ cA :> 11
McPolicies ==
  {[early |-> {}, late |-> {}, cheap |-> {}], [early |-> {}, late |-> {t2}, cheap |-> {}],
   [early |-> {t1}, late |-> {}, cheap |-> {t4}]}
McOnePolicy == {[early |-> {}, late |-> {}, cheap |-> {}]}
=============================================================================
