---------------------------- MODULE MCBlockChain ----------------------------
(* A tree of two branches from the genesis block; every block has work 1.  *)
EXTENDS BlockChain

CONSTANTS G, A1, A2, B1, B2, B3

MCBlocks == {G, A1, A2, B1, B2, B3}

MCParent == [b \in MCBlocks |->
  CASE b \in {G, A1, B1} -> G [] b = A2 -> A1 [] b = B2 -> B1 [] b = B3 -> B2]

MCPath == [b \in MCBlocks |->
  CASE b = G -> {G} [] b = A1 -> {G, A1} [] b = A2 -> {G, A1, A2}
    [] b = B1 -> {G, B1} [] b = B2 -> {G, B1, B2} [] b = B3 -> {G, B1, B2, B3}]

MCWork == [b \in MCBlocks |-> Cardinality(MCPath[b])]

Order(s) == [b \in MCBlocks |-> CHOOSE n \in 1 .. Len(s) : s[n] = b]

\* Two orders in memory: after a restart A1 or B1 is taken first, whichever came first.
MCAddresses == {Order(<<G, A1, A2, B1, B2, B3>>), Order(<<G, B1, B2, B3, A1, A2>>)}
=============================================================================
