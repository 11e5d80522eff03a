--------------------------- MODULE MCProviderKeys ---------------------------
EXTENDS ProviderKeys, TLC

CONSTANTS k1, k2

DistinctEndings == k1 :> 1 @@ k2 :> 2

Alike == Permutations(Handlers)
=============================================================================
