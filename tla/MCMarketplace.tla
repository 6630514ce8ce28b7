--------------------------- MODULE MCMarketplace ---------------------------
(* Marketplace for TLC: providers and fund requests are interchangeable.    *)
EXTENDS Marketplace, TLC

Interchangeable == Permutations(Providers) \cup Permutations(Funders)
=============================================================================
