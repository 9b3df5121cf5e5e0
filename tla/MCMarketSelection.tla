-------------------------- MODULE MCMarketSelection --------------------------
EXTENDS MarketSelection, TLC

Interchangeable == Permutations(Symbols)
=============================================================================
