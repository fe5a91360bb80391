----------------------------- MODULE MCIndexQueue -----------------------------
EXTENDS IndexQueue, TLC

Interchangeable == Permutations(Nodes) \cup Permutations(Docs)
=============================================================================
