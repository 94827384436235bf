----------------------------- MODULE MCMetrics -----------------------------
EXTENDS Metrics, TLC

Interchangeable == Permutations(Tenants) \union Permutations(Recorders)
=============================================================================
