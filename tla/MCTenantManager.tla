--------------------------- MODULE MCTenantManager ---------------------------
EXTENDS TenantManager, TLC

Interchangeable ==
    Permutations(Ids) \union Permutations(Domains) \union Permutations(Contents)
=============================================================================
