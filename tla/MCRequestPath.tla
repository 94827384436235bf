---------------------------- MODULE MCRequestPath ----------------------------
EXTENDS RequestPath, TLC

CONSTANTS site, wild

(* Tenants claim wild, the wildcard name that covers site ("*.example.com",  *)
(* which is its own wildcard name, too); site itself nobody claims.  There   *)
(* is one name to claim and two tenants: each may take it from the other.    *)
Wildcard == {wild}

SiteAndWildcard == {site, wild}

Wildcards == (site :> wild) @@ (wild :> wild)

Alike == Permutations(Ids) \union Permutations(Requests) \union Permutations(Txs)

(* What the requests see of the tenants: not the rows, which with PostgreSQL *)
(* nothing reads back.  They make a difference only to whether DeleteTenant  *)
(* or DeleteUnsaved is possible, which do the same to the maps.              *)
Seen == <<tenants, domains, wafs, closing, requestVars>>
=============================================================================
