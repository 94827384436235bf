---------------------------- MODULE MCCertManager ----------------------------
EXTENDS CertManager, TLC

CONSTANTS site, wild, p1, p2

(* wild is the wildcard name that covers site. *)
SiteAndWildcard == {site, wild}

Wildcards == (site :> wild) @@ (wild :> Nil)

Cert(i, ds, p) == [id |-> i, doms |-> ds, pair |-> p]

(* A certificate for both names, and two versions of another one (with the   *)
(* same tenant and serial) that give up one name for the other: they compete *)
(* for each.                                                                 *)
Reissued == {Cert(1, {site, wild}, p1), Cert(2, {site}, p1), Cert(2, {wild}, p2)}
=============================================================================
