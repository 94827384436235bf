------------------------------- MODULE MCAcme -------------------------------
EXTENDS Acme, TLC

CONSTANTS site, p1, p2

OneSite == {site}

NoWildcard == site :> Nil

(* The authority issues a certificate of id 1 for any name (once: a second   *)
(* provisioning fails at its order), one of id 2 is uploaded by hand.        *)
Certificates == {[id |-> i, doms |-> {d}, pair |-> IF i = 1 THEN p1 ELSE p2] :
                    i \in Ids, d \in Domains}
=============================================================================
