------------------------------ MODULE AcmeProofs ------------------------------
EXTENDS Acme, CertManagerProofs

(***************************************************************************)
(* The provisionings are uploaders like others to the certificate manager. *)
(***************************************************************************)
LEMMA AcmeIsCertStep == [AcmeNext]_<<vars, acmeVars>> => [Next]_vars
<1> SUFFICES ASSUME AcmeNext PROVE [Next]_vars
  OBVIOUS
<1>1. ASSUME NEW p \in Provisioners, NEW c \in Offered, Finalize(p, c) PROVE Next
  BY <1>1, ProvisionersAssumption DEF Finalize, Next
<1>2. ASSUME NEW u \in Uploaders, StoreCert(u) \/ UploadFails(u) PROVE Next
  BY <1>2 DEF StoreCert, StoreFiles, StoreDomain, UploadFails, Next
<1>3. ASSUME NEW u \in Uploaders, NEW c \in Offered, UploadByHand(u, c) PROVE Next
  BY <1>3 DEF UploadByHand, Next
<1>4. ASSUME NEW i \in Ids, Delete(i) PROVE Next
  BY <1>4 DEF Delete, Next
<1>5. Reboot => Next
  BY DEF Reboot, Next
<1>6. ASSUME NEW p \in Provisioners,
             \/ \E d \in Domains : Trigger(p, d)
             \/ \E t \in Tokens : Order(p, t)
             \/ Accept(p) \/ Wait(p) \/ Store(p) \/ Clean(p) \/ Fail(p)
      PROVE  UNCHANGED vars
  BY <1>6 DEF Trigger, Order, Accept, Wait, Store, Clean, Fail
<1>7. ASSUME NEW t \in Tokens, Validate(t) \/ Refuse(t) PROVE UNCHANGED vars
  BY <1>7 DEF Validate, Refuse
<1> QED
  BY <1>1, <1>2, <1>3, <1>4, <1>5, <1>6, <1>7 DEF AcmeNext

(* Provisionings of any number, and whatever the authority answers, make the *)
(* certificate manager do nothing that it would not do without them: what is *)
(* proved of CertManager holds here.                                         *)
THEOREM CertManagerGoesOn == AcmeSpec => Spec
<1>1. AcmeInit => Init
  BY DEF AcmeInit
<1> QED
  BY <1>1, AcmeIsCertStep, PTL DEF AcmeSpec, Spec

LEMMA IInvHolds == AcmeSpec => []IInv
BY CertManagerGoesOn, IInvInit, IInvStep, PTL DEF Spec

(***************************************************************************)
(* Challenges.                                                             *)
(***************************************************************************)
(* Where a provisioning stands with its token: it has one once it has        *)
(* ordered; from Store until the authority has its answer, the token is in   *)
(* the map, although another provisioning that shares it may have removed it;*)
(* and it only goes on when the authorization is valid.                      *)
Standing(p) ==
    prov[p] # Nil /\ prov[p].step # "order" =>
        /\ prov[p].token \in Tokens
        /\ authz[prov[p].token] # Nil
        /\ prov[p].step \in {"accept", "wait"} =>
               \/ prov[p].token \in challenges
               \/ authz[prov[p].token].status = "valid"
        /\ prov[p].step \in {"clean", "final"} =>
               authz[prov[p].token].status = "valid"

CInv == /\ AcmeTypeOK
        /\ \A p \in Provisioners : Standing(p)
        /\ \A t \in asked : authz[t] # Nil
        /\ Answerable
        /\ ChallengesAccounted

LEMMA ProvisioningFields ==
    /\ \A r \in Provisioning :
          /\ r.domain \in Domains /\ r.token \in Tokens \union {Nil} /\ r # Nil
          /\ r.step \in {"order", "store", "accept", "wait", "clean", "final"}
    /\ \A a \in Authorization : /\ a # Nil /\ a.domain \in Domains
                               /\ a.status \in {"pending", "processing",
                                                "valid", "invalid"}
    /\ Nil \notin Tokens
BY AcmeAssumption DEF Provisioning, Authorization

LEMMA CInvInit == AcmeInit => CInv
BY DEF AcmeInit, CInv, AcmeTypeOK, Standing, Answerable, ChallengesAccounted

(* A step of provisioning p along its way, the authority keeping still. *)
LEMMA StepOnEffect ==
    ASSUME CInv, NEW p \in Provisioners, NEW from,
           NEW to \in {"accept", "wait", "clean", "final"}, StepOn(p, from, to)
    PROVE  /\ prov' \in [Provisioners -> Provisioning \union {Nil}]
           /\ prov[p] \in Provisioning /\ prov[p].step = from
           /\ prov'[p] \in Provisioning /\ prov'[p] # Nil
           /\ prov'[p].step = to /\ prov'[p].token = prov[p].token
           /\ \A q \in Provisioners \ {p} : prov'[q] = prov[q]
<1>1. prov[p] \in Provisioning /\ prov[p].step = from
  BY DEF StepOn, CInv, AcmeTypeOK
<1> DEFINE n == [prov[p] EXCEPT !.step = to]
<1>2. n \in Provisioning /\ n.step = to /\ n.token = prov[p].token /\ n # Nil
  BY <1>1, ProvisioningFields DEF Provisioning
<1>3. prov' = [prov EXCEPT ![p] = n]
  BY DEF StepOn
<1> HIDE DEF n
<1> QED
  BY <1>1, <1>2, <1>3 DEF CInv, AcmeTypeOK

(* The authority changes the status of one authorization. *)
LEMMA AuthzEffect ==
    ASSUME CInv, NEW t \in Tokens, authz[t] # Nil,
           NEW s \in {"processing", "valid", "invalid"},
           authz' = [authz EXCEPT ![t].status = s]
    PROVE  /\ authz' \in [Tokens -> Authorization \union {Nil}]
           /\ authz'[t] # Nil /\ authz'[t].status = s
           /\ \A u \in Tokens \ {t} : authz'[u] = authz[u]
<1> DEFINE n == [authz[t] EXCEPT !.status = s]
<1>1. authz[t] \in Authorization
  BY DEF CInv, AcmeTypeOK
<1>2. n \in Authorization /\ n.status = s /\ n # Nil
  BY <1>1, ProvisioningFields DEF Authorization
<1>3. authz' = [authz EXCEPT ![t] = n]
  OBVIOUS
<1> HIDE DEF n
<1> QED
  BY <1>2, <1>3 DEF CInv, AcmeTypeOK

LEMMA TriggerStep ==
    ASSUME CInv, NEW p \in Provisioners, NEW d \in Domains, Trigger(p, d)
    PROVE  CInv'
<1> DEFINE n == [domain |-> d, token |-> Nil, step |-> "order"]
<1>1. n \in Provisioning /\ n.step = "order"
  BY DEF Provisioning
<1>2. prov' = [prov EXCEPT ![p] = n] /\ prov[p] = Nil
      /\ UNCHANGED <<challenges, authz, issued, asked, left, kept>>
  BY DEF Trigger, recorded
<1> HIDE DEF n
<1>3. /\ prov'[p] = n /\ \A q \in Provisioners \ {p} : prov'[q] = prov[q]
      /\ prov' \in [Provisioners -> Provisioning \union {Nil}]
  BY <1>1, <1>2 DEF CInv, AcmeTypeOK
<1>4. AcmeTypeOK'
  BY <1>2, <1>3 DEF CInv, AcmeTypeOK
<1>5. \A q \in Provisioners : Standing(q)'
  BY <1>1, <1>2, <1>3 DEF CInv, Standing
<1>6. Answerable' /\ \A t \in asked' : authz'[t] # Nil
  BY <1>2 DEF CInv, Answerable
<1>7. ChallengesAccounted'
  BY <1>2, <1>3 DEF CInv, ChallengesAccounted, Holds
<1> QED
  BY <1>4, <1>5, <1>6, <1>7 DEF CInv

LEMMA OrderStep ==
    ASSUME CInv, NEW p \in Provisioners, NEW t \in Tokens, Order(p, t)
    PROVE  CInv'
<1>1. prov[p] \in Provisioning /\ prov[p].step = "order" /\ prov[p] # Nil
  BY DEF Order, CInv, AcmeTypeOK
<1> DEFINE n == [prov[p] EXCEPT !.token = t, !.step = "store"]
           a == [domain |-> prov[p].domain, status |-> "pending"]
<1>2. n \in Provisioning /\ n.step = "store" /\ n.token = t /\ n # Nil
  <2>1. n \in Provisioning
    BY <1>1 DEF Provisioning
  <2>2. n.step = "store" /\ n.token = t
    BY <1>1 DEF Provisioning
  <2> HIDE DEF n
  <2> QED
    BY <2>1, <2>2, ProvisioningFields
<1>3. a \in Authorization /\ a.status = "pending" /\ a # Nil
  BY <1>1, ProvisioningFields DEF Authorization
<1>4. /\ prov' = [prov EXCEPT ![p] = n]
      /\ UNCHANGED <<challenges, issued, asked, left, kept>>
      /\ \/ authz[t] = Nil /\ authz' = [authz EXCEPT ![t] = a]
         \/ authz[t] # Nil /\ authz' = authz
  BY DEF Order, recorded
<1> HIDE DEF n, a
<1>5. /\ prov'[p] = n /\ \A q \in Provisioners \ {p} : prov'[q] = prov[q]
      /\ prov' \in [Provisioners -> Provisioning \union {Nil}]
  BY <1>2, <1>4 DEF CInv, AcmeTypeOK
<1>6. /\ authz' \in [Tokens -> Authorization \union {Nil}] /\ authz'[t] # Nil
      /\ \A u \in Tokens : authz[u] # Nil => authz'[u] = authz[u]
  BY <1>3, <1>4 DEF CInv, AcmeTypeOK
<1>7. AcmeTypeOK'
  BY <1>4, <1>5, <1>6 DEF CInv, AcmeTypeOK
<1>8. \A q \in Provisioners : Standing(q)'
  BY <1>2, <1>4, <1>5, <1>6 DEF CInv, Standing
<1>9. Answerable' /\ \A u \in asked' : authz'[u] # Nil
  BY <1>4, <1>6 DEF CInv, Answerable, AcmeTypeOK
<1>10. ChallengesAccounted'
  BY <1>1, <1>4, <1>5 DEF CInv, ChallengesAccounted, Holds
<1> QED
  BY <1>7, <1>8, <1>9, <1>10 DEF CInv

LEMMA StoreStep ==
    ASSUME CInv, NEW p \in Provisioners, Store(p)
    PROVE  CInv'
<1>1. StepOn(p, "store", "accept") /\ challenges' = challenges \union {prov[p].token}
      /\ UNCHANGED <<authz, issued, asked, left, kept>>
  BY DEF Store, recorded
<1>2. /\ prov' \in [Provisioners -> Provisioning \union {Nil}]
      /\ prov[p] # Nil /\ prov[p].step = "store" /\ prov'[p] # Nil
      /\ prov'[p].step = "accept" /\ prov'[p].token = prov[p].token
      /\ \A q \in Provisioners \ {p} : prov'[q] = prov[q]
  BY <1>1, StepOnEffect DEF StepOn
<1>3. prov[p].token \in Tokens /\ authz[prov[p].token] # Nil
  BY <1>2 DEF CInv, Standing
<1>4. AcmeTypeOK'
  BY <1>1, <1>2, <1>3 DEF CInv, AcmeTypeOK
<1>5. \A q \in Provisioners : Standing(q)'
  BY <1>1, <1>2, <1>3 DEF CInv, Standing
<1>6. Answerable' /\ \A t \in asked' : authz'[t] # Nil
  BY <1>1 DEF CInv, Answerable
<1>7. ChallengesAccounted'
  BY <1>1, <1>2 DEF CInv, ChallengesAccounted, Holds
<1> QED
  BY <1>4, <1>5, <1>6, <1>7 DEF CInv

LEMMA AcceptStep ==
    ASSUME CInv, NEW p \in Provisioners, Accept(p)
    PROVE  CInv'
<1> DEFINE t == prov[p].token
           s == IF authz[t].status = "pending" THEN "processing" ELSE authz[t].status
<1>1. /\ StepOn(p, "accept", "wait") /\ authz' = [authz EXCEPT ![t].status = s]
      /\ asked' = asked \union {t}
      /\ UNCHANGED <<challenges, issued, left, kept>>
  BY DEF Accept
<1>2. /\ prov' \in [Provisioners -> Provisioning \union {Nil}]
      /\ prov[p] # Nil /\ prov[p].step = "accept" /\ prov'[p] # Nil
      /\ prov'[p].step = "wait" /\ prov'[p].token = prov[p].token
      /\ \A q \in Provisioners \ {p} : prov'[q] = prov[q]
  BY <1>1, StepOnEffect DEF StepOn
<1>3. /\ t \in Tokens /\ authz[t] # Nil
      /\ t \in challenges \/ authz[t].status = "valid"
  BY <1>2 DEF CInv, Standing
<1>4. s \in {"processing", "valid", "invalid"}
  BY <1>3, ProvisioningFields DEF CInv, AcmeTypeOK
<1>5. authz[t].status = "valid" => s = "valid"
  OBVIOUS
<1>6. PICK token \in Tokens : token = prov[p].token
  BY <1>3
<1>7. PICK status \in {"processing", "valid", "invalid"} : status = s
  BY <1>4
<1> HIDE DEF s
<1>8. /\ authz' \in [Tokens -> Authorization \union {Nil}]
      /\ authz'[token] # Nil /\ authz'[token].status = status
      /\ \A u \in Tokens \ {token} : authz'[u] = authz[u]
  BY <1>1, <1>3, <1>6, <1>7, AuthzEffect
<1>9. AcmeTypeOK'
  BY <1>1, <1>2, <1>3, <1>8 DEF CInv, AcmeTypeOK
<1>10. \A q \in Provisioners : Standing(q)'
  BY <1>1, <1>2, <1>3, <1>5, <1>6, <1>7, <1>8 DEF CInv, Standing
<1>11. Answerable' /\ \A u \in asked' : authz'[u] # Nil
  BY <1>1, <1>3, <1>5, <1>6, <1>7, <1>8 DEF CInv, Answerable, AcmeTypeOK
<1>12. ChallengesAccounted'
  BY <1>1, <1>2 DEF CInv, ChallengesAccounted, Holds
<1> QED
  BY <1>9, <1>10, <1>11, <1>12 DEF CInv

LEMMA WaitStep ==
    ASSUME CInv, NEW p \in Provisioners, Wait(p)
    PROVE  CInv'
<1>1. /\ StepOn(p, "wait", "clean") /\ authz[prov[p].token].status = "valid"
      /\ UNCHANGED <<challenges, authz, issued, asked, left, kept>>
  BY DEF Wait, recorded
<1>2. /\ prov' \in [Provisioners -> Provisioning \union {Nil}]
      /\ prov[p] # Nil /\ prov[p].step = "wait" /\ prov'[p] # Nil
      /\ prov'[p].step = "clean" /\ prov'[p].token = prov[p].token
      /\ \A q \in Provisioners \ {p} : prov'[q] = prov[q]
  BY <1>1, StepOnEffect DEF StepOn
<1>3. AcmeTypeOK'
  BY <1>1, <1>2 DEF CInv, AcmeTypeOK
<1>4. \A q \in Provisioners : Standing(q)'
  BY <1>1, <1>2 DEF CInv, Standing
<1>5. Answerable' /\ \A t \in asked' : authz'[t] # Nil
  BY <1>1 DEF CInv, Answerable
<1>6. ChallengesAccounted'
  BY <1>1, <1>2 DEF CInv, ChallengesAccounted, Holds
<1> QED
  BY <1>3, <1>4, <1>5, <1>6 DEF CInv

(* The token that is removed has a valid authorization: whoever shares it    *)
(* can do without it.                                                        *)
LEMMA CleanStep ==
    ASSUME CInv, NEW p \in Provisioners, Clean(p)
    PROVE  CInv'
<1>1. /\ StepOn(p, "clean", "final")
      /\ challenges' = challenges \ {prov[p].token}
      /\ UNCHANGED <<authz, issued, asked, left, kept>>
  BY DEF Clean, recorded
<1>2. /\ prov' \in [Provisioners -> Provisioning \union {Nil}]
      /\ prov[p] # Nil /\ prov[p].step = "clean" /\ prov'[p] # Nil
      /\ prov'[p].step = "final" /\ prov'[p].token = prov[p].token
      /\ \A q \in Provisioners \ {p} : prov'[q] = prov[q]
  BY <1>1, StepOnEffect DEF StepOn
<1>3. authz[prov[p].token].status = "valid"
  BY <1>2 DEF CInv, Standing
<1>4. AcmeTypeOK'
  BY <1>1, <1>2 DEF CInv, AcmeTypeOK
<1>5. \A q \in Provisioners : Standing(q)'
  BY <1>1, <1>2, <1>3 DEF CInv, Standing
<1>6. Answerable' /\ \A t \in asked' : authz'[t] # Nil
  BY <1>1, <1>3 DEF CInv, Answerable
<1>7. ChallengesAccounted'
  BY <1>1, <1>2 DEF CInv, ChallengesAccounted, Holds
<1> QED
  BY <1>4, <1>5, <1>6, <1>7 DEF CInv

LEMMA FailStep ==
    ASSUME CInv, NEW p \in Provisioners, Fail(p)
    PROVE  CInv'
<1>1. /\ prov' = [prov EXCEPT ![p] = Nil] /\ prov[p] # Nil
      /\ prov[p].step # "clean"
      /\ left' = IF prov[p].step \in {"accept", "wait"}
                 THEN left \union {prov[p].token} ELSE left
      /\ UNCHANGED <<challenges, authz, issued, asked, kept>>
  BY DEF Fail
<1>2. /\ prov' \in [Provisioners -> Provisioning \union {Nil}] /\ prov'[p] = Nil
      /\ \A q \in Provisioners \ {p} : prov'[q] = prov[q]
  BY <1>1 DEF CInv, AcmeTypeOK
<1>3. prov[p].step \in {"accept", "wait"} => prov[p].token \in Tokens
  BY <1>1 DEF CInv, Standing
<1>4. AcmeTypeOK'
  BY <1>1, <1>2, <1>3 DEF CInv, AcmeTypeOK
<1>5. \A q \in Provisioners : Standing(q)'
  BY <1>1, <1>2 DEF CInv, Standing
<1>6. Answerable' /\ \A t \in asked' : authz'[t] # Nil
  BY <1>1 DEF CInv, Answerable
<1>7. ChallengesAccounted'
  BY <1>1, <1>2 DEF CInv, ChallengesAccounted, Holds
<1> QED
  BY <1>4, <1>5, <1>6, <1>7 DEF CInv

LEMMA FinalizeStep ==
    ASSUME CInv, NEW p \in Provisioners, NEW c \in Offered, Finalize(p, c)
    PROVE  CInv'
<1>1. /\ prov' = [prov EXCEPT ![p] = Nil] /\ prov[p] # Nil
      /\ prov[p].step = "final" /\ issued' = issued \union {c.id}
      /\ UNCHANGED <<challenges, authz, asked, left, kept>>
  BY DEF Finalize, recorded
<1>2. /\ prov' \in [Provisioners -> Provisioning \union {Nil}] /\ prov'[p] = Nil
      /\ \A q \in Provisioners \ {p} : prov'[q] = prov[q]
  BY <1>1 DEF CInv, AcmeTypeOK
<1>3. c.id \in AcmeIds
  BY DEF Finalize
<1>4. AcmeTypeOK'
  BY <1>1, <1>2, <1>3 DEF CInv, AcmeTypeOK
<1>5. \A q \in Provisioners : Standing(q)'
  BY <1>1, <1>2 DEF CInv, Standing
<1>6. Answerable' /\ \A t \in asked' : authz'[t] # Nil
  BY <1>1 DEF CInv, Answerable
<1>7. ChallengesAccounted'
  BY <1>1, <1>2 DEF CInv, ChallengesAccounted, Holds
<1> QED
  BY <1>4, <1>5, <1>6, <1>7 DEF CInv

LEMMA AuthorityStep ==
    ASSUME CInv, NEW t \in Tokens, Validate(t) \/ Refuse(t)
    PROVE  CInv'
<1>1. PICK s \in {"valid", "invalid"} : authz' = [authz EXCEPT ![t].status = s]
  BY DEF Validate, Refuse
<1>2. /\ authz[t] # Nil /\ authz[t].status = "processing"
      /\ UNCHANGED <<prov, challenges, issued, asked, left, kept>>
  BY DEF Validate, Refuse, recorded
<1>3. /\ authz' \in [Tokens -> Authorization \union {Nil}]
      /\ authz'[t] # Nil /\ authz'[t].status = s
      /\ \A u \in Tokens \ {t} : authz'[u] = authz[u]
  BY <1>1, <1>2, AuthzEffect
<1>4. AcmeTypeOK'
  BY <1>2, <1>3 DEF CInv, AcmeTypeOK
<1>5. \A q \in Provisioners : Standing(q)'
  BY <1>2, <1>3 DEF CInv, Standing
<1>6. Answerable' /\ \A u \in asked' : authz'[u] # Nil
  BY <1>2, <1>3 DEF CInv, Answerable, AcmeTypeOK
<1>7. ChallengesAccounted'
  BY <1>2 DEF CInv, ChallengesAccounted, Holds
<1> QED
  BY <1>4, <1>5, <1>6, <1>7 DEF CInv

(* The steps that are none of the challenges' concern. *)
LEMMA StorageStep ==
    ASSUME CInv, IInv, kept' \in SUBSET Domains,
           UNCHANGED <<prov, challenges, authz, issued, asked, left>>
    PROVE  CInv'
<1>1. AcmeTypeOK'
  BY DEF CInv, AcmeTypeOK
<1>2. \A q \in Provisioners : Standing(q)'
  BY DEF CInv, Standing
<1>3. Answerable' /\ \A u \in asked' : authz'[u] # Nil
  BY DEF CInv, Answerable
<1>4. ChallengesAccounted'
  BY DEF CInv, ChallengesAccounted, Holds
<1> QED
  BY <1>1, <1>2, <1>3, <1>4 DEF CInv

LEMMA RebootStep == ASSUME CInv, Reboot PROVE CInv'
<1>1. /\ prov' = [p \in Provisioners |-> Nil]
      /\ challenges' = {} /\ asked' = {} /\ left' = {}
      /\ UNCHANGED <<authz, issued>> /\ kept' \subseteq kept
  BY DEF Reboot
<1> QED
  BY <1>1 DEF CInv, AcmeTypeOK, Standing, Answerable, ChallengesAccounted

LEMMA CInvStep == CInv /\ IInv /\ [AcmeNext]_<<vars, acmeVars>> => CInv'
<1> SUFFICES ASSUME CInv, IInv, [AcmeNext]_<<vars, acmeVars>> PROVE CInv'
  OBVIOUS
<1>1. ASSUME NEW u \in Uploaders, NEW d \in Domains, StoreDomain(u, d) PROVE CInv'
  BY <1>1, StorageStep DEF StoreDomain, CInv, AcmeTypeOK
<1>2. ASSUME NEW u \in Uploaders, StoreFiles(u) \/ UploadFails(u) PROVE CInv'
  BY <1>2, StorageStep DEF StoreFiles, UploadFails, acmeVars, recorded, CInv,
                           AcmeTypeOK
<1>3. ASSUME NEW u \in Uploaders, NEW c \in Offered, UploadByHand(u, c) PROVE CInv'
  BY <1>3, StorageStep DEF UploadByHand, CInv, AcmeTypeOK
<1>4. ASSUME NEW i \in Ids, Delete(i) PROVE CInv'
  BY <1>4, StorageStep DEF Delete, CInv, AcmeTypeOK
<1>5. CASE UNCHANGED <<vars, acmeVars>>
  BY <1>5, StorageStep DEF acmeVars, recorded, CInv, AcmeTypeOK
<1> QED
  BY <1>1, <1>2, <1>3, <1>4, <1>5, TriggerStep, OrderStep, StoreStep, AcceptStep,
     WaitStep, CleanStep, FailStep, FinalizeStep, AuthorityStep, RebootStep
     DEF AcmeNext, StoreCert

LEMMA CInvHolds == AcmeSpec => []CInv
BY IInvHolds, CInvInit, CInvStep, PTL DEF AcmeSpec

(***************************************************************************)
(* Provisioned domains.                                                    *)
(***************************************************************************)
(* Every certificate of ACME's is issued once, so nobody else works on its    *)
(* files, ...                                                                *)
Unknown(i) == /\ certs[i] = Nil /\ key[i] = Nil /\ crt[i] = Nil /\ meta[i] = Nil
              /\ i \notin disturbed /\ ~Busy(i)

IssuedOnce ==
    /\ \A i \in AcmeIds \ issued : Unknown(i) /\ \A d \in Domains : index[d] # i
    /\ \A u, v \in Uploaders :
          /\ up[u] # Nil /\ up[v] # Nil
          /\ up[u].cert.id = up[v].cert.id /\ up[u].cert.id \in AcmeIds
          => u = v

(* ... and it can be deleted only once it is indexed; it is for one domain.  *)
Young ==
    /\ \A u \in Uploaders : up[u] # Nil /\ up[u].cert.id \in AcmeIds =>
          /\ \E d \in Domains : up[u].cert.doms = {d} /\ up[u].todo = {d}
          /\ up[u].step # "index" =>
                certs[up[u].cert.id] = Nil /\ up[u].cert.id \notin disturbed
    /\ \A p \in Provisioners : up[p] # Nil => up[p].cert.id \in AcmeIds
    /\ deleting # Nil => certs[deleting.cert.id] # Nil

(* Hence its key and its certificate always match. *)
Matched == \A i \in AcmeIds : key[i] # Nil /\ crt[i] # Nil => key[i] = crt[i]

(* The certificate that serves a provisioned domain, issued or uploaded by   *)
(* hand, is on disk; nobody is at work on its files, and no delete is about  *)
(* to remove the entry.                                                      *)
Safe(d) ==
    /\ Served(d) /\ meta[index[d]] = certs[index[d]]
    /\ ~Deleting(index[d])
    /\ \A u \in Uploaders : up[u] # Nil /\ up[u].cert.id = index[d] =>
          up[u].step = "index"
    /\ deleting # Nil => deleting.found # d

KeptOnDisk == \A d \in kept : Safe(d)

KInv == IssuedOnce /\ Young /\ Matched /\ KeptOnDisk

LEMMA KInvInit == AcmeInit => KInv
<1> SUFFICES ASSUME AcmeInit PROVE KInv
  OBVIOUS
<1>1. /\ \A u \in Uploaders : up[u] = Nil
      /\ deleting = Nil /\ disturbed = {} /\ kept = {}
      /\ \A i \in Ids : certs[i] = Nil /\ key[i] = Nil /\ crt[i] = Nil /\ meta[i] = Nil
      /\ \A d \in Domains : index[d] = Nil
  BY DEF AcmeInit, Init
<1>2. \A i \in AcmeIds : i \in Ids /\ ~Busy(i) /\ i # Nil
  BY <1>1, AcmeIdsAssumption, Fields DEF Busy, Uploading, Deleting
<1>3. IssuedOnce
  BY <1>1, <1>2 DEF IssuedOnce, Unknown
<1>4. Young /\ Matched /\ KeptOnDisk
  BY <1>1, <1>2, ProvisionersAssumption DEF Young, Matched, KeptOnDisk
<1> QED
  BY <1>3, <1>4 DEF KInv

LEMMA KInvStays ==
    ASSUME KInv, UNCHANGED <<vars, issued, kept>>
    PROVE  KInv'
<1>1. UNCHANGED <<certs, index, key, crt, meta, up, deleting, disturbed, issued, kept>>
  BY DEF vars, files
<1>2. IssuedOnce'
  BY <1>1 DEF KInv, IssuedOnce, Unknown, Busy, Uploading, Deleting
<1>3. Young'
  BY <1>1 DEF KInv, Young
<1>4. Matched'
  BY <1>1 DEF KInv, Matched
<1>5. KeptOnDisk'
  BY <1>1 DEF KInv, KeptOnDisk, Safe, Served, Loadable, Deleting
<1> QED
  BY <1>2, <1>3, <1>4, <1>5 DEF KInv

(* What is known of an upload, and of a domain that is kept. *)
LEMMA UploadFacts ==
    ASSUME IInv, KInv, NEW u \in Uploaders, up[u] # Nil
    PROVE  /\ up[u] \in Upload /\ up[u].cert \in StoredCert /\ up[u].cert # Nil
           /\ up[u].cert.id \in Ids
           /\ up[u].cert.id \in AcmeIds => up[u].cert.id \in issued
           /\ up[u].cert.pair \in Pairs /\ up[u].cert.pair # Nil
           /\ up[u].cert.id \notin disturbed => Alone(u) /\ Progress(u)
           /\ Busy(up[u].cert.id)
<1>1. /\ up[u] \in Upload /\ up[u].cert \in StoredCert /\ up[u].cert # Nil
      /\ up[u].cert.id \in Ids /\ up[u].cert.pair \in Pairs
      /\ up[u].cert.pair # Nil
  BY Fields DEF IInv, TypeOK
<1>2. Busy(up[u].cert.id)
  BY DEF Busy, Uploading
<1>3. up[u].cert.id \in AcmeIds => up[u].cert.id \in issued
  BY <1>1, <1>2 DEF KInv, IssuedOnce, Unknown
<1> QED
  BY <1>1, <1>2, <1>3 DEF IInv, UploadsProgress

LEMMA KeptFacts ==
    ASSUME IInv, CInv, KInv, NEW d \in kept
    PROVE  d \in Domains /\ index[d] \in Ids /\ Safe(d)
  BY DEF CInv, AcmeTypeOK, KInv, KeptOnDisk, Safe, Served, IInv, TypeOK

(* A step that leaves alone the files and the entry of m.certs of the        *)
(* certificate that serves d, and begins no upload of it and no delete.      *)
LEMMA StaysSafe ==
    ASSUME NEW d \in Domains, Safe(d), index[d] \in Ids,
           index'[d] = index[d],
           certs'[index[d]] = certs[index[d]], key'[index[d]] = key[index[d]],
           crt'[index[d]] = crt[index[d]], meta'[index[d]] = meta[index[d]],
           \A u \in Uploaders : up'[u] # Nil /\ up'[u].cert.id = index[d] =>
               \/ up'[u].step = "index"
               \/ up[u] # Nil /\ up[u].cert.id = index[d] /\ up[u].step # "index",
           deleting' # Nil => deleting'.cert.id # index[d] /\ deleting'.found # d
    PROVE  Safe(d)'
  BY DEF Safe, Served, Loadable, Deleting

(* An upload begins. *)
LEMMA BeginEffect ==
    ASSUME IInv, NEW u \in Uploaders, NEW c \in Offered, BeginUpload(u, c)
    PROVE  /\ c \in StoredCert /\ c.id \in Ids
           /\ up[u] = Nil /\ up'[u] # Nil
           /\ up'[u].cert = c /\ up'[u].step = "crt" /\ up'[u].todo = c.doms
           /\ \A v \in Uploaders \ {u} : up'[v] = up[v]
           /\ \A i \in Ids \ {c.id} : /\ key'[i] = key[i]
                                      /\ i \in disturbed' <=> i \in disturbed
           /\ ~Busy(c.id) => c.id \notin disturbed'
           /\ UNCHANGED <<certs, index, crt, meta, deleting>>
           /\ \A i \in Ids \ {c.id} : Busy(i)' => Busy(i)
<1> DEFINE n == [cert |-> c, step |-> "crt", todo |-> c.doms,
                 fresh |-> certs[c.id] = Nil /\ c.id \notin disturbed]
<1>1. c \in StoredCert /\ c.id \in Ids /\ c.doms \in SUBSET Domains
  BY OfferedAssumption, Fields
<1>2. n.cert = c /\ n.step = "crt" /\ n.todo = c.doms /\ n # Nil
  <2>1. (certs[c.id] = Nil /\ c.id \notin disturbed) \in BOOLEAN
    OBVIOUS
  <2>2. n \in Upload
    BY <1>1, <2>1 DEF Upload
  <2> QED
    BY <2>2, Fields
<1>3. /\ up[u] = Nil /\ up' = [up EXCEPT ![u] = n]
      /\ key' = [key EXCEPT ![c.id] = c.pair]
      /\ disturbed' = IF Busy(c.id) THEN disturbed \union {c.id}
                      ELSE disturbed \ {c.id}
      /\ UNCHANGED <<certs, index, crt, meta, deleting>>
  BY DEF BeginUpload
<1> HIDE DEF n
<1>4. /\ up'[u] = n /\ \A v \in Uploaders \ {u} : up'[v] = up[v]
      /\ \A i \in Ids \ {c.id} : key'[i] = key[i]
  BY <1>1, <1>3 DEF IInv, TypeOK
<1>5. \A i \in Ids \ {c.id} : Busy(i)' => Busy(i)
  BY <1>2, <1>3, <1>4 DEF Busy, Uploading, Deleting
<1> QED
  BY <1>1, <1>2, <1>3, <1>4, <1>5

(* Domains that are kept are not served by the certificate being uploaded. *)
LEMMA KeptThroughBegin ==
    ASSUME IInv, CInv, KInv, NEW u \in Uploaders, NEW c \in Offered,
           BeginUpload(u, c), kept' \subseteq kept,
           \A d \in kept' : index[d] # c.id
    PROVE  KeptOnDisk'
<1> SUFFICES ASSUME NEW d \in kept' PROVE Safe(d)'
  BY DEF KeptOnDisk
<1>1. d \in kept /\ d \in Domains /\ index[d] \in Ids /\ Safe(d) /\ index[d] # c.id
  BY KeptFacts
<1> QED
  BY <1>1, BeginEffect, StaysSafe DEF Safe, Deleting

LEMMA KFinalize ==
    ASSUME IInv, CInv, KInv, NEW u \in Provisioners, NEW c \in Offered,
           Finalize(u, c)
    PROVE  KInv'
<1>1. /\ BeginUpload(u, c) /\ c.id \in AcmeIds \ issued /\ u \in Uploaders
      /\ issued' = issued \union {c.id}
      /\ kept' = kept /\ c.doms = {prov[u].domain} /\ prov[u] # Nil
  BY ProvisionersAssumption DEF Finalize, recorded
<1>2. prov[u].domain \in Domains
  BY <1>1, ProvisioningFields DEF CInv, AcmeTypeOK
<1>3. Unknown(c.id) /\ \A d \in Domains : index[d] # c.id
  BY <1>1 DEF KInv, IssuedOnce
<1>4. /\ c \in StoredCert /\ c.id \in Ids
      /\ up[u] = Nil /\ up'[u] # Nil
      /\ up'[u].cert = c /\ up'[u].step = "crt" /\ up'[u].todo = c.doms
      /\ \A v \in Uploaders \ {u} : up'[v] = up[v]
      /\ \A i \in Ids \ {c.id} : /\ key'[i] = key[i]
                                 /\ i \in disturbed' <=> i \in disturbed
                                 /\ Busy(i)' => Busy(i)
      /\ c.id \notin disturbed'
      /\ UNCHANGED <<certs, index, crt, meta, deleting>>
  BY <1>1, <1>3, BeginEffect DEF Unknown
<1>5. \A v \in Uploaders \ {u} : up[v] # Nil => up[v].cert.id # c.id
  BY <1>3 DEF Unknown, Busy, Uploading
<1>6. IssuedOnce'
  <2>1. \A i \in AcmeIds \ issued' :
           Unknown(i)' /\ \A d \in Domains : index'[d] # i
    BY <1>1, <1>4, AcmeIdsAssumption DEF KInv, IssuedOnce, Unknown
  <2>2. \A v, w \in Uploaders :
           /\ up'[v] # Nil /\ up'[w] # Nil
           /\ up'[v].cert.id = up'[w].cert.id /\ up'[v].cert.id \in AcmeIds
           => v = w
    BY <1>4, <1>5 DEF KInv, IssuedOnce
  <2> QED
    BY <2>1, <2>2 DEF IssuedOnce
<1>7. Young'
  <2>1. ASSUME NEW v \in Uploaders, up'[v] # Nil, up'[v].cert.id \in AcmeIds
        PROVE  /\ \E d \in Domains : up'[v].cert.doms = {d} /\ up'[v].todo = {d}
               /\ up'[v].step # "index" =>
                     certs'[up'[v].cert.id] = Nil /\ up'[v].cert.id \notin disturbed'
    <3>1. CASE v = u
      BY <1>1, <1>2, <1>3, <1>4, <3>1 DEF Unknown
    <3>2. CASE v # u
      <4>1. up[v].cert.id \in Ids \ {c.id}
        BY <1>4, <1>5, <2>1, <3>2, AcmeIdsAssumption
      <4> QED
        BY <1>4, <2>1, <3>2, <4>1 DEF KInv, Young
    <3> QED
      BY <3>1, <3>2
  <2>2. \A p \in Provisioners : up'[p] # Nil => up'[p].cert.id \in AcmeIds
    BY <1>1, <1>4, ProvisionersAssumption DEF KInv, Young
  <2> QED
    BY <1>4, <2>1, <2>2 DEF KInv, Young
<1>8. Matched'
  BY <1>3, <1>4, AcmeIdsAssumption DEF KInv, Matched, Unknown
<1>9. KeptOnDisk'
  BY <1>1, <1>3, KeptFacts, KeptThroughBegin
<1> QED
  BY <1>6, <1>7, <1>8, <1>9 DEF KInv

(* An upload by hand is of none of ACME's certificates. *)
LEMMA KByHand ==
    ASSUME IInv, CInv, KInv, NEW u \in Uploaders \ Provisioners,
           NEW c \in Offered, UploadByHand(u, c)
    PROVE  KInv'
<1>1. /\ BeginUpload(u, c) /\ c.id \notin AcmeIds /\ issued' = issued
      /\ kept' = {d \in kept : index[d] # c.id}
  BY DEF UploadByHand
<1>2. /\ c.id \in Ids /\ up'[u] # Nil /\ up'[u].cert = c
      /\ \A v \in Uploaders \ {u} : up'[v] = up[v]
      /\ \A i \in AcmeIds : /\ i \in Ids /\ key'[i] = key[i]
                            /\ i \in disturbed' <=> i \in disturbed
                            /\ Busy(i)' => Busy(i)
      /\ UNCHANGED <<certs, index, crt, meta, deleting>>
  BY <1>1, BeginEffect, AcmeIdsAssumption
<1>3. IssuedOnce'
  <2>1. \A i \in AcmeIds \ issued' :
           Unknown(i)' /\ \A d \in Domains : index'[d] # i
    BY <1>1, <1>2 DEF KInv, IssuedOnce, Unknown
  <2>2. \A v, w \in Uploaders :
           /\ up'[v] # Nil /\ up'[w] # Nil
           /\ up'[v].cert.id = up'[w].cert.id /\ up'[v].cert.id \in AcmeIds
           => v = w
    BY <1>1, <1>2 DEF KInv, IssuedOnce
  <2> QED
    BY <2>1, <2>2 DEF IssuedOnce
<1>4. Young'
  <2>1. \A v \in Uploaders : up'[v] # Nil /\ up'[v].cert.id \in AcmeIds =>
           up'[v] = up[v]
    BY <1>1, <1>2
  <2>2. \A p \in Provisioners : up'[p] = up[p]
    BY <1>2, ProvisionersAssumption
  <2> QED
    BY <1>2, <2>1, <2>2 DEF KInv, Young
<1>5. Matched'
  BY <1>2 DEF KInv, Matched
<1>6. KeptOnDisk'
  BY <1>1, KeptThroughBegin
<1> QED
  BY <1>3, <1>4, <1>5, <1>6 DEF KInv


(* An upload that goes on with its files, or ends. *)
LEMMA KFiles ==
    ASSUME IInv, KInv, CInv, NEW u \in Uploaders, up[u] # Nil,
           NEW i \in Ids, i = up[u].cert.id, up[u].step # "index",
           \A v \in Uploaders \ {u} : up'[v] = up[v],
           \/ up'[u] = Nil
           \/ /\ up'[u] # Nil /\ up'[u].cert = up[u].cert
              /\ up'[u].todo = up[u].todo
              /\ i \in AcmeIds => up'[u].step = "index" \/ certs'[i] = Nil,
           \A j \in Ids \ {i} : /\ certs'[j] = certs[j] /\ key'[j] = key[j]
                                /\ crt'[j] = crt[j] /\ meta'[j] = meta[j],
           certs'[i] # Nil \/ certs'[i] = certs[i],
           i \in AcmeIds /\ key'[i] # Nil /\ crt'[i] # Nil => key'[i] = crt'[i],
           i \in AcmeIds => i \notin disturbed' \/ up'[u] = Nil,
           \A j \in Ids \ {i} : j \in disturbed' <=> j \in disturbed,
           UNCHANGED <<index, deleting, issued, kept>>
    PROVE  KInv'
<1>1. i \in AcmeIds =>
         /\ i \in issued
         /\ \A v \in Uploaders \ {u} : up[v] # Nil => up[v].cert.id # i
  BY UploadFacts DEF KInv, IssuedOnce
<1>2. \A j \in Ids : Busy(j)' => Busy(j)
  BY DEF Busy, Uploading, Deleting
<1>3. IssuedOnce'
  <2>1. \A j \in AcmeIds \ issued' :
           Unknown(j)' /\ \A d \in Domains : index'[d] # j
    BY <1>1, <1>2, AcmeIdsAssumption DEF KInv, IssuedOnce, Unknown
  <2>2. \A v, w \in Uploaders :
           /\ up'[v] # Nil /\ up'[w] # Nil
           /\ up'[v].cert.id = up'[w].cert.id /\ up'[v].cert.id \in AcmeIds
           => v = w
    BY DEF KInv, IssuedOnce
  <2> QED
    BY <2>1, <2>2 DEF IssuedOnce
<1>4. Young'
  <2>1. \A v \in Uploaders : up'[v] # Nil /\ up'[v].cert.id \in AcmeIds =>
           \E d \in Domains : up'[v].cert.doms = {d} /\ up'[v].todo = {d}
    BY DEF KInv, Young
  <2>2. ASSUME NEW v \in Uploaders, up'[v] # Nil, up'[v].cert.id \in AcmeIds,
               up'[v].step # "index"
        PROVE  certs'[up'[v].cert.id] = Nil /\ up'[v].cert.id \notin disturbed'
    <3>1. CASE v = u
      BY <2>2, <3>1
    <3>2. CASE v # u
      <4>1. up[v].cert.id \in Ids \ {i}
        BY <1>1, <2>2, <3>2, UploadFacts
      <4> QED
        BY <2>2, <3>2, <4>1 DEF KInv, Young
    <3> QED
      BY <3>1, <3>2
  <2>3. \A p \in Provisioners : up'[p] # Nil => up'[p].cert.id \in AcmeIds
    BY ProvisionersAssumption DEF KInv, Young
  <2>4. deleting' # Nil => certs'[deleting'.cert.id] # Nil
    <3>1. deleting # Nil => deleting.cert.id \in Ids
      BY Fields DEF IInv, TypeOK
    <3> QED
      BY <3>1 DEF KInv, Young
  <2> QED
    BY <2>1, <2>2, <2>3, <2>4 DEF Young
<1>5. Matched'
  BY AcmeIdsAssumption DEF KInv, Matched
<1>6. KeptOnDisk'
  <2> SUFFICES ASSUME NEW d \in kept PROVE Safe(d)'
    BY DEF KeptOnDisk
  <2>1. d \in Domains /\ index[d] \in Ids /\ Safe(d)
    BY KeptFacts
  <2>2. index[d] # i
    BY <2>1 DEF Safe
  <2> QED
    BY <2>1, <2>2, StaysSafe DEF Safe, Deleting
<1> QED
  BY <1>3, <1>4, <1>5, <1>6 DEF KInv

LEMMA KUpload ==
    ASSUME IInv, CInv, KInv, NEW u \in Uploaders,
           StoreFiles(u) \/ UploadFails(u)
    PROVE  KInv'
<1> DEFINE i == up[u].cert.id
<1>0. /\ \/ WriteCrt(u) \/ WriteMeta(u) \/ UndoKey(u) \/ IndexCert(u)
         \/ CrtFails(u) \/ MetaFails(u)
      /\ issued' = issued /\ kept' = kept
  BY DEF StoreFiles, UploadFails, acmeVars, recorded
<1>1. up[u] # Nil /\ up[u].step \in {"crt", "meta", "undo", "certs"}
  BY <1>0 DEF WriteCrt, WriteMeta, UndoKey, IndexCert, CrtFails, MetaFails, At
<1>2. /\ up[u] \in Upload /\ i \in Ids /\ up[u].cert.pair # Nil /\ up[u].cert # Nil
      /\ i \in AcmeIds =>
            i \notin disturbed /\ certs[i] = Nil /\ Progress(u) /\ up[u].todo # {}
  BY <1>1, UploadFacts DEF KInv, Young
<1>3. PICK j \in Ids : j = up[u].cert.id
  BY <1>2
<1>4. ASSUME NEW s \in {"meta", "undo", "certs", "index"}
      PROVE  LET n == [up[u] EXCEPT !.step = s]
             IN  n # Nil /\ n.step = s /\ n.cert = up[u].cert /\ n.todo = up[u].todo
  <2>1. [up[u] EXCEPT !.step = s] \in Upload
    BY <1>2, UploadSteps
  <2> QED
    BY <1>2, <2>1, Fields DEF Upload
<1>5. ASSUME NEW s \in {"meta", "undo", "certs", "index"},
             up' = [up EXCEPT ![u].step = s]
      PROVE  /\ up'[u] # Nil /\ up'[u].step = s /\ up'[u].cert = up[u].cert
             /\ up'[u].todo = up[u].todo
             /\ \A v \in Uploaders \ {u} : up'[v] = up[v]
  BY <1>4, <1>5 DEF IInv, TypeOK
<1>6. ASSUME up' = [up EXCEPT ![u] = Nil]
      PROVE  up'[u] = Nil /\ \A v \in Uploaders \ {u} : up'[v] = up[v]
  BY <1>6 DEF IInv, TypeOK
<1>7. CASE WriteCrt(u)
  <2>1. /\ up' = [up EXCEPT ![u].step = "meta"] /\ crt' = [crt EXCEPT ![j] = up[u].cert.pair]
        /\ UNCHANGED <<certs, index, key, meta, deleting, disturbed>>
    BY <1>3, <1>7 DEF WriteCrt
  <2>2. j \in AcmeIds => key[j] = up[u].cert.pair
    BY <1>2, <1>3 DEF Progress
  <2>3. crt'[j] = up[u].cert.pair /\ \A k \in Ids \ {j} : crt'[k] = crt[k]
    BY <2>1 DEF IInv, TypeOK
  <2> QED
    BY <1>0, <1>1, <1>2, <1>3, <1>5, <2>1, <2>2, <2>3, KFiles
<1>8. CASE WriteMeta(u)
  <2>1. /\ up' = [up EXCEPT ![u].step = "certs"] /\ meta' = [meta EXCEPT ![j] = up[u].cert]
        /\ UNCHANGED <<certs, index, key, crt, deleting, disturbed>>
    BY <1>3, <1>8 DEF WriteMeta
  <2>2. \A k \in Ids \ {j} : meta'[k] = meta[k]
    BY <2>1 DEF IInv, TypeOK
  <2> QED
    BY <1>0, <1>1, <1>2, <1>3, <1>5, <2>1, <2>2, KFiles DEF KInv, Matched
<1>9. CASE IndexCert(u)
  <2>1. /\ \/ up' = [up EXCEPT ![u] = Nil]
           \/ up' = [up EXCEPT ![u].step = "index"]
        /\ certs' = [certs EXCEPT ![j] = up[u].cert]
        /\ UNCHANGED <<index, meta, key, crt, deleting, disturbed>>
    BY <1>3, <1>9 DEF IndexCert, Done, files
  <2>2. certs'[j] = up[u].cert /\ \A k \in Ids \ {j} : certs'[k] = certs[k]
    BY <2>1 DEF IInv, TypeOK
  <2>3. j \in AcmeIds /\ key[j] # Nil /\ crt[j] # Nil => key[j] = crt[j]
    BY DEF KInv, Matched
  <2>4. CASE up' = [up EXCEPT ![u] = Nil]
    BY <1>0, <1>1, <1>2, <1>3, <1>6, <2>1, <2>2, <2>3, <2>4, KFiles
  <2>5. CASE up' = [up EXCEPT ![u].step = "index"]
    BY <1>0, <1>1, <1>2, <1>3, <1>5, <2>1, <2>2, <2>3, <2>5, KFiles
  <2> QED
    BY <2>1, <2>4, <2>5
<1>10. CASE MetaFails(u)
  <2>1. /\ up' = [up EXCEPT ![u].step = "undo"] /\ crt' = [crt EXCEPT ![j] = Nil]
        /\ UNCHANGED <<certs, index, key, meta, deleting, disturbed>>
    BY <1>3, <1>10 DEF MetaFails
  <2>2. crt'[j] = Nil /\ \A k \in Ids \ {j} : crt'[k] = crt[k]
    BY <2>1 DEF IInv, TypeOK
  <2> QED
    BY <1>0, <1>1, <1>2, <1>3, <1>5, <2>1, <2>2, KFiles
<1>11. CASE CrtFails(u) \/ UndoKey(u)
  <2>1. /\ up' = [up EXCEPT ![u] = Nil] /\ key' = [key EXCEPT ![j] = Nil]
        /\ UNCHANGED <<certs, index, crt, meta, deleting>>
        /\ disturbed' \in {disturbed, disturbed \union {j}}
    BY <1>3, <1>11 DEF CrtFails, UndoKey, Done, CutShort
  <2>2. key'[j] = Nil /\ \A k \in Ids \ {j} : key'[k] = key[k]
    BY <2>1 DEF IInv, TypeOK
  <2> QED
    BY <1>0, <1>1, <1>3, <1>6, <2>1, <2>2, KFiles
<1> QED
  BY <1>0, <1>7, <1>8, <1>9, <1>10, <1>11


(* A domain enters the index: it is provisioned or changes hands, unless the *)
(* certificate or the new entry is in danger.                                *)
LEMMA KStoreDomain ==
    ASSUME IInv, CInv, KInv, Known, NEW u \in Uploaders, NEW d \in Domains,
           StoreDomain(u, d)
    PROVE  KInv'
<1>1. /\ IndexDomain(u, d) /\ issued' = issued
      /\ up[u] # Nil /\ up[u].step = "index" /\ d \in up[u].todo
  BY DEF StoreDomain, IndexDomain, At
<1>2. PICK i \in Ids : /\ i = up[u].cert.id /\ i # Nil
                       /\ i \in AcmeIds => i \in issued
                       /\ i \notin disturbed => Alone(u) /\ Progress(u)
  BY <1>1, UploadFacts, Fields
<1>3. up'[u] # Nil => /\ up'[u].cert = up[u].cert /\ up'[u].step = "index"
                      /\ i \notin AcmeIds
  <2>1. CASE Done(u)
    BY <2>1 DEF Done, IInv, TypeOK
  <2>2. CASE up[u].todo # {d} /\ up' = [up EXCEPT ![u].todo = @ \ {d}]
    <3>1. up'[u] = [up[u] EXCEPT !.todo = @ \ {d}] /\ up[u] \in Upload
      BY <1>1, <2>2, UploadFacts DEF IInv, TypeOK
    <3>2. up'[u].cert = up[u].cert /\ up'[u].step = up[u].step
      BY <3>1 DEF Upload
    <3>3. i \notin AcmeIds
      BY <1>1, <1>2, <2>2 DEF KInv, Young
    <3> QED
      BY <1>1, <3>2, <3>3
  <2> QED
    BY <1>1, <2>1, <2>2 DEF IndexDomain
<1>4. /\ \A v \in Uploaders \ {u} : up'[v] = up[v]
      /\ index'[d] = i /\ \A e \in Domains \ {d} : index'[e] = index[e]
      /\ UNCHANGED <<certs, key, crt, meta, deleting, disturbed>>
      /\ kept' \subseteq kept \union {d}
      /\ d \in kept' => ~Endangered(d, i)
  BY <1>1, <1>2 DEF StoreDomain, IndexDomain, Done, files, IInv, TypeOK
<1>5. \A j \in Ids : Busy(j)' => Busy(j)
  BY <1>1, <1>3, <1>4 DEF Busy, Uploading, Deleting
<1>6. IssuedOnce'
  <2>1. \A j \in AcmeIds \ issued' :
           Unknown(j)' /\ \A e \in Domains : index'[e] # j
    BY <1>1, <1>2, <1>4, <1>5, AcmeIdsAssumption DEF KInv, IssuedOnce, Unknown
  <2>2. \A v, w \in Uploaders :
           /\ up'[v] # Nil /\ up'[w] # Nil
           /\ up'[v].cert.id = up'[w].cert.id /\ up'[v].cert.id \in AcmeIds
           => v = w
    BY <1>1, <1>3, <1>4 DEF KInv, IssuedOnce
  <2> QED
    BY <2>1, <2>2 DEF IssuedOnce
<1>7. Young' /\ Matched'
  BY <1>1, <1>2, <1>3, <1>4, ProvisionersAssumption DEF KInv, Young, Matched
<1>8. KeptOnDisk'
  <2> SUFFICES ASSUME NEW e \in kept' PROVE Safe(e)'
    BY DEF KeptOnDisk
  <2>1. CASE e # d
    <3>1. e \in kept /\ e \in Domains /\ index[e] \in Ids /\ Safe(e)
      BY <1>4, <2>1, KeptFacts
    <3> QED
      BY <1>1, <1>3, <1>4, <2>1, <3>1, StaysSafe DEF Safe, Deleting
  <2>2. CASE e = d
    <3>1. i \notin disturbed /\ (deleting # Nil => deleting.found # d)
      BY <1>4, <2>2 DEF Endangered
    <3>2. /\ key[i] = up[u].cert.pair /\ crt[i] = up[u].cert.pair
          /\ meta[i] = up[u].cert /\ certs[i] = up[u].cert
      BY <1>1, <1>2, <3>1 DEF Progress
    <3>3. /\ up[u].cert # Nil /\ up[u].cert.pair # Nil
          /\ d \in up[u].cert.doms
      BY <1>1, UploadFacts DEF Known
    <3>4. ~Deleting(i) /\ \A v \in Uploaders \ {u} : up[v] # Nil => up[v].cert.id # i
      BY <1>2, <3>1 DEF Alone
    <3> QED
      BY <1>2, <1>3, <1>4, <2>2, <3>1, <3>2, <3>3, <3>4
         DEF Safe, Served, Loadable, Deleting
  <2> QED
    BY <2>1, <2>2
<1> QED
  BY <1>6, <1>7, <1>8 DEF KInv

(* A delete takes no provisioned domain but those of its certificate. *)
LEMMA KDelete ==
    ASSUME IInv, CInv, KInv, NEW i \in Ids, Delete(i)
    PROVE  KInv'
<1>1. /\ kept' = {d \in kept : index[d] # i} /\ issued' = issued
      /\ BeginDelete(i) \/ (Deleting(i) /\ DeleteGoesOn)
  BY DEF Delete
<1>2. /\ up' = up
      /\ \A j \in Ids \ {i} : /\ key'[j] = key[j] /\ crt'[j] = crt[j]
                              /\ meta'[j] = meta[j] /\ certs'[j] = certs[j]
      /\ disturbed' \in {disturbed, disturbed \union {i}}
      /\ key'[i] \in {Nil, key[i]} /\ crt'[i] \in {Nil, crt[i]}
      /\ certs'[i] \in {Nil, certs[i]}
      /\ certs[i] # Nil
      /\ deleting' # Nil => certs'[i] # Nil /\ deleting'.cert.id = i
      /\ \A d \in Domains :
            \/ index'[d] = index[d]
            \/ index'[d] = Nil /\ deleting # Nil /\ deleting.found = d
      /\ deleting' # Nil => \/ deleting'.found \in {Nil}
                            \/ deleting # Nil /\ deleting'.found = deleting.found
                            \/ /\ deleting'.found \in Domains
                               /\ index[deleting'.found] = i
  <2>1. CASE BeginDelete(i)
    <3>1. /\ certs[i] # Nil /\ certs[i].id = i /\ crt' = [crt EXCEPT ![i] = Nil]
          /\ disturbed' \in {disturbed, disturbed \union {i}}
          /\ UNCHANGED <<certs, index, key, meta, up>>
      BY <2>1 DEF BeginDelete, IInv, Keyed
    <3>2. deleting'.cert = certs[i] /\ deleting'.found = Nil
      BY <2>1, NewDeletion DEF IInv
    <3> QED
      BY <3>1, <3>2 DEF IInv, TypeOK
  <2>2. CASE Deleting(i) /\ DeleteGoesOn
    <3>1. /\ deleting # Nil /\ deleting \in Deletion /\ deleting.cert.id = i
          /\ deleting.found \in Domains \union {Nil} /\ certs[i] # Nil
      BY <2>2, Fields DEF Deleting, IInv, TypeOK, KInv, Young
    <3>2. /\ UNCHANGED <<crt, up, disturbed>>
          /\ key' \in {key, [key EXCEPT ![i] = Nil]}
          /\ meta' \in {meta, [meta EXCEPT ![i] = Nil]}
          /\ certs' = IF DropCert THEN [certs EXCEPT ![i] = Nil] ELSE certs
          /\ DropCert => deleting' = Nil
          /\ \/ index' = index
             \/ deleting.found # Nil /\ index' = [index EXCEPT ![deleting.found] = Nil]
      BY <2>2, <3>1, Fields DEF DeleteGoesOn, DeleteKey, DeleteMeta, CheckDomain,
                             DropEntry, DropCert, Unindexing, files
    <3>3. deleting' # Nil =>
             /\ deleting'.cert = deleting.cert
             /\ \/ deleting'.found \in {deleting.found, Nil}
                \/ deleting'.found \in Domains /\ index[deleting'.found] = i
      BY <2>2, <3>1, DeletionRecord
    <3>4. /\ \A j \in Ids \ {i} : /\ key'[j] = key[j] /\ crt'[j] = crt[j]
                                  /\ meta'[j] = meta[j]
          /\ key'[i] \in {Nil, key[i]} /\ crt'[i] = crt[i]
      BY <3>2 DEF IInv, TypeOK
    <3>5. /\ \A j \in Ids \ {i} : certs'[j] = certs[j]
          /\ certs'[i] \in {Nil, certs[i]}
          /\ deleting' # Nil => certs'[i] # Nil
      BY <3>1, <3>2 DEF IInv, TypeOK
    <3>6. \A d \in Domains : \/ index'[d] = index[d]
                             \/ index'[d] = Nil /\ deleting.found = d
      BY <3>2 DEF IInv, TypeOK
    <3> QED
      BY <3>1, <3>2, <3>3, <3>4, <3>5, <3>6
  <2> QED
    BY <1>1, <2>1, <2>2
<1>3. \A j \in Ids \ {i} : Busy(j)' => Busy(j)
  BY <1>2 DEF Busy, Uploading, Deleting
<1>4. IssuedOnce'
  <2>1. ASSUME NEW j \in AcmeIds \ issued
        PROVE  Unknown(j)' /\ \A d \in Domains : index'[d] # j
    <3>1. /\ j \in Ids \ {i} /\ Unknown(j) /\ j # Nil
          /\ \A d \in Domains : index[d] # j
      BY <1>2, AcmeIdsAssumption, Fields DEF KInv, IssuedOnce, Unknown
    <3>2. Unknown(j)'
      BY <1>2, <1>3, <3>1 DEF Unknown
    <3> QED
      BY <1>2, <3>1, <3>2
  <2> QED
    BY <1>1, <1>2, <2>1 DEF KInv, IssuedOnce
<1>5. Young'
  <2>1. ASSUME NEW u \in Uploaders, up[u] # Nil, up[u].cert.id \in AcmeIds
        PROVE  /\ \E d \in Domains : up'[u].cert.doms = {d} /\ up'[u].todo = {d}
               /\ up'[u].step # "index" =>
                     certs'[up'[u].cert.id] = Nil /\ up'[u].cert.id \notin disturbed'
    <3>1. up[u].cert.id \in Ids
      BY <2>1, UploadFacts
    <3>2. up[u].step # "index" => up[u].cert.id # i
      BY <1>2, <2>1 DEF KInv, Young
    <3> QED
      BY <1>2, <2>1, <3>1, <3>2 DEF KInv, Young
  <2> QED
    BY <1>2, <2>1 DEF KInv, Young
<1>6. Matched'
  BY <1>2, AcmeIdsAssumption DEF KInv, Matched
<1>7. KeptOnDisk'
  <2> SUFFICES ASSUME NEW d \in kept, index[d] # i PROVE Safe(d)'
    BY <1>1 DEF KeptOnDisk
  <2>1. d \in Domains /\ index[d] \in Ids /\ Safe(d) /\ d # Nil
    BY KeptFacts, Fields
  <2>2. index'[d] = index[d]
    BY <1>2, <2>1 DEF Safe
  <2>3. deleting' # Nil => deleting'.found # d
    BY <1>2, <2>1 DEF Safe
  <2> QED
    BY <1>2, <2>1, <2>2, <2>3, StaysSafe DEF Safe
<1> QED
  BY <1>4, <1>5, <1>6, <1>7 DEF KInv

(* After a crash the certificate of a provisioned domain is found on disk, or *)
(* a later one that claims the domain and is complete, too: one of ACME's, or *)
(* one uploaded by hand that is settled.                                     *)
LEMMA KReboot ==
    ASSUME IInv, CInv, KInv, Reboot
    PROVE  KInv'
<1>1. /\ \A u \in Uploaders : up'[u] = Nil
      /\ deleting' = Nil /\ UNCHANGED <<key, crt, meta, issued>>
      /\ kept' = {d \in kept : \A i \in Ids \ AcmeIds :
                     meta[i] # Nil /\ d \in meta[i].doms => Settled(i)}
      /\ disturbed' = disturbed \union {i \in Ids : Busy(i)}
      /\ \A i \in Ids : certs'[i] = IF OnDisk(i) THEN meta[i] ELSE Nil
      /\ index' \in [Domains -> Ids \union {Nil}]
      /\ \A d \in Domains : IF Claimants(d) = {} THEN index'[d] = Nil
                            ELSE IsLast(index'[d], Claimants(d))
  BY DEF Reboot, Restart, files
<1>2. \A i \in Ids : ~Busy(i)'
  BY <1>1, Fields DEF Busy, Uploading, Deleting
<1>3. IssuedOnce'
  <2> SUFFICES ASSUME NEW i \in AcmeIds \ issued
               PROVE  Unknown(i)' /\ \A d \in Domains : index'[d] # i
    BY <1>1 DEF IssuedOnce
  <2>1. i \in Ids /\ Unknown(i) /\ ~OnDisk(i) /\ i # Nil
    BY AcmeIdsAssumption, Fields DEF KInv, IssuedOnce, Unknown, OnDisk
  <2>2. \A d \in Domains : i \notin Claimants(d)
    BY <2>1 DEF Claimants
  <2>3. Unknown(i)'
    BY <1>1, <1>2, <2>1 DEF Unknown
  <2> QED
    BY <1>1, <2>1, <2>2, <2>3 DEF IsLast
<1>4. Young' /\ Matched'
  BY <1>1, ProvisionersAssumption DEF KInv, Young, Matched
<1>5. KeptOnDisk'
  <2> SUFFICES ASSUME NEW d \in kept' PROVE Safe(d)'
    BY DEF KeptOnDisk
  <2>1. /\ d \in kept /\ d \in Domains /\ index[d] \in Ids /\ certs[index[d]] # Nil
        /\ d \in certs[index[d]].doms /\ meta[index[d]] = certs[index[d]]
        /\ crt[index[d]] # Nil /\ key[index[d]] = crt[index[d]]
    BY <1>1, KeptFacts DEF Safe, Served, Loadable
  <2>2. index[d] \in Claimants(d)
    BY <2>1 DEF Claimants, OnDisk
  <2>3. index'[d] \in Claimants(d)
    BY <1>1, <2>1, <2>2 DEF IsLast
  <2>4. PICK i \in Ids : i = index'[d] /\ OnDisk(i) /\ d \in meta[i].doms
    BY <2>3 DEF Claimants
  <2>5. key[i] = crt[i]
    <3>1. CASE i \in AcmeIds
      BY <2>4, <3>1 DEF OnDisk, KInv, Matched
    <3>2. CASE i \notin AcmeIds
      BY <1>1, <2>4, <3>2 DEF OnDisk, IInv, DiskAgrees
    <3> QED
      BY <3>1, <3>2
  <2>6. /\ certs'[i] = meta[i] /\ meta[i] # Nil /\ d \in meta[i].doms
        /\ crt[i] # Nil /\ i # Nil
    BY <1>1, <2>4, Fields DEF OnDisk
  <2> QED
    BY <1>1, <2>4, <2>5, <2>6 DEF Safe, Served, Loadable, Deleting
<1> QED
  BY <1>3, <1>4, <1>5 DEF KInv

LEMMA KInvStep ==
    KInv /\ CInv /\ IInv /\ Known /\ [AcmeNext]_<<vars, acmeVars>> => KInv'
<1> SUFFICES ASSUME KInv, CInv, IInv, Known, [AcmeNext]_<<vars, acmeVars>>
             PROVE  KInv'
  OBVIOUS
<1>1. ASSUME NEW p \in Provisioners,
             \/ \E d \in Domains : Trigger(p, d)
             \/ \E t \in Tokens : Order(p, t)
             \/ Accept(p) \/ Wait(p) \/ Store(p) \/ Clean(p) \/ Fail(p)
      PROVE  UNCHANGED <<vars, issued, kept>>
  BY <1>1 DEF Trigger, Order, Accept, Wait, Store, Clean, Fail, recorded
<1>2. ASSUME NEW t \in Tokens, Validate(t) \/ Refuse(t)
      PROVE  UNCHANGED <<vars, issued, kept>>
  BY <1>2 DEF Validate, Refuse, recorded
<1>3. CASE UNCHANGED <<vars, issued, kept>>
  BY <1>3, KInvStays
<1>4. CASE UNCHANGED <<vars, acmeVars>>
  BY <1>4, KInvStays DEF acmeVars, recorded
<1> QED
  BY <1>1, <1>2, <1>3, <1>4, KFinalize, KByHand, KUpload, KStoreDomain, KDelete,
     KReboot DEF AcmeNext, StoreCert

LEMMA KnownHolds == AcmeSpec => []Known
<1>1. Init => Known
  BY DEF Init, Known
<1> QED
  BY <1>1, IInvHolds, CertManagerGoesOn, KnownStep, PTL DEF Spec, IInv

LEMMA KInvHolds == AcmeSpec => []KInv
BY IInvHolds, CInvHolds, KnownHolds, KInvInit, KInvStep, PTL DEF AcmeSpec


(***************************************************************************)
(* Theorems.                                                               *)
(***************************************************************************)

(* The variables keep their types; in particular, only what the authority    *)
(* has offered gets into the map of challenges.                              *)
THEOREM AcmeTypeCorrect == AcmeSpec => []AcmeTypeOK
BY CInvHolds, PTL DEF CInv

(* The authority finds the answer to every token this process has accepted,  *)
(* however many provisionings of the same name share it.                     *)
THEOREM AlwaysAnswerable == AcmeSpec => []Answerable
BY CInvHolds, PTL DEF CInv

(* A challenge in the map is in use, or left by a provisioning that failed.  *)
THEOREM ChallengesAlwaysAccounted == AcmeSpec => []ChallengesAccounted
BY CInvHolds, PTL DEF CInv

(* What has been provisioned stays served, although other provisionings,     *)
(* uploads by hand - whose steps fall between those of everything else -,    *)
(* deletes and crashes concern the same domain, as long as none of the       *)
(* dangers that end a domain's being kept has come about.                    *)
THEOREM KeptAlwaysServed == AcmeSpec => []KeptServed
<1>1. KInv => KeptServed
  BY DEF KInv, KeptOnDisk, Safe, KeptServed
<1> QED
  BY <1>1, KInvHolds, PTL

(* Whatever provisionings and uploads by hand do next to each other, memory   *)
(* and disk agree on every certificate whose calls are over.                 *)
THEOREM DiskAgreesWithAcme == AcmeSpec => []DiskAgrees
BY CertManagerGoesOn, DiskAlwaysAgrees, PTL

(***************************************************************************)
(* The index, when ids are issued once.                                    *)
(***************************************************************************)
(* An undisturbed entry that leads to a certificate of ACME's leads to one of *)
(* its domain at any moment; what is being deleted stays in the map to the   *)
(* last step of the delete, and has no entry left by then.                   *)
Indexed ==
    /\ \A d \in Domains : index[d] \in AcmeIds \ disturbed =>
          certs[index[d]] # Nil /\ d \in certs[index[d]].doms
    /\ deleting # Nil /\ deleting.cert.id \in AcmeIds =>
          certs[deleting.cert.id] = deleting.cert

(* The steps of an upload. *)
LEMMA IndexedUpload ==
    ASSUME IInv, KInv, Indexed, NEW u \in Uploaders, up[u] # Nil,
           \/ WriteCrt(u) \/ WriteMeta(u) \/ CrtFails(u) \/ MetaFails(u)
           \/ UndoKey(u) \/ IndexCert(u) \/ \E d \in Domains : IndexDomain(u, d)
    PROVE  Indexed'
<1>1. PICK c : c = up[u].cert
  OBVIOUS
<1>2. /\ c \in StoredCert /\ c # Nil /\ c.id \in Ids
      /\ c.id \in AcmeIds =>
            /\ \E e \in Domains : c.doms = {e} /\ up[u].todo = {e}
            /\ up[u].step # "index" => certs[c.id] = Nil /\ c.id \notin disturbed
            /\ c.id \notin disturbed => Progress(u)
  BY <1>1, UploadFacts DEF KInv, Young
<1>3. /\ certs \in [Ids -> StoredCert \union {Nil}]
      /\ index \in [Domains -> Ids \union {Nil}]
      /\ deleting # Nil => deleting.cert # Nil
  BY Fields DEF IInv, TypeOK
<1>4. CASE WriteCrt(u) \/ WriteMeta(u) \/ CrtFails(u) \/ MetaFails(u) \/ UndoKey(u)
  <2>1. UNCHANGED <<certs, index, deleting>> /\ disturbed \subseteq disturbed'
    BY <1>4 DEF WriteCrt, WriteMeta, CrtFails, MetaFails, UndoKey, CutShort
  <2> QED
    BY <2>1 DEF Indexed
<1>5. CASE IndexCert(u)
  <2>1. /\ certs' = [certs EXCEPT ![c.id] = c]
        /\ UNCHANGED <<index, deleting, disturbed>>
        /\ c.id \in AcmeIds => certs[c.id] = Nil /\ c.id \notin disturbed
    BY <1>1, <1>2, <1>5 DEF IndexCert, At
  <2> QED
    BY <1>2, <1>3, <2>1, AcmeIdsAssumption DEF Indexed
<1>6. ASSUME NEW d \in Domains, IndexDomain(u, d) PROVE Indexed'
  <2>1. /\ index' = [index EXCEPT ![d] = c.id]
        /\ UNCHANGED <<certs, deleting, disturbed>>
        /\ c.id \in AcmeIds \ disturbed => certs[c.id] = c /\ d \in c.doms
    BY <1>1, <1>2, <1>6 DEF IndexDomain, At, Progress
  <2> QED
    BY <1>2, <1>3, <2>1 DEF Indexed
<1> QED
  BY <1>4, <1>5, <1>6

LEMMA IndexedDelete ==
    ASSUME IInv, Indexed, ToGo(AcmeIds), NEW i \in Ids, Delete(i)
    PROVE  Indexed'
<1>1. /\ certs \in [Ids -> StoredCert \union {Nil}]
      /\ index \in [Domains -> Ids \union {Nil}]
      /\ certs[i] # Nil => certs[i].id = i
      /\ deleting # Nil => deleting \in Deletion /\ deleting.cert.id \in Ids
      /\ deleting # Nil => deleting.found \in Domains \union {Nil}
      /\ Nil \notin AcmeIds
  BY AcmeIdsAssumption, Fields DEF IInv, TypeOK, Keyed
<1>2. CASE BeginDelete(i)
  <2>1. /\ UNCHANGED <<certs, index>> /\ disturbed \subseteq disturbed'
        /\ deleting'.cert = certs[i] /\ certs[i] # Nil
    BY <1>2, NewDeletion DEF BeginDelete, IInv
  <2> QED
    BY <1>1, <2>1 DEF Indexed
<1>3. CASE DeleteKey \/ DeleteMeta \/ \E d \in Domains : CheckDomain(d)
  <2>1. UNCHANGED <<certs, index, disturbed>> /\ deleting # Nil
    BY <1>3 DEF DeleteKey, DeleteMeta, CheckDomain, Unindexing
  <2>2. deleting'.cert = deleting.cert
    BY <1>1, <1>3, <2>1 DEF DeleteKey, DeleteMeta, CheckDomain, Deletion
  <2> QED
    BY <2>1, <2>2 DEF Indexed
<1>4. CASE DropEntry
  <2>1. /\ UNCHANGED <<certs, disturbed>> /\ deleting # Nil
        /\ \A d \in Domains : index'[d] \in {index[d], Nil}
    BY <1>1, <1>4 DEF DropEntry, Unindexing
  <2>2. deleting'.cert = deleting.cert
    BY <1>1, <1>4, <2>1 DEF DropEntry, Deletion
  <2> QED
    BY <1>1, <2>1, <2>2 DEF Indexed
<1>5. CASE DropCert
  <2>1. /\ certs' = [certs EXCEPT ![deleting.cert.id] = Nil]
        /\ deleting' = Nil /\ UNCHANGED <<index, disturbed>>
        /\ deleting # Nil /\ deleting.found = Nil /\ deleting.todo = {}
    BY <1>5 DEF DropCert, Unindexing
  <2>2. ASSUME NEW d \in Domains, index[d] \in AcmeIds \ disturbed
        PROVE  index[d] # deleting.cert.id
    BY <1>1, <2>1, <2>2, Fields DEF ToGo
  <2> QED
    BY <1>1, <2>1, <2>2 DEF Indexed
<1> QED
  BY <1>2, <1>3, <1>4, <1>5 DEF Delete, DeleteGoesOn

LEMMA IndexedStep ==
    ASSUME IInv, KInv, Indexed, ToGo(AcmeIds), [AcmeNext]_<<vars, acmeVars>>
    PROVE  Indexed' /\ ToGo(AcmeIds)'
<1>1. ASSUME NEW u \in Uploaders, StoreCert(u) \/ UploadFails(u) PROVE Indexed'
  <2>1. up[u] # Nil
    BY <1>1 DEF StoreCert, StoreFiles, StoreDomain, UploadFails, WriteCrt,
                WriteMeta, UndoKey, IndexCert, IndexDomain, CrtFails,
                MetaFails, At
  <2> QED
    BY <1>1, <2>1, IndexedUpload DEF StoreCert, StoreFiles, StoreDomain,
                                     UploadFails
<1>2. ASSUME NEW u \in Uploaders, NEW c \in Offered, BeginUpload(u, c),
             c.id \in AcmeIds => \A d \in Domains : index[d] # c.id
      PROVE  Indexed'
  <2>1. /\ UNCHANGED <<certs, index, deleting>>
        /\ \A i : i # c.id /\ i \in disturbed => i \in disturbed'
    BY <1>2 DEF BeginUpload
  <2> QED
    BY <1>2, <2>1 DEF Indexed
<1>3. ASSUME NEW p \in Provisioners, NEW c \in Offered, Finalize(p, c)
      PROVE  Indexed'
  BY <1>2, <1>3, ProvisionersAssumption DEF Finalize, KInv, IssuedOnce
<1>4. ASSUME NEW u \in Uploaders, NEW c \in Offered, UploadByHand(u, c)
      PROVE  Indexed'
  BY <1>2, <1>4 DEF UploadByHand
<1>5. ASSUME Reboot PROVE Indexed'
  <2>1. deleting' = Nil
    BY <1>5 DEF Reboot, Restart
  <2>2. ASSUME NEW d \in Domains, index'[d] \in AcmeIds
        PROVE  certs'[index'[d]] # Nil /\ d \in certs'[index'[d]].doms
    <3>1. index'[d] \in Claimants(d)
      BY <1>5, <2>2, AcmeIdsAssumption, Fields DEF Reboot, Restart, IsLast
    <3> QED
      BY <1>5, <3>1 DEF Reboot, Restart, Claimants, OnDisk
  <2> QED
    BY <2>1, <2>2 DEF Indexed
<1>6. ASSUME UNCHANGED vars PROVE Indexed'
  BY <1>6 DEF vars, Indexed
<1>7. ASSUME NEW p \in Provisioners,
             \/ \E d \in Domains : Trigger(p, d)
             \/ \E t \in Tokens : Order(p, t)
             \/ Accept(p) \/ Wait(p) \/ Store(p) \/ Clean(p) \/ Fail(p)
      PROVE  UNCHANGED vars
  BY <1>7 DEF Trigger, Order, Accept, Wait, Store, Clean, Fail
<1>8. ASSUME NEW t \in Tokens, Validate(t) \/ Refuse(t) PROVE UNCHANGED vars
  BY <1>8 DEF Validate, Refuse
<1>9. Indexed'
  BY <1>1, <1>3, <1>4, <1>5, <1>6, <1>7, <1>8, IndexedDelete DEF AcmeNext
<1>10. ToGo(AcmeIds)'
  <2>1. [Next]_vars
    BY AcmeIsCertStep
  <2>2. \A i \in Ids, d \in Domains :
           BeginDelete(i) /\ i \in AcmeIds \ disturbed /\ index[d] = i =>
               d \in certs[i].doms
    BY DEF Indexed
  <2>3. CASE deleting = Nil
    BY <2>1, <2>2, <2>3, ToGoBegins
  <2>4. CASE deleting # Nil
    BY <2>1, <2>4, ToGoStep
  <2> QED
    BY <2>3, <2>4
<1> QED
  BY <1>9, <1>10

(* An entry of the index that leads to a settled certificate of ACME's leads *)
(* to one that is there and claims the domain.                               *)
ConfiguredByAcme ==
    \A d \in Domains : index[d] \in AcmeIds /\ Settled(index[d]) =>
        certs[index[d]] # Nil /\ d \in certs[index[d]].doms

(* Without a condition on what is offered, ACME's certificates are served for *)
(* their domains only: an id, which the authority issues once, never changes *)
(* its domain.  The disagreement that uploads by hand can bring about is     *)
(* about their own certificates, even where they share a domain with ACME's. *)
THEOREM AcmeServesOnlyConfigured == AcmeSpec => []ConfiguredByAcme
<1>1. AcmeInit => Indexed /\ ToGo(AcmeIds)
  BY AcmeIdsAssumption, Fields DEF AcmeInit, Init, Indexed, ToGo
<1>2. Indexed => ConfiguredByAcme
  BY DEF Indexed, ConfiguredByAcme, Settled
<1>3. IInv /\ KInv /\ Indexed /\ ToGo(AcmeIds) /\ [AcmeNext]_<<vars, acmeVars>>
        => Indexed' /\ ToGo(AcmeIds)'
  BY IndexedStep
<1> QED
  BY <1>1, <1>2, <1>3, IInvHolds, KInvHolds, PTL DEF AcmeSpec


(***************************************************************************)
(* The way of a provisioning.                                              *)
(***************************************************************************)

(* A provisioning is either at its order or at its upload. *)
OneAtATime == \A p \in Provisioners : prov[p] = Nil \/ up[p] = Nil

(* A step leaves provisioning p alone, starts it, or brings it nearer to its *)
(* end.                                                                      *)
Advances(p) ==
    \/ UNCHANGED <<prov[p], up[p]>>
    \/ prov[p] = Nil /\ up[p] = Nil /\ up'[p] = Nil
    \/ /\ StepsLeft(p)' < StepsLeft(p)
       /\ prov'[p] = Nil \/ up'[p] = Nil

LEMMA ProvAdvances ==
    ASSUME TypeOK, CInv, OneAtATime, NEW p \in Provisioners,
           \/ \E t \in Tokens : Order(p, t)
           \/ Store(p) \/ Accept(p) \/ Wait(p) \/ Clean(p) \/ Fail(p)
    PROVE  Advances(p) /\ \A q \in Provisioners \ {p} : Advances(q)
<1>1. up' = up /\ prov[p] # Nil /\ up[p] = Nil /\ prov[p] \in Provisioning
  BY DEF Order, Store, Accept, Wait, Clean, Fail, StepOn, vars, OneAtATime,
         CInv, AcmeTypeOK
<1>2. \A q \in Provisioners \ {p} : prov'[q] = prov[q]
  BY DEF Order, Store, Accept, Wait, Clean, Fail, StepOn, CInv, AcmeTypeOK
<1>3. ASSUME prov'[p] = Nil PROVE StepsLeft(p)' < StepsLeft(p)
  <2>1. StepsLeft(p)' = 0
    BY <1>1, <1>3 DEF StepsLeft
  <2>2. StepsLeft(p) > 0
    BY <1>1, ProvisioningFields DEF StepsLeft
  <2> QED
    BY <2>1, <2>2 DEF StepsLeft
<1>4. ASSUME NEW t \in Tokens, Order(p, t)
      PROVE  prov[p].step = "order" /\ prov'[p] # Nil /\ prov'[p].step = "store"
  <2> DEFINE n == [prov[p] EXCEPT !.token = t, !.step = "store"]
  <2>1. n \in Provisioning /\ n.step = "store"
    BY <1>1 DEF Provisioning
  <2>2. prov'[p] = n /\ prov[p].step = "order"
    BY <1>4 DEF Order, CInv, AcmeTypeOK
  <2> QED
    BY <2>1, <2>2, ProvisioningFields
<1>5. Store(p) => prov[p].step = "store" /\ prov'[p] # Nil /\ prov'[p].step = "accept"
  BY StepOnEffect DEF Store
<1>6. Accept(p) => prov[p].step = "accept" /\ prov'[p] # Nil /\ prov'[p].step = "wait"
  BY StepOnEffect DEF Accept
<1>7. Wait(p) => prov[p].step = "wait" /\ prov'[p] # Nil /\ prov'[p].step = "clean"
  BY StepOnEffect DEF Wait
<1>8. Clean(p) => prov[p].step = "clean" /\ prov'[p] # Nil /\ prov'[p].step = "final"
  BY StepOnEffect DEF Clean
<1>9. Fail(p) => prov'[p] = Nil
  BY DEF Fail, CInv, AcmeTypeOK
<1>10. StepsLeft(p)' < StepsLeft(p)
  <2>1. CASE prov'[p] = Nil
    BY <2>1, <1>3
  <2>2. CASE prov'[p] # Nil
    BY <1>1, <1>4, <1>5, <1>6, <1>7, <1>8, <1>9, <2>2 DEF StepsLeft
  <2> QED
    BY <2>1, <2>2
<1> QED
  BY <1>1, <1>2, <1>10 DEF Advances

LEMMA FinalizeAdvances ==
    ASSUME TypeOK, CInv, OneAtATime, NEW p \in Provisioners, NEW c \in Offered,
           Finalize(p, c)
    PROVE  \A q \in Provisioners : Advances(q)
<1> DEFINE n == [cert |-> c, step |-> "crt", todo |-> c.doms,
                 fresh |-> certs[c.id] = Nil /\ c.id \notin disturbed]
<1>1. /\ prov[p] # Nil /\ prov[p].step = "final"
      /\ prov' = [prov EXCEPT ![p] = Nil] /\ up' = [up EXCEPT ![p] = n]
  BY DEF Finalize, BeginUpload
<1>2. n.step = "crt"
  OBVIOUS
<1> HIDE DEF n
<1>3. /\ prov'[p] = Nil /\ up'[p] = n
      /\ \A q \in Provisioners \ {p} : prov'[q] = prov[q] /\ up'[q] = up[q]
  BY <1>1, ProvisionersAssumption DEF TypeOK, CInv, AcmeTypeOK
<1>4. StepsLeft(p) = 5
  BY <1>1 DEF StepsLeft
<1>5. StepsLeft(p)' \in {4, 0}
  BY <1>2, <1>3 DEF StepsLeft
<1> QED
  BY <1>3, <1>4, <1>5 DEF Advances

LEMMA UploadAdvances ==
    ASSUME IInv, KInv, OneAtATime, NEW u \in Uploaders, UNCHANGED prov,
           \/ WriteCrt(u) \/ WriteMeta(u) \/ CrtFails(u) \/ MetaFails(u)
           \/ UndoKey(u) \/ IndexCert(u) \/ \E d \in Domains : IndexDomain(u, d)
    PROVE  \A q \in Provisioners : Advances(q)
<1>1. \A v \in Uploaders \ {u} : up'[v] = up[v]
  BY DEF WriteCrt, WriteMeta, CrtFails, MetaFails, UndoKey, IndexCert,
         IndexDomain, Done, IInv, TypeOK
<1>2. \A q \in Provisioners \ {u} : Advances(q)
  BY <1>1, ProvisionersAssumption DEF Advances
<1>3. ASSUME u \in Provisioners PROVE Advances(u)
  <2>1. up[u] # Nil /\ prov[u] = Nil /\ prov'[u] = Nil
    BY <1>3 DEF WriteCrt, WriteMeta, CrtFails, MetaFails, UndoKey, IndexCert,
                IndexDomain, At, OneAtATime
  <2>2. up[u] \in Upload /\ \E d \in Domains : up[u].todo = {d}
    BY <1>3, <2>1, UploadFacts DEF KInv, Young
  <2>3. ASSUME NEW s \in {"meta", "undo", "certs", "index"},
               up' = [up EXCEPT ![u].step = s]
        PROVE  up'[u] # Nil /\ up'[u].step = s
    <3> DEFINE n == [up[u] EXCEPT !.step = s]
    <3>1. n \in Upload /\ n.step = s
      BY <2>2 DEF Upload
    <3>2. up'[u] = n
      BY <2>3 DEF IInv, TypeOK
    <3> QED
      BY <3>1, <3>2, Fields
  <2>4. WriteCrt(u) => up[u].step = "crt" /\ up'[u] # Nil /\ up'[u].step = "meta"
    BY <2>3 DEF WriteCrt, At
  <2>5. WriteMeta(u) => up[u].step = "meta" /\ up'[u] # Nil /\ up'[u].step = "certs"
    BY <2>3 DEF WriteMeta, At
  <2>6. MetaFails(u) => up[u].step = "meta" /\ up'[u] # Nil /\ up'[u].step = "undo"
    BY <2>3 DEF MetaFails, At
  <2>7. IndexCert(u) => up[u].step = "certs" /\ up'[u] # Nil /\ up'[u].step = "index"
    BY <2>2, <2>3 DEF IndexCert, At
  <2>8. CrtFails(u) \/ UndoKey(u) => up'[u] = Nil
    BY DEF CrtFails, UndoKey, Done, IInv, TypeOK
  <2>9. ASSUME NEW d \in Domains, IndexDomain(u, d) PROVE up'[u] = Nil
    <3>1. up[u].todo = {d}
      BY <2>2, <2>9 DEF IndexDomain
    <3> QED
      BY <2>9, <3>1 DEF IndexDomain, Done, IInv, TypeOK
  <2>10. StepsLeft(u)' < StepsLeft(u)
    <3>1. CASE up'[u] = Nil
      <4>1. StepsLeft(u)' = 0
        BY <2>1, <3>1 DEF StepsLeft
      <4>2. StepsLeft(u) \in 1 .. 4
        BY <2>1, <2>2, Fields DEF StepsLeft
      <4> QED
        BY <4>1, <4>2
    <3>2. CASE up'[u] # Nil
      BY <2>1, <2>4, <2>5, <2>6, <2>7, <2>8, <2>9, <3>2 DEF StepsLeft
    <3> QED
      BY <3>1, <3>2
  <2> QED
    BY <2>1, <2>10 DEF Advances
<1> QED
  BY <1>2, <1>3

LEMMA AllAdvance ==
    ASSUME IInv, CInv, KInv, OneAtATime, [AcmeNext]_<<vars, acmeVars>>
    PROVE  \A q \in Provisioners : \/ Advances(q)
                                   \/ prov'[q] = Nil /\ up'[q] = Nil
<1>0. TypeOK
  BY DEF IInv
<1>1. ASSUME NEW p \in Provisioners,
             \/ \E t \in Tokens : Order(p, t)
             \/ Store(p) \/ Accept(p) \/ Wait(p) \/ Clean(p) \/ Fail(p)
      PROVE  \A q \in Provisioners : Advances(q)
  BY <1>0, <1>1, ProvAdvances
<1>2. ASSUME NEW u \in Uploaders, StoreCert(u) \/ UploadFails(u)
      PROVE  \A q \in Provisioners : Advances(q)
  <2>1. prov' = prov
    BY <1>2 DEF StoreCert, StoreFiles, StoreDomain, UploadFails, acmeVars
  <2> QED
    BY <1>2, <2>1, UploadAdvances DEF StoreCert, StoreFiles, StoreDomain,
                                      UploadFails
<1>3. ASSUME NEW p \in Provisioners, NEW d \in Domains, Trigger(p, d)
      PROVE  \A q \in Provisioners : Advances(q)
  BY <1>3 DEF Trigger, vars, Advances, CInv, AcmeTypeOK
<1>4. ASSUME NEW u \in Uploaders \ Provisioners, NEW c \in Offered,
             UploadByHand(u, c)
      PROVE  \A q \in Provisioners : Advances(q)
  <2>1. BeginUpload(u, c) /\ prov' = prov
    BY <1>4 DEF UploadByHand
  <2>2. \A v \in Uploaders \ {u} : up'[v] = up[v]
    BY <2>1, BeginEffect
  <2> QED
    BY <2>1, <2>2, ProvisionersAssumption DEF Advances
<1>5. ASSUME Reboot PROVE \A q \in Provisioners : prov'[q] = Nil /\ up'[q] = Nil
  BY <1>5, ProvisionersAssumption DEF Reboot, Restart
<1>6. ASSUME NEW t \in Tokens, Validate(t) \/ Refuse(t)
      PROVE  UNCHANGED <<prov, up>>
  BY <1>6 DEF Validate, Refuse, vars
<1>7. ASSUME NEW i \in Ids, Delete(i) PROVE UNCHANGED <<prov, up>>
  BY <1>7 DEF Delete, BeginDelete, DeleteGoesOn, DeleteKey, DeleteMeta,
              CheckDomain, DropEntry, DropCert
<1>8. CASE UNCHANGED <<prov, up>>
  BY <1>8 DEF Advances
<1>9. UNCHANGED <<vars, acmeVars>> => UNCHANGED <<prov, up>>
  BY DEF vars, acmeVars
<1> QED
  BY <1>0, <1>1, <1>2, <1>3, <1>4, <1>5, <1>6, <1>7, <1>8, <1>9, FinalizeAdvances
     DEF AcmeNext

(* Every step of a provisioning brings it nearer to its end, and no step of  *)
(* anything else takes it back: with whatever number of provisionings and    *)
(* answers of the authority, it takes ten steps at most.                     *)
THEOREM ProvisioningAdvances == AcmeSpec => NeverGoesBack
<1>1. AcmeInit => OneAtATime
  BY DEF AcmeInit, OneAtATime
<1>2. IInv /\ CInv /\ KInv /\ OneAtATime /\ [AcmeNext]_<<vars, acmeVars>> => OneAtATime'
  BY AllAdvance DEF Advances, OneAtATime
<1>3. IInv /\ CInv /\ KInv /\ OneAtATime /\ [AcmeNext]_<<vars, acmeVars>> =>
         \A p \in Provisioners : StepsLeft(p) > 0 =>
            UNCHANGED <<prov[p], up[p]>> \/ StepsLeft(p)' < StepsLeft(p)
  <2> SUFFICES ASSUME IInv, CInv, KInv, OneAtATime, [AcmeNext]_<<vars, acmeVars>>,
                      NEW p \in Provisioners, StepsLeft(p) > 0,
                      ~UNCHANGED <<prov[p], up[p]>>
               PROVE  StepsLeft(p)' < StepsLeft(p)
    OBVIOUS
  <2>1. CASE prov'[p] = Nil /\ up'[p] = Nil
    <3>1. StepsLeft(p)' = 0
      BY <2>1 DEF StepsLeft
    <3> QED
      BY <3>1 DEF StepsLeft
  <2>2. CASE prov[p] = Nil /\ up[p] = Nil
    BY <2>2 DEF StepsLeft
  <2> QED
    BY <2>1, <2>2, AllAdvance DEF Advances
<1> QED
  BY <1>1, <1>2, <1>3, IInvHolds, CInvHolds, KInvHolds, PTL
     DEF AcmeSpec, NeverGoesBack
=============================================================================
