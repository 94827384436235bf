-------------------------------- MODULE Acme --------------------------------
(***************************************************************************)
(* internal/cert/acme.go on top of the certificate manager: a handshake    *)
(* that finds no certificate starts a provisioning in the background,      *)
(* which proves control of the name to the certificate authority by an     *)
(* HTTP-01 challenge and stores the certificate it is given.  Meanwhile    *)
(* certificates of the same names are uploaded through the API.            *)
(*                                                                         *)
(* Nothing keeps a second handshake from starting another provisioning of  *)
(* the same name, and the authority may give both the same authorization,  *)
(* hence the same token.  (An order for one name has one authorization, so *)
(* the loop of provisionCert runs once.)  The authority and the autocert   *)
(* library are external: what they answer, and when, is a choice.          *)
(* Challenges live in memory; the authority remembers its authorizations   *)
(* across a restart.  The renewal checker starts nothing: AddUploadedCert  *)
(* stores every certificate with AutoRenew false, and ExpiringSoon skips   *)
(* those.                                                                  *)
(***************************************************************************)
EXTENDS CertManager

CONSTANTS Tokens,       \* challenge tokens, one for each authorization
          Provisioners, \* uploaders that are calls of provisionCert; the rest
                        \* are calls of the API's upload handler
          AcmeIds       \* ids "acme-" and the start of a serial number

(* A call of provisionCert, the uploader of the same name being its          *)
(* AddUploadedCert: what it does next, and the token it has been given.      *)
Provisioning == [domain : Domains, token : Tokens \union {Nil},
                 step : {"order", "store", "accept", "wait", "clean", "final"}]

Authorization == [domain : Domains,
                  status : {"pending", "processing", "valid", "invalid"}]

ASSUME AcmeAssumption == Nil \notin Tokens \union Provisioning \union Authorization

ASSUME ProvisionersAssumption == Provisioners \subseteq Uploaders

ASSUME AcmeIdsAssumption == AcmeIds \subseteq Ids

VARIABLES prov,         \* prov[p]: the provisioning p, or Nil
          challenges,   \* the tokens in am.challenges
          authz,        \* authz[t]: at the authority, or Nil
          issued,       \* the certificates the authority has issued
          asked,        \* tokens accepted by this process,
          left,         \* and those of its provisionings that failed, and
          kept          \* domains whose certificates nothing has endangered
                        \* since they were provisioned, and none deleted
                        \* (these three recorded for the properties)

recorded == <<asked, left, kept>>
acmeVars == <<prov, challenges, authz, issued, recorded>>

AcmeTypeOK ==
    /\ prov \in [Provisioners -> Provisioning \union {Nil}]
    /\ challenges \in SUBSET Tokens
    /\ authz \in [Tokens -> Authorization \union {Nil}]
    /\ issued \in SUBSET AcmeIds
    /\ asked \in SUBSET Tokens
    /\ left \in SUBSET Tokens
    /\ kept \in SUBSET Domains

AcmeInit ==
    /\ Init
    /\ prov = [p \in Provisioners |-> Nil]
    /\ challenges = {}
    /\ authz = [t \in Tokens |-> Nil]
    /\ issued = {}
    /\ asked = {} /\ left = {} /\ kept = {}

-----------------------------------------------------------------------------
(* GetCertificate of the certificate manager has found nothing and released  *)
(* its lock, autocert has no certificate either: the handshake fails, and    *)
(* starts a provisioning, which may order when the name has a certificate.   *)
Trigger(p, d) ==
    /\ deleting = Nil
    /\ Target(d) = Nil
    /\ prov[p] = Nil /\ up[p] = Nil
    /\ prov' = [prov EXCEPT ![p] = [domain |-> d, token |-> Nil, step |-> "order"]]
    /\ UNCHANGED <<vars, challenges, authz, issued, recorded>>

-----------------------------------------------------------------------------
StepOn(p, from, to) ==
    /\ prov[p] # Nil /\ prov[p].step = from
    /\ prov' = [prov EXCEPT ![p].step = to]

(* Fault: the provisioning goes on when the authority offers no HTTP-01       *)
(* challenge.                                                                *)
OrderAnyChallenge(p, t) ==
    /\ prov[p] # Nil /\ prov[p].step = "order"
    /\ authz[t] = Nil
    /\ authz' = [authz EXCEPT ![t] = [domain |-> prov[p].domain,
                                      status |-> "pending"]]
    /\ prov' = [prov EXCEPT ![p].step = "store"]
    /\ UNCHANGED <<vars, challenges, issued, recorded>>

(* AuthorizeOrder: a new authorization, or one of the same name that still   *)
(* counts.                                                                   *)
Order(p, t) ==
    /\ prov[p] # Nil /\ prov[p].step = "order"
    /\ \/ /\ authz[t] = Nil
          /\ authz' = [authz EXCEPT ![t] = [domain |-> prov[p].domain,
                                            status |-> "pending"]]
       \/ /\ authz[t] # Nil
          /\ authz[t].domain = prov[p].domain /\ authz[t].status # "invalid"
          /\ UNCHANGED authz
    /\ prov' = [prov EXCEPT ![p].token = t, ![p].step = "store"]
    /\ UNCHANGED <<vars, challenges, issued, recorded>>

Store(p) ==
    /\ StepOn(p, "store", "accept")
    /\ challenges' = challenges \union {prov[p].token}
    /\ UNCHANGED <<vars, authz, issued, recorded>>

(* Fault: the challenge is removed once it has been accepted. *)
AcceptAndClean(p) ==
    /\ StepOn(p, "accept", "wait")
    /\ authz' = [authz EXCEPT ![prov[p].token].status =
                    IF @ = "pending" THEN "processing" ELSE @]
    /\ asked' = asked \union {prov[p].token}
    /\ challenges' = challenges \ {prov[p].token}
    /\ UNCHANGED <<vars, issued, left, kept>>

(* Accept: the authority is told to look for the answer. *)
Accept(p) ==
    /\ StepOn(p, "accept", "wait")
    /\ authz' = [authz EXCEPT ![prov[p].token].status =
                    IF @ = "pending" THEN "processing" ELSE @]
    /\ asked' = asked \union {prov[p].token}
    /\ UNCHANGED <<vars, challenges, issued, left, kept>>

(* WaitAuthorization returns when the authority has its answer. *)
Wait(p) ==
    /\ StepOn(p, "wait", "clean")
    /\ authz[prov[p].token].status = "valid"
    /\ UNCHANGED <<vars, challenges, authz, issued, recorded>>

(* Fault: the challenge is not removed. *)
CleanNothing(p) ==
    /\ StepOn(p, "clean", "final")
    /\ UNCHANGED <<vars, challenges, authz, issued, recorded>>

Clean(p) ==
    /\ StepOn(p, "clean", "final")
    /\ challenges' = challenges \ {prov[p].token}
    /\ UNCHANGED <<vars, authz, issued, recorded>>

(* Fault: the id of a certificate does not depend on its serial number. *)
FinalizeSameId(p, c) ==
    /\ prov[p] # Nil /\ prov[p].step = "final"
    /\ c.doms = {prov[p].domain} /\ c.id \in AcmeIds
    /\ \A i \in issued : i = c.id
    /\ BeginUpload(p, c)
    /\ prov' = [prov EXCEPT ![p] = Nil]
    /\ issued' = issued \union {c.id}
    /\ UNCHANGED <<challenges, authz, recorded>>

(* CreateOrderCert returns a certificate with a serial number of its own,    *)
(* which AddUploadedCert begins to store.                                    *)
Finalize(p, c) ==
    /\ prov[p] # Nil /\ prov[p].step = "final"
    /\ c.doms = {prov[p].domain} /\ c.id \in AcmeIds \ issued
    /\ BeginUpload(p, c)
    /\ prov' = [prov EXCEPT ![p] = Nil]
    /\ issued' = issued \union {c.id}
    /\ UNCHANGED <<challenges, authz, recorded>>

(* Fault: WaitAuthorization is called without the context. *)
FailUnlessWaiting(p) ==
    /\ prov[p] # Nil /\ prov[p].step \notin {"wait", "clean"}
    /\ prov' = [prov EXCEPT ![p] = Nil]
    /\ left' = IF prov[p].step = "accept"
               THEN left \union {prov[p].token} ELSE left
    /\ UNCHANGED <<vars, challenges, authz, issued, asked, kept>>

(* Fault: a provisioning that fails before its order is accepted tries again. *)
FailAndRetry(p) ==
    /\ prov[p] # Nil /\ prov[p].step # "clean"
    /\ prov' = [prov EXCEPT ![p] = IF prov[p].step = "store"
                                  THEN [@ EXCEPT !.step = "order"] ELSE Nil]
    /\ left' = IF prov[p].step \in {"accept", "wait"}
               THEN left \union {prov[p].token} ELSE left
    /\ UNCHANGED <<vars, challenges, authz, issued, asked, kept>>

(* A call fails, at the latest when the context ends after five minutes: the *)
(* provisioning is given up, and its token stays behind.                     *)
Fail(p) ==
    /\ prov[p] # Nil /\ prov[p].step # "clean"
    /\ prov' = [prov EXCEPT ![p] = Nil]
    /\ left' = IF prov[p].step \in {"accept", "wait"}
               THEN left \union {prov[p].token} ELSE left
    /\ UNCHANGED <<vars, challenges, authz, issued, asked, kept>>

-----------------------------------------------------------------------------
(* The API stores a certificate of some tenant's.  Its id begins with the    *)
(* name of the tenant, which is taken not to be "acme", so that it is none of *)
(* ACME's.  If it replaces a certificate, that one serves its domains no      *)
(* longer for certain.                                                       *)
UploadByHand(u, c) ==
    /\ c.id \notin AcmeIds
    /\ BeginUpload(u, c)
    /\ kept' = {d \in kept : index[d] # c.id}
    /\ UNCHANGED <<prov, challenges, authz, issued, asked, left>>

(* The rest of AddUploadedCert, whoever calls it. *)
StoreFiles(u) ==
    /\ WriteCrt(u) \/ WriteMeta(u) \/ UndoKey(u) \/ IndexCert(u)
    /\ UNCHANGED acmeVars

UploadFails(u) ==
    /\ CrtFails(u) \/ MetaFails(u)
    /\ UNCHANGED acmeVars

(* The certificate i that is to serve d has met another call, or a delete    *)
(* has just looked at the entry of d.                                        *)
Endangered(d, i) == i \in disturbed \/ (deleting # Nil /\ deleting.found = d)

StoreDomain(u, d) ==
    /\ IndexDomain(u, d)
    /\ kept' = IF Endangered(d, up[u].cert.id) THEN kept \ {d}
               ELSE IF u \in Provisioners THEN kept \union {d}
               ELSE kept
    /\ UNCHANGED <<prov, challenges, authz, issued, asked, left>>

StoreCert(u) == StoreFiles(u) \/ \E d \in Domains : StoreDomain(u, d)

-----------------------------------------------------------------------------
(* HTTPHandler answers the authority with the key authorization of a token   *)
(* that is in the map, and 404 for any other.                                *)
Validate(t) ==
    /\ authz[t] # Nil /\ authz[t].status = "processing"
    /\ t \in challenges
    /\ authz' = [authz EXCEPT ![t].status = "valid"]
    /\ UNCHANGED <<vars, prov, challenges, issued, recorded>>

(* (or the authority does not get through) *)
Refuse(t) ==
    /\ authz[t] # Nil /\ authz[t].status = "processing"
    /\ authz' = [authz EXCEPT ![t].status = "invalid"]
    /\ UNCHANGED <<vars, prov, challenges, issued, recorded>>

(* DeleteCert, whose tenant is whatever the caller says, hence also "acme". *)
Delete(i) ==
    /\ BeginDelete(i) \/ (Deleting(i) /\ DeleteGoesOn)
    /\ kept' = {d \in kept : index[d] # i}
    /\ UNCHANGED <<prov, challenges, authz, issued, asked, left>>

(* The certificate that comes last in the directory takes a domain: of those *)
(* uploaded by hand, one damaged or at work may come last.                   *)
Reboot ==
    /\ Restart
    /\ prov' = [p \in Provisioners |-> Nil]
    /\ challenges' = {} /\ asked' = {} /\ left' = {}
    /\ kept' = {d \in kept : \A i \in Ids \ AcmeIds :
                  meta[i] # Nil /\ d \in meta[i].doms => Settled(i)}
    /\ UNCHANGED <<authz, issued>>

(* What a provisioning does without the authority, or gives up. *)
GoesOn(p) == Store(p) \/ Clean(p) \/ Fail(p) \/ StoreCert(p)

AcmeNext ==
    \/ \E p \in Provisioners :
          \/ \E d \in Domains : Trigger(p, d)
          \/ \E t \in Tokens : Order(p, t)
          \/ Accept(p) \/ Wait(p)
          \/ \E c \in Offered : Finalize(p, c)
          \/ Store(p) \/ Clean(p) \/ Fail(p)
    \/ \E u \in Uploaders \ Provisioners, c \in Offered : UploadByHand(u, c)
    \/ \E u \in Uploaders : StoreCert(u) \/ UploadFails(u)
    \/ \E t \in Tokens : Validate(t) \/ Refuse(t)
    \/ \E i \in Ids : Delete(i)
    \/ Reboot

(* A goroutine is scheduled, and a context ends. *)
Fairness == \A p \in Provisioners : WF_<<vars, acmeVars>>(GoesOn(p))

AcmeSpec == AcmeInit /\ [][AcmeNext]_<<vars, acmeVars>> /\ Fairness
-----------------------------------------------------------------------------
(* As long as the authority examines a token that this process has accepted, *)
(* it is given the answer - whatever other provisionings of the same name    *)
(* are doing, and whichever of them shares the token.                        *)
Answerable ==
    \A t \in asked : authz[t].status = "processing" => t \in challenges

Holds(p, t) ==
    prov[p] # Nil /\ prov[p].token = t /\ prov[p].step \in {"accept", "wait", "clean"}

(* The map keeps nothing of a provisioning that has got its authorization:   *)
(* what is in it belongs to one at work or was left by one that failed.      *)
ChallengesAccounted ==
    \A t \in challenges : t \in left \/ \E p \in Provisioners : Holds(p, t)

(* A domain that has been provisioned is served from then on, by whichever   *)
(* of its certificates, across restarts at any moment, next to further       *)
(* provisionings of it and to uploads of it by hand, failed ones included -  *)
(* until the certificate that serves it is deleted or replaced, until it     *)
(* changes hands just when a delete has looked at its entry, or while a call *)
(* disturbs the certificate, or until a restart when a certificate uploaded  *)
(* by hand that claims it is damaged or at work.                             *)
KeptServed == \A d \in kept : Served(d)

(* The calls a provisioning, and the upload it ends with, still have before   *)
(* them at most.                                                              *)
StepsLeft(p) ==
    IF prov[p] # Nil
    THEN CASE prov[p].step = "order" -> 10 [] prov[p].step = "store" -> 9
           [] prov[p].step = "accept" -> 8 [] prov[p].step = "wait" -> 7
           [] prov[p].step = "clean" -> 6  [] prov[p].step = "final" -> 5
    ELSE IF up[p] # Nil
    THEN CASE up[p].step = "crt" -> 4   [] up[p].step = "meta" -> 3
           [] up[p].step \in {"undo", "certs"} -> 2 [] up[p].step = "index" -> 1
    ELSE 0

(* No provisioning goes back or tries again, whatever the authority answers  *)
(* and the others do: none takes more than ten steps.  (That each of them is *)
(* taken in the end is the next property.)                                   *)
NeverGoesBack ==
    [][\A p \in Provisioners : StepsLeft(p) > 0 =>
          UNCHANGED <<prov[p], up[p]>> \/ StepsLeft(p)' < StepsLeft(p)
      ]_<<vars, acmeVars>>

(* Every provisioning comes to an end, whether or not the authority answers. *)
ProvisioningEnds == \A p \in Provisioners : []<>(prov[p] = Nil /\ up[p] = Nil)
=============================================================================
