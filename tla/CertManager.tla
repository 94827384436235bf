----------------------------- MODULE CertManager -----------------------------
(***************************************************************************)
(* internal/cert/manager.go: the certificates of all tenants, the index    *)
(* from domains to certificates that TLS handshakes use, and the three     *)
(* files of each certificate from which both are rebuilt at start-up.      *)
(*                                                                         *)
(* AddUploadedCert takes no lock at all: each file it renames into place   *)
(* and each map entry it writes is a step of its own.  (Two goroutines in  *)
(* a map at once make the Go runtime end the process, which Restart covers,*)
(* or go unnoticed, in which case the accesses happen in some order.)      *)
(* DeleteCert holds m.mu throughout, but a crash or an upload may come     *)
(* between the files it removes, and an upload between its looking at an   *)
(* entry of the index and its deleting that entry.  A handshake looks a    *)
(* certificate up under the read lock and reads its files afterwards,      *)
(* having released the lock if the client named a server.  A crash is one  *)
(* of the process: renamed files stay.                                     *)
(***************************************************************************)
EXTENDS Integers

CONSTANTS Ids,          \* certificate ids, ordered as os.ReadDir lists them
          Pairs,        \* certificates with their matching private keys
          Domains,      \* lower-case domain names, wildcards included
          WildcardOf,   \* WildcardOf[d]: "*." and the parent of d, or Nil
          Offered,      \* the certificates that are uploaded
          Uploaders,    \* concurrent calls of AddUploadedCert
          Clients,      \* concurrent TLS handshakes
          Nil

StoredCert == [id : Ids, doms : SUBSET Domains, pair : Pairs]

Upload == [cert : StoredCert, step : {"crt", "meta", "undo", "certs", "index"},
           todo : SUBSET Domains, fresh : BOOLEAN]

(* todo: the domains DeleteCert has not looked up yet; found: the one it has *)
(* found in the index as its own and deletes next; others: the domains that  *)
(* other certificates served when it took the lock (recorded for the         *)
(* properties).                                                              *)
Deletion == [cert : StoredCert, step : {"key", "meta", "unindex"},
             todo : SUBSET Domains, found : Domains \union {Nil},
             others : SUBSET Domains]

(* A handshake between its look-up and the reading of the files. *)
Handshake == [cert : StoredCert, locked : BOOLEAN]

ASSUME IdsAssumption == Ids \subseteq Nat

ASSUME OfferedAssumption == Offered \subseteq StoredCert

ASSUME WildcardAssumption == WildcardOf \in [Domains -> Domains \union {Nil}]

ASSUME NilAssumption ==
    Nil \notin Ids \union Pairs \union Domains \union StoredCert
               \union Upload \union Deletion \union Handshake

VARIABLES certs,        \* m.certs
          index,        \* m.domainIndex
          key, crt,     \* key[i], crt[i]: the pair the file of i is part of
          meta,         \* meta[i]: what the .json file of i says
          up,           \* up[u]: progress of the AddUploadedCert call u
          deleting,     \* progress of DeleteCert, which excludes another one
          hs,           \* hs[c]: what the handshake c has looked up, or Nil
          disturbed     \* ids whose calls overlapped or were cut short since
                        \* the last upload began (recorded for the properties)

files == <<key, crt, meta>>
vars == <<certs, index, files, up, deleting, hs, disturbed>>

TypeOK ==
    /\ certs \in [Ids -> StoredCert \union {Nil}]
    /\ index \in [Domains -> Ids \union {Nil}]
    /\ key \in [Ids -> Pairs \union {Nil}]
    /\ crt \in [Ids -> Pairs \union {Nil}]
    /\ meta \in [Ids -> StoredCert \union {Nil}]
    /\ up \in [Uploaders -> Upload \union {Nil}]
    /\ deleting \in Deletion \union {Nil}
    /\ hs \in [Clients -> Handshake \union {Nil}]
    /\ disturbed \in SUBSET Ids

Init ==
    /\ certs = [i \in Ids |-> Nil]
    /\ index = [d \in Domains |-> Nil]
    /\ key = [i \in Ids |-> Nil]
    /\ crt = [i \in Ids |-> Nil]
    /\ meta = [i \in Ids |-> Nil]
    /\ up = [u \in Uploaders |-> Nil]
    /\ deleting = Nil
    /\ hs = [c \in Clients |-> Nil]
    /\ disturbed = {}

-----------------------------------------------------------------------------
Uploading(i) == \E u \in Uploaders : up[u] # Nil /\ up[u].cert.id = i

Deleting(i) == deleting # Nil /\ deleting.cert.id = i

Busy(i) == Uploading(i) \/ Deleting(i)

(* loadTLSCert finds a certificate file and the key file that matches it. *)
Loadable(i) == crt[i] # Nil /\ key[i] = crt[i]

(* Domain d has a certificate that claims it and can be loaded. *)
Served(d) ==
    /\ index[d] # Nil
    /\ certs[index[d]] # Nil
    /\ d \in certs[index[d]].doms
    /\ Loadable(index[d])

At(u, step) == up[u] # Nil /\ up[u].step = step

Done(u) == up' = [up EXCEPT ![u] = Nil]

(* AddUploadedCert has validated the pair and renames the key into place. *)
BeginUpload(u, c) ==
    /\ up[u] = Nil
    /\ key' = [key EXCEPT ![c.id] = c.pair]
    /\ up' = [up EXCEPT ![u] =
                 [cert |-> c, step |-> "crt", todo |-> c.doms,
                  fresh |-> certs[c.id] = Nil /\ c.id \notin disturbed]]
    /\ disturbed' = IF Busy(c.id) THEN disturbed \union {c.id}
                    ELSE disturbed \ {c.id}
    /\ UNCHANGED <<certs, index, crt, meta, deleting, hs>>

WriteCrt(u) ==
    /\ At(u, "crt")
    /\ crt' = [crt EXCEPT ![up[u].cert.id] = up[u].cert.pair]
    /\ up' = [up EXCEPT ![u].step = "meta"]
    /\ UNCHANGED <<certs, index, key, meta, deleting, hs, disturbed>>

(* Fault: metadata that is there already is not written again. *)
WriteMetaOnce(u) ==
    /\ At(u, "meta")
    /\ meta' = [meta EXCEPT ![up[u].cert.id] = IF @ = Nil THEN up[u].cert ELSE @]
    /\ up' = [up EXCEPT ![u].step = "certs"]
    /\ UNCHANGED <<certs, index, key, crt, deleting, hs, disturbed>>

(* Fault: the metadata goes to the path of the certificate. *)
WriteMetaOverCrt(u) ==
    /\ At(u, "meta")
    /\ crt' = [crt EXCEPT ![up[u].cert.id] = up[u].cert]
    /\ up' = [up EXCEPT ![u].step = "certs"]
    /\ UNCHANGED <<certs, index, key, meta, deleting, hs, disturbed>>

WriteMeta(u) ==
    /\ At(u, "meta")
    /\ meta' = [meta EXCEPT ![up[u].cert.id] = up[u].cert]
    /\ up' = [up EXCEPT ![u].step = "certs"]
    /\ UNCHANGED <<certs, index, key, crt, deleting, hs, disturbed>>

(* The failure of an upload that replaces a certificate leaves it damaged. *)
CutShort(u) == IF up[u].fresh THEN disturbed
               ELSE disturbed \union {up[u].cert.id}

(* Fault: no roll-back. *)
CrtFailsKeyKept(u) ==
    /\ At(u, "crt")
    /\ Done(u)
    /\ disturbed' = CutShort(u)
    /\ UNCHANGED <<certs, index, files, deleting, hs>>

(* A write fails: the files written so far are removed ... *)
CrtFails(u) ==
    /\ At(u, "crt")
    /\ key' = [key EXCEPT ![up[u].cert.id] = Nil]
    /\ Done(u)
    /\ disturbed' = CutShort(u)
    /\ UNCHANGED <<certs, index, crt, meta, deleting, hs>>

MetaFails(u) ==
    /\ At(u, "meta")
    /\ crt' = [crt EXCEPT ![up[u].cert.id] = Nil]
    /\ up' = [up EXCEPT ![u].step = "undo"]
    /\ UNCHANGED <<certs, index, key, meta, deleting, hs, disturbed>>

(* ... the certificate before the key. *)
UndoKey(u) ==
    /\ At(u, "undo")
    /\ key' = [key EXCEPT ![up[u].cert.id] = Nil]
    /\ Done(u)
    /\ disturbed' = CutShort(u)
    /\ UNCHANGED <<certs, index, crt, meta, deleting, hs>>

(* index, which does not get the lock it asks for: the entry in m.certs ... *)
IndexCert(u) ==
    /\ At(u, "certs")
    /\ certs' = [certs EXCEPT ![up[u].cert.id] = up[u].cert]
    /\ IF up[u].todo = {} THEN Done(u)
       ELSE up' = [up EXCEPT ![u].step = "index"]
    /\ UNCHANGED <<index, files, deleting, hs, disturbed>>

(* ... and one in m.domainIndex for each domain. *)
IndexDomain(u, d) ==
    /\ At(u, "index")
    /\ d \in up[u].todo
    /\ index' = [index EXCEPT ![d] = up[u].cert.id]
    /\ IF up[u].todo = {d} THEN Done(u)
       ELSE up' = [up EXCEPT ![u].todo = @ \ {d}]
    /\ UNCHANGED <<certs, files, deleting, hs, disturbed>>

-----------------------------------------------------------------------------
(* DeleteCert takes the lock and removes the files, the certificate first. *)
BeginDelete(i) ==
    /\ deleting = Nil
    /\ \A c \in Clients : hs[c] # Nil => ~hs[c].locked
    /\ certs[i] # Nil
    /\ deleting' = [cert |-> certs[i], step |-> "key",
                    todo |-> certs[i].doms, found |-> Nil,
                    others |-> {d \in Domains : Served(d) /\ index[d] # i}]
    /\ crt' = [crt EXCEPT ![i] = Nil]
    /\ disturbed' = IF Uploading(i) THEN disturbed \union {i} ELSE disturbed
    /\ UNCHANGED <<certs, index, key, meta, up, hs>>

DeleteKey ==
    /\ deleting # Nil /\ deleting.step = "key"
    /\ key' = [key EXCEPT ![deleting.cert.id] = Nil]
    /\ deleting' = [deleting EXCEPT !.step = "meta"]
    /\ UNCHANGED <<certs, index, crt, meta, up, hs, disturbed>>

DeleteMeta ==
    /\ deleting # Nil /\ deleting.step = "meta"
    /\ meta' = [meta EXCEPT ![deleting.cert.id] = Nil]
    /\ deleting' = [deleting EXCEPT !.step = "unindex"]
    /\ UNCHANGED <<certs, index, key, crt, up, hs, disturbed>>

Unindexing == deleting # Nil /\ deleting.step = "unindex"

(* Fault: the entries are deleted whomever they point to. *)
CheckNothing(d) ==
    /\ Unindexing /\ deleting.found = Nil /\ d \in deleting.todo
    /\ deleting' = [deleting EXCEPT !.todo = @ \ {d}, !.found = d]
    /\ UNCHANGED <<certs, index, files, up, hs, disturbed>>

(* It looks at the entry of each domain ... *)
CheckDomain(d) ==
    /\ Unindexing /\ deleting.found = Nil /\ d \in deleting.todo
    /\ deleting' = [deleting EXCEPT
                        !.todo = @ \ {d},
                        !.found = IF index[d] = deleting.cert.id THEN d ELSE Nil]
    /\ UNCHANGED <<certs, index, files, up, hs, disturbed>>

(* ... and deletes its own, or whatever has come in its place since. *)
DropEntry ==
    /\ Unindexing /\ deleting.found # Nil
    /\ index' = [index EXCEPT ![deleting.found] = Nil]
    /\ deleting' = [deleting EXCEPT !.found = Nil]
    /\ UNCHANGED <<certs, files, up, hs, disturbed>>

(* Fault: the certificate stays in m.certs. *)
DropNoCert ==
    /\ Unindexing /\ deleting.found = Nil /\ deleting.todo = {}
    /\ deleting' = Nil
    /\ UNCHANGED <<certs, index, files, up, hs, disturbed>>

DropCert ==
    /\ Unindexing /\ deleting.found = Nil /\ deleting.todo = {}
    /\ certs' = [certs EXCEPT ![deleting.cert.id] = Nil]
    /\ deleting' = Nil
    /\ UNCHANGED <<index, files, up, hs, disturbed>>

(* What DeleteCert still does once it has begun. *)
DeleteGoesOn ==
    \/ DeleteKey \/ DeleteMeta
    \/ \E d \in Domains : CheckDomain(d)
    \/ DropEntry \/ DropCert

-----------------------------------------------------------------------------
(* GetCertificate: the entry of the server name, or else of its wildcard. *)
Target(d) == IF index[d] # Nil THEN index[d]
             ELSE IF WildcardOf[d] # Nil THEN index[WildcardOf[d]]
             ELSE Nil

(* The handshakes that find no certificate change nothing: not those without *)
(* an entry (they go on to ACME), nor those whose entry points nowhere (they *)
(* dereference nil, net/http recovers).                                      *)
Lookup(c, i, locked) ==
    /\ deleting = Nil
    /\ hs[c] = Nil
    /\ certs[i] # Nil
    /\ hs' = [hs EXCEPT ![c] = [cert |-> certs[i], locked |-> locked]]
    /\ UNCHANGED <<certs, index, files, up, deleting, disturbed>>

LookupName(c, d) == Target(d) # Nil /\ Lookup(c, Target(d), FALSE)

(* Without a server name any certificate will do. *)
LookupAny(c) == \E i \in Ids : Lookup(c, i, TRUE)

Answer(c) == /\ hs' = [hs EXCEPT ![c] = Nil]
             /\ UNCHANGED <<certs, index, files, up, deleting, disturbed>>

Serve(c) == hs[c] # Nil /\ Loadable(hs[c].cert.id) /\ Answer(c)

ServeFails(c) == hs[c] # Nil /\ ~Loadable(hs[c].cert.id) /\ Answer(c)

-----------------------------------------------------------------------------
(* Fault: loadFromDisk does not look whether the files are there. *)
OnDiskByMeta(i) == meta[i] # Nil

(* loadFromDisk indexes a certificate that has its three files. *)
OnDisk(i) == meta[i] # Nil /\ crt[i] # Nil /\ key[i] # Nil

Claimants(d) == {i \in Ids : OnDisk(i) /\ d \in meta[i].doms}

IsLast(i, S) == i \in S /\ \A j \in S : j <= i

(* The process crashes or exits at any time and is started again: NewManager *)
(* reads the directories in order, later certificates taking the domains of  *)
(* earlier ones.                                                             *)
Restart ==
    /\ certs' = [i \in Ids |-> IF OnDisk(i) THEN meta[i] ELSE Nil]
    /\ index' \in [Domains -> Ids \union {Nil}]
    /\ \A d \in Domains : IF Claimants(d) = {} THEN index'[d] = Nil
                          ELSE IsLast(index'[d], Claimants(d))
    /\ up' = [u \in Uploaders |-> Nil]
    /\ deleting' = Nil
    /\ hs' = [c \in Clients |-> Nil]
    /\ disturbed' = disturbed \union {i \in Ids : Busy(i)}
    /\ UNCHANGED files

Next ==
    \/ \E u \in Uploaders :
          \/ \E c \in Offered : BeginUpload(u, c)
          \/ WriteCrt(u) \/ CrtFails(u)
          \/ WriteMeta(u) \/ MetaFails(u) \/ UndoKey(u)
          \/ IndexCert(u)
          \/ \E d \in Domains : IndexDomain(u, d)
    \/ \E i \in Ids : BeginDelete(i)
    \/ DeleteGoesOn
    \/ \E c \in Clients :
          \/ \E d \in Domains : LookupName(c, d)
          \/ LookupAny(c)
          \/ Serve(c) \/ ServeFails(c)
    \/ Restart

Spec == Init /\ [][Next]_vars
-----------------------------------------------------------------------------
(* No call is at work on i, and none met another one or was cut short.       *)
Settled(i) == ~Busy(i) /\ i \notin disturbed

(* Memory and disk agree on a settled certificate: all of its files are      *)
(* there and are those of the last upload, or it is gone without a trace -   *)
(* after a failed first upload and after a delete, too.                      *)
DiskAgrees ==
    \A i \in Ids : Settled(i) =>
        /\ meta[i] = certs[i]
        /\ key[i] = crt[i]
        /\ crt[i] = IF certs[i] = Nil THEN Nil ELSE certs[i].pair

(* A handshake that has found a certificate can load it, unless a call has   *)
(* replaced, removed or damaged just that certificate in the meantime.       *)
FailsOnlyIfTouched ==
    [][\A c \in Clients : ServeFails(c) =>
          \/ ~Settled(hs[c].cert.id)
          \/ certs[hs[c].cert.id] # hs[c].cert]_vars

(* A domain that is served is served after a crash at any moment (perhaps by *)
(* another certificate), if that one and all that claim it are settled.      *)
RestartKeepsServing ==
    [][Restart => \A d \in Domains :
          /\ Served(d) /\ Settled(index[d])
          /\ \A i \in Ids : meta[i] # Nil /\ d \in meta[i].doms => Settled(i)
          => Served(d)']_vars

(* A delete that has begun is not undone by a crash in the middle of it.     *)
DeleteNotUndone ==
    [][Restart /\ deleting # Nil /\ deleting.cert.id \notin disturbed
          => certs'[deleting.cert.id] = Nil]_vars

(* A delete takes no domain from another certificate: neither one that was   *)
(* served by another when the delete took the lock, nor one that another has *)
(* been given since - save the entry the delete has just seen as its own and *)
(* is about to remove, where an upload, which takes no lock, may come in     *)
(* between (and save what an upload of the very id being deleted moves).     *)
DeleteSparesOthers ==
    [][DeleteGoesOn => \A d \in Domains :
          /\ Served(d) /\ index[d] # deleting.cert.id
          /\ \/ d # deleting.found
             \/ d \in deleting.others /\ deleting.cert.id \notin disturbed
          => Served(d)']_vars

(* "Only serves certificates for configured domains": an entry of the index  *)
(* leads to a certificate that is there and claims the domain.               *)
OnlyConfigured ==
    \A d \in Domains : index[d] # Nil /\ Settled(index[d]) =>
        certs[index[d]] # Nil /\ d \in certs[index[d]].doms
=============================================================================
