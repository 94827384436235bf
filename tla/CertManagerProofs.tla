-------------------------- MODULE CertManagerProofs --------------------------
EXTENDS CertManager, TLAPS

(***************************************************************************)
(* Type correctness.                                                       *)
(***************************************************************************)
(* The fields of a certificate, an upload and a deletion. *)
LEMMA Fields ==
    /\ \A c \in StoredCert : /\ c.id \in Ids /\ c.doms \in SUBSET Domains
                             /\ c.pair \in Pairs /\ c # Nil
    /\ \A p \in Upload :
          /\ p.cert \in StoredCert /\ p.todo \in SUBSET Domains /\ p # Nil
          /\ p.step \in {"crt", "meta", "undo", "certs", "index"}
          /\ p.fresh \in BOOLEAN
    /\ \A e \in Deletion : /\ e.cert \in StoredCert /\ e # Nil
                           /\ e.step \in {"key", "meta", "unindex"}
                           /\ e.todo \in SUBSET Domains
                           /\ e.found \in Domains \union {Nil}
    /\ \A h \in Handshake : h.cert \in StoredCert /\ h # Nil
    /\ \A p \in Pairs : p # Nil
    /\ \A i \in Ids : i # Nil
    /\ \A d \in Domains : d # Nil
  BY NilAssumption DEF StoredCert, Upload, Deletion, Handshake

(* A step of an upload keeps the type of the record. *)
LEMMA UploadSteps ==
    ASSUME NEW p \in Upload
    PROVE  /\ \A s \in {"crt", "meta", "undo", "certs", "index"} :
                  [p EXCEPT !.step = s] \in Upload
           /\ \A d \in Domains : [p EXCEPT !.todo = @ \ {d}] \in Upload
  BY DEF Upload

LEMMA DeletionSteps ==
    ASSUME NEW e \in Deletion
    PROVE  /\ \A s \in {"key", "meta", "unindex"} :
                 /\ [e EXCEPT !.step = s] \in Deletion
                 /\ [e EXCEPT !.step = s].cert = e.cert
                 /\ [e EXCEPT !.step = s].step = s
                 /\ [e EXCEPT !.step = s].todo = e.todo
                 /\ [e EXCEPT !.step = s].found = e.found
                 /\ [e EXCEPT !.step = s].others = e.others
           /\ LET n == [e EXCEPT !.found = Nil]
              IN  /\ n \in Deletion /\ n.cert = e.cert /\ n.step = e.step
                  /\ n.todo = e.todo /\ n.found = Nil /\ n.others = e.others
  BY DEF Deletion

(* The record of a delete that begins. *)
LEMMA NewDeletion ==
    ASSUME TypeOK, NEW i \in Ids, BeginDelete(i)
    PROVE  /\ deleting' \in Deletion /\ deleting' # Nil
           /\ deleting'.cert = certs[i] /\ deleting'.step = "key"
           /\ deleting'.todo = certs[i].doms /\ deleting'.found = Nil
           /\ deleting'.others \subseteq Domains
           /\ \A d \in deleting'.others : index[d] # i
<1> DEFINE others == {d \in Domains : Served(d) /\ index[d] # i}
<1>1. certs[i] \in StoredCert /\ certs[i].doms \in SUBSET Domains
  BY Fields DEF BeginDelete, TypeOK
<1>2. others \in SUBSET Domains /\ \A d \in others : index[d] # i
  OBVIOUS
<1>3. deleting' = [cert |-> certs[i], step |-> "key", todo |-> certs[i].doms,
                   found |-> Nil, others |-> others]
  BY DEF BeginDelete
<1> HIDE DEF others
<1>4. deleting' \in Deletion
  BY <1>1, <1>2, <1>3 DEF Deletion
<1> QED
  BY <1>2, <1>3, <1>4, Fields

(* What a step of a delete does to its record. *)
LEMMA DeletionRecord ==
    ASSUME deleting \in Deletion \union {Nil}, DeleteGoesOn
    PROVE  /\ deleting \in Deletion /\ deleting # Nil
           /\ \/ deleting' = Nil /\ DropCert
              \/ /\ deleting' \in Deletion /\ deleting' # Nil
                 /\ deleting'.cert = deleting.cert
                 /\ deleting'.others = deleting.others
                 /\ \/ /\ DeleteKey
                       /\ deleting.step = "key" /\ deleting'.step = "meta"
                       /\ deleting'.todo = deleting.todo
                       /\ deleting'.found = deleting.found
                    \/ /\ DeleteMeta
                       /\ deleting.step = "meta" /\ deleting'.step = "unindex"
                       /\ deleting'.todo = deleting.todo
                       /\ deleting'.found = deleting.found
                    \/ \E d \in Domains :
                          /\ CheckDomain(d) /\ deleting'.step = deleting.step
                          /\ deleting'.todo = deleting.todo \ {d}
                          /\ deleting'.found =
                                IF index[d] = deleting.cert.id THEN d ELSE Nil
                    \/ /\ DropEntry /\ deleting'.step = deleting.step
                       /\ deleting'.todo = deleting.todo
                       /\ deleting'.found = Nil
<1>1. deleting \in Deletion /\ deleting # Nil
  BY Fields DEF DeleteGoesOn, DeleteKey, DeleteMeta, CheckDomain, DropEntry,
                DropCert, Unindexing
<1>2. CASE DeleteKey
  BY <1>1, <1>2, DeletionSteps, Fields DEF DeleteKey
<1>3. CASE DeleteMeta
  BY <1>1, <1>3, DeletionSteps, Fields DEF DeleteMeta
<1>4. ASSUME NEW d \in Domains, CheckDomain(d)
      PROVE  /\ deleting' \in Deletion /\ deleting' # Nil
             /\ deleting'.cert = deleting.cert /\ deleting'.step = deleting.step
             /\ deleting'.others = deleting.others
             /\ deleting'.todo = deleting.todo \ {d}
             /\ deleting'.found =
                   IF index[d] = deleting.cert.id THEN d ELSE Nil
  <2> DEFINE f == IF index[d] = deleting.cert.id THEN d ELSE Nil
  <2>1. f \in Domains \union {Nil}
    OBVIOUS
  <2>2. deleting' = [deleting EXCEPT !.todo = @ \ {d}, !.found = f]
    BY <1>4 DEF CheckDomain
  <2>3. PICK g \in Domains \union {Nil} : g = f
    BY <2>1
  <2>4. deleting' = [deleting EXCEPT !.todo = @ \ {d}, !.found = g]
    BY <2>2, <2>3
  <2>5. /\ deleting' \in Deletion /\ deleting'.cert = deleting.cert
        /\ deleting'.step = deleting.step /\ deleting'.others = deleting.others
        /\ deleting'.todo = deleting.todo \ {d} /\ deleting'.found = g
    <3>1. deleting' = [cert |-> deleting.cert, step |-> deleting.step,
                       todo |-> deleting.todo \ {d}, found |-> g,
                       others |-> deleting.others]
      BY <1>1, <2>4 DEF Deletion
    <3> QED
      BY <1>1, <3>1 DEF Deletion
  <2> QED
    BY <2>3, <2>5, Fields
<1>5. CASE DropEntry
  BY <1>1, <1>5, DeletionSteps, Fields DEF DropEntry
<1>6. CASE DropCert
  BY <1>1, <1>6 DEF DropCert
<1> QED
  BY <1>1, <1>2, <1>3, <1>4, <1>5, <1>6 DEF DeleteGoesOn

LEMMA TypeInit == Init => TypeOK
  BY DEF Init, TypeOK

LEMMA TypeStep == TypeOK /\ [Next]_vars => TypeOK'
<1> SUFFICES ASSUME TypeOK, [Next]_vars PROVE TypeOK'
  OBVIOUS
<1>a. \A u \in Uploaders : up[u] # Nil =>
         /\ up[u] \in Upload /\ up[u].cert \in StoredCert
         /\ up[u].cert.id \in Ids /\ up[u].cert.pair \in Pairs
  BY Fields DEF TypeOK
<1>b. deleting # Nil => deleting \in Deletion /\ deleting.cert \in StoredCert
                        /\ deleting.cert.id \in Ids
  BY Fields DEF TypeOK
<1>1. ASSUME NEW u \in Uploaders, NEW c \in Offered, BeginUpload(u, c)
      PROVE  TypeOK'
  <2>1. c \in StoredCert /\ c.id \in Ids /\ c.doms \in SUBSET Domains
        /\ c.pair \in Pairs
    BY OfferedAssumption, Fields
  <2>2. (certs[c.id] = Nil /\ c.id \notin disturbed) \in BOOLEAN
    OBVIOUS
  <2>3. [cert |-> c, step |-> "crt", todo |-> c.doms,
         fresh |-> certs[c.id] = Nil /\ c.id \notin disturbed] \in Upload
    BY <2>1, <2>2 DEF Upload
  <2> QED
    BY <1>1, <2>1, <2>3 DEF BeginUpload, TypeOK
<1>2. ASSUME NEW u \in Uploaders, WriteCrt(u) PROVE TypeOK'
  BY <1>2, <1>a, UploadSteps DEF WriteCrt, At, TypeOK
<1>3. ASSUME NEW u \in Uploaders, CrtFails(u) PROVE TypeOK'
  BY <1>3, <1>a DEF CrtFails, At, Done, CutShort, TypeOK
<1>4. ASSUME NEW u \in Uploaders, WriteMeta(u) PROVE TypeOK'
  BY <1>4, <1>a, UploadSteps DEF WriteMeta, At, TypeOK
<1>5. ASSUME NEW u \in Uploaders, MetaFails(u) \/ UndoKey(u) PROVE TypeOK'
  <2>1. CASE MetaFails(u)
    BY <2>1, <1>a, UploadSteps DEF MetaFails, At, TypeOK
  <2>2. CASE UndoKey(u)
    BY <2>2, <1>a DEF UndoKey, At, Done, CutShort, TypeOK
  <2> QED
    BY <1>5, <2>1, <2>2
<1>6. ASSUME NEW u \in Uploaders, IndexCert(u) PROVE TypeOK'
  BY <1>6, <1>a, UploadSteps DEF IndexCert, At, Done, TypeOK, files
<1>7. ASSUME NEW u \in Uploaders, NEW d \in Domains, IndexDomain(u, d)
      PROVE  TypeOK'
  <2>1. up' \in [Uploaders -> Upload \union {Nil}]
    <3>1. CASE Done(u)
      BY <3>1 DEF Done, TypeOK
    <3>2. CASE up' = [up EXCEPT ![u].todo = @ \ {d}]
      <4>1. up[u] \in Upload
        BY <1>7, <1>a DEF IndexDomain, At
      <4>2. [up[u] EXCEPT !.todo = @ \ {d}] \in Upload
        BY <4>1, UploadSteps
      <4> QED
        BY <3>2, <4>2 DEF TypeOK
    <3> QED
      BY <1>7, <3>1, <3>2 DEF IndexDomain
  <2>2. index' \in [Domains -> Ids \union {Nil}]
    BY <1>7, <1>a DEF IndexDomain, At, TypeOK
  <2> QED
    BY <1>7, <2>1, <2>2 DEF IndexDomain, TypeOK, files
<1>8. ASSUME NEW i \in Ids, BeginDelete(i) PROVE TypeOK'
  BY <1>8, NewDeletion DEF BeginDelete, TypeOK
<1>9. ASSUME DeleteGoesOn PROVE TypeOK'
  <2>1. deleting' \in Deletion \union {Nil}
    BY <1>9, DeletionRecord DEF TypeOK
  <2>2. index' \in [Domains -> Ids \union {Nil}]
    BY <1>9 DEF DeleteGoesOn, DeleteKey, DeleteMeta, CheckDomain, DropEntry,
                DropCert, TypeOK
  <2> QED
    BY <1>9, <2>1, <2>2
       DEF DeleteGoesOn, DeleteKey, DeleteMeta, CheckDomain, DropEntry,
           DropCert, TypeOK, files
<1>12. ASSUME NEW c \in Clients, NEW i \in Ids, NEW b \in BOOLEAN, Lookup(c, i, b)
       PROVE  TypeOK'
  BY <1>12 DEF Lookup, TypeOK, files, Handshake
<1>13. ASSUME NEW c \in Clients, Answer(c) PROVE TypeOK'
  BY <1>13 DEF Answer, TypeOK, files
<1>14. ASSUME Restart PROVE TypeOK'
  BY <1>14 DEF Restart, TypeOK, files, OnDisk, Busy
<1>15. ASSUME UNCHANGED vars PROVE TypeOK'
  BY <1>15 DEF vars, files, TypeOK
<1>16. ASSUME NEW c \in Clients, NEW d \in Domains, LookupName(c, d)
       PROVE  TypeOK'
  <2>1. Target(d) \in Ids
    BY <1>16, WildcardAssumption DEF LookupName, Target, TypeOK
  <2> QED
    BY <1>12, <1>16, <2>1 DEF LookupName
<1> QED
  BY <1>1, <1>2, <1>3, <1>4, <1>5, <1>6, <1>7, <1>8, <1>9, <1>12, <1>13,
     <1>14, <1>15, <1>16
     DEF Next, LookupAny, Serve, ServeFails

(* The variables keep their types, in particular: whatever uploads, deletes  *)
(* and crashes come together, the index only ever refers to certificate ids. *)
THEOREM TypeCorrect == Spec => []TypeOK
<1>1. Init => TypeOK
  BY TypeInit
<1>2. TypeOK /\ [Next]_vars => TypeOK'
  BY TypeStep
<1> QED
  BY <1>1, <1>2, PTL DEF Spec
(***************************************************************************)
(* Memory and disk.                                                        *)
(***************************************************************************)
(* What an upload that nobody else has met has done so far.                  *)
Progress(u) ==
    LET c == up[u].cert
    IN  /\ key[c.id] = c.pair
        /\ up[u].step \in {"meta", "certs", "index"} => crt[c.id] = c.pair
        /\ up[u].step \in {"certs", "index"} => meta[c.id] = c
        /\ up[u].step = "index" => certs[c.id] = c
        /\ up[u].fresh /\ up[u].step \in {"crt", "meta", "undo"} =>
               certs[c.id] = Nil /\ meta[c.id] = Nil
        /\ up[u].fresh /\ up[u].step = "crt" => crt[c.id] = Nil
        /\ up[u].step = "undo" => crt[c.id] = Nil

(* It is the only call at work on its certificate. *)
Alone(u) ==
    /\ \A v \in Uploaders : up[v] # Nil /\ up[v].cert.id = up[u].cert.id => v = u
    /\ ~Deleting(up[u].cert.id)

UploadsProgress ==
    \A u \in Uploaders : up[u] # Nil /\ up[u].cert.id \notin disturbed =>
        Alone(u) /\ Progress(u)

(* A delete that no upload has met has removed the files one by one. *)
DeleteProgress ==
    deleting # Nil /\ deleting.cert.id \notin disturbed =>
        /\ crt[deleting.cert.id] = Nil
        /\ deleting.step # "key" => key[deleting.cert.id] = Nil
        /\ deleting.step = "unindex" => meta[deleting.cert.id] = Nil

(* The maps and the metadata are keyed by the ids of the certificates. *)
Keyed == \A i \in Ids : /\ certs[i] # Nil => certs[i].id = i
                        /\ meta[i] # Nil => meta[i].id = i

(* DiskAgrees says something only of certificates nobody is working on; what *)
(* makes it inductive is how far each call has come with the others.         *)
IInv == TypeOK /\ Keyed /\ DiskAgrees /\ UploadsProgress /\ DeleteProgress

LEMMA IInvInit == Init => IInv
<1> SUFFICES ASSUME Init PROVE IInv
  OBVIOUS
<1>1. TypeOK
  BY TypeInit
<1>2. DiskAgrees
  BY DEF Init, DiskAgrees
<1>3. UploadsProgress /\ DeleteProgress /\ Keyed
  BY DEF Init, UploadsProgress, DeleteProgress, Keyed
<1> QED
  BY <1>1, <1>2, <1>3 DEF IInv

(***************************************************************************)
(* An upload that goes from one step to the next: what the others have     *)
(* done is untouched, whoever works on the same certificate is disturbed.  *)
(***************************************************************************)
LEMMA UploadStep ==
    ASSUME IInv, NEW u \in Uploaders,
           WriteCrt(u) \/ WriteMeta(u) \/ CrtFails(u) \/ MetaFails(u)
           \/ UndoKey(u) \/ IndexCert(u)
           \/ \E d \in Domains : IndexDomain(u, d)
    PROVE  DiskAgrees' /\ UploadsProgress' /\ DeleteProgress'
<1> DEFINE c == up[u].cert
<1>1. /\ up[u] # Nil /\ up[u] \in Upload /\ c \in StoredCert /\ c.id \in Ids
      /\ c.pair \in Pairs /\ c # Nil /\ c.pair # Nil
  BY Fields DEF IInv, TypeOK, WriteCrt, WriteMeta, CrtFails, MetaFails,
                UndoKey, IndexCert, IndexDomain, At
<1>2. \A v \in Uploaders : up[v] # Nil =>
         up[v].cert \in StoredCert /\ up[v].cert.id \in Ids
  BY Fields DEF IInv, TypeOK
<1>3. deleting # Nil => deleting.cert.id \in Ids
  BY Fields DEF IInv, TypeOK
<1>4. c.id \notin disturbed => Alone(u) /\ Progress(u)
  BY <1>1 DEF IInv, UploadsProgress
<1>5. ASSUME WriteCrt(u) PROVE DiskAgrees' /\ UploadsProgress' /\ DeleteProgress'
  <2>1. /\ up'[u] = [up[u] EXCEPT !.step = "meta"]
        /\ \A v \in Uploaders : v # u => up'[v] = up[v]
    BY <1>5 DEF WriteCrt, At, IInv, TypeOK
  <2>2. /\ up'[u].cert = c /\ up'[u].step = "meta"
        /\ up'[u].fresh = up[u].fresh /\ up'[u] # Nil
    <3>1. up'[u] \in Upload
      BY <1>1, <2>1, UploadSteps
    <3> QED
      BY <1>1, <2>1, <3>1, Fields DEF Upload
  <2>3. \A i \in Ids : Settled(i)' => Settled(i) /\ i # c.id
    BY <1>1, <1>5, <2>1, <2>2
       DEF WriteCrt, At, Settled, Busy, Uploading, Deleting
  <2>4. DiskAgrees'
    BY <1>1, <1>2, <1>4, <1>5, <2>1, <2>2, <2>3
       DEF WriteCrt, At, IInv, TypeOK, DiskAgrees, Progress
  <2>5. UploadsProgress'
    BY <1>1, <1>2, <1>4, <1>5, <2>1, <2>2, <2>3
       DEF WriteCrt, At, IInv, TypeOK, UploadsProgress, Alone, Progress, Deleting
  <2>6. DeleteProgress'
    BY <1>1, <1>3, <1>4, <1>5, <2>2, <2>3
       DEF WriteCrt, At, IInv, TypeOK, DeleteProgress, Alone, Deleting
  <2> QED
    BY <2>4, <2>5, <2>6
<1>6. ASSUME CrtFails(u) PROVE DiskAgrees' /\ UploadsProgress' /\ DeleteProgress'
  <2>1. /\ up'[u] = Nil
        /\ \A v \in Uploaders : v # u => up'[v] = up[v]
    BY <1>6 DEF CrtFails, At, Done, CutShort, IInv, TypeOK
  <2>2. /\ disturbed \subseteq disturbed' /\ disturbed' \subseteq disturbed \union {c.id}
        /\ c.id \notin disturbed' => up[u].fresh
    BY <1>6 DEF CrtFails, At, Done, CutShort
  <2>3. \A i \in Ids : Settled(i)' => Settled(i) \/ i = c.id
    BY <1>1, <1>6, <2>1, <2>2
       DEF CrtFails, Settled, Busy, Uploading, Deleting
  <2>4. ASSUME NEW i \in Ids, Settled(i)'
        PROVE  /\ meta'[i] = certs'[i] /\ key'[i] = crt'[i]
               /\ crt'[i] = IF certs'[i] = Nil THEN Nil ELSE certs'[i].pair
    <3>1. CASE i = c.id
      <4>1. c.id \notin disturbed /\ up[u].fresh
        BY <2>2, <2>4, <3>1 DEF Settled
      <4>2. Progress(u) /\ up[u].step = "crt"
        BY <1>4, <1>6, <4>1 DEF CrtFails, At
      <4>3. certs[i] = Nil /\ meta[i] = Nil
        BY <3>1, <4>1, <4>2 DEF Progress
      <4>4. key'[i] = Nil /\ crt'[i] = Nil
        BY <1>1, <1>6, <3>1, <4>1, <4>2 DEF CrtFails, IInv, TypeOK, Progress
      <4> QED
        BY <1>6, <4>3, <4>4 DEF CrtFails
    <3>2. CASE i # c.id
      <4>1. /\ meta[i] = certs[i] /\ key[i] = crt[i]
            /\ crt[i] = IF certs[i] = Nil THEN Nil ELSE certs[i].pair
        BY <2>3, <2>4, <3>2 DEF IInv, DiskAgrees
      <4>2. meta'[i] = meta[i] /\ certs'[i] = certs[i] /\ key'[i] = key[i]
            /\ crt'[i] = crt[i]
        BY <1>1, <1>6, <3>2 DEF CrtFails, IInv, TypeOK
      <4> QED
        BY <4>1, <4>2
    <3> QED
      BY <3>1, <3>2
  <2>5. UploadsProgress'
    BY <1>1, <1>2, <1>4, <1>6, <2>1, <2>2, <2>3
       DEF CrtFails, At, Done, CutShort, IInv, TypeOK, UploadsProgress, Alone, Progress, Deleting
  <2>6. DeleteProgress'
    BY <1>1, <1>3, <1>4, <1>6, <2>2, <2>3
       DEF CrtFails, At, Done, CutShort, IInv, TypeOK, DeleteProgress, Alone, Deleting
  <2> QED
    BY <2>4, <2>5, <2>6 DEF DiskAgrees
<1>7. ASSUME WriteMeta(u) PROVE DiskAgrees' /\ UploadsProgress' /\ DeleteProgress'
  <2>1. /\ up'[u] = [up[u] EXCEPT !.step = "certs"]
        /\ \A v \in Uploaders : v # u => up'[v] = up[v]
    BY <1>7 DEF WriteMeta, At, IInv, TypeOK
  <2>2. /\ up'[u].cert = c /\ up'[u].step = "certs"
        /\ up'[u].fresh = up[u].fresh /\ up'[u] # Nil
    <3>1. up'[u] \in Upload
      BY <1>1, <2>1, UploadSteps
    <3> QED
      BY <1>1, <2>1, <3>1, Fields DEF Upload
  <2>3. \A i \in Ids : Settled(i)' => Settled(i) /\ i # c.id
    BY <1>1, <1>7, <2>1, <2>2
       DEF WriteMeta, At, Settled, Busy, Uploading, Deleting
  <2>4. DiskAgrees'
    BY <1>1, <1>2, <1>4, <1>7, <2>1, <2>2, <2>3
       DEF WriteMeta, At, IInv, TypeOK, DiskAgrees, Progress
  <2>5. UploadsProgress'
    BY <1>1, <1>2, <1>4, <1>7, <2>1, <2>2, <2>3
       DEF WriteMeta, At, IInv, TypeOK, UploadsProgress, Alone, Progress, Deleting
  <2>6. DeleteProgress'
    BY <1>1, <1>3, <1>4, <1>7, <2>2, <2>3
       DEF WriteMeta, At, IInv, TypeOK, DeleteProgress, Alone, Deleting
  <2> QED
    BY <2>4, <2>5, <2>6
<1>8. ASSUME UndoKey(u) PROVE DiskAgrees' /\ UploadsProgress' /\ DeleteProgress'
  <2>1. /\ up'[u] = Nil
        /\ \A v \in Uploaders : v # u => up'[v] = up[v]
    BY <1>8 DEF UndoKey, At, Done, CutShort, IInv, TypeOK
  <2>2. /\ disturbed \subseteq disturbed' /\ disturbed' \subseteq disturbed \union {c.id}
        /\ c.id \notin disturbed' => up[u].fresh
    BY <1>8 DEF UndoKey, At, Done, CutShort
  <2>3. \A i \in Ids : Settled(i)' => Settled(i) \/ i = c.id
    BY <1>1, <1>8, <2>1, <2>2
       DEF UndoKey, Settled, Busy, Uploading, Deleting
  <2>4. ASSUME NEW i \in Ids, Settled(i)'
        PROVE  /\ meta'[i] = certs'[i] /\ key'[i] = crt'[i]
               /\ crt'[i] = IF certs'[i] = Nil THEN Nil ELSE certs'[i].pair
    <3>1. CASE i = c.id
      <4>1. c.id \notin disturbed /\ up[u].fresh
        BY <2>2, <2>4, <3>1 DEF Settled
      <4>2. Progress(u) /\ up[u].step = "undo"
        BY <1>4, <1>8, <4>1 DEF UndoKey, At
      <4>3. certs[i] = Nil /\ meta[i] = Nil
        BY <3>1, <4>1, <4>2 DEF Progress
      <4>4. key'[i] = Nil /\ crt'[i] = Nil
        BY <1>1, <1>8, <3>1, <4>1, <4>2 DEF UndoKey, IInv, TypeOK, Progress
      <4> QED
        BY <1>8, <4>3, <4>4 DEF UndoKey
    <3>2. CASE i # c.id
      <4>1. /\ meta[i] = certs[i] /\ key[i] = crt[i]
            /\ crt[i] = IF certs[i] = Nil THEN Nil ELSE certs[i].pair
        BY <2>3, <2>4, <3>2 DEF IInv, DiskAgrees
      <4>2. meta'[i] = meta[i] /\ certs'[i] = certs[i] /\ key'[i] = key[i]
            /\ crt'[i] = crt[i]
        BY <1>1, <1>8, <3>2 DEF UndoKey, IInv, TypeOK
      <4> QED
        BY <4>1, <4>2
    <3> QED
      BY <3>1, <3>2
  <2>5. UploadsProgress'
    BY <1>1, <1>2, <1>4, <1>8, <2>1, <2>2, <2>3
       DEF UndoKey, At, Done, CutShort, IInv, TypeOK, UploadsProgress, Alone, Progress, Deleting
  <2>6. DeleteProgress'
    BY <1>1, <1>3, <1>4, <1>8, <2>2, <2>3
       DEF UndoKey, At, Done, CutShort, IInv, TypeOK, DeleteProgress, Alone, Deleting
  <2> QED
    BY <2>4, <2>5, <2>6 DEF DiskAgrees
<1>11. ASSUME MetaFails(u) PROVE DiskAgrees' /\ UploadsProgress' /\ DeleteProgress'
  <2>1. /\ up'[u] = [up[u] EXCEPT !.step = "undo"]
        /\ \A v \in Uploaders : v # u => up'[v] = up[v]
    BY <1>11 DEF MetaFails, At, IInv, TypeOK
  <2>2. /\ up'[u].cert = c /\ up'[u].step = "undo"
        /\ up'[u].fresh = up[u].fresh /\ up'[u] # Nil
    <3>1. up'[u] \in Upload
      BY <1>1, <2>1, UploadSteps
    <3> QED
      BY <1>1, <2>1, <3>1, Fields DEF Upload
  <2>3. \A i \in Ids : Settled(i)' => Settled(i) /\ i # c.id
    BY <1>1, <1>11, <2>1, <2>2
       DEF MetaFails, At, Settled, Busy, Uploading, Deleting
  <2>4. DiskAgrees'
    BY <1>1, <1>2, <1>4, <1>11, <2>1, <2>2, <2>3
       DEF MetaFails, At, IInv, TypeOK, DiskAgrees, Progress
  <2>5. UploadsProgress'
    BY <1>1, <1>2, <1>4, <1>11, <2>1, <2>2, <2>3
       DEF MetaFails, At, IInv, TypeOK, UploadsProgress, Alone, Progress, Deleting
  <2>6. DeleteProgress'
    BY <1>1, <1>3, <1>4, <1>11, <2>2, <2>3
       DEF MetaFails, At, IInv, TypeOK, DeleteProgress, Alone, Deleting
  <2> QED
    BY <2>4, <2>5, <2>6
<1>9. ASSUME IndexCert(u) PROVE DiskAgrees' /\ UploadsProgress' /\ DeleteProgress'
  <2>1. \A v \in Uploaders : v # u => up'[v] = up[v]
    BY <1>9 DEF IndexCert, Done, IInv, TypeOK
  <2>2. \/ up'[u] = Nil
        \/ /\ up'[u].cert = c /\ up'[u].step = "index"
           /\ up'[u].fresh = up[u].fresh /\ up'[u] # Nil
    <3>1. CASE Done(u)
      BY <3>1 DEF Done, IInv, TypeOK
    <3>2. CASE up' = [up EXCEPT ![u].step = "index"]
      <4>1. up'[u] = [up[u] EXCEPT !.step = "index"]
        BY <3>2 DEF IInv, TypeOK
      <4>2. up'[u] \in Upload
        BY <1>1, <4>1, UploadSteps
      <4> QED
        BY <1>1, <4>1, <4>2, Fields DEF Upload
    <3> QED
      BY <1>9, <3>1, <3>2 DEF IndexCert
  <2>3. \A i \in Ids : Settled(i)' => Settled(i) \/ i = c.id
    BY <1>1, <1>9, <2>1, <2>2 DEF IndexCert, Settled, Busy, Uploading, Deleting
  <2>4. ASSUME NEW i \in Ids, Settled(i)'
        PROVE  /\ meta'[i] = certs'[i] /\ key'[i] = crt'[i]
               /\ crt'[i] = IF certs'[i] = Nil THEN Nil ELSE certs'[i].pair
    <3>1. CASE i = c.id
      <4>1. c.id \notin disturbed /\ up'[u] = Nil
        BY <1>9, <2>2, <2>4, <3>1
           DEF IndexCert, Settled, Busy, Uploading, Deleting
      <4>2. Progress(u) /\ up[u].step = "certs"
        BY <1>4, <1>9, <4>1 DEF IndexCert, At
      <4>3. certs'[i] = c
        BY <1>1, <1>9, <3>1, <4>2 DEF IndexCert, IInv, TypeOK, Progress
      <4> QED
        BY <1>1, <1>9, <3>1, <4>2, <4>3 DEF IndexCert, files, Progress
    <3>2. CASE i # c.id
      <4>1. /\ meta[i] = certs[i] /\ key[i] = crt[i]
            /\ crt[i] = IF certs[i] = Nil THEN Nil ELSE certs[i].pair
        BY <2>3, <2>4, <3>2 DEF IInv, DiskAgrees
      <4>2. meta'[i] = meta[i] /\ certs'[i] = certs[i] /\ key'[i] = key[i]
            /\ crt'[i] = crt[i]
        BY <1>1, <1>9, <3>2 DEF IndexCert, files, IInv, TypeOK
      <4> QED
        BY <4>1, <4>2
    <3> QED
      BY <3>1, <3>2
  <2>5. UploadsProgress'
    BY <1>1, <1>2, <1>4, <1>9, <2>1, <2>2, <2>3
       DEF IndexCert, At, files, IInv, TypeOK, UploadsProgress, Alone, Progress,
           Deleting
  <2>6. DeleteProgress'
    BY <1>1, <1>3, <1>4, <1>9
       DEF IndexCert, At, files, IInv, TypeOK, DeleteProgress, Alone, Deleting
  <2> QED
    BY <2>4, <2>5, <2>6 DEF DiskAgrees
<1>10. ASSUME NEW d \in Domains, IndexDomain(u, d)
       PROVE  DiskAgrees' /\ UploadsProgress' /\ DeleteProgress'
  <2>1. \A v \in Uploaders : v # u => up'[v] = up[v]
    BY <1>10 DEF IndexDomain, Done, IInv, TypeOK
  <2>2. \/ up'[u] = Nil
        \/ /\ up'[u].cert = c /\ up'[u].step = up[u].step
           /\ up'[u].fresh = up[u].fresh /\ up'[u] # Nil
    <3>1. CASE Done(u)
      BY <3>1 DEF Done, IInv, TypeOK
    <3>2. CASE up' = [up EXCEPT ![u].todo = @ \ {d}]
      <4>1. up'[u] = [up[u] EXCEPT !.todo = @ \ {d}]
        BY <3>2 DEF IInv, TypeOK
      <4>2. up'[u] \in Upload
        BY <1>1, <4>1, UploadSteps
      <4> QED
        BY <1>1, <4>1, <4>2, Fields DEF Upload
    <3> QED
      BY <1>10, <3>1, <3>2 DEF IndexDomain
  <2>3. \A i \in Ids : Settled(i)' => Settled(i) \/ i = c.id
    BY <1>1, <1>10, <2>1, <2>2
       DEF IndexDomain, Settled, Busy, Uploading, Deleting
  <2>4. ASSUME NEW i \in Ids, Settled(i)'
        PROVE  /\ meta'[i] = certs'[i] /\ key'[i] = crt'[i]
               /\ crt'[i] = IF certs'[i] = Nil THEN Nil ELSE certs'[i].pair
    <3>1. CASE i = c.id
      <4>1. c.id \notin disturbed /\ up'[u] = Nil
        BY <1>10, <2>2, <2>4, <3>1
           DEF IndexDomain, Settled, Busy, Uploading, Deleting
      <4>2. Progress(u) /\ up[u].step = "index"
        BY <1>4, <1>10, <4>1 DEF IndexDomain, At
      <4>3. certs'[i] = c
        BY <1>1, <1>10, <3>1, <4>2 DEF IndexDomain, IInv, TypeOK, Progress
      <4> QED
        BY <1>1, <1>10, <3>1, <4>2, <4>3 DEF IndexDomain, files, Progress
    <3>2. CASE i # c.id
      <4>1. /\ meta[i] = certs[i] /\ key[i] = crt[i]
            /\ crt[i] = IF certs[i] = Nil THEN Nil ELSE certs[i].pair
        BY <2>3, <2>4, <3>2 DEF IInv, DiskAgrees
      <4>2. meta'[i] = meta[i] /\ certs'[i] = certs[i] /\ key'[i] = key[i]
            /\ crt'[i] = crt[i]
        BY <1>1, <1>10, <3>2 DEF IndexDomain, files, IInv, TypeOK
      <4> QED
        BY <4>1, <4>2
    <3> QED
      BY <3>1, <3>2
  <2>5. UploadsProgress'
    BY <1>1, <1>2, <1>4, <1>10, <2>1, <2>2, <2>3
       DEF IndexDomain, At, files, IInv, TypeOK, UploadsProgress, Alone, Progress,
           Deleting
  <2>6. DeleteProgress'
    BY <1>1, <1>3, <1>4, <1>10
       DEF IndexDomain, At, files, IInv, TypeOK, DeleteProgress, Alone, Deleting
  <2> QED
    BY <2>4, <2>5, <2>6 DEF DiskAgrees
<1> QED
  BY <1>5, <1>6, <1>7, <1>8, <1>9, <1>10, <1>11

(***************************************************************************)
(* The steps of a delete.                                                  *)
(***************************************************************************)
LEMMA DeleteStep ==
    ASSUME IInv, DeleteGoesOn
    PROVE  DiskAgrees' /\ UploadsProgress' /\ DeleteProgress'
<1> DEFINE j == deleting.cert.id
<1>1. deleting # Nil /\ deleting \in Deletion /\ j \in Ids
  BY DeletionRecord, Fields DEF IInv, TypeOK
<1>2. \A v \in Uploaders : up[v] # Nil => /\ up[v].cert \in StoredCert
                                           /\ up[v].cert.id \in Ids
  BY Fields DEF IInv, TypeOK
<1>3. \A v \in Uploaders : up[v] # Nil /\ up[v].cert.id \notin disturbed =>
         up[v].cert.id # j /\ Alone(v) /\ Progress(v)
  BY <1>1 DEF IInv, UploadsProgress, Alone, Deleting
<1>4. ASSUME DeleteKey \/ DeleteMeta
      PROVE  DiskAgrees' /\ UploadsProgress' /\ DeleteProgress'
  <2>1. deleting'.cert = deleting.cert /\ deleting' # Nil
        /\ (DeleteKey => deleting.step = "key" /\ deleting'.step = "meta")
        /\ (DeleteMeta => deleting.step = "meta" /\ deleting'.step = "unindex")
    <3>1. ASSUME DeleteKey
          PROVE  /\ deleting'.cert = deleting.cert /\ deleting' # Nil
                 /\ deleting.step = "key" /\ deleting'.step = "meta"
      BY <1>1, <3>1, DeletionSteps, Fields DEF DeleteKey
    <3>2. ASSUME DeleteMeta
          PROVE  /\ deleting'.cert = deleting.cert /\ deleting' # Nil
                 /\ deleting.step = "meta" /\ deleting'.step = "unindex"
      BY <1>1, <3>2, DeletionSteps, Fields DEF DeleteMeta
    <3> QED
      BY <1>4, <3>1, <3>2
  <2>2. \A i \in Ids : Settled(i)' => Settled(i) /\ i # j
    BY <1>1, <1>4, <2>1
       DEF DeleteKey, DeleteMeta, Settled, Busy, Uploading, Deleting
  <2>3. DiskAgrees'
    BY <1>1, <1>4, <2>2 DEF DeleteKey, DeleteMeta, IInv, TypeOK, DiskAgrees
  <2>4. UploadsProgress'
    BY <1>1, <1>2, <1>3, <1>4, <2>1
       DEF DeleteKey, DeleteMeta, IInv, TypeOK, UploadsProgress, Alone,
           Progress, Deleting
  <2>5. DeleteProgress'
    BY <1>1, <1>4, <2>1
       DEF DeleteKey, DeleteMeta, IInv, TypeOK, DeleteProgress
  <2> QED
    BY <2>3, <2>4, <2>5
<1>5. ASSUME DropEntry \/ \E d \in Domains : CheckDomain(d)
      PROVE  DiskAgrees' /\ UploadsProgress' /\ DeleteProgress'
  <2>1. /\ deleting'.cert = deleting.cert /\ deleting' # Nil
        /\ deleting'.step = deleting.step
        /\ UNCHANGED <<certs, key, crt, meta, up, disturbed>>
    <3>1. DeleteGoesOn /\ ~DropCert /\ ~DeleteKey /\ ~DeleteMeta
      BY <1>5 DEF DeleteGoesOn, DropEntry, CheckDomain, DropCert, DeleteKey,
                  DeleteMeta, Unindexing
    <3> QED
      BY <1>5, <3>1, DeletionRecord
         DEF IInv, TypeOK, DropEntry, CheckDomain, files
  <2>2. \A i \in Ids : Settled(i)' => Settled(i)
    BY <1>1, <2>1 DEF Settled, Busy, Uploading, Deleting
  <2>3. DiskAgrees'
    BY <2>1, <2>2 DEF IInv, DiskAgrees
  <2>4. UploadsProgress'
    BY <1>1, <2>1 DEF IInv, UploadsProgress, Alone, Progress, Deleting
  <2>5. DeleteProgress'
    BY <1>1, <2>1 DEF IInv, DeleteProgress
  <2> QED
    BY <2>3, <2>4, <2>5
<1>6. ASSUME DropCert PROVE DiskAgrees' /\ UploadsProgress' /\ DeleteProgress'
  <2>1. \A i \in Ids : Settled(i)' /\ i # j => Settled(i)
    BY <1>1, <1>6 DEF DropCert, Settled, Busy, Uploading, Deleting
  <2>2. ASSUME NEW i \in Ids, Settled(i)'
        PROVE  /\ meta'[i] = certs'[i] /\ key'[i] = crt'[i]
               /\ crt'[i] = IF certs'[i] = Nil THEN Nil ELSE certs'[i].pair
    <3>1. CASE i = j
      <4>1. j \notin disturbed
        BY <1>6, <2>2, <3>1 DEF DropCert, Settled
      <4>2. meta[j] = Nil /\ key[j] = Nil /\ crt[j] = Nil
        BY <1>1, <1>6, <4>1 DEF DropCert, Unindexing, IInv, DeleteProgress
      <4> QED
        BY <1>1, <1>6, <3>1, <4>2 DEF DropCert, files, IInv, TypeOK
    <3>2. CASE i # j
      BY <1>1, <1>6, <2>1, <2>2, <3>2
         DEF DropCert, files, IInv, TypeOK, DiskAgrees
    <3> QED
      BY <3>1, <3>2
  <2>3. UploadsProgress'
    BY <1>1, <1>2, <1>3, <1>6
       DEF DropCert, files, IInv, TypeOK, UploadsProgress, Alone, Progress,
           Deleting
  <2>4. DeleteProgress'
    BY <1>6 DEF DropCert, DeleteProgress
  <2> QED
    BY <2>2, <2>3, <2>4 DEF DiskAgrees
<1> QED
  BY <1>4, <1>5, <1>6 DEF DeleteGoesOn

(***************************************************************************)
(* The calls that begin: the certificate was settled, or is disturbed.     *)
(***************************************************************************)
LEMMA BeginUploadStep ==
    ASSUME IInv, NEW u \in Uploaders, NEW c \in Offered, BeginUpload(u, c)
    PROVE  DiskAgrees' /\ UploadsProgress' /\ DeleteProgress'
<1>1. c \in StoredCert /\ c.id \in Ids /\ c.pair \in Pairs /\ c # Nil
  BY OfferedAssumption, Fields
<1>2. \A v \in Uploaders : up[v] # Nil => /\ up[v].cert \in StoredCert
                                           /\ up[v].cert.id \in Ids
  BY Fields DEF IInv, TypeOK
<1>3. /\ up[u] = Nil /\ up'[u] # Nil /\ up'[u].cert = c /\ up'[u].step = "crt"
      /\ up'[u].fresh = (certs[c.id] = Nil /\ c.id \notin disturbed)
      /\ \A v \in Uploaders : v # u => up'[v] = up[v]
  <2> DEFINE new == [cert |-> c, step |-> "crt", todo |-> c.doms,
                     fresh |-> certs[c.id] = Nil /\ c.id \notin disturbed]
  <2>1. (certs[c.id] = Nil /\ c.id \notin disturbed) \in BOOLEAN
    OBVIOUS
  <2>2. new \in Upload
    BY <1>1, <2>1, Fields DEF Upload
  <2>3. up[u] = Nil /\ up' = [up EXCEPT ![u] = new]
    BY DEF BeginUpload
  <2>4. up'[u] = new /\ \A v \in Uploaders : v # u => up'[v] = up[v]
    BY <2>3 DEF IInv, TypeOK
  <2>5. new.cert = c /\ new.step = "crt"
        /\ new.fresh = (certs[c.id] = Nil /\ c.id \notin disturbed)
    BY Zenon
  <2>6. new # Nil
    BY <2>2, Fields
  <2> HIDE DEF new
  <2> QED
    BY <2>3, <2>4, <2>5, <2>6
<1>4. c.id \notin disturbed' => ~Busy(c.id)
  BY DEF BeginUpload
<1>5. c.id \notin disturbed' /\ up'[u].fresh =>
         certs[c.id] = Nil /\ meta[c.id] = Nil /\ crt[c.id] = Nil
  <2> SUFFICES ASSUME c.id \notin disturbed', up'[u].fresh
               PROVE  certs[c.id] = Nil /\ meta[c.id] = Nil /\ crt[c.id] = Nil
    OBVIOUS
  <2>1. certs[c.id] = Nil /\ c.id \notin disturbed
    BY <1>3
  <2>2. Settled(c.id)
    BY <1>4, <2>1 DEF Settled
  <2> QED
    BY <1>1, <2>1, <2>2 DEF IInv, DiskAgrees
<1>6. \A i \in Ids : i # c.id => (i \in disturbed' <=> i \in disturbed)
  BY DEF BeginUpload
<1>7. DiskAgrees'
  <2>1. \A i \in Ids : Settled(i)' => Settled(i) /\ i # c.id
    BY <1>3, <1>6 DEF BeginUpload, Settled, Busy, Uploading, Deleting
  <2> QED
    BY <1>1, <2>1 DEF BeginUpload, IInv, TypeOK, DiskAgrees
<1>8. UploadsProgress'
  <2> SUFFICES ASSUME NEW v \in Uploaders, up'[v] # Nil,
                      up'[v].cert.id \notin disturbed'
               PROVE  Alone(v)' /\ Progress(v)'
    BY DEF UploadsProgress
  <2>1. CASE v = u
    <3>1. ~Busy(c.id)
      BY <1>3, <1>4, <2>1
    <3>2. Alone(v)'
      BY <1>3, <2>1, <3>1 DEF Alone, Busy, Uploading, Deleting, BeginUpload
    <3>3. key'[c.id] = c.pair
      BY <1>1 DEF BeginUpload, IInv, TypeOK
    <3>4. Progress(v)'
      BY <1>3, <1>5, <2>1, <3>3 DEF Progress, BeginUpload
    <3> QED
      BY <3>2, <3>4
  <2>2. CASE v # u
    <3>1. up'[v] = up[v] /\ up[v] # Nil /\ up[v].cert.id \in Ids
      BY <1>2, <1>3, <2>2
    <3>2. up[v].cert.id # c.id
      BY <1>4, <3>1 DEF Busy, Uploading
    <3>3. Alone(v) /\ Progress(v)
      BY <1>6, <3>1, <3>2 DEF IInv, UploadsProgress
    <3>4. Alone(v)'
      BY <1>3, <3>1, <3>2, <3>3 DEF Alone, Deleting, BeginUpload
    <3>5. key'[up[v].cert.id] = key[up[v].cert.id]
      BY <1>1, <3>1, <3>2 DEF BeginUpload, IInv, TypeOK
    <3>6. Progress(v)'
      BY <3>1, <3>3, <3>5 DEF Progress, BeginUpload
    <3> QED
      BY <3>4, <3>6
  <2> QED
    BY <2>1, <2>2
<1>9. DeleteProgress'
  <2> SUFFICES ASSUME deleting' # Nil, deleting'.cert.id \notin disturbed'
               PROVE  /\ crt'[deleting'.cert.id] = Nil
                      /\ deleting'.step # "key" => key'[deleting'.cert.id] = Nil
                      /\ deleting'.step = "unindex" => meta'[deleting'.cert.id] = Nil
    BY DEF DeleteProgress
  <2>1. deleting' = deleting /\ deleting # Nil /\ deleting.cert.id \in Ids
    BY Fields DEF BeginUpload, IInv, TypeOK
  <2>2. deleting.cert.id # c.id
    BY <1>4, <2>1 DEF Busy, Deleting
  <2> QED
    BY <1>1, <1>6, <2>1, <2>2 DEF BeginUpload, IInv, TypeOK, DeleteProgress
<1> QED
  BY <1>7, <1>8, <1>9

LEMMA BeginDeleteStep ==
    ASSUME IInv, NEW i \in Ids, BeginDelete(i)
    PROVE  DiskAgrees' /\ UploadsProgress' /\ DeleteProgress'
<1>1. /\ deleting = Nil /\ deleting' # Nil /\ deleting'.step = "key"
      /\ deleting'.cert = certs[i] /\ certs[i] # Nil /\ certs[i].id = i
      /\ crt'[i] = Nil /\ \A k \in Ids : k # i => crt'[k] = crt[k]
  BY NewDeletion DEF BeginDelete, IInv, TypeOK, Keyed
<1>2. \A v \in Uploaders : up[v] # Nil => up[v].cert.id \in Ids
  BY Fields DEF IInv, TypeOK
<1>3. /\ disturbed \subseteq disturbed'
      /\ i \notin disturbed' => ~Uploading(i)
      /\ \A k \in Ids : k # i /\ k \in disturbed' => k \in disturbed
  BY DEF BeginDelete
<1>4. DiskAgrees'
  <2>1. \A k \in Ids : Settled(k)' => Settled(k) /\ k # i
    BY <1>1, <1>3 DEF BeginDelete, Settled, Busy, Uploading, Deleting
  <2> QED
    BY <1>1, <2>1 DEF BeginDelete, IInv, DiskAgrees
<1>5. UploadsProgress'
  <2> SUFFICES ASSUME NEW v \in Uploaders, up'[v] # Nil,
                      up'[v].cert.id \notin disturbed'
               PROVE  Alone(v)' /\ Progress(v)'
    BY DEF UploadsProgress
  <2>1. up' = up /\ up[v] # Nil /\ up[v].cert.id \in Ids
    BY <1>2 DEF BeginDelete
  <2>2. up[v].cert.id # i
    BY <1>3, <2>1 DEF Uploading
  <2>3. Alone(v) /\ Progress(v)
    BY <1>3, <2>1 DEF IInv, UploadsProgress
  <2>4. Alone(v)'
    BY <1>1, <2>1, <2>2, <2>3 DEF Alone, Deleting
  <2>5. Progress(v)'
    BY <1>1, <2>1, <2>2, <2>3 DEF Progress, BeginDelete
  <2> QED
    BY <2>4, <2>5
<1>6. DeleteProgress'
  BY <1>1 DEF DeleteProgress
<1> QED
  BY <1>4, <1>5, <1>6

(***************************************************************************)
(* A crash, and the rest.                                                  *)
(***************************************************************************)
LEMMA RestartStep ==
    ASSUME IInv, Restart
    PROVE  DiskAgrees' /\ UploadsProgress' /\ DeleteProgress'
<1>1. ASSUME NEW i \in Ids, Settled(i)'
      PROVE  /\ meta'[i] = certs'[i] /\ key'[i] = crt'[i]
             /\ crt'[i] = IF certs'[i] = Nil THEN Nil ELSE certs'[i].pair
  <2>1. Settled(i)
    BY <1>1 DEF Restart, Settled
  <2>2. /\ meta[i] = certs[i] /\ key[i] = crt[i]
        /\ crt[i] = IF certs[i] = Nil THEN Nil ELSE certs[i].pair
    BY <2>1 DEF IInv, DiskAgrees
  <2>3. certs[i] # Nil => crt[i] # Nil
    BY <2>2, Fields DEF IInv, TypeOK
  <2>4. certs'[i] = certs[i]
    BY <2>2, <2>3 DEF Restart, OnDisk
  <2> QED
    BY <2>2, <2>4 DEF Restart, files
<1>2. UploadsProgress' /\ DeleteProgress'
  BY DEF Restart, UploadsProgress, DeleteProgress
<1> QED
  BY <1>1, <1>2 DEF DiskAgrees

LEMMA KeyedStep == IInv /\ [Next]_vars => Keyed'
<1> SUFFICES ASSUME IInv, [Next]_vars PROVE Keyed'
  OBVIOUS
<1>1. \A u \in Uploaders : up[u] # Nil =>
         up[u].cert \in StoredCert /\ up[u].cert.id \in Ids
  BY Fields DEF IInv, TypeOK
<1>2. ASSUME NEW u \in Uploaders, WriteMeta(u) PROVE Keyed'
  BY <1>1, <1>2 DEF WriteMeta, At, IInv, TypeOK, Keyed
<1>3. ASSUME NEW u \in Uploaders, IndexCert(u) PROVE Keyed'
  BY <1>1, <1>3 DEF IndexCert, At, files, IInv, TypeOK, Keyed
<1>4. ASSUME DeleteMeta \/ DropCert PROVE Keyed'
  BY <1>4 DEF DeleteMeta, DropCert, files, IInv, TypeOK, Keyed
<1>5. ASSUME Restart PROVE Keyed'
  BY <1>5 DEF Restart, files, OnDisk, IInv, Keyed
<1>6. ASSUME UNCHANGED <<certs, meta>> PROVE Keyed'
  BY <1>6 DEF IInv, Keyed
<1> QED
  BY <1>2, <1>3, <1>4, <1>5, <1>6
     DEF Next, vars, files, BeginUpload, WriteCrt, CrtFails, MetaFails,
         UndoKey, IndexDomain, BeginDelete, DeleteGoesOn, DeleteKey,
         CheckDomain, DropEntry, LookupName, LookupAny, Lookup,
         Serve, ServeFails, Answer

LEMMA IInvStep == IInv /\ [Next]_vars => IInv'
<1> SUFFICES ASSUME IInv, [Next]_vars PROVE IInv'
  OBVIOUS
<1>1. TypeOK' /\ Keyed'
  BY TypeStep, KeyedStep DEF IInv
<1>2. ASSUME UNCHANGED <<certs, files, up, deleting, disturbed>>
      PROVE  DiskAgrees' /\ UploadsProgress' /\ DeleteProgress'
  BY <1>2 DEF files, IInv, DiskAgrees, UploadsProgress, DeleteProgress, Settled,
              Busy, Uploading, Deleting, Alone, Progress
<1>3. DiskAgrees' /\ UploadsProgress' /\ DeleteProgress'
  <2>1. ASSUME NEW c \in Clients, NEW i, NEW b, Lookup(c, i, b) \/ Answer(c)
        PROVE  UNCHANGED <<certs, files, up, deleting, disturbed>>
    BY <2>1 DEF Lookup, Answer
  <2>2. ASSUME NEW c \in Clients,
               \/ \E d \in Domains : LookupName(c, d)
               \/ LookupAny(c) \/ Serve(c) \/ ServeFails(c)
        PROVE  UNCHANGED <<certs, files, up, deleting, disturbed>>
    BY <2>1, <2>2 DEF LookupName, LookupAny, Serve, ServeFails
  <2>3. UNCHANGED vars => UNCHANGED <<certs, files, up, deleting, disturbed>>
    BY DEF vars
  <2> QED
    BY <1>2, <2>2, <2>3, UploadStep, DeleteStep, BeginUploadStep,
       BeginDeleteStep, RestartStep DEF Next
<1> QED
  BY <1>1, <1>3 DEF IInv

(* Memory and disk agree on every certificate that no call is working on and *)
(* none has disturbed, however many uploads, deletes and crashes there are.  *)
THEOREM DiskAlwaysAgrees == Spec => []DiskAgrees
<1>1. IInv => DiskAgrees
  BY DEF IInv
<1> QED
  BY <1>1, IInvInit, IInvStep, PTL DEF Spec

(* A handshake only fails to load a certificate that was touched meanwhile.  *)
THEOREM HandshakeFailsOnlyIfTouched == Spec => FailsOnlyIfTouched
<1>1. ASSUME IInv, NEW c \in Clients, ServeFails(c)
      PROVE  ~Settled(hs[c].cert.id) \/ certs[hs[c].cert.id] # hs[c].cert
  <2> DEFINE sc == hs[c].cert
  <2> SUFFICES ASSUME Settled(sc.id), certs[sc.id] = sc PROVE FALSE
    OBVIOUS
  <2>1. sc \in StoredCert /\ sc # Nil /\ sc.id \in Ids /\ sc.pair # Nil
    BY <1>1, Fields DEF ServeFails, IInv, TypeOK
  <2>2. key[sc.id] = crt[sc.id] /\ crt[sc.id] = sc.pair
    BY <1>1, <2>1 DEF IInv, DiskAgrees
  <2> QED
    BY <1>1, <2>1, <2>2 DEF ServeFails, Loadable
<1>2. IInv /\ [Next]_vars =>
        [\A c \in Clients : ServeFails(c) =>
            \/ ~Settled(hs[c].cert.id)
            \/ certs[hs[c].cert.id] # hs[c].cert]_vars
  BY <1>1
<1> QED
  BY <1>2, IInvInit, IInvStep, PTL DEF Spec, FailsOnlyIfTouched

(* A crash never brings back a certificate whose deletion has begun.         *)
THEOREM DeleteNeverUndone == Spec => DeleteNotUndone
<1>1. IInv /\ [Next]_vars =>
        [Restart /\ deleting # Nil /\ deleting.cert.id \notin disturbed
            => certs'[deleting.cert.id] = Nil]_vars
  BY Fields DEF IInv, TypeOK, DeleteProgress, Restart, OnDisk
<1> QED
  BY <1>1, IInvInit, IInvStep, PTL DEF Spec, DeleteNotUndone

(***************************************************************************)
(* What a delete leaves alone.                                             *)
(***************************************************************************)
(* What a step does to an entry of the index. *)
LEMMA IndexEntries ==
    ASSUME TypeOK, [Next]_vars, NEW d \in Domains, index'[d] # Nil
    PROVE  \/ index'[d] = index[d]
           \/ \E u \in Uploaders : /\ IndexDomain(u, d) /\ up[u] # Nil
                                   /\ d \in up[u].todo /\ up[u].step = "index"
                                   /\ index'[d] = up[u].cert.id
           \/ Restart /\ index'[d] \in Claimants(d)
<1>0. index \in [Domains -> Ids \union {Nil}]
  BY DEF TypeOK
<1>1. ASSUME NEW u \in Uploaders, NEW e \in Domains, IndexDomain(u, e)
      PROVE  \/ index'[d] = index[d]
             \/ /\ IndexDomain(u, d) /\ up[u] # Nil
                /\ d \in up[u].todo /\ up[u].step = "index"
                /\ index'[d] = up[u].cert.id
  BY <1>0, <1>1 DEF IndexDomain, At
<1>2. CASE DropEntry
  BY <1>0, <1>2 DEF DropEntry
<1>3. CASE Restart
  BY <1>3 DEF Restart, IsLast
<1>4. CASE UNCHANGED index
  BY <1>4
<1> QED
  BY <1>1, <1>2, <1>3, <1>4
     DEF Next, vars, BeginUpload, WriteCrt, WriteMeta, CrtFails, MetaFails,
         UndoKey, IndexCert, BeginDelete, DeleteGoesOn, DeleteKey, DeleteMeta,
         CheckDomain, DropCert, LookupName, LookupAny, Lookup, Serve,
         ServeFails, Answer

(* A delete that has begun stays that of its certificate, and it does not    *)
(* become undisturbed on the way.                                            *)
LEMMA DeletionKept ==
    ASSUME TypeOK, [Next]_vars, deleting # Nil, deleting' # Nil
    PROVE  /\ deleting.cert.id \in Ids
           /\ deleting'.cert = deleting.cert /\ deleting'.others = deleting.others
           /\ deleting.cert.id \notin disturbed' =>
                  deleting.cert.id \notin disturbed
           /\ deleting' = deleting \/ DeleteGoesOn
<1>1. deleting \in Deletion /\ deleting.cert.id \in Ids
  BY Fields DEF TypeOK
<1>2. ASSUME NEW u \in Uploaders, NEW c \in Offered, BeginUpload(u, c)
      PROVE  deleting.cert.id \notin disturbed' => deleting.cert.id \notin disturbed
  BY <1>2 DEF BeginUpload, Busy, Deleting
<1>3. CASE DeleteGoesOn
  <2>1. disturbed' = disturbed
    BY <1>3 DEF DeleteGoesOn, DeleteKey, DeleteMeta, CheckDomain, DropEntry,
                DropCert
  <2> QED
    BY <1>1, <1>3, <2>1, DeletionRecord
<1>4. ASSUME deleting' = deleting,
             disturbed \subseteq disturbed'
             \/ \E u \in Uploaders, c \in Offered : BeginUpload(u, c)
      PROVE  deleting.cert.id \notin disturbed' => deleting.cert.id \notin disturbed
  BY <1>2, <1>4
<1> QED
  BY <1>1, <1>3, <1>4
     DEF Next, vars, BeginUpload, WriteCrt, WriteMeta, CrtFails, MetaFails,
         UndoKey, CutShort, IndexCert, IndexDomain, BeginDelete, LookupName,
         LookupAny, Lookup, Serve, ServeFails, Answer, Restart

LEMMA DeletionBegins ==
    ASSUME TypeOK, [Next]_vars, deleting = Nil, deleting' # Nil
    PROVE  \E i \in Ids : BeginDelete(i)
<1>1. ~DeleteGoesOn
  BY DEF DeleteGoesOn, DeleteKey, DeleteMeta, CheckDomain, DropEntry, DropCert,
         Unindexing
<1> QED
  BY <1>1 DEF Next, vars, BeginUpload, WriteCrt, WriteMeta, CrtFails, MetaFails,
         UndoKey, IndexCert, IndexDomain, LookupName, LookupAny, Lookup, Serve,
         ServeFails, Answer, Restart

(* Unless an upload meets the delete, its certificate gains no entries.      *)
LEMMA NoNewEntry ==
    ASSUME IInv, [Next]_vars, deleting # Nil, deleting' # Nil,
           deleting.cert.id \notin disturbed',
           NEW d \in Domains, index'[d] = deleting.cert.id
    PROVE  index[d] = deleting.cert.id
<1>1. TypeOK /\ deleting.cert.id \in Ids /\ deleting.cert.id \notin disturbed
  BY DeletionKept DEF IInv
<1>2. ~Restart
  BY DEF Restart
<1>3. \A u \in Uploaders : up[u] # Nil => up[u].cert.id # deleting.cert.id
  BY <1>1 DEF IInv, UploadsProgress, Alone, Deleting
<1> QED
  BY <1>1, <1>2, <1>3, IndexEntries, Fields

(* No domain that another certificate served when the delete began leads to  *)
(* the one that is being deleted, or is taken for one of it.                 *)
Spared ==
    deleting # Nil /\ deleting.cert.id \notin disturbed =>
        /\ deleting.found \notin deleting.others
        /\ \A d \in deleting.others : d \in Domains /\ index[d] # deleting.cert.id

LEMMA SparedStep == IInv /\ Spared /\ [Next]_vars => Spared'
<1> SUFFICES ASSUME IInv, Spared, [Next]_vars, deleting' # Nil,
                    deleting'.cert.id \notin disturbed'
             PROVE  /\ deleting'.found \notin deleting'.others
                    /\ \A d \in deleting'.others :
                          d \in Domains /\ index'[d] # deleting'.cert.id
  BY DEF Spared
<1>0. TypeOK
  BY DEF IInv
<1>1. CASE deleting = Nil
  <2>1. PICK i \in Ids : BeginDelete(i)
    BY <1>0, <1>1, DeletionBegins
  <2>2. certs[i] \in StoredCert /\ certs[i].id = i
    BY <2>1 DEF BeginDelete, IInv, TypeOK, Keyed
  <2>3. /\ deleting'.cert = certs[i] /\ deleting'.found = Nil
        /\ deleting'.others \subseteq Domains
        /\ \A d \in deleting'.others : index[d] # i
    BY <1>0, <2>1, NewDeletion
  <2>4. index' = index
    BY <2>1 DEF BeginDelete
  <2> QED
    BY <2>2, <2>3, <2>4, Fields
<1>2. CASE deleting # Nil
  <2>1. /\ deleting'.cert = deleting.cert /\ deleting'.others = deleting.others
        /\ deleting.cert.id \notin disturbed
        /\ deleting' = deleting \/ DeleteGoesOn
    BY <1>0, <1>2, DeletionKept
  <2>2. \A d \in deleting.others : /\ d \in Domains /\ d # Nil
                                  /\ index[d] # deleting.cert.id
                                  /\ index'[d] # deleting.cert.id
    BY <1>2, <2>1, NoNewEntry, Fields DEF Spared
  <2>3. deleting'.found \notin deleting.others
    <3>1. CASE deleting' = deleting
      BY <1>2, <2>1, <3>1 DEF Spared
    <3>2. CASE DeleteGoesOn
      <4>1. \/ deleting'.found = deleting.found \/ deleting'.found = Nil
            \/ \E d \in Domains : /\ index[d] = deleting.cert.id
                                  /\ deleting'.found = d
        BY <1>0, <3>2, DeletionRecord DEF TypeOK
      <4> QED
        BY <1>2, <2>1, <2>2, <4>1 DEF Spared
    <3> QED
      BY <2>1, <3>1, <3>2
  <2> QED
    BY <2>1, <2>2, <2>3
<1> QED
  BY <1>1, <1>2

(* Deleting a certificate takes no domain from another one, whatever uploads *)
(* go on next to it, but through the one entry it has looked at and is about *)
(* to delete; and not even so one that was another's when the delete began.  *)
THEOREM DeleteAlwaysSpares == Spec => DeleteSparesOthers
<1>1. Init => Spared
  BY DEF Init, Spared
<1>2. ASSUME IInv, Spared, DeleteGoesOn, NEW d \in Domains, Served(d),
             index[d] # deleting.cert.id,
             \/ d # deleting.found
             \/ d \in deleting.others /\ deleting.cert.id \notin disturbed
      PROVE  Served(d)'
  <2>1. d # deleting.found /\ deleting # Nil /\ deleting.cert.id \in Ids
    BY <1>2, DeletionRecord, Fields DEF Spared, IInv, TypeOK
  <2>2. index[d] \in Ids /\ index'[d] = index[d]
    BY <1>2, <2>1 DEF IInv, TypeOK, Served, DeleteGoesOn, DeleteKey, DeleteMeta,
                      CheckDomain, DropEntry, DropCert
  <2>3. /\ certs'[index[d]] = certs[index[d]]
        /\ key'[index[d]] = key[index[d]] /\ crt'[index[d]] = crt[index[d]]
    BY <1>2, <2>1, <2>2
       DEF IInv, TypeOK, DeleteGoesOn, DeleteKey, DeleteMeta, CheckDomain,
           DropEntry, DropCert, files
  <2> QED
    BY <1>2, <2>2, <2>3 DEF Served, Loadable
<1>3. IInv /\ Spared /\ [Next]_vars =>
        [DeleteGoesOn => \A d \in Domains :
            /\ Served(d) /\ index[d] # deleting.cert.id
            /\ \/ d # deleting.found
               \/ d \in deleting.others /\ deleting.cert.id \notin disturbed
            => Served(d)']_vars
  BY <1>2
<1> QED
  BY <1>1, <1>3, IInvInit, IInvStep, SparedStep, PTL DEF Spec, DeleteSparesOthers

(* Served domains survive a crash.                                           *)
THEOREM RestartAlwaysServes == Spec => RestartKeepsServing
<1>1. ASSUME IInv, Restart, NEW d \in Domains, Served(d), Settled(index[d]),
             \A i \in Ids : meta[i] # Nil /\ d \in meta[i].doms => Settled(i)
      PROVE  Served(d)'
  <2>1. \A i \in Ids : Settled(i) =>
           /\ meta[i] = certs[i] /\ key[i] = crt[i]
           /\ certs[i] # Nil => crt[i] # Nil
    BY <1>1, Fields DEF IInv, TypeOK, DiskAgrees
  <2>2. index[d] \in Claimants(d)
    BY <1>1, <2>1 DEF IInv, TypeOK, Served, Claimants, OnDisk
  <2>3. index'[d] \in Claimants(d)
    BY <1>1, <2>2 DEF Restart, IsLast
  <2>4. index'[d] \in Ids /\ OnDisk(index'[d]) /\ d \in meta[index'[d]].doms
    BY <2>3 DEF Claimants
  <2>5. Settled(index'[d])
    BY <1>1, <2>4 DEF OnDisk
  <2>6. certs'[index'[d]] = meta[index'[d]] /\ crt' = crt /\ key' = key
    BY <1>1, <2>4 DEF Restart, files
  <2> QED
    BY <2>1, <2>4, <2>5, <2>6, Fields DEF Served, Loadable, OnDisk
<1>2. IInv /\ [Next]_vars =>
        [Restart => \A d \in Domains :
            /\ Served(d) /\ Settled(index[d])
            /\ \A i \in Ids : meta[i] # Nil /\ d \in meta[i].doms => Settled(i)
            => Served(d)']_vars
  BY <1>1
<1> QED
  BY <1>2, IInvInit, IInvStep, PTL DEF Spec, RestartKeepsServing
(***************************************************************************)
(* The index, when a certificate keeps its domains.                        *)
(***************************************************************************)
(* An id is uploaded again only for the domains it had: the domains sent     *)
(* along are those of the certificate the id was made from.                  *)
DomainsFixed == \A c1, c2 \in Offered : c1.id = c2.id => c1.doms = c2.doms

(* Every certificate in memory, on disk or in a call is one of those offered. *)
Known ==
    /\ \A i \in Ids : /\ certs[i] # Nil => certs[i] \in Offered
                      /\ meta[i] # Nil => meta[i] \in Offered
    /\ \A u \in Uploaders : up[u] # Nil => /\ up[u].cert \in Offered
                                           /\ up[u].todo \subseteq up[u].cert.doms
    /\ deleting # Nil => deleting.cert \in Offered

(* An entry of the index leads to an id that was offered for the domain. *)
Claimed ==
    \A d \in Domains : index[d] # Nil =>
        \E c \in Offered : c.id = index[d] /\ d \in c.doms

(* Upload u repairs entry i, or marks it as disturbed if it fails. *)
Repairs(u, i) == /\ up[u] # Nil /\ up[u].cert.id = i
                 /\ up[u].step # "index" /\ ~up[u].fresh

(* An entry leads to a certificate that is there, unless calls have met over *)
(* it and the upload that followed is not through.                           *)
Present ==
    \A d \in Domains : index[d] # Nil /\ index[d] \notin disturbed =>
        certs[index[d]] # Nil \/ \E u \in Uploaders : Repairs(u, index[d])

(* Of the entries of an undisturbed certificate whose id is in S a delete     *)
(* has still to see, or has just seen, those that it has not removed.        *)
ToGo(S) ==
    deleting # Nil /\ deleting.cert.id \in S \ disturbed =>
        \A d \in Domains : index[d] = deleting.cert.id =>
            d \in deleting.todo \/ d = deleting.found

LEMMA ToGoStep ==
    ASSUME NEW S, IInv, ToGo(S), [Next]_vars, deleting # Nil
    PROVE  ToGo(S)'
<1> SUFFICES ASSUME deleting' # Nil, deleting'.cert.id \in S \ disturbed',
                    NEW d \in Domains, index'[d] = deleting'.cert.id
             PROVE  d \in deleting'.todo \/ d = deleting'.found
  BY DEF ToGo
<1>0. TypeOK
  BY DEF IInv
<1>1. /\ deleting'.cert = deleting.cert /\ deleting.cert.id \in Ids
      /\ deleting.cert.id \notin disturbed
      /\ deleting' = deleting \/ DeleteGoesOn
  BY <1>0, DeletionKept
<1>2. index[d] = deleting.cert.id /\ d # Nil
  BY <1>1, NoNewEntry, Fields
<1>3. d \in deleting.todo \/ d = deleting.found
  BY <1>1, <1>2 DEF ToGo
<1>4. CASE deleting' = deleting
  BY <1>3, <1>4
<1>5. CASE DeleteGoesOn
  <2>1. ASSUME NEW e \in Domains, CheckDomain(e),
               deleting'.todo = deleting.todo \ {e},
               deleting'.found = IF index[e] = deleting.cert.id THEN e ELSE Nil
        PROVE  d \in deleting'.todo \/ d = deleting'.found
    BY <1>2, <1>3, <2>1 DEF CheckDomain
  <2>2. ASSUME DropEntry PROVE d # deleting.found
    BY <1>0, <1>1, <2>2, Fields DEF DropEntry, TypeOK
  <2> QED
    BY <1>0, <1>3, <1>5, <2>1, <2>2, DeletionRecord DEF TypeOK
<1> QED
  BY <1>1, <1>4, <1>5

(* When a delete begins, all of them are still to be seen. *)
LEMMA ToGoBegins ==
    ASSUME NEW S, IInv, [Next]_vars, deleting = Nil,
           \A i \in Ids, d \in Domains :
               BeginDelete(i) /\ i \in S \ disturbed /\ index[d] = i =>
                   d \in certs[i].doms
    PROVE  ToGo(S)'
<1> SUFFICES ASSUME deleting' # Nil, deleting'.cert.id \in S \ disturbed',
                    NEW d \in Domains, index'[d] = deleting'.cert.id
             PROVE  d \in deleting'.todo
  BY DEF ToGo
<1>1. PICK i \in Ids : BeginDelete(i)
  BY DeletionBegins DEF IInv
<1>2. certs[i] \in StoredCert /\ certs[i].id = i
  BY <1>1 DEF BeginDelete, IInv, TypeOK, Keyed
<1>3. deleting'.cert.id = i /\ deleting'.todo = certs[i].doms
  BY <1>1, <1>2, NewDeletion DEF IInv
<1>4. index' = index /\ disturbed \subseteq disturbed'
  BY <1>1 DEF BeginDelete
<1> QED
  BY <1>1, <1>3, <1>4

(* What a step does to the record of an upload. *)
LEMMA UploadRecords ==
    ASSUME TypeOK, [Next]_vars, NEW u \in Uploaders, up'[u] # Nil
    PROVE  \/ up'[u] = up[u]
           \/ \E c \in Offered :
                 /\ BeginUpload(u, c)
                 /\ up'[u].cert = c /\ up'[u].todo = c.doms /\ up'[u].step = "crt"
           \/ /\ up[u] # Nil
              /\ up'[u].cert = up[u].cert /\ up'[u].fresh = up[u].fresh
              /\ up'[u].todo \subseteq up[u].todo
              /\ \/ WriteCrt(u) \/ WriteMeta(u) \/ MetaFails(u)
                 \/ IndexCert(u) \/ \E d \in Domains : IndexDomain(u, d)
              /\ up'[u].step = "index" => certs'[up[u].cert.id] # Nil
                                          \/ up[u].step = "index"
<1>1. /\ up \in [Uploaders -> Upload \union {Nil}]
      /\ up'[u] = up[u] \/ up[u] = Nil \/ up[u] \in Upload
      /\ certs \in [Ids -> StoredCert \union {Nil}]
  BY DEF TypeOK
<1>2. ASSUME NEW v \in Uploaders, NEW c \in Offered, BeginUpload(v, c), v = u
      PROVE  up'[u].cert = c /\ up'[u].todo = c.doms /\ up'[u].step = "crt"
  BY <1>1, <1>2 DEF BeginUpload
<1>3. ASSUME WriteCrt(u) \/ WriteMeta(u) \/ MetaFails(u)
      PROVE  /\ up[u] # Nil /\ up'[u].cert = up[u].cert
             /\ up'[u].fresh = up[u].fresh /\ up'[u].todo = up[u].todo
             /\ up'[u].step # "index"
  <2>1. up[u] \in Upload
    BY <1>1, <1>3 DEF WriteCrt, WriteMeta, MetaFails, At
  <2>2. \/ up'[u] = [up[u] EXCEPT !.step = "meta"]
        \/ up'[u] = [up[u] EXCEPT !.step = "certs"]
        \/ up'[u] = [up[u] EXCEPT !.step = "undo"]
    BY <1>1, <1>3 DEF WriteCrt, WriteMeta, MetaFails
  <2> QED
    BY <2>1, <2>2, Fields DEF Upload
<1>4. ASSUME IndexCert(u)
      PROVE  /\ up[u] # Nil /\ up'[u].cert = up[u].cert
             /\ up'[u].fresh = up[u].fresh /\ up'[u].todo = up[u].todo
             /\ certs'[up[u].cert.id] # Nil
  <2>1. up[u] \in Upload /\ up[u] # Nil
    BY <1>1, <1>4 DEF IndexCert, At
  <2>2. up'[u] = [up[u] EXCEPT !.step = "index"]
    BY <1>1, <1>4 DEF IndexCert, Done
  <2>3. certs'[up[u].cert.id] = up[u].cert /\ up[u].cert # Nil
    BY <1>1, <1>4, <2>1, Fields DEF IndexCert
  <2> QED
    BY <2>1, <2>2, <2>3 DEF Upload
<1>5. ASSUME NEW d \in Domains, IndexDomain(u, d)
      PROVE  /\ up[u] # Nil /\ up'[u].cert = up[u].cert
             /\ up'[u].fresh = up[u].fresh /\ up'[u].todo \subseteq up[u].todo
             /\ up[u].step = "index"
  <2>1. up[u] \in Upload /\ up[u] # Nil /\ up[u].step = "index"
    BY <1>1, <1>5 DEF IndexDomain, At
  <2>2. up'[u] = [up[u] EXCEPT !.todo = @ \ {d}]
    BY <1>1, <1>5 DEF IndexDomain, Done
  <2> QED
    BY <2>1, <2>2 DEF Upload
<1>6. CASE \E c \in Offered : BeginUpload(u, c)
  BY <1>2, <1>6
<1>7. CASE WriteCrt(u) \/ WriteMeta(u) \/ MetaFails(u)
  BY <1>3, <1>7
<1>8. CASE IndexCert(u)
  BY <1>4, <1>8
<1>9. CASE \E d \in Domains : IndexDomain(u, d)
  BY <1>5, <1>9
<1>10. CASE CrtFails(u) \/ UndoKey(u)
  BY <1>1, <1>10 DEF CrtFails, UndoKey, Done
<1>11. ASSUME NEW v \in Uploaders, v # u,
              \/ \E c \in Offered : BeginUpload(v, c)
              \/ WriteCrt(v) \/ CrtFails(v) \/ WriteMeta(v) \/ MetaFails(v)
              \/ UndoKey(v) \/ IndexCert(v) \/ \E d \in Domains : IndexDomain(v, d)
       PROVE  up'[u] = up[u]
  BY <1>1, <1>11 DEF BeginUpload, WriteCrt, CrtFails, WriteMeta, MetaFails,
                     UndoKey, IndexCert, IndexDomain, Done
<1>12. CASE Restart
  BY <1>12 DEF Restart
<1>13. CASE UNCHANGED up
  BY <1>13
<1> QED
  BY <1>6, <1>7, <1>8, <1>9, <1>10, <1>11, <1>12, <1>13
     DEF Next, vars, BeginDelete, DeleteGoesOn, DeleteKey, DeleteMeta,
         CheckDomain, DropEntry, DropCert, LookupName, LookupAny, Lookup,
         Serve, ServeFails, Answer

LEMMA KnownStep == TypeOK /\ Known /\ [Next]_vars => Known'
<1> SUFFICES ASSUME TypeOK, Known, [Next]_vars PROVE Known'
  OBVIOUS
<1>1. ASSUME NEW u \in Uploaders, up'[u] # Nil
      PROVE  up'[u].cert \in Offered /\ up'[u].todo \subseteq up'[u].cert.doms
  BY <1>1, UploadRecords DEF Known
<1>2. ASSUME NEW i \in Ids
      PROVE  /\ certs'[i] # Nil => certs'[i] \in Offered
             /\ meta'[i] # Nil => meta'[i] \in Offered
  <2>1. CASE \E u \in Uploaders : IndexCert(u) \/ WriteMeta(u)
    BY <2>1 DEF IndexCert, WriteMeta, At, files, TypeOK, Known
  <2>2. CASE DeleteMeta \/ DropCert
    BY <2>2 DEF DeleteMeta, DropCert, files, TypeOK, Known
  <2>3. CASE Restart
    BY <2>3 DEF Restart, files, OnDisk, Known
  <2>4. CASE UNCHANGED <<certs, meta>>
    BY <2>4 DEF Known
  <2> QED
    BY <2>1, <2>2, <2>3, <2>4
       DEF Next, vars, files, BeginUpload, WriteCrt, CrtFails, MetaFails,
           UndoKey, IndexDomain, BeginDelete, DeleteGoesOn, DeleteKey,
           CheckDomain, DropEntry, LookupName, LookupAny, Lookup, Serve,
           ServeFails, Answer
<1>3. deleting' # Nil => deleting'.cert \in Offered
  <2>1. CASE \E i \in Ids : BeginDelete(i)
    BY <2>1 DEF BeginDelete, Known
  <2>2. CASE DeleteGoesOn
    BY <2>2, DeletionRecord DEF TypeOK, Known
  <2>3. CASE deleting' = Nil
    BY <2>3
  <2>4. CASE UNCHANGED deleting
    BY <2>4 DEF Known
  <2> QED
    BY <2>1, <2>2, <2>3, <2>4
       DEF Next, vars, BeginUpload, WriteCrt, WriteMeta, CrtFails, MetaFails,
           UndoKey, IndexCert, IndexDomain, LookupName, LookupAny, Lookup,
           Serve, ServeFails, Answer, Restart
<1> QED
  BY <1>1, <1>2, <1>3 DEF Known

LEMMA ClaimedStep == IInv /\ Known /\ Claimed /\ [Next]_vars => Claimed'
<1> SUFFICES ASSUME IInv, Known, Claimed, [Next]_vars,
                    NEW d \in Domains, index'[d] # Nil
             PROVE  \E c \in Offered : c.id = index'[d] /\ d \in c.doms
  BY DEF Claimed
<1>1. CASE index'[d] = index[d]
  BY <1>1 DEF Claimed
<1>2. CASE \E u \in Uploaders : /\ up[u] # Nil /\ d \in up[u].todo
                                /\ index'[d] = up[u].cert.id
  BY <1>2 DEF Known
<1>3. CASE index'[d] \in Claimants(d)
  <2>1. /\ index'[d] \in Ids /\ meta[index'[d]] # Nil
        /\ d \in meta[index'[d]].doms
    BY <1>3 DEF Claimants, OnDisk
  <2> QED
    BY <2>1 DEF Known, IInv, Keyed
<1> QED
  BY <1>1, <1>2, <1>3, IndexEntries DEF IInv
(* An upload only ends by failing, with its last entry, or with the process. *)
LEMMA UploadGone ==
    ASSUME TypeOK, [Next]_vars, NEW u \in Uploaders, up[u] # Nil, up'[u] = Nil
    PROVE  \/ CrtFails(u) \/ UndoKey(u) \/ IndexCert(u) \/ Restart
           \/ up[u].step = "index"
<1>1. up \in [Uploaders -> Upload \union {Nil}] /\ up[u] \in Upload
  BY DEF TypeOK
<1>2. ASSUME NEW v \in Uploaders, v # u,
             \/ \E c \in Offered : BeginUpload(v, c)
             \/ WriteCrt(v) \/ CrtFails(v) \/ WriteMeta(v) \/ MetaFails(v)
             \/ UndoKey(v) \/ IndexCert(v) \/ \E d \in Domains : IndexDomain(v, d)
      PROVE  up'[u] = up[u]
  BY <1>1, <1>2 DEF BeginUpload, WriteCrt, CrtFails, WriteMeta, MetaFails,
                    UndoKey, IndexCert, IndexDomain, Done
<1>3. ASSUME WriteCrt(u) \/ WriteMeta(u) \/ MetaFails(u) PROVE up'[u] # Nil
  <2>1. \/ up'[u] = [up[u] EXCEPT !.step = "meta"]
        \/ up'[u] = [up[u] EXCEPT !.step = "certs"]
        \/ up'[u] = [up[u] EXCEPT !.step = "undo"]
    BY <1>1, <1>3 DEF WriteCrt, WriteMeta, MetaFails
  <2>2. up'[u] \in Upload
    BY <1>1, <2>1, UploadSteps
  <2> QED
    BY <2>2, Fields
<1>4. ASSUME NEW d \in Domains, IndexDomain(u, d) PROVE up[u].step = "index"
  BY <1>4 DEF IndexDomain, At
<1>5. ASSUME NEW c \in Offered, BeginUpload(u, c) PROVE FALSE
  BY <1>5 DEF BeginUpload
<1>6. CASE UNCHANGED up
  BY <1>6
<1> QED
  BY <1>2, <1>3, <1>4, <1>5, <1>6
     DEF Next, vars, BeginDelete, DeleteGoesOn, DeleteKey, DeleteMeta,
         CheckDomain, DropEntry, DropCert, LookupName, LookupAny, Lookup,
         Serve, ServeFails, Answer

LEMMA PresentStep == IInv /\ Known /\ Present /\ ToGo(Ids) /\ [Next]_vars
                     => Present'
<1> SUFFICES ASSUME IInv, Known, Present, ToGo(Ids), [Next]_vars,
                    NEW d \in Domains, NEW i \in Ids,
                    index'[d] = i, i \notin disturbed'
             PROVE  certs'[i] # Nil \/ \E u \in Uploaders : Repairs(u, i)'
  <2>1. IInv /\ [Next]_vars => TypeOK'
    BY TypeStep DEF IInv
  <2> QED
    BY <2>1 DEF Present, Repairs, TypeOK
<1>0. /\ TypeOK /\ index'[d] # Nil
      /\ \A c \in Offered : c \in StoredCert /\ c # Nil /\ c.id \in Ids
  BY OfferedAssumption, Fields DEF IInv
(* A restart indexes only what it has found. *)
<1>1. CASE Restart
  <2>1. i \in Claimants(d)
    BY <1>0, <1>1 DEF Restart, IsLast
  <2> QED
    BY <1>1, <2>1 DEF Restart, Claimants, OnDisk
(* An upload adds entries after it has put the certificate into the map. *)
<1>2. ASSUME NEW u \in Uploaders, IndexDomain(u, d), up[u] # Nil,
             up[u].step = "index", i = up[u].cert.id
      PROVE  certs'[i] # Nil
  <2>1. i \notin disturbed /\ certs' = certs
    BY <1>2 DEF IndexDomain
  <2>2. certs[i] = up[u].cert /\ up[u].cert \in Offered
    BY <1>2, <2>1 DEF IInv, UploadsProgress, Progress, Known
  <2> QED
    BY <1>0, <2>1, <2>2
(* Otherwise the entry was there before. *)
<1>3. ASSUME index'[d] = index[d], ~Restart
      PROVE  certs'[i] # Nil \/ \E u \in Uploaders : Repairs(u, i)'
  (* Its certificate does not go: a delete takes all of its entries along. *)
  <2>1. certs[i] # Nil => certs'[i] # Nil
    <3>1. CASE DropCert
      <4>1. /\ deleting # Nil /\ deleting.todo = {} /\ deleting.found = Nil
            /\ certs' = [certs EXCEPT ![deleting.cert.id] = Nil]
            /\ disturbed' = disturbed /\ d # Nil
        BY <3>1, Fields DEF DropCert, Unindexing
      <4>2. i # deleting.cert.id
        BY <1>3, <4>1 DEF ToGo
      <4> QED
        BY <1>0, <4>1, <4>2 DEF TypeOK
    <3>2. CASE \E u \in Uploaders : IndexCert(u)
      <4>1. PICK u \in Uploaders : IndexCert(u)
        BY <3>2
      <4>2. up[u].cert \in Offered /\ certs' = [certs EXCEPT ![up[u].cert.id] = up[u].cert]
        BY <4>1 DEF IndexCert, At, Known
      <4> QED
        BY <1>0, <4>2 DEF TypeOK
    <3>3. CASE UNCHANGED certs
      BY <3>3
    <3> QED
      BY <1>3, <3>1, <3>2, <3>3
         DEF Next, vars, BeginUpload, WriteCrt, WriteMeta, CrtFails, MetaFails,
             UndoKey, IndexDomain, BeginDelete, DeleteGoesOn, DeleteKey,
             DeleteMeta, CheckDomain, DropEntry, LookupName, LookupAny, Lookup, Serve, ServeFails, Answer
  (* If calls had met over it, an upload has just begun that is not fresh. *)
  <2>2. ASSUME i \in disturbed
        PROVE  \E u \in Uploaders : Repairs(u, i)'
    <3>1. PICK u \in Uploaders : \E c \in Offered : BeginUpload(u, c) /\ c.id = i
      BY <1>3, <2>2
         DEF Next, vars, BeginUpload, WriteCrt, WriteMeta, CrtFails, MetaFails,
             UndoKey, CutShort, IndexCert, IndexDomain, BeginDelete,
             DeleteGoesOn, DeleteKey, DeleteMeta, CheckDomain, DropEntry,
             DropCert, LookupName, LookupAny, Lookup, Serve,
             ServeFails, Answer
    <3>2. PICK c \in Offered : BeginUpload(u, c) /\ c.id = i
      BY <3>1
    <3>3. (certs[c.id] = Nil /\ c.id \notin disturbed) = FALSE
      BY <2>2, <3>2
    <3>4. up'[u] = [cert |-> c, step |-> "crt", todo |-> c.doms, fresh |-> FALSE]
      BY <1>0, <3>2, <3>3 DEF BeginUpload, TypeOK
    <3>5. up'[u] \in Upload
      BY <1>0, <3>4 DEF Upload, StoredCert
    <3> QED
      BY <3>2, <3>4, <3>5, Fields DEF Repairs
  (* An upload that repairs it goes on, puts it into the map, or marks it. *)
  <2>3. ASSUME NEW u \in Uploaders, Repairs(u, i)
        PROVE  certs'[i] # Nil \/ Repairs(u, i)'
    <3>1. CASE up'[u] # Nil
      <4>1. CASE up'[u] = up[u]
        BY <2>3, <4>1 DEF Repairs
      <4>2. CASE \E c \in Offered : BeginUpload(u, c)
        BY <2>3, <4>2 DEF BeginUpload, Repairs
      <4> QED
        BY <1>0, <2>3, <3>1, <4>1, <4>2, UploadRecords DEF Repairs
    <3>2. CASE up'[u] = Nil
      <4>1. CASE CrtFails(u) \/ UndoKey(u)
        BY <1>3, <2>3, <4>1 DEF CrtFails, UndoKey, CutShort, Repairs
      <4>2. CASE IndexCert(u)
        <5>1. up[u].cert \in Offered
              /\ certs' = [certs EXCEPT ![up[u].cert.id] = up[u].cert]
          BY <4>2 DEF IndexCert, At, Known
        <5> QED
          BY <1>0, <2>3, <5>1 DEF TypeOK, Repairs
      <4>3. up[u] # Nil /\ up[u].step # "index"
        BY <2>3 DEF Repairs
      <4> QED
        BY <1>0, <1>3, <3>2, <4>1, <4>2, <4>3, UploadGone
    <3> QED
      BY <3>1, <3>2
  <2>4. CASE i \notin disturbed
    <3>1. certs[i] # Nil \/ \E u \in Uploaders : Repairs(u, i)
      BY <1>0, <1>3, <2>4 DEF Present
    <3> QED
      BY <2>1, <2>3, <3>1
  <2> QED
    BY <2>2, <2>4
<1> QED
  BY <1>0, <1>1, <1>2, <1>3, IndexEntries

(* If ids are only uploaded again for the domains they had, the index serves *)
(* configured domains only, through any number of concurrent uploads, failed *)
(* writes, deletes and crashes: a change of domains under the same id is the *)
(* only way in which OnlyConfigured is broken.                               *)
THEOREM ServesOnlyConfigured ==
    ASSUME DomainsFixed
    PROVE  Spec => []OnlyConfigured
<1> DEFINE Inv == IInv /\ Known /\ Claimed /\ Present /\ ToGo(Ids)
<1>1. Init => Inv
  BY IInvInit DEF Init, Known, Claimed, Present, ToGo
<1>2. Inv /\ [Next]_vars => Inv'
  <2> SUFFICES ASSUME Inv, [Next]_vars PROVE Inv'
    OBVIOUS
  <2>1. ToGo(Ids)'
    <3>1. CASE deleting = Nil
      <4>1. ASSUME NEW i \in Ids, NEW d \in Domains, BeginDelete(i), index[d] = i
            PROVE  d \in certs[i].doms
        <5>1. certs[i] \in Offered /\ certs[i].id = i /\ i # Nil
          BY <4>1, Fields DEF BeginDelete, Known, IInv, Keyed
        <5>2. PICK c \in Offered : c.id = i /\ d \in c.doms
          BY <4>1, <5>1 DEF Claimed
        <5> QED
          BY <5>1, <5>2, DomainsFixed DEF DomainsFixed
      <4> QED
        BY <3>1, <4>1, ToGoBegins
    <3> QED
      BY <3>1, ToGoStep
  <2> QED
    BY <2>1, IInvStep, KnownStep, ClaimedStep, PresentStep DEF IInv
<1>3. Inv => OnlyConfigured
  <2> SUFFICES ASSUME Inv, NEW d \in Domains, index[d] # Nil, Settled(index[d])
               PROVE  certs[index[d]] # Nil /\ d \in certs[index[d]].doms
    BY DEF OnlyConfigured
  <2>1. certs[index[d]] # Nil
    BY DEF Present, Settled, Busy, Uploading, Repairs
  <2>2. index[d] \in Ids
    BY DEF IInv, TypeOK
  <2>3. certs[index[d]] \in Offered /\ certs[index[d]].id = index[d]
    BY <2>1, <2>2 DEF Known, IInv, Keyed
  <2>4. PICK c \in Offered : c.id = index[d] /\ d \in c.doms
    BY DEF Claimed
  <2> QED
    BY <2>1, <2>3, <2>4, DomainsFixed DEF DomainsFixed
<1> QED
  BY <1>1, <1>2, <1>3, PTL DEF Spec
=============================================================================
