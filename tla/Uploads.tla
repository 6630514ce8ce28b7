------------------------------ MODULE Uploads ------------------------------
(* One user's files: routes/storage_routes.js, the evidence route and the   *)
(* deletion of the account, over repository/storage.js, repository/privacy  *)
(* and an object store that knows nothing of the database.  What an object  *)
(* contains is left out: a check of it may come out either way.             *)
EXTENDS Integers, FiniteSets

CONSTANTS Keys,      \* storage keys; each carries a fresh random id
          Requests,  \* requests of this user the server may be handling
          None       \* no key

UploadsAssumption == None \notin Keys

VARIABLES account,   \* users.status
          object,    \* external: is there an object under the key
          url,       \* keys whose presigned URL still works
          intent,    \* keys with an upload_intents row that has not expired
          upload,    \* uploads rows: absent, owned, or with uploaded_by NULL
          evidence,  \* keys an evidence row of a job refers to
          req,       \* what each request has read and where it stands
          acked,     \* history: keys whose upload was answered with success
          unclaimed  \* history: keys without evidence when a deletion listed the files

vars == <<account, object, url, intent, upload, evidence, req, acked, unclaimed>>

Idle == [pc |-> "idle", key |-> None, listed |-> {}]
Used(k) == object[k] \/ k \in url \cup intent \/ upload[k] # "none"
           \/ \E q \in Requests : req[q].key = k
Goto(q, fields) == req' = [req EXCEPT ![q] = fields]
Finish(q) == Goto(q, Idle)
Authenticated(q) == req[q] = Idle /\ account = "ACTIVE"

Init ==
  /\ account = "ACTIVE"
  /\ object = [k \in Keys |-> FALSE]
  /\ url = {} /\ intent = {} /\ evidence = {} /\ acked = {} /\ unclaimed = {}
  /\ upload = [k \in Keys |-> "none"]
  /\ req = [q \in Requests |-> Idle]

-----------------------------------------------------------------------------
(* POST storage/upload: the object is put, then its row inserted; when that *)
(* fails the object is deleted again.  A row may be in although its answer  *)
(* was lost.                                                                *)
Put(q) ==
  /\ Authenticated(q)
  /\ \E k \in Keys : /\ ~Used(k)
                     /\ object' = [object EXCEPT ![k] = TRUE]
                     /\ Goto(q, [Idle EXCEPT !.pc = "insert", !.key = k])
  /\ UNCHANGED <<account, url, intent, upload, evidence, acked, unclaimed>>

InsertUpload(q) ==
  LET k == req[q].key IN
  /\ req[q].pc = "insert"
  /\ upload' = [upload EXCEPT ![k] = "owned"]
  /\ \/ acked' = acked \cup {k} /\ Finish(q)
     \/ UNCHANGED acked /\ Goto(q, [req[q] EXCEPT !.pc = "cleanup"])
  /\ UNCHANGED <<account, object, url, intent, evidence, unclaimed>>

InsertFails(q) ==
  /\ req[q].pc = "insert"
  /\ Goto(q, [req[q] EXCEPT !.pc = "cleanup"])
  /\ UNCHANGED <<account, object, url, intent, upload, evidence, acked, unclaimed>>

DeleteOrphan(q) ==
  /\ req[q].pc = "cleanup"
  /\ object' = [object EXCEPT ![req[q].key] = FALSE]
  /\ Finish(q)
  /\ UNCHANGED <<account, url, intent, upload, evidence, acked, unclaimed>>

-----------------------------------------------------------------------------
(* POST storage/presign, the client's own PUT, and storage/complete.        *)
PresignPut(q) ==
  /\ Authenticated(q)
  /\ \E k \in Keys : /\ ~Used(k)
                     /\ url' = url \cup {k}
                     /\ Goto(q, [Idle EXCEPT !.pc = "intent", !.key = k])
  /\ UNCHANGED <<account, object, intent, upload, evidence, acked, unclaimed>>

CreateUploadIntent(q) ==
  /\ req[q].pc = "intent"
  /\ intent' = intent \cup {req[q].key}
  /\ Finish(q)
  /\ UNCHANGED <<account, object, url, upload, evidence, acked, unclaimed>>

ClientPut(k) ==
  /\ k \in url
  /\ object' = [object EXCEPT ![k] = TRUE]
  /\ UNCHANGED <<account, url, intent, upload, evidence, req, acked, unclaimed>>

Expire(k) ==
  /\ k \in url \cup intent
  /\ url' = url \ {k} /\ intent' = intent \ {k}
  /\ UNCHANGED <<account, object, upload, evidence, req, acked, unclaimed>>

(* The lookups before the object is examined.  A key that has its row       *)
(* already is answered again, which changes nothing.                        *)
Unseen(k) == TRUE   \* slip: the object is not looked for
Stored(k) == object[k]

CompleteCheck(q) ==
  /\ Authenticated(q)
  /\ \E k \in intent : /\ upload[k] = "none" /\ Stored(k)
                       /\ Goto(q, [Idle EXCEPT !.pc = "complete", !.key = k])
  /\ UNCHANGED <<account, object, url, intent, upload, evidence, acked, unclaimed>>

(* completeUploadAtomic looks at the intent again under its lock.           *)
CompleteUploadAtomic(q) ==
  LET k == req[q].key IN
  /\ req[q].pc = "complete"
  /\ IF k \in intent
     THEN /\ upload' = [upload EXCEPT ![k] = IF @ = "none" THEN "owned" ELSE @]
          /\ intent' = intent \ {k} /\ acked' = acked \cup {k}
     ELSE UNCHANGED <<upload, intent, acked>>
  /\ Finish(q)
  /\ UNCHANGED <<account, object, url, evidence, unclaimed>>

-----------------------------------------------------------------------------
(* POST jobs/:id/evidence with a storage:// reference, in progress.  The    *)
(* client names a key only when an answer gave it that key.                 *)
EvidenceStart(q) ==
  /\ Authenticated(q)
  /\ \E k \in acked : Goto(q, [Idle EXCEPT !.pc = "evidence", !.key = k])
  /\ UNCHANGED <<account, object, url, intent, upload, evidence, acked, unclaimed>>

(* insertEvidenceAndTouchJob reads the upload, without a lock on its row,   *)
(* and then inserts.                                                        *)
FindUpload(q) ==
  /\ req[q].pc = "evidence"
  /\ IF upload[req[q].key] = "owned" THEN Goto(q, [req[q] EXCEPT !.pc = "attach"]) ELSE Finish(q)
  /\ UNCHANGED <<account, object, url, intent, upload, evidence, acked, unclaimed>>

InsertEvidence(q) ==
  /\ req[q].pc = "attach"
  /\ evidence' = evidence \cup {req[q].key}
  /\ Finish(q)
  /\ UNCHANGED <<account, object, url, intent, upload, acked, unclaimed>>

-----------------------------------------------------------------------------
(* POST account/delete: the files to remove are listed first, the account   *)
(* is anonymised in one transaction, and then the objects are deleted.      *)
Owned == {k \in Keys : upload[k] = "owned"}   \* in Deletable's place: the slip of forgetting evidence
Deletable == {k \in Keys : upload[k] = "owned" /\ k \notin evidence}

ListUploads(q) ==
  /\ Authenticated(q)
  /\ Goto(q, [Idle EXCEPT !.pc = "delete", !.listed = Deletable])
  /\ unclaimed' = unclaimed \cup (Owned \ evidence)
  /\ UNCHANGED <<account, object, url, intent, upload, evidence, acked>>

RowsGone(q) ==   \* slip: the rows are deleted, not made ownerless
  /\ req[q].pc = "delete"
  /\ account' = "DELETED" /\ intent' = {}
  /\ upload' = [k \in Keys |-> IF upload[k] = "owned" THEN "none" ELSE upload[k]]
  /\ Goto(q, [req[q] EXCEPT !.pc = "remove"])
  /\ UNCHANGED <<object, url, evidence, acked, unclaimed>>

DeleteUserPrivacyBundle(q) ==
  /\ req[q].pc = "delete"
  /\ account' = "DELETED" /\ intent' = {}
  /\ upload' = [k \in Keys |-> IF upload[k] = "owned" THEN "ownerless" ELSE upload[k]]
  /\ Goto(q, [req[q] EXCEPT !.pc = "remove"])
  /\ UNCHANGED <<object, url, evidence, acked, unclaimed>>

(* One object after the other; a failed deletion is logged and skipped.     *)
RemoveObject(q) ==
  /\ req[q].pc = "remove"
  /\ \E k \in req[q].listed :
       /\ object' \in {object, [object EXCEPT ![k] = FALSE]}
       /\ Goto(q, [req[q] EXCEPT !.listed = @ \ {k}])
  /\ UNCHANGED <<account, url, intent, upload, evidence, acked, unclaimed>>

RemoveDone(q) ==
  /\ req[q].pc = "remove" /\ req[q].listed = {}
  /\ Finish(q)
  /\ UNCHANGED <<account, object, url, intent, upload, evidence, acked, unclaimed>>

(* The process dies or a statement fails: the request ends where it is.     *)
Drop(q) ==
  /\ req[q] # Idle /\ Finish(q)
  /\ UNCHANGED <<account, object, url, intent, upload, evidence, acked, unclaimed>>

Serve(q) ==
  \/ Put(q) \/ InsertUpload(q) \/ InsertFails(q) \/ DeleteOrphan(q)
  \/ PresignPut(q) \/ CreateUploadIntent(q) \/ CompleteCheck(q) \/ CompleteUploadAtomic(q)
  \/ EvidenceStart(q) \/ FindUpload(q) \/ InsertEvidence(q)
  \/ ListUploads(q) \/ DeleteUserPrivacyBundle(q) \/ RemoveObject(q) \/ RemoveDone(q)
  \/ Drop(q)

Next == (\E q \in Requests : Serve(q)) \/ \E k \in Keys : ClientPut(k) \/ Expire(k)

Spec == Init /\ [][Next]_vars

-----------------------------------------------------------------------------
(* Every variable keeps its type, and only uploads rows are referred to.    *)
TypeOK ==
  /\ account \in {"ACTIVE", "DELETED"}
  /\ object \in [Keys -> BOOLEAN]
  /\ url \subseteq Keys /\ intent \subseteq Keys
  /\ upload \in [Keys -> {"none", "owned", "ownerless"}]
  /\ req \in [Requests -> [pc : {"idle", "insert", "cleanup", "intent", "complete", "evidence", "attach",
                                 "delete", "remove"},
                           key : Keys \cup {None}, listed : SUBSET Keys]]
  /\ acked \subseteq Keys /\ evidence \subseteq Keys /\ unclaimed \subseteq Keys
  /\ \A k \in evidence : upload[k] # "none"

(* A file whose upload was answered with success is in the store as long as *)
(* it belongs to its user, whatever fails in between.                       *)
AckedUploadStays == \A k \in acked : upload[k] = "owned" => object[k]

(* Evidence keeps its object through the deletion of the account, unless    *)
(* it came after a deletion had listed the files it may delete.             *)
OldEvidenceKept == \A k \in evidence \cap acked : object[k] \/ k \in unclaimed

-----------------------------------------------------------------------------
(* What the two properties rest on.  The key of an upload that may still be *)
(* taken back is nobody else's and unanswered for; a key with an intent has *)
(* no row yet; what is being completed has its object, and only a deletion  *)
(* takes the object of a key that was answered for.                         *)
KeysSound ==
  /\ \A q \in Requests : req[q].pc \in {"insert", "cleanup", "intent"} =>
       /\ req[q].key \in Keys \ (acked \cup intent)
       /\ \A r \in Requests \ {q} : req[r].key # req[q].key
       /\ req[q].pc # "cleanup" => upload[req[q].key] = "none"
       /\ req[q].pc = "insert" => object[req[q].key]
  /\ \A q \in Requests : req[q].pc \in {"complete", "evidence", "attach"} => req[q].key \in Keys
  /\ \A q \in Requests : req[q].pc = "attach" => upload[req[q].key] # "none"
  /\ \A q \in Requests : req[q].pc = "complete" /\ req[q].key \in intent => object[req[q].key]
  /\ \A k \in intent : upload[k] = "none"
  /\ \A k \in acked : upload[k] # "none" /\ (object[k] \/ k \in unclaimed)

(* What a deletion has listed has its row, which is nobody's once objects   *)
(* are being removed, and had no evidence then.                             *)
ListsSound == \A q \in Requests : \A k \in req[q].listed :
  /\ upload[k] # "none"
  /\ k \in unclaimed
  /\ req[q].pc = "remove" => upload[k] # "owned"

-----------------------------------------------------------------------------
(* A statement of the repository that this code breaks (README, section 4). *)

(* account_routes.js: the transaction preserves evidence-referenced objects *)
(* and only unreferenced uploads are removed.                               *)
EvidenceKeepsObject == \A k \in evidence \cap acked : object[k]
=============================================================================
