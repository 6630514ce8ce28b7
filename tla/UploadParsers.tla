--------------------------- MODULE UploadParsers ----------------------------
(* Multipart uploads of one process: http.js readMultipartSingleFile with    *)
(* its counting semaphore, and the part of the upload route and of           *)
(* storage.js that moves the file on.  The process runs one piece of         *)
(* JavaScript at a time, and before the next I/O completion is handled every *)
(* promise already resolved is continued.                                    *)
EXTENDS Integers, Sequences, FiniteSets

CONSTANTS Uploads,  \* requests with a multipart body
          Max,      \* config.maxConcurrentUploads
          Backend   \* config.storageBackend: "local" or "s3"

ASSUME UploadParsersAssumption ==
  /\ IsFiniteSet(Uploads) /\ Max \in Nat \ {0}
  /\ Backend \in {"local", "s3"}

VARIABLES pc,       \* where each request stands
          active,   \* activeUploadParsers
          waiters,  \* uploadWaiters: promises not yet resolved
          woken,    \* waiters resolved and not yet continued
          temp,     \* requests with an .incoming file on disk
          disk,     \* what STORAGE_DIR/key holds: nothing, the file, the body
          object    \* what the object store holds under the key

vars == <<pc, active, waiters, woken, temp, disk, object>>

Answered == {"stored", "failed"}
Content == {"none", "file", "body"}

Init ==
  /\ pc = [u \in Uploads |-> "new"]
  /\ active = 0 /\ waiters = <<>> /\ woken = <<>> /\ temp = {}
  /\ disk = [u \in Uploads |-> "none"] /\ object = [u \in Uploads |-> "none"]

Goto(u, l) == pc' = [pc EXCEPT ![u] = l]
IOCompletes == woken = <<>>

-----------------------------------------------------------------------------
OneMore == active <= Max   \* slip: off by one
FreeSlot == active < Max

(* The body arrives in a temporary file; too long or broken, it is removed. *)
Receive(u) ==
  /\ IOCompletes /\ pc[u] = "new"
  /\ temp' = temp \cup {u} /\ Goto(u, "receiving")
  /\ UNCHANGED <<active, waiters, woken, disk, object>>

ReceiveFails(u) ==
  /\ IOCompletes /\ pc[u] = "receiving"
  /\ temp' = temp \ {u} /\ Goto(u, "failed")
  /\ UNCHANGED <<active, waiters, woken, disk, object>>

AcquireUploadParser(u) ==
  /\ IOCompletes /\ pc[u] = "receiving"
  /\ IF FreeSlot
     THEN active' = active + 1 /\ Goto(u, "parsing") /\ UNCHANGED waiters
     ELSE waiters' = Append(waiters, u) /\ Goto(u, "waiting") /\ UNCHANGED active
  /\ UNCHANGED <<woken, temp, disk, object>>

(* The continuation of a waiter whose promise was resolved.                 *)
Continue ==
  /\ woken # <<>>
  /\ active' = active + 1 /\ Goto(Head(woken), "parsing") /\ woken' = Tail(woken)
  /\ UNCHANGED <<waiters, temp, disk, object>>

WakesNobody ==   \* slip: the next waiter is not resolved
  active' = active - 1 /\ UNCHANGED <<waiters, woken>>
ReleaseUploadParser ==
  /\ active' = IF active = 0 THEN 0 ELSE active - 1
  /\ IF waiters = <<>> THEN UNCHANGED <<waiters, woken>>
     ELSE waiters' = Tail(waiters) /\ woken' = Append(woken, Head(waiters))

(* The body is checked and cut to the file, which is written under its key. *)
ParseOk(u) ==
  /\ IOCompletes /\ pc[u] = "parsing"
  /\ disk' = [disk EXCEPT ![u] = "file"] /\ Goto(u, "parsed")
  /\ ReleaseUploadParser
  /\ UNCHANGED <<temp, object>>

TempStays(u) ==   \* slip: the refused body's file is not removed
  /\ IOCompletes /\ pc[u] = "parsing"
  /\ Goto(u, "failed") /\ ReleaseUploadParser
  /\ UNCHANGED <<temp, disk, object>>
ParseFails(u) ==
  /\ IOCompletes /\ pc[u] = "parsing"
  /\ temp' = temp \ {u} /\ Goto(u, "failed")
  /\ ReleaseUploadParser
  /\ UNCHANGED <<disk, object>>

(* storage.put is given the path of the temporary file, which the route     *)
(* removes afterwards whatever happened.                                    *)
Put(u) ==
  /\ IOCompletes /\ pc[u] = "parsed"
  /\ object' = [object EXCEPT ![u] = "body"]
  /\ disk' = IF Backend = "local" THEN [disk EXCEPT ![u] = "body"] ELSE disk
  /\ temp' = temp \ {u} /\ Goto(u, "stored")
  /\ UNCHANGED <<active, waiters, woken>>

PutFails(u) ==
  /\ IOCompletes /\ pc[u] = "parsed"
  /\ temp' = temp \ {u} /\ Goto(u, "failed")
  /\ UNCHANGED <<active, waiters, woken, disk, object>>

Handle(u) == ParseOk(u) \/ ParseFails(u) \/ Put(u) \/ PutFails(u)

Next == \/ Continue
        \/ \E u \in Uploads : \/ Receive(u) \/ ReceiveFails(u) \/ AcquireUploadParser(u)
                              \/ Handle(u)

(* Files on the local disk and calls of the object store come to an end;    *)
(* a client may stop sending.                                               *)
Spec == Init /\ [][Next]_vars /\ WF_vars(Continue) /\ \A u \in Uploads : WF_vars(Handle(u))

-----------------------------------------------------------------------------
Parsing == {u \in Uploads : pc[u] = "parsing"}

TypeOK ==
  /\ pc \in [Uploads -> {"new", "receiving", "waiting", "parsing", "parsed"} \cup Answered]
  /\ active \in Nat
  /\ waiters \in Seq(Uploads) /\ woken \in Seq(Uploads)
  /\ temp \subseteq Uploads /\ \A u \in temp : pc[u] \notin Answered
  /\ disk \in [Uploads -> Content] /\ object \in [Uploads -> Content]

(* http.js:10-21: never more than the configured number of bodies is held   *)
(* in memory at once, whatever newcomers come between a release and the     *)
(* continuation of the waiter it woke.                                      *)
ParsersBounded == Cardinality(Parsing) <= Max

(* A request waits only while every slot is taken or promised.              *)
NoIdleSlot == waiters # <<>> => active + Len(woken) = Max

(* All of the above in every state: no slot is used twice, and none is lost. *)
ParsersSound == TypeOK /\ ParsersBounded /\ NoIdleSlot

(* Nobody waits for ever: a slot is handed on in the order of arrival.      *)
WaitersServed == \A u \in Uploads : pc[u] = "waiting" ~> pc[u] \in Answered

-----------------------------------------------------------------------------
(* A statement of the repository that this code breaks (README, section 4). *)

(* backend/README.md: what is stored was validated.                         *)
StoredIsValidated == \A u \in Uploads : object[u] \in {"none", "file"}
=============================================================================
