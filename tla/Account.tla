------------------------------ MODULE Account -------------------------------
(* What the API keeps of one user: sessions (Sessions), saved searches       *)
(* (SavedSearches), files and evidence (Uploads), notifications and their    *)
(* preferences (Notifications).  They share no state; a behaviour is of one  *)
(* of them, part, while the others stay as they began.  Notifications and    *)
(* saved searches come in several setups, each with users, requests and a    *)
(* store of its own.                                                         *)
EXTENDS Sessions

CONSTANTS NoteSetup,   \* by name: the channels, devices, workers and requests
          SearchSetup, \* by name: the users, names, uuids, texts, sql and requests
          Address, MaxNotes, MaxTries, MaxAttempts,
          Keys, FileRequests,
          Limit, MaxClock

VARIABLES part,
          pref, note, event, device, work, request, accepted, asked,
          account, object, url, intent, upload, evidence, fileReq, acked, unclaimed,
          rows, clock, searchReq, answer, saved

noteVars == <<pref, note, event, device, work, request, accepted, asked>>
fileVars == <<account, object, url, intent, upload, evidence, fileReq, acked, unclaimed>>
searchVars == <<rows, clock, searchReq, answer, saved>>

Dispatches(s) == INSTANCE Notifications WITH
  Channels <- s.channels, Devices <- s.devices, Workers <- s.workers, Requests <- s.requests
Files == INSTANCE Uploads WITH Requests <- FileRequests, req <- fileReq
Searches(s) == INSTANCE SavedSearches WITH
  Users <- s.users, Names <- s.names, Uuids <- s.uuids, Texts <- s.texts, Sql <- s.sql,
  Requests <- s.requests, req <- searchReq

ASSUME AccountAssumption ==
  /\ Files!UploadsAssumption
  /\ \A n \in DOMAIN NoteSetup : Dispatches(NoteSetup[n])!NotificationsAssumption
  /\ \A n \in DOMAIN SearchSetup : Searches(SearchSetup[n])!SavedSearchesAssumption
  /\ {"sessions", "files"} \cap (DOMAIN NoteSetup \cup DOMAIN SearchSetup) = {}
  /\ DOMAIN NoteSetup \cap DOMAIN SearchSetup = {}

Parts == {"sessions", "files"} \cup DOMAIN NoteSetup \cup DOMAIN SearchSetup

NotesBegin ==
  \/ \E n \in DOMAIN NoteSetup : part = n /\ Dispatches(NoteSetup[n])!Init
  \/ /\ part \notin DOMAIN NoteSetup
     /\ pref = <<>> /\ note = <<>> /\ event = <<>> /\ device = <<>> /\ work = <<>>
     /\ request = <<>> /\ accepted = {} /\ asked = <<>>
SearchesBegin ==
  \/ \E n \in DOMAIN SearchSetup : part = n /\ Searches(SearchSetup[n])!Init
  \/ /\ part \notin DOMAIN SearchSetup
     /\ rows = {} /\ clock = 0 /\ searchReq = <<>> /\ answer = <<>> /\ saved = <<>>

AccountInit == /\ part \in Parts
               /\ Init /\ (part # "sessions" => user.status = "NONE")
               /\ NotesBegin /\ Files!Init /\ SearchesBegin

allVars == <<part, vars, noteVars, fileVars, searchVars>>

Notifying(n) == part = n /\ Dispatches(NoteSetup[n])!Next
Searching(n) == part = n /\ Searches(SearchSetup[n])!Next
AccountNext ==
  \/ part = "sessions" /\ Next /\ UNCHANGED <<part, noteVars, fileVars, searchVars>>
  \/ (\E n \in DOMAIN NoteSetup : Notifying(n)) /\ UNCHANGED <<part, vars, fileVars, searchVars>>
  \/ part = "files" /\ Files!Next /\ UNCHANGED <<part, vars, noteVars, searchVars>>
  \/ (\E n \in DOMAIN SearchSetup : Searching(n)) /\ UNCHANGED <<part, vars, noteVars, fileVars>>

AccountSpec == AccountInit /\ [][AccountNext]_allVars

-----------------------------------------------------------------------------
OneAtATime(s) == \A q, r \in s.requests : q = r

(* A dispatch counted as delivered reached every target it had listed, and    *)
(* patches of the preferences that follow each other are all kept.            *)
NotificationsSound == \A n \in DOMAIN NoteSetup : part = n =>
  /\ Dispatches(NoteSetup[n])!TypeOK
  /\ Dispatches(NoteSetup[n])!ProcessedReachedAll
  /\ OneAtATime(NoteSetup[n]) => Dispatches(NoteSetup[n])!PatchesKept

(* A worker whose lease was taken over neither requeues nor dead-letters the  *)
(* event its successor is sending.                                            *)
StaleFailureHarmless ==
  [][\A n \in DOMAIN NoteSetup : part = n => Dispatches(NoteSetup[n])!StaleFailureStep]_allVars

(* A file whose upload was answered with success is in the store as long as   *)
(* it belongs to its user, and evidence keeps its object through the deletion *)
(* of the account, unless it came after what may be deleted was listed.       *)
FilesSound == Files!TypeOK /\ Files!AckedUploadStays /\ Files!OldEvidenceKept

(* However saves overlap, the trims leave a user at most the limit; and what  *)
(* a user saved last and did not delete is there, when requests follow each   *)
(* other, in the table and in the arrays.                                     *)
SearchesSound == \A n \in DOMAIN SearchSetup : part = n =>
  /\ Searches(SearchSetup[n])!TypeOK
  /\ SearchSetup[n].sql => Searches(SearchSetup[n])!StoreBounded
  /\ OneAtATime(SearchSetup[n]) => Searches(SearchSetup[n])!RecentKept
=============================================================================
