---------------------------- MODULE RequestsProofs --------------------------
(* What holds of Requests for every set of requests, number of slots, setup *)
(* of the limiter and of the jobs, schema, payload, job, application and    *)
(* query.                                                                   *)
EXTENDS Requests, FiniteSetTheorems, SequenceTheorems, NaturalsInduction, WellFoundedInduction, TLAPS

-----------------------------------------------------------------------------
(***************************************************************************)
(* The upload parsers: every slot is held, promised or free.               *)
(***************************************************************************)
(* Every request in either queue waits, and stands there once; at most one  *)
(* waiter is between its promise and its continuation.                      *)
Queued ==
  /\ \A i \in 1..Len(waiters) : pc[waiters[i]] = "waiting"
  /\ \A i, j \in 1..Len(waiters) : i # j => waiters[i] # waiters[j]
  /\ Len(woken) <= 1
  /\ \A i \in 1..Len(woken) : /\ pc[woken[i]] = "waiting"
                              /\ \A j \in 1..Len(waiters) : waiters[j] # woken[i]

Slots ==
  /\ active = Cardinality(Parsing)
  /\ active + Len(woken) <= Max

ParsersInv == TypeOK /\ Queued /\ Slots /\ NoIdleSlot

(* Moving one request changes the number of parsed bodies by what it        *)
(* leaves and what it enters.                                               *)
LEMMA ParsingChanges ==
  ASSUME TypeOK, NEW u \in Uploads, NEW l, Goto(u, l)
  PROVE  /\ IsFiniteSet(Parsing) /\ Cardinality(Parsing) \in Nat
         /\ pc[u] = "parsing" /\ l # "parsing" =>
              Cardinality(Parsing') = Cardinality(Parsing) - 1 /\ Cardinality(Parsing) > 0
         /\ pc[u] # "parsing" /\ l = "parsing" => Cardinality(Parsing') = Cardinality(Parsing) + 1
         /\ pc[u] # "parsing" /\ l # "parsing" => Parsing' = Parsing
<1>0. IsFiniteSet(Uploads) BY UploadParsersAssumption DEF UploadParsersAssumption
<1>1. IsFiniteSet(Parsing) BY <1>0, FS_Subset DEF Parsing
<1>2. Cardinality(Parsing) \in Nat BY <1>1, FS_CardinalityType
<1>3. ASSUME pc[u] = "parsing", l # "parsing"
      PROVE  Cardinality(Parsing') = Cardinality(Parsing) - 1 /\ Cardinality(Parsing) > 0
  <2>1. Parsing' = Parsing \ {u} /\ u \in Parsing BY <1>3 DEF Parsing, Goto, TypeOK
  <2>2. Cardinality(Parsing \ {u}) = Cardinality(Parsing) - 1 BY <2>1, <1>1, FS_RemoveElement
  <2>3. Cardinality(Parsing) # 0 BY <2>1, <1>1, FS_EmptySet
  <2> QED BY <2>1, <2>2, <2>3, <1>2
<1>4. ASSUME pc[u] # "parsing", l = "parsing"
      PROVE  Cardinality(Parsing') = Cardinality(Parsing) + 1
  <2>1. Parsing' = Parsing \cup {u} /\ u \notin Parsing BY <1>4 DEF Parsing, Goto, TypeOK
  <2>2. Cardinality(Parsing \cup {u}) = Cardinality(Parsing) + 1 BY <2>1, <1>1, FS_AddElement
  <2> QED BY <2>1, <2>2
<1>5. ASSUME pc[u] # "parsing", l # "parsing" PROVE Parsing' = Parsing
  BY <1>5 DEF Parsing, Goto, TypeOK
<1> QED BY <1>1, <1>2, <1>3, <1>4, <1>5

(* A step that leaves the queues and the slots alone and moves a request    *)
(* that is in neither.                                                      *)
LEMMA MoveKeeps ==
  ASSUME ParsersInv, NEW u \in Uploads, NEW l, Goto(u, l), l # "parsing",
         pc[u] \notin {"waiting", "parsing"}, UNCHANGED <<active, waiters, woken>>
  PROVE  Queued' /\ Slots' /\ NoIdleSlot'
<1>1. Queued'
  <2>1. waiters' = waiters /\ woken' = woken /\ \A w \in Uploads : w # u => pc'[w] = pc[w]
    BY DEF ParsersInv, Goto, TypeOK
  <2>2. \A i \in 1..Len(waiters) : waiters[i] \in Uploads /\ waiters[i] # u
    BY DEF ParsersInv, Queued, TypeOK
  <2>3. \A i \in 1..Len(woken) : woken[i] \in Uploads /\ woken[i] # u
    BY DEF ParsersInv, Queued, TypeOK
  <2> QED BY <2>1, <2>2, <2>3 DEF ParsersInv, Queued
<1>2. Parsing' = Parsing BY ParsingChanges DEF ParsersInv
<1> QED BY <1>1, <1>2 DEF ParsersInv, Slots, NoIdleSlot

(* The one place where a slot changes hands.                                *)
LEMMA ReleaseKeeps ==
  ASSUME ParsersInv, IOCompletes, NEW u \in Uploads, NEW l, Goto(u, l), l # "parsing",
         pc[u] = "parsing", ReleaseUploadParser
  PROVE  Queued' /\ Slots' /\ NoIdleSlot' /\ active' \in Nat
         /\ waiters' \in Seq(Uploads) /\ woken' \in Seq(Uploads)
<1>0. /\ Max \in Nat /\ active \in Nat /\ waiters \in Seq(Uploads) /\ woken = <<>>
      /\ pc \in [Uploads -> {"new", "receiving", "waiting", "parsing", "parsed"} \cup Answered]
  BY UploadParsersAssumption DEF UploadParsersAssumption, ParsersInv, TypeOK, IOCompletes
<1>1. /\ Cardinality(Parsing) \in Nat /\ Cardinality(Parsing) > 0
      /\ Cardinality(Parsing') = Cardinality(Parsing) - 1
  BY ParsingChanges DEF ParsersInv
<1>2. active' = active - 1 /\ active > 0 /\ active' = Cardinality(Parsing')
  BY <1>0, <1>1 DEF ParsersInv, Slots, ReleaseUploadParser
<1>3. CASE waiters = <<>>
  <2>1. waiters' = <<>> /\ woken' = <<>> BY <1>0, <1>3 DEF ReleaseUploadParser
  <2>2. Len(woken') = 0 /\ Len(waiters') = 0 BY <2>1
  <2>3. active' <= Max BY <1>0, <1>2 DEF ParsersInv, Slots
  <2>4. Slots' BY <1>0, <1>2, <2>2, <2>3 DEF Slots
  <2>5. Queued' BY <2>2 DEF Queued
  <2> QED BY <1>0, <1>2, <2>1, <2>4, <2>5 DEF NoIdleSlot
<1>4. CASE waiters # <<>>
  <2>1. /\ waiters' = Tail(waiters) /\ woken' = <<Head(waiters)>>
        /\ Len(woken') = 1 /\ woken'[1] = waiters[1] /\ waiters' \in Seq(Uploads)
        /\ Len(waiters) > 0 /\ Len(waiters') = Len(waiters) - 1 /\ waiters[1] \in Uploads
        /\ \A i \in 1..Len(waiters') : waiters'[i] = waiters[i + 1]
    BY <1>0, <1>4, SMTT(30) DEF ReleaseUploadParser
  <2>2. active + Len(woken) = Max BY <1>4 DEF ParsersInv, NoIdleSlot
  <2>3. active = Max BY <1>0, <2>2
  <2>4. Slots' /\ NoIdleSlot' BY <1>0, <1>2, <2>1, <2>3 DEF Slots, NoIdleSlot
  <2>5. \A i \in 1..Len(waiters) : waiters[i] \in Uploads /\ pc'[waiters[i]] = "waiting"
    <3> SUFFICES ASSUME NEW i \in 1..Len(waiters)
                 PROVE  waiters[i] \in Uploads /\ pc'[waiters[i]] = "waiting"
      OBVIOUS
    <3>1. waiters[i] \in Uploads BY <1>0
    <3>2. pc[waiters[i]] = "waiting" BY DEF ParsersInv, Queued
    <3> QED BY <1>0, <3>1, <3>2 DEF Goto
  <2>6. \A i, j \in 1..Len(waiters) : i # j => waiters[i] # waiters[j] BY DEF ParsersInv, Queued
  <2>7. Queued' BY <1>0, <2>1, <2>5, <2>6 DEF Queued
  <2> QED BY <1>0, <1>2, <2>1, <2>4, <2>7
<1> QED BY <1>3, <1>4

LEMMA ParsersBegin == Init => ParsersInv
<1> SUFFICES ASSUME Init PROVE ParsersInv OBVIOUS
<1>1. TypeOK BY DEF Init, TypeOK, Content, Answered
<1>2. Parsing = {} BY DEF Init, Parsing
<1>3. Cardinality(Parsing) = 0 BY <1>2, FS_EmptySet
<1>4. Slots BY <1>3, UploadParsersAssumption DEF UploadParsersAssumption, Init, Slots
<1>5. Queued BY DEF Init, Queued
<1> QED BY <1>1, <1>4, <1>5 DEF ParsersInv, NoIdleSlot, Init

LEMMA ParsersStep == ParsersInv /\ [Next]_vars => ParsersInv'
<1> SUFFICES ASSUME ParsersInv, [Next]_vars PROVE ParsersInv' OBVIOUS
<1> USE DEF Answered, Content
<1>0. TypeOK /\ Max \in Nat /\ active \in Nat /\ Len(woken) \in Nat
  BY UploadParsersAssumption DEF UploadParsersAssumption, ParsersInv, TypeOK
<1>1. ASSUME NEW u \in Uploads, Receive(u) PROVE ParsersInv'
  <2>1. TypeOK' BY <1>0, <1>1 DEF TypeOK, Receive, Goto
  <2>2. Queued' /\ Slots' /\ NoIdleSlot' BY <1>1, MoveKeeps DEF Receive
  <2> QED BY <2>1, <2>2 DEF ParsersInv
<1>2. ASSUME NEW u \in Uploads, ReceiveFails(u) PROVE ParsersInv'
  <2>1. TypeOK' BY <1>0, <1>2 DEF TypeOK, ReceiveFails, Goto
  <2>2. Queued' /\ Slots' /\ NoIdleSlot' BY <1>2, MoveKeeps DEF ReceiveFails
  <2> QED BY <2>1, <2>2 DEF ParsersInv
<1>3. ASSUME NEW u \in Uploads, AcquireUploadParser(u) PROVE ParsersInv'
  <2>0. woken = <<>> /\ woken' = <<>> /\ waiters \in Seq(Uploads)
    BY <1>0, <1>3 DEF AcquireUploadParser, IOCompletes, TypeOK
  <2>1. CASE FreeSlot
    <3>1. TypeOK' BY <1>0, <1>3, <2>1 DEF TypeOK, AcquireUploadParser, Goto
    <3>2. active' = active + 1 /\ waiters' = waiters /\ Goto(u, "parsing") /\ active < Max
      BY <1>3, <2>1 DEF AcquireUploadParser, FreeSlot
    <3>3. pc[u] = "receiving" BY <1>3 DEF AcquireUploadParser
    <3>4. Cardinality(Parsing') = Cardinality(Parsing) + 1
      BY <1>0, <3>2, <3>3, ParsingChanges
    <3>5. Slots' BY <1>0, <2>0, <3>2, <3>4 DEF Slots, ParsersInv
    <3>6. waiters = <<>>
      <4> SUFFICES ASSUME waiters # <<>> PROVE FALSE OBVIOUS
      <4>1. active + Len(woken) = Max BY DEF ParsersInv, NoIdleSlot
      <4> QED BY <1>0, <2>0, <3>2, <4>1
    <3>7. Queued' /\ NoIdleSlot' BY <2>0, <3>2, <3>6 DEF Queued, NoIdleSlot
    <3> QED BY <3>1, <3>5, <3>7 DEF ParsersInv
  <2>2. CASE ~FreeSlot
    <3>0. Append(waiters, u) \in Seq(Uploads) BY <2>0
    <3>1. TypeOK'
      <4>1. active' \in Nat /\ waiters' \in Seq(Uploads) /\ woken' \in Seq(Uploads)
        BY <1>0, <1>3, <2>0, <2>2, <3>0 DEF AcquireUploadParser, TypeOK
      <4>2. /\ pc \in [Uploads -> {"new", "receiving", "waiting", "parsing", "parsed"} \cup Answered]
            /\ pc' = [pc EXCEPT ![u] = "waiting"] /\ temp' = temp /\ disk' = disk /\ object' = object
        BY <1>0, <1>3, <2>2 DEF AcquireUploadParser, TypeOK, Goto
      <4> QED BY <1>0, <4>1, <4>2 DEF TypeOK
    <3>2. active' = active /\ waiters' = Append(waiters, u) /\ Goto(u, "waiting") /\ pc[u] = "receiving"
      BY <1>3, <2>2 DEF AcquireUploadParser
    <3>3. Parsing' = Parsing BY <1>0, <3>2, ParsingChanges
    <3>4. Slots' BY <1>0, <2>0, <3>2, <3>3 DEF Slots, ParsersInv
    <3>5. active = Max BY <1>0, <2>0, <2>2 DEF FreeSlot, ParsersInv, Slots
    <3>6. /\ Len(waiters') = Len(waiters) + 1 /\ waiters'[Len(waiters) + 1] = u
          /\ \A i \in 1..Len(waiters) : waiters'[i] = waiters[i] /\ waiters[i] \in Uploads
      BY <2>0, <3>2
    <3>7. \A i \in 1..Len(waiters) : pc[waiters[i]] = "waiting" /\ waiters[i] # u
      BY <3>2 DEF ParsersInv, Queued
    <3>8. \A i \in 1..Len(waiters) : pc'[waiters[i]] = "waiting"
      BY <1>0, <3>2, <3>6, <3>7 DEF Goto, TypeOK
    <3>9. pc'[u] = "waiting" BY <1>0, <3>2 DEF Goto, TypeOK
    <3>10. \A i \in 1..Len(waiters') : pc'[waiters'[i]] = "waiting"
      BY <2>0, <3>6, <3>8, <3>9
    <3>11. \A i, j \in 1..Len(waiters) : i # j => waiters[i] # waiters[j] BY DEF ParsersInv, Queued
    <3>12. \A i, j \in 1..Len(waiters') : i # j => waiters'[i] # waiters'[j]
      BY <2>0, <3>6, <3>7, <3>11
    <3>13. Queued' BY <2>0, <3>10, <3>12 DEF Queued
    <3>14. NoIdleSlot' BY <1>0, <2>0, <3>2, <3>5 DEF NoIdleSlot
    <3> QED BY <3>1, <3>4, <3>13, <3>14 DEF ParsersInv
  <2> QED BY <2>1, <2>2
<1>4. ASSUME Continue PROVE ParsersInv'
  <2>0. /\ woken \in Seq(Uploads) /\ waiters \in Seq(Uploads) /\ woken # <<>> /\ Len(woken) <= 1
        /\ \A i \in 1..Len(woken) : /\ pc[woken[i]] = "waiting"
                                    /\ \A j \in 1..Len(waiters) : waiters[j] # woken[i]
    BY <1>0, <1>4 DEF Continue, ParsersInv, Queued, TypeOK
  <2>1. Len(woken) = 1 /\ Head(woken) = woken[1] /\ woken[1] \in Uploads /\ Tail(woken) = <<>>
    <3>1. woken \in Seq(Uploads) /\ woken # <<>> /\ Len(woken) <= 1 BY <2>0
    <3>2. Len(woken) \in Nat \ {0} BY <3>1, EmptySeq, Zenon
    <3>3. Len(woken) = 1
      <4>1. \A n \in Nat \ {0} : n <= 1 => n = 1 OBVIOUS
      <4> QED BY <3>1, <3>2, <4>1, Zenon
    <3>4. Tail(woken) \in Seq(Uploads) /\ Len(Tail(woken)) = 0 BY <3>1, <3>3
    <3>5. Tail(woken) = <<>>
      <4>1. Tail(woken) # <<>> => Len(Tail(woken)) \in Nat \ {0} BY <3>4, EmptySeq, Zenon
      <4> QED BY <3>4, <4>1
    <3>6. Head(woken) = woken[1] /\ woken[1] \in Uploads BY <3>1, <3>3
    <3> QED BY <3>3, <3>5, <3>6
  <2> DEFINE w == woken[1]
  <2>2. /\ active' = active + 1 /\ Goto(w, "parsing") /\ woken' = <<>> /\ waiters' = waiters
        /\ UNCHANGED <<temp, disk, object>>
    BY <1>4, <2>1 DEF Continue
  <2>3. pc[w] = "waiting" /\ \A j \in 1..Len(waiters) : waiters[j] # w BY <2>0, <2>1
  <2>4. w \in Uploads BY <2>1
  <2> HIDE DEF w
  <2>5. Cardinality(Parsing') = Cardinality(Parsing) + 1 BY <1>0, <2>2, <2>3, <2>4, ParsingChanges
  <2>6. TypeOK' BY <1>0, <2>0, <2>2, <2>3, <2>4 DEF TypeOK, Goto
  <2>7. active = Cardinality(Parsing) /\ active + 1 <= Max BY <1>0, <2>1 DEF ParsersInv, Slots
  <2>8. Slots' BY <1>0, <2>2, <2>5, <2>7 DEF Slots
  <2>9. \A i \in 1..Len(waiters) : waiters[i] \in Uploads /\ pc[waiters[i]] = "waiting"
    BY <2>0 DEF ParsersInv, Queued
  <2>10. \A i \in 1..Len(waiters) : pc'[waiters[i]] = "waiting"
    BY <1>0, <2>2, <2>3, <2>9 DEF Goto, TypeOK
  <2>11. Queued' BY <2>2, <2>10 DEF ParsersInv, Queued
  <2>12. NoIdleSlot' BY <1>0, <2>1, <2>2 DEF ParsersInv, NoIdleSlot
  <2> QED BY <2>6, <2>8, <2>11, <2>12 DEF ParsersInv
<1>5. ASSUME NEW u \in Uploads, ParseOk(u) PROVE ParsersInv'
  <2>1. /\ Queued' /\ Slots' /\ NoIdleSlot' /\ active' \in Nat
        /\ waiters' \in Seq(Uploads) /\ woken' \in Seq(Uploads)
    BY <1>5, ReleaseKeeps DEF ParseOk
  <2>2. TypeOK' BY <1>0, <1>5, <2>1 DEF TypeOK, ParseOk, Goto
  <2> QED BY <2>1, <2>2 DEF ParsersInv
<1>6. ASSUME NEW u \in Uploads, ParseFails(u) PROVE ParsersInv'
  <2>1. /\ Queued' /\ Slots' /\ NoIdleSlot' /\ active' \in Nat
        /\ waiters' \in Seq(Uploads) /\ woken' \in Seq(Uploads)
    BY <1>6, ReleaseKeeps DEF ParseFails
  <2>2. TypeOK' BY <1>0, <1>6, <2>1 DEF TypeOK, ParseFails, Goto
  <2> QED BY <2>1, <2>2 DEF ParsersInv
<1>7. ASSUME NEW u \in Uploads, Put(u) PROVE ParsersInv'
  <2>1. TypeOK' BY <1>0, <1>7 DEF TypeOK, Put, Goto
  <2>2. Queued' /\ Slots' /\ NoIdleSlot' BY <1>7, MoveKeeps DEF Put
  <2> QED BY <2>1, <2>2 DEF ParsersInv
<1>8. ASSUME NEW u \in Uploads, PutFails(u) PROVE ParsersInv'
  <2>1. TypeOK' BY <1>0, <1>8 DEF TypeOK, PutFails, Goto
  <2>2. Queued' /\ Slots' /\ NoIdleSlot' BY <1>8, MoveKeeps DEF PutFails
  <2> QED BY <2>1, <2>2 DEF ParsersInv
<1>9. CASE UNCHANGED vars
  BY <1>9 DEF vars, ParsersInv, TypeOK, Queued, Slots, NoIdleSlot, Parsing
<1> QED BY <1>1, <1>2, <1>3, <1>4, <1>5, <1>6, <1>7, <1>8, <1>9 DEF Next, Handle

-----------------------------------------------------------------------------
(***************************************************************************)
(* Posting and listing jobs.                                               *)
(***************************************************************************)
Rows(s) == [owner : s.users, kind : {"JOB", "MISSION"}, schedule : {"", "PART_TIME", "FULL_TIME"},
            salary : Int, deadline : {"", "day"}, min : Int, max : Int, duration : Int,
            category : Board(s)!References, status : {"DRAFT", "PUBLISHED"},
            visibility : {"PUBLIC", "SPECIALIZED"}]

(* What each of the checks of handleCreate looks for.                       *)
LEMMA ChecksAre ==
  ASSUME NEW s, NEW b
  PROVE  /\ 1 \in Board(s)!Failing(b) <=> (b.category = Board(s)!NoCategory \/ b.min = -1 \/ b.max = -1 \/ b.duration = -1)
         /\ 2 \in Board(s)!Failing(b) <=> (b.jobType \notin {"FIXED", "HOURLY", "TASK"})
         /\ 3 \in Board(s)!Failing(b) <=> (Board(s)!KindOf(b) \notin {"MISSION", "JOB"})
         /\ 4 \in Board(s)!Failing(b) <=> (b.visibility \notin {"", "PUBLIC", "SPECIALIZED"})
         /\ 5 \in Board(s)!Failing(b) <=> (b.schedule \notin {"", "PART_TIME", "FULL_TIME"})
         /\ 6 \in Board(s)!Failing(b) <=> (Board(s)!KindOf(b) = "JOB" /\ b.schedule = "")
         /\ 7 \in Board(s)!Failing(b) <=> (b.salary # -1 /\ ~Board(s)!IsMoney(b.salary))
         /\ 8 \in Board(s)!Failing(b) <=> (b.deadline # "" /\ b.deadline # "day")
         /\ 9 \in Board(s)!Failing(b) <=> (Board(s)!KindOf(b) = "JOB" /\ b.salary = -1)
         /\ 10 \in Board(s)!Failing(b) <=> (Board(s)!KindOf(b) = "JOB" /\ b.deadline = "")
         /\ 11 \in Board(s)!Failing(b) <=> (Board(s)!KindOf(b) = "MISSION" /\ (b.salary # -1 \/ b.deadline # "" \/ b.schedule # ""))
         /\ 12 \in Board(s)!Failing(b) <=> (~Board(s)!IsMoney(b.min) \/ ~Board(s)!IsMoney(b.max))
         /\ 13 \in Board(s)!Failing(b) <=> (~Board(s)!HoursOk(b.duration))
         /\ 14 \in Board(s)!Failing(b) <=> (b.max < b.min)
         /\ 15 \in Board(s)!Failing(b) <=> (b.category \notin Board(s)!References)
<1>1. 1 \in Board(s)!Failing(b) <=> (b.category = Board(s)!NoCategory \/ b.min = -1 \/ b.max = -1 \/ b.duration = -1)
  BY DEF Board!Failing, Board!Sent, Board!NotSent
<1>2. 2 \in Board(s)!Failing(b) <=> (b.jobType \notin {"FIXED", "HOURLY", "TASK"})
  BY DEF Board!Failing, Board!Enum
<1>3. 3 \in Board(s)!Failing(b) <=> (Board(s)!KindOf(b) \notin {"MISSION", "JOB"})
  BY DEF Board!Failing, Board!Enum
<1>4. 4 \in Board(s)!Failing(b) <=> (b.visibility \notin {"", "PUBLIC", "SPECIALIZED"})
  BY DEF Board!Failing, Board!Enum, Board!Nothing
<1>5. 5 \in Board(s)!Failing(b) <=> (b.schedule \notin {"", "PART_TIME", "FULL_TIME"})
  BY DEF Board!Failing, Board!Enum, Board!Nothing
<1>6. 6 \in Board(s)!Failing(b) <=> (Board(s)!KindOf(b) = "JOB" /\ b.schedule = "")
  BY DEF Board!Failing, Board!Nothing
<1>7. 7 \in Board(s)!Failing(b) <=> (b.salary # -1 /\ ~Board(s)!IsMoney(b.salary))
  BY DEF Board!Failing, Board!Sent, Board!NotSent
<1>8. 8 \in Board(s)!Failing(b) <=> (b.deadline # "" /\ b.deadline # "day")
  BY DEF Board!Failing, Board!Nothing, Board!IsDate
<1>9. 9 \in Board(s)!Failing(b) <=> (Board(s)!KindOf(b) = "JOB" /\ b.salary = -1)
  BY DEF Board!Failing, Board!Sent, Board!NotSent
<1>10. 10 \in Board(s)!Failing(b) <=> (Board(s)!KindOf(b) = "JOB" /\ b.deadline = "")
  BY DEF Board!Failing, Board!Nothing
<1>11. 11 \in Board(s)!Failing(b) <=> (Board(s)!KindOf(b) = "MISSION" /\ (b.salary # -1 \/ b.deadline # "" \/ b.schedule # ""))
  BY DEF Board!Failing, Board!JobOnlyFields, Board!Sent, Board!NotSent, Board!Nothing
<1>12. 12 \in Board(s)!Failing(b) <=> (~Board(s)!IsMoney(b.min) \/ ~Board(s)!IsMoney(b.max))
  BY DEF Board!Failing
<1>13. 13 \in Board(s)!Failing(b) <=> (~Board(s)!HoursOk(b.duration))
  BY DEF Board!Failing, Board!HoursOk
<1>14. 14 \in Board(s)!Failing(b) <=> (b.max < b.min)
  BY DEF Board!Failing, Board!BudgetOrder
<1>15. 15 \in Board(s)!Failing(b) <=> (b.category \notin Board(s)!References)
  BY DEF Board!Failing, Board!CategoryExists
<1> QED BY <1>1, <1>2, <1>3, <1>4, <1>5, <1>6, <1>7, <1>8, <1>9, <1>10, <1>11, <1>12, <1>13, <1>14, <1>15


LEMMA Passing ==
  ASSUME NEW s, NEW b, Board(s)!Failing(b) = {}
  PROVE  /\ b.min # -1 /\ b.max # -1 /\ b.duration # -1
         /\ Board(s)!KindOf(b) \in {"MISSION", "JOB"}
         /\ b.visibility \in {"", "PUBLIC", "SPECIALIZED"}
         /\ b.schedule \in {"", "PART_TIME", "FULL_TIME"}
         /\ b.deadline \in {"", "day"}
         /\ Board(s)!IsMoney(b.min) /\ Board(s)!IsMoney(b.max) /\ Board(s)!HoursOk(b.duration)
         /\ ~(b.max < b.min)
         /\ b.category \in Board(s)!References
         /\ Board(s)!KindOf(b) = "JOB" =>
              b.schedule # "" /\ Board(s)!IsMoney(b.salary) /\ b.deadline = "day"
         /\ Board(s)!KindOf(b) = "MISSION" =>
              b.schedule = "" /\ b.salary = -1 /\ b.deadline = ""
<1>1. \A n : n \notin Board(s)!Failing(b)
  OBVIOUS
<1> QED BY <1>1, ChecksAre

(* A form that the create page lets through fails a check of the server      *)
(* only for what the page does not look at.                                  *)
FromApp(s, b) == \E f \in s.appForms : Board(s)!AppAccepts(f) /\ b = Board(s)!BodyOf(f)

LEMMA HoursAre ==
  ASSUME NEW s, NEW h
  PROVE  Board(s)!HoursOk(h) => h \in Int /\ 1 <= h /\ h \in 1..Board(s)!MaxDuration
<1>1. Board(s)!MaxDuration \in Int
  BY DEF Board!MaxDuration
<1>2. \A m \in Int : h \in 1..m => h \in Int /\ 1 <= h
  OBVIOUS
<1> QED BY <1>1, <1>2 DEF Board!HoursOk

LEMMA MoneyIs ==
  ASSUME NEW s, NEW x
  PROVE  Board(s)!IsMoney(x) <=> x \in Int /\ 1 <= x /\ x <= 100
  BY DEF Board!IsMoney, Board!MaxMoney

LEMMA Ordered ==
  ASSUME NEW x \in Int, NEW y \in Int, 0 < x, x <= y
  PROVE  ~(y < x) /\ x # -1 /\ y # -1
  OBVIOUS

LEMMA PageChecks ==
  ASSUME NEW s, NEW b, Board(s)!JobFormAssumption, FromApp(s, b), Board(s)!Offered(b), ~Board(s)!Unchecked(b)
  PROVE  Board(s)!Failing(b) = {}
<1>1. PICK f \in s.appForms : Board(s)!AppAccepts(f) /\ b = Board(s)!BodyOf(f)
  BY DEF FromApp
<1>2. f.salary \in Int /\ f.min \in Int /\ f.max \in Int /\ f.duration \in Int
  BY DEF Board!JobFormAssumption
<1>3. /\ b.kind = f.kind /\ b.jobType \in {"FIXED", "HOURLY"} /\ b.category = f.category
      /\ b.kind = "JOB" => b.salary = f.salary /\ b.min = f.salary /\ b.max = f.salary /\ b.duration = 30
                             /\ b.deadline = f.deadline
      /\ b.kind # "JOB" => b.salary = -1 /\ b.min = f.min /\ b.max = f.max /\ b.duration = f.duration
                             /\ b.deadline = "" /\ b.schedule = ""
  BY <1>1 DEF Board!BodyOf, Board!Least, Board!Most, Board!Hours, Board!NotSent, Board!Nothing
<1>4. /\ b.kind \in {"JOB", "MISSION"}
      /\ b.kind = "JOB" => b.schedule \in {"PART_TIME", "FULL_TIME"}
      /\ b.visibility \in {"PUBLIC", "SPECIALIZED"} /\ b.deadline \in {"", "day"}
      /\ b.category \in Board(s)!References
      /\ b.min # -3 /\ b.max # -3 /\ b.salary # -3 /\ ~(b.max > 100)
  BY DEF Board!Offered, Board!Unchecked, Board!Nothing, Board!FineMoney, Board!MaxMoney
<1>5. /\ b.category # Board(s)!NoCategory
      /\ b.min \in Int /\ b.max \in Int /\ b.min > 0 /\ b.max > 0 /\ b.min <= b.max
      /\ b.kind = "JOB" => b.deadline # ""
  BY <1>1, <1>2, <1>3, <1>4
     DEF Board!AppAccepts, Board!Least, Board!Most, Board!Number, Board!Positive, Board!NotSent, Board!NotMoney,
         Board!FineMoney, Board!Nothing
<1>6. Board(s)!HoursOk(b.duration) /\ b.duration # -1
  <2>1. b.duration = Board(s)!Hours(f)
    BY <1>3 DEF Board!Hours
  <2>2. Board(s)!HoursOk(Board(s)!Hours(f))
    BY <1>1 DEF Board!AppAccepts
  <2>3. \A h : Board(s)!HoursOk(h) => h # -1
    BY HoursAre
  <2> QED BY <2>1, <2>2, <2>3
<1>7. Board(s)!IsMoney(b.min) /\ Board(s)!IsMoney(b.max) /\ (b.kind = "JOB" => Board(s)!IsMoney(b.salary))
  <2>1. \A x, y : x \in Int /\ y \in Int /\ x > 0 /\ y > 0 /\ x <= y /\ ~(y > 100) =>
          Board(s)!IsMoney(x) /\ Board(s)!IsMoney(y)
    BY MoneyIs
  <2>2. Board(s)!IsMoney(b.min) /\ Board(s)!IsMoney(b.max)
    BY <2>1, <1>4, <1>5
  <2>3. b.kind = "JOB" => b.salary = b.min
    BY <1>3
  <2> QED BY <2>2, <2>3
<1>8. Board(s)!KindOf(b) = b.kind
  BY <1>4 DEF Board!KindOf, Board!Nothing
<1>9. ~(b.max < b.min) /\ b.min # -1 /\ b.max # -1 /\ (b.kind = "JOB" => b.salary # -1)
  <2>1. ~(b.max < b.min) /\ b.min # -1 /\ b.max # -1
    BY <1>5, Ordered
  <2>2. b.kind = "JOB" => b.salary = b.min
    BY <1>3
  <2> QED BY <2>1, <2>2
<1>10. \A n \in 1..15 : n \notin Board(s)!Failing(b)
  <2>1. 1 \notin Board(s)!Failing(b) /\ 2 \notin Board(s)!Failing(b) /\ 3 \notin Board(s)!Failing(b)
    BY <1>3, <1>4, <1>5, <1>6, <1>8, <1>9, ChecksAre
  <2>2. 4 \notin Board(s)!Failing(b) /\ 5 \notin Board(s)!Failing(b) /\ 6 \notin Board(s)!Failing(b)
    BY <1>3, <1>4, <1>8, ChecksAre
  <2>3. 7 \notin Board(s)!Failing(b) /\ 8 \notin Board(s)!Failing(b) /\ 9 \notin Board(s)!Failing(b)
    BY <1>3, <1>4, <1>7, <1>8, <1>9, ChecksAre
  <2>4. 10 \notin Board(s)!Failing(b) /\ 11 \notin Board(s)!Failing(b) /\ 12 \notin Board(s)!Failing(b)
    BY <1>3, <1>4, <1>5, <1>7, <1>8, ChecksAre
  <2>5. 13 \notin Board(s)!Failing(b) /\ 14 \notin Board(s)!Failing(b) /\ 15 \notin Board(s)!Failing(b)
    BY <1>4, <1>6, <1>9, ChecksAre
  <2> QED BY <2>1, <2>2, <2>3, <2>4, <2>5
<1> QED BY <1>10 DEF Board!Failing

(* What passes has a sound row, which the table takes when its category is   *)
(* referred to by id.                                                        *)
LEMMA PassingIsSound ==
  ASSUME NEW s, NEW u \in s.users, NEW b, Board(s)!Failing(b) = {}
  PROVE  /\ Board(s)!Stored(u, b) \in Rows(s) /\ Board(s)!Sound(Board(s)!Stored(u, b))
         /\ Board(s)!Stored(u, b).owner = u
         /\ ~Board(s)!TableAccepts(Board(s)!Stored(u, b)) => b.category[1] = "slug"
<1> DEFINE j == Board(s)!Stored(u, b)
<1>1. /\ j.owner = u /\ j.kind = Board(s)!KindOf(b) /\ j.schedule = b.schedule /\ j.salary = b.salary
      /\ j.deadline = b.deadline /\ j.min = b.min /\ j.max = b.max /\ j.duration = b.duration
      /\ j.category = b.category /\ j.status = "DRAFT"
  BY DEF Board!Stored
<1>2. j.visibility = IF b.visibility = "" THEN "PUBLIC" ELSE b.visibility
  BY DEF Board!Stored, Board!Nothing
<1>3. j = [owner |-> j.owner, kind |-> j.kind, schedule |-> j.schedule, salary |-> j.salary,
           deadline |-> j.deadline, min |-> j.min, max |-> j.max, duration |-> j.duration,
           category |-> j.category, status |-> j.status, visibility |-> j.visibility]
  BY DEF Board!Stored
<1>4. /\ j.min \in Int /\ 1 <= j.min /\ j.max \in Int /\ j.min <= j.max
      /\ j.duration \in Int /\ 1 <= j.duration /\ j.salary \in Int
  <2>1. b.min \in Int /\ 1 <= b.min /\ b.max \in Int /\ 1 <= b.max
    BY Passing, MoneyIs
  <2>2. \A x, y : x \in Int /\ y \in Int /\ ~(y < x) => x <= y
    OBVIOUS
  <2>3. b.min <= b.max
    BY <2>1, <2>2, Passing
  <2>4. b.duration \in Int /\ 1 <= b.duration
    BY Passing, HoursAre
  <2>5. b.salary \in Int
    <3>1. CASE Board(s)!KindOf(b) = "JOB"
      BY <3>1, Passing, MoneyIs
    <3>2. CASE Board(s)!KindOf(b) = "MISSION"
      <4>1. b.salary = -1
        BY <3>2, Passing
      <4> QED BY <4>1
    <3> QED BY <3>1, <3>2, Passing
  <2> QED BY <1>1, <2>1, <2>3, <2>4, <2>5
<1>5. /\ j.kind \in {"JOB", "MISSION"} /\ j.schedule \in {"", "PART_TIME", "FULL_TIME"}
      /\ j.deadline \in {"", "day"} /\ j.category \in Board(s)!References
  <2>1. /\ Board(s)!KindOf(b) \in {"JOB", "MISSION"} /\ b.schedule \in {"", "PART_TIME", "FULL_TIME"}
        /\ b.category \in Board(s)!References
    BY Passing
  <2>2. b.deadline \in {"", "day"}
    BY Passing
  <2> QED BY ONLY <1>1, <2>1, <2>2
<1>6. j.visibility \in {"PUBLIC", "SPECIALIZED"}
  BY <1>2, Passing
<1>7. j \in Rows(s)
  <2> HIDE DEF j
  <2> QED BY <1>1, <1>3, <1>4, <1>5, <1>6 DEF Rows
<1>8. Board(s)!Sound(j)
  <2>1. Board(s)!IsMoney(j.min) /\ Board(s)!IsMoney(j.max) /\ j.duration \in 1..Board(s)!MaxDuration
    BY <1>1, Passing, HoursAre
  <2>2. \A x : Board(s)!IsMoney(x) => x # -1
    BY MoneyIs
  <2>3. ASSUME j.kind = "JOB"
        PROVE  j.schedule # "" /\ Board(s)!IsMoney(j.salary) /\ j.deadline = "day"
    <3>1. Board(s)!KindOf(b) = "JOB"
      BY <1>1, <2>3
    <3>2. b.schedule # "" /\ Board(s)!IsMoney(b.salary) /\ b.deadline = "day"
      BY <3>1, Passing
    <3> QED BY <1>1, <3>2
  <2>4. ASSUME j.kind = "MISSION"
        PROVE  j.schedule = "" /\ ~Board(s)!IsMoney(j.salary) /\ j.deadline = ""
    <3>1. Board(s)!KindOf(b) = "MISSION"
      BY <1>1, <2>4
    <3>2. b.schedule = "" /\ b.salary = -1 /\ b.deadline = ""
      BY <3>1, Passing
    <3> QED BY <1>1, <2>2, <3>2
  <2>5. j.min <= j.max
    BY <1>4
  <2> HIDE DEF j
  <2>6. /\ (j.kind = "JOB") <=> (j.schedule # "")
        /\ (j.kind = "JOB") <=> Board(s)!IsMoney(j.salary)
        /\ (j.kind = "JOB") <=> (j.deadline = "day")
    BY ONLY <1>5, <2>3, <2>4
  <2> QED BY <2>1, <2>5, <2>6 DEF Board!Sound, Board!Nothing
<1>9. ~Board(s)!TableAccepts(j) => b.category[1] = "slug"
  <2>1. \A c \in Board(s)!References : c[1] \in {"id", "slug"}
    BY DEF Board!References
  <2> HIDE DEF j
  <2>2. \A x, y : x \in Int /\ y \in Int /\ 1 <= x /\ x <= y => x > 0 /\ y >= x
    OBVIOUS
  <2>3. j.min > 0 /\ j.max >= j.min
    BY <2>2, <1>4
  <2>4. j.duration > 0
    BY <1>4
  <2> QED BY <1>1, <1>5, <2>1, <2>3, <2>4 DEF Board!TableAccepts
<1> QED BY <1>1, <1>7, <1>8, <1>9

-----------------------------------------------------------------------------
Handled(s, u) ==
  \/ request[u] = Board(s)!Idle
  \/ request[u].at = "posted" /\ (request[u].form = "app" => FromApp(s, request[u].body))
Heard(s, u) ==
  /\ answer[u].status \in {0, 201, 400, 500}
  /\ (answer[u].form = "app" /\ answer[u].status = 400 /\ Board(s)!Offered(answer[u].body)) =>
       Board(s)!Unchecked(answer[u].body)
  /\ answer[u].status = 500 => answer[u].body.category[1] = "slug"
Shown(u) == list[u].at # "none" =>
  /\ list[u].jobs \subseteq DOMAIN jobs
  /\ \A n \in list[u].jobs : jobs[n].status = "PUBLISHED" \/ jobs[n].owner = u
BoardInv(s) ==
  /\ jobs \in Seq(Rows(s)) /\ Board(s)!StoredIsSound
  /\ DOMAIN request = s.users /\ DOMAIN answer = s.users /\ DOMAIN list = s.users
  /\ \A u \in s.users : Handled(s, u) /\ Heard(s, u) /\ Shown(u)

LEMMA BoardBegins ==
  ASSUME NEW s, Board(s)!Init
  PROVE  BoardInv(s)
<1>1. jobs = <<>> /\ DOMAIN request = s.users /\ DOMAIN answer = s.users /\ DOMAIN list = s.users
  BY DEF Board!Init
<1>2. \A u \in s.users : /\ request[u] = Board(s)!Idle /\ list[u] = [at |-> "none"]
                         /\ answer[u] = [status |-> 0, code |-> "", form |-> "", body |-> ""]
  BY DEF Board!Init, Board!NoAnswer, Board!Nothing
<1>a. \A u \in s.users : answer[u].status = 0 /\ list[u].at = "none"
  <2>1. \A u \in s.users : answer[u].status = 0
    BY DEF Board!Init, Board!NoAnswer
  <2>2. \A u \in s.users : list[u].at = "none"
    BY DEF Board!Init
  <2> QED BY <2>1, <2>2
<1>3. Board(s)!StoredIsSound
  BY <1>1 DEF Board!StoredIsSound
<1>4. \A u \in s.users : Handled(s, u) /\ Heard(s, u) /\ Shown(u)
  <2>1. TAKE u \in s.users
  <2>2. Handled(s, u) /\ Shown(u)
    BY <1>2, <1>a DEF Handled, Shown
  <2>3. answer[u].status = 0
    BY <1>a
  <2>4. Heard(s, u)
    BY <2>3 DEF Heard
  <2> QED BY <2>2, <2>4
<1> QED BY <1>1, <1>3, <1>4 DEF BoardInv

(* A step that leaves the rows alone and changes what one user asks or is    *)
(* answered.                                                                 *)
LEMMA BoardKept ==
  ASSUME NEW s, BoardInv(s), NEW u \in s.users, NEW r, NEW a, UNCHANGED <<jobs, list>>,
         request' = [request EXCEPT ![u] = r], answer' = [answer EXCEPT ![u] = a],
         Handled(s, u)', Heard(s, u)'
  PROVE  BoardInv(s)'
<1>1. \A v \in s.users : v # u => request'[v] = request[v] /\ answer'[v] = answer[v]
  BY DEF BoardInv
<1>2. \A v \in s.users : Handled(s, v)' /\ Heard(s, v)'
  BY <1>1 DEF BoardInv, Handled, Heard
<1>3. \A v \in s.users : Shown(v)'
  BY DEF BoardInv, Shown
<1>4. Board(s)!StoredIsSound'
  BY DEF BoardInv, Board!StoredIsSound
<1> QED BY <1>2, <1>3, <1>4 DEF BoardInv

LEMMA PostKeeps ==
  ASSUME NEW s, BoardInv(s), NEW u \in s.users, NEW b, NEW f, Board(s)!Post(u, b, f), f = "app" => FromApp(s, b)
  PROVE  BoardInv(s)'
<1> DEFINE r == [at |-> "posted", body |-> b, form |-> f]
<1>1. /\ request' = [request EXCEPT ![u] = r] /\ answer' = [answer EXCEPT ![u] = Board(s)!NoAnswer]
      /\ UNCHANGED <<jobs, list>>
  BY DEF Board!Post
<1>2. r.at = "posted" /\ r.body = b /\ r.form = f
  OBVIOUS
<1>3. request'[u] = r /\ answer'[u] = Board(s)!NoAnswer
  BY <1>1 DEF BoardInv
<1> HIDE DEF r
<1>4. Handled(s, u)'
  BY <1>2, <1>3 DEF Handled
<1>5. Board(s)!NoAnswer.status = 0
  BY DEF Board!NoAnswer
<1>6. Heard(s, u)'
  BY <1>3, <1>5 DEF Heard
<1> QED BY <1>1, <1>4, <1>6, BoardKept

(* An answer that changes no row.                                            *)
LEMMA ReplyKeeps ==
  ASSUME NEW s, BoardInv(s), NEW u \in s.users, NEW status \in {400, 500}, NEW code, Board(s)!Reply(u, status, code),
         UNCHANGED <<jobs, list>>,
         status = 500 => request[u].body.category[1] = "slug",
         (status = 400 /\ request[u].form = "app" /\ Board(s)!Offered(request[u].body)) =>
           Board(s)!Unchecked(request[u].body)
  PROVE  BoardInv(s)'
<1> DEFINE a == [status |-> status, code |-> code, form |-> request[u].form, body |-> request[u].body]
<1>1. request' = [request EXCEPT ![u] = Board(s)!Idle] /\ answer' = [answer EXCEPT ![u] = a]
  BY DEF Board!Reply
<1>2. a.status = status /\ a.form = request[u].form /\ a.body = request[u].body
  OBVIOUS
<1>3. request'[u] = Board(s)!Idle /\ answer'[u] = a
  BY <1>1 DEF BoardInv
<1> HIDE DEF a
<1>4. Handled(s, u)'
  BY <1>3 DEF Handled
<1>5. Heard(s, u)'
  BY <1>2, <1>3 DEF Heard
<1> QED BY <1>1, <1>4, <1>5, BoardKept

LEMMA RefuseKeeps ==
  ASSUME NEW s, Board(s)!JobFormAssumption, BoardInv(s), NEW u \in s.users, Board(s)!Refuse(u)
  PROVE  BoardInv(s)'
<1>1. /\ request[u].at = "posted" /\ Board(s)!Failing(request[u].body) # {}
      /\ Board(s)!Reply(u, 400, Board(s)!Refusal(request[u].body)) /\ UNCHANGED <<jobs, list>>
  BY DEF Board!Refuse
<1>2. Board(s)!Idle.at = "idle"
  BY DEF Board!Idle
<1>3. request[u].form = "app" => FromApp(s, request[u].body)
  BY <1>1, <1>2 DEF BoardInv, Handled
<1>4. (request[u].form = "app" /\ Board(s)!Offered(request[u].body)) => Board(s)!Unchecked(request[u].body)
  BY <1>1, <1>3, PageChecks
<1> QED BY <1>1, <1>4, ReplyKeeps

LEMMA StoreKeeps ==
  ASSUME NEW s, BoardInv(s), NEW u \in s.users, Board(s)!Store(u)
  PROVE  BoardInv(s)'
<1> DEFINE b == request[u].body
           j == Board(s)!Stored(u, b)
<1>1. request[u].at = "posted" /\ Board(s)!Failing(b) = {} /\ UNCHANGED list
  BY DEF Board!Store
<1>2. j \in Rows(s) /\ Board(s)!Sound(j) /\ (~Board(s)!TableAccepts(j) => b.category[1] = "slug")
  BY <1>1, PassingIsSound
<1>3. CASE s.sql /\ ~Board(s)!TableAccepts(j)
  <2>1. Board(s)!Reply(u, 500, "INTERNAL_ERROR") /\ UNCHANGED jobs
    BY <1>3 DEF Board!Store
  <2> QED BY <1>1, <1>2, <1>3, <2>1, ReplyKeeps
<1>4. CASE ~(s.sql /\ ~Board(s)!TableAccepts(j))
  <2> DEFINE a == [status |-> 201, code |-> "", form |-> request[u].form, body |-> request[u].body]
  <2>1. /\ request' = [request EXCEPT ![u] = Board(s)!Idle] /\ answer' = [answer EXCEPT ![u] = a]
        /\ jobs' = Append(jobs, j)
    BY <1>4 DEF Board!Store, Board!Reply, Board!Nothing
  <2>2. a.status = 201
    OBVIOUS
  <2> HIDE DEF a, j
  <2>3. jobs \in Seq(Rows(s)) /\ Len(jobs) \in Nat /\ DOMAIN jobs = 1..Len(jobs)
    BY DEF BoardInv
  <2>4. /\ jobs' \in Seq(Rows(s)) /\ DOMAIN jobs' = 1..Len(jobs) + 1
        /\ \A n \in DOMAIN jobs : n \in DOMAIN jobs' /\ jobs'[n] = jobs[n]
        /\ \A n \in DOMAIN jobs' : n \in DOMAIN jobs \/ jobs'[n] = j
    BY <1>2, <2>1, <2>3
  <2>5. Board(s)!StoredIsSound'
    BY <1>2, <2>4 DEF BoardInv, Board!StoredIsSound
  <2>6. \A v \in s.users : Handled(s, v)' /\ Heard(s, v)'
    <3>1. request'[u] = Board(s)!Idle /\ answer'[u].status = 201
      BY <2>1, <2>2 DEF BoardInv
    <3>2. \A v \in s.users : v # u => request'[v] = request[v] /\ answer'[v] = answer[v]
      BY <2>1 DEF BoardInv
    <3>3. Handled(s, u)' /\ Heard(s, u)'
      BY <3>1 DEF Handled, Heard
    <3> QED BY <3>2, <3>3 DEF BoardInv, Handled, Heard
  <2>7. \A v \in s.users : Shown(v)'
    BY <1>1, <2>4 DEF BoardInv, Shown
  <2>8. DOMAIN request' = s.users /\ DOMAIN answer' = s.users /\ DOMAIN list' = s.users
    BY <1>1, <2>1 DEF BoardInv
  <2> QED BY <2>4, <2>5, <2>6, <2>7, <2>8 DEF BoardInv
<1> QED BY <1>3, <1>4

LEMMA PublishKeeps ==
  ASSUME NEW s, BoardInv(s), NEW u \in s.users, NEW n, Board(s)!Publish(u, n)
  PROVE  BoardInv(s)'
<1> DEFINE j == [jobs[n] EXCEPT !.status = "PUBLISHED"]
<1>1. /\ n \in DOMAIN jobs /\ jobs' = [jobs EXCEPT ![n] = j] /\ UNCHANGED <<request, answer, list>>
  BY DEF Board!Publish
<1>2. jobs \in Seq(Rows(s)) /\ jobs[n] \in Rows(s) /\ Board(s)!Sound(jobs[n])
  BY <1>1, ElementOfSeq DEF BoardInv, Board!StoredIsSound
<1>3. /\ j.status = "PUBLISHED" /\ j.owner = jobs[n].owner /\ j.kind = jobs[n].kind /\ j.schedule = jobs[n].schedule
      /\ j.salary = jobs[n].salary /\ j.deadline = jobs[n].deadline /\ j.min = jobs[n].min /\ j.max = jobs[n].max
      /\ j.duration = jobs[n].duration
  BY <1>2 DEF Rows
<1>4. j \in Rows(s)
  BY <1>2 DEF Rows
<1> HIDE DEF j
<1>5. Board(s)!Sound(j)
  BY <1>2, <1>3 DEF Board!Sound
<1>6. DOMAIN jobs' = DOMAIN jobs /\ jobs'[n] = j /\ \A m \in DOMAIN jobs : m # n => jobs'[m] = jobs[m]
  BY <1>1, <1>2
<1>7. jobs' \in Seq(Rows(s))
  BY <1>1, <1>2, <1>4, ExceptSeq
<1>8. Board(s)!StoredIsSound'
  BY <1>5, <1>6 DEF BoardInv, Board!StoredIsSound
<1>9. \A v \in s.users : Handled(s, v)' /\ Heard(s, v)' /\ Shown(v)'
  <2>1. TAKE v \in s.users
  <2>2. Handled(s, v)' /\ Heard(s, v)'
    BY <1>1 DEF BoardInv, Handled, Heard
  <2>3. Shown(v)'
    BY <1>1, <1>3, <1>6 DEF BoardInv, Shown
  <2> QED BY <2>2, <2>3
<1> QED BY <1>1, <1>7, <1>8, <1>9 DEF BoardInv

(* What is listed of the rows as they are.                                   *)
LEMMA ListKeeps ==
  ASSUME NEW s, BoardInv(s), NEW u \in s.users, NEW l, list' = [list EXCEPT ![u] = l],
         UNCHANGED <<jobs, request, answer>>,
         l.at # "none" => /\ l.jobs \subseteq DOMAIN jobs
                          /\ \A n \in l.jobs : jobs[n].status = "PUBLISHED" \/ jobs[n].owner = u
  PROVE  BoardInv(s)'
<1>1. list'[u] = l /\ \A v \in s.users : v # u => list'[v] = list[v]
  BY DEF BoardInv
<1>2. \A v \in s.users : Shown(v)'
  BY <1>1 DEF BoardInv, Shown
<1>3. \A v \in s.users : Handled(s, v)' /\ Heard(s, v)'
  BY DEF BoardInv, Handled, Heard
<1>4. Board(s)!StoredIsSound'
  BY DEF BoardInv, Board!StoredIsSound
<1> QED BY <1>2, <1>3, <1>4 DEF BoardInv

LEMMA BrowseKeeps ==
  ASSUME NEW s, BoardInv(s), NEW u \in s.users, NEW q, Board(s)!Browse(u, q)
  PROVE  BoardInv(s)'
<1> DEFINE J == {n \in Board(s)!Listed(u, q) : q.byApp => Board(s)!KeptByApp(jobs[n], q.category)}
           l == [at |-> "shown", query |-> q, jobs |-> J]
<1>1. list' = [list EXCEPT ![u] = l] /\ UNCHANGED <<jobs, request, answer>>
  BY DEF Board!Browse
<1>2. J \subseteq DOMAIN jobs /\ \A n \in J : jobs[n].status = "PUBLISHED" \/ jobs[n].owner = u
  BY DEF Board!Listed, Board!MayList, Board!Mine
<1> HIDE DEF J
<1>3. l.jobs = J
  OBVIOUS
<1> HIDE DEF l
<1> QED BY <1>1, <1>2, <1>3, ListKeeps

LEMMA BrowseMineKeeps ==
  ASSUME NEW s, BoardInv(s), NEW u \in s.users, Board(s)!BrowseMine(u)
  PROVE  BoardInv(s)'
<1> DEFINE J == {n \in DOMAIN jobs : Board(s)!Mine(jobs[n], u)}
           l == [at |-> "mine", jobs |-> J]
<1>1. list' = [list EXCEPT ![u] = l] /\ UNCHANGED <<jobs, request, answer>>
  BY DEF Board!BrowseMine
<1>2. J \subseteq DOMAIN jobs /\ \A n \in J : jobs[n].status = "PUBLISHED" \/ jobs[n].owner = u
  BY DEF Board!Mine
<1> HIDE DEF J
<1>3. l.jobs = J
  OBVIOUS
<1> HIDE DEF l
<1> QED BY <1>1, <1>2, <1>3, ListKeeps

LEMMA LeaveKeeps ==
  ASSUME NEW s, BoardInv(s), NEW u \in s.users, Board(s)!Leave(u)
  PROVE  BoardInv(s)'
<1> DEFINE l == [at |-> "none"]
<1>1. list' = [list EXCEPT ![u] = l] /\ UNCHANGED <<jobs, request, answer>> /\ l.at = "none"
  BY DEF Board!Leave
<1> HIDE DEF l
<1> QED BY <1>1, ListKeeps

LEMMA BoardStep ==
  ASSUME NEW s, Board(s)!JobFormAssumption, BoardInv(s), Board(s)!Next
  PROVE  BoardInv(s)'
<1>1. PICK u \in s.users :
        \/ \E f \in s.appForms : Board(s)!Submit(u, f)
        \/ \E b \in s.bodies : Board(s)!Post(u, b, "")
        \/ Board(s)!Refuse(u) \/ Board(s)!Store(u)
        \/ \E n \in 1..s.maxJobs : Board(s)!Publish(u, n)
        \/ \E q \in s.queries : Board(s)!Browse(u, q)
        \/ Board(s)!BrowseMine(u) \/ Board(s)!Leave(u)
  BY DEF Board!Next, Board!Nothing
<1>2. ASSUME NEW f \in s.appForms, Board(s)!Submit(u, f) PROVE BoardInv(s)'
  <2>1. Board(s)!AppAccepts(f) /\ Board(s)!Post(u, Board(s)!BodyOf(f), "app")
    BY <1>2 DEF Board!Submit
  <2> QED BY <2>1, PostKeeps DEF FromApp
<1>3. ASSUME NEW b \in s.bodies, Board(s)!Post(u, b, "") PROVE BoardInv(s)'
  BY <1>3, PostKeeps
<1> QED BY <1>1, <1>2, <1>3, RefuseKeeps, StoreKeeps, PublishKeeps, BrowseKeeps, BrowseMineKeeps, LeaveKeeps

LEMMA BoardIsSound ==
  ASSUME NEW s, BoardInv(s)
  PROVE  /\ Board(s)!TypeOK /\ Board(s)!StoredIsSound /\ Board(s)!NeverInternal
         /\ Board(s)!AppChecksEnough /\ Board(s)!ListsAreOwn
<1>1. Board(s)!TypeOK
  <2>1. jobs \in Seq(Rows(s))
    BY DEF BoardInv
  <2>2. \A u \in s.users : /\ request[u] = Board(s)!Idle \/ request[u].at = "posted"
                           /\ answer[u].status \in {0, 201, 400, 500}
                           /\ list[u].at # "none" => list[u].jobs \subseteq DOMAIN jobs
    BY DEF BoardInv, Handled, Heard, Shown
  <2> QED BY <2>1, <2>2 DEF Rows, Board!TypeOK, Board!Nothing
<1>2. Board(s)!NeverInternal /\ Board(s)!AppChecksEnough
  BY DEF BoardInv, Heard, Board!NeverInternal, Board!AppChecksEnough
<1>3. Board(s)!ListsAreOwn
  BY DEF BoardInv, Shown, Board!ListsAreOwn, Board!Mine
<1> QED BY <1>1, <1>2, <1>3 DEF BoardInv

(* Where a posted and a stored job got their category from.                  *)
Named(s) == {b.category : b \in s.appForms \cup s.bodies}
NamedInv(s) ==
  /\ \A u \in s.users : request[u].at = "posted" => request[u].body.category \in Named(s)
  /\ \A n \in DOMAIN jobs : jobs[n].category \in Named(s)

LEMMA NamedBegins ==
  ASSUME NEW s, Board(s)!Init
  PROVE  NamedInv(s)
<1>1. jobs = <<>> /\ \A u \in s.users : request[u].at = "idle"
  BY DEF Board!Init, Board!Idle
<1> QED BY <1>1 DEF NamedInv

LEMMA NamedStep ==
  ASSUME NEW s, BoardInv(s), NamedInv(s), Board(s)!Next \/ UNCHANGED formVars
  PROVE  NamedInv(s)'
<1>0. Board(s)!Idle.at = "idle"
  BY DEF Board!Idle
<1>1. ASSUME UNCHANGED <<jobs, request>> PROVE NamedInv(s)'
  BY <1>1 DEF NamedInv
<1>2. ASSUME NEW u \in s.users, NEW b, NEW f, b.category \in Named(s), Board(s)!Post(u, b, f)
      PROVE  NamedInv(s)'
  <2> DEFINE r == [at |-> "posted", body |-> b, form |-> f]
  <2>1. request' = [request EXCEPT ![u] = r] /\ jobs' = jobs /\ r.body = b
    BY <1>2 DEF Board!Post
  <2> HIDE DEF r
  <2>2. request'[u].body = b /\ \A v \in s.users : v # u => request'[v] = request[v]
    BY <2>1 DEF BoardInv
  <2> QED BY <1>2, <2>1, <2>2 DEF NamedInv
<1>3. ASSUME NEW u \in s.users, request' = [request EXCEPT ![u] = Board(s)!Idle]
      PROVE  \A v \in s.users : request'[v].at = "posted" => request'[v].body.category \in Named(s)
  <2>1. request'[u] = Board(s)!Idle /\ \A v \in s.users : v # u => request'[v] = request[v]
    BY <1>3 DEF BoardInv
  <2> QED BY <1>0, <2>1 DEF NamedInv
<1>4. ASSUME NEW u \in s.users, Board(s)!Refuse(u) PROVE NamedInv(s)'
  <2>1. request' = [request EXCEPT ![u] = Board(s)!Idle] /\ jobs' = jobs
    BY <1>4 DEF Board!Refuse, Board!Reply
  <2> QED BY <1>3, <2>1 DEF NamedInv
<1>5. ASSUME NEW u \in s.users, Board(s)!Store(u) PROVE NamedInv(s)'
  <2> DEFINE j == Board(s)!Stored(u, request[u].body)
  <2>1. request[u].at = "posted" /\ request' = [request EXCEPT ![u] = Board(s)!Idle]
        /\ (jobs' = jobs \/ jobs' = Append(jobs, j))
    BY <1>5 DEF Board!Store, Board!Reply
  <2>2. j.category \in Named(s)
    BY <2>1 DEF NamedInv, Board!Stored
  <2> HIDE DEF j
  <2>3. jobs \in Seq(Rows(s))
    BY DEF BoardInv
  <2>4. ASSUME NEW n \in DOMAIN jobs' PROVE jobs'[n].category \in Named(s)
    <3>1. (n \in DOMAIN jobs /\ jobs'[n] = jobs[n]) \/ jobs'[n] = j
      BY <2>1, <2>3, <2>4
    <3> QED BY <2>2, <3>1 DEF NamedInv
  <2> QED BY <1>3, <2>1, <2>4 DEF NamedInv
<1>6. ASSUME NEW u \in s.users, NEW n, Board(s)!Publish(u, n) PROVE NamedInv(s)'
  <2> DEFINE j == [jobs[n] EXCEPT !.status = "PUBLISHED"]
  <2>1. n \in DOMAIN jobs /\ jobs' = [jobs EXCEPT ![n] = j] /\ request' = request
    BY <1>6 DEF Board!Publish
  <2>2. jobs \in Seq(Rows(s)) /\ jobs[n] \in Rows(s)
    BY <2>1, ElementOfSeq DEF BoardInv
  <2>3. j.category = jobs[n].category
    BY <2>2 DEF Rows
  <2> HIDE DEF j
  <2>4. DOMAIN jobs' = DOMAIN jobs /\ \A m \in DOMAIN jobs : jobs'[m].category = jobs[m].category
    BY <2>1, <2>2, <2>3
  <2> QED BY <2>1, <2>4 DEF NamedInv
<1>7. ASSUME Board(s)!Next PROVE NamedInv(s)'
  <2>1. PICK u \in s.users :
          \/ \E f \in s.appForms : Board(s)!Submit(u, f)
          \/ \E b \in s.bodies : Board(s)!Post(u, b, "")
          \/ Board(s)!Refuse(u) \/ Board(s)!Store(u)
          \/ \E n \in 1..s.maxJobs : Board(s)!Publish(u, n)
          \/ \E q \in s.queries : Board(s)!Browse(u, q)
          \/ Board(s)!BrowseMine(u) \/ Board(s)!Leave(u)
    BY <1>7 DEF Board!Next, Board!Nothing
  <2>2. ASSUME NEW f \in s.appForms, Board(s)!Submit(u, f) PROVE NamedInv(s)'
    <3>1. Board(s)!BodyOf(f).category \in Named(s)
      BY DEF Board!BodyOf, Named
    <3> QED BY <1>2, <2>2, <3>1 DEF Board!Submit
  <2>3. ASSUME NEW b \in s.bodies, Board(s)!Post(u, b, "") PROVE NamedInv(s)'
    BY <1>2, <2>3 DEF Named
  <2>4. ASSUME NEW q, Board(s)!Browse(u, q) PROVE NamedInv(s)'
    BY <1>1, <2>4 DEF Board!Browse
  <2>5. ASSUME Board(s)!BrowseMine(u) PROVE NamedInv(s)'
    BY <1>1, <2>5 DEF Board!BrowseMine
  <2>6. ASSUME Board(s)!Leave(u) PROVE NamedInv(s)'
    BY <1>1, <2>6 DEF Board!Leave
  <2> QED BY <2>1, <2>2, <2>3, <2>4, <2>5, <2>6, <1>4, <1>5, <1>6
<1> QED BY <1>1, <1>7 DEF formVars

(* A reference to a category of the same name and way is the same reference. *)
LEMMA PickedMeans ==
  ASSUME NEW s, NEW c \in Board(s)!References, NEW d \in Board(s)!References, c[1] = d[1], c[2] = d[2]
  PROVE  c = d
  BY DEF Board!References

LEMMA PickedIsShown ==
  ASSUME NEW s, Board(s)!JobFormAssumption, BoardInv(s), NamedInv(s), Board(s)!OneWay
  PROVE  Board(s)!CategoryShowsItsJobs
<1> SUFFICES ASSUME NEW u \in s.users, NEW q \in s.queries, Board(s)!Browse(u, q), q.byApp, NEW n \in DOMAIN jobs,
                    jobs[n].status = "PUBLISHED", q.status = "PUBLISHED",
                    q.kind \in {Board(s)!Nothing, jobs[n].kind},
                    q.visibility \in {Board(s)!Nothing, jobs[n].visibility},
                    jobs[n].category[2] = q.category[2]
             PROVE  n \in list'[u].jobs
  BY DEF Board!CategoryShowsItsJobs
<1> DEFINE J == {m \in Board(s)!Listed(u, q) : q.byApp => Board(s)!KeptByApp(jobs[m], q.category)}
<1>1. list'[u].jobs = J
  BY DEF Board!Browse, BoardInv
<1>2. jobs[n].category \in Board(s)!References /\ jobs[n].category \in Named(s)
  <2>1. jobs \in Seq(Rows(s))
    BY DEF BoardInv
  <2>2. n \in DOMAIN jobs /\ DOMAIN jobs = 1..Len(jobs)
    BY <2>1
  <2>3. jobs[n] \in Rows(s)
    BY <2>1, <2>2, ElementOfSeq
  <2>4. jobs[n].category \in Board(s)!References
    BY <2>3 DEF Rows
  <2> QED BY <2>4 DEF NamedInv
<1>3. jobs[n].category # Board(s)!NoCategory
  <2>1. \A c \in Board(s)!References : c[1] \in {"id", "slug"}
    BY DEF Board!References
  <2>2. Board(s)!NoCategory[1] = "none"
    BY DEF Board!NoCategory
  <2> QED BY <1>2, <2>1, <2>2
<1>4. q.category = Board(s)!NoCategory \/ jobs[n].category = q.category
  <2>1. CASE q.category # Board(s)!NoCategory
    <3>1. q.category \in Board(s)!References
      BY <2>1 DEF Board!JobFormAssumption
    <3>2. PICK b \in s.appForms \cup s.bodies : jobs[n].category = b.category
      BY <1>2 DEF Named
    <3>3. b.category[1] = q.category[1]
      BY <1>3, <2>1, <3>2 DEF Board!OneWay
    <3> QED BY <1>2, <3>1, <3>2, <3>3, PickedMeans
  <2> QED BY <2>1
<1>5. Board(s)!OfCategory(jobs[n], q.category) /\ Board(s)!KeptByApp(jobs[n], q.category)
  BY <1>4 DEF Board!OfCategory, Board!KeptByApp
<1>6. Board(s)!MayList(jobs[n], q, u)
  BY DEF Board!MayList
<1>7. n \in Board(s)!Listed(u, q)
  BY <1>5, <1>6 DEF Board!Listed
<1> QED BY <1>1, <1>5, <1>7

-----------------------------------------------------------------------------
(***************************************************************************)
(* The limiter: sums of the log over stretches of time.                    *)
(***************************************************************************)
(* What Total counts.                                                        *)
LEMMA AdmittedIs ==
  ASSUME NEW s, NEW f, NEW a \in Int, NEW b \in Int, NEW e
  PROVE  e \in Limiter(s)!Admitted(f, a, b) <=>
           \E t \in Limiter(s)!Times : a <= t /\ t <= b /\ e \in {t} \X (1..f[t])
  BY DEF Limiter!Admitted

LEMMA TotalIs ==
  ASSUME NEW s, NEW f, NEW a, NEW b
  PROVE  Limiter(s)!Total(f, a, b) = Cardinality(Limiter(s)!Admitted(f, a, b))
  BY DEF Limiter!Total, Limiter!Cardinality, Cardinality

Counts(s) == [Limiter(s)!Times -> Nat]

LEMMA AdmittedFinite ==
  ASSUME NEW s, s.maxTime \in Nat, NEW f \in Counts(s), NEW a \in Int, NEW b \in Int
  PROVE  IsFiniteSet(Limiter(s)!Admitted(f, a, b))
<1> DEFINE U == {t \in Limiter(s)!Times : a <= t /\ t <= b}
           At(t) == {t} \X (1..f[t])
           T == {At(t) : t \in U}
           M == [t \in U |-> At(t)]
<1>1. IsFiniteSet(Limiter(s)!Times)
  BY FS_Interval DEF Limiter!Times
<1>2. IsFiniteSet(U)
  BY <1>1, FS_Subset
<1>3. \A t \in Limiter(s)!Times : IsFiniteSet(At(t))
  <2>1. TAKE t \in Limiter(s)!Times
  <2>2. f[t] \in Int
    BY DEF Counts
  <2>3. IsFiniteSet(1..f[t])
    BY <2>2, FS_Interval
  <2>4. IsFiniteSet({t})
    BY FS_Singleton
  <2> QED BY <2>3, <2>4, FS_Product
<1>4. M \in Surjection(U, T)
  BY DEF Surjection
<1>5. IsFiniteSet(T)
  BY <1>2, <1>4, FS_Surjection
<1>6. \A X \in T : IsFiniteSet(X)
  BY <1>3
<1>7. IsFiniteSet(UNION T)
  BY <1>5, <1>6, FS_UNION
<1>8. Limiter(s)!Admitted(f, a, b) = UNION T
  BY DEF Limiter!Admitted
<1> QED BY <1>7, <1>8

LEMMA TotalType ==
  ASSUME NEW s, s.maxTime \in Nat, NEW f \in Counts(s), NEW a \in Int, NEW b \in Int
  PROVE  Limiter(s)!Total(f, a, b) \in Nat
  BY AdmittedFinite, FS_CardinalityType, TotalIs

(* What was admitted from a to b was admitted from c to d, as far as there   *)
(* is anything, so that there is no more of it.                              *)
LEMMA TotalWithin ==
  ASSUME NEW s, s.maxTime \in Nat, NEW f \in Counts(s), NEW g \in Counts(s),
         NEW a \in Int, NEW b \in Int, NEW c \in Int, NEW d \in Int,
         \A t \in Limiter(s)!Times : (a <= t /\ t <= b /\ f[t] # 0) => (c <= t /\ t <= d /\ f[t] <= g[t])
  PROVE  Limiter(s)!Total(f, a, b) <= Limiter(s)!Total(g, c, d)
<1>1. Limiter(s)!Admitted(f, a, b) \subseteq Limiter(s)!Admitted(g, c, d)
  <2>1. SUFFICES ASSUME NEW e \in Limiter(s)!Admitted(f, a, b) PROVE e \in Limiter(s)!Admitted(g, c, d)
    OBVIOUS
  <2>2. PICK t \in Limiter(s)!Times : a <= t /\ t <= b /\ e \in {t} \X (1..f[t])
    BY <2>1, AdmittedIs
  <2>3. f[t] \in Nat /\ g[t] \in Nat
    BY DEF Counts
  <2>4. f[t] # 0
    BY <2>2, <2>3
  <2>5. c <= t /\ t <= d /\ f[t] <= g[t]
    BY <2>2, <2>4
  <2>6. e \in {t} \X (1..g[t])
    BY <2>2, <2>3, <2>5
  <2> QED BY <2>5, <2>6, AdmittedIs
<1> QED BY <1>1, AdmittedFinite, FS_Subset, TotalIs

(* One more.                                                                 *)
Risen(f, t) == [f EXCEPT ![t] = @ + 1]

LEMMA TotalUp ==
  ASSUME NEW s, s.maxTime \in Nat, NEW f \in Counts(s), NEW t \in Limiter(s)!Times, NEW a \in Int, NEW b \in Int,
         NEW g, g = Risen(f, t)
  PROVE  /\ g \in Counts(s)
         /\ (a <= t /\ t <= b) => Limiter(s)!Total(g, a, b) = Limiter(s)!Total(f, a, b) + 1
         /\ ~(a <= t /\ t <= b) => Limiter(s)!Total(g, a, b) = Limiter(s)!Total(f, a, b)
<1> DEFINE A == Limiter(s)!Admitted(f, a, b)
           B == Limiter(s)!Admitted(g, a, b)
           n == f[t] + 1
<1>1. f[t] \in Nat /\ g \in Counts(s) /\ g[t] = n /\ \A v \in Limiter(s)!Times : v # t => g[v] = f[v]
  BY DEF Counts, Risen
<1>2. ASSUME a <= t, t <= b PROVE B = A \cup {<<t, n>>}
  <2>1. ASSUME NEW e \in B PROVE e \in A \cup {<<t, n>>}
    <3>1. PICK v \in Limiter(s)!Times : a <= v /\ v <= b /\ e \in {v} \X (1..g[v])
      BY <2>1, AdmittedIs
    <3>2. CASE v # t
      BY <1>1, <3>1, <3>2, AdmittedIs
    <3>3. CASE v = t
      <4>1. PICK m \in 1..n : e = <<t, m>>
        BY <1>1, <3>1, <3>3
      <4>2. CASE m = n
        BY <4>1, <4>2
      <4>3. CASE m # n
        <5>1. m \in 1..f[t]
          BY <1>1, <4>3
        <5>2. e \in A
          BY <1>2, <4>1, <5>1, AdmittedIs
        <5> QED BY <5>2
      <4> QED BY <4>2, <4>3
    <3> QED BY <3>2, <3>3
  <2>2. ASSUME NEW e \in A PROVE e \in B
    <3>1. PICK v \in Limiter(s)!Times : a <= v /\ v <= b /\ e \in {v} \X (1..f[v])
      BY <2>2, AdmittedIs
    <3>2. CASE v # t
      BY <1>1, <3>1, <3>2, AdmittedIs
    <3>3. CASE v = t
      <4>1. e \in {t} \X (1..g[t])
        BY <1>1, <3>1, <3>3
      <4> QED BY <1>2, <4>1, AdmittedIs
    <3> QED BY <3>2, <3>3
  <2>3. <<t, n>> \in B
    <3>1. <<t, n>> \in {t} \X (1..g[t])
      BY <1>1
    <3> QED BY <1>2, <3>1, AdmittedIs
  <2> HIDE DEF A, B
  <2> QED BY <2>1, <2>2, <2>3
<1>3. <<t, n>> \notin A
  <2>1. SUFFICES ASSUME <<t, n>> \in A PROVE FALSE
    OBVIOUS
  <2>2. PICK v \in Limiter(s)!Times : <<t, n>> \in {v} \X (1..f[v])
    BY <2>1, AdmittedIs
  <2>3. v = t /\ n \in 1..f[t]
    BY <2>2
  <2> QED BY <1>1, <2>3
<1>4. ASSUME ~(a <= t /\ t <= b) PROVE A = B
  <2>1. \A v \in Limiter(s)!Times : a <= v /\ v <= b => v # t
    BY <1>4
  <2>2. ASSUME NEW e, NEW v \in Limiter(s)!Times, a <= v, v <= b
        PROVE  e \in {v} \X (1..f[v]) <=> e \in {v} \X (1..g[v])
    BY <1>1, <2>1, <2>2
  <2>3. \A e : e \in A <=> e \in B
    BY <2>2, AdmittedIs
  <2> HIDE DEF A, B
  <2> QED BY <2>3
<1>5. IsFiniteSet(A)
  BY AdmittedFinite
<1> HIDE DEF A, B, n
<1>6. IsFiniteSet(A \cup {<<t, n>>}) /\ Cardinality(A \cup {<<t, n>>}) = Cardinality(A) + 1
  BY <1>3, <1>5, FS_AddElement
<1>7. (a <= t /\ t <= b) => Cardinality(B) = Cardinality(A) + 1
  BY <1>2, <1>6
<1>8. ~(a <= t /\ t <= b) => Cardinality(B) = Cardinality(A)
  BY <1>4
<1> QED BY <1>1, <1>7, <1>8, TotalIs DEF A, B

LEMMA TotalUpIn ==
  ASSUME NEW s, s.maxTime \in Nat, NEW f \in Counts(s), NEW t \in Limiter(s)!Times, NEW a \in Int, NEW b \in Int,
         a <= t, t <= b
  PROVE  /\ Risen(f, t) \in Counts(s)
         /\ Limiter(s)!Total(Risen(f, t), a, b) = Limiter(s)!Total(f, a, b) + 1
  BY TotalUp

LEMMA TotalUpOut ==
  ASSUME NEW s, s.maxTime \in Nat, NEW f \in Counts(s), NEW t \in Limiter(s)!Times, NEW a \in Int, NEW b \in Int,
         ~(a <= t /\ t <= b)
  PROVE  Limiter(s)!Total(Risen(f, t), a, b) = Limiter(s)!Total(f, a, b)
  BY TotalUp

(* Nothing was admitted.                                                     *)
LEMMA NoneAdmitted ==
  ASSUME NEW s, NEW f \in Counts(s), NEW a \in Int, NEW b \in Int,
         \A t \in Limiter(s)!Times : a <= t /\ t <= b => f[t] = 0
  PROVE  Limiter(s)!Total(f, a, b) = 0
<1>1. Limiter(s)!Admitted(f, a, b) = {}
  <2>1. SUFFICES ASSUME NEW e \in Limiter(s)!Admitted(f, a, b) PROVE FALSE
    OBVIOUS
  <2>2. PICK t \in Limiter(s)!Times : a <= t /\ t <= b /\ e \in {t} \X (1..f[t])
    BY <2>1, AdmittedIs
  <2> QED BY <2>2
<1> QED BY <1>1, FS_EmptySet, TotalIs

LEMMA TotalRises ==
  ASSUME NEW s, s.maxTime \in Nat, NEW f \in Counts(s), NEW t \in Limiter(s)!Times, NEW a \in Int, NEW b \in Int,
         NEW g, g = Risen(f, t) \/ g = f
  PROVE  /\ g \in Counts(s)
         /\ Limiter(s)!Total(f, a, b) \in Nat /\ Limiter(s)!Total(g, a, b) \in Nat
         /\ Limiter(s)!Total(f, a, b) <= Limiter(s)!Total(g, a, b)
         /\ Limiter(s)!Total(g, a, b) <= Limiter(s)!Total(f, a, b) + 1
         /\ ~(a <= t /\ t <= b) => Limiter(s)!Total(g, a, b) = Limiter(s)!Total(f, a, b)
<1>1. g \in Counts(s)
  BY TotalUp
<1>2. Limiter(s)!Total(f, a, b) \in Nat /\ Limiter(s)!Total(g, a, b) \in Nat
  BY <1>1, TotalType
<1>3. /\ \/ Limiter(s)!Total(g, a, b) = Limiter(s)!Total(f, a, b)
         \/ Limiter(s)!Total(g, a, b) = Limiter(s)!Total(f, a, b) + 1
      /\ ~(a <= t /\ t <= b) => Limiter(s)!Total(g, a, b) = Limiter(s)!Total(f, a, b)
  BY TotalUp
<1> QED BY <1>1, <1>2, <1>3

-----------------------------------------------------------------------------
(* A window w at time t, f being what a check that counts in it has admitted *)
(* by then, and n a length that such windows surely last.  What the check    *)
(* admitted after the moment at which w began it admitted in w, within the   *)
(* count and its limit l; what it admitted in the n moments up to that one   *)
(* it admitted in w or in one window before, so within twice the limit.      *)
Upper(s, l, n, f, w, t) ==
  /\ w.count = 0 => Limiter(s)!Total(f, t - n + 1, t) <= l
  /\ w.count # 0 =>
       /\ Limiter(s)!Total(f, w.start + 1, t) <= w.count /\ Limiter(s)!Total(f, w.start + 1, t) <= l
       /\ Limiter(s)!Total(f, w.start - n + 1, t) <= l + w.count
       /\ Limiter(s)!Total(f, w.start - n + 1, t) <= 2 * l
Spread(s, l, n, f) == \A v \in Int : Limiter(s)!Total(f, v, v + n - 1) <= 2 * l
(* All that was admitted under the name, F, since w began is no less than    *)
(* what w has counted, up to the limit of one of the checks D that count.    *)
Lower(s, D, F, w, t) == w.count # 0 =>
  \/ Limiter(s)!Total(F, w.start, t) >= w.count
  \/ \E d \in D : Limiter(s)!Total(F, w.start, t) >= s.limit[d]
Still(s, f, t) == \A v \in Limiter(s)!Times : v > t => f[v] = 0

Windows(s) == [start : Limiter(s)!Times, count : Nat]

LEMMA TimesAre ==
  ASSUME NEW s, s.maxTime \in Nat, NEW t \in Limiter(s)!Times, NEW w \in Windows(s)
  PROVE  Limiter(s)!Times \subseteq Nat /\ t \in Nat /\ w.start \in Nat /\ w.count \in Nat
  BY DEF Limiter!Times, Windows

LEMMA UpperTick ==
  ASSUME NEW s, s.maxTime \in Nat, NEW l \in Nat, NEW n \in Int, NEW f \in Counts(s), NEW w \in Windows(s),
         NEW t \in Limiter(s)!Times, t + 1 \in Limiter(s)!Times, Still(s, f, t), Upper(s, l, n, f, w, t)
  PROVE  Upper(s, l, n, f, w, t + 1)
<1>1. Limiter(s)!Times \subseteq Nat /\ t \in Nat /\ w.start \in Nat /\ w.count \in Nat
  BY TimesAre
<1>2. \A v \in Limiter(s)!Times : f[v] <= f[v] /\ (v <= t + 1 /\ f[v] # 0 => v <= t)
  BY <1>1 DEF Counts, Still
<1>3. ASSUME NEW a \in Int, NEW b \in Int, b <= a
      PROVE  /\ Limiter(s)!Total(f, a, t + 1) <= Limiter(s)!Total(f, b, t)
             /\ Limiter(s)!Total(f, a, t + 1) \in Nat /\ Limiter(s)!Total(f, b, t) \in Nat
  <2>1. \A v \in Limiter(s)!Times : a <= v /\ v <= t + 1 /\ f[v] # 0 => b <= v /\ v <= t /\ f[v] <= f[v]
    BY <1>1, <1>2, <1>3
  <2>2. t + 1 \in Int /\ t \in Int
    BY <1>1
  <2> QED BY <1>3, <2>1, <2>2, TotalWithin, TotalType
<1>4. CASE w.count = 0
  <2>1. t + 1 - n + 1 \in Int /\ t - n + 1 \in Int /\ t - n + 1 <= t + 1 - n + 1
    BY <1>1
  <2>2. Limiter(s)!Total(f, t - n + 1, t) <= l
    BY <1>4 DEF Upper
  <2>3. /\ Limiter(s)!Total(f, t + 1 - n + 1, t + 1) <= Limiter(s)!Total(f, t - n + 1, t)
        /\ Limiter(s)!Total(f, t + 1 - n + 1, t + 1) \in Nat /\ Limiter(s)!Total(f, t - n + 1, t) \in Nat
    BY <1>3, <2>1
  <2>4. Limiter(s)!Total(f, t + 1 - n + 1, t + 1) <= l
    BY <1>1, <2>2, <2>3
  <2> QED BY <1>1, <1>4, <2>4 DEF Upper
<1>5. CASE w.count # 0
  <2>1. w.start + 1 \in Int /\ w.start - n + 1 \in Int
    BY <1>1
  <2>2. \A a \in Int : /\ Limiter(s)!Total(f, a, t + 1) <= Limiter(s)!Total(f, a, t)
                       /\ Limiter(s)!Total(f, a, t + 1) \in Nat /\ Limiter(s)!Total(f, a, t) \in Nat
    BY <1>3
  <2>3. /\ Limiter(s)!Total(f, w.start + 1, t) <= w.count /\ Limiter(s)!Total(f, w.start + 1, t) <= l
        /\ Limiter(s)!Total(f, w.start - n + 1, t) <= l + w.count
        /\ Limiter(s)!Total(f, w.start - n + 1, t) <= 2 * l
    BY <1>5 DEF Upper
  <2>4. \A k \in Nat, a \in Int : Limiter(s)!Total(f, a, t) <= k => Limiter(s)!Total(f, a, t + 1) <= k
    BY <2>2
  <2>5. l + w.count \in Nat /\ 2 * l \in Nat
    BY <1>1
  <2> QED BY <1>1, <1>5, <2>1, <2>3, <2>4, <2>5 DEF Upper
<1> QED BY <1>4, <1>5

(* A window that is cleared after it has lasted leaves no more than a limit. *)
LEMMA UpperClear ==
  ASSUME NEW s, s.maxTime \in Nat, NEW l \in Nat, NEW n \in Int, NEW f \in Counts(s), NEW w \in Windows(s),
         NEW t \in Limiter(s)!Times, t - w.start >= n, Upper(s, l, n, f, w, t)
  PROVE  Limiter(s)!Total(f, t - n + 1, t) <= l
<1>1. Limiter(s)!Times \subseteq Nat /\ t \in Nat /\ w.start \in Nat /\ w.count \in Nat
  BY TimesAre
<1>2. CASE w.count = 0
  BY <1>2 DEF Upper
<1>3. CASE w.count # 0
  <2>1. t - n + 1 \in Int /\ w.start + 1 \in Int /\ w.start + 1 <= t - n + 1 /\ t \in Int
    BY <1>1
  <2>2. \A v \in Limiter(s)!Times : t - n + 1 <= v /\ v <= t /\ f[v] # 0 => w.start + 1 <= v /\ v <= t /\ f[v] <= f[v]
    BY <1>1, <2>1 DEF Counts
  <2>3. Limiter(s)!Total(f, t - n + 1, t) <= Limiter(s)!Total(f, w.start + 1, t)
    BY <2>1, <2>2, TotalWithin
  <2>4. Limiter(s)!Total(f, t - n + 1, t) \in Nat /\ Limiter(s)!Total(f, w.start + 1, t) \in Nat
    BY <2>1, TotalType
  <2>5. Limiter(s)!Total(f, w.start + 1, t) <= l
    BY <1>3 DEF Upper
  <2> QED BY <2>3, <2>4, <2>5
<1> QED BY <1>2, <1>3

(* consumeKey and consumeLocal: a window begins, or counts on.               *)
LEMMA ConsumeIs ==
  ASSUME NEW s, s.maxTime \in Nat, NEW w \in Windows(s), now \in Limiter(s)!Times, w.start <= now, NEW length \in Nat \ {0},
         NEW v, v = Limiter(s)!Consume(w, length)
  PROVE  /\ v \in Windows(s) /\ v.start <= now /\ v.count # 0
         /\ \/ v.start = now /\ v.count = 1 /\ (w.count = 0 \/ now - w.start >= length)
            \/ v.start = w.start /\ v.count = w.count + 1 /\ w.count # 0 /\ now - w.start < length
<1>1. Limiter(s)!Times \subseteq Nat /\ now \in Nat /\ w.start \in Nat /\ w.count \in Nat
  BY TimesAre
<1>2. CASE w.count = 0 \/ now - w.start >= length
  <2>1. v = [start |-> now, count |-> 1]
    BY <1>2 DEF Limiter!Consume, Limiter!Expired
  <2> QED BY <1>1, <1>2, <2>1 DEF Windows
<1>3. CASE ~(w.count = 0 \/ now - w.start >= length)
  <2>1. v = [w EXCEPT !.count = @ + 1]
    BY <1>3 DEF Limiter!Consume, Limiter!Expired
  <2>2. v.start = w.start /\ v.count = w.count + 1 /\ v \in Windows(s)
    BY <2>1 DEF Windows
  <2> QED BY <1>1, <1>3, <2>2
<1> QED BY <1>2, <1>3

(* A check of the counter consumes, after at least n.                        *)
LEMMA UpperConsumes ==
  ASSUME NEW s, s.maxTime \in Nat, NEW l \in Nat \ {0}, NEW n \in Int, NEW f \in Counts(s), NEW w \in Windows(s),
         now \in Limiter(s)!Times, w.start <= now, NEW length \in Nat \ {0}, n <= length,
         Still(s, f, now), Upper(s, l, n, f, w, now),
         NEW v, v = Limiter(s)!Consume(w, length),
         NEW g, g = f \/ (g = Risen(f, now) /\ v.count <= l)
  PROVE  Upper(s, l, n, g, v, now)
<1>1. Limiter(s)!Times \subseteq Nat /\ now \in Nat /\ w.start \in Nat /\ w.count \in Nat
  BY TimesAre
<1>2. g = Risen(f, now) \/ g = f
  OBVIOUS
<1>3. \A a \in Int : /\ Limiter(s)!Total(f, a, now) \in Nat /\ Limiter(s)!Total(g, a, now) \in Nat
                     /\ Limiter(s)!Total(g, a, now) <= Limiter(s)!Total(f, a, now) + 1
  <2>1. TAKE a \in Int
  <2>2. now \in Int
    BY <1>1
  <2> QED BY <1>2, <2>2, TotalRises
<1>4. g \in Counts(s)
  <2>1. 0 \in Int
    OBVIOUS
  <2> QED BY <1>2, <2>1, TotalRises
<1>5. CASE v.start = now /\ v.count = 1 /\ (w.count = 0 \/ now - w.start >= length)
  <2>1. Limiter(s)!Total(f, now - n + 1, now) <= l
    <3>1. CASE w.count = 0
      BY <3>1 DEF Upper
    <3>2. CASE now - w.start >= length
      <4>1. now - w.start >= n
        BY <1>1, <3>2
      <4> QED BY <4>1, UpperClear
    <3> QED BY <1>5, <3>1, <3>2
  <2>2. now - n + 1 \in Int /\ now + 1 \in Int /\ now \in Int
    BY <1>1
  <2>3. Limiter(s)!Total(g, now + 1, now) = 0
    <3>1. \A t \in Limiter(s)!Times : now + 1 <= t /\ t <= now => g[t] = 0
      BY <1>1
    <3> QED BY <1>4, <2>2, <3>1, NoneAdmitted
  <2>4. Limiter(s)!Total(g, now - n + 1, now) <= l + 1 /\ Limiter(s)!Total(g, now - n + 1, now) <= 2 * l
    BY <1>3, <2>1, <2>2
  <2>5. 0 <= 1 /\ 0 <= l /\ v.count # 0
    BY <1>5
  <2> QED BY <1>5, <2>3, <2>4, <2>5 DEF Upper
<1>6. CASE v.start = w.start /\ v.count = w.count + 1 /\ w.count # 0
  <2>1. /\ Limiter(s)!Total(f, w.start + 1, now) <= w.count /\ Limiter(s)!Total(f, w.start + 1, now) <= l
        /\ Limiter(s)!Total(f, w.start - n + 1, now) <= l + w.count
        /\ Limiter(s)!Total(f, w.start - n + 1, now) <= 2 * l
    BY <1>6 DEF Upper
  <2>2. w.start + 1 \in Int /\ w.start - n + 1 \in Int
    BY <1>1
  <2>3. v.count # 0
    BY <1>1, <1>6
  <2>4. /\ Limiter(s)!Total(g, w.start + 1, now) <= v.count /\ Limiter(s)!Total(g, w.start + 1, now) <= l
        /\ Limiter(s)!Total(g, w.start - n + 1, now) <= l + v.count
        /\ Limiter(s)!Total(g, w.start - n + 1, now) <= 2 * l
    <3>1. CASE g = f
      BY <1>1, <1>3, <1>6, <2>1, <2>2, <3>1
    <3>2. CASE g = Risen(f, now) /\ v.count <= l
      BY <1>1, <1>3, <1>6, <2>1, <2>2, <3>2
    <3> QED BY <3>1, <3>2
  <2> QED BY <1>6, <2>3, <2>4 DEF Upper
<1> QED BY <1>5, <1>6, ConsumeIs

(* A stretch of n that has not ended begins no more than n before the window *)
(* that is on.                                                               *)
LEMMA SpreadUp ==
  ASSUME NEW s, s.maxTime \in Nat, NEW l \in Nat, NEW n \in Int, NEW f \in Counts(s), NEW w \in Windows(s),
         NEW t \in Limiter(s)!Times, NEW g, g = Risen(f, t) \/ g = f, Spread(s, l, n, f), Still(s, g, t),
         w.start <= t, w.count # 0, Upper(s, l, n, g, w, t)
  PROVE  Spread(s, l, n, g)
<1>1. Limiter(s)!Times \subseteq Nat /\ t \in Nat /\ w.start \in Nat
  BY TimesAre
<1>2. g \in Counts(s)
  <2>1. 0 \in Int
    OBVIOUS
  <2> QED BY <2>1, TotalRises
<1>3. Limiter(s)!Total(g, w.start - n + 1, t) <= 2 * l
  BY DEF Upper
<1>4. ASSUME NEW x \in Int PROVE Limiter(s)!Total(g, x, x + n - 1) <= 2 * l
  <2>1. x + n - 1 \in Int /\ w.start - n + 1 \in Int /\ t \in Int
    BY <1>1
  <2>2. CASE ~(x <= t /\ t <= x + n - 1)
    <3>1. Limiter(s)!Total(g, x, x + n - 1) = Limiter(s)!Total(f, x, x + n - 1)
      BY <2>1, <2>2, TotalRises
    <3> QED BY <3>1 DEF Spread
  <2>3. CASE x <= t /\ t <= x + n - 1
    <3>1. w.start - n + 1 <= x
      BY <1>1, <2>3
    <3>2. \A y \in Limiter(s)!Times : x <= y /\ y <= x + n - 1 /\ g[y] # 0
                                        => w.start - n + 1 <= y /\ y <= t /\ g[y] <= g[y]
      <4>1. TAKE y \in Limiter(s)!Times
      <4>2. g[y] \in Nat /\ y \in Nat /\ (g[y] # 0 => ~(y > t))
        BY <1>1, <1>2 DEF Counts, Still
      <4> QED BY <1>1, <2>1, <3>1, <4>2
    <3>3. Limiter(s)!Total(g, x, x + n - 1) <= Limiter(s)!Total(g, w.start - n + 1, t)
      BY <1>2, <2>1, <3>2, TotalWithin
    <3>4. Limiter(s)!Total(g, x, x + n - 1) \in Nat /\ Limiter(s)!Total(g, w.start - n + 1, t) \in Nat
      BY <1>2, <2>1, TotalType
    <3> QED BY <1>3, <3>3, <3>4
  <2> QED BY <2>2, <2>3
<1> QED BY <1>4 DEF Spread

-----------------------------------------------------------------------------
LEMMA LowerTick ==
  ASSUME NEW s, s.maxTime \in Nat, NEW D, \A d \in D : s.limit[d] \in Nat, NEW f \in Counts(s), NEW w \in Windows(s),
         NEW t \in Limiter(s)!Times, Lower(s, D, f, w, t)
  PROVE  Lower(s, D, f, w, t + 1)
<1>1. Limiter(s)!Times \subseteq Nat /\ t \in Nat /\ w.start \in Nat /\ w.count \in Nat
  BY TimesAre
<1>2. t \in Int /\ t + 1 \in Int /\ w.start \in Int
  BY <1>1
<1>3. \A v \in Limiter(s)!Times : w.start <= v /\ v <= t /\ f[v] # 0 => w.start <= v /\ v <= t + 1 /\ f[v] <= f[v]
  BY <1>1 DEF Counts
<1>4. Limiter(s)!Total(f, w.start, t) <= Limiter(s)!Total(f, w.start, t + 1)
  BY <1>2, <1>3, TotalWithin
<1>5. Limiter(s)!Total(f, w.start, t) \in Nat /\ Limiter(s)!Total(f, w.start, t + 1) \in Nat
  BY <1>2, TotalType
<1>6. \A k \in Nat : Limiter(s)!Total(f, w.start, t) >= k => Limiter(s)!Total(f, w.start, t + 1) >= k
  BY <1>4, <1>5
<1> QED BY <1>1, <1>6 DEF Lower

(* A check e of the counter consumes; where it refuses, a limit is used up.  *)
LEMMA LowerConsumes ==
  ASSUME NEW s, s.maxTime \in Nat, NEW D, NEW e \in D, \A d \in D : s.limit[d] \in Nat \ {0},
         s.window[e] \in Nat \ {0}, NEW f \in Counts(s), NEW w \in Windows(s),
         now \in Limiter(s)!Times, w.start <= now, Lower(s, D, f, w, now),
         NEW v, v = Limiter(s)!Consume(w, s.window[e]),
         NEW g, g = IF v.count <= s.limit[e] THEN Risen(f, now) ELSE f
  PROVE  /\ Lower(s, D, g, v, now)
         /\ ~(v.count <= s.limit[e]) => \E d \in D : Limiter(s)!Total(g, now - s.window[e] + 1, now) >= s.limit[d]
<1>1. Limiter(s)!Times \subseteq Nat /\ now \in Nat /\ w.start \in Nat /\ w.count \in Nat
  BY TimesAre
<1>2. now \in Int /\ w.start \in Int /\ now <= now
  BY <1>1
<1>3. g \in Counts(s)
  BY <1>2, TotalRises
<1>4. CASE v.start = now /\ v.count = 1
  <2>1. v.count <= s.limit[e] /\ g = Risen(f, now)
    BY <1>4
  <2>2. Limiter(s)!Total(g, now, now) = Limiter(s)!Total(f, now, now) + 1 /\ Limiter(s)!Total(f, now, now) \in Nat
    BY <1>2, <2>1, TotalUpIn, TotalType
  <2> QED BY <1>4, <2>1, <2>2 DEF Lower
<1>5. CASE v.start = w.start /\ v.count = w.count + 1 /\ w.count # 0 /\ now - w.start < s.window[e]
  <2>1. /\ Limiter(s)!Total(f, w.start, now) \in Nat /\ Limiter(s)!Total(g, w.start, now) \in Nat
    BY <1>2, <1>3, TotalType
  <2>2. \/ Limiter(s)!Total(f, w.start, now) >= w.count
        \/ \E d \in D : Limiter(s)!Total(f, w.start, now) >= s.limit[d]
    BY <1>5 DEF Lower
  <2>3. CASE v.count <= s.limit[e]
    <3>1. Limiter(s)!Total(g, w.start, now) = Limiter(s)!Total(f, w.start, now) + 1
      BY <1>2, <2>3, TotalUpIn
    <3>2. \A d \in D : Limiter(s)!Total(f, w.start, now) >= s.limit[d] => Limiter(s)!Total(g, w.start, now) >= s.limit[d]
      BY <2>1, <3>1
    <3>3. Limiter(s)!Total(f, w.start, now) >= w.count => Limiter(s)!Total(g, w.start, now) >= v.count
      BY <1>1, <1>5, <2>1, <3>1
    <3> QED BY <1>5, <2>2, <2>3, <3>2, <3>3 DEF Lower
  <2>4. CASE ~(v.count <= s.limit[e])
    <3>1. g = f
      BY <2>4
    <3>2. Limiter(s)!Total(f, w.start, now) >= w.count => Limiter(s)!Total(g, w.start, now) >= s.limit[e]
      BY <1>1, <1>5, <2>1, <2>4, <3>1
    <3>3. PICK d \in D : Limiter(s)!Total(g, w.start, now) >= s.limit[d]
      BY <2>2, <3>1, <3>2
    <3>4. now - s.window[e] + 1 \in Int /\ now - s.window[e] + 1 <= w.start
      BY <1>1, <1>5
    <3>5. \A x \in Limiter(s)!Times : w.start <= x /\ x <= now /\ g[x] # 0
                                       => now - s.window[e] + 1 <= x /\ x <= now /\ g[x] <= g[x]
      BY <1>1, <1>3, <3>4 DEF Counts
    <3>6. Limiter(s)!Total(g, w.start, now) <= Limiter(s)!Total(g, now - s.window[e] + 1, now)
      BY <1>2, <1>3, <3>4, <3>5, TotalWithin
    <3>7. Limiter(s)!Total(g, now - s.window[e] + 1, now) \in Nat /\ s.limit[d] \in Nat
      BY <1>2, <1>3, <3>4, TotalType
    <3>8. Limiter(s)!Total(g, now - s.window[e] + 1, now) >= s.limit[d]
      BY <2>1, <3>3, <3>6, <3>7
    <3> QED BY <1>5, <3>3, <3>8 DEF Lower
  <2> QED BY <2>3, <2>4
<1> QED BY <1>4, <1>5, ConsumeIs

-----------------------------------------------------------------------------
CheckNames == {"auth", "general", "health"}
Counters == {"auth", "general"}
AllWindows(s) == [Limiter(s)!Stores -> [Counters -> Windows(s)]]
AllLogs(s) == [Limiter(s)!Stores -> [CheckNames -> Counts(s)]]
Begun(s, ws) == \A x \in Limiter(s)!Stores, k \in Counters : ws[x][k].start <= now

LEMMA SetupIs ==
  ASSUME NEW s, Limiter(s)!RateLimitsAssumption
  PROVE  /\ \A c \in CheckNames : s.limit[c] \in Nat \ {0} /\ s.window[c] \in Nat \ {0}
         /\ s.cleanupAge \in Nat
         /\ s.maxTime \in Nat /\ s.perTick \in Nat /\ s.store \in {"postgres", "memory"}
         /\ s.traffic \subseteq {"auth", "other", "health"}
         /\ Limiter(s)!Counters = Counters /\ Limiter(s)!Checks = CheckNames
         /\ Limiter(s)!Times \subseteq Nat /\ 0 \in Limiter(s)!Times
  BY DEF Limiter!RateLimitsAssumption, Limiter!Checks, Limiter!Counters, CheckNames, Counters, Limiter!Times

LEMMA TypesAre ==
  ASSUME NEW s, Limiter(s)!RateLimitsAssumption
  PROVE  Limiter(s)!TypeOK <=>
           /\ now \in Limiter(s)!Times /\ left \in 0..s.perTick /\ refused \in CheckNames \cup {"none"}
           /\ window \in AllWindows(s) /\ log \in AllLogs(s) /\ Begun(s, window)
  BY SetupIs DEF Limiter!TypeOK, AllWindows, AllLogs, Windows, Counts, Begun

LEMMA TypesStay ==
  ASSUME NEW s, Limiter(s)!RateLimitsAssumption, now \in Limiter(s)!Times, now' = now, left' \in 0..s.perTick,
         refused' \in CheckNames \cup {"none"}, window' \in AllWindows(s), Begun(s, window'), log' \in AllLogs(s)
  PROVE  Limiter(s)!TypeOK'
  BY SetupIs DEF Limiter!TypeOK, AllWindows, AllLogs, Windows, Counts, Begun

(* Which checks count where.                                                 *)
LEMMA CountersAre ==
  ASSUME NEW s
  PROVE  /\ Limiter(s)!CounterOf("auth") = "auth" /\ Limiter(s)!CounterOf("general") = "general"
         /\ Limiter(s)!CounterOf("health") = "general"
         /\ \A c \in CheckNames : Limiter(s)!CounterOf(c) \in Counters
         /\ \A k \in Counters : k \in CheckNames /\ Limiter(s)!CounterOf(k) = k /\ k \in Limiter(s)!Sharing(k)
         /\ \A c \in CheckNames : Limiter(s)!Sharing(c) = Limiter(s)!Sharing(Limiter(s)!CounterOf(c))
         /\ \A c \in CheckNames : Limiter(s)!Sharing(c) \subseteq CheckNames
         /\ \A c \in CheckNames : \A d \in Limiter(s)!Sharing(c) : Limiter(s)!CounterOf(d) = Limiter(s)!CounterOf(c)
         /\ "health" \in s.traffic => "health" \in Limiter(s)!Sharing("general")
  BY DEF Limiter!CounterOf, Limiter!Sharing, Limiter!Checks, CheckNames, Counters

(* Stretches that windows last: no longer than the windows, or the clean-up. *)
LEMMA LastsIs ==
  ASSUME NEW s, Limiter(s)!RateLimitsAssumption, NEW c \in CheckNames, NEW n \in Int, Limiter(s)!Lasts(c, n)
  PROVE  /\ \A d \in Limiter(s)!Sharing(c) : n <= s.window[d]
         /\ s.store = "postgres" => n <= s.cleanupAge + 1
         /\ s.store # "postgres" => \A d \in CheckNames : n <= s.window[d]
  BY SetupIs DEF Limiter!Lasts

LEMMA AfterIs ==
  ASSUME NEW s, Limiter(s)!RateLimitsAssumption, NEW ws \in AllWindows(s), NEW r \in s.replicas,
         now \in Limiter(s)!Times, NEW c \in CheckNames, Begun(s, ws)
  PROVE  LET st == Limiter(s)!StoreOf(r)
             k == Limiter(s)!CounterOf(c)
             as == Limiter(s)!After(ws, r, c)
         IN /\ st \in Limiter(s)!Stores /\ k \in Counters
            /\ as \in AllWindows(s) /\ Begun(s, as)
            /\ as[st][k] = Limiter(s)!Consume(ws[st][k], s.window[c])
            /\ \A x \in Limiter(s)!Stores, m \in Counters : (x # st \/ m # k) => as[x][m] = ws[x][m]
<1> DEFINE st == Limiter(s)!StoreOf(r)
           k == Limiter(s)!CounterOf(c)
           as == Limiter(s)!After(ws, r, c)
           v == Limiter(s)!Consume(ws[st][k], s.window[c])
<1>1. st \in Limiter(s)!Stores /\ k \in Counters
  BY DEF Limiter!StoreOf, Limiter!Stores, Limiter!CounterOf, Counters
<1>2. as = [ws EXCEPT ![st] = [ws[st] EXCEPT ![k] = v]]
  BY DEF Limiter!After
<1>3. ws[st] \in [Counters -> Windows(s)] /\ ws[st][k] \in Windows(s) /\ ws[st][k].start <= now
  BY <1>1 DEF AllWindows, Begun
<1>4. s.maxTime \in Nat /\ s.window[c] \in Nat \ {0}
  BY SetupIs
<1>5. v \in Windows(s) /\ v.start <= now
  BY <1>3, <1>4, ConsumeIs
<1> HIDE DEF st, k, v, as
<1>6. as \in AllWindows(s)
  BY <1>1, <1>2, <1>3, <1>5 DEF AllWindows
<1>7. as[st][k] = v
  BY <1>1, <1>2, <1>3 DEF AllWindows
<1>8. \A x \in Limiter(s)!Stores, m \in Counters : (x # st \/ m # k) => as[x][m] = ws[x][m]
  BY <1>1, <1>2, <1>3 DEF AllWindows
<1>9. Begun(s, as)
  BY <1>5, <1>7, <1>8 DEF Begun
<1> QED BY <1>1, <1>6, <1>7, <1>8, <1>9 DEF st, k, v, as

LEMMA NoteIs ==
  ASSUME NEW s, Limiter(s)!RateLimitsAssumption, NEW l \in AllLogs(s), NEW r \in s.replicas,
         now \in Limiter(s)!Times, NEW c \in CheckNames
  PROVE  LET st == Limiter(s)!StoreOf(r)
             ls == Limiter(s)!Note(l, r, c)
         IN /\ ls \in AllLogs(s) /\ ls[st][c] = Risen(l[st][c], now)
            /\ \A x \in Limiter(s)!Stores, d \in CheckNames : (x # st \/ d # c) => ls[x][d] = l[x][d]
<1> DEFINE st == Limiter(s)!StoreOf(r)
           ls == Limiter(s)!Note(l, r, c)
           g == Risen(l[st][c], now)
<1>1. st \in Limiter(s)!Stores
  BY DEF Limiter!StoreOf, Limiter!Stores
<1>2. ls = [l EXCEPT ![st] = [l[st] EXCEPT ![c] = g]]
  BY DEF Limiter!Note, Risen
<1>3. l[st] \in [CheckNames -> Counts(s)] /\ l[st][c] \in Counts(s)
  BY <1>1 DEF AllLogs
<1>4. g \in Counts(s)
  BY <1>3 DEF Risen, Counts
<1> HIDE DEF st, ls, g
<1>5. ls \in AllLogs(s) /\ ls[st][c] = g
  BY <1>1, <1>2, <1>3, <1>4 DEF AllLogs
<1>6. \A x \in Limiter(s)!Stores, d \in CheckNames : (x # st \/ d # c) => ls[x][d] = l[x][d]
  BY <1>1, <1>2, <1>3 DEF AllLogs
<1> QED BY <1>5, <1>6 DEF st, ls, g

(* One check: it consumes, and notes what it admits.                         *)
Checked(s, st, c, ws, l, as, ls) ==
  /\ as[st][Limiter(s)!CounterOf(c)] = Limiter(s)!Consume(ws[st][Limiter(s)!CounterOf(c)], s.window[c])
  /\ ls[st][c] = IF as[st][Limiter(s)!CounterOf(c)].count <= s.limit[c] THEN Risen(l[st][c], now) ELSE l[st][c]
  /\ \A x \in Limiter(s)!Stores, k \in Counters : (x # st \/ k # Limiter(s)!CounterOf(c)) => as[x][k] = ws[x][k]
  /\ \A x \in Limiter(s)!Stores, d \in CheckNames : (x # st \/ d # c) => ls[x][d] = l[x][d]

LEMMA CheckIs ==
  ASSUME NEW s, Limiter(s)!RateLimitsAssumption, NEW ws \in AllWindows(s), NEW l \in AllLogs(s), NEW r \in s.replicas,
         now \in Limiter(s)!Times, NEW c \in CheckNames, Begun(s, ws),
         NEW as, as = Limiter(s)!After(ws, r, c),
         NEW ls, ls = IF Limiter(s)!Admits(ws, r, c) THEN Limiter(s)!Note(l, r, c) ELSE l
  PROVE  /\ as \in AllWindows(s) /\ Begun(s, as) /\ ls \in AllLogs(s)
         /\ Checked(s, Limiter(s)!StoreOf(r), c, ws, l, as, ls)
         /\ Limiter(s)!Admits(ws, r, c) <=> as[Limiter(s)!StoreOf(r)][Limiter(s)!CounterOf(c)].count <= s.limit[c]
<1>1. Limiter(s)!Admits(ws, r, c) <=> as[Limiter(s)!StoreOf(r)][Limiter(s)!CounterOf(c)].count <= s.limit[c]
  BY DEF Limiter!Admits
<1>2. /\ as \in AllWindows(s) /\ Begun(s, as)
      /\ as[Limiter(s)!StoreOf(r)][Limiter(s)!CounterOf(c)]
           = Limiter(s)!Consume(ws[Limiter(s)!StoreOf(r)][Limiter(s)!CounterOf(c)], s.window[c])
      /\ \A x \in Limiter(s)!Stores, k \in Counters :
           (x # Limiter(s)!StoreOf(r) \/ k # Limiter(s)!CounterOf(c)) => as[x][k] = ws[x][k]
  BY AfterIs
<1>3. CASE Limiter(s)!Admits(ws, r, c)
  BY <1>1, <1>2, <1>3, NoteIs DEF Checked
<1>4. CASE ~Limiter(s)!Admits(ws, r, c)
  BY <1>1, <1>2, <1>4 DEF Checked
<1> QED BY <1>1, <1>3, <1>4

(* What a request leaves of a counter k of its store: one check consumed,    *)
(* or none.                                                                  *)
Consumed(s, st, e) ==
  /\ window'[st][Limiter(s)!CounterOf(e)] = Limiter(s)!Consume(window[st][Limiter(s)!CounterOf(e)], s.window[e])
  /\ log'[st][e] = IF window'[st][Limiter(s)!CounterOf(e)].count <= s.limit[e] THEN Risen(log[st][e], now) ELSE log[st][e]
  /\ \A c \in CheckNames : Limiter(s)!CounterOf(c) = Limiter(s)!CounterOf(e) /\ c # e => log'[st][c] = log[st][c]
Untouched(s, st, k) ==
  /\ window'[st][k] = window[st][k]
  /\ \A c \in CheckNames : Limiter(s)!CounterOf(c) = k => log'[st][c] = log[st][c]

LEMMA RequestIs ==
  ASSUME NEW s, Limiter(s)!RateLimitsAssumption, Limiter(s)!TypeOK, NEW r \in s.replicas, NEW kind \in s.traffic,
         Limiter(s)!Request(r, kind), NEW st, st = Limiter(s)!StoreOf(r)
  PROVE  /\ Limiter(s)!TypeOK' /\ now' = now /\ st \in Limiter(s)!Stores
         /\ \A k \in Counters : Untouched(s, st, k) \/ \E e \in Limiter(s)!Sharing(k) : Consumed(s, st, e)
         /\ \A x \in Limiter(s)!Stores : x # st => (\A k \in Counters : window'[x][k] = window[x][k])
                                                   /\ (\A c \in CheckNames : log'[x][c] = log[x][c])
         /\ refused' # "none" =>
              /\ refused' \in CheckNames /\ refused' \in Limiter(s)!Sharing(refused') /\ Consumed(s, st, refused')
              /\ ~(window'[st][Limiter(s)!CounterOf(refused')].count <= s.limit[refused'])
<1> DEFINE Good(ws, l) == ws \in AllWindows(s) /\ Begun(s, ws) /\ l \in AllLogs(s)
<1>1. /\ Good(window, log) /\ now \in Limiter(s)!Times /\ left \in 0..s.perTick
  BY TypesAre
<1>2. now' = now /\ left' \in 0..s.perTick
  BY <1>1, SetupIs DEF Limiter!Request
<1>3. st \in Limiter(s)!Stores
  BY DEF Limiter!StoreOf, Limiter!Stores
<1>4. ASSUME NEW ws, NEW l, Good(ws, l), NEW c \in CheckNames
      PROVE  LET as == Limiter(s)!After(ws, r, c)
                 ls == IF Limiter(s)!Admits(ws, r, c) THEN Limiter(s)!Note(l, r, c) ELSE l
             IN /\ Good(as, ls) /\ Checked(s, st, c, ws, l, as, ls)
                /\ Limiter(s)!Admits(ws, r, c) <=> as[st][Limiter(s)!CounterOf(c)].count <= s.limit[c]
  BY <1>1, <1>4, CheckIs
<1> DEFINE kind2 == IF kind = "health" THEN "health" ELSE "general"
<1>5. kind2 \in CheckNames /\ kind2 \in Limiter(s)!Sharing("general") /\ Limiter(s)!CounterOf(kind2) = "general"
      /\ kind2 \in Limiter(s)!Sharing(kind2) /\ "auth" \in CheckNames /\ "auth" \in Limiter(s)!Sharing("auth")
  BY DEF Limiter!Sharing, Limiter!Checks, Limiter!CounterOf, CheckNames
<1> HIDE DEF kind2
<1>6. ASSUME NEW c \in {"auth", kind2}, Checked(s, st, c, window, log, window', log')
      PROVE  /\ Consumed(s, st, c)
             /\ \A k \in Counters : k # Limiter(s)!CounterOf(c) => Untouched(s, st, k)
             /\ \A x \in Limiter(s)!Stores : x # st => (\A k \in Counters : window'[x][k] = window[x][k])
                                                       /\ (\A d \in CheckNames : log'[x][d] = log[x][d])
  BY <1>3, <1>5, <1>6 DEF Checked, Consumed, Untouched
<1>7. ASSUME NEW c \in {"auth", kind2}, Checked(s, st, c, window, log, window', log'), Good(window', log'),
             \/ refused' = "none"
             \/ refused' = c /\ ~(window'[st][Limiter(s)!CounterOf(c)].count <= s.limit[c])
      PROVE  /\ \A k \in Counters : Untouched(s, st, k) \/ \E e \in Limiter(s)!Sharing(k) : Consumed(s, st, e)
             /\ \A x \in Limiter(s)!Stores : x # st => (\A k \in Counters : window'[x][k] = window[x][k])
                                                       /\ (\A d \in CheckNames : log'[x][d] = log[x][d])
             /\ refused' # "none" =>
                  /\ refused' \in CheckNames /\ refused' \in Limiter(s)!Sharing(refused') /\ Consumed(s, st, refused')
                  /\ ~(window'[st][Limiter(s)!CounterOf(refused')].count <= s.limit[refused'])
             /\ refused' \in CheckNames \cup {"none"}
  <2>1. c \in Limiter(s)!Sharing(Limiter(s)!CounterOf(c)) /\ c \in CheckNames /\ c \in Limiter(s)!Sharing(c)
    BY <1>5, CountersAre
  <2> QED BY <1>6, <1>7, <2>1
<1>8. CASE kind = "auth" /\ ~Limiter(s)!Admits(window, r, "auth")
  <2>1. window' = Limiter(s)!After(window, r, "auth") /\ refused' = "auth" /\ log' = log
    BY <1>8 DEF Limiter!Request
  <2>2. /\ Good(window', log') /\ Checked(s, st, "auth", window, log, window', log')
        /\ ~(window'[st][Limiter(s)!CounterOf("auth")].count <= s.limit["auth"])
    BY <1>1, <1>4, <1>5, <1>8, <2>1
  <2> HIDE DEF Good
  <2>3. "auth" \in {"auth", kind2}
    OBVIOUS
  <2>4. Good(window', log') /\ refused' \in CheckNames \cup {"none"}
    BY <1>5, <2>1, <2>2
  <2>5. Limiter(s)!TypeOK'
    BY <1>1, <1>2, <2>4, TypesStay DEF Good
  <2> QED BY <1>2, <1>3, <1>7, <2>1, <2>2, <2>3, <2>5
<1>9. CASE kind = "auth" /\ Limiter(s)!Admits(window, r, "auth")
  <2> DEFINE W1 == Limiter(s)!After(window, r, "auth")
             L1 == Limiter(s)!Note(log, r, "auth")
  <2>1. /\ window' = Limiter(s)!After(W1, r, "general")
        /\ IF Limiter(s)!Admits(W1, r, "general")
           THEN log' = Limiter(s)!Note(L1, r, "general") /\ refused' = "none"
           ELSE log' = L1 /\ refused' = "general"
    BY <1>9 DEF Limiter!Request
  <2>2. Good(W1, L1) /\ Checked(s, st, "auth", window, log, W1, L1) /\ W1[st]["auth"].count <= s.limit["auth"]
    BY <1>1, <1>4, <1>5, <1>9, CountersAre
  <2> HIDE DEF W1, L1, Good
  <2>3. "general" \in CheckNames /\ kind2 = "general"
    BY <1>9 DEF CheckNames, kind2
  <2>4. /\ Good(window', log') /\ Checked(s, st, "general", W1, L1, window', log')
        /\ Limiter(s)!Admits(W1, r, "general") <=> window'[st]["general"].count <= s.limit["general"]
    BY <1>4, <2>1, <2>2, <2>3, CountersAre
  <2>5. Consumed(s, st, "auth") /\ Consumed(s, st, "general")
    <3>1. \A c \in CheckNames : c = "auth" \/ Limiter(s)!CounterOf(c) = "general"
      BY DEF CheckNames, Limiter!CounterOf
    <3>2. "general" # "auth" /\ "auth" \in CheckNames /\ "auth" \in Counters /\ "general" \in Counters
      BY DEF CheckNames, Counters
    <3> QED BY <1>3, <2>2, <2>3, <2>4, <3>1, <3>2, CountersAre DEF Checked, Consumed
  <2>6. \A x \in Limiter(s)!Stores : x # st => (\A k \in Counters : window'[x][k] = window[x][k])
                                               /\ (\A d \in CheckNames : log'[x][d] = log[x][d])
    BY <2>2, <2>4 DEF Checked
  <2>7. refused' = "none" \/ (refused' = "general" /\ ~(window'[st]["general"].count <= s.limit["general"]))
    BY <2>1, <2>4
  <2>8. Limiter(s)!TypeOK'
    BY <1>1, <1>2, <2>3, <2>4, <2>7, TypesStay DEF Good
  <2>9. \A k \in Counters : \E e \in Limiter(s)!Sharing(k) : Consumed(s, st, e)
    BY <2>5, CountersAre DEF Counters
  <2> QED BY <1>2, <1>3, <1>5, <2>3, <2>5, <2>6, <2>7, <2>8, <2>9, CountersAre
<1>10. CASE kind # "auth"
  <2>1. /\ window' = Limiter(s)!After(window, r, kind2)
        /\ IF Limiter(s)!Admits(window, r, kind2)
           THEN log' = Limiter(s)!Note(log, r, kind2) /\ refused' = "none"
           ELSE log' = log /\ refused' = kind2
    BY <1>10 DEF Limiter!Request, kind2
  <2>2. /\ Good(window', log') /\ Checked(s, st, kind2, window, log, window', log')
        /\ Limiter(s)!Admits(window, r, kind2) <=> window'[st][Limiter(s)!CounterOf(kind2)].count <= s.limit[kind2]
    BY <1>1, <1>4, <1>5, <2>1
  <2> HIDE DEF Good
  <2>3. \/ refused' = "none"
        \/ refused' = kind2 /\ ~(window'[st][Limiter(s)!CounterOf(kind2)].count <= s.limit[kind2])
    BY <2>1, <2>2
  <2>4. refused' \in CheckNames \cup {"none"}
    BY <1>5, <2>3
  <2>5. Limiter(s)!TypeOK'
    BY <1>1, <1>2, <2>2, <2>4, TypesStay DEF Good
  <2> QED BY <1>2, <1>3, <1>7, <2>2, <2>3, <2>5
<1> QED BY <1>8, <1>9, <1>10

-----------------------------------------------------------------------------
(* What a store admitted under the name k, l being its log.                  *)
Sum(s, l, k) == [t \in Limiter(s)!Times |-> IF k = "auth" THEN l["auth"][t] ELSE l["general"][t] + l["health"][t]]

LEMMA SumIs ==
  ASSUME NEW s, NEW x, NEW c \in CheckNames
  PROVE  Limiter(s)!Together(x, c) = Sum(s, log[x], Limiter(s)!CounterOf(c))
  BY DEF Limiter!Together, Limiter!CounterOf, Sum, CheckNames

LEMMA SumType ==
  ASSUME NEW s, NEW l \in [CheckNames -> Counts(s)], NEW k
  PROVE  /\ Sum(s, l, k) \in Counts(s)
         /\ \A t : (\A c \in CheckNames : Still(s, l[c], t)) => Still(s, Sum(s, l, k), t)
<1>1. \A c \in CheckNames, t \in Limiter(s)!Times : l[c][t] \in Nat
  BY DEF Counts
<1>2. \A t \in Limiter(s)!Times : l["auth"][t] \in Nat /\ l["general"][t] \in Nat /\ l["health"][t] \in Nat
  BY <1>1 DEF CheckNames
<1>3. ASSUME NEW t, \A c \in CheckNames : Still(s, l[c], t) PROVE Still(s, Sum(s, l, k), t)
  BY <1>2, <1>3 DEF Sum, Still, CheckNames
<1> QED BY <1>2, <1>3 DEF Sum, Counts

(* What a check admits, its counter's store admits.                          *)
LEMMA SumRises ==
  ASSUME NEW s, NEW l \in [CheckNames -> Counts(s)], NEW m \in [CheckNames -> Counts(s)], NEW e \in CheckNames,
         now \in Limiter(s)!Times, NEW yes \in BOOLEAN,
         m[e] = IF yes THEN Risen(l[e], now) ELSE l[e],
         \A c \in CheckNames : Limiter(s)!CounterOf(c) = Limiter(s)!CounterOf(e) /\ c # e => m[c] = l[c],
         NEW k, k = Limiter(s)!CounterOf(e)
  PROVE  Sum(s, m, k) = IF yes THEN Risen(Sum(s, l, k), now) ELSE Sum(s, l, k)
<1>1. \A c \in CheckNames : l[c] \in Counts(s)
  OBVIOUS
<1>2. Risen(l[e], now)[now] = l[e][now] + 1 /\ \A t \in Limiter(s)!Times : t # now => Risen(l[e], now)[t] = l[e][t]
  BY <1>1 DEF Risen, Counts
<1>3. \A c \in CheckNames : l[c][now] \in Nat
  BY <1>1 DEF Counts
<1>4. \A t \in Limiter(s)!Times :
        Sum(s, m, k)[t] = IF yes /\ t = now THEN Sum(s, l, k)[t] + 1 ELSE Sum(s, l, k)[t]
  <2>1. TAKE t \in Limiter(s)!Times
  <2>2. m[e][t] = IF yes /\ t = now THEN l[e][t] + 1 ELSE l[e][t]
    BY <1>2
  <2>3. CASE e = "auth"
    <3>1. k = "auth"
      BY <2>3, CountersAre
    <3> QED BY <2>2, <2>3, <3>1 DEF Sum
  <2>4. CASE e = "general"
    <3>1. k = "general" /\ m["health"] = l["health"]
      BY <2>4, CountersAre DEF CheckNames
    <3>2. l["general"][now] \in Nat /\ l["health"][now] \in Nat
      BY <1>3 DEF CheckNames
    <3> QED BY <2>2, <2>4, <3>1, <3>2 DEF Sum
  <2>5. CASE e = "health"
    <3>1. k = "general" /\ m["general"] = l["general"]
      BY <2>5, CountersAre DEF CheckNames
    <3>2. l["general"][now] \in Nat /\ l["health"][now] \in Nat
      BY <1>3 DEF CheckNames
    <3> QED BY <2>2, <2>5, <3>1, <3>2 DEF Sum
  <2> QED BY <2>3, <2>4, <2>5 DEF CheckNames
<1>5. /\ Sum(s, m, k) = [t \in Limiter(s)!Times |-> Sum(s, m, k)[t]]
      /\ Sum(s, l, k) = [t \in Limiter(s)!Times |-> Sum(s, l, k)[t]]
  BY DEF Sum
<1> DEFINE A == Sum(s, m, k)
           B == Sum(s, l, k)
<1>6. /\ A = [t \in Limiter(s)!Times |-> A[t]] /\ B = [t \in Limiter(s)!Times |-> B[t]]
      /\ \A t \in Limiter(s)!Times : A[t] = IF yes /\ t = now THEN B[t] + 1 ELSE B[t]
  BY <1>4, <1>5
<1> HIDE DEF A, B
<1>7. A = IF yes THEN Risen(B, now) ELSE B
  <2>1. CASE yes
    <3>1. Risen(B, now) = [t \in Limiter(s)!Times |-> IF t = now THEN B[t] + 1 ELSE B[t]]
      BY <1>6 DEF Risen
    <3> QED BY <1>6, <2>1, <3>1
  <2>2. CASE ~yes
    BY <1>6, <2>2
  <2> QED BY <2>1, <2>2
<1> QED BY <1>7 DEF A, B

(* The store x counts soundly.                                               *)
Admitting(s, x) == \A c \in CheckNames :
  /\ Still(s, log[x][c], now)
  /\ \A n \in Int : Limiter(s)!Lasts(c, n) =>
       /\ Upper(s, s.limit[c], n, log[x][c], window[x][Limiter(s)!CounterOf(c)], now)
       /\ Spread(s, s.limit[c], n, log[x][c])
Refusing(s, x) == \A k \in Counters : Lower(s, Limiter(s)!Sharing(k), Sum(s, log[x], k), window[x][k], now)
Earned(s) == refused # "none" =>
  /\ refused \in CheckNames
  /\ \E x \in Limiter(s)!Stores, d \in Limiter(s)!Sharing(refused) :
       Limiter(s)!Total(Sum(s, log[x], Limiter(s)!CounterOf(refused)), now - s.window[refused] + 1, now) >= s.limit[d]
LimiterInv(s) ==
  /\ Limiter(s)!TypeOK
  /\ \A x \in Limiter(s)!Stores : Admitting(s, x) /\ Refusing(s, x)
  /\ Earned(s)

LEMMA LimiterBegins ==
  ASSUME NEW s, Limiter(s)!RateLimitsAssumption, Limiter(s)!Init
  PROVE  LimiterInv(s)
<1>1. Limiter(s)!TypeOK
  BY SetupIs DEF Limiter!Init, Limiter!TypeOK, Limiter!Absent, Limiter!Counters, Limiter!Checks
<1>2. /\ now = 0 /\ refused = "none" /\ now \in Limiter(s)!Times
      /\ \A x \in Limiter(s)!Stores, c \in CheckNames :
           log[x][c] \in Counts(s) /\ \A t \in Limiter(s)!Times : log[x][c][t] = 0
  BY SetupIs DEF Limiter!Init, Counts
<1>3. \A x \in Limiter(s)!Stores, k \in Counters : window[x][k].count = 0
  BY SetupIs DEF Limiter!Init, Limiter!Absent
<1>4. ASSUME NEW x \in Limiter(s)!Stores, NEW c \in CheckNames, NEW n \in Int
      PROVE  /\ Still(s, log[x][c], now)
             /\ Upper(s, s.limit[c], n, log[x][c], window[x][Limiter(s)!CounterOf(c)], now)
             /\ Spread(s, s.limit[c], n, log[x][c])
  <2>1. log[x][c] \in Counts(s) /\ \A t \in Limiter(s)!Times : log[x][c][t] = 0
    BY <1>2
  <2>2. \A a \in Int, b \in Int : Limiter(s)!Total(log[x][c], a, b) = 0
    BY <2>1, NoneAdmitted
  <2>3. s.limit[c] \in Nat /\ 0 <= s.limit[c] /\ 0 <= 2 * s.limit[c]
    BY SetupIs
  <2>4. Limiter(s)!CounterOf(c) \in Counters
    BY CountersAre
  <2>5. window[x][Limiter(s)!CounterOf(c)].count = 0
    BY <1>3, <2>4
  <2>6. now - n + 1 \in Int /\ now \in Int
    BY <1>2
  <2>7. Limiter(s)!Total(log[x][c], now - n + 1, now) = 0
    BY <2>2, <2>6
  <2>8. Upper(s, s.limit[c], n, log[x][c], window[x][Limiter(s)!CounterOf(c)], now)
    BY <2>3, <2>5, <2>7 DEF Upper
  <2>9. \A v \in Int : Limiter(s)!Total(log[x][c], v, v + n - 1) = 0
    <3>1. \A v \in Int : v + n - 1 \in Int
      OBVIOUS
    <3> QED BY <2>2, <3>1
  <2> QED BY <2>1, <2>3, <2>8, <2>9 DEF Still, Spread
<1>5. \A x \in Limiter(s)!Stores : Refusing(s, x)
  BY <1>3 DEF Refusing, Lower
<1>6. \A x \in Limiter(s)!Stores : Admitting(s, x)
  <2>1. 0 \in Int
    OBVIOUS
  <2> QED BY <1>4, <2>1 DEF Admitting
<1> QED BY <1>1, <1>2, <1>5, <1>6 DEF LimiterInv, Earned

LEMMA TickKeeps ==
  ASSUME NEW s, Limiter(s)!RateLimitsAssumption, LimiterInv(s), Limiter(s)!Tick
  PROVE  LimiterInv(s)'
<1>1. /\ now < s.maxTime /\ now' = now + 1 /\ left' = s.perTick /\ refused' = "none" /\ UNCHANGED <<window, log>>
  BY DEF Limiter!Tick
<1>2. window \in AllWindows(s) /\ Begun(s, window) /\ now \in Limiter(s)!Times /\ log \in AllLogs(s)
  BY TypesAre DEF LimiterInv
<1>3. now \in Nat /\ now + 1 \in Limiter(s)!Times /\ s.maxTime \in Nat
  BY <1>1, <1>2, SetupIs DEF Limiter!Times
<1>4. \A x \in Limiter(s)!Stores, m \in Counters : window[x][m] \in Windows(s) /\ window[x][m].start <= now + 1
  <2>1. TAKE x \in Limiter(s)!Stores, m \in Counters
  <2>2. window[x][m] \in Windows(s) /\ window[x][m].start <= now
    BY <1>2 DEF AllWindows, Begun
  <2>3. window[x][m].start \in Nat
    BY <1>2, <1>3, <2>2, TimesAre
  <2> QED BY <1>3, <2>2, <2>3
<1>5. Limiter(s)!TypeOK'
  <2>1. left' \in 0..s.perTick
    BY <1>1, SetupIs
  <2>2. now' \in Limiter(s)!Times
    BY <1>1, <1>3
  <2>3. \A x \in Limiter(s)!Stores, m \in Counters : window'[x][m].start <= now'
    BY <1>1, <1>4
  <2> QED BY <1>1, <2>1, <2>2, <2>3, SetupIs DEF LimiterInv, Limiter!TypeOK
<1>6. ASSUME NEW x \in Limiter(s)!Stores, NEW c \in CheckNames
      PROVE  /\ Still(s, log[x][c], now + 1)
             /\ \A n \in Int : Limiter(s)!Lasts(c, n) =>
                  /\ Upper(s, s.limit[c], n, log[x][c], window[x][Limiter(s)!CounterOf(c)], now + 1)
                  /\ Spread(s, s.limit[c], n, log[x][c])
  <2>1. Still(s, log[x][c], now) /\ log[x][c] \in Counts(s)
    BY <1>2 DEF LimiterInv, Admitting, AllLogs
  <2>2. Still(s, log[x][c], now + 1)
    BY <1>3, <2>1, SetupIs DEF Still
  <2>3. Limiter(s)!CounterOf(c) \in Counters
    BY CountersAre
  <2>4. window[x][Limiter(s)!CounterOf(c)] \in Windows(s)
    BY <1>4, <2>3
  <2>5. s.limit[c] \in Nat
    BY SetupIs
  <2>6. ASSUME NEW n \in Int, Limiter(s)!Lasts(c, n)
        PROVE  /\ Upper(s, s.limit[c], n, log[x][c], window[x][Limiter(s)!CounterOf(c)], now + 1)
               /\ Spread(s, s.limit[c], n, log[x][c])
    <3>1. /\ Upper(s, s.limit[c], n, log[x][c], window[x][Limiter(s)!CounterOf(c)], now)
          /\ Spread(s, s.limit[c], n, log[x][c])
      BY <2>6 DEF LimiterInv, Admitting
    <3> QED BY <1>2, <1>3, <2>1, <2>4, <2>5, <3>1, UpperTick
  <2> QED BY <2>2, <2>6
<1>7. ASSUME NEW x \in Limiter(s)!Stores, NEW k \in Counters
      PROVE  Lower(s, Limiter(s)!Sharing(k), Sum(s, log[x], k), window[x][k], now + 1)
  <2>1. Lower(s, Limiter(s)!Sharing(k), Sum(s, log[x], k), window[x][k], now)
    BY DEF LimiterInv, Refusing
  <2>2. log[x] \in [CheckNames -> Counts(s)]
    BY <1>2 DEF AllLogs
  <2>3. \A d \in Limiter(s)!Sharing(k) : s.limit[d] \in Nat
    BY CountersAre, SetupIs
  <2> QED BY <1>2, <1>3, <1>4, <2>1, <2>2, <2>3, SumType, LowerTick
<1>8. \A x \in Limiter(s)!Stores : Admitting(s, x)' /\ Refusing(s, x)'
  BY <1>1, <1>6, <1>7 DEF Admitting, Refusing
<1> QED BY <1>1, <1>5, <1>8 DEF LimiterInv, Earned

LEMMA CleanupKeeps ==
  ASSUME NEW s, Limiter(s)!RateLimitsAssumption, LimiterInv(s), Limiter(s)!Cleanup
  PROVE  LimiterInv(s)'
<1>1. refused' = "none" /\ UNCHANGED <<now, log, left>>
  BY DEF Limiter!Cleanup
<1>2. window \in AllWindows(s) /\ Begun(s, window) /\ now \in Limiter(s)!Times /\ log \in AllLogs(s)
  BY TypesAre DEF LimiterInv
<1>3. Limiter(s)!Absent \in Windows(s) /\ Limiter(s)!Absent.count = 0 /\ Limiter(s)!Absent.start <= now
  BY <1>2, SetupIs DEF Limiter!Absent, Windows, Limiter!Times
<1> DEFINE Old(w) == IF s.store = "postgres" THEN now - w.start > s.cleanupAge
                     ELSE \E c \in Limiter(s)!Checks : now - w.start >= s.window[c]
<1>4. window' = [x \in Limiter(s)!Stores |-> [k \in Counters |->
                   IF Old(window[x][k]) THEN Limiter(s)!Absent ELSE window[x][k]]]
  BY SetupIs DEF Limiter!Cleanup
<1>5. \A x \in Limiter(s)!Stores, k \in Counters :
        \/ window'[x][k] = window[x][k]
        \/ window'[x][k] = Limiter(s)!Absent /\ Old(window[x][k])
  BY <1>4
<1>6. window' \in AllWindows(s) /\ Begun(s, window')
  <2>1. \A x \in Limiter(s)!Stores, k \in Counters : window[x][k] \in Windows(s)
    BY <1>2 DEF AllWindows
  <2> HIDE DEF Old
  <2> QED BY <1>2, <1>3, <1>4, <1>5, <2>1 DEF AllWindows, Begun
<1>7. Limiter(s)!TypeOK'
  <2>1. left \in 0..s.perTick
    BY TypesAre DEF LimiterInv
  <2> HIDE DEF Old
  <2> QED BY <1>1, <1>2, <1>6, <2>1, TypesStay
<1>8. ASSUME NEW x \in Limiter(s)!Stores, NEW c \in CheckNames, NEW n \in Int, Limiter(s)!Lasts(c, n)
      PROVE  Upper(s, s.limit[c], n, log[x][c], window'[x][Limiter(s)!CounterOf(c)], now)
  <2> DEFINE k == Limiter(s)!CounterOf(c)
             w == window[x][k]
  <2>1. Upper(s, s.limit[c], n, log[x][c], w, now)
    BY <1>8 DEF LimiterInv, Admitting
  <2>2. k \in Counters
    BY CountersAre
  <2>3. log[x][c] \in Counts(s) /\ w \in Windows(s) /\ s.limit[c] \in Nat
    BY <1>2, <2>2, SetupIs DEF AllLogs, AllWindows
  <2>4. CASE window'[x][k] = w
    BY <2>1, <2>4
  <2>5. CASE window'[x][k] = Limiter(s)!Absent /\ Old(w)
    <3>1. now \in Nat /\ w.start \in Nat
      BY <1>2, <2>3, SetupIs, TimesAre
    <3>2. now - w.start >= n
      <4>1. CASE s.store = "postgres"
        <5>1. now - w.start > s.cleanupAge /\ n <= s.cleanupAge + 1 /\ s.cleanupAge \in Nat
          BY <1>8, <2>5, <4>1, LastsIs, SetupIs
        <5> QED BY <3>1, <5>1
      <4>2. CASE s.store # "postgres"
        <5>1. PICK d \in CheckNames : now - w.start >= s.window[d]
          BY <2>5, <4>2, SetupIs
        <5>2. n <= s.window[d] /\ s.window[d] \in Nat
          BY <1>8, <4>2, LastsIs, SetupIs
        <5> QED BY <3>1, <5>1, <5>2
      <4> QED BY <4>1, <4>2
    <3> HIDE DEF w, k
    <3>3. Limiter(s)!Total(log[x][c], now - n + 1, now) <= s.limit[c]
      BY <1>2, <2>1, <2>3, <3>2, SetupIs, UpperClear
    <3> QED BY <1>3, <2>5, <3>3 DEF Upper, k
  <2> HIDE DEF Old
  <2> QED BY <1>5, <2>2, <2>4, <2>5
<1>9. ASSUME NEW x \in Limiter(s)!Stores, NEW k \in Counters
      PROVE  Lower(s, Limiter(s)!Sharing(k), Sum(s, log[x], k), window'[x][k], now)
  <2>1. Lower(s, Limiter(s)!Sharing(k), Sum(s, log[x], k), window[x][k], now)
    BY DEF LimiterInv, Refusing
  <2>2. Lower(s, Limiter(s)!Sharing(k), Sum(s, log[x], k), Limiter(s)!Absent, now)
    BY <1>3 DEF Lower
  <2> HIDE DEF Old
  <2> QED BY <1>5, <2>1, <2>2
<1>10. \A x \in Limiter(s)!Stores, c \in CheckNames : /\ Still(s, log[x][c], now)
         /\ \A n \in Int : Limiter(s)!Lasts(c, n) => Spread(s, s.limit[c], n, log[x][c])
  BY DEF LimiterInv, Admitting
<1>11. \A x \in Limiter(s)!Stores : Admitting(s, x)' /\ Refusing(s, x)'
  <2> HIDE DEF Old
  <2> QED BY <1>1, <1>8, <1>9, <1>10 DEF Admitting, Refusing
<1> QED BY <1>1, <1>7, <1>11 DEF LimiterInv, Earned

(* A check of the counter consumed: the store still counts soundly.          *)
LEMMA ConsumedKeeps ==
  ASSUME NEW s, Limiter(s)!RateLimitsAssumption, LimiterInv(s), NEW x \in Limiter(s)!Stores,
         NEW k \in Counters, NEW e \in Limiter(s)!Sharing(k), Consumed(s, x, e),
         log'[x] \in [CheckNames -> Counts(s)], NEW c \in CheckNames, Limiter(s)!CounterOf(c) = k
  PROVE  /\ Still(s, log'[x][c], now)
         /\ \A n \in Int : Limiter(s)!Lasts(c, n) =>
              /\ Upper(s, s.limit[c], n, log'[x][c], window'[x][k], now)
              /\ Spread(s, s.limit[c], n, log'[x][c])
         /\ Lower(s, Limiter(s)!Sharing(k), Sum(s, log'[x], k), window'[x][k], now)
         /\ ~(window'[x][k].count <= s.limit[e]) => \E d \in Limiter(s)!Sharing(k) :
              Limiter(s)!Total(Sum(s, log'[x], k), now - s.window[e] + 1, now) >= s.limit[d]
<1> DEFINE w == window[x][k]
           v == window'[x][k]
           f == log[x][c]
           g == log'[x][c]
           F == Sum(s, log[x], k)
           G == Sum(s, log'[x], k)
<1>1. window \in AllWindows(s) /\ Begun(s, window) /\ now \in Limiter(s)!Times /\ log \in AllLogs(s)
  BY TypesAre DEF LimiterInv
<1>2. e \in CheckNames /\ Limiter(s)!CounterOf(e) = k /\ Limiter(s)!Sharing(k) \subseteq CheckNames
      /\ Limiter(s)!Sharing(c) = Limiter(s)!Sharing(k)
  BY CountersAre
<1>3. /\ \A d \in CheckNames : s.limit[d] \in Nat \ {0} /\ s.window[d] \in Nat \ {0}
      /\ s.maxTime \in Nat /\ Limiter(s)!Times \subseteq Nat
  BY SetupIs
<1>4. w \in Windows(s) /\ w.start <= now /\ f \in Counts(s) /\ log[x] \in [CheckNames -> Counts(s)] /\ F \in Counts(s)
  BY <1>1, SumType DEF AllWindows, AllLogs, Begun
<1>5. v = Limiter(s)!Consume(w, s.window[e])
  BY <1>2 DEF Consumed
<1>6. g = f \/ (g = Risen(f, now) /\ v.count <= s.limit[c])
  BY <1>2 DEF Consumed
<1>7. G = IF v.count <= s.limit[e] THEN Risen(F, now) ELSE F
  <2> DEFINE yes == v.count <= s.limit[e]
  <2>1. /\ log'[x][e] = IF yes THEN Risen(log[x][e], now) ELSE log[x][e]
        /\ \A d \in CheckNames : Limiter(s)!CounterOf(d) = Limiter(s)!CounterOf(e) /\ d # e => log'[x][d] = log[x][d]
    BY <1>2 DEF Consumed
  <2>2. yes \in BOOLEAN
    OBVIOUS
  <2> HIDE DEF yes, v
  <2>3. Sum(s, log'[x], k) = IF yes THEN Risen(Sum(s, log[x], k), now) ELSE Sum(s, log[x], k)
    BY <1>1, <1>2, <1>4, <2>1, <2>2, SumRises
  <2> QED BY <2>3 DEF yes
<1>8. /\ Still(s, f, now)
      /\ \A n \in Int : Limiter(s)!Lasts(c, n) => Upper(s, s.limit[c], n, f, w, now) /\ Spread(s, s.limit[c], n, f)
      /\ Lower(s, Limiter(s)!Sharing(k), F, w, now)
  BY DEF LimiterInv, Admitting, Refusing
<1> HIDE DEF w, v, f, g, F, G
<1>9. v \in Windows(s) /\ v.start <= now /\ v.count # 0
  BY <1>1, <1>2, <1>3, <1>4, <1>5, ConsumeIs
<1>10. Still(s, g, now)
  <2>1. \A t \in Limiter(s)!Times : t > now => t # now
    BY <1>1, <1>3
  <2> QED BY <1>4, <1>6, <1>8, <2>1 DEF Still, Risen, Counts
<1>11. ASSUME NEW n \in Int, Limiter(s)!Lasts(c, n)
       PROVE  Upper(s, s.limit[c], n, g, v, now) /\ Spread(s, s.limit[c], n, g)
  <2>1. n <= s.window[e]
    BY <1>2, <1>11, LastsIs
  <2>2. Upper(s, s.limit[c], n, g, v, now)
    BY <1>1, <1>2, <1>3, <1>4, <1>5, <1>6, <1>8, <1>11, <2>1, UpperConsumes
  <2>3. (g = Risen(f, now) \/ g = f) /\ s.limit[c] \in Nat
    BY <1>3, <1>6
  <2> QED BY <1>1, <1>3, <1>4, <1>8, <1>9, <1>10, <1>11, <2>2, <2>3, SpreadUp
<1>12. /\ Lower(s, Limiter(s)!Sharing(k), G, v, now)
       /\ ~(v.count <= s.limit[e]) => \E d \in Limiter(s)!Sharing(k) :
            Limiter(s)!Total(G, now - s.window[e] + 1, now) >= s.limit[d]
  <2>1. \A d \in Limiter(s)!Sharing(k) : s.limit[d] \in Nat \ {0}
    BY <1>2, <1>3
  <2> QED BY <1>1, <1>2, <1>3, <1>4, <1>5, <1>7, <1>8, <2>1, LowerConsumes
<1> QED BY <1>10, <1>11, <1>12 DEF v, g, G

LEMMA UntouchedKeeps ==
  ASSUME NEW s, Limiter(s)!RateLimitsAssumption, LimiterInv(s), NEW x \in Limiter(s)!Stores,
         NEW k \in Counters, Untouched(s, x, k), NEW c \in CheckNames, Limiter(s)!CounterOf(c) = k
  PROVE  /\ Still(s, log'[x][c], now)
         /\ \A n \in Int : Limiter(s)!Lasts(c, n) =>
              /\ Upper(s, s.limit[c], n, log'[x][c], window'[x][k], now)
              /\ Spread(s, s.limit[c], n, log'[x][c])
         /\ Lower(s, Limiter(s)!Sharing(k), Sum(s, log'[x], k), window'[x][k], now)
<1>1. window'[x][k] = window[x][k] /\ log'[x][c] = log[x][c]
  BY DEF Untouched
<1>2. Sum(s, log'[x], k) = Sum(s, log[x], k)
  <2>1. \A d \in CheckNames : Limiter(s)!CounterOf(d) = k => log'[x][d] = log[x][d]
    BY DEF Untouched
  <2>2. CASE k = "auth"
    BY <2>1, <2>2, CountersAre DEF Sum, CheckNames
  <2>3. CASE k = "general"
    BY <2>1, <2>3, CountersAre DEF Sum, CheckNames
  <2> QED BY <2>2, <2>3 DEF Counters
<1> QED BY <1>1, <1>2 DEF LimiterInv, Admitting, Refusing

LEMMA RequestKeeps ==
  ASSUME NEW s, Limiter(s)!RateLimitsAssumption, LimiterInv(s), NEW r \in s.replicas, NEW kind \in s.traffic,
         Limiter(s)!Request(r, kind)
  PROVE  LimiterInv(s)'
<1> DEFINE st == Limiter(s)!StoreOf(r)
<1>1. /\ Limiter(s)!TypeOK' /\ now' = now /\ st \in Limiter(s)!Stores
      /\ \A k \in Counters : Untouched(s, st, k) \/ \E e \in Limiter(s)!Sharing(k) : Consumed(s, st, e)
      /\ \A x \in Limiter(s)!Stores : x # st => (\A k \in Counters : window'[x][k] = window[x][k])
                                                /\ (\A c \in CheckNames : log'[x][c] = log[x][c])
      /\ refused' # "none" =>
           /\ refused' \in CheckNames /\ refused' \in Limiter(s)!Sharing(refused') /\ Consumed(s, st, refused')
           /\ ~(window'[st][Limiter(s)!CounterOf(refused')].count <= s.limit[refused'])
  BY RequestIs DEF LimiterInv
<1> HIDE DEF st
<1>2. \A x \in Limiter(s)!Stores : log'[x] \in [CheckNames -> Counts(s)]
  BY <1>1, SetupIs DEF Limiter!TypeOK, Counts
<1>3. ASSUME NEW x \in Limiter(s)!Stores, NEW c \in CheckNames, NEW k, k = Limiter(s)!CounterOf(c)
      PROVE  /\ Still(s, log'[x][c], now)
             /\ \A n \in Int : Limiter(s)!Lasts(c, n) =>
                  /\ Upper(s, s.limit[c], n, log'[x][c], window'[x][k], now)
                  /\ Spread(s, s.limit[c], n, log'[x][c])
             /\ Lower(s, Limiter(s)!Sharing(k), Sum(s, log'[x], k), window'[x][k], now)
  <2>1. k \in Counters
    BY <1>3, CountersAre
  <2>2. CASE x # st
    <3>1. Untouched(s, x, k)
      BY <1>1, <2>1, <2>2 DEF Untouched
    <3> QED BY <1>3, <2>1, <3>1, UntouchedKeeps
  <2>3. CASE x = st /\ Untouched(s, st, k)
    BY <1>3, <2>1, <2>3, UntouchedKeeps
  <2>4. CASE x = st /\ \E e \in Limiter(s)!Sharing(k) : Consumed(s, st, e)
    BY <1>2, <1>3, <2>1, <2>4, ConsumedKeeps
  <2> QED BY <1>1, <2>1, <2>2, <2>3, <2>4
<1>4. \A x \in Limiter(s)!Stores : Admitting(s, x)'
  BY <1>1, <1>3 DEF Admitting
<1>5. \A x \in Limiter(s)!Stores : Refusing(s, x)'
  <2>1. \A k \in Counters : k \in CheckNames /\ k = Limiter(s)!CounterOf(k)
    BY CountersAre
  <2>2. \A x \in Limiter(s)!Stores, k \in Counters : Lower(s, Limiter(s)!Sharing(k), Sum(s, log'[x], k), window'[x][k], now)
    BY <1>3, <2>1
  <2> QED BY <1>1, <2>2 DEF Refusing
<1>6. Earned(s)'
  <2>1. SUFFICES ASSUME refused' # "none"
                 PROVE  /\ refused' \in CheckNames
                        /\ \E x \in Limiter(s)!Stores, d \in Limiter(s)!Sharing(refused') :
                             Limiter(s)!Total(Sum(s, log'[x], Limiter(s)!CounterOf(refused')),
                                              now - s.window[refused'] + 1, now) >= s.limit[d]
    BY <1>1 DEF Earned
  <2> DEFINE e == refused'
             k == Limiter(s)!CounterOf(e)
  <2>2. e \in CheckNames /\ e \in Limiter(s)!Sharing(e) /\ Consumed(s, st, e) /\ ~(window'[st][k].count <= s.limit[e])
    BY <1>1, <2>1
  <2> HIDE DEF e
  <2>3. k \in Counters /\ Limiter(s)!Sharing(e) = Limiter(s)!Sharing(k)
    BY <2>2, CountersAre
  <2> HIDE DEF k
  <2>4. k = Limiter(s)!CounterOf(e)
    BY DEF k
  <2>5. PICK d \in Limiter(s)!Sharing(k) :
          Limiter(s)!Total(Sum(s, log'[st], k), now - s.window[e] + 1, now) >= s.limit[d]
    BY <1>1, <1>2, <2>2, <2>3, <2>4, ConsumedKeeps
  <2> QED BY <1>1, <2>2, <2>3, <2>5 DEF e, k
<1> QED BY <1>1, <1>4, <1>5, <1>6 DEF LimiterInv

LEMMA LimiterStep ==
  ASSUME NEW s, Limiter(s)!RateLimitsAssumption, LimiterInv(s), Limiter(s)!Next
  PROVE  LimiterInv(s)'
  BY TickKeeps, CleanupKeeps, RequestKeeps DEF Limiter!Next

LEMMA LimiterIsSound ==
  ASSUME NEW s, Limiter(s)!RateLimitsAssumption, LimiterInv(s)
  PROVE  Limiter(s)!TypeOK /\ Limiter(s)!RefusalEarned /\ Limiter(s)!WindowAdmits
<1>1. Limiter(s)!RefusalEarned
  BY SumIs DEF LimiterInv, Earned, Limiter!RefusalEarned
<1>2. ASSUME NEW x \in Limiter(s)!Stores, NEW c \in CheckNames, NEW from \in Limiter(s)!Times, NEW to \in Limiter(s)!Times,
             Limiter(s)!Lasts(c, to - from + 1)
      PROVE  Limiter(s)!Total(log[x][c], from, to) <= 2 * s.limit[c]
  <2>1. from \in Int /\ to \in Int
    BY SetupIs
  <2> DEFINE n == to - from + 1
  <2>2. n \in Int /\ from + n - 1 = to
    BY <2>1
  <2>3. Limiter(s)!Lasts(c, n)
    BY <1>2
  <2> HIDE DEF n
  <2>4. Spread(s, s.limit[c], n, log[x][c])
    BY <2>2, <2>3 DEF LimiterInv, Admitting
  <2>5. Limiter(s)!Total(log[x][c], from, from + n - 1) <= 2 * s.limit[c]
    BY <2>1, <2>4 DEF Spread
  <2> QED BY <2>2, <2>5
<1>3. Limiter(s)!WindowAdmits
  BY <1>2, SetupIs DEF Limiter!WindowAdmits
<1> QED BY <1>1, <1>3 DEF LimiterInv

-----------------------------------------------------------------------------
(***************************************************************************)
(* Attributes: trimming, coercing, and the loop over the definitions.      *)
(***************************************************************************)
(* Every set of naturals that is not empty has a least element.             *)
LEMMA Least ==
  ASSUME NEW S, S \subseteq Nat, S # {}
  PROVE  \E m \in S : \A w \in S : m <= w
<1>1. IsWellFoundedOn(OpToRel(<, Nat), Nat) BY NatLessThanWellFounded
<1>2. PICK m \in S : \A y \in S : ~ (<<y, m>> \in OpToRel(<, Nat)) BY <1>1, WFMin
<1>3. \A w \in S : m <= w
  <2> SUFFICES ASSUME NEW w \in S PROVE m <= w OBVIOUS
  <2>1. w \in Nat /\ m \in Nat OBVIOUS
  <2>2. ~ (<<w, m>> \in OpToRel(<, Nat)) BY <1>2
  <2>3. ~ (w < m) BY <2>1, <2>2 DEF OpToRel
  <2> QED BY <2>1, <2>3
<1> QED BY <1>3

LEMMA Greatest ==
  ASSUME NEW S, NEW n \in Nat, S \subseteq 1..n, S # {}
  PROVE  \E m \in S : \A w \in S : w <= m
<1> DEFINE U == {k \in Nat : \A w \in S : w <= k}
<1>1. n \in U OBVIOUS
<1>2. PICK m \in U : \A k \in U : m <= k BY <1>1, Least
<1>3. m \in S
  <2> SUFFICES ASSUME m \notin S PROVE FALSE OBVIOUS
  <2>1. PICK w \in S : TRUE OBVIOUS
  <2>2. m \in Nat /\ m >= 1 BY <2>1
  <2>3. \A x \in S : x <= m - 1 OBVIOUS
  <2>4. m - 1 \in U BY <2>2, <2>3
  <2> QED BY <1>2, <2>2, <2>4
<1> QED BY <1>3

(* The blanks are off both ends.                                             *)
Inked(s) == s = <<>> \/ (Len(s) > 0 /\ s[1] # Attr!Blank /\ s[Len(s)] # Attr!Blank)

LEMMA EndsOf ==
  ASSUME NEW S, NEW s \in Seq(S), NEW ink, ink = {i \in DOMAIN s : s[i] # Attr!Blank}, ink # {}
  PROVE  /\ Attr!Min(ink) \in ink /\ \A i \in ink : Attr!Min(ink) <= i
         /\ Attr!Max(ink) \in ink /\ \A i \in ink : i <= Attr!Max(ink)
<1>1. ink \subseteq 1..Len(s) /\ ink \subseteq Nat /\ Len(s) \in Nat
  OBVIOUS
<1>2. \E m \in ink : \A w \in ink : m <= w
  BY <1>1, Least
<1>3. \E m \in ink : \A w \in ink : w <= m
  BY <1>1, Greatest
<1>4. \E m \in ink : \A w \in ink : m >= w
  BY <1>1, <1>3
<1>5. Attr!Min(ink) \in ink /\ \A i \in ink : Attr!Min(ink) <= i
  BY <1>2 DEF Attr!Min
<1>6. Attr!Max(ink) \in ink /\ \A i \in ink : Attr!Max(ink) >= i
  BY <1>4 DEF Attr!Max
<1> QED BY <1>1, <1>5, <1>6

LEMMA TrimIs ==
  ASSUME NEW S, NEW s \in Seq(S)
  PROVE  Attr!Trim(s) \in Seq(S) /\ Len(Attr!Trim(s)) <= Len(s) /\ Inked(Attr!Trim(s))
<1> DEFINE ink == {i \in DOMAIN s : s[i] # Attr!Blank}
           r == SubSeq(s, Attr!Min(ink), Attr!Max(ink))
<1>1. CASE ink = {}
  <2>1. Attr!Trim(s) = <<>>
    BY <1>1 DEF Attr!Trim
  <2> QED BY <2>1 DEF Inked
<1>2. CASE ink # {}
  <2>1. Attr!Trim(s) = r
    BY <1>2 DEF Attr!Trim
  <2>2. PICK a \in ink, b \in ink : a = Attr!Min(ink) /\ b = Attr!Max(ink) /\ a <= b
    <3>1. ink # {}
      BY <1>2
    <3>2. /\ Attr!Min(ink) \in ink /\ \A i \in ink : Attr!Min(ink) <= i
          /\ Attr!Max(ink) \in ink
      BY <3>1, EndsOf
    <3> HIDE DEF ink
    <3> QED BY <3>2
  <2>3. a \in 1..Len(s) /\ b \in 1..Len(s) /\ s[a] # Attr!Blank /\ s[b] # Attr!Blank
    OBVIOUS
  <2>4. r = SubSeq(s, a, b)
    BY <2>2
  <2> HIDE DEF ink, r
  <2>5. r \in Seq(S) /\ Len(r) = b - a + 1 /\ \A i \in 1..(b - a + 1) : r[i] = s[a + i - 1]
    BY <2>2, <2>3, <2>4, SubSeqProperties
  <2>6. Len(r) > 0 /\ Len(r) <= Len(s) /\ 1 \in 1..(b - a + 1) /\ b - a + 1 \in 1..(b - a + 1)
    BY <2>2, <2>3, <2>5
  <2>7. a + 1 - 1 = a /\ a + (b - a + 1) - 1 = b
    BY <2>3
  <2>8. r[1] = s[a] /\ r[Len(r)] = s[b]
    BY <2>5, <2>6, <2>7
  <2> QED BY <2>1, <2>3, <2>5, <2>6, <2>8 DEF Inked
<1> QED BY <1>1, <1>2

LEMMA TrimKeeps ==
  ASSUME NEW S, NEW s \in Seq(S), Inked(s)
  PROVE  Attr!Trim(s) = s
<1> DEFINE ink == {i \in DOMAIN s : s[i] # Attr!Blank}
<1>1. CASE s = <<>>
  <2>1. ink = {}
    BY <1>1
  <2> QED BY <1>1, <2>1 DEF Attr!Trim
<1>2. CASE s # <<>>
  <2>1. Len(s) \in Nat /\ Len(s) > 0 /\ s[1] # Attr!Blank /\ s[Len(s)] # Attr!Blank /\ DOMAIN s = 1..Len(s)
    BY <1>2 DEF Inked
  <2>2. 1 \in ink /\ Len(s) \in ink /\ \A i \in ink : i \in Nat /\ 1 <= i /\ i <= Len(s)
    BY <2>1
  <2>3. Attr!Trim(s) = SubSeq(s, Attr!Min(ink), Attr!Max(ink))
    BY <2>2 DEF Attr!Trim
  <2>4. /\ Attr!Min(ink) \in ink /\ Attr!Min(ink) <= 1
        /\ Attr!Max(ink) \in ink /\ Len(s) <= Attr!Max(ink)
    BY <2>2, EndsOf
  <2> HIDE DEF ink
  <2>5. Attr!Min(ink) = 1 /\ Attr!Max(ink) = Len(s)
    BY <2>1, <2>2, <2>4
  <2>6. SubSeq(s, 1, Len(s)) = s
    BY <2>1, SubSeqFull
  <2> QED BY <2>3, <2>5, <2>6
<1> QED BY <1>1, <1>2

LEMMA CutIs ==
  ASSUME NEW S, NEW s \in Seq(S), MaxLength \in Nat \ {0}
  PROVE  /\ Attr!Cut(s) \in Seq(S) /\ Len(Attr!Cut(s)) <= MaxLength /\ Len(Attr!Cut(s)) <= Len(s)
         /\ Len(s) <= MaxLength => Attr!Cut(s) = s
         /\ Len(s) > MaxLength => Len(Attr!Cut(s)) = MaxLength
         /\ (Len(s) > 0 => Len(Attr!Cut(s)) > 0 /\ Attr!Cut(s)[1] = s[1])
<1>1. Len(s) \in Nat
  OBVIOUS
<1>2. CASE Len(s) <= MaxLength
  <2>1. Attr!Cut(s) = SubSeq(s, 1, Len(s))
    <3>1. CASE Len(s) < MaxLength
      BY <3>1 DEF Attr!Cut
    <3>2. CASE ~(Len(s) < MaxLength)
      <4>1. Len(s) = MaxLength
        BY <1>1, <1>2, <3>2
      <4> QED BY <3>2, <4>1 DEF Attr!Cut
    <3> QED BY <3>1, <3>2
  <2>2. Attr!Cut(s) = s
    BY <2>1, SubSeqFull
  <2> QED BY <1>1, <1>2, <2>2
<1>3. CASE ~(Len(s) <= MaxLength)
  <2>1. Attr!Cut(s) = SubSeq(s, 1, MaxLength)
    BY <1>1, <1>3 DEF Attr!Cut
  <2>2. 1 \in 1..Len(s) /\ MaxLength \in 1..Len(s) /\ 1 <= MaxLength
    BY <1>1, <1>3
  <2>3. /\ SubSeq(s, 1, MaxLength) \in Seq(S) /\ Len(SubSeq(s, 1, MaxLength)) = MaxLength
        /\ SubSeq(s, 1, MaxLength)[1] = s[1]
    BY <2>2, SubSeqProperties
  <2> QED BY <1>1, <1>3, <2>1, <2>2, <2>3
<1> QED BY <1>2, <1>3

-----------------------------------------------------------------------------
Sendable(v) == v \in Attr!Values /\ (v.t = "none" => v = Attr!Absent)
Storable(v) == v \in Attr!Values /\ v.t \in {"string", "number", "bool"}

LEMMA ValIs ==
  ASSUME NEW v, v \in Attr!Values
  PROVE  /\ v.n \in Int /\ v.s \in Seq(STRING) /\ v.r \in {"plain", "int", "half", "truth"}
         /\ v = [t |-> v.t, r |-> v.r, n |-> v.n, s |-> v.s]
         /\ \A b \in Seq(STRING) : LET w == [v EXCEPT !.s = b] IN
              /\ w \in Attr!Values /\ w.t = v.t /\ w.r = v.r /\ w.n = v.n /\ w.s = b
              /\ w = [t |-> v.t, r |-> v.r, n |-> v.n, s |-> b]
         /\ \A b \in Seq(STRING) : LET w == Attr!Val("string", v.r, v.n, b) IN
              w \in Attr!Values /\ w.t = "string" /\ w.r = v.r /\ w.n = v.n /\ w.s = b
  BY DEF Attr!Values, Attr!Val

LEMMA NumIs ==
  ASSUME NEW n \in Int, NEW r \in {"plain", "int", "half", "truth"}
  PROVE  /\ Attr!Val("number", r, n, <<>>) \in Attr!Values
         /\ Attr!Val("number", r, n, <<>>).t = "number" /\ Attr!Val("number", r, n, <<>>).r = r
         /\ Attr!Val("number", r, n, <<>>).n = n
         /\ Attr!Val("bool", r, n, <<>>) \in Attr!Values /\ Attr!Val("bool", r, n, <<>>).t = "bool"
<1>1. <<>> \in Seq(STRING)
  OBVIOUS
<1> QED BY <1>1 DEF Attr!Val, Attr!Values

LEMMA AbsentIs == Attr!Absent.t = "none"
  BY DEF Attr!Val, Attr!Absent

(* A value as it is stored under def reads as itself, and is there - unless  *)
(* it is the empty option.                                                   *)
Settled(def, v) == /\ Storable(v) /\ v # Attr!Absent /\ Attr!Coerced(def, v) = v /\ Attr!Fits(def, v)
                   /\ (def.type = "enum" /\ <<>> \in def.options) \/ ~Attr!Missing(v)

LEMMA CoercedSettles ==
  ASSUME NEW def, NEW v, Sendable(v), ~Attr!Missing(v), Attr!Coerced(def, v) # Attr!Absent
  PROVE  Settled(def, Attr!Coerced(def, v))
<1> DEFINE c == Attr!Coerced(def, v)
           r == Attr!Trim(v.s)
           w == [v EXCEPT !.s = Attr!Trim(@)]
           e == Attr!Val("string", v.r, v.n, Attr!Trim(v.s))
<1>1. v \in Attr!Values /\ v.n \in Int /\ v.s \in Seq(STRING) /\ v.r \in {"plain", "int", "half", "truth"}
  BY ValIs DEF Sendable
<1>2. r \in Seq(STRING) /\ Attr!Trim(r) = r
  BY <1>1, TrimIs, TrimKeeps
<1>3. /\ w = [v EXCEPT !.s = r] /\ w \in Attr!Values /\ w.t = v.t /\ w.s = r
      /\ w = [t |-> v.t, r |-> v.r, n |-> v.n, s |-> r]
  BY <1>1, <1>2, ValIs
<1>4. /\ e = Attr!Val("string", v.r, v.n, r) /\ e \in Attr!Values
      /\ e.t = "string" /\ e.r = v.r /\ e.n = v.n /\ e.s = r
  BY <1>1, <1>2, ValIs
<1>5. \A x, t, f, n, b : x = [t |-> t, r |-> f, n |-> n, s |-> b] =>
        [x EXCEPT !.s = Attr!Trim(@)] = [t |-> t, r |-> f, n |-> n, s |-> Attr!Trim(b)]
  OBVIOUS
<1> HIDE DEF w, e, r, c
<1>6. [w EXCEPT !.s = Attr!Trim(@)] = w /\ Attr!Val("string", e.r, e.n, Attr!Trim(e.s)) = e
  BY <1>2, <1>3, <1>4, <1>5
<1>7. v.t = "string" => r # <<>>
  BY DEF Attr!Missing, r
<1>8. ASSUME def.type = "string", v.t = "string", Len(r) \in def.lengths, c = w PROVE Settled(def, c)
  <2>1. Attr!Trim(w.s) = r /\ w.t = "string" /\ w # Attr!Absent
    BY <1>2, <1>3, <1>8, AbsentIs
  <2>2. ~Attr!Missing(w)
    BY <1>7, <1>8, <2>1 DEF Attr!Missing
  <2>3. Attr!Coerced(def, w) = w
    BY <1>6, <1>8, <2>1 DEF Attr!Coerced
  <2>4. Attr!Fits(def, w)
    BY <1>3, <1>8, <2>1 DEF Attr!Fits
  <2> QED BY <1>3, <1>8, <2>1, <2>2, <2>3, <2>4 DEF Settled, Storable
<1>9. ASSUME def.type = "enum", r \in def.options, c = e PROVE Settled(def, c)
  <2>1. Attr!Trim(e.s) = r /\ e.t = "string" /\ e # Attr!Absent
    BY <1>2, <1>4, AbsentIs
  <2>2. <<>> \in def.options \/ ~Attr!Missing(e)
    BY <1>9, <2>1 DEF Attr!Missing
  <2>3. Attr!Coerced(def, e) = e
    BY <1>6, <1>9, <2>1 DEF Attr!Coerced
  <2>4. Attr!Fits(def, e)
    BY <1>4, <1>9, <2>1 DEF Attr!Fits
  <2> QED BY <1>4, <1>9, <2>1, <2>2, <2>3, <2>4 DEF Settled, Storable
<1>10. ASSUME def.type \in {"int", "number"}, v.r \in Attr!Numbers(def), Attr!InRange(def, v),
             c = Attr!Val("number", v.r, v.n, <<>>)
      PROVE  Settled(def, c)
  <2>1. c \in Attr!Values /\ c.t = "number" /\ c.r = v.r /\ c.n = v.n
    BY <1>1, <1>10, NumIs
  <2>2. Attr!InRange(def, c)
    BY <1>10, <2>1 DEF Attr!InRange
  <2>3. Attr!Val("number", c.r, c.n, <<>>) = c
    BY <1>10, <2>1
  <2>4. Attr!Coerced(def, c) = c
    BY <1>10, <2>1, <2>2, <2>3 DEF Attr!Coerced
  <2>5. ~Attr!Missing(c) /\ c # Attr!Absent
    BY <2>1, AbsentIs DEF Attr!Missing
  <2>6. Attr!Fits(def, c)
    <3>1. c.n + 0 = c.n
      BY <1>1, <2>1
    <3>2. c.n \in def.range /\ (c.r = "half" => c.n + 1 \in def.range)
      BY <2>2 DEF Attr!InRange
    <3>3. {c.n, c.n + (IF c.r = "half" THEN 1 ELSE 0)} \subseteq def.range
      BY <3>1, <3>2
    <3> QED BY <1>10, <2>1, <3>3 DEF Attr!Fits
  <2> QED BY <2>1, <2>4, <2>5, <2>6 DEF Settled, Storable
<1>11. ASSUME def.type = "bool", v.t = "bool", c = v PROVE Settled(def, c)
  <2>1. Attr!Coerced(def, v) = v
    BY <1>11 DEF c
  <2>2. v # Attr!Absent
    BY <1>11, AbsentIs
  <2>3. Attr!Fits(def, v)
    BY <1>11 DEF Attr!Fits
  <2> QED BY <1>1, <1>11, <2>1, <2>2, <2>3 DEF Settled, Storable
<1>12. ASSUME def.type = "bool", c = Attr!Val("bool", "truth", v.n, <<>>) PROVE Settled(def, c)
  <2>1. c \in Attr!Values /\ c.t = "bool"
    BY <1>1, <1>12, NumIs
  <2>2. ~Attr!Missing(c) /\ c # Attr!Absent
    BY <2>1, AbsentIs DEF Attr!Missing
  <2>3. Attr!Coerced(def, c) = c
    BY <1>12, <2>1 DEF Attr!Coerced
  <2>4. Attr!Fits(def, c)
    BY <1>12, <2>1 DEF Attr!Fits
  <2> QED BY <2>1, <2>2, <2>3, <2>4 DEF Settled, Storable
<1>13. \/ def.type = "string" /\ v.t = "string" /\ Len(r) \in def.lengths /\ c = w
       \/ def.type = "enum" /\ r \in def.options /\ c = e
       \/ /\ def.type \in {"int", "number"} /\ v.r \in Attr!Numbers(def) /\ Attr!InRange(def, v)
          /\ c = Attr!Val("number", v.r, v.n, <<>>)
       \/ def.type = "bool" /\ v.t = "bool" /\ c = v
       \/ def.type = "bool" /\ c = Attr!Val("bool", "truth", v.n, <<>>)
  BY DEF Attr!Coerced, c, r, w, e
<1>14. Settled(def, c)
  BY <1>8, <1>9, <1>10, <1>11, <1>12, <1>13
<1> QED BY <1>14 DEF c

(* A value that no definition names, as it is stored.                        *)
Loose(v) == Storable(v) /\ Attr!Scalar(v) /\ (Attr!Plain(v) = v \/ Attr!CutAtBlank(v, Attr!Plain(v)))

LEMMA PlainLoosens ==
  ASSUME NEW v, Sendable(v), v # Attr!Absent, Attr!Scalar(v), MaxLength \in Nat \ {0}
  PROVE  Loose(Attr!Plain(v))
<1>1. v \in Attr!Values /\ v.s \in Seq(STRING) /\ v.t # "none"
  BY ValIs DEF Sendable
<1>2. v.t \in {"string", "number", "bool"}
  BY <1>1 DEF Attr!Values, Attr!Scalar
<1>3. CASE v.t # "string"
  <2>1. Attr!Plain(v) = v
    BY <1>3 DEF Attr!Plain
  <2> QED BY <1>1, <1>2, <2>1 DEF Loose, Storable
<1>4. CASE v.t = "string"
  <2> DEFINE r == Attr!Trim(v.s)
             c == Attr!Cut(r)
             w == Attr!Plain(v)
             d == Attr!Trim(c)
  <2>1. r \in Seq(STRING) /\ Inked(r)
    BY <1>1, TrimIs
  <2>2. /\ c \in Seq(STRING) /\ Len(c) <= MaxLength /\ Len(c) <= Len(r)
        /\ Len(r) <= MaxLength => c = r
        /\ Len(r) > MaxLength => Len(c) = MaxLength
        /\ Len(r) > 0 => Len(c) > 0 /\ c[1] = r[1]
    BY <2>1, CutIs
  <2>3. w = [v EXCEPT !.s = c]
    BY <1>4 DEF Attr!Plain
  <2> HIDE DEF c, w, r, d
  <2>4. w \in Attr!Values /\ w.t = v.t /\ w.s = c /\ w = [t |-> v.t, r |-> v.r, n |-> v.n, s |-> c]
    BY <1>1, <2>2, <2>3, ValIs
  <2>5. d \in Seq(STRING) /\ Len(d) <= Len(c)
    BY <2>2, TrimIs DEF d
  <2>6. Attr!Cut(d) = d
    <3>1. Len(d) \in Nat /\ Len(c) \in Nat /\ MaxLength \in Nat
      BY <2>2, <2>5
    <3>2. Len(d) <= MaxLength
      BY <2>2, <2>5, <3>1
    <3> QED BY <2>5, <3>2, CutIs
  <2>7. Attr!Plain(w) = [w EXCEPT !.s = Attr!Cut(Attr!Trim(@))]
    BY <1>4, <2>4 DEF Attr!Plain
  <2>8. Attr!Plain(w) = [t |-> v.t, r |-> v.r, n |-> v.n, s |-> d]
    <3>1. \A x, t, f, n, b : x = [t |-> t, r |-> f, n |-> n, s |-> b] =>
            [x EXCEPT !.s = Attr!Cut(Attr!Trim(@))] = [t |-> t, r |-> f, n |-> n, s |-> Attr!Cut(Attr!Trim(b))]
      OBVIOUS
    <3> QED BY <2>4, <2>6, <2>7, <3>1 DEF d
  <2>9. Storable(w) /\ Attr!Scalar(w)
    BY <1>4, <2>4 DEF Storable, Attr!Scalar
  <2>10. CASE Inked(c)
    <3>1. d = c
      BY <2>2, <2>10, TrimKeeps DEF d
    <3> QED BY <2>4, <2>8, <2>9, <3>1 DEF Loose, w
  <2>11. CASE ~Inked(c)
    <3>1. Len(r) \in Nat /\ Len(c) \in Nat
      BY <2>1, <2>2
    <3>2. Len(r) > MaxLength
      BY <2>1, <2>2, <2>11, <3>1
    <3>3. r # <<>> /\ r[1] # Attr!Blank
      BY <2>1, <3>2, <3>1 DEF Inked
    <3>4. Len(r) > 0 /\ Len(c) = MaxLength
      BY <2>2, <3>1, <3>2
    <3>5. Len(c) > 0 /\ c[1] # Attr!Blank
      BY <2>2, <3>3, <3>4
    <3>6. c[MaxLength] = Attr!Blank
      BY <2>11, <3>4, <3>5 DEF Inked
    <3>7. Attr!Plain(w) = [w EXCEPT !.s = Attr!Trim(@)]
      <4>1. \A x, t, f, n, b : x = [t |-> t, r |-> f, n |-> n, s |-> b] =>
              [x EXCEPT !.s = Attr!Trim(@)] = [t |-> t, r |-> f, n |-> n, s |-> Attr!Trim(b)]
        OBVIOUS
      <4> QED BY <2>4, <2>8, <4>1 DEF d
    <3>8. Attr!CutAtBlank(w, Attr!Plain(w))
      BY <1>4, <2>4, <3>4, <3>6, <3>7 DEF Attr!CutAtBlank
    <3> QED BY <2>9, <3>8 DEF Loose, w
  <2> QED BY <2>10, <2>11
<1> QED BY <1>3, <1>4

-----------------------------------------------------------------------------
Key(i) == Attr!Defs[i].key
Steady == vertical.config.allowUnknown \/ DOMAIN payload \subseteq Attr!Known
(* What is stored, by the schema that is in force.                           *)
Normal(p) ==
  /\ \A k \in DOMAIN p : Storable(p[k])
  /\ \A i \in DOMAIN Attr!Defs :
       IF Key(i) \in DOMAIN p THEN Settled(Attr!Defs[i], p[Key(i)]) ELSE ~Attr!Defs[i].required
  /\ \A k \in DOMAIN p \ Attr!Known : k \in WellFormedKeys /\ Loose(p[k])
  /\ vertical.config.allowUnknown \/ DOMAIN p \subseteq Attr!Known
(* What was stored has been sent again, and no value of it can be missing.   *)
Sure == first # <<>> /\ ~Attr!EmptyOption
(* The definitions before pos have been gone through.                        *)
Built ==
  /\ \A i \in DOMAIN Attr!Defs : i < pos =>
       IF Key(i) \in DOMAIN out
       THEN Settled(Attr!Defs[i], out[Key(i)]) /\ (Sure => Key(i) \in DOMAIN payload /\ out[Key(i)] = payload[Key(i)])
       ELSE ~Attr!Defs[i].required /\ (Sure => Key(i) \notin DOMAIN payload)
  /\ \A k \in DOMAIN out : \E i \in DOMAIN Attr!Defs : i < pos /\ k = Key(i)
Same ==
  /\ DOMAIN out = DOMAIN payload
  /\ \A k \in DOMAIN out : \/ out[k] = payload[k]
                           \/ k \notin Attr!Known /\ Attr!CutAtBlank(payload[k], out[k])
InSchema ==
  /\ pos \in 0..(Len(Attr!Defs) + 1)
  /\ pos > 0 => ~Attr!BadConfig(vertical.config) /\ Steady
  /\ pos = 0 => out = Attr!Empty
  /\ Sure => Normal(payload) /\ ~Attr!BadConfig(vertical.config) /\ verdict \in {"running", "done"}
  /\ verdict # "done" => Built
  /\ verdict = "done" => pos = Len(Attr!Defs) + 1 /\ Normal(out) /\ (Sure => Same)
Exempted == pos = 0 /\ out = Attr!Empty /\ verdict \in {"running", "done"} /\ (first # <<>> => payload = Attr!Empty)
AttrInv ==
  /\ vertical \in Verticals /\ (first = <<>> \/ first = <<payload>>)
  /\ \A k \in DOMAIN payload : Sendable(payload[k])
  /\ IF Attr!ExemptSlug(vertical) THEN Exempted ELSE InSchema

LEMMA DefsAre ==
  ASSUME Attr!AttributesAssumption, vertical \in Verticals
  PROVE  Len(Attr!Defs) \in Nat /\ DOMAIN Attr!Defs = 1..Len(Attr!Defs)
  BY DEF Attr!AttributesAssumption, Attr!Defs, Attr!Definitions

LEMMA KeysDiffer ==
  ASSUME Attr!AttributesAssumption, vertical \in Verticals, ~Attr!BadConfig(vertical.config),
         NEW i \in DOMAIN Attr!Defs, NEW k \in DOMAIN Attr!Defs, Key(i) = Key(k)
  PROVE  i = k
<1>1. i \in Nat /\ k \in Nat /\ 1 <= i /\ 1 <= k
  BY DefsAre
<1>2. \A m, n \in DOMAIN Attr!Defs : m \in 1..(n - 1) => Key(m) # Key(n)
  BY DEF Attr!BadConfig, Attr!BadDefinition, Attr!Defs, Key
<1>3. i < k => i \in 1..(k - 1)
  BY <1>1
<1>4. k < i => k \in 1..(i - 1)
  BY <1>1
<1> QED BY <1>1, <1>2, <1>3, <1>4

LEMMA AttrBegins ==
  ASSUME Attr!AttributesAssumption, Attr!Init
  PROVE  AttrInv
<1>1. vertical \in Verticals /\ payload \in Payloads /\ pos = 0 /\ out = Attr!Empty /\ verdict = "running" /\ first = <<>>
  BY DEF Attr!Init
<1>2. \A k \in DOMAIN payload : Sendable(payload[k])
  BY <1>1 DEF Attr!AttributesAssumption, Sendable
<1>3. DOMAIN out = {}
  BY <1>1 DEF Attr!Empty
<1>4. Exempted
  BY <1>1 DEF Exempted
<1>5. InSchema
  <2>1. Len(Attr!Defs) \in Nat /\ DOMAIN Attr!Defs = 1..Len(Attr!Defs)
    BY <1>1, DefsAre
  <2>2. Built
    BY <1>1, <1>3, <2>1 DEF Built
  <2>3. 0 \in 0..(Len(Attr!Defs) + 1)
    BY <2>1
  <2> QED BY <1>1, <2>2, <2>3 DEF InSchema, Sure
<1> QED BY <1>1, <1>2, <1>4, <1>5 DEF AttrInv

(* The definitions and the verdict on the config depend on the vertical.     *)
LEMMA SchemaKept ==
  ASSUME vertical' = vertical
  PROVE  /\ Attr!Defs' = Attr!Defs /\ Attr!Known' = Attr!Known
         /\ \A i : Key(i)' = Key(i)
         /\ first' = first => (Sure' <=> Sure)
  BY DEF Attr!Defs, Attr!Known, Key, Sure, Attr!EmptyOption

LEMMA NormalKept ==
  ASSUME vertical' = vertical, payload' = payload
  PROVE  (Normal(payload)' <=> Normal(payload)) /\ (Steady' <=> Steady)
  BY DEF Attr!Defs, Attr!Known, Key, Normal, Steady

(* A refusal: before the schema, of the config or for a key; then in it.     *)
LEMMA RefusalKeeps ==
  ASSUME AttrInv, NEW v, Attr!End(v), ~Attr!ExemptSlug(vertical), ~Sure, v # "done", Attr!Running
  PROVE  AttrInv'
<1>1. verdict' = v /\ UNCHANGED <<vertical, payload, pos, out, first>>
  BY DEF Attr!End
<1>2. InSchema /\ Attr!ExemptSlug(vertical)' = Attr!ExemptSlug(vertical)
  BY <1>1 DEF AttrInv
<1>3. Built
  BY <1>2 DEF InSchema, Attr!Running
<1>4. Built'
  BY <1>1, <1>3, SchemaKept DEF Built
<1>5. InSchema'
  BY <1>1, <1>2, <1>4, SchemaKept, NormalKept DEF InSchema
<1> QED BY <1>1, <1>2, <1>5 DEF AttrInv

LEMMA ExemptKeeps ==
  ASSUME AttrInv, Attr!Exempt
  PROVE  AttrInv'
  BY DEF AttrInv, Attr!Exempt, Attr!End, Exempted

LEMMA BeginKeeps ==
  ASSUME Attr!AttributesAssumption, AttrInv, Attr!Begin
  PROVE  AttrInv'
<1>1. /\ pos = 0 /\ ~Attr!ExemptSlug(vertical) /\ ~Attr!BadConfig(vertical.config)
      /\ Steady /\ pos' = 1 /\ UNCHANGED <<vertical, payload, out, verdict, first>>
      /\ verdict = "running"
  BY DEF Attr!Begin, Attr!Running, Steady
<1>2. InSchema /\ vertical \in Verticals
  BY <1>1 DEF AttrInv
<1>3. Len(Attr!Defs) \in Nat /\ DOMAIN Attr!Defs = 1..Len(Attr!Defs)
  BY <1>2, DefsAre
<1>4. DOMAIN out = {}
  BY <1>1, <1>2 DEF InSchema, Attr!Empty
<1>5. Built'
  <2>1. \A i \in DOMAIN Attr!Defs : ~(i < 1)
    BY <1>3
  <2> QED BY <1>1, <1>4, <2>1, SchemaKept DEF Built
<1>6. InSchema'
  <2>1. 1 \in 0..(Len(Attr!Defs) + 1)
    BY <1>3
  <2> QED BY <1>1, <1>2, <1>5, <2>1, SchemaKept, NormalKept DEF InSchema
<1> QED BY <1>1, <1>2, <1>6 DEF AttrInv

LEMMA SkipKeeps ==
  ASSUME Attr!AttributesAssumption, AttrInv, Attr!Skip
  PROVE  AttrInv'
<1>1. /\ verdict = "running" /\ pos \in DOMAIN Attr!Defs /\ Attr!Missing(Attr!Here) /\ ~Attr!Defs[pos].required
      /\ pos' = pos + 1 /\ UNCHANGED <<vertical, payload, out, verdict, first>>
  BY DEF Attr!Skip, Attr!AtDefinition, Attr!Running
<1>2. vertical \in Verticals
  BY DEF AttrInv
<1>3. Len(Attr!Defs) \in Nat /\ DOMAIN Attr!Defs = 1..Len(Attr!Defs)
  BY <1>2, DefsAre
<1>4. pos \in Nat /\ pos > 0
  BY <1>1, <1>3
<1>5. InSchema /\ ~Attr!ExemptSlug(vertical)
  BY <1>4 DEF AttrInv, Exempted
<1>6. Built /\ ~Attr!BadConfig(vertical.config)
  BY <1>1, <1>4, <1>5 DEF InSchema
<1>7. Key(pos) \notin DOMAIN out
  <2>1. SUFFICES ASSUME Key(pos) \in DOMAIN out PROVE FALSE
    OBVIOUS
  <2>2. PICK i \in DOMAIN Attr!Defs : i < pos /\ Key(pos) = Key(i)
    BY <1>6, <2>1 DEF Built
  <2>3. i = pos
    BY <1>1, <1>2, <1>6, <2>2, KeysDiffer
  <2> QED BY <1>4, <2>2, <2>3
<1>8. Sure => Key(pos) \notin DOMAIN payload
  <2>1. SUFFICES ASSUME Sure, Key(pos) \in DOMAIN payload PROVE FALSE
    OBVIOUS
  <2>2. Settled(Attr!Defs[pos], payload[Key(pos)])
    BY <1>1, <1>5, <2>1 DEF InSchema, Normal
  <2>3. Attr!Here = payload[Key(pos)]
    BY <2>1 DEF Attr!Here, Attr!Of, Key
  <2> QED BY <1>1, <2>1, <2>2, <2>3 DEF Settled, Sure, Attr!EmptyOption
<1>9. Built'
  <2>1. \A i \in DOMAIN Attr!Defs : i < pos + 1 => i < pos \/ i = pos
    BY <1>3, <1>4
  <2>2. \A i \in DOMAIN Attr!Defs : i < pos => i < pos + 1
    BY <1>3, <1>4
  <2> QED BY <1>1, <1>6, <1>7, <1>8, <2>1, <2>2, SchemaKept DEF Built
<1>10. InSchema'
  <2>1. pos + 1 \in 0..(Len(Attr!Defs) + 1)
    BY <1>1, <1>3
  <2> QED BY <1>1, <1>4, <1>5, <1>9, <2>1, SchemaKept, NormalKept DEF InSchema
<1> QED BY <1>1, <1>2, <1>5, <1>10 DEF AttrInv

LEMMA TakeKeeps ==
  ASSUME Attr!AttributesAssumption, AttrInv, Attr!Take
  PROVE  AttrInv'
<1> DEFINE v == Attr!Coerced(Attr!Defs[pos], Attr!Here)
<1>1. /\ verdict = "running" /\ pos \in DOMAIN Attr!Defs /\ ~Attr!Missing(Attr!Here) /\ v # Attr!Absent
      /\ out' = Attr!With(out, Key(pos), v)
      /\ pos' = pos + 1 /\ UNCHANGED <<vertical, payload, verdict, first>>
  BY DEF Attr!Take, Attr!AtDefinition, Attr!Running, Key
<1>2. vertical \in Verticals
  BY DEF AttrInv
<1>3. Len(Attr!Defs) \in Nat /\ DOMAIN Attr!Defs = 1..Len(Attr!Defs)
  BY <1>2, DefsAre
<1>4. pos \in Nat /\ pos > 0
  BY <1>1, <1>3
<1>5. InSchema /\ ~Attr!ExemptSlug(vertical)
  BY <1>4 DEF AttrInv, Exempted
<1>6. Built /\ ~Attr!BadConfig(vertical.config)
  BY <1>1, <1>4, <1>5 DEF InSchema
<1>7. Key(pos) \in DOMAIN payload /\ Attr!Here = payload[Key(pos)] /\ Sendable(Attr!Here)
  <2>1. Attr!Here # Attr!Absent
    BY <1>1 DEF Attr!Missing
  <2>2. Key(pos) \in DOMAIN payload /\ Attr!Here = payload[Key(pos)]
    BY <2>1 DEF Attr!Here, Attr!Of, Key
  <2> QED BY <2>2 DEF AttrInv
<1>8. Settled(Attr!Defs[pos], v)
  BY <1>1, <1>7, CoercedSettles
<1>9. Sure => v = payload[Key(pos)]
  BY <1>1, <1>5, <1>7 DEF InSchema, Normal, Settled
<1> HIDE DEF v
<1>10. DOMAIN out' = DOMAIN out \cup {Key(pos)} /\ out'[Key(pos)] = v
       /\ \A k \in DOMAIN out : k # Key(pos) => out'[k] = out[k]
  BY <1>1 DEF Attr!With
<1>11. Built'
  <2>1. \A i \in DOMAIN Attr!Defs : i < pos + 1 => i < pos \/ i = pos
    BY <1>3, <1>4
  <2>2. (\A i \in DOMAIN Attr!Defs : i < pos => i < pos + 1) /\ pos < pos + 1
    BY <1>3, <1>4
  <2>3. \A i \in DOMAIN Attr!Defs : i < pos => Key(i) # Key(pos)
    BY <1>1, <1>2, <1>4, <1>6, KeysDiffer
  <2>4. ASSUME NEW i \in DOMAIN Attr!Defs, i < pos + 1
        PROVE  IF Key(i) \in DOMAIN out'
               THEN Settled(Attr!Defs[i], out'[Key(i)])
                    /\ (Sure => Key(i) \in DOMAIN payload /\ out'[Key(i)] = payload[Key(i)])
               ELSE ~Attr!Defs[i].required /\ (Sure => Key(i) \notin DOMAIN payload)
    <3>1. CASE i = pos
      BY <1>7, <1>8, <1>9, <1>10, <3>1
    <3>2. CASE i < pos
      <4>1. (Key(i) \in DOMAIN out' <=> Key(i) \in DOMAIN out) /\ (Key(i) \in DOMAIN out => out'[Key(i)] = out[Key(i)])
        BY <1>10, <2>3, <3>2
      <4> QED BY <1>6, <3>2, <4>1 DEF Built
    <3> QED BY <2>1, <2>4, <3>1, <3>2
  <2>5. \A k \in DOMAIN out' : \E i \in DOMAIN Attr!Defs : i < pos + 1 /\ k = Key(i)
    BY <1>1, <1>6, <1>10, <2>2 DEF Built
  <2> QED BY <1>1, <2>4, <2>5, SchemaKept DEF Built
<1>12. InSchema'
  <2>1. pos + 1 \in 0..(Len(Attr!Defs) + 1) /\ pos + 1 # 0
    BY <1>1, <1>3, <1>4
  <2> QED BY <1>1, <1>4, <1>5, <1>11, <2>1, SchemaKept, NormalKept DEF InSchema
<1> QED BY <1>1, <1>2, <1>5, <1>12 DEF AttrInv

LEMMA AgainKeeps ==
  ASSUME Attr!AttributesAssumption, AttrInv, Attr!Again
  PROVE  AttrInv'
<1>1. /\ verdict = "done" /\ first' = <<out>> /\ payload' = out /\ out' = Attr!Empty /\ pos' = 0 /\ verdict' = "running"
      /\ vertical' = vertical /\ vertical \in Verticals /\ first = <<>>
  BY DEF Attr!Again, AttrInv
<1>2. Attr!ExemptSlug(vertical)' = Attr!ExemptSlug(vertical)
  BY <1>1
<1>3. CASE Attr!ExemptSlug(vertical)
  <2>1. out = Attr!Empty
    BY <1>3 DEF AttrInv, Exempted
  <2>2. DOMAIN out = {}
    BY <2>1 DEF Attr!Empty
  <2>3. Exempted'
    BY <1>1, <2>1 DEF Exempted
  <2> QED BY <1>1, <1>2, <1>3, <2>2, <2>3 DEF AttrInv
<1>4. CASE ~Attr!ExemptSlug(vertical)
  <2>1. InSchema
    BY <1>4 DEF AttrInv
  <2>2. pos = Len(Attr!Defs) + 1 /\ Normal(out) /\ Len(Attr!Defs) \in Nat /\ DOMAIN Attr!Defs = 1..Len(Attr!Defs)
    BY <1>1, <2>1, DefsAre DEF InSchema
  <2>3. pos > 0
    BY <2>2
  <2>4. ~Attr!BadConfig(vertical.config)
    BY <2>1, <2>3 DEF InSchema
  <2>5. Normal(payload)'
    BY <1>1, <2>2 DEF Normal, Attr!Defs, Attr!Known, Key
  <2>6. DOMAIN out' = {}
    BY <1>1 DEF Attr!Empty
  <2>7. Built'
    <3>1. \A i \in DOMAIN Attr!Defs : ~(i < 0)
      BY <2>2
    <3> QED BY <1>1, <2>6, <3>1, SchemaKept DEF Built
  <2>8. 0 \in 0..(Len(Attr!Defs) + 1)
    BY <2>2
  <2>9. InSchema'
    BY <1>1, <2>4, <2>5, <2>7, <2>8, SchemaKept DEF InSchema
  <2>10. \A k \in DOMAIN out : Sendable(out[k])
    BY <2>2 DEF Normal, Storable, Sendable
  <2> QED BY <1>1, <1>2, <1>4, <2>9, <2>10 DEF AttrInv
<1> QED BY <1>3, <1>4

(* What is sent again is never refused.                                      *)
LEMMA RefusingKeeps ==
  ASSUME Attr!AttributesAssumption, AttrInv,
         Attr!RefuseConfig \/ Attr!RefuseUnknown \/ Attr!RefuseMissing \/ Attr!RefuseValue
  PROVE  AttrInv'
<1>1. Attr!Running /\ vertical \in Verticals
  BY DEF AttrInv, Attr!RefuseConfig, Attr!RefuseUnknown, Attr!RefuseMissing, Attr!RefuseValue, Attr!AtDefinition
<1>2. Len(Attr!Defs) \in Nat /\ DOMAIN Attr!Defs = 1..Len(Attr!Defs)
  BY <1>1, DefsAre
<1>3. ~Attr!ExemptSlug(vertical)
  <2>1. CASE Attr!RefuseConfig \/ Attr!RefuseUnknown
    BY <2>1 DEF Attr!RefuseConfig, Attr!RefuseUnknown
  <2>2. CASE Attr!RefuseMissing \/ Attr!RefuseValue
    <3>1. pos # 0
      BY <1>2, <2>2 DEF Attr!RefuseMissing, Attr!RefuseValue, Attr!AtDefinition
    <3> QED BY <3>1 DEF AttrInv, Exempted
  <2> QED BY <2>1, <2>2
<1>4. InSchema
  BY <1>3 DEF AttrInv
<1>5. ~Sure
  <2>1. SUFFICES ASSUME Sure PROVE FALSE
    OBVIOUS
  <2>2. Normal(payload) /\ ~Attr!BadConfig(vertical.config)
    BY <1>4, <2>1 DEF InSchema
  <2>3. CASE Attr!RefuseConfig
    BY <2>2, <2>3 DEF Attr!RefuseConfig
  <2>4. CASE Attr!RefuseUnknown
    BY <2>2, <2>4 DEF Attr!RefuseUnknown, Normal
  <2>5. CASE Attr!RefuseMissing \/ Attr!RefuseValue
    <3>1. pos \in DOMAIN Attr!Defs
      BY <2>5 DEF Attr!RefuseMissing, Attr!RefuseValue, Attr!AtDefinition
    <3>2. CASE Key(pos) \in DOMAIN payload
      <4>1. Attr!Here = payload[Key(pos)]
        BY <3>2 DEF Attr!Here, Attr!Of, Key
      <4>2. Settled(Attr!Defs[pos], payload[Key(pos)])
        BY <2>2, <3>1, <3>2 DEF Normal
      <4> QED BY <2>1, <2>5, <3>1, <4>1, <4>2 DEF Settled, Sure, Attr!EmptyOption, Attr!RefuseMissing, Attr!RefuseValue
    <3>3. CASE Key(pos) \notin DOMAIN payload
      <4>1. Attr!Here = Attr!Absent
        BY <3>3 DEF Attr!Here, Attr!Of, Key
      <4>2. ~Attr!Defs[pos].required
        BY <2>2, <3>1, <3>3 DEF Normal
      <4> QED BY <2>5, <4>1, <4>2 DEF Attr!Missing, Attr!RefuseMissing, Attr!RefuseValue
    <3> QED BY <3>2, <3>3
  <2> QED BY <2>3, <2>4, <2>5
<1>6. \E v : v # "done" /\ Attr!End(v)
  BY DEF Attr!RefuseConfig, Attr!RefuseUnknown, Attr!RefuseMissing, Attr!RefuseValue
<1> QED BY <1>1, <1>3, <1>5, <1>6, RefusalKeeps

LEMMA PassRestKeeps ==
  ASSUME Attr!AttributesAssumption, AttrInv, Attr!PassRest
  PROVE  AttrInv'
<1> DEFINE all == \A k \in Attr!Unnamed : k \in WellFormedKeys /\ Attr!Scalar(payload[k])
<1>1. verdict = "running" /\ pos = Len(Attr!Defs) + 1 /\ UNCHANGED <<vertical, payload, pos, first>>
  BY DEF Attr!PassRest, Attr!Running
<1>2. vertical \in Verticals
  BY DEF AttrInv
<1>3. Len(Attr!Defs) \in Nat /\ DOMAIN Attr!Defs = 1..Len(Attr!Defs)
  BY <1>2, DefsAre
<1>4. pos \in Nat /\ pos > 0
  BY <1>1, <1>3
<1>5. InSchema /\ ~Attr!ExemptSlug(vertical)
  BY <1>4 DEF AttrInv, Exempted
<1>6. Built /\ Steady
  BY <1>1, <1>4, <1>5 DEF InSchema
<1>7. \A i \in DOMAIN Attr!Defs : i < pos
  BY <1>1, <1>3
<1>8. DOMAIN out \subseteq Attr!Known
  BY <1>6 DEF Built, Attr!Known, Key
<1>9. \A k : k \in Attr!Unnamed <=> k \in DOMAIN payload /\ k \notin Attr!Known /\ payload[k] # Attr!Absent
  BY DEF Attr!Unnamed
<1>10. CASE ~all
  <2>1. verdict' = "INVALID_ATTRIBUTES" /\ out' = out
    BY <1>10 DEF Attr!PassRest
  <2>2. ~Sure
    <3>1. SUFFICES ASSUME Sure PROVE FALSE
      OBVIOUS
    <3>2. Normal(payload)
      BY <1>5, <3>1 DEF InSchema
    <3> QED BY <1>9, <1>10, <3>2 DEF Normal, Loose
  <2>3. Built'
    BY <1>1, <1>6, <2>1, SchemaKept DEF Built
  <2>4. InSchema'
    BY <1>1, <1>5, <2>1, <2>2, <2>3, SchemaKept, NormalKept DEF InSchema
  <2> QED BY <1>1, <1>2, <1>5, <2>4 DEF AttrInv
<1>11. CASE all
  <2>1. /\ out' = [k \in DOMAIN out \cup Attr!Unnamed |-> IF k \in Attr!Unnamed THEN Attr!Plain(payload[k]) ELSE out[k]]
        /\ verdict' = "done"
    BY <1>11 DEF Attr!PassRest
  <2>2. /\ DOMAIN out' = DOMAIN out \cup Attr!Unnamed
        /\ \A k \in DOMAIN out : out'[k] = out[k]
        /\ \A k \in Attr!Unnamed : out'[k] = Attr!Plain(payload[k])
    BY <1>8, <1>9, <2>1
  <2>3. \A k \in Attr!Unnamed : k \in WellFormedKeys /\ Loose(Attr!Plain(payload[k]))
    <3>1. MaxLength \in Nat \ {0}
      BY DEF Attr!AttributesAssumption
    <3>2. TAKE k \in Attr!Unnamed
    <3>3. Sendable(payload[k]) /\ payload[k] # Attr!Absent /\ Attr!Scalar(payload[k]) /\ k \in WellFormedKeys
      BY <1>9, <1>11 DEF AttrInv
    <3> QED BY <3>1, <3>3, PlainLoosens
  <2>a. \A k \in Attr!Unnamed : k \in WellFormedKeys /\ Loose(out'[k])
    <3>1. TAKE k \in Attr!Unnamed
    <3>2. out'[k] = Attr!Plain(payload[k])
      BY <2>2
    <3>3. k \in WellFormedKeys /\ Loose(Attr!Plain(payload[k]))
      BY <2>3
    <3> QED BY <3>2, <3>3
  <2>4. \A i \in DOMAIN Attr!Defs : Key(i) \in Attr!Known
    BY DEF Attr!Known, Key
  <2>5. \A i \in DOMAIN Attr!Defs :
          IF Key(i) \in DOMAIN out' THEN Settled(Attr!Defs[i], out'[Key(i)]) ELSE ~Attr!Defs[i].required
    BY <1>6, <1>7, <1>9, <2>2, <2>4 DEF Built
  <2>6. \A k \in DOMAIN out' : Storable(out'[k])
    <3>1. \A k \in DOMAIN out : Storable(out[k])
      BY <1>6 DEF Built, Settled
    <3> QED BY <2>2, <2>a, <3>1 DEF Loose
  <2>7. \A k \in DOMAIN out' \ Attr!Known : k \in WellFormedKeys /\ Loose(out'[k])
    BY <1>8, <2>2, <2>a
  <2>8. vertical.config.allowUnknown \/ DOMAIN out' \subseteq Attr!Known
    BY <1>6, <1>8, <1>9, <2>2 DEF Steady
  <2>9. Normal(out)'
    <3>1. vertical.config' = vertical.config
      BY <1>1
    <3> QED BY <1>1, <2>5, <2>6, <2>7, <2>8, <3>1, SchemaKept DEF Normal
  <2>10. ASSUME Sure PROVE Same'
    <3>1. Normal(payload)
      BY <1>5, <2>10 DEF InSchema
    <3>2. \A k \in DOMAIN payload : payload[k] # Attr!Absent
      BY <3>1, AbsentIs DEF Normal, Storable
    <3>3. \A k \in DOMAIN out : k \in DOMAIN payload /\ out[k] = payload[k]
      BY <1>6, <2>10 DEF Built
    <3>4. \A k \in DOMAIN payload : k \in Attr!Known => k \in DOMAIN out
      <4>1. SUFFICES ASSUME NEW k \in DOMAIN payload, k \in Attr!Known PROVE k \in DOMAIN out
        OBVIOUS
      <4>2. PICK i \in DOMAIN Attr!Defs : k = Key(i)
        BY <4>1 DEF Attr!Known, Key
      <4> QED BY <1>6, <1>7, <2>10, <4>1, <4>2 DEF Built
    <3>5. DOMAIN out' = DOMAIN payload
      BY <1>9, <2>2, <3>2, <3>3, <3>4
    <3>6. \A k \in DOMAIN out' : \/ out'[k] = payload[k]
                                 \/ k \notin Attr!Known /\ Attr!CutAtBlank(payload[k], out'[k])
      <4>1. \A k \in Attr!Unnamed : Loose(payload[k])
        BY <1>9, <3>1 DEF Normal
      <4>2. ASSUME NEW k \in Attr!Unnamed
            PROVE  out'[k] = payload[k] \/ (k \notin Attr!Known /\ Attr!CutAtBlank(payload[k], out'[k]))
        <5>1. out'[k] = Attr!Plain(payload[k]) /\ k \notin Attr!Known /\ Loose(payload[k])
          BY <1>9, <2>2, <4>1
        <5> QED BY <5>1 DEF Loose
      <4> QED BY <2>2, <3>3, <4>2
    <3> QED BY <1>1, <3>5, <3>6, SchemaKept DEF Same, Attr!CutAtBlank
  <2>11. InSchema'
    <3>1. pos' \in 0..(Len(Attr!Defs) + 1)
      BY <1>1, <1>3
    <3> QED BY <1>1, <1>4, <1>5, <2>1, <2>9, <2>10, <3>1, SchemaKept, NormalKept DEF InSchema
  <2> QED BY <1>1, <1>2, <1>5, <2>11 DEF AttrInv
<1> QED BY <1>10, <1>11

LEMMA AttrStep ==
  ASSUME Attr!AttributesAssumption, AttrInv, Attr!Next
  PROVE  AttrInv'
  BY ExemptKeeps, RefusingKeeps, BeginKeeps, SkipKeeps, TakeKeeps, PassRestKeeps, AgainKeeps DEF Attr!Next

LEMMA AttrIsSound ==
  ASSUME Attr!AttributesAssumption, AttrInv
  PROVE  Attr!TypeOK /\ Attr!Conforms /\ Attr!Normalised /\ Attr!JobsExempt
<1>1. Len(Attr!Defs) \in Nat /\ DOMAIN Attr!Defs = 1..Len(Attr!Defs)
  BY DefsAre DEF AttrInv
<1>2. CASE Attr!ExemptSlug(vertical)
  <2>1. Exempted
    BY <1>2 DEF AttrInv
  <2>2. DOMAIN Attr!Empty = {}
    BY DEF Attr!Empty
  <2>3. Attr!TypeOK
    <3>1. 0 \in 0..(Len(Attr!Defs) + 1)
      BY <1>1
    <3>2. Len(first) \in 0..1
      BY DEF AttrInv
    <3> QED BY <2>1, <2>2, <3>1, <3>2 DEF Attr!TypeOK, Exempted
  <2>4. Attr!Normalised
    <3>1. first # <<>> => first[1] = payload
      BY DEF AttrInv
    <3> QED BY <2>1, <2>2, <3>1 DEF Attr!Normalised, Exempted
  <2> QED BY <1>2, <2>1, <2>3, <2>4 DEF Attr!Conforms, Attr!JobsExempt, Exempted
<1>3. CASE ~Attr!ExemptSlug(vertical)
  <2>1. InSchema
    BY <1>3 DEF AttrInv
  <2>2. \A k \in DOMAIN out : Storable(out[k])
    BY <2>1 DEF InSchema, Built, Normal, Settled
  <2>3. Attr!TypeOK
    <3>1. Len(first) \in 0..1
      BY DEF AttrInv
    <3> QED BY <2>1, <2>2, <3>1 DEF InSchema, Attr!TypeOK, Storable
  <2>4. Attr!Conforms
    BY <2>1 DEF InSchema, Normal, Settled, Attr!Conforms, Key
  <2>5. Attr!Normalised
    <3>1. first # <<>> => first[1] = payload
      BY DEF AttrInv
    <3> QED BY <2>1, <3>1 DEF Attr!Normalised, InSchema, Same, Sure
  <2>6. Attr!JobsExempt
    BY <1>3 DEF Attr!JobsExempt, Attr!ExemptSlug
  <2> QED BY <2>3, <2>4, <2>5, <2>6
<1> QED BY <1>2, <1>3

-----------------------------------------------------------------------------
(***************************************************************************)
(* Recommendation: scores, the sort and the pages.                         *)
(***************************************************************************)
LEMMA RecSets == /\ \A S : Rec!IsFiniteSet(S) <=> IsFiniteSet(S)
                 /\ \A S : Rec!Cardinality(S) = Cardinality(S)
  BY DEF Rec!IsFiniteSet, Rec!Cardinality, IsFiniteSet, Cardinality

LEMMA DivIs ==
  ASSUME NEW x \in Nat, NEW d \in Nat \ {0}
  PROVE  x \div d \in Nat
  OBVIOUS

LEMMA ValuesAre ==
  /\ \A v \in {0, 2500, 4000, 5000, 5500, 6000, 8500, 10000} : v \in Rec!Values
  /\ Rec!Full = 10000 /\ Rec!Half = 5000 /\ Rec!Half \in Rec!Values
  /\ \A v \in Rec!Values : v \in Int /\ 0 <= v /\ v <= 10000
  /\ \A v \in Int : 0 <= v /\ v <= 10000 => v \in Rec!Values
  BY DEF Rec!Values, Rec!Full, Rec!Half

LEMMA CappedIs ==
  ASSUME NEW x \in Nat
  PROVE  Rec!Capped(x) \in Rec!Values
  BY DEF Rec!Capped, Rec!Values, Rec!Full

LEMMA OverlapIs ==
  ASSUME NEW a, IsFiniteSet(a), NEW b
  PROVE  Rec!Overlap(a, b) \in Rec!Values
<1>1. CASE a = {}
  BY <1>1 DEF Rec!Overlap, Rec!Values, Rec!Full
<1>2. CASE a # {}
  <2> DEFINE most == IF Cardinality(a) < 8 THEN Cardinality(a) ELSE 8
             hits == Cardinality(a \cap b)
  <2>1. Cardinality(a) \in Nat \ {0}
    BY <1>2, FS_CardinalityType, FS_EmptySet
  <2>2. hits \in Nat
    BY FS_Subset, FS_CardinalityType
  <2>3. most \in Nat \ {0}
    BY <2>1
  <2>4. Rec!Overlap(a, b) = Rec!Capped((hits * 10000) \div most)
    BY <1>2, RecSets DEF Rec!Overlap, Rec!Full
  <2> HIDE DEF most, hits
  <2>5. hits * 10000 \in Nat
    BY <2>2
  <2> QED BY <2>3, <2>4, <2>5, DivIs, CappedIs
<1> QED BY <1>1, <1>2

LEMMA LocationIs ==
  ASSUME NEW j, NEW q
  PROVE  Rec!Location(j, q) \in Rec!Values
<1>1. \A km : Rec!Near(km) \in Rec!Values
  <2> SUFFICES ASSUME NEW km PROVE Rec!Near(km) \in Rec!Values
    OBVIOUS
  <2> QED BY DEF Rec!Near, Rec!Values, Rec!Full
<1>2. 10000 \in Rec!Values /\ 5500 \in Rec!Values /\ 0 \in Rec!Values /\ Rec!Full = 10000
  BY ValuesAre
<1>3. CASE q.place # Rec!None /\ j.city \in DOMAIN Distance[q.place]
  <2>1. Rec!Location(j, q) = Rec!Near(Distance[q.place][j.city])
    BY <1>3 DEF Rec!Location
  <2> QED BY <1>1, <2>1
<1>4. CASE ~(q.place # Rec!None /\ j.city \in DOMAIN Distance[q.place])
  <2>1. Rec!Location(j, q) \in {10000, 5500, 0}
    BY <1>2, <1>4 DEF Rec!Location
  <2> QED BY <1>2, <2>1
<1> QED BY <1>3, <1>4

LEMMA SalaryIs ==
  ASSUME Rec!RecommendationAssumption, NEW mine \in SUBSET Applications, NEW j \in Jobs
  PROVE  Rec!Salary(Job[j], Rec!ProfileOf(mine)) \in Rec!Values
<1> DEFINE sal == Rec!Salaries(mine)
           pairs == {r \in sal \X sal : \A s \in sal : r[1] <= s /\ s <= r[2]}
           both == CHOOSE s \in pairs : TRUE
           twice == both[1] + both[2]
           pay == Job[j].pay
<1>1. sal \subseteq Nat \ {0}
  BY DEF Rec!Salaries, Rec!JobsOf, Rec!RecommendationAssumption
<1>2. Rec!ProfileOf(mine).salaries = pairs
  BY DEF Rec!ProfileOf
<1>3. pay \in Nat
  BY DEF Rec!RecommendationAssumption
<1>4. CASE pay = 0 \/ pairs = {}
  <2>1. Rec!Salary(Job[j], Rec!ProfileOf(mine)) = Rec!Half
    BY <1>2, <1>4 DEF Rec!Salary
  <2> QED BY <2>1, ValuesAre
<1>5. CASE ~(pay = 0 \/ pairs = {})
  <2>1. both \in pairs
    BY <1>5
  <2>a. both \in sal \X sal
    BY <2>1
  <2> HIDE DEF both, pairs, sal
  <2>2. both[1] \in Nat \ {0} /\ both[2] \in Nat \ {0}
    BY <1>1, <2>a
  <2>3. twice \in Nat \ {0}
    BY <2>2
  <2> USE DEF both
  <2>4. Rec!Salary(Job[j], Rec!ProfileOf(mine)) = 10000 - Rec!Capped((Rec!Abs(2 * pay - twice) * 10000) \div twice)
    BY <1>2, <1>5 DEF Rec!Salary, Rec!Full
  <2> HIDE DEF twice, pay, both
  <2>5. Rec!Abs(2 * pay - twice) * 10000 \in Nat
    BY <1>3, <2>3 DEF Rec!Abs
  <2>6. Rec!Capped((Rec!Abs(2 * pay - twice) * 10000) \div twice) \in Rec!Values
    <3> DEFINE far == Rec!Abs(2 * pay - twice) * 10000
    <3>1. far \in Nat
      BY <2>5
    <3> HIDE DEF far
    <3>2. far \div twice \in Nat
      BY <2>3, <3>1, DivIs
    <3>3. Rec!Capped(far \div twice) \in Rec!Values
      BY <3>2, CappedIs
    <3> QED BY <3>3 DEF far
  <2>7. \A v \in Rec!Values : 10000 - v \in Rec!Values
    <3>1. TAKE v \in Rec!Values
    <3>2. 10000 - v \in Int /\ 0 <= 10000 - v /\ 10000 - v <= 10000
      BY ValuesAre
    <3> QED BY <3>2, ValuesAre
  <2> QED BY <2>4, <2>6, <2>7
<1> QED BY <1>4, <1>5

(* What the loop knows of a job is between 0 and 1. *)
LEMMA ScoresAre ==
  ASSUME Rec!RecommendationAssumption, NEW mine \in SUBSET Applications, NEW j \in Jobs, NEW q
  PROVE  Rec!ScoresOf(Job[j], Rec!ProfileOf(mine), q) \in Rec!Scores
<1> DEFINE p == Rec!ProfileOf(mine)
           row == Job[j]
           known == IF row.kind \in p.kinds THEN 10000 ELSE 5000
           acts == Rec!Capped(p.interactions * 1000)
<1>1. IsFiniteSet(Applications) /\ \A a \in Applications : IsFiniteSet(a.skills)
  BY RecSets DEF Rec!RecommendationAssumption
<1>2. IsFiniteSet(mine)
  BY <1>1, FS_Subset
<1>3. IsFiniteSet(p.skills)
  <2> DEFINE T == {a.skills : a \in mine}
             M == [a \in mine |-> a.skills]
  <2>1. M \in Surjection(mine, T)
    BY DEF Surjection
  <2>2. IsFiniteSet(T)
    BY <1>2, <2>1, FS_Surjection
  <2>3. \A X \in T : IsFiniteSet(X)
    BY <1>1
  <2>4. p.skills = UNION T
    BY DEF Rec!ProfileOf
  <2> HIDE DEF T, p
  <2> QED BY <2>2, <2>3, <2>4, FS_UNION
<1>4. Rec!Overlap(p.skills, row.words) \in Rec!Values
  BY <1>3, OverlapIs
<1>5. Rec!Category(row, p) \in Rec!Values /\ Rec!WorkMode(row) \in Rec!Values
  BY DEF Rec!Category, Rec!WorkMode, Rec!Values, Rec!Full
<1>6. acts \in Rec!Values
  <2> DEFINE num == Cardinality(mine)
  <2>1. p.interactions = num
    BY RecSets DEF Rec!ProfileOf
  <2>2. num \in Nat
    BY <1>2, FS_CardinalityType
  <2>3. acts = Rec!Capped(num * 1000)
    BY <2>1
  <2> HIDE DEF num, acts, known
  <2>4. num * 1000 \in Nat
    BY <2>2
  <2> QED BY <2>3, <2>4, CappedIs
<1>7. (acts + known) \div 2 \in Rec!Values
  <2>1. known \in Rec!Values
    BY ValuesAre
  <2> HIDE DEF acts, known
  <2>2. acts \in Int /\ 0 <= acts /\ acts <= 10000 /\ known \in Int /\ 0 <= known /\ known <= 10000
    BY <1>6, <2>1, ValuesAre
  <2>3. (acts + known) \div 2 \in Int /\ 0 <= (acts + known) \div 2 /\ (acts + known) \div 2 <= 10000
    BY <2>2
  <2> QED BY <2>3, ValuesAre
<1>8. Rec!Freshness(row) \in Rec!Values
  <2>1. row.updated >= Today \/ Decay[Today - row.updated] \in Rec!Values
    BY DEF Rec!RecommendationAssumption
  <2>2. 10000 \in Rec!Values
    BY ValuesAre
  <2> HIDE DEF row
  <2>3. Rec!Freshness(row) = IF row.updated >= Today THEN 10000 ELSE Decay[Today - row.updated]
    BY DEF Rec!Freshness, Rec!Full
  <2> QED BY <2>1, <2>2, <2>3
<1>9. Rec!Salary(row, p) \in Rec!Values
  BY SalaryIs
<1>10. Rec!Location(row, q) \in Rec!Values
  BY LocationIs
<1>11. 0 \in Rec!Values /\ (IF q.categoryId = row.category THEN 10000 ELSE Rec!Category(row, p)) \in Rec!Values
  <2> HIDE DEF row, p
  <2> QED BY <1>5, ValuesAre
<1> DEFINE s == Rec!ScoresOf(row, p, q)
<1>12. s = [skills |-> Rec!Overlap(p.skills, row.words), category |-> Rec!Category(row, p), experience |-> 0,
            location |-> Rec!Location(row, q), workMode |-> Rec!WorkMode(row), salary |-> Rec!Salary(row, p),
            preference |-> IF q.categoryId = row.category THEN 10000 ELSE Rec!Category(row, p),
            behavior |-> (acts + known) \div 2, freshness |-> Rec!Freshness(row)]
  BY DEF Rec!ScoresOf, Rec!Full, Rec!Half
<1> HIDE DEF p, row, known, acts
<1>13. s \in Rec!Scores
  BY <1>4, <1>5, <1>7, <1>8, <1>9, <1>10, <1>11, <1>12 DEF Rec!Scores, Rec!Weights
<1> QED BY <1>13 DEF s, p, row
(* A component loses at most half a tenth of a point when it is shown.       *)
LEMMA ShownIs ==
  ASSUME NEW v \in Rec!Values
  PROVE  /\ Rec!ShownValue(v) \in Rec!Values
         /\ v - 5 <= Rec!ShownValue(v) /\ Rec!ShownValue(v) <= v + 5
<1> DEFINE tenths == (v + 5) \div 10
<1>1. v \in Int /\ 0 <= v /\ v <= 10000
  BY ValuesAre
<1>2. Rec!ShownValue(v) = tenths * 10
  BY <1>1 DEF Rec!ShownValue, Rec!Rounded
<1>3. tenths \in Int /\ 10 * tenths <= v + 5 /\ v + 5 < 10 * tenths + 10
  BY <1>1
<1> HIDE DEF tenths
<1>4. tenths * 10 \in Int /\ 0 <= tenths * 10 /\ tenths * 10 <= 10000
  BY <1>1, <1>3
<1>5. v - 5 <= tenths * 10 /\ tenths * 10 <= v + 5
  BY <1>1, <1>3
<1>6. tenths * 10 \in Rec!Values
  BY <1>4, ValuesAre
<1> QED BY <1>2, <1>5, <1>6

Components == {"skills", "category", "experience", "location", "workMode",
               "salary", "preference", "behavior", "freshness"}

LEMMA FieldsAre ==
  ASSUME NEW s \in Rec!Scores
  PROVE  /\ DOMAIN s = Components
         /\ \A c \in Components : s[c] \in Rec!Values /\ s[c] \in Int /\ 0 <= s[c] /\ s[c] <= 10000
<1>1. DOMAIN Rec!Weights = Components
  BY DEF Rec!Weights, Components
<1>2. s \in [Components -> Rec!Values]
  BY <1>1 DEF Rec!Scores
<1>3. \A v \in Rec!Values : v \in Int /\ 0 <= v /\ v <= 10000
  BY ValuesAre
<1> QED BY <1>2, <1>3

(* The weights sum to 100.                                                   *)
LEMMA WeightedIs ==
  ASSUME NEW s \in Rec!Scores
  PROVE  Rec!Weighted(s) \in Int /\ 0 <= Rec!Weighted(s) /\ Rec!Weighted(s) <= 100 * 10000
<1> DEFINE a == s["skills"]  b == s["category"]  c == s["experience"]  d == s["location"]  e == s["workMode"]
           f == s["salary"]  g == s["preference"]  h == s["behavior"]  i == s["freshness"]
<1>1. Rec!Weighted(s) = 20 * a + 15 * b + 15 * c + 10 * d + 10 * e + 10 * f + 10 * g + 5 * h + 5 * i
  BY DEF Rec!Weighted, Rec!Weights
<1>2. /\ a \in Int /\ 0 <= a /\ a <= 10000 /\ b \in Int /\ 0 <= b /\ b <= 10000
      /\ c \in Int /\ 0 <= c /\ c <= 10000 /\ d \in Int /\ 0 <= d /\ d <= 10000
      /\ e \in Int /\ 0 <= e /\ e <= 10000 /\ f \in Int /\ 0 <= f /\ f <= 10000
      /\ g \in Int /\ 0 <= g /\ g <= 10000 /\ h \in Int /\ 0 <= h /\ h <= 10000
      /\ i \in Int /\ 0 <= i /\ i <= 10000
  BY FieldsAre DEF Components
<1> HIDE DEF a, b, c, d, e, f, g, h, i
<1> QED BY <1>1, <1>2

(* Nine roundings, weighed, stay within 0.05 points.                         *)
LEMMA RoundingsAgree ==
  ASSUME NEW s \in Rec!Scores
  PROVE  /\ Rec!Shown(s) \in Rec!Scores
         /\ -500 <= Rec!Weighted(s) - Rec!Weighted(Rec!Shown(s))
         /\ Rec!Weighted(s) - Rec!Weighted(Rec!Shown(s)) <= 500
<1> DEFINE t == Rec!Shown(s)
           diff(c) == s[c] - t[c]
<1>1. DOMAIN s = Components /\ \A c \in Components : s[c] \in Rec!Values
  BY FieldsAre
<1>2. t = [c \in Components |-> Rec!ShownValue(s[c])]
  BY <1>1 DEF Rec!Shown
<1> HIDE DEF t
<1>3. \A c \in Components : t[c] \in Rec!Values /\ s[c] - 5 <= t[c] /\ t[c] <= s[c] + 5
  BY <1>1, <1>2, ShownIs
<1>4. t \in Rec!Scores
  <2>1. DOMAIN Rec!Weights = Components
    BY DEF Rec!Weights, Components
  <2>2. t \in [Components -> Rec!Values]
    BY <1>2, <1>3
  <2> QED BY <2>1, <2>2 DEF Rec!Scores
<1>5. ASSUME NEW c \in Components PROVE s[c] \in Int /\ t[c] \in Int /\ -5 <= diff(c) /\ diff(c) <= 5
  <2>1. s[c] \in Int /\ t[c] \in Int
    BY <1>4, FieldsAre
  <2>2. s[c] - 5 <= t[c] /\ t[c] <= s[c] + 5
    BY <1>3
  <2> QED BY <2>1, <2>2
<1> DEFINE a == s["skills"]  b == s["category"]  c == s["experience"]  d == s["location"]  e == s["workMode"]
           f == s["salary"]  g == s["preference"]  h == s["behavior"]  i == s["freshness"]
           u == t["skills"]  v == t["category"]  w == t["experience"]  x == t["location"]  y == t["workMode"]
           z == t["salary"]  k == t["preference"]  l == t["behavior"]  m == t["freshness"]
<1>6. /\ Rec!Weighted(s) = 20 * a + 15 * b + 15 * c + 10 * d + 10 * e + 10 * f + 10 * g + 5 * h + 5 * i
      /\ Rec!Weighted(t) = 20 * u + 15 * v + 15 * w + 10 * x + 10 * y + 10 * z + 10 * k + 5 * l + 5 * m
  BY DEF Rec!Weighted, Rec!Weights
<1>7. /\ a \in Int /\ u \in Int /\ -5 <= a - u /\ a - u <= 5 /\ b \in Int /\ v \in Int /\ -5 <= b - v /\ b - v <= 5
      /\ c \in Int /\ w \in Int /\ -5 <= c - w /\ c - w <= 5 /\ d \in Int /\ x \in Int /\ -5 <= d - x /\ d - x <= 5
      /\ e \in Int /\ y \in Int /\ -5 <= e - y /\ e - y <= 5 /\ f \in Int /\ z \in Int /\ -5 <= f - z /\ f - z <= 5
      /\ g \in Int /\ k \in Int /\ -5 <= g - k /\ g - k <= 5 /\ h \in Int /\ l \in Int /\ -5 <= h - l /\ h - l <= 5
      /\ i \in Int /\ m \in Int /\ -5 <= i - m /\ i - m <= 5
  BY <1>5 DEF Components
<1> HIDE DEF a, b, c, d, e, f, g, h, i, u, v, w, x, y, z, k, l, m
<1>8. -500 <= Rec!Weighted(s) - Rec!Weighted(t) /\ Rec!Weighted(s) - Rec!Weighted(t) <= 500
  BY <1>6, <1>7
<1> QED BY <1>4, <1>8 DEF t

LEMMA ScoreIs ==
  ASSUME NEW s \in Rec!Scores, NEW p \in {85, 100}
  PROVE  Rec!ScoreOf(s, p) \in 0..Rec!Full /\ Rec!Explained(s, Rec!Shown(s), p)
<1> DEFINE w == Rec!Weighted(s)
           x == Rec!Weighted(Rec!Shown(s))
<1>1. w \in Int /\ 0 <= w /\ w <= 100 * 10000
  BY WeightedIs
<1>2. x \in Int /\ -500 <= w - x /\ w - x <= 500
  BY RoundingsAgree, WeightedIs
<1>3. Rec!ScoreOf(s, p) = (w * p + 5000) \div 10000
  BY DEF Rec!ScoreOf, Rec!Rounded, Rec!Full
<1>4. Rec!Explained(s, Rec!Shown(s), p) <=> Rec!Abs(w * p - x * p) <= 5 * 100 * 100
  BY DEF Rec!Explained
<1> HIDE DEF w, x
<1>5. (w * p + 5000) \div 10000 \in Rec!Values
  <2> DEFINE n == w * p + 5000
  <2>1. n \in Int /\ 5000 <= n /\ n <= 100005000
    <3>1. CASE p = 100
      BY <1>1, <3>1
    <3>2. CASE p = 85
      BY <1>1, <3>2
    <3> QED BY <3>1, <3>2
  <2> DEFINE points == n \div 10000
  <2> HIDE DEF n
  <2>2. points \in Int /\ 10000 * points <= n /\ n < 10000 * points + 10000
    BY <2>1
  <2> HIDE DEF points
  <2>3. 0 <= points /\ points <= 10000
    BY <2>1, <2>2
  <2>4. points \in Rec!Values
    BY <2>2, <2>3, ValuesAre
  <2> QED BY <2>4 DEF n, points
<1>6. Rec!Abs(w * p - x * p) <= 5 * 100 * 100
  <2>1. CASE p = 100
    <3>1. Rec!Abs(w * 100 - x * 100) <= 5 * 100 * 100
      BY <1>1, <1>2 DEF Rec!Abs
    <3> QED BY <2>1, <3>1
  <2>2. CASE p = 85
    <3>1. Rec!Abs(w * 85 - x * 85) <= 5 * 100 * 100
      BY <1>1, <1>2 DEF Rec!Abs
    <3> QED BY <2>2, <3>1
  <2> QED BY <2>1, <2>2
<1>7. Rec!ScoreOf(s, p) \in 0..Rec!Full
  BY <1>3, <1>5 DEF Rec!Values
<1> QED BY <1>4, <1>6, <1>7

LEMMA ItemIs ==
  ASSUME Rec!RecommendationAssumption, apps \in SUBSET Applications, NEW j \in Jobs
  PROVE  /\ Rec!Item(j) \in Rec!Items /\ Rec!Item(j).job = j
         /\ Rec!Explained(Rec!Item(j).scores, Rec!Item(j).shown, Rec!Item(j).penalty)
<1> DEFINE s == Rec!ScoresOf(Job[j], Rec!ProfileOf(apps), query)
           p == Rec!DiversityPenalty(Job[j], seen)
<1>1. Rec!Item(j) = [job |-> j, scores |-> s, shown |-> Rec!Shown(s), penalty |-> p, score |-> Rec!ScoreOf(s, p)]
  BY DEF Rec!Item
<1>2. s \in Rec!Scores
  BY ScoresAre
<1>3. p \in {85, 100}
  BY DEF Rec!DiversityPenalty
<1> HIDE DEF s, p
<1>4. Rec!Shown(s) \in Rec!Scores /\ Rec!ScoreOf(s, p) \in 0..Rec!Full /\ Rec!Explained(s, Rec!Shown(s), p)
  BY <1>2, <1>3, RoundingsAgree, ScoreIs
<1> QED BY <1>1, <1>2, <1>3, <1>4 DEF Rec!Items
(* Ahead is a strict total order of the places of a list.                    *)
Places(s) == 1..Len(s)
LEMMA AheadOrders ==
  ASSUME Rec!RecommendationAssumption, NEW s \in Seq(Rec!Items)
  PROVE  /\ DOMAIN s = Places(s) /\ Len(s) \in Nat
         /\ \A i \in Places(s) : ~Rec!Ahead(s, i, i)
         /\ \A i, k \in Places(s) : i # k => Rec!Ahead(s, i, k) \/ Rec!Ahead(s, k, i)
         /\ \A i, k, m \in Places(s) : Rec!Ahead(s, i, k) /\ Rec!Ahead(s, k, m) => Rec!Ahead(s, i, m)
         /\ \A i, k \in Places(s) : Rec!Ahead(s, i, k) => Rec!Compare(s[i], s[k]) <= 0
<1> DEFINE score(i) == s[i].score
           moment(i) == Job[s[i].job].updated
<1>1. DOMAIN s = Places(s) /\ Len(s) \in Nat
  BY DEF Places
<1>2. \A i \in Places(s) : i \in Int /\ score(i) \in Int /\ moment(i) \in Int
  <2>1. TAKE i \in Places(s)
  <2>2. s[i] \in Rec!Items
    BY <1>1
  <2>3. s[i].score \in 0..Rec!Full /\ s[i].job \in Jobs
    BY <2>2 DEF Rec!Items
  <2>4. score(i) \in Int
    <3>1. \A x \in 0..Rec!Full : x \in Int
      BY DEF Rec!Full
    <3> QED BY <2>3, <3>1
  <2>5. \A j \in Jobs : Job[j].updated \in Int
    BY DEF Rec!RecommendationAssumption
  <2>6. i \in Int
    BY <2>1 DEF Places
  <2> QED BY <2>3, <2>4, <2>5, <2>6
<1>3. \A i, k : Rec!Compare(s[i], s[k]) =
                  IF score(i) # score(k) THEN score(k) - score(i) ELSE moment(k) - moment(i)
  BY DEF Rec!Compare
<1>4. \A i, k : Rec!Ahead(s, i, k) <=>
                  (Rec!Compare(s[i], s[k]) < 0 \/ (Rec!Compare(s[i], s[k]) = 0 /\ i < k))
  BY DEF Rec!Ahead
<1> HIDE DEF score, moment
<1>5. \A i, k \in Places(s) :
        Rec!Ahead(s, i, k) <=> \/ score(k) < score(i)
                               \/ score(k) = score(i) /\ moment(k) < moment(i)
                               \/ score(k) = score(i) /\ moment(k) = moment(i) /\ i < k
  <2>1. TAKE i \in Places(s), k \in Places(s)
  <2>2. i \in Int /\ k \in Int /\ score(i) \in Int /\ score(k) \in Int /\ moment(i) \in Int /\ moment(k) \in Int
    BY <1>2
  <2>3. CASE score(i) # score(k)
    <3>1. Rec!Compare(s[i], s[k]) = score(k) - score(i)
      BY <1>3, <2>3
    <3> QED BY <1>4, <2>2, <2>3, <3>1
  <2>4. CASE score(i) = score(k)
    <3>1. Rec!Compare(s[i], s[k]) = moment(k) - moment(i)
      BY <1>3, <2>4
    <3> QED BY <1>4, <2>2, <2>4, <3>1
  <2> QED BY <2>3, <2>4
<1>6. \A i \in Places(s) : ~Rec!Ahead(s, i, i)
  BY <1>2, <1>5
<1>7. \A i, k \in Places(s) : i # k => Rec!Ahead(s, i, k) \/ Rec!Ahead(s, k, i)
  BY <1>2, <1>5
<1>8. \A i, k, m \in Places(s) : Rec!Ahead(s, i, k) /\ Rec!Ahead(s, k, m) => Rec!Ahead(s, i, m)
  BY <1>2, <1>5
<1>9. \A i, k \in Places(s) : Rec!Ahead(s, i, k) => Rec!Compare(s[i], s[k]) <= 0
  <2>1. TAKE i \in Places(s), k \in Places(s)
  <2>2. Rec!Compare(s[i], s[k]) \in Int
    BY <1>2, <1>3
  <2> QED BY <1>4, <2>2
<1> QED BY <1>1, <1>6, <1>7, <1>8, <1>9

(* The places are taken once each.                                           *)
LEMMA PlacesAre ==
  ASSUME Rec!RecommendationAssumption, NEW s \in Seq(Rec!Items)
  PROVE  /\ \A k \in Places(s) : Rec!PlaceOf(s, k) \in Places(s)
         /\ \A i, k \in Places(s) : Rec!Ahead(s, i, k) <=> Rec!PlaceOf(s, i) < Rec!PlaceOf(s, k)
         /\ \A i, k \in Places(s) : Rec!PlaceOf(s, i) = Rec!PlaceOf(s, k) => i = k
         /\ \A v \in Places(s) : \E k \in Places(s) : Rec!PlaceOf(s, k) = v
<1> DEFINE Before(k) == {i \in Places(s) : Rec!Ahead(s, i, k)}
           rank == [k \in Places(s) |-> Cardinality(Before(k)) + 1]
           n == Len(s)
<1>1. n \in Nat /\ DOMAIN s = Places(s) /\ Places(s) = 1..n
  BY AheadOrders DEF Places
<1>2. IsFiniteSet(Places(s)) /\ Cardinality(Places(s)) = n
  BY <1>1, FS_Interval
<1>3. \A k \in Places(s) : /\ IsFiniteSet(Before(k)) /\ Cardinality(Before(k)) \in Nat
                           /\ Cardinality(Before(k)) < n
  <2> SUFFICES ASSUME NEW k \in Places(s)
               PROVE  /\ IsFiniteSet(Before(k)) /\ Cardinality(Before(k)) \in Nat
                      /\ Cardinality(Before(k)) < n
    OBVIOUS
  <2>1. Before(k) \in SUBSET Places(s) /\ k \notin Before(k) /\ k \in Places(s)
    BY AheadOrders
  <2> HIDE DEF Before, n
  <2>2. IsFiniteSet(Before(k)) /\ Cardinality(Before(k)) <= Cardinality(Places(s))
        /\ (Cardinality(Places(s)) = Cardinality(Before(k)) => Places(s) = Before(k))
    BY <1>2, <2>1, FS_Subset
  <2>3. Cardinality(Before(k)) \in Nat
    BY <2>2, FS_CardinalityType
  <2> QED BY <1>1, <1>2, <2>1, <2>2, <2>3
<1>4. \A i, k \in Places(s) : Rec!Ahead(s, i, k) => rank[i] < rank[k]
  <2> SUFFICES ASSUME NEW i \in Places(s), NEW k \in Places(s), Rec!Ahead(s, i, k)
               PROVE  rank[i] < rank[k]
    OBVIOUS
  <2>1. Before(i) \in SUBSET Before(k) /\ i \in Before(k) /\ i \notin Before(i)
    BY AheadOrders
  <2> HIDE DEF Before
  <2>2. Before(i) # Before(k)
    BY <2>1
  <2>3. Cardinality(Before(i)) <= Cardinality(Before(k))
    BY <1>3, <2>1, FS_Subset
  <2>4. Cardinality(Before(i)) # Cardinality(Before(k))
    BY <1>3, <2>1, <2>2, FS_Subset
  <2>5. rank[i] = Cardinality(Before(i)) + 1 /\ rank[k] = Cardinality(Before(k)) + 1
    OBVIOUS
  <2>6. Cardinality(Before(i)) \in Nat /\ Cardinality(Before(k)) \in Nat
    BY <1>3
  <2> HIDE DEF rank
  <2> QED BY <2>3, <2>4, <2>5, <2>6
<1>5. rank \in [Places(s) -> 1..n]
  <2> HIDE DEF Before, n
  <2> QED BY <1>1, <1>3
<1>6. \A k \in Places(s) : Rec!PlaceOf(s, k) = rank[k]
  <2>1. TAKE k \in Places(s)
  <2>2. Rec!PlaceOf(s, k) = 1 + Cardinality(Before(k))
    BY <1>1, RecSets DEF Rec!PlaceOf
  <2>3. rank[k] = Cardinality(Before(k)) + 1 /\ Cardinality(Before(k)) \in Nat
    BY <1>3
  <2> HIDE DEF rank, Before
  <2> QED BY <2>2, <2>3
<1> HIDE DEF rank
<1>7. \A i, k \in Places(s) : rank[i] < rank[k] => Rec!Ahead(s, i, k)
  <2> SUFFICES ASSUME NEW i \in Places(s), NEW k \in Places(s), rank[i] < rank[k], ~Rec!Ahead(s, i, k)
               PROVE  FALSE
    OBVIOUS
  <2>1. rank[i] \in Int /\ rank[k] \in Int
    BY <1>5
  <2>2. i = k \/ rank[k] < rank[i]
    BY <1>4, AheadOrders
  <2> QED BY <2>1, <2>2
<1>8. \A i, k \in Places(s) : rank[i] = rank[k] => i = k
  <2> SUFFICES ASSUME NEW i \in Places(s), NEW k \in Places(s), i # k PROVE rank[i] # rank[k]
    OBVIOUS
  <2>1. rank[i] < rank[k] \/ rank[k] < rank[i]
    BY <1>4, AheadOrders
  <2>2. rank[i] \in Int /\ rank[k] \in Int
    BY <1>5
  <2> QED BY <2>1, <2>2
<1>9. \A v \in Places(s) : \E k \in Places(s) : rank[k] = v
  <2>1. rank \in Injection(Places(s), 1..n)
    BY <1>5, <1>8 DEF Injection, IsInjective
  <2>2. rank \in Surjection(Places(s), 1..n)
    BY <1>1, <1>2, <2>1, FS_Injection
  <2> QED BY <1>1, <2>2 DEF Surjection
<1>10. \A k \in Places(s) : rank[k] \in Places(s)
  BY <1>1, <1>5
<1> QED BY <1>4, <1>6, <1>7, <1>8, <1>9, <1>10

(* The item that is put at place v.                                          *)
At(s, v) == CHOOSE k \in DOMAIN s : Rec!PlaceOf(s, k) = v
Shorter(s) == IF Len(s) < PageLimit THEN Len(s) ELSE PageLimit
LEMMA AtIs ==
  ASSUME Rec!RecommendationAssumption, NEW s \in Seq(Rec!Items)
  PROVE  /\ \A v \in Places(s) : At(s, v) \in Places(s) /\ Rec!PlaceOf(s, At(s, v)) = v
         /\ \A v, w \in Places(s) : v < w => Rec!Ahead(s, At(s, v), At(s, w))
         /\ \A k \in Places(s) : At(s, Rec!PlaceOf(s, k)) = k
<1>1. DOMAIN s = Places(s)
  BY AheadOrders
<1>2. \A v \in Places(s) : At(s, v) \in Places(s) /\ Rec!PlaceOf(s, At(s, v)) = v
  BY <1>1, PlacesAre DEF At
<1>3. \A v, w \in Places(s) : v < w => Rec!Ahead(s, At(s, v), At(s, w))
  <2>1. TAKE v \in Places(s), w \in Places(s)
  <2>2. /\ At(s, v) \in Places(s) /\ Rec!PlaceOf(s, At(s, v)) = v
        /\ At(s, w) \in Places(s) /\ Rec!PlaceOf(s, At(s, w)) = w
    BY <1>2
  <2> QED BY <2>2, PlacesAre
<1>4. \A k \in Places(s) : At(s, Rec!PlaceOf(s, k)) = k
  <2>1. TAKE k \in Places(s)
  <2>2. Rec!PlaceOf(s, k) \in Places(s)
    BY PlacesAre
  <2>3. At(s, Rec!PlaceOf(s, k)) \in Places(s) /\ Rec!PlaceOf(s, At(s, Rec!PlaceOf(s, k))) = Rec!PlaceOf(s, k)
    BY <1>2, <2>2
  <2> QED BY <2>3, PlacesAre
<1> QED BY <1>2, <1>3, <1>4

(* A page is the start of the sorted list.                                   *)
LEMMA PageIs ==
  ASSUME Rec!RecommendationAssumption, NEW s \in Seq(Rec!Items)
  PROVE  /\ Rec!Page(s) \in Seq(Rec!Items) /\ Len(Rec!Page(s)) = Shorter(s)
         /\ DOMAIN Rec!Page(s) = 1..Shorter(s) /\ Shorter(s) \in 0..Len(s)
         /\ \A v \in 1..Shorter(s) : v \in Places(s) /\ Rec!Page(s)[v] = s[At(s, v)]
<1> DEFINE t == Rec!Sorted(s)
           m == Shorter(s)
<1>1. DOMAIN s = Places(s) /\ Len(s) \in Nat /\ PageLimit \in Nat \ {0}
  BY AheadOrders DEF Rec!RecommendationAssumption
<1>2. t = [v \in 1..Len(s) |-> s[At(s, v)]]
  BY <1>1 DEF Rec!Sorted, At, Places
<1> HIDE DEF t
<1>3. \A v \in 1..Len(s) : s[At(s, v)] \in Rec!Items
  BY <1>1, AtIs DEF Places
<1>4. t \in Seq(Rec!Items) /\ Len(t) = Len(s)
  BY <1>1, <1>2, <1>3
<1>5. m \in 0..Len(s)
  BY <1>1 DEF Shorter
<1>6. Rec!Page(s) = SubSeq(t, 1, m)
  BY <1>4 DEF Rec!Page, Rec!First, Shorter, t
<1> HIDE DEF m
<1>7. SubSeq(t, 1, m) \in Seq(Rec!Items) /\ Len(SubSeq(t, 1, m)) = m /\ \A v \in 1..m : SubSeq(t, 1, m)[v] = t[v]
  BY <1>1, <1>4, <1>5
<1>8. DOMAIN SubSeq(t, 1, m) = 1..m
  BY <1>7
<1>9. \A v \in 1..m : v \in 1..Len(s)
  BY <1>1, <1>5
<1>10. \A v \in 1..m : t[v] = s[At(s, v)]
  BY <1>2, <1>9
<1> QED BY <1>5, <1>6, <1>7, <1>8, <1>9, <1>10 DEF m, Places
(* A listing has every job of S once.                                        *)
LEMMA ListingsAre ==
  ASSUME Rec!RecommendationAssumption, NEW S \in SUBSET Jobs, NEW r \in Rec!Listings(S)
  PROVE  /\ r \in Seq(Jobs) /\ IsFiniteSet(S) /\ Len(r) = Cardinality(S) /\ DOMAIN r = 1..Len(r) /\ Len(r) \in Nat
         /\ \A i \in 1..Len(r) : r[i] \in S
         /\ \A i, k \in 1..Len(r) : i # k => r[i] # r[k]
         /\ \A i, k \in 1..Len(r) : i < k => Job[r[i]].updated >= Job[r[k]].updated
         /\ \A j \in S : \E i \in 1..Len(r) : r[i] = j
<1> DEFINE n == Cardinality(S)
<1>1. IsFiniteSet(S)
  BY RecSets, FS_Subset DEF Rec!RecommendationAssumption
<1>2. n \in Nat
  BY <1>1, FS_CardinalityType
<1>3. /\ r \in [1..n -> S]
      /\ \A i, k \in DOMAIN r : i # k => r[i] # r[k]
      /\ \A i, k \in DOMAIN r : i < k => Job[r[i]].updated >= Job[r[k]].updated
  BY RecSets DEF Rec!Listings
<1> HIDE DEF n
<1>4. r \in Seq(Jobs) /\ Len(r) = n /\ DOMAIN r = 1..n
  BY <1>2, <1>3
<1>5. r \in Injection(1..n, S)
  BY <1>3, <1>4 DEF Injection, IsInjective
<1>6. IsFiniteSet(1..n) /\ Cardinality(1..n) = n
  BY <1>2, FS_Interval
<1>7. r \in Surjection(1..n, S)
  BY <1>1, <1>5, <1>6, FS_Injection DEF n
<1>8. \A j \in S : \E i \in 1..n : r[i] = j
  BY <1>7 DEF Surjection
<1> QED BY <1>1, <1>2, <1>3, <1>4, <1>8 DEF n

(* When no two jobs were updated at one moment, there is one order alone:    *)
(* the place of a job says how many were updated later.                      *)
Later(S, x) == {j \in S : Job[j].updated > Job[x].updated}
LEMMA PlaceCounts ==
  ASSUME Rec!RecommendationAssumption, Rec!MomentsDiffer,
         NEW S \in SUBSET Jobs, NEW r \in Rec!Listings(S), NEW i \in 1..Len(r)
  PROVE  Cardinality(Later(S, r[i])) = i - 1
<1>1. /\ Len(r) \in Nat /\ \A k \in 1..Len(r) : r[k] \in S
      /\ \A k, m \in 1..Len(r) : k # m => r[k] # r[m]
      /\ \A k, m \in 1..Len(r) : k < m => Job[r[k]].updated >= Job[r[m]].updated
      /\ \A j \in S : \E k \in 1..Len(r) : r[k] = j
  BY ListingsAre
<1>2. \A j \in Jobs : Job[j].updated \in Int
  BY DEF Rec!RecommendationAssumption
<1>3. \A k, m \in 1..Len(r) : k < m => Job[r[k]].updated > Job[r[m]].updated
  <2>1. TAKE k \in 1..Len(r), m \in 1..Len(r)
  <2>2. HAVE k < m
  <2>3. r[k] \in Jobs /\ r[m] \in Jobs /\ r[k] # r[m]
    BY <1>1, <2>2
  <2>4. Job[r[k]].updated \in Int /\ Job[r[m]].updated \in Int
    BY <1>2, <2>3
  <2>5. Job[r[k]].updated # Job[r[m]].updated
    BY <2>3 DEF Rec!MomentsDiffer
  <2>6. Job[r[k]].updated >= Job[r[m]].updated
    BY <1>1, <2>2
  <2> QED BY <2>4, <2>5, <2>6
<1>4. \A k \in 1..Len(r) : r[k] \in Later(S, r[i]) <=> k < i
  <2>1. TAKE k \in 1..Len(r)
  <2>2. r[k] \in S /\ Job[r[k]].updated \in Int /\ Job[r[i]].updated \in Int
    BY <1>1, <1>2
  <2>3. r[k] \in Later(S, r[i]) <=> Job[r[k]].updated > Job[r[i]].updated
    BY <2>2 DEF Later
  <2>4. CASE k < i
    BY <1>3, <2>3, <2>4
  <2>5. CASE k = i
    BY <2>2, <2>3, <2>5
  <2>6. CASE k > i
    <3>1. Job[r[i]].updated > Job[r[k]].updated
      BY <1>3, <2>6
    <3> QED BY <2>2, <2>3, <2>6, <3>1
  <2> QED BY <1>1, <2>4, <2>5, <2>6
<1> DEFINE T == Later(S, r[i])
           g == [k \in 1..(i - 1) |-> r[k]]
<1>5. \A k \in 1..(i - 1) : k \in 1..Len(r) /\ k < i
  BY <1>1
<1>6. g \in Surjection(1..(i - 1), T)
  <2>1. \A k \in 1..(i - 1) : g[k] \in T
    BY <1>4, <1>5
  <2>2. \A j \in T : \E k \in 1..(i - 1) : g[k] = j
    <3>1. TAKE j \in T
    <3>2. PICK k \in 1..Len(r) : r[k] = j
      BY <1>1 DEF Later
    <3>3. k < i
      BY <1>4, <3>2
    <3>4. k \in 1..(i - 1)
      BY <1>1, <3>3
    <3> QED BY <3>2, <3>4
  <2> QED BY <2>1, <2>2 DEF Surjection
<1>7. g \in Injection(1..(i - 1), T)
  BY <1>1, <1>5, <1>6 DEF Injection, IsInjective, Surjection
<1>8. IsFiniteSet(1..(i - 1)) /\ Cardinality(1..(i - 1)) = i - 1
  <2> DEFINE n == i - 1
  <2>1. n \in Nat
    BY <1>1
  <2> HIDE DEF n
  <2>2. IsFiniteSet(1..n) /\ Cardinality(1..n) = n
    BY <2>1, FS_Interval
  <2> QED BY <2>2 DEF n
<1> HIDE DEF g, T
<1>9. Cardinality(T) = Cardinality(1..(i - 1))
  BY <1>6, <1>7, <1>8, FS_Surjection
<1> QED BY <1>8, <1>9 DEF T

LEMMA ListingsAgree ==
  ASSUME Rec!RecommendationAssumption, Rec!MomentsDiffer,
         NEW S \in SUBSET Jobs, NEW r \in Rec!Listings(S), NEW t \in Rec!Listings(S)
  PROVE  r = t
<1>1. /\ Len(r) = Len(t) /\ DOMAIN r = 1..Len(r) /\ DOMAIN t = 1..Len(r) /\ Len(r) \in Nat
      /\ IsFiniteSet(S) /\ \A i \in 1..Len(r) : r[i] \in S /\ t[i] \in S
      /\ r \in Seq(Jobs) /\ t \in Seq(Jobs)
  BY ListingsAre
<1>2. \A x, y \in S : Job[x].updated > Job[y].updated => Cardinality(Later(S, x)) # Cardinality(Later(S, y))
  <2>1. TAKE x \in S, y \in S
  <2>2. HAVE Job[x].updated > Job[y].updated
  <2>3. \A j \in S : Job[j].updated \in Int
    BY DEF Rec!RecommendationAssumption
  <2>4. Later(S, x) \in SUBSET Later(S, y) /\ x \in Later(S, y) /\ x \notin Later(S, x) /\ Later(S, y) \in SUBSET S
    BY <2>2, <2>3 DEF Later
  <2>5. IsFiniteSet(Later(S, y)) /\ Later(S, x) # Later(S, y)
    BY <1>1, <2>4, FS_Subset
  <2> QED BY <2>4, <2>5, FS_Subset
<1>3. \A i \in 1..Len(r) : r[i] = t[i]
  <2>1. SUFFICES ASSUME NEW i \in 1..Len(r), r[i] # t[i] PROVE FALSE
    OBVIOUS
  <2>2. Cardinality(Later(S, r[i])) = i - 1 /\ Cardinality(Later(S, t[i])) = i - 1
    BY <1>1, PlaceCounts
  <2>3. Job[r[i]].updated \in Int /\ Job[t[i]].updated \in Int /\ Job[r[i]].updated # Job[t[i]].updated
    BY <1>1, <2>1 DEF Rec!RecommendationAssumption, Rec!MomentsDiffer
  <2>4. Job[r[i]].updated > Job[t[i]].updated \/ Job[t[i]].updated > Job[r[i]].updated
    BY <2>3
  <2> QED BY <1>1, <1>2, <2>2, <2>4
<1> QED BY <1>1, <1>3

Itemised(r) == [k \in DOMAIN r |-> Rec!Item(r[k])]
RankInv ==
  /\ published \subseteq Jobs /\ apps \subseteq Applications /\ query \in Contexts
  /\ seen = {} /\ busy \in BOOLEAN
  /\ rows \in Seq(Jobs) /\ scored \in Seq(Rec!Items) /\ answers \in Seq(Seq(Rec!Items))
  /\ Len(scored) <= Len(rows) /\ \A n \in 1..Len(scored) : scored[n] = Rec!Item(rows[n])
  /\ busy \/ answers # <<>> => rows \in Rec!Listings(Rec!Chosen)
  /\ ~busy /\ answers # <<>> => Len(scored) = Len(rows) /\ answers[Len(answers)] = Rec!Page(scored)
  /\ \A n \in 1..Len(answers) : \E r \in Rec!Listings(Rec!Chosen) : answers[n] = Rec!Page(Itemised(r))

LEMMA RankBegins ==
  ASSUME Rec!Init
  PROVE  RankInv
<1>1. rows = <<>> /\ scored = <<>> /\ answers = <<>> /\ seen = {} /\ busy = FALSE
      /\ published \subseteq Jobs /\ apps \subseteq Applications /\ query \in Contexts
  BY DEF Rec!Init
<1>2. Len(rows) = 0 /\ Len(scored) = 0 /\ Len(answers) = 0 /\ 1..0 = {}
  BY <1>1
<1>3. rows \in Seq(Jobs) /\ scored \in Seq(Rec!Items) /\ answers \in Seq(Seq(Rec!Items))
  BY <1>1
<1>4. Len(scored) <= Len(rows) /\ \A n \in 1..Len(scored) : scored[n] = Rec!Item(rows[n])
  BY <1>2
<1>5. \A n \in 1..Len(answers) : \E r \in Rec!Listings(Rec!Chosen) : answers[n] = Rec!Page(Itemised(r))
  BY <1>2
<1> QED BY <1>1, <1>3, <1>4, <1>5 DEF RankInv

(* The query, the jobs and the applications stay.                            *)
LEMMA RankingStays ==
  ASSUME UNCHANGED <<published, apps, query, seen>>
  PROVE  /\ Rec!Chosen' = Rec!Chosen /\ Rec!Listings(Rec!Chosen)' = Rec!Listings(Rec!Chosen)
         /\ \A j : Rec!Item(j)' = Rec!Item(j)
         /\ \A r : Itemised(r)' = Itemised(r)
         /\ \A s : Rec!Page(s)' = Rec!Page(s)
<1>1. Rec!Chosen' = Rec!Chosen
  BY DEF Rec!Chosen, Rec!Matches
<1>2. Rec!Listings(Rec!Chosen)' = Rec!Listings(Rec!Chosen)
  BY <1>1
<1>3. ASSUME NEW j PROVE Rec!Item(j)' = Rec!Item(j)
  BY DEF Rec!Item
<1>4. ASSUME NEW r PROVE Itemised(r)' = Itemised(r)
  BY <1>3 DEF Itemised
<1>5. ASSUME NEW s PROVE Rec!Page(s)' = Rec!Page(s)
  OBVIOUS
<1> QED BY <1>1, <1>2, <1>3, <1>4, <1>5

LEMMA AnswersStay ==
  ASSUME RankInv, UNCHANGED <<published, apps, query, seen>>
  PROVE  \A n \in 1..Len(answers) : \E r \in Rec!Listings(Rec!Chosen)' : answers[n] = Rec!Page(Itemised(r))'
<1>1. \A n \in 1..Len(answers) : \E r \in Rec!Listings(Rec!Chosen) : answers[n] = Rec!Page(Itemised(r))
  BY DEF RankInv
<1>2. \A r : Rec!Page(Itemised(r))' = Rec!Page(Itemised(r))
  BY RankingStays
<1> QED BY <1>1, <1>2, RankingStays

LEMMA AskKeeps ==
  ASSUME Rec!RecommendationAssumption, RankInv, Rec!Ask
  PROVE  RankInv'
<1>1. /\ rows' \in Rec!Listings(Rec!Chosen) /\ scored' = <<>> /\ seen' = {} /\ busy' = TRUE
      /\ UNCHANGED <<published, apps, query, answers>>
  BY DEF Rec!Ask
<1>2. Rec!Chosen \in SUBSET Jobs
  BY DEF RankInv, Rec!Chosen
<1>3. rows' \in Seq(Jobs) /\ Len(rows') \in Nat
  BY <1>1, <1>2, ListingsAre
<1>4. scored' \in Seq(Rec!Items) /\ Len(scored') = 0 /\ 1..0 = {}
  BY <1>1
<1>5. Len(scored') <= Len(rows') /\ (\A n \in 1..Len(scored) : scored[n] = Rec!Item(rows[n]))'
  BY <1>3, <1>4
<1>6. UNCHANGED <<published, apps, query, seen>>
  BY <1>1 DEF RankInv
<1>7. \A n \in 1..Len(answers) : \E r \in Rec!Listings(Rec!Chosen)' : answers[n] = Rec!Page(Itemised(r))'
  BY <1>6, AnswersStay
<1> QED BY <1>1, <1>3, <1>4, <1>5, <1>6, <1>7, RankingStays DEF RankInv

LEMMA ScoreKeeps ==
  ASSUME Rec!RecommendationAssumption, RankInv, Rec!ScoreNext
  PROVE  RankInv'
<1> DEFINE n == Len(scored) + 1
<1>1. /\ busy /\ Len(scored) < Len(rows) /\ scored' = Append(scored, Rec!Item(rows[n]))
      /\ UNCHANGED <<published, apps, query, rows, seen, busy, answers>>
  BY DEF Rec!ScoreNext
<1>2. Len(scored) \in Nat /\ Len(rows) \in Nat /\ rows \in Seq(Jobs) /\ scored \in Seq(Rec!Items)
  BY DEF RankInv
<1>3. n \in 1..Len(rows)
  BY <1>1, <1>2
<1>4. rows[n] \in Jobs
  BY <1>2, <1>3
<1>5. Rec!Item(rows[n]) \in Rec!Items
  BY <1>4, ItemIs DEF RankInv
<1>6. scored' \in Seq(Rec!Items) /\ Len(scored') = n
  BY <1>1, <1>2, <1>5
<1>7. \A k \in 1..n : scored'[k] = Rec!Item(rows[k])
  <2>1. TAKE k \in 1..n
  <2>2. CASE k = n
    BY <1>1, <1>2, <2>2
  <2>3. CASE k # n
    <3>1. k \in 1..Len(scored)
      BY <1>2, <2>3
    <3>2. scored'[k] = scored[k]
      BY <1>1, <1>2, <3>1
    <3> QED BY <3>1, <3>2 DEF RankInv
  <2> QED BY <2>2, <2>3
<1> HIDE DEF n
<1>8. Len(scored') <= Len(rows)
  BY <1>2, <1>3, <1>6
<1>9. \A k \in 1..Len(scored') : scored'[k] = Rec!Item(rows[k])'
  BY <1>1, <1>6, <1>7, RankingStays
<1>10. \A m \in 1..Len(answers) : \E r \in Rec!Listings(Rec!Chosen)' : answers[m] = Rec!Page(Itemised(r))'
  BY <1>1, AnswersStay
<1> QED BY <1>1, <1>6, <1>8, <1>9, <1>10, RankingStays DEF RankInv

LEMMA ServeKeeps ==
  ASSUME Rec!RecommendationAssumption, RankInv, Rec!Serve
  PROVE  RankInv'
<1>1. /\ busy /\ Len(scored) = Len(rows) /\ answers' = Append(answers, Rec!Page(scored)) /\ busy' = FALSE
      /\ UNCHANGED <<published, apps, query, rows, scored, seen>>
  BY DEF Rec!Serve
<1>2. Len(scored) \in Nat /\ Len(rows) \in Nat /\ rows \in Seq(Jobs) /\ scored \in Seq(Rec!Items)
      /\ answers \in Seq(Seq(Rec!Items)) /\ Len(answers) \in Nat
  BY DEF RankInv
<1>3. Rec!Page(scored) \in Seq(Rec!Items)
  BY <1>2, PageIs
<1>4. answers' \in Seq(Seq(Rec!Items)) /\ Len(answers') = Len(answers) + 1
      /\ answers'[Len(answers) + 1] = Rec!Page(scored) /\ \A n \in 1..Len(answers) : answers'[n] = answers[n]
  BY <1>1, <1>2, <1>3
<1>5. rows \in Rec!Listings(Rec!Chosen)
  BY <1>1 DEF RankInv
<1>6. scored = Itemised(rows)
  <2>1. DOMAIN scored = DOMAIN rows /\ DOMAIN rows = 1..Len(scored)
    BY <1>1, <1>2
  <2>2. \A n \in 1..Len(scored) : scored[n] = Rec!Item(rows[n])
    BY DEF RankInv
  <2> QED BY <1>2, <2>1, <2>2 DEF Itemised
<1>7. \A n \in 1..Len(answers') : \E r \in Rec!Listings(Rec!Chosen) : answers'[n] = Rec!Page(Itemised(r))
  <2>1. TAKE n \in 1..Len(answers')
  <2>2. CASE n = Len(answers) + 1
    BY <1>4, <1>5, <1>6, <2>2
  <2>3. CASE n # Len(answers) + 1
    <3>1. n \in 1..Len(answers)
      BY <1>2, <1>4, <2>3
    <3> QED BY <1>4, <3>1 DEF RankInv
  <2> QED BY <2>2, <2>3
<1>8. \A n \in 1..Len(answers') : \E r \in Rec!Listings(Rec!Chosen)' : answers'[n] = Rec!Page(Itemised(r))'
  BY <1>1, <1>7, RankingStays
<1>9. \A n \in 1..Len(scored) : scored[n] = Rec!Item(rows[n])'
  BY <1>1, RankingStays DEF RankInv
<1>10. answers'[Len(answers')] = Rec!Page(scored)
  BY <1>4
<1> QED BY <1>1, <1>2, <1>4, <1>5, <1>8, <1>9, <1>10, RankingStays DEF RankInv

LEMMA RankStep ==
  ASSUME Rec!RecommendationAssumption, RankInv, Rec!Next
  PROVE  RankInv'
  BY AskKeeps, ScoreKeeps, ServeKeeps DEF Rec!Next

LEMMA PageIsBest ==
  ASSUME Rec!RecommendationAssumption, RankInv, ~busy, answers # <<>>
  PROVE  LET page == answers[Len(answers)]
             served == {page[n].job : n \in DOMAIN page}
         IN /\ Cardinality(served) = Len(page)
            /\ Len(page) < PageLimit => served = Rec!Chosen
            /\ \A k \in DOMAIN scored, n \in DOMAIN page :
                 scored[k].job \notin served => Rec!Compare(page[n], scored[k]) <= 0
            /\ \A n, m \in DOMAIN page : n < m => Rec!Compare(page[n], page[m]) <= 0
<1> DEFINE page == answers[Len(answers)]
           served == {page[n].job : n \in DOMAIN page}
           top == Shorter(scored)
           at(v) == At(scored, v)
<1>1. /\ scored \in Seq(Rec!Items) /\ Len(scored) = Len(rows) /\ page = Rec!Page(scored)
      /\ rows \in Rec!Listings(Rec!Chosen) /\ Rec!Chosen \in SUBSET Jobs
      /\ \A n \in 1..Len(scored) : scored[n] = Rec!Item(rows[n])
      /\ apps \in SUBSET Applications
  BY DEF RankInv, Rec!Chosen
<1> HIDE DEF page, top, at
<1>2. /\ Len(page) = top /\ DOMAIN page = 1..top /\ top \in 0..Len(scored)
      /\ \A v \in 1..top : v \in Places(scored) /\ page[v] = scored[at(v)]
  BY <1>1, PageIs DEF top, at
<1>3. DOMAIN scored = Places(scored) /\ Places(scored) = 1..Len(scored) /\ Len(scored) \in Nat
  BY <1>1, AheadOrders DEF Places
<1>4. /\ \A v \in Places(scored) : at(v) \in Places(scored)
      /\ \A v, w \in Places(scored) : v < w => Rec!Ahead(scored, at(v), at(w))
      /\ \A k \in Places(scored) : at(Rec!PlaceOf(scored, k)) = k
      /\ \A v \in Places(scored) : Rec!PlaceOf(scored, at(v)) = v
  BY <1>1, AtIs DEF at
<1>5. /\ \A i \in Places(scored) : rows[i] \in Rec!Chosen
      /\ \A i, k \in Places(scored) : i # k => rows[i] # rows[k]
      /\ \A j \in Rec!Chosen : \E i \in Places(scored) : rows[i] = j
  BY <1>1, <1>3, ListingsAre
<1>6. \A i \in Places(scored) : scored[i].job = rows[i]
  <2>1. TAKE i \in Places(scored)
  <2>2. rows[i] \in Jobs /\ scored[i] = Rec!Item(rows[i])
    BY <1>1, <1>3, <1>5
  <2> QED BY <1>1, <2>2, ItemIs
<1>7. \A v \in 1..top : page[v].job = rows[at(v)] /\ at(v) \in Places(scored)
  BY <1>2, <1>4, <1>6
<1>8. \A v, w \in 1..top : v # w => page[v].job # page[w].job
  <2>1. TAKE v \in 1..top, w \in 1..top
  <2>2. HAVE v # w
  <2>3. at(v) # at(w)
    BY <1>2, <1>4, <2>2
  <2> QED BY <1>5, <1>7, <2>3
<1>9. Cardinality(served) = Len(page)
  <2> DEFINE g == [v \in 1..top |-> page[v].job]
  <2>1. g \in Surjection(1..top, served)
    BY <1>2 DEF Surjection
  <2>2. g \in Injection(1..top, served)
    BY <1>8, <2>1 DEF Injection, IsInjective, Surjection
  <2>3. IsFiniteSet(1..top) /\ Cardinality(1..top) = top
    BY <1>2, <1>3, FS_Interval
  <2> HIDE DEF g, served
  <2>4. Cardinality(served) = Cardinality(1..top)
    BY <2>1, <2>2, <2>3, FS_Surjection
  <2> QED BY <1>2, <2>3, <2>4
<1>10. \A k \in Places(scored) : Rec!PlaceOf(scored, k) \in 1..top => scored[k].job \in served
  <2>1. TAKE k \in Places(scored)
  <2>2. HAVE Rec!PlaceOf(scored, k) \in 1..top
  <2>3. page[Rec!PlaceOf(scored, k)] = scored[k]
    BY <1>2, <1>4, <2>2
  <2> QED BY <1>2, <2>2, <2>3
<1>11. \A k \in Places(scored) : Rec!PlaceOf(scored, k) \in Places(scored)
  BY <1>1, PlacesAre
<1>12. ASSUME Len(page) < PageLimit PROVE served = Rec!Chosen
  <2>1. top = Len(scored)
    BY <1>2, <1>12 DEF top, Shorter, Rec!RecommendationAssumption
  <2>2. \A j \in Rec!Chosen : j \in served
    <3>1. TAKE j \in Rec!Chosen
    <3>2. PICK i \in Places(scored) : rows[i] = j
      BY <1>5
    <3>3. scored[i].job = j /\ Rec!PlaceOf(scored, i) \in 1..top
      BY <1>3, <1>6, <1>11, <2>1, <3>2
    <3> HIDE DEF served
    <3> QED BY <1>10, <3>3
  <2>3. \A j \in served : j \in Rec!Chosen
    BY <1>2, <1>5, <1>7
  <2> HIDE DEF served
  <2> QED BY <2>2, <2>3
<1>13. ASSUME NEW k \in DOMAIN scored, NEW n \in DOMAIN page, scored[k].job \notin served
       PROVE  Rec!Compare(page[n], scored[k]) <= 0
  <2>1. k \in Places(scored) /\ n \in 1..top /\ n \in Places(scored)
    BY <1>2, <1>3
  <2>2. Rec!PlaceOf(scored, k) \in Places(scored) /\ Rec!PlaceOf(scored, k) \notin 1..top
    BY <1>10, <1>11, <1>13, <2>1
  <2>3. n < Rec!PlaceOf(scored, k)
    BY <1>2, <1>3, <2>1, <2>2
  <2>4. Rec!Ahead(scored, at(n), at(Rec!PlaceOf(scored, k)))
    BY <1>4, <2>1, <2>2, <2>3
  <2>5. at(Rec!PlaceOf(scored, k)) = k /\ at(n) \in Places(scored) /\ page[n] = scored[at(n)]
    BY <1>2, <1>4, <2>1
  <2> QED BY <1>1, <2>1, <2>4, <2>5, AheadOrders
<1>14. ASSUME NEW n \in DOMAIN page, NEW m \in DOMAIN page, n < m
       PROVE  Rec!Compare(page[n], page[m]) <= 0
  <2>1. n \in Places(scored) /\ m \in Places(scored) /\ page[n] = scored[at(n)] /\ page[m] = scored[at(m)]
    BY <1>2
  <2>2. Rec!Ahead(scored, at(n), at(m)) /\ at(n) \in Places(scored) /\ at(m) \in Places(scored)
    BY <1>4, <1>14, <2>1
  <2> QED BY <1>1, <2>1, <2>2, AheadOrders
<1> HIDE DEF served
<1> QED BY <1>9, <1>12, <1>13, <1>14 DEF served, page

LEMMA RankIsSound ==
  ASSUME Rec!RecommendationAssumption, RankInv
  PROVE  /\ Rec!TypeOK /\ Rec!ScoreExplained /\ Rec!BestServed
         /\ Rec!MomentsDiffer => Rec!RankingDeterministic
<1>1. Rec!TypeOK
  BY DEF RankInv, Rec!TypeOK
<1>2. Rec!ScoreExplained
  <2>1. SUFFICES ASSUME NEW n \in DOMAIN scored
                 PROVE  Rec!Explained(scored[n].scores, scored[n].shown, scored[n].penalty)
    BY DEF Rec!ScoreExplained
  <2>2. rows \in Seq(Jobs) /\ scored \in Seq(Rec!Items) /\ Len(scored) <= Len(rows)
    BY DEF RankInv
  <2>3. n \in 1..Len(scored) /\ n \in 1..Len(rows)
    BY <2>2
  <2>4. rows[n] \in Jobs
    BY <2>2, <2>3
  <2>5. scored[n] = Rec!Item(rows[n])
    BY <2>3 DEF RankInv
  <2> QED BY <2>4, <2>5, ItemIs DEF RankInv
<1>3. Rec!BestServed
  BY RecSets, PageIsBest DEF Rec!BestServed
<1>4. ASSUME Rec!MomentsDiffer PROVE Rec!RankingDeterministic
  <2>1. SUFFICES ASSUME NEW n \in DOMAIN answers, NEW m \in DOMAIN answers
                 PROVE  answers[n] = answers[m]
    BY DEF Rec!RankingDeterministic
  <2>2. n \in 1..Len(answers) /\ m \in 1..Len(answers)
    BY DEF RankInv
  <2>3. PICK r \in Rec!Listings(Rec!Chosen) : answers[n] = Rec!Page(Itemised(r))
    BY <2>2 DEF RankInv
  <2>4. PICK t \in Rec!Listings(Rec!Chosen) : answers[m] = Rec!Page(Itemised(t))
    BY <2>2 DEF RankInv
  <2>5. Rec!Chosen \in SUBSET Jobs
    BY DEF RankInv, Rec!Chosen
  <2>6. r = t
    BY <1>4, <2>5, ListingsAgree
  <2> QED BY <2>3, <2>4, <2>6
<1> QED BY <1>1, <1>2, <1>3, <1>4

-----------------------------------------------------------------------------
(***************************************************************************)
(* All of them.  A step of one part leaves the part as it is.              *)
(***************************************************************************)
PartsInv ==
  /\ ParsersInv
  /\ \A n \in DOMAIN FormSetup : part = n => BoardInv(FormSetup[n]) /\ NamedInv(FormSetup[n])
  /\ \A n \in DOMAIN LimitSetup : part = n => LimiterInv(LimitSetup[n])
  /\ part = "attributes" => AttrInv
  /\ part = "recommend" => RankInv

LEMMA BoardRests ==
  ASSUME NEW s, BoardInv(s), UNCHANGED formVars
  PROVE  BoardInv(s)'
  BY DEF formVars, BoardInv, Handled, Heard, Shown, FromApp, Board!StoredIsSound

LEMMA LimiterRests ==
  ASSUME NEW s, LimiterInv(s), UNCHANGED limitVars
  PROVE  LimiterInv(s)'
  BY DEF limitVars, LimiterInv, Admitting, Refusing, Earned, Limiter!TypeOK

LEMMA AttrRests ==
  ASSUME AttrInv, UNCHANGED attributeVars
  PROVE  AttrInv'
<1>1. UNCHANGED <<vertical, payload, pos, out, verdict, first>>
  BY DEF attributeVars
<1>2. InSchema => InSchema'
  <2>1. Built => Built'
    BY <1>1, SchemaKept DEF Built
  <2>2. Same => Same'
    BY <1>1, SchemaKept DEF Same
  <2>3. Normal(out)' <=> Normal(out)
    BY <1>1 DEF Attr!Defs, Attr!Known, Key, Normal
  <2>4. vertical.config' = vertical.config /\ Attr!Empty' = Attr!Empty
    BY <1>1 DEF Attr!Empty
  <2> QED BY <1>1, <2>1, <2>2, <2>3, <2>4, SchemaKept, NormalKept DEF InSchema
<1> QED BY <1>1, <1>2 DEF AttrInv, Exempted

LEMMA RankRests ==
  ASSUME RankInv, UNCHANGED recommendVars
  PROVE  RankInv'
<1>1. UNCHANGED <<published, apps, query, rows, scored, seen, busy, answers>>
  BY DEF recommendVars
<1>2. \A n \in 1..Len(answers) : \E r \in Rec!Listings(Rec!Chosen)' : answers[n] = Rec!Page(Itemised(r))'
  BY <1>1, AnswersStay
<1>3. \A n \in 1..Len(scored) : scored[n] = Rec!Item(rows[n])'
  BY <1>1, RankingStays DEF RankInv
<1> QED BY <1>1, <1>2, <1>3, RankingStays DEF RankInv

LEMMA PartsBegin == RequestsInit => PartsInv
<1> SUFFICES ASSUME RequestsInit PROVE PartsInv OBVIOUS
<1>1. ParsersInv
  BY ParsersBegin DEF RequestsInit
<1>2. ASSUME NEW n \in DOMAIN FormSetup, part = n PROVE BoardInv(FormSetup[n]) /\ NamedInv(FormSetup[n])
  <2>1. Board(FormSetup[n])!Init
    BY <1>2 DEF RequestsInit, FormsBegin
  <2> QED BY <2>1, BoardBegins, NamedBegins
<1>3. ASSUME NEW n \in DOMAIN LimitSetup, part = n PROVE LimiterInv(LimitSetup[n])
  <2>1. Limiter(LimitSetup[n])!Init /\ Limiter(LimitSetup[n])!RateLimitsAssumption
    BY <1>3, RequestsAssumption DEF RequestsInit, LimitsBegin, RequestsAssumption
  <2> QED BY <2>1, LimiterBegins
<1>4. ASSUME part = "attributes" PROVE AttrInv
  BY <1>4, AttrBegins, RequestsAssumption DEF RequestsInit, AttributesBegin, RequestsAssumption
<1>5. ASSUME part = "recommend" PROVE RankInv
  BY <1>5, RankBegins DEF RequestsInit, RecommendBegins
<1> QED BY <1>1, <1>2, <1>3, <1>4, <1>5 DEF PartsInv

LEMMA PartsKeep == PartsInv /\ [RequestsNext]_allVars => PartsInv'
<1> SUFFICES ASSUME PartsInv, [RequestsNext]_allVars PROVE PartsInv' OBVIOUS
<1>0. part' = part
  BY DEF RequestsNext, allVars, Resting
<1>1. ParsersInv'
  <2>1. [Next]_vars
    BY DEF RequestsNext, allVars
  <2> QED BY <2>1, ParsersStep DEF PartsInv
<1>2. ASSUME NEW n \in DOMAIN FormSetup, part = n PROVE BoardInv(FormSetup[n])' /\ NamedInv(FormSetup[n])'
  <2>1. part \notin DOMAIN LimitSetup /\ part \notin {"uploads", "attributes", "recommend"}
    BY <1>2, RequestsAssumption DEF RequestsAssumption
  <2>2. Board(FormSetup[n])!Next \/ UNCHANGED formVars
    BY <1>2, <2>1 DEF RequestsNext, Limiting, Posting, allVars
  <2>3. /\ Board(FormSetup[n])!JobFormAssumption
        /\ BoardInv(FormSetup[n]) /\ NamedInv(FormSetup[n])
    BY <1>2, RequestsAssumption DEF RequestsAssumption, PartsInv
  <2> QED BY <2>2, <2>3, BoardStep, BoardRests, NamedStep
<1>3. ASSUME NEW n \in DOMAIN LimitSetup, part = n PROVE LimiterInv(LimitSetup[n])'
  <2>1. part \notin DOMAIN FormSetup /\ part \notin {"uploads", "attributes", "recommend"}
    BY <1>3, RequestsAssumption DEF RequestsAssumption
  <2>2. Limiter(LimitSetup[n])!Next \/ UNCHANGED limitVars
    BY <1>3, <2>1 DEF RequestsNext, Limiting, Posting, allVars
  <2>3. Limiter(LimitSetup[n])!RateLimitsAssumption /\ LimiterInv(LimitSetup[n])
    BY <1>3, RequestsAssumption DEF RequestsAssumption, PartsInv
  <2> QED BY <2>2, <2>3, LimiterStep, LimiterRests
<1>4. ASSUME part = "attributes" PROVE AttrInv'
  <2>1. part \notin DOMAIN FormSetup /\ part \notin DOMAIN LimitSetup
    BY <1>4, RequestsAssumption DEF RequestsAssumption
  <2>2. Attr!Next \/ UNCHANGED attributeVars
    BY <1>4, <2>1 DEF RequestsNext, Limiting, Posting, allVars
  <2>3. Attr!AttributesAssumption /\ AttrInv
    BY <1>4, RequestsAssumption DEF RequestsAssumption, PartsInv
  <2> QED BY <2>2, <2>3, AttrStep, AttrRests
<1>5. ASSUME part = "recommend" PROVE RankInv'
  <2>1. part \notin DOMAIN FormSetup /\ part \notin DOMAIN LimitSetup
    BY <1>5, RequestsAssumption DEF RequestsAssumption
  <2>2. Rec!Next \/ UNCHANGED recommendVars
    BY <1>5, <2>1 DEF RequestsNext, Limiting, Posting, allVars
  <2>3. Rec!RecommendationAssumption /\ RankInv
    BY <1>5, RequestsAssumption DEF RequestsAssumption, PartsInv
  <2> QED BY <2>2, <2>3, RankStep, RankRests
<1> QED BY <1>0, <1>1, <1>2, <1>3, <1>4, <1>5 DEF PartsInv

LEMMA PartsStrong == RequestsSpec => []PartsInv
  BY PartsBegin, PartsKeep, PTL DEF RequestsSpec

(* However many requests with bodies come, at most Max of them are in        *)
(* memory, no slot is used twice or lost, and nobody waits beside a free one *)
(* (http.js acquireUploadParser, releaseUploadParser).                       *)
THEOREM ParsersAreSound == RequestsSpec => []ParsersSound
<1>1. ASSUME ParsersInv PROVE ParsersBounded
  <2>1. Max \in Nat /\ active \in Nat /\ Len(woken) \in Nat
    BY <1>1, UploadParsersAssumption DEF UploadParsersAssumption, ParsersInv, TypeOK
  <2> QED BY <1>1, <2>1 DEF ParsersInv, Slots, ParsersBounded
<1>2. PartsInv => ParsersSound
  BY <1>1 DEF PartsInv, ParsersInv, ParsersSound
<1> QED BY <1>2, PartsStrong, PTL

(* For any replicas, traffic (health probes too), limits, windows and age at *)
(* which rows are deleted: nobody is refused where no limit has been used up *)
(* within the refusing check's window, and each check of each table or       *)
(* process admits at most two limits in any stretch that its windows surely  *)
(* last (rate_limit.js, observability.js 83-86).                             *)
THEOREM LimitsAreSound == RequestsSpec => []LimitsSound
<1>1. ASSUME PartsInv, NEW n \in DOMAIN LimitSetup, part = n
      PROVE  /\ Limiter(LimitSetup[n])!TypeOK
             /\ Limiter(LimitSetup[n])!RefusalEarned
             /\ Limiter(LimitSetup[n])!WindowAdmits
  BY <1>1, LimiterIsSound, RequestsAssumption DEF RequestsAssumption, PartsInv
<1>2. PartsInv => LimitsSound
  BY <1>1 DEF LimitsSound
<1> QED BY <1>2, PartsStrong, PTL

(* For any users, categories, forms, bodies and queries: what is stored has  *)
(* passed every check with its coercions, nothing fails in the database, the *)
(* app's checks are enough, and lists are one's own (job_handlers.js).       *)
THEOREM JobsAreSound == RequestsSpec => []JobsSound
<1>1. ASSUME PartsInv, NEW n \in DOMAIN FormSetup, part = n
      PROVE  /\ Board(FormSetup[n])!TypeOK /\ Board(FormSetup[n])!StoredIsSound
             /\ Board(FormSetup[n])!NeverInternal /\ Board(FormSetup[n])!AppChecksEnough
             /\ Board(FormSetup[n])!ListsAreOwn
  BY <1>1, BoardIsSound DEF PartsInv
<1>2. PartsInv => JobsSound
  BY <1>1 DEF JobsSound
<1> QED BY <1>2, PartsStrong, PTL

(* For any users, categories, forms, bodies and queries that name categories *)
(* in one way: whoever picks a category is shown its published jobs that     *)
(* match the other filters, through the server's filter and the app's own    *)
(* (job_handlers.js handleList, jobs_query_logic.dart filterJobs).           *)
THEOREM PickedAreAlwaysShown == RequestsSpec => PickedAreShown
<1>1. ASSUME PartsInv PROVE PickedShown
  <2>1. ASSUME NEW n \in DOMAIN FormSetup, part = n, Board(FormSetup[n])!OneWay
        PROVE  Board(FormSetup[n])!CategoryShowsItsJobs
    <3>1. /\ Board(FormSetup[n])!JobFormAssumption
          /\ BoardInv(FormSetup[n]) /\ NamedInv(FormSetup[n])
      BY <1>1, <2>1, RequestsAssumption DEF RequestsAssumption, PartsInv
    <3> QED BY <2>1, <3>1, PickedIsShown
  <2> QED BY <2>1 DEF PickedShown
<1> QED BY <1>1, PartsStrong, PTL DEF PickedAreShown

(* For any schema, payload and lengths: what was accepted conforms, is       *)
(* accepted again, the same unless it was cut at a blank, and the jobs       *)
(* vertical comes out as {} (policies/attributes.js).                        *)
THEOREM AttributesAreSound == RequestsSpec => []AttributesSound
<1>1. PartsInv => AttributesSound
  BY AttrIsSound, RequestsAssumption DEF RequestsAssumption, PartsInv, AttributesSound
<1> QED BY <1>1, PartsStrong, PTL

(* For any jobs, applications and queries: a score agrees with the rounded   *)
(* components shown with it, so that scoreRecommendation never throws        *)
(* (recommendation.js:106); a page is the best of what passes the filters,   *)
(* in order and without repetition; and where no two jobs were updated at    *)
(* one moment the same query is answered alike (app.js recommendedJobs).     *)
THEOREM RankingIsSound == RequestsSpec => []RankingSound
<1>1. PartsInv => RankingSound
  BY RankIsSound, RequestsAssumption DEF RequestsAssumption, PartsInv, RankingSound
<1> QED BY <1>1, PartsStrong, PTL

=============================================================================
