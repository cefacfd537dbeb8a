-------------------------- MODULE ServerLog_proofs --------------------------
(***************************************************************************)
(* The log of ServerLog, for any number of offices and any requests.  The  *)
(* argument follows the lines into the file: a line is written by the      *)
(* thread that is at it (Lines), the request lines are written in          *)
(* buffer_lock (Locks), so that they are those of the requests 1 .. n in   *)
(* this order (InOrder), and what has begun in the file is where its       *)
(* thread is (Answering, Delaying, Ends).  On top of it, the lines of an   *)
(* office about a request are the first of its script, as many as the      *)
(* place of the office says (Scripts), and the main thread's are its       *)
(* request lines behind the one about the administrator (MainLines).       *)
(***************************************************************************)
EXTENDS ServerLog, FiniteSetTheorems, SequenceTheorems, TLAPS

USE ServerLogAssumption

Kinds == {"request", "reply", "MUTEX_LOCK", "MUTEX_UNLOCK", "delay", "shutdown", "account", "OPEN", "CLOSE"}
LogLines == [id : Threads, what : Kinds, sid : Nat]

(* Where an office has a request, and where it has one that it has logged. *)
Handling == {"unlockBuffer", "sayShutdown", "shut", "sayReply"} \cup Section \cup InnerSection
Serving == {"sayRequest"} \cup Handling
OfficeLabels == {"new", "idle", "lockBuffer", "fetch", "ended"} \cup Serving
AtQueue == {"lockBuffer", "store", "sayRequest", "unlockBuffer", "post"}
MainLabels == {"sayAdmin", "create", "sayOpen", "idle", "join", "sayClose", "end"} \cup AtQueue

TypeOK ==
    /\ slog \in Seq(LogLines) /\ buffer \in [Threads -> LogLines \cup {NoLine}]
    /\ formatted \in [Threads -> BOOLEAN]
    /\ pc \in [Threads -> OfficeLabels \cup MainLabels]
    /\ pc[MAIN_THREAD_ID] \in MainLabels /\ \A o \in Offices : pc[o] \in OfficeLabels
    /\ current \in [Threads -> Nat] /\ office \in 0 .. NumOffices
    /\ owner \in [Mutexes -> Threads \cup {Nobody}]
    /\ requests \in Seq(Nat) /\ items \in Nat
    /\ arriving \in Arrivals /\ reads \in 0 .. Len(arriving) /\ dummyOpen \in BOOLEAN

main == pc[MAIN_THREAD_ID]

(* The loops of main, and what they have done. *)
Loops ==
    /\ main \in {"sayAdmin", "create", "join"} => office < NumOffices
    /\ main = "sayAdmin" => office = 0
    /\ main \in {"sayOpen", "sayClose"} => office > 0
    /\ main = "end" => office = NumOffices
    /\ \A o \in Offices :
         /\ pc[o] = "new" => main \in {"sayAdmin", "create", "sayOpen"}
         /\ main \in {"sayAdmin", "create", "sayOpen"} => (pc[o] = "new" <=> o > office)
         /\ Closed /\ o <= office => pc[o] = "ended"
         /\ pc[o] = "ended" => Closed /\ items = 0

(* A line that is formatted is the one its thread has to say. *)
Lines == \A t \in Threads : formatted[t] => pc[t] \in Saying /\ buffer[t] = LineAt(t)

Stored == IF main \in {"lockBuffer", "store"} THEN reads - 1 ELSE reads
Fetched == Stored - Len(requests)

Claimers == {o \in Offices : pc[o] \in {"lockBuffer", "fetch"}}

(* The requests in the queue are those after the last that was fetched. *)
Queue ==
    /\ main \in AtQueue => reads > 0 /\ current[MAIN_THREAD_ID] = reads
    /\ Fetched >= 0 /\ \A i \in 1 .. Len(requests) : requests[i] = Fetched + i
    /\ items + Cardinality(Claimers)
         + (IF main \in {"sayRequest", "unlockBuffer", "post"} THEN 1 ELSE 0) = Len(requests)
    /\ \A o \in Offices :
         /\ pc[o] \in Serving => current[o] \in 1 .. Fetched
         /\ pc[o] = "sayRequest" => current[o] = Fetched
         /\ pc[o] \in InnerSection => HasSecond(Request(o))

Holds(t, m) ==
    \/ m = BufferLock /\ pc[t] \in {"fetch", "store", "sayRequest", "unlockBuffer"}
    \/ pc[t] \in {"sayLock1", "sayDelay1", "sayAccount", "unlock1"} \cup InnerSection /\ m = First(Request(t))
    \/ pc[t] \in {"sayLock2", "sayDelay2", "unlock2"} /\ m = Second(Request(t))

Locks == \A t \in Threads, m \in Mutexes : owner[m] = t <=> Holds(t, m)

(* The requests that the main thread, and the offices, have logged. *)
MainLogged == IF main \in {"lockBuffer", "store", "sayRequest"} THEN reads - 1 ELSE reads
OfficeLogged == IF \E o \in Offices : pc[o] = "sayRequest" THEN Fetched - 1 ELSE Fetched

UserOf(n) == arriving[n].user

MainPlaces == {i \in DOMAIN slog : OfMain(i)}
OfficePlaces == {i \in DOMAIN slog : OfOffice(i)}

(* The lines of a log at these places are about the requests 1 .. n, in    *)
(* this order.                                                             *)
InOrder(log, coming, places, n) ==
    /\ \A a \in 1 .. n : \E i \in places : log[i].sid = coming[a].user
    /\ \A i \in places : \E a \in 1 .. n : log[i].sid = coming[a].user
    /\ \A i, j \in places, a, b \in 1 .. n :
         i < j /\ log[i].sid = coming[a].user /\ log[j].sid = coming[b].user => a < b

RequestLines ==
    /\ InOrder(slog, arriving, MainPlaces, MainLogged) /\ InOrder(slog, arriving, OfficePlaces, OfficeLogged)
    /\ \A i \in MainPlaces, j \in OfficePlaces : slog[i].sid = slog[j].sid => i < j

(* The last line of an office about messages. *)
Answering ==
    \A o \in Offices :
        /\ pc[o] \in Handling =>
             \E i \in DOMAIN slog :
                 /\ slog[i].id = o /\ slog[i].what = "request" /\ slog[i].sid = UserOf(current[o])
                 /\ \A k \in DOMAIN slog : k > i => ~Message(k, o)
        /\ pc[o] \notin Handling =>
             \A i \in DOMAIN slog : slog[i].id = o /\ slog[i].what = "request" =>
                 \E k \in DOMAIN slog : k > i /\ slog[k].id = o /\ slog[k].what = "reply"

(* A line MUTEX_LOCK, before the delay that follows it is logged. *)
Delaying ==
    \A i \in DOMAIN slog : slog[i].what = "MUTEX_LOCK" =>
        \/ \E k \in DOMAIN slog : k > i /\ slog[k] = logSyncDelay(slog[i].id, slog[i].sid)
        \/ /\ slog[i].id \in Offices /\ pc[slog[i].id] \in {"sayDelay1", "sayDelay2"}
           /\ slog[i].sid = AccountAt(slog[i].id)

Opened == CASE main \in {"sayAdmin", "create"} -> office [] main = "sayOpen" -> office - 1
            [] OTHER -> NumOffices
Joined == CASE main \in {"join", "end"} -> office [] main = "sayClose" -> office - 1 [] OTHER -> 0

Once(line) == \E i \in DOMAIN slog : \A j \in DOMAIN slog : slog[j] = line <=> j = i
Never(line) == \A j \in DOMAIN slog : slog[j] # line

Ends ==
    \A o \in Offices :
        /\ o <= Opened => Once(logBankOffice(o, "OPEN"))
        /\ o > Opened => Never(logBankOffice(o, "OPEN"))
        /\ o <= Joined => Once(logBankOffice(o, "CLOSE"))
        /\ o > Joined => Never(logBankOffice(o, "CLOSE"))

Machine == TypeOK /\ Loops /\ Lines /\ Queue /\ Locks
Inv == Machine /\ RequestLines /\ Answering /\ Delaying /\ Ends /\ RepliesFollow /\ SectionsApart

-----------------------------------------------------------------------------
(* Requests, programs and lines.                                           *)

LEMMA Arriving ==
  ASSUME TypeOK, NEW n \in 1 .. Len(arriving)
  PROVE  /\ arriving[n].user \in Nat /\ arriving[n].op \in Operations
         /\ arriving[n].id \in AccountIds /\ arriving[n].target \in AccountIds
         /\ First(arriving[n]) \in AccountIds /\ Second(arriving[n]) \in AccountIds
         /\ HasSecond(arriving[n]) => First(arriving[n]) # Second(arriving[n])
<1>1. arriving \in Seq([user : Nat, op : Operations, id : AccountIds, target : AccountIds])
  BY DEF TypeOK
<1>2. arriving[n] \in [user : Nat, op : Operations, id : AccountIds, target : AccountIds]
  BY <1>1, ElementOfSeq
<1> DEFINE r == arriving[n]
<1>3. r.user \in Nat /\ r.op \in Operations /\ r.id \in AccountIds /\ r.target \in AccountIds
  BY <1>2
<1> HIDE DEF r
<1>4. First(r) \in AccountIds /\ Second(r) \in AccountIds
  BY <1>3 DEF First, Second
<1>5. HasSecond(r) => First(r) # Second(r)
  BY <1>3 DEF First, Second, HasSecond, AccountIds
<1> QED
  BY <1>3, <1>4, <1>5 DEF r

LEMMA UsersDiffer ==
  ASSUME TypeOK, NEW a \in 1 .. Len(arriving), NEW b \in 1 .. Len(arriving), UserOf(a) = UserOf(b)
  PROVE  a = b
<1>1. arriving \in Arrivals /\ arriving \in Seq([user : Nat, op : Operations, id : AccountIds, target : AccountIds])
  BY DEF TypeOK
<1>2. a \in DOMAIN arriving /\ b \in DOMAIN arriving
  BY <1>1
<1> QED
  BY <1>1, <1>2 DEF UserOf

LEMMA Ids == MAIN_THREAD_ID \in Threads /\ MAIN_THREAD_ID \notin Offices /\ Offices \subseteq Threads
             /\ \A t \in Threads : t # MAIN_THREAD_ID => t \in Offices
  BY DEF MAIN_THREAD_ID, Threads, Offices

(* Where an office and the main thread go. *)
LEMMA OfficeEdges ==
  ASSUME NEW o, pc[o] \in OfficeLabels
  PROVE  /\ pc[o] = "lockBuffer" => AfterOffice(o) = "fetch"
         /\ pc[o] = "fetch" => AfterOffice(o) = "sayRequest"
         /\ pc[o] = "sayRequest" => AfterOffice(o) = "unlockBuffer"
         /\ pc[o] = "unlockBuffer" => AfterOffice(o) \in {"sayReply", "sayShutdown", "lock1"}
         /\ pc[o] = "lock1" => AfterOffice(o) = "sayLock1"
         /\ pc[o] = "sayLock1" => AfterOffice(o) = "sayDelay1"
         /\ pc[o] = "sayDelay1" => AfterOffice(o) \in {"sayAccount", "lock2", "unlock1"}
         /\ pc[o] = "sayDelay1" /\ AfterOffice(o) = "lock2" => HasSecond(Request(o))
         /\ pc[o] = "sayAccount" => AfterOffice(o) = "unlock1"
         /\ pc[o] = "unlock1" => AfterOffice(o) = "sayUnlock1"
         /\ pc[o] = "sayUnlock1" => AfterOffice(o) = "sayReply"
         /\ pc[o] = "lock2" => AfterOffice(o) = "sayLock2"
         /\ pc[o] = "sayLock2" => AfterOffice(o) = "sayDelay2"
         /\ pc[o] = "sayDelay2" => AfterOffice(o) = "unlock2"
         /\ pc[o] = "unlock2" => AfterOffice(o) = "sayUnlock2"
         /\ pc[o] = "sayUnlock2" => AfterOffice(o) = "unlock1"
         /\ pc[o] = "sayShutdown" => AfterOffice(o) = "shut"
         /\ pc[o] = "shut" => AfterOffice(o) = "sayReply"
         /\ pc[o] = "sayReply" => AfterOffice(o) = "idle"
<1>1. CASE pc[o] \in InnerSection
  <2>1. AfterOffice(o) = AfterInner(o)
    BY <1>1 DEF AfterOffice, Section, InnerSection
  <2> QED
    BY <1>1, <2>1 DEF AfterInner, InnerSection
<1>2. CASE pc[o] \in Section
  <2>1. AfterOffice(o) = AfterOuter(o)
    BY <1>2 DEF AfterOffice, Section, InnerSection
  <2>2. CASE pc[o] = "sayDelay1"
    <3>1. /\ AfterOuter(o) \in {"sayAccount", "lock2", "unlock1"}
          /\ AfterOuter(o) = "lock2" => HasSecond(Request(o))
      BY <2>2 DEF AfterOuter
    <3> QED
      BY <2>1, <2>2, <3>1
  <2>3. CASE pc[o] # "sayDelay1"
    BY <1>2, <2>1, <2>3 DEF AfterOuter, Section
  <2> QED
    BY <2>2, <2>3
<1>3. CASE pc[o] \in {"lockBuffer", "fetch", "sayRequest", "unlockBuffer"}
  <2>1. AfterOffice(o) = AfterFetching(o)
    BY <1>3 DEF AfterOffice, Section, InnerSection
  <2>2. pc[o] = "unlockBuffer" => AfterFetching(o) = Handler(Request(o))
    BY DEF AfterFetching
  <2>3. Handler(Request(o)) \in {"sayReply", "sayShutdown", "lock1"}
    BY DEF Handler
  <2> QED
    BY <1>3, <2>1, <2>2, <2>3 DEF AfterFetching
<1>4. CASE pc[o] \in {"sayShutdown", "shut", "sayReply"}
  BY <1>4 DEF AfterOffice, Section, InnerSection
<1>5. CASE pc[o] \in {"new", "idle", "ended"}
  BY <1>5
<1> QED
  BY <1>1, <1>2, <1>3, <1>4, <1>5 DEF OfficeLabels, Serving, Handling

LEMMA MainEdges ==
  /\ main = "sayAdmin" => AfterMain = "create"
  /\ main = "create" => AfterMain = "sayOpen"
  /\ main = "sayOpen" => AfterMain = IF office = NumOffices THEN "idle" ELSE "create"
  /\ main = "lockBuffer" => AfterMain = "store"
  /\ main = "store" => AfterMain = "sayRequest"
  /\ main = "sayRequest" => AfterMain = "unlockBuffer"
  /\ main = "unlockBuffer" => AfterMain = "post"
  /\ main = "post" => AfterMain = "idle"
  /\ main = "join" => AfterMain = "sayClose"
  /\ main = "sayClose" => AfterMain = IF office = NumOffices THEN "end" ELSE "join"
  BY DEF AfterMain, main

(* Everything but who goes stays where it is. *)
LEMMA OfficeGoes ==
  ASSUME TypeOK, NEW o \in Offices, Goes(o)
  PROVE  /\ pc' = [pc EXCEPT ![o] = AfterOffice(o)] /\ pc'[o] = AfterOffice(o) /\ main' = main
         /\ \A t \in Threads : t # o => pc'[t] = pc[t]
<1>1. pc' = [pc EXCEPT ![o] = AfterOffice(o)] /\ o # MAIN_THREAD_ID /\ o \in Threads
  BY Ids DEF Goes
<1>2. DOMAIN pc = Threads
  BY DEF TypeOK
<1> QED
  BY <1>1, <1>2, Ids DEF main

LEMMA MainGoes ==
  ASSUME TypeOK, Goes(MAIN_THREAD_ID)
  PROVE  /\ pc' = [pc EXCEPT ![MAIN_THREAD_ID] = AfterMain] /\ main' = AfterMain
         /\ \A t \in Threads : t # MAIN_THREAD_ID => pc'[t] = pc[t]
         /\ \A o \in Offices : pc'[o] = pc[o]
<1>1. pc' = [pc EXCEPT ![MAIN_THREAD_ID] = AfterMain]
  BY DEF Goes
<1>2. DOMAIN pc = Threads
  BY DEF TypeOK
<1> QED
  BY <1>1, <1>2, Ids DEF main

(* What a thread has to say. *)
LEMMA OfficeSays ==
  ASSUME TypeOK, Queue, NEW o \in Offices, pc[o] \in Saying
  PROVE  /\ LineAt(o) \in LogLines /\ LineAt(o).id = o
         /\ LineAt(o).what \notin {"OPEN", "CLOSE"}
         /\ LineAt(o).what = "request" <=> pc[o] = "sayRequest"
         /\ LineAt(o).what = "reply" <=> pc[o] = "sayReply"
         /\ LineAt(o).what = "MUTEX_LOCK" <=> pc[o] \in {"sayLock1", "sayLock2"}
         /\ LineAt(o).what = "delay" <=> pc[o] \in {"sayDelay1", "sayDelay2"}
         /\ pc[o] = "sayRequest" => LineAt(o).sid = UserOf(current[o])
         /\ pc[o] = "sayReply" => LineAt(o).sid = Request(o).id
         /\ pc[o] \in {"sayLock1", "sayLock2", "sayDelay1", "sayDelay2"} => LineAt(o).sid = AccountAt(o)
         /\ pc[o] \in {"sayDelay1", "sayDelay2"} => LineAt(o) = logSyncDelay(o, AccountAt(o))
<1>1. pc[o] \in Serving /\ pc[o] \notin {"sayAdmin", "sayOpen", "sayClose"} /\ o \in Threads
  BY Ids DEF TypeOK, OfficeLabels, Saying, Serving, Handling, Section, InnerSection
<1>2. current[o] \in 1 .. Len(arriving)
  BY <1>1 DEF Queue, Fetched, Stored, TypeOK
<1> DEFINE r == Request(o)
           x == AccountAt(o)
<1>3. r.user \in Nat /\ r.id \in Nat /\ x \in Nat
  BY <1>2, Arriving DEF Request, AccountAt, AccountIds
<1>4. UserOf(current[o]) = r.user
  BY DEF UserOf, Request
<1> HIDE DEF r, x
<1> DEFINE line(what, sid) == [id |-> o, what |-> what, sid |-> sid]
<1>5. /\ pc[o] = "sayRequest" => LineAt(o) = line("request", r.user)
      /\ pc[o] = "sayReply" => LineAt(o) = line("reply", r.id)
      /\ pc[o] \in {"sayLock1", "sayLock2"} => LineAt(o) = line("MUTEX_LOCK", x)
      /\ pc[o] \in {"sayUnlock1", "sayUnlock2"} => LineAt(o) = line("MUTEX_UNLOCK", x)
      /\ pc[o] \in {"sayDelay1", "sayDelay2"} => LineAt(o) = line("delay", x)
      /\ pc[o] = "sayAccount" => LineAt(o) = line("account", x)
      /\ pc[o] = "sayShutdown" => LineAt(o) = line("shutdown", 0)
  BY DEF LineAt, logRequest, logReply, logSyncMech, logSyncDelay, logAccountCreation, logDelay, Line, r, x
<1>d. pc[o] \in {"sayDelay1", "sayDelay2"} => LineAt(o) = logSyncDelay(o, AccountAt(o))
  BY DEF LineAt
<1>6. \A what \in Kinds, sid \in Nat :
        line(what, sid) \in LogLines /\ line(what, sid).id = o /\ line(what, sid).what = what /\ line(what, sid).sid = sid
  BY <1>1 DEF LogLines
<1> HIDE DEF line
<1>7. CASE pc[o] = "sayRequest"
  BY <1>3, <1>4, <1>5, <1>6, <1>7 DEF Kinds
<1>8. CASE pc[o] = "sayReply"
  BY <1>3, <1>5, <1>6, <1>8 DEF Kinds, r
<1>9. CASE pc[o] \in {"sayLock1", "sayLock2"}
  BY <1>3, <1>5, <1>6, <1>9 DEF Kinds, x
<1>10. CASE pc[o] \in {"sayDelay1", "sayDelay2"}
  BY <1>3, <1>5, <1>6, <1>10, <1>d DEF Kinds, x
<1>11. CASE pc[o] \in {"sayUnlock1", "sayUnlock2", "sayAccount"}
  BY <1>3, <1>5, <1>6, <1>11 DEF Kinds
<1>12. CASE pc[o] = "sayShutdown"
  BY <1>5, <1>6, <1>12 DEF Kinds
<1> QED
  BY <1>1, <1>7, <1>8, <1>9, <1>10, <1>11, <1>12 DEF Saying

LEMMA MainSays ==
  ASSUME TypeOK, Loops, Queue, main \in Saying
  PROVE  /\ main \in {"sayAdmin", "sayOpen", "sayClose", "sayRequest"}
         /\ LineAt(MAIN_THREAD_ID) \in LogLines
         /\ LineAt(MAIN_THREAD_ID).what \notin {"reply", "MUTEX_LOCK", "delay"}
         /\ LineAt(MAIN_THREAD_ID).what = "request" <=> main = "sayRequest"
         /\ main = "sayRequest" =>
              LineAt(MAIN_THREAD_ID).id = MAIN_THREAD_ID /\ LineAt(MAIN_THREAD_ID).sid = UserOf(reads)
         /\ LineAt(MAIN_THREAD_ID).what = "OPEN" <=> main = "sayOpen"
         /\ LineAt(MAIN_THREAD_ID).what = "CLOSE" <=> main = "sayClose"
         /\ main = "sayOpen" => LineAt(MAIN_THREAD_ID) = logBankOffice(office, "OPEN")
         /\ main = "sayClose" => LineAt(MAIN_THREAD_ID) = logBankOffice(office, "CLOSE")
<1>1. main \in {"sayAdmin", "sayOpen", "sayClose", "sayRequest"}
  BY DEF TypeOK, MainLabels, AtQueue, Saying, main
<1> DEFINE m == MAIN_THREAD_ID
<1>2. m \in Threads /\ office \in Threads
  BY Ids DEF TypeOK, Threads
<1>3. ASSUME main = "sayRequest" PROVE current[m] = reads /\ reads \in 1 .. Len(arriving)
  BY <1>3 DEF Queue, TypeOK, AtQueue
<1>4. ASSUME main = "sayRequest" PROVE UserOf(reads) \in Nat /\ Request(m).user = UserOf(reads)
  BY <1>3, <1>4, Arriving DEF UserOf, Request
<1>5. /\ main = "sayRequest" => LineAt(m) = [id |-> m, what |-> "request", sid |-> UserOf(reads)]
      /\ main = "sayAdmin" => LineAt(m) = [id |-> m, what |-> "account", sid |-> 0]
      /\ main = "sayOpen" => LineAt(m) = [id |-> office, what |-> "OPEN", sid |-> 0]
      /\ main = "sayClose" => LineAt(m) = [id |-> office, what |-> "CLOSE", sid |-> 0]
  BY <1>4 DEF LineAt, logRequest, logAccountCreation, logBankOffice, Line, main
<1>6. CASE main = "sayRequest"
  BY <1>2, <1>4, <1>5, <1>6 DEF LogLines, Kinds
<1>7. CASE main = "sayAdmin"
  BY <1>2, <1>5, <1>7 DEF LogLines, Kinds
<1>8. CASE main = "sayOpen"
  BY <1>2, <1>5, <1>8 DEF LogLines, Kinds, logBankOffice, Line
<1>9. CASE main = "sayClose"
  BY <1>2, <1>5, <1>9 DEF LogLines, Kinds, logBankOffice, Line
<1> QED
  BY <1>1, <1>6, <1>7, <1>8, <1>9

-----------------------------------------------------------------------------
(* Types.                                                                  *)

Going == Saying \cup {"lockBuffer", "fetch", "lock1", "lock2", "unlockBuffer", "unlock1", "unlock2", "shut",
                      "store", "post", "create", "join"}

LEMMA ClaimersFinite == IsFiniteSet(Claimers) /\ Cardinality(Claimers) \in Nat
<1>1. IsFiniteSet(Offices)
  BY FS_Interval DEF Offices
<1>2. Claimers \subseteq Offices
  BY DEF Claimers
<1> QED
  BY <1>1, <1>2, FS_Subset, FS_CardinalityType

LEMMA RequestThere ==
  ASSUME TypeOK, Queue, NEW o \in Offices, pc[o] \in {"lockBuffer", "fetch"}
  PROVE  Len(requests) > 0
<1>1. o \in Claimers
  BY DEF Claimers
<1>2. Cardinality(Claimers) # 0
  BY <1>1, ClaimersFinite, FS_EmptySet
<1> QED
  BY <1>2, ClaimersFinite DEF Queue, TypeOK

LEMMA GoesTyped ==
  ASSUME TypeOK, NEW t \in Threads, Goes(t), pc[t] \in Going
  PROVE  /\ pc' \in [Threads -> OfficeLabels \cup MainLabels]
         /\ pc'[MAIN_THREAD_ID] \in MainLabels /\ \A o \in Offices : pc'[o] \in OfficeLabels
<1>1. CASE t = MAIN_THREAD_ID
  <2>1. AfterMain \in MainLabels
    BY <1>1, MainEdges DEF TypeOK, Going, Saying, MainLabels, AtQueue, main
  <2> QED
    BY <1>1, <2>1, MainGoes, Ids DEF TypeOK, main
<1>2. CASE t \in Offices
  <2>1. pc[t] \in OfficeLabels
    BY <1>2 DEF TypeOK
  <2>2. AfterOffice(t) \in OfficeLabels
    BY <2>1, OfficeEdges DEF Going, Saying, OfficeLabels, Serving, Handling, Section, InnerSection
  <2>3. /\ pc' = [pc EXCEPT ![t] = AfterOffice(t)] /\ main' = main
        /\ \A o \in Offices : pc'[o] = IF o = t THEN AfterOffice(t) ELSE pc[o]
    BY <1>2, OfficeGoes, Ids
  <2> QED
    BY <2>2, <2>3 DEF TypeOK, main
<1> QED
  BY <1>1, <1>2, Ids

(* What is said is a line. *)
LEMMA SaysLine ==
  ASSUME TypeOK, Loops, Queue, NEW t \in Threads, pc[t] \in Saying
  PROVE  LineAt(t) \in LogLines
  BY OfficeSays, MainSays, Ids DEF main

LEMMA MutexTyped ==
  ASSUME TypeOK, Queue, NEW t \in Threads, pc[t] \in {"lockBuffer", "lock1", "lock2", "unlockBuffer", "unlock1", "unlock2"}
  PROVE  /\ MutexAt(t) \in Mutexes
         /\ pc[t] \in {"lockBuffer", "unlockBuffer"} => MutexAt(t) = BufferLock
         /\ pc[t] \in {"lock1", "unlock1"} => t \in Offices /\ MutexAt(t) = First(Request(t))
         /\ pc[t] \in {"lock2", "unlock2"} => t \in Offices /\ MutexAt(t) = Second(Request(t))
<1>1. pc[t] \notin {"lockBuffer", "unlockBuffer"} => t \in Offices /\ current[t] \in 1 .. Len(arriving)
  <2> SUFFICES ASSUME pc[t] \notin {"lockBuffer", "unlockBuffer"} PROVE t \in Offices /\ current[t] \in 1 .. Len(arriving)
    OBVIOUS
  <2>1. t \in Offices
    BY Ids DEF TypeOK, MainLabels, AtQueue
  <2>2. pc[t] \in Serving
    BY DEF Serving, Handling, Section, InnerSection
  <2> QED
    BY <2>1, <2>2 DEF Queue, Fetched, Stored, TypeOK
<1>2. /\ pc[t] \in {"lockBuffer", "unlockBuffer"} => MutexAt(t) = BufferLock
      /\ pc[t] \in {"lock1", "unlock1"} => MutexAt(t) = First(Request(t))
      /\ pc[t] \in {"lock2", "unlock2"} => MutexAt(t) = Second(Request(t))
  BY DEF MutexAt, AccountAt, Section, InnerSection
<1> QED
  BY <1>1, <1>2, Arriving DEF Request, Mutexes

LEMMA LogTyped ==
  ASSUME Machine, NEW t \in Threads, Write(t)
  PROVE  slog' \in Seq(LogLines) /\ formatted' \in [Threads -> BOOLEAN] /\ slog' = Append(slog, LineAt(t))
         /\ pc[t] \in Saying /\ LineAt(t) \in LogLines
<1>1. TypeOK /\ Loops /\ Queue /\ Lines
  BY DEF Machine
<1>2. pc[t] \in Saying /\ buffer[t] = LineAt(t)
  BY <1>1 DEF Write, Lines
<1>3. LineAt(t) \in LogLines
  BY <1>1, <1>2, SaysLine
<1>4. slog' = Append(slog, LineAt(t))
  BY <1>2 DEF Write, BufferOf
<1> QED
  BY <1>1, <1>2, <1>3, <1>4 DEF TypeOK, Write

LEMMA StepTyped == Machine /\ [Next]_vars => TypeOK'
<1> SUFFICES ASSUME Machine, [Next]_vars PROVE TypeOK'
  OBVIOUS
<1>0. TypeOK /\ Loops /\ Queue /\ MAIN_THREAD_ID \in Threads /\ Offices \subseteq Threads
  BY Ids DEF Machine
<1>1. CASE UNCHANGED vars
  BY <1>0, <1>1 DEF vars, TypeOK
<1>2. ASSUME NEW t \in Threads, TakeLock(t) PROVE TypeOK'
  <2>1. MutexAt(t) \in Mutexes /\ pc[t] \in Going
    BY <1>0, <1>2, MutexTyped DEF TakeLock, Going
  <2>2. owner' \in [Mutexes -> Threads \cup {Nobody}]
    BY <1>0, <1>2, <2>1 DEF TakeLock, TypeOK
  <2> QED
    BY <1>0, <1>2, <2>1, <2>2, GoesTyped DEF TakeLock, TypeOK, queue
<1>3. ASSUME NEW t \in Threads, GiveLock(t) PROVE TypeOK'
  <2>1. MutexAt(t) \in Mutexes /\ pc[t] \in Going
    BY <1>0, <1>3, MutexTyped DEF GiveLock, Going
  <2>2. owner' \in [Mutexes -> Threads \cup {Nobody}]
    BY <1>0, <1>3, <2>1 DEF GiveLock, TypeOK
  <2> QED
    BY <1>0, <1>3, <2>1, <2>2, GoesTyped DEF GiveLock, TypeOK, queue
<1>4. ASSUME NEW t \in Threads, Format(t) PROVE TypeOK'
  <2>1. LineAt(t) \in LogLines
    BY <1>0, <1>4, SaysLine DEF Format
  <2>2. buffer' \in [Threads -> LogLines \cup {NoLine}] /\ formatted' \in [Threads -> BOOLEAN]
    BY <1>0, <1>4, <2>1 DEF Format, BufferOf, TypeOK
  <2> QED
    BY <1>0, <1>4, <2>2 DEF Format, TypeOK, queue
<1>5. ASSUME NEW t \in Threads, Write(t) PROVE TypeOK'
  <2>1. pc[t] \in Going /\ Goes(t)
    BY <1>5, LogTyped DEF Going, Write
  <2> QED
    BY <1>0, <1>5, <2>1, LogTyped, GoesTyped DEF Write, TypeOK, queue
<1>6. ASSUME Create PROVE TypeOK'
  <2>1. office + 1 \in Offices /\ office' \in 0 .. NumOffices /\ main = "create"
    BY <1>0, <1>6 DEF Create, Loops, TypeOK, Offices, main
  <2>2. AfterMain = "sayOpen"
    BY <2>1, MainEdges
  <2>3. pc' = [pc EXCEPT ![MAIN_THREAD_ID] = "sayOpen", ![office + 1] = "idle"]
    BY <1>6, <2>2 DEF Create
  <2>4. /\ pc' \in [Threads -> OfficeLabels \cup MainLabels] /\ pc'[MAIN_THREAD_ID] = "sayOpen"
        /\ \A o \in Offices : pc'[o] = IF o = office + 1 THEN "idle" ELSE pc[o]
    BY <1>0, <2>1, <2>3, Ids DEF TypeOK, OfficeLabels, MainLabels
  <2> QED
    BY <1>0, <1>6, <2>1, <2>4 DEF Create, TypeOK, queue, OfficeLabels, MainLabels
<1>7. ASSUME Read PROVE TypeOK'
  <2>1. /\ pc' \in [Threads -> OfficeLabels \cup MainLabels] /\ pc'[MAIN_THREAD_ID] = "lockBuffer"
        /\ \A o \in Offices : pc'[o] = pc[o]
    BY <1>0, <1>7, Ids DEF Read, TypeOK, OfficeLabels
  <2>2. reads' \in 0 .. Len(arriving) /\ current' \in [Threads -> Nat]
    BY <1>0, <1>7 DEF Read, TypeOK
  <2> QED
    BY <1>0, <1>7, <2>1, <2>2 DEF Read, TypeOK, MainLabels, AtQueue
<1>8. ASSUME Store PROVE TypeOK'
  <2>1. pc[MAIN_THREAD_ID] \in Going /\ Goes(MAIN_THREAD_ID) /\ requests' \in Seq(Nat)
    BY <1>0, <1>8 DEF Store, Going, TypeOK
  <2> QED
    BY <1>0, <1>8, <2>1, GoesTyped DEF Store, TypeOK
<1>9. ASSUME Post PROVE TypeOK'
  <2>1. pc[MAIN_THREAD_ID] \in Going /\ Goes(MAIN_THREAD_ID) /\ items' \in Nat
    BY <1>0, <1>9 DEF Post, Going, TypeOK
  <2> QED
    BY <1>0, <1>9, <2>1, GoesTyped DEF Post, TypeOK
<1>10. ASSUME Eof PROVE TypeOK'
  <2>1. /\ pc' \in [Threads -> OfficeLabels \cup MainLabels] /\ pc'[MAIN_THREAD_ID] = "join"
        /\ \A o \in Offices : pc'[o] = pc[o]
    BY <1>0, <1>10, Ids DEF Eof, TypeOK, MainLabels
  <2> QED
    BY <1>0, <1>10, <2>1 DEF Eof, TypeOK, queue, MainLabels
<1>11. ASSUME Join PROVE TypeOK'
  <2>1. pc[MAIN_THREAD_ID] \in Going /\ Goes(MAIN_THREAD_ID) /\ office' \in 0 .. NumOffices
    BY <1>0, <1>11 DEF Join, Going, TypeOK, Loops, main
  <2> QED
    BY <1>0, <1>11, <2>1, GoesTyped DEF Join, TypeOK, queue
<1>12. ASSUME NEW o \in Offices, Claim(o) \/ Return(o) PROVE TypeOK'
  <2>1. /\ pc' \in [Threads -> OfficeLabels \cup MainLabels] /\ pc'[MAIN_THREAD_ID] = pc[MAIN_THREAD_ID]
        /\ \A u \in Offices : pc'[u] \in OfficeLabels
    <3>1. PICK l \in {"lockBuffer", "ended"} : pc' = [pc EXCEPT ![o] = l]
      BY <1>12 DEF Claim, Return
    <3>2. l \in OfficeLabels
      BY DEF OfficeLabels
    <3> QED
      BY <1>0, <3>1, <3>2, Ids DEF TypeOK
  <2>2. items' \in Nat
    BY <1>0, <1>12 DEF Claim, Return, TypeOK, queue
  <2> QED
    BY <1>0, <1>12, <2>1, <2>2 DEF Claim, Return, TypeOK, queue
<1>13. ASSUME NEW o \in Offices, Fetch(o) PROVE TypeOK'
  <2>1. pc[o] \in Going /\ Goes(o) /\ Len(requests) > 0
    BY <1>0, <1>13, RequestThere DEF Fetch, Going
  <2>2. requests' \in Seq(Nat) /\ current' \in [Threads -> Nat]
    BY <1>0, <1>13, <2>1 DEF Fetch, TypeOK
  <2> QED
    BY <1>0, <1>13, <2>1, <2>2, GoesTyped DEF Fetch, TypeOK
<1>14. ASSUME NEW o \in Offices, Shut(o) PROVE TypeOK'
  <2>1. pc[o] \in Going /\ Goes(o) /\ dummyOpen' \in BOOLEAN
    BY <1>14 DEF Shut, Going
  <2> QED
    BY <1>0, <1>14, <2>1, GoesTyped DEF Shut, TypeOK
<1> QED
  BY <1>1, <1>2, <1>3, <1>4, <1>5, <1>6, <1>7, <1>8, <1>9, <1>10, <1>11, <1>12, <1>13, <1>14 DEF Next

-----------------------------------------------------------------------------
(* The machine: who goes where.                                            *)

LEMMA TakeMoves ==
  ASSUME Machine, NEW t \in Threads, TakeLock(t)
  PROVE  /\ \A u \in Threads : u # t => pc'[u] = pc[u]
         /\ t = MAIN_THREAD_ID => main = "lockBuffer" /\ main' = "store" /\ \A o \in Offices : pc'[o] = pc[o]
         /\ t \in Offices => /\ main' = main
                             /\ pc[t] = "lockBuffer" => pc'[t] = "fetch"
                             /\ pc[t] = "lock1" => pc'[t] = "sayLock1"
                             /\ pc[t] = "lock2" => pc'[t] = "sayLock2"
<1>1. TypeOK /\ Goes(t) /\ pc[t] \in {"lockBuffer", "lock1", "lock2"}
  BY DEF Machine, TakeLock
<1>2. CASE t = MAIN_THREAD_ID
  <2>1. main = "lockBuffer"
    BY <1>1, <1>2 DEF TypeOK, main, MainLabels, AtQueue
  <2> QED
    BY <1>1, <1>2, <2>1, MainGoes, MainEdges, Ids
<1>3. CASE t \in Offices
  <2>1. pc[t] \in OfficeLabels
    BY <1>1, <1>3 DEF TypeOK
  <2> QED
    BY <1>1, <1>3, <2>1, OfficeGoes, OfficeEdges, Ids
<1> QED
  BY <1>2, <1>3, Ids

LEMMA GiveMoves ==
  ASSUME Machine, NEW t \in Threads, GiveLock(t)
  PROVE  /\ \A u \in Threads : u # t => pc'[u] = pc[u]
         /\ t = MAIN_THREAD_ID => main = "unlockBuffer" /\ main' = "post" /\ \A o \in Offices : pc'[o] = pc[o]
         /\ t \in Offices => /\ main' = main
                             /\ pc[t] = "unlockBuffer" => pc'[t] \in {"sayReply", "sayShutdown", "lock1"}
                             /\ pc[t] = "unlock1" => pc'[t] = "sayUnlock1"
                             /\ pc[t] = "unlock2" => pc'[t] = "sayUnlock2"
<1>1. TypeOK /\ Goes(t) /\ pc[t] \in {"unlockBuffer", "unlock1", "unlock2"}
  BY DEF Machine, GiveLock
<1>2. CASE t = MAIN_THREAD_ID
  <2>1. main = "unlockBuffer"
    BY <1>1, <1>2 DEF TypeOK, main, MainLabels, AtQueue
  <2> QED
    BY <1>1, <1>2, <2>1, MainGoes, MainEdges, Ids
<1>3. CASE t \in Offices
  <2>1. pc[t] \in OfficeLabels
    BY <1>1, <1>3 DEF TypeOK
  <2> QED
    BY <1>1, <1>3, <2>1, OfficeGoes, OfficeEdges, Ids
<1> QED
  BY <1>2, <1>3, Ids

LEMMA WriteMoves ==
  ASSUME Machine, NEW t \in Threads, Write(t)
  PROVE  /\ \A u \in Threads : u # t => pc'[u] = pc[u]
         /\ t = MAIN_THREAD_ID =>
              /\ \A o \in Offices : pc'[o] = pc[o]
              /\ \/ main = "sayAdmin" /\ main' = "create"
                 \/ main = "sayOpen" /\ main' = IF office = NumOffices THEN "idle" ELSE "create"
                 \/ main = "sayClose" /\ main' = IF office = NumOffices THEN "end" ELSE "join"
                 \/ main = "sayRequest" /\ main' = "unlockBuffer"
         /\ t \in Offices =>
              /\ main' = main
              /\ \/ pc[t] = "sayRequest" /\ pc'[t] = "unlockBuffer"
                 \/ pc[t] = "sayLock1" /\ pc'[t] = "sayDelay1"
                 \/ pc[t] = "sayDelay1" /\ pc'[t] \in {"sayAccount", "unlock1"}
                 \/ pc[t] = "sayDelay1" /\ pc'[t] = "lock2" /\ HasSecond(Request(t))
                 \/ pc[t] = "sayAccount" /\ pc'[t] = "unlock1"
                 \/ pc[t] = "sayUnlock1" /\ pc'[t] = "sayReply"
                 \/ pc[t] = "sayLock2" /\ pc'[t] = "sayDelay2"
                 \/ pc[t] = "sayDelay2" /\ pc'[t] = "unlock2"
                 \/ pc[t] = "sayUnlock2" /\ pc'[t] = "unlock1"
                 \/ pc[t] = "sayShutdown" /\ pc'[t] = "shut"
                 \/ pc[t] = "sayReply" /\ pc'[t] = "idle"
<1>1. TypeOK /\ Loops /\ Queue /\ Goes(t) /\ pc[t] \in Saying
  BY LogTyped DEF Machine, Write
<1>2. CASE t = MAIN_THREAD_ID
  <2>1. main \in {"sayAdmin", "sayOpen", "sayClose", "sayRequest"}
    BY <1>1, <1>2, MainSays DEF main
  <2> QED
    BY <1>1, <1>2, <2>1, MainGoes, MainEdges, Ids
<1>3. CASE t \in Offices
  <2>1. pc[t] \in OfficeLabels
    BY <1>1, <1>3 DEF TypeOK
  <2>2. pc[t] \notin {"sayAdmin", "sayOpen", "sayClose"}
    BY <2>1 DEF OfficeLabels, Serving, Handling, Section, InnerSection
  <2>3. pc'[t] = AfterOffice(t) /\ main' = main /\ \A u \in Threads : u # t => pc'[u] = pc[u]
    BY <1>1, <1>3, OfficeGoes
  <2> QED
    BY <1>1, <1>3, <2>1, <2>2, <2>3, OfficeEdges, Ids DEF Saying
<1> QED
  BY <1>2, <1>3, Ids

LEMMA MainMoves ==
  ASSUME Machine
  PROVE  /\ Create => /\ main = "create" /\ main' = "sayOpen" /\ office + 1 \in Offices
                      /\ \A o \in Offices : pc'[o] = IF o = office + 1 THEN "idle" ELSE pc[o]
         /\ Read => main = "idle" /\ main' = "lockBuffer" /\ \A o \in Offices : pc'[o] = pc[o]
         /\ Store => main = "store" /\ main' = "sayRequest" /\ \A o \in Offices : pc'[o] = pc[o]
         /\ Post => main = "post" /\ main' = "idle" /\ \A o \in Offices : pc'[o] = pc[o]
         /\ Eof => main = "idle" /\ main' = "join" /\ \A o \in Offices : pc'[o] = pc[o]
         /\ Join => main = "join" /\ main' = "sayClose" /\ \A o \in Offices : pc'[o] = pc[o]
<1>0. TypeOK /\ Loops
  BY DEF Machine
<1>1. ASSUME Create PROVE /\ main = "create" /\ main' = "sayOpen" /\ office + 1 \in Offices
                          /\ \A o \in Offices : pc'[o] = IF o = office + 1 THEN "idle" ELSE pc[o]
  <2>1. main = "create" /\ office + 1 \in Offices
    BY <1>0, <1>1 DEF Create, Loops, TypeOK, Offices, main
  <2>2. pc' = [pc EXCEPT ![MAIN_THREAD_ID] = "sayOpen", ![office + 1] = "idle"]
    BY <1>1, <2>1, MainEdges DEF Create
  <2> QED
    BY <1>0, <2>1, <2>2, Ids DEF TypeOK, main
<1>2. ASSUME Read \/ Eof
      PROVE  main = "idle" /\ main' = (IF Read THEN "lockBuffer" ELSE "join") /\ \A o \in Offices : pc'[o] = pc[o]
  <2>1. PICK l \in {"lockBuffer", "join"} :
          pc' = [pc EXCEPT ![MAIN_THREAD_ID] = l] /\ l = IF Read THEN "lockBuffer" ELSE "join"
    BY <1>2 DEF Read, Eof
  <2> QED
    BY <1>0, <1>2, <2>1, Ids DEF Read, Eof, TypeOK, main
<1>3. ASSUME Store \/ Post \/ Join PROVE main' = AfterMain /\ \A o \in Offices : pc'[o] = pc[o]
  BY <1>0, <1>3, MainGoes DEF Store, Post, Join
<1>4. (Store => main = "store") /\ (Post => main = "post") /\ (Join => main = "join")
  BY DEF Store, Post, Join, main
<1>5. Eof => ~Read
  <2> SUFFICES ASSUME Eof, Read PROVE FALSE
    OBVIOUS
  <2>1. reads' = reads /\ reads' = reads + 1 /\ reads \in Nat
    BY <1>0 DEF Eof, Read, queue, TypeOK
  <2> QED
    BY <2>1
<1> QED
  BY <1>1, <1>2, <1>3, <1>4, <1>5, MainEdges

LEMMA OfficeMoves ==
  ASSUME Machine, NEW o \in Offices, Claim(o) \/ Return(o) \/ Fetch(o) \/ Shut(o)
  PROVE  /\ main' = main /\ \A t \in Threads : t # o => pc'[t] = pc[t]
         /\ Claim(o) => pc[o] = "idle" /\ pc'[o] = "lockBuffer"
         /\ Return(o) => pc[o] = "idle" /\ pc'[o] = "ended"
         /\ Fetch(o) => pc[o] = "fetch" /\ pc'[o] = "sayRequest"
         /\ Shut(o) => pc[o] = "shut" /\ pc'[o] = "sayReply"
<1>0. TypeOK /\ pc[o] \in OfficeLabels /\ DOMAIN pc = Threads /\ o \in Threads /\ o # MAIN_THREAD_ID
  BY Ids DEF Machine, TypeOK
<1>1. ASSUME Fetch(o) \/ Shut(o)
      PROVE  /\ main' = main /\ pc'[o] = AfterOffice(o) /\ (Fetch(o) => pc[o] = "fetch") /\ (Shut(o) => pc[o] = "shut")
             /\ \A t \in Threads : t # o => pc'[t] = pc[t]
  BY <1>0, <1>1, OfficeGoes DEF Fetch, Shut
<1>2. ASSUME Claim(o) PROVE /\ main' = main /\ pc[o] = "idle" /\ pc'[o] = "lockBuffer"
                            /\ \A t \in Threads : t # o => pc'[t] = pc[t]
  BY <1>0, <1>2, Ids DEF Claim, main
<1>3. ASSUME Return(o) PROVE /\ main' = main /\ pc[o] = "idle" /\ pc'[o] = "ended"
                             /\ \A t \in Threads : t # o => pc'[t] = pc[t]
  BY <1>0, <1>3, Ids DEF Return, main
<1>4. Claim(o) => pc'[o] = "lockBuffer" /\ ~Return(o) /\ ~Fetch(o) /\ ~Shut(o)
  BY <1>0, <1>2, <1>3 DEF Fetch, Shut
<1> QED
  BY <1>0, <1>1, <1>2, <1>3, <1>4, OfficeEdges

(* No step but Create and Return begins or ends an office. *)
LEMMA LoopsStep == Machine /\ [Next]_vars => Loops'
<1> SUFFICES ASSUME Machine, [Next]_vars PROVE Loops'
  OBVIOUS
<1>0. TypeOK /\ Loops /\ NumOffices \in Nat /\ office \in 0 .. NumOffices /\ Offices = 1 .. NumOffices
  BY DEF Machine, TypeOK, Offices
<1> USE DEF Closed, main
<1>1. CASE UNCHANGED vars
  BY <1>0, <1>1 DEF vars, Loops
<1>2. ASSUME NEW t \in Threads, TakeLock(t) PROVE Loops'
  <2>1. office' = office /\ items' = items /\ pc[t] \in {"lockBuffer", "lock1", "lock2"}
    BY <1>2 DEF TakeLock, queue
  <2> QED
    BY <1>0, <1>2, <2>1, TakeMoves, Ids DEF Loops
<1>3. ASSUME NEW t \in Threads, GiveLock(t) PROVE Loops'
  <2>1. office' = office /\ items' = items /\ pc[t] \in {"unlockBuffer", "unlock1", "unlock2"}
    BY <1>3 DEF GiveLock, queue
  <2> QED
    BY <1>0, <1>3, <2>1, GiveMoves, Ids DEF Loops
<1>4. ASSUME NEW t \in Threads, Format(t) PROVE Loops'
  BY <1>0, <1>4 DEF Format, queue, Loops
<1>5. ASSUME NEW t \in Threads, Write(t) PROVE Loops'
  <2>1. office' = office /\ items' = items
    BY <1>5 DEF Write, queue
  <2>2. CASE t = MAIN_THREAD_ID
    <3>1. (\A o \in Offices : pc'[o] = pc[o]) /\ main' # "sayAdmin" /\ main' # "sayOpen" /\ main' # "sayClose"
      BY <1>5, <2>2, WriteMoves
    <3>2. /\ main' = "end" => main = "sayClose" /\ office = NumOffices
          /\ main' \in {"create", "join"} => office < NumOffices
          /\ Closed' <=> Closed
      BY <1>0, <1>5, <2>2, WriteMoves DEF Loops
    <3>3. main' = "create" => main \in {"sayAdmin", "sayOpen"}
      BY <1>5, <2>2, WriteMoves
    <3>4. /\ main # "create"
          /\ main \in {"sayAdmin", "sayOpen"} /\ main' # "create" => main = "sayOpen" /\ office = NumOffices
      BY <1>5, <2>2, WriteMoves
    <3>5. \A o \in Offices : pc[o] = "new" => main' = "create"
      BY <1>0, <3>4 DEF Loops
    <3>6. main' = "create" => \A o \in Offices : pc[o] = "new" <=> o > office
      BY <1>0, <3>3 DEF Loops
    <3>7. \A o \in Offices : pc[o] = "ended" => Closed /\ items = 0
      BY <1>0 DEF Loops
    <3>8. Closed => \A o \in Offices : o <= office => pc[o] = "ended"
      BY <1>0 DEF Loops
    <3> HIDE DEF Closed
    <3>9. \A o \in Offices :
            /\ pc'[o] = "new" => main' \in {"sayAdmin", "create", "sayOpen"}
            /\ main' \in {"sayAdmin", "create", "sayOpen"} => (pc'[o] = "new" <=> o > office')
            /\ Closed' /\ o <= office' => pc'[o] = "ended"
            /\ pc'[o] = "ended" => Closed' /\ items' = 0
      BY <2>1, <3>1, <3>2, <3>5, <3>6, <3>7, <3>8
    <3> QED
      BY <1>0, <2>1, <3>1, <3>2, <3>9 DEF Loops
  <2>3. CASE t \in Offices
    BY <1>0, <1>5, <2>1, <2>3, WriteMoves, Ids DEF Loops
  <2> QED
    BY <2>2, <2>3, Ids
<1>6. ASSUME Create PROVE Loops'
  <2>1. office' = office + 1 /\ items' = items
    BY <1>6 DEF Create, queue
  <2> QED
    BY <1>0, <1>6, <2>1, MainMoves DEF Loops
<1>7. ASSUME Read \/ Store \/ Post PROVE Loops'
  <2>1. office' = office /\ (items' = items \/ items' = items + 1)
    BY <1>7 DEF Read, Store, Post
  <2>2. main \in {"idle", "store", "post"} /\ main' \in {"lockBuffer", "sayRequest", "idle"}
        /\ \A o \in Offices : pc'[o] = pc[o]
    BY <1>7, MainMoves
  <2> QED
    BY <1>0, <2>1, <2>2 DEF Loops
<1>8. ASSUME Eof PROVE Loops'
  <2>1. office' = 0 /\ items' = items
    BY <1>8 DEF Eof, queue
  <2> QED
    BY <1>0, <1>8, <2>1, MainMoves DEF Loops
<1>9. ASSUME Join PROVE Loops'
  <2>1. office' = office + 1 /\ items' = items /\ pc[office + 1] = "ended"
    BY <1>9 DEF Join, queue
  <2> QED
    BY <1>0, <1>9, <2>1, MainMoves DEF Loops
<1>10. ASSUME NEW o \in Offices, Claim(o) PROVE Loops'
  <2>1. office' = office /\ items' = items - 1 /\ items > 0
    BY <1>10 DEF Claim
  <2> QED
    BY <1>0, <1>10, <2>1, OfficeMoves, Ids DEF Loops
<1>11. ASSUME NEW o \in Offices, Return(o) PROVE Loops'
  <2>1. office' = office /\ items' = items /\ items = 0 /\ Closed
    BY <1>11 DEF Return, queue
  <2> QED
    BY <1>0, <1>11, <2>1, OfficeMoves, Ids DEF Loops
<1>12. ASSUME NEW o \in Offices, Fetch(o) \/ Shut(o) PROVE Loops'
  <2>1. office' = office /\ items' = items
    BY <1>12 DEF Fetch, Shut
  <2> QED
    BY <1>0, <1>12, <2>1, OfficeMoves, Ids DEF Loops
<1> QED
  BY <1>1, <1>2, <1>3, <1>4, <1>5, <1>6, <1>7, <1>8, <1>9, <1>10, <1>11, <1>12 DEF Next

(* What a thread that does not move has to say stays the same. *)
LEMMA LineKept ==
  ASSUME TypeOK, NEW t \in Threads, pc'[t] = pc[t], current'[t] = current[t], arriving' = arriving,
         office' = office \/ t \in Offices
  PROVE  LineAt(t)' = LineAt(t) /\ AccountAt(t)' = AccountAt(t) /\ Request(t)' = Request(t)
<1>1. Request(t)' = Request(t) /\ AccountAt(t)' = AccountAt(t)
  BY DEF Request, AccountAt
<1>2. t \in Offices => pc[t] \notin {"sayOpen", "sayClose"}
  BY DEF TypeOK, OfficeLabels, Serving, Handling, Section, InnerSection
<1>3. CASE office' = office
  BY <1>1, <1>3 DEF LineAt
<1>4. CASE pc[t] \notin {"sayOpen", "sayClose"}
  BY <1>1, <1>4 DEF LineAt
<1> QED
  BY <1>1, <1>2, <1>3, <1>4

LEMMA LinesStep == Machine /\ [Next]_vars => Lines'
<1> SUFFICES ASSUME Machine, [Next]_vars, NEW t \in Threads, formatted'[t]
             PROVE  pc'[t] \in Saying /\ buffer'[t] = LineAt(t)'
  BY DEF Lines
<1>0. TypeOK /\ Lines /\ Loops /\ Queue /\ DOMAIN formatted = Threads /\ DOMAIN buffer = Threads
  BY DEF Machine, TypeOK
<1>a. formatted[t] => pc[t] \in Saying /\ buffer[t] = LineAt(t)
  BY <1>0 DEF Lines
<1>b. ASSUME formatted[t], pc'[t] = pc[t], current'[t] = current[t], arriving' = arriving, buffer'[t] = buffer[t],
             office' = office \/ t \in Offices
      PROVE  pc'[t] \in Saying /\ buffer'[t] = LineAt(t)'
  BY <1>0, <1>a, <1>b, LineKept
<1>1. CASE UNCHANGED vars
  BY <1>1, <1>b DEF vars
<1>2. ASSUME NEW u \in Threads, TakeLock(u) \/ GiveLock(u) PROVE pc'[t] \in Saying /\ buffer'[t] = LineAt(t)'
  <2>1. UNCHANGED <<formatted, buffer, current, arriving, office>> /\ pc[u] \notin Saying
    BY <1>2 DEF TakeLock, GiveLock, queue, Saying
  <2> QED
    BY <1>2, <1>a, <1>b, <2>1, TakeMoves, GiveMoves
<1>3. ASSUME NEW u \in Threads, Format(u) PROVE pc'[t] \in Saying /\ buffer'[t] = LineAt(t)'
  <2>1. UNCHANGED <<pc, current, arriving, office>> /\ pc[u] \in Saying
    BY <1>3 DEF Format, queue
  <2>2. buffer'[t] = (IF t = u THEN LineAt(u) ELSE buffer[t]) /\ (t # u => formatted'[t] = formatted[t])
    BY <1>0, <1>3 DEF Format, BufferOf
  <2>3. LineAt(t)' = LineAt(t)
    BY <1>0, <2>1, LineKept
  <2> QED
    BY <1>a, <2>1, <2>2, <2>3
<1>4. ASSUME NEW u \in Threads, Write(u) PROVE pc'[t] \in Saying /\ buffer'[t] = LineAt(t)'
  <2>1. UNCHANGED <<buffer, current, arriving, office>> /\ t # u /\ formatted'[t] = formatted[t]
    BY <1>0, <1>4 DEF Write, queue
  <2> QED
    BY <1>4, <1>b, <2>1, WriteMoves
<1>5. ASSUME Create \/ Read \/ Store \/ Post \/ Eof \/ Join PROVE pc'[t] \in Saying /\ buffer'[t] = LineAt(t)'
  <2>1. UNCHANGED <<formatted, buffer, arriving>> /\ formatted[t]
    BY <1>5 DEF Create, Read, Store, Post, Eof, Join, queue
  <2>2. main \notin Saying
    BY <1>5, MainMoves DEF Saying
  <2>3. t \in Offices
    BY <1>a, <2>1, <2>2, Ids DEF main
  <2>4. current'[t] = current[t]
    BY <1>0, <1>5, <2>3, Ids DEF Create, Read, Store, Post, Eof, Join, TypeOK
  <2>5. pc'[t] = pc[t]
    <3>1. CASE Create
      <4>1. pc'[t] = IF t = office + 1 THEN "idle" ELSE pc[t]
        BY <2>3, <3>1, MainMoves
      <4>2. t = office + 1 => pc[t] = "new"
        BY <1>0, <2>3, <3>1, MainMoves DEF Loops, TypeOK
      <4> QED
        BY <1>a, <2>1, <4>1, <4>2 DEF Saying
    <3>2. CASE Read \/ Store \/ Post \/ Eof \/ Join
      BY <2>3, <3>2, MainMoves
    <3> QED
      BY <1>5, <3>1, <3>2
  <2> QED
    BY <1>b, <2>1, <2>3, <2>4, <2>5
<1>6. ASSUME NEW o \in Offices, Claim(o) \/ Return(o) \/ Fetch(o) \/ Shut(o)
      PROVE  pc'[t] \in Saying /\ buffer'[t] = LineAt(t)'
  <2>1. UNCHANGED <<formatted, buffer, arriving, office>> /\ formatted[t]
    BY <1>6 DEF Claim, Return, Fetch, Shut, queue
  <2>2. pc[o] \notin Saying /\ (t # o => pc'[t] = pc[t])
    BY <1>6, OfficeMoves DEF Saying
  <2>3. t # o /\ current'[t] = current[t]
    BY <1>0, <1>a, <1>6, <2>1, <2>2 DEF Claim, Return, Fetch, Shut, queue, TypeOK
  <2> QED
    BY <1>b, <2>1, <2>2, <2>3
<1> QED
  BY <1>1, <1>2, <1>3, <1>4, <1>5, <1>6 DEF Next

-----------------------------------------------------------------------------
(* The queue and the mutexes.                                              *)

Pending == IF main \in {"sayRequest", "unlockBuffer", "post"} THEN 1 ELSE 0

(* What a step has to leave as it is to keep the queue. *)
LEMMA QueueKept ==
  ASSUME TypeOK, Queue, UNCHANGED <<requests, arriving, reads>>, Stored' = Stored,
         items' + Cardinality(Claimers') + Pending' = items + Cardinality(Claimers) + Pending,
         main' \in AtQueue => reads > 0 /\ current'[MAIN_THREAD_ID] = reads,
         \A o \in Offices : /\ pc'[o] \in Serving => pc[o] \in Serving /\ current'[o] = current[o]
                            /\ pc'[o] = "sayRequest" => pc[o] = "sayRequest"
                            /\ pc'[o] \in InnerSection => pc[o] \in InnerSection \/ HasSecond(Request(o))
  PROVE  Queue'
<1>1. Fetched' = Fetched /\ Fetched \in Int
  BY DEF Fetched, Stored, TypeOK
<1>2. items' + Cardinality(Claimers)' + Pending' = Len(requests)'
  BY DEF Queue, Pending
<1>3. \A o \in Offices : pc'[o] \in Serving => pc[o] \in Serving /\ Request(o)' = Request(o)
  BY DEF Request
<1>4. InnerSection \subseteq Serving
  BY DEF Serving, Handling
<1>5. \A o \in Offices :
        /\ pc'[o] \in Serving => current'[o] \in 1 .. Fetched'
        /\ pc'[o] = "sayRequest" => current'[o] = Fetched'
        /\ pc'[o] \in InnerSection => HasSecond(Request(o)')
  <2> TAKE o \in Offices
  <2>1. pc'[o] \in Serving => current'[o] \in 1 .. Fetched'
    BY <1>1 DEF Queue
  <2>2. pc'[o] = "sayRequest" => current'[o] = Fetched'
    BY <1>1 DEF Queue, Serving
  <2>3. pc'[o] \in InnerSection => HasSecond(Request(o)')
    BY <1>3, <1>4 DEF Queue
  <2> QED
    BY <2>1, <2>2, <2>3
<1>6. \A o \in Offices : HasSecond(Request(o))' <=> HasSecond(Request(o)')
  BY DEF HasSecond
<1>7. \A i \in 1 .. Len(requests)' : requests'[i] = Fetched' + i
  BY <1>1 DEF Queue
<1>8. Fetched' >= 0
  BY <1>1 DEF Queue
<1> QED
  BY <1>2, <1>5, <1>6, <1>7, <1>8 DEF Queue, Pending

LEMMA ClaimersKept ==
  ASSUME \A o \in Offices : pc'[o] \in {"lockBuffer", "fetch"} <=> pc[o] \in {"lockBuffer", "fetch"}
  PROVE  Claimers' = Claimers
  BY DEF Claimers

LEMMA QueueStep == Machine /\ [Next]_vars => Queue'
<1> SUFFICES ASSUME Machine, [Next]_vars PROVE Queue'
  OBVIOUS
<1>0. /\ TypeOK /\ Queue /\ Loops /\ items \in Nat /\ reads \in Nat /\ IsFiniteSet(Claimers)
      /\ Cardinality(Claimers) \in Nat /\ Pending \in Nat /\ DOMAIN current = Threads
  BY ClaimersFinite DEF Machine, TypeOK, Pending
<1>1. CASE UNCHANGED vars
  <2>1. UNCHANGED <<requests, arriving, reads, items, pc, current>>
    BY <1>1 DEF vars
  <2>2. Stored' = Stored /\ Claimers' = Claimers /\ Pending' = Pending /\ main' = main
    BY <2>1 DEF Stored, Claimers, Pending, main
  <2> QED
    BY <1>0, <2>1, <2>2, QueueKept DEF Queue
<1>2. ASSUME NEW t \in Threads, TakeLock(t) PROVE Queue'
  <2>1. UNCHANGED <<requests, arriving, reads, items, current>> /\ pc[t] \in {"lockBuffer", "lock1", "lock2"}
    BY <1>2 DEF TakeLock, queue
  <2>2. \A o \in Offices : \/ pc'[o] = pc[o]
                           \/ pc[o] = "lockBuffer" /\ pc'[o] = "fetch"
                           \/ pc[o] = "lock1" /\ pc'[o] = "sayLock1"
                           \/ pc[o] = "lock2" /\ pc'[o] = "sayLock2"
    BY <1>2, <2>1, TakeMoves, Ids
  <2>3. main' = main \/ (main = "lockBuffer" /\ main' = "store")
    BY <1>2, <2>1, TakeMoves, Ids
  <2>4. Claimers' = Claimers
    BY <2>2, ClaimersKept
  <2>5. Stored' = Stored /\ Pending' = Pending
    BY <2>1, <2>3 DEF Stored, Pending
  <2>6. main' \in AtQueue => reads > 0 /\ current'[MAIN_THREAD_ID] = reads
    BY <1>0, <2>1, <2>3 DEF Queue, AtQueue
  <2>7. \A o \in Offices : /\ pc'[o] \in Serving => pc[o] \in Serving
                           /\ pc'[o] = "sayRequest" => pc[o] = "sayRequest"
                           /\ pc'[o] \in InnerSection => pc[o] \in InnerSection
    BY <2>2 DEF Serving, Handling, Section, InnerSection
  <2> QED
    BY <1>0, <2>1, <2>4, <2>5, <2>6, <2>7, QueueKept
<1>3. ASSUME NEW t \in Threads, GiveLock(t) PROVE Queue'
  <2>1. UNCHANGED <<requests, arriving, reads, items, current>> /\ pc[t] \in {"unlockBuffer", "unlock1", "unlock2"}
    BY <1>3 DEF GiveLock, queue
  <2>2. \A o \in Offices : \/ pc'[o] = pc[o]
                           \/ pc[o] = "unlockBuffer" /\ pc'[o] \in {"sayReply", "sayShutdown", "lock1"}
                           \/ pc[o] = "unlock1" /\ pc'[o] = "sayUnlock1"
                           \/ pc[o] = "unlock2" /\ pc'[o] = "sayUnlock2"
    BY <1>3, <2>1, GiveMoves, Ids
  <2>3. main' = main \/ (main = "unlockBuffer" /\ main' = "post")
    BY <1>3, <2>1, GiveMoves, Ids
  <2>4. Claimers' = Claimers
    BY <2>2, ClaimersKept
  <2>5. Stored' = Stored /\ Pending' = Pending
    BY <2>1, <2>3 DEF Stored, Pending
  <2>6. main' \in AtQueue => reads > 0 /\ current'[MAIN_THREAD_ID] = reads
    BY <1>0, <2>1, <2>3 DEF Queue, AtQueue
  <2>7. \A o \in Offices : /\ pc'[o] \in Serving => pc[o] \in Serving
                           /\ pc'[o] = "sayRequest" => pc[o] = "sayRequest"
                           /\ pc'[o] \in InnerSection => pc[o] \in InnerSection
    BY <2>2 DEF Serving, Handling, Section, InnerSection
  <2> QED
    BY <1>0, <2>1, <2>4, <2>5, <2>6, <2>7, QueueKept
<1>4. ASSUME NEW t \in Threads, Format(t) PROVE Queue'
  <2>1. UNCHANGED <<requests, arriving, reads, items, pc, current>>
    BY <1>4 DEF Format, queue
  <2>2. Stored' = Stored /\ Claimers' = Claimers /\ Pending' = Pending /\ main' = main
    BY <2>1 DEF Stored, Claimers, Pending, main
  <2> QED
    BY <1>0, <2>1, <2>2, QueueKept DEF Queue
<1>5. ASSUME NEW t \in Threads, Write(t) PROVE Queue'
  <2>1. UNCHANGED <<requests, arriving, reads, items, current>>
    BY <1>5 DEF Write, queue
  <2>2. \A o \in Offices : \/ pc'[o] = pc[o]
                           \/ /\ pc[o] \in Serving \ {"lockBuffer", "fetch"}
                              /\ pc'[o] \notin {"lockBuffer", "fetch", "sayRequest"}
                              /\ pc'[o] \in InnerSection => pc[o] \in InnerSection \/ HasSecond(Request(o))
    BY <1>5, WriteMoves, Ids DEF Serving, Handling, Section, InnerSection
  <2>3. \/ main' = main
        \/ main \notin AtQueue /\ main' \notin AtQueue
        \/ main = "sayRequest" /\ main' = "unlockBuffer"
    BY <1>5, WriteMoves, Ids DEF AtQueue
  <2>4. Claimers' = Claimers
    BY <2>2, ClaimersKept
  <2>5. Stored' = Stored /\ Pending' = Pending
    BY <2>1, <2>3 DEF Stored, Pending, AtQueue
  <2>6. main' \in AtQueue => reads > 0 /\ current'[MAIN_THREAD_ID] = reads
    BY <1>0, <2>1, <2>3 DEF Queue, AtQueue
  <2> QED
    BY <1>0, <2>1, <2>2, <2>4, <2>5, <2>6, QueueKept
<1>6. ASSUME Create \/ Eof \/ Join PROVE Queue'
  <2>1. UNCHANGED <<requests, arriving, reads, items, current>>
    BY <1>6 DEF Create, Eof, Join, queue
  <2>2. \A o \in Offices : pc'[o] = pc[o] \/ (pc[o] = "new" /\ pc'[o] = "idle")
    BY <1>0, <1>6, MainMoves DEF Loops, TypeOK
  <2>3. main \notin AtQueue /\ main' \notin AtQueue
    BY <1>6, MainMoves DEF AtQueue
  <2>4. Claimers' = Claimers
    BY <2>2, ClaimersKept
  <2>5. Stored' = Stored /\ Pending' = Pending
    BY <2>1, <2>3 DEF Stored, Pending, AtQueue
  <2>6. \A o \in Offices : /\ pc'[o] \in Serving => pc[o] \in Serving
                           /\ pc'[o] = "sayRequest" => pc[o] = "sayRequest"
                           /\ pc'[o] \in InnerSection => pc[o] \in InnerSection
    BY <2>2 DEF Serving, Handling, Section, InnerSection
  <2> QED
    BY <1>0, <2>1, <2>3, <2>4, <2>5, <2>6, QueueKept
<1>7. ASSUME Post PROVE Queue'
  <2>1. UNCHANGED <<requests, arriving, reads, current>> /\ items' = items + 1
    BY <1>7 DEF Post
  <2>2. main = "post" /\ main' = "idle" /\ \A o \in Offices : pc'[o] = pc[o]
    BY <1>7, MainMoves
  <2>3. Claimers' = Claimers
    BY <2>2, ClaimersKept
  <2>4. Stored' = Stored /\ Pending' = 0 /\ Pending = 1
    BY <2>1, <2>2 DEF Stored, Pending
  <2> QED
    BY <1>0, <2>1, <2>2, <2>3, <2>4, QueueKept DEF AtQueue
<1>8. ASSUME Read PROVE Queue'
  <2>1. UNCHANGED <<requests, arriving, items>> /\ reads' = reads + 1 /\ current'[MAIN_THREAD_ID] = reads + 1
        /\ \A o \in Offices : current'[o] = current[o]
    BY <1>0, <1>8, Ids DEF Read, TypeOK
  <2>2. main = "idle" /\ main' = "lockBuffer" /\ \A o \in Offices : pc'[o] = pc[o]
    BY <1>8, MainMoves
  <2>3. Claimers' = Claimers
    BY <2>2, ClaimersKept
  <2>4. Stored' = Stored /\ Pending' = Pending /\ Fetched' = Fetched
    BY <1>0, <2>1, <2>2 DEF Stored, Pending, Fetched
  <2>5. \A o \in Offices : Request(o)' = Request(o)
    BY <2>1 DEF Request
  <2>6. \A o \in Offices : HasSecond(Request(o))' <=> HasSecond(Request(o))
    BY <2>5 DEF HasSecond
  <2> QED
    BY <1>0, <2>1, <2>2, <2>3, <2>4, <2>6 DEF Queue, Pending
<1>9. ASSUME Store PROVE Queue'
  <2>1. UNCHANGED <<arriving, items, reads, current>> /\ requests' = Append(requests, reads)
    BY <1>0, <1>9, MainMoves DEF Store, Queue, AtQueue
  <2>2. main = "store" /\ main' = "sayRequest" /\ (\A o \in Offices : pc'[o] = pc[o]) /\ reads > 0
    BY <1>0, <1>9, MainMoves DEF Queue, AtQueue
  <2>3. Claimers' = Claimers
    BY <2>2, ClaimersKept
  <2>4. /\ Len(requests)' = Len(requests) + 1 /\ Len(requests) \in Nat
        /\ \A i \in 1 .. Len(requests)' : requests'[i] = IF i = Len(requests) + 1 THEN reads ELSE requests[i]
    BY <1>0, <2>1 DEF TypeOK
  <2>5. Stored' = reads /\ Stored = reads - 1 /\ Fetched' = Fetched /\ Pending = 0 /\ Pending' = 1
        /\ Fetched = reads - 1 - Len(requests)
    BY <1>0, <2>1, <2>2, <2>4 DEF Stored, Pending, Fetched
  <2>6. \A o \in Offices : Request(o)' = Request(o)
    BY <2>1 DEF Request
  <2>7. \A o \in Offices : HasSecond(Request(o))' <=> HasSecond(Request(o))
    BY <2>6 DEF HasSecond
  <2>8. \A i \in 1 .. Len(requests)' : requests'[i] = Fetched' + i
    <3> SUFFICES ASSUME NEW i \in 1 .. Len(requests) + 1 PROVE requests'[i] = Fetched' + i
      BY <2>4
    <3>1. CASE i = Len(requests) + 1
      BY <1>0, <2>4, <2>5, <3>1
    <3>2. CASE i # Len(requests) + 1
      <4>1. i \in 1 .. Len(requests) /\ requests'[i] = requests[i]
        BY <2>4, <3>2
      <4> QED
        BY <1>0, <2>5, <4>1 DEF Queue
    <3> QED
      BY <3>1, <3>2
  <2>9. items' + Cardinality(Claimers') + Pending' = Len(requests)'
    BY <1>0, <2>1, <2>3, <2>4, <2>5 DEF Queue, Pending
  <2>10. \A o \in Offices :
           /\ pc'[o] \in Serving => current'[o] \in 1 .. Fetched'
           /\ pc'[o] = "sayRequest" => current'[o] = Fetched'
           /\ pc'[o] \in InnerSection => HasSecond(Request(o))'
    BY <1>0, <2>1, <2>2, <2>5, <2>7 DEF Queue
  <2>11. main' \in AtQueue => reads' > 0 /\ current'[MAIN_THREAD_ID] = reads'
    BY <1>0, <2>1, <2>2 DEF Queue, AtQueue
  <2>12. Fetched' >= 0
    BY <1>0, <2>5 DEF Queue
  <2> QED
    BY <2>8, <2>9, <2>10, <2>11, <2>12 DEF Queue, Pending
<1>10. ASSUME NEW o \in Offices, Claim(o) PROVE Queue'
  <2>1. UNCHANGED <<requests, arriving, reads, current>> /\ items' = items - 1 /\ items > 0
    BY <1>10 DEF Claim
  <2>2. main' = main /\ pc[o] = "idle" /\ pc'[o] = "lockBuffer" /\ \A u \in Offices : u # o => pc'[u] = pc[u]
    BY <1>10, OfficeMoves, Ids
  <2>3. Claimers' = Claimers \cup {o} /\ o \notin Claimers
    BY <2>2 DEF Claimers
  <2>4. Cardinality(Claimers') = Cardinality(Claimers) + 1
    BY <1>0, <2>3, FS_AddElement
  <2>5. Stored' = Stored /\ Pending' = Pending
    BY <2>1, <2>2 DEF Stored, Pending
  <2>6. \A u \in Offices : /\ pc'[u] \in Serving => pc[u] \in Serving
                           /\ pc'[u] = "sayRequest" => pc[u] = "sayRequest"
                           /\ pc'[u] \in InnerSection => pc[u] \in InnerSection
    BY <2>2 DEF Serving, Handling, Section, InnerSection
  <2>7. main' \in AtQueue => reads > 0 /\ current'[MAIN_THREAD_ID] = reads
    BY <1>0, <2>1, <2>2 DEF Queue
  <2> QED
    BY <1>0, <2>1, <2>4, <2>5, <2>6, <2>7, QueueKept
<1>11. ASSUME NEW o \in Offices, Return(o) \/ Shut(o) PROVE Queue'
  <2>1. UNCHANGED <<requests, arriving, reads, current, items>>
    BY <1>11 DEF Return, Shut, queue
  <2>2. main' = main /\ (\A u \in Offices : u # o => pc'[u] = pc[u])
        /\ ((pc[o] = "idle" /\ pc'[o] = "ended") \/ (pc[o] = "shut" /\ pc'[o] = "sayReply"))
    BY <1>11, OfficeMoves, Ids
  <2>3. Claimers' = Claimers
    BY <2>2, ClaimersKept
  <2>4. Stored' = Stored /\ Pending' = Pending
    BY <2>1, <2>2 DEF Stored, Pending
  <2>5. \A u \in Offices : /\ pc'[u] \in Serving => pc[u] \in Serving
                           /\ pc'[u] = "sayRequest" => pc[u] = "sayRequest"
                           /\ pc'[u] \in InnerSection => pc[u] \in InnerSection
    BY <2>2 DEF Serving, Handling, Section, InnerSection
  <2>6. main' \in AtQueue => reads > 0 /\ current'[MAIN_THREAD_ID] = reads
    BY <1>0, <2>1, <2>2 DEF Queue
  <2> QED
    BY <1>0, <2>1, <2>3, <2>4, <2>5, <2>6, QueueKept
<1>12. ASSUME NEW o \in Offices, Fetch(o) PROVE Queue'
  <2>1. UNCHANGED <<arriving, reads, items>> /\ requests' = Tail(requests)
        /\ current' = [current EXCEPT ![o] = Head(requests)]
    BY <1>12 DEF Fetch
  <2>2. main' = main /\ pc[o] = "fetch" /\ pc'[o] = "sayRequest" /\ \A u \in Offices : u # o => pc'[u] = pc[u]
    BY <1>12, OfficeMoves, Ids
  <2>3. Len(requests) > 0 /\ requests \in Seq(Nat)
    BY <1>0, <2>2, RequestThere DEF TypeOK
  <2>4. /\ Len(requests)' = Len(requests) - 1 /\ Head(requests) = requests[1]
        /\ \A i \in 1 .. Len(requests)' : requests'[i] = requests[i + 1]
    BY <2>1, <2>3
  <2>5. Stored' = Stored /\ Pending' = Pending /\ Fetched' = Fetched + 1 /\ Fetched \in Nat
    BY <1>0, <2>1, <2>2, <2>3, <2>4 DEF Stored, Pending, Fetched, Queue
  <2>6. Claimers = Claimers' \cup {o} /\ o \notin Claimers' /\ Claimers' = Claimers \ {o}
    BY <2>2 DEF Claimers
  <2>7. Cardinality(Claimers') = Cardinality(Claimers) - 1
    BY <1>0, <2>6, FS_RemoveElement
  <2>8. Head(requests) = Fetched'
    BY <1>0, <2>3, <2>4, <2>5 DEF Queue
  <2>9. current'[o] = Fetched' /\ \A u \in Threads : u # o => current'[u] = current[u]
    BY <1>0, <2>1, <2>8, Ids
  <2>10. \A u \in Offices : u # o => pc[u] # "sayRequest"
    <3> SUFFICES ASSUME NEW u \in Offices, u # o, pc[u] = "sayRequest" PROVE FALSE
      OBVIOUS
    <3>1. Holds(u, BufferLock) /\ Holds(o, BufferLock)
      BY <2>2 DEF Holds
    <3>2. owner[BufferLock] = u /\ owner[BufferLock] = o
      BY <3>1, Ids DEF Machine, Locks, Mutexes
    <3> QED
      BY <3>2
  <2>11. \A u \in Offices :
           /\ pc'[u] \in Serving => current'[u] \in 1 .. Fetched'
           /\ pc'[u] = "sayRequest" => current'[u] = Fetched'
    BY <1>0, <2>2, <2>5, <2>9, <2>10, Ids DEF Queue
  <2>12. \A u \in Offices : pc'[u] \in InnerSection => HasSecond(Request(u))'
    <3> SUFFICES ASSUME NEW u \in Offices, pc'[u] \in InnerSection PROVE HasSecond(Request(u))'
      OBVIOUS
    <3>1. u # o /\ pc'[u] = pc[u]
      BY <2>2 DEF InnerSection
    <3>2. Request(u)' = Request(u)
      BY <2>1, <2>9, <3>1, Ids DEF Request
    <3> QED
      BY <1>0, <3>1, <3>2 DEF Queue, HasSecond
  <2>13. main' \in AtQueue => reads' > 0 /\ current'[MAIN_THREAD_ID] = reads'
    BY <1>0, <2>1, <2>2, <2>9, Ids DEF Queue
  <2>14. \A i \in 1 .. Len(requests)' : requests'[i] = Fetched' + i
    BY <1>0, <2>3, <2>4, <2>5 DEF Queue
  <2>15. items' + Cardinality(Claimers') + Pending' = Len(requests)'
    <3>1. items + Cardinality(Claimers) + Pending = Len(requests) /\ Len(requests) \in Nat
      BY <1>0, <2>3 DEF Queue, Pending
    <3> QED
      BY <1>0, <2>1, <2>4, <2>5, <2>7, <3>1
  <2> QED
    BY <2>5, <2>11, <2>12, <2>13, <2>14, <2>15 DEF Queue, Pending
<1> QED
  BY <1>1, <1>2, <1>3, <1>4, <1>5, <1>6, <1>7, <1>8, <1>9, <1>10, <1>11, <1>12 DEF Next

LEMMA HoldsKept ==
  ASSUME NEW t, pc'[t] = pc[t], Request(t)' = Request(t), NEW m
  PROVE  Holds(t, m)' <=> Holds(t, m)
<1>1. First(Request(t))' = First(Request(t)) /\ Second(Request(t))' = Second(Request(t))
  BY DEF First, Second
<1> QED
  BY <1>1 DEF Holds

(* Steps that leave the mutexes alone. *)
LEMMA LocksKept ==
  ASSUME Locks, owner' = owner, \A t \in Threads, m \in Mutexes : Holds(t, m)' <=> Holds(t, m)
  PROVE  Locks'
  BY DEF Locks, Mutexes

LEMMA LocksStep == Machine /\ [Next]_vars => Locks'
<1> SUFFICES ASSUME Machine, [Next]_vars PROVE Locks'
  OBVIOUS
<1>0. TypeOK /\ Queue /\ Locks /\ Loops /\ Mutexes' = Mutexes
  BY DEF Machine, Mutexes
<1>1. CASE UNCHANGED vars \/ \E t \in Threads : Format(t)
  <2>1. UNCHANGED <<owner, pc, current, arriving>>
    BY <1>1 DEF vars, Format, queue
  <2>2. \A t \in Threads, m \in Mutexes : Holds(t, m)' <=> Holds(t, m)
    BY <2>1, HoldsKept DEF Request
  <2> QED
    BY <1>0, <2>1, <2>2, LocksKept
<1>2. ASSUME NEW t \in Threads, TakeLock(t) PROVE Locks'
  <2>1. UNCHANGED <<current, arriving>> /\ pc[t] \in {"lockBuffer", "lock1", "lock2"} /\ owner[MutexAt(t)] = Nobody
        /\ owner' = [owner EXCEPT ![MutexAt(t)] = t]
    BY <1>2 DEF TakeLock, queue
  <2>2. PICK mutex \in Mutexes : mutex = MutexAt(t)
    BY <1>0, <2>1, MutexTyped
  <2>3. \A m \in Mutexes : owner'[m] = IF m = mutex THEN t ELSE owner[m]
    BY <1>0, <2>1, <2>2 DEF TypeOK
  <2>4. \A u \in Threads : Request(u)' = Request(u) /\ ~Holds(u, mutex)
    BY <1>0, <2>1, <2>2 DEF Request, Locks
  <2>5. \A u \in Threads, m \in Mutexes : u # t => (Holds(u, m)' <=> Holds(u, m))
    BY <1>2, <2>4, TakeMoves, HoldsKept
  <2>6. \A m \in Mutexes : Holds(t, m)' <=> Holds(t, m) \/ m = mutex
    <3>1. /\ pc[t] = "lockBuffer" => mutex = BufferLock /\ pc'[t] \in {"fetch", "store"}
          /\ pc[t] = "lock1" => mutex = First(Request(t)) /\ pc'[t] = "sayLock1"
          /\ pc[t] = "lock2" => mutex = Second(Request(t)) /\ pc'[t] = "sayLock2"
      BY <1>0, <1>2, <2>1, <2>2, MutexTyped, TakeMoves, Ids DEF main
    <3>2. First(Request(t))' = First(Request(t)) /\ Second(Request(t))' = Second(Request(t))
      BY <2>4 DEF First, Second
    <3> QED
      BY <2>1, <3>1, <3>2 DEF Holds, InnerSection
  <2>7. \A u \in Threads, m \in Mutexes : owner'[m] = u <=> Holds(u, m)'
    BY <1>0, <2>3, <2>4, <2>5, <2>6 DEF Locks
  <2> QED
    BY <1>0, <2>7 DEF Locks
<1>3. ASSUME NEW t \in Threads, GiveLock(t) PROVE Locks'
  <2>1. UNCHANGED <<current, arriving>> /\ pc[t] \in {"unlockBuffer", "unlock1", "unlock2"}
        /\ owner' = [owner EXCEPT ![MutexAt(t)] = Nobody]
    BY <1>3 DEF GiveLock, queue
  <2>2. PICK mutex \in Mutexes : mutex = MutexAt(t)
    BY <1>0, <2>1, MutexTyped
  <2>3. \A m \in Mutexes : owner'[m] = IF m = mutex THEN Nobody ELSE owner[m]
    BY <1>0, <2>1, <2>2 DEF TypeOK
  <2>4. \A u \in Threads : Request(u)' = Request(u)
    BY <2>1 DEF Request
  <2>5. \A u \in Threads, m \in Mutexes : u # t => (Holds(u, m)' <=> Holds(u, m))
    BY <1>3, <2>4, GiveMoves, HoldsKept
  <2>6. Holds(t, mutex) /\ \A m \in Mutexes : Holds(t, m)' <=> Holds(t, m) /\ m # mutex
    <3>1. /\ pc[t] = "unlockBuffer" => mutex = BufferLock /\ pc'[t] \in {"sayReply", "sayShutdown", "lock1", "post"}
          /\ pc[t] = "unlock1" => mutex = First(Request(t)) /\ pc'[t] = "sayUnlock1"
          /\ pc[t] = "unlock2" => mutex = Second(Request(t)) /\ pc'[t] = "sayUnlock2" /\ t \in Offices
      BY <1>0, <1>3, <2>1, <2>2, MutexTyped, GiveMoves, Ids DEF main
    <3>2. First(Request(t))' = First(Request(t)) /\ Second(Request(t))' = Second(Request(t))
      BY <2>4 DEF First, Second
    <3>3. pc[t] = "unlock2" => First(Request(t)) # Second(Request(t))
      <4> SUFFICES ASSUME pc[t] = "unlock2" PROVE First(Request(t)) # Second(Request(t))
        OBVIOUS
      <4>1. HasSecond(Request(t)) /\ pc[t] \in Serving
        BY <1>0, <3>1 DEF Queue, InnerSection, Serving, Handling
      <4>2. current[t] \in 1 .. Len(arriving)
        BY <1>0, <3>1, <4>1 DEF Queue, Fetched, Stored, TypeOK
      <4> QED
        BY <1>0, <4>1, <4>2, Arriving DEF Request
    <3> QED
      BY <2>1, <3>1, <3>2, <3>3 DEF Holds, InnerSection
  <2>7. \A u \in Threads, m \in Mutexes : owner'[m] = u <=> Holds(u, m)'
    BY <1>0, <2>3, <2>5, <2>6 DEF Locks
  <2> QED
    BY <1>0, <2>7 DEF Locks
<1>4. ASSUME NEW t \in Threads, Write(t) PROVE Locks'
  <2>1. UNCHANGED <<current, arriving, owner>>
    BY <1>4 DEF Write, queue
  <2>2. \A u \in Threads : /\ First(Request(u))' = First(Request(u))
                           /\ Second(Request(u))' = Second(Request(u)) /\ Request(u)' = Request(u)
    BY <2>1 DEF Request, First, Second
  <2>3. \A m \in Mutexes : Holds(t, m)' <=> Holds(t, m)
    BY <1>4, <2>2, WriteMoves, Ids DEF Holds, InnerSection, main
  <2>4. \A u \in Threads, m \in Mutexes : u # t => (Holds(u, m)' <=> Holds(u, m))
    BY <1>4, <2>2, WriteMoves, HoldsKept
  <2> QED
    BY <1>0, <2>1, <2>3, <2>4, LocksKept
<1>5. ASSUME Create \/ Read \/ Store \/ Post \/ Eof \/ Join PROVE Locks'
  <2>1. UNCHANGED <<arriving, owner>> /\ \A o \in Offices : current'[o] = current[o]
    BY <1>0, <1>5, Ids DEF Create, Read, Store, Post, Eof, Join, queue, TypeOK
  <2>2. \A o \in Offices : Request(o)' = Request(o)
    BY <2>1 DEF Request
  <2>3. \A o \in Offices, m \in Mutexes : pc'[o] = pc[o] => (Holds(o, m)' <=> Holds(o, m))
    BY <2>2, HoldsKept
  <2>4. \A m \in Mutexes : Holds(MAIN_THREAD_ID, m)' <=> Holds(MAIN_THREAD_ID, m)
    BY <1>5, MainMoves DEF Holds, InnerSection, main
  <2>5. \A o \in Offices : pc'[o] = pc[o] \/ (pc[o] = "new" /\ pc'[o] = "idle")
    BY <1>0, <1>5, MainMoves DEF Loops, TypeOK
  <2>6. \A o \in Offices, m \in Mutexes : pc[o] = "new" /\ pc'[o] = "idle" => (Holds(o, m)' <=> Holds(o, m))
    BY DEF Holds, InnerSection
  <2> QED
    BY <1>0, <2>1, <2>3, <2>4, <2>5, <2>6, LocksKept, Ids
<1>6. ASSUME NEW o \in Offices, Claim(o) \/ Return(o) \/ Fetch(o) \/ Shut(o) PROVE Locks'
  <2>1. UNCHANGED <<arriving, owner>> /\ \A t \in Threads : t # o => current'[t] = current[t]
    BY <1>0, <1>6 DEF Claim, Return, Fetch, Shut, queue, TypeOK
  <2>2. \A t \in Threads : t # o => pc'[t] = pc[t] /\ Request(t)' = Request(t)
    BY <1>6, <2>1, OfficeMoves DEF Request
  <2>3. \A t \in Threads, m \in Mutexes : t # o => (Holds(t, m)' <=> Holds(t, m))
    BY <2>2, HoldsKept
  <2>4. \A m \in Mutexes : Holds(o, m)' <=> Holds(o, m)
    BY <1>6, OfficeMoves DEF Holds, InnerSection
  <2> QED
    BY <1>0, <2>1, <2>3, <2>4, LocksKept
<1> QED
  BY <1>1, <1>2, <1>3, <1>4, <1>5, <1>6 DEF Next

LEMMA MachineStep == Machine /\ [Next]_vars => Machine'
  BY StepTyped, LoopsStep, LinesStep, QueueStep, LocksStep DEF Machine

LEMMA MachineInit == Init => Machine
<1> SUFFICES ASSUME Init PROVE Machine
  OBVIOUS
<1>1. /\ \A o \in Offices : pc[o] = "new"
      /\ main = "sayAdmin" /\ office = 0 /\ requests = <<>> /\ items = 0 /\ reads = 0
      /\ \A t \in Threads : formatted[t] = FALSE
      /\ \A m \in Mutexes : owner[m] = Nobody
  BY Ids DEF Init, main
<1>2. arriving \in Arrivals /\ Len(arriving) \in Nat
  BY DEF Init
<1>3. TypeOK
  <2>1. pc \in [Threads -> OfficeLabels \cup MainLabels] /\ pc[MAIN_THREAD_ID] \in MainLabels
    BY <1>1 DEF Init, OfficeLabels, MainLabels, main
  <2>2. \A o \in Offices : pc[o] \in OfficeLabels
    BY <1>1 DEF OfficeLabels
  <2>3. reads \in 0 .. Len(arriving)
    BY <1>1, <1>2
  <2>4. office \in 0 .. NumOffices
    BY <1>1
  <2> QED
    BY <2>1, <2>2, <2>3, <2>4 DEF Init, TypeOK
<1>4. Loops /\ Lines
  BY <1>1 DEF Loops, Lines, Offices, Closed, main
<1>5. Queue
  <2>1. Claimers = {}
    BY <1>1 DEF Claimers
  <2>2. Cardinality(Claimers) = 0
    BY <2>1, FS_EmptySet
  <2>3. Fetched = 0 /\ Len(requests) = 0
    BY <1>1 DEF Fetched, Stored
  <2>4. \A o \in Offices : pc[o] \notin Serving /\ pc[o] # "sayRequest" /\ pc[o] \notin InnerSection
    BY <1>1 DEF Serving, Handling, Section, InnerSection
  <2> QED
    BY <1>1, <2>2, <2>3, <2>4 DEF Queue, AtQueue
<1>6. Locks
  <2>1. \A t \in Threads, m \in Mutexes : ~Holds(t, m)
    BY <1>1, Ids DEF Holds, InnerSection, main
  <2> QED
    BY <1>1, <2>1 DEF Locks
<1> QED
  BY <1>3, <1>4, <1>5, <1>6 DEF Machine

-----------------------------------------------------------------------------
(* The file.                                                               *)

LEMMA Appended ==
  ASSUME Machine, NEW t \in Threads, Write(t)
  PROVE  /\ Len(slog) \in Nat /\ DOMAIN slog = 1 .. Len(slog) /\ DOMAIN slog' = 1 .. Len(slog) + 1
         /\ \A i \in DOMAIN slog : slog'[i] = slog[i]
         /\ slog'[Len(slog) + 1] = LineAt(t)
<1>1. slog \in Seq(LogLines) /\ slog' = Append(slog, LineAt(t)) /\ LineAt(t) \in LogLines
  BY LogTyped DEF Machine, TypeOK
<1> QED
  BY <1>1

LEMMA LogKept ==
  ASSUME [Next]_vars, \A t \in Threads : ~Write(t)
  PROVE  slog' = slog
  BY DEF Next, vars, TakeLock, GiveLock, Format, Create, Read, Store, Post, Eof, Join, Claim, Fetch, Shut, Return

LEMMA NothingElseArrives == [Next]_vars => arriving' = arriving
  BY DEF Next, vars, queue, TakeLock, GiveLock, Format, Write, Create, Read, Store, Post, Eof, Join,
         Claim, Fetch, Shut, Return

(* How far the log has come. *)
LEMMA Counts ==
  ASSUME Machine
  PROVE  /\ MainLogged \in Nat /\ OfficeLogged \in Nat /\ OfficeLogged <= MainLogged /\ MainLogged <= Len(arriving)
         /\ main = "sayRequest" => MainLogged = reads - 1 /\ reads \in 1 .. Len(arriving)
         /\ \A o \in Offices : pc[o] = "sayRequest" => OfficeLogged = current[o] - 1 /\ current[o] \in 1 .. Len(arriving)
<1>1. TypeOK /\ Queue /\ reads \in 0 .. Len(arriving) /\ Len(requests) \in Nat /\ items \in Nat /\ Len(arriving) \in Nat
      /\ Cardinality(Claimers) \in Nat
  BY ClaimersFinite DEF Machine, TypeOK
<1>2. main \in {"lockBuffer", "store", "sayRequest"} => reads > 0
  BY <1>1 DEF Queue, AtQueue
<1>3. main = "sayRequest" => Len(requests) > 0
  BY <1>1 DEF Queue
<1>4. Fetched \in Nat /\ MainLogged \in Nat /\ Fetched <= MainLogged /\ MainLogged <= Len(arriving)
  BY <1>1, <1>2, <1>3 DEF Fetched, Stored, MainLogged, Queue
<1>5. \A o \in Offices : pc[o] = "sayRequest" => current[o] = Fetched /\ current[o] \in 1 .. Fetched
  BY <1>1 DEF Queue, Serving
<1>6. OfficeLogged \in Nat /\ OfficeLogged <= Fetched
  BY <1>4, <1>5 DEF OfficeLogged
<1>7. \A o \in Offices : pc[o] = "sayRequest" => OfficeLogged = current[o] - 1 /\ current[o] \in 1 .. Len(arriving)
  BY <1>1, <1>4, <1>5 DEF OfficeLogged
<1> QED
  BY <1>1, <1>2, <1>4, <1>6, <1>7 DEF MainLogged

(* One line more, about the next request. *)
LEMMA OrderExtended ==
  ASSUME NEW log, NEW longer, NEW coming, NEW n \in Nat, NEW last \in Nat, NEW places \in SUBSET (1 .. last - 1),
         InOrder(log, coming, places, n), \A i \in places : longer[i] = log[i],
         longer[last].sid = coming[n + 1].user,
         \A a, b \in 1 .. n + 1 : coming[a].user = coming[b].user => a = b
  PROVE  InOrder(longer, coming, places \cup {last}, n + 1)
<1> DEFINE more == places \cup {last}
<1>1. \A a \in 1 .. n + 1 : \E i \in more : longer[i].sid = coming[a].user
  <2> SUFFICES ASSUME NEW a \in 1 .. n + 1 PROVE \E i \in more : longer[i].sid = coming[a].user
    OBVIOUS
  <2>1. CASE a = n + 1
    BY <2>1
  <2>2. CASE a \in 1 .. n
    BY <2>2 DEF InOrder
  <2> QED
    BY <2>1, <2>2
<1>2. \A i \in more : \E a \in 1 .. n + 1 : longer[i].sid = coming[a].user
  <2> SUFFICES ASSUME NEW i \in more PROVE \E a \in 1 .. n + 1 : longer[i].sid = coming[a].user
    OBVIOUS
  <2>1. CASE i = last
    BY <2>1
  <2>2. CASE i \in places
    <3>1. PICK a \in 1 .. n : log[i].sid = coming[a].user
      BY <2>2 DEF InOrder
    <3> QED
      BY <2>2, <3>1
  <2> QED
    BY <2>1, <2>2
<1>3. ASSUME NEW i \in more, NEW j \in more, NEW a \in 1 .. n + 1, NEW b \in 1 .. n + 1,
             i < j, longer[i].sid = coming[a].user, longer[j].sid = coming[b].user
      PROVE  a < b
  <2>1. i \in places
    BY <1>3
  <2>2. PICK c \in 1 .. n : log[i].sid = coming[c].user
    BY <2>1 DEF InOrder
  <2>3. a = c
    BY <1>3, <2>1, <2>2
  <2>4. CASE j = last
    BY <1>3, <2>3, <2>4
  <2>5. CASE j \in places
    <3>1. PICK d \in 1 .. n : log[j].sid = coming[d].user
      BY <2>5 DEF InOrder
    <3>2. b = d
      BY <1>3, <2>5, <3>1
    <3> QED
      BY <1>3, <2>1, <2>2, <2>3, <2>5, <3>1, <3>2 DEF InOrder
  <2> QED
    BY <1>3, <2>4, <2>5
<1> QED
  BY <1>1, <1>2, <1>3 DEF InOrder

LEMMA OrderKept ==
  ASSUME NEW log, NEW longer, NEW coming, NEW n, NEW places,
         InOrder(log, coming, places, n), \A i \in places : longer[i] = log[i]
  PROVE  InOrder(longer, coming, places, n)
  BY DEF InOrder

LEMMA RequestLinesStep == Machine /\ RequestLines /\ [Next]_vars => RequestLines'
<1> SUFFICES ASSUME Machine, RequestLines, [Next]_vars PROVE RequestLines'
  OBVIOUS
<1>0. Machine' /\ arriving' = arriving /\ TypeOK /\ Queue /\ Locks /\ Len(requests) \in Nat /\ reads \in Nat
  BY MachineStep, NothingElseArrives DEF Machine, TypeOK
<1>1. ASSUME slog' = slog, MainLogged' = MainLogged, OfficeLogged' = OfficeLogged PROVE RequestLines'
  <2>1. MainPlaces' = MainPlaces /\ OfficePlaces' = OfficePlaces
    BY <1>1 DEF MainPlaces, OfficePlaces, OfMain, OfOffice
  <2>2. InOrder(slog', arriving', MainPlaces', MainLogged') /\ InOrder(slog', arriving', OfficePlaces', OfficeLogged')
    BY <1>0, <1>1, <2>1 DEF RequestLines
  <2>3. \A i \in MainPlaces', j \in OfficePlaces' : slog'[i].sid = slog'[j].sid => i < j
    BY <1>1, <2>1 DEF RequestLines
  <2> QED
    BY <2>2, <2>3 DEF RequestLines
<1> DEFINE Logging == \E o \in Offices : pc[o] = "sayRequest"
<1>a. UNCHANGED <<reads, requests, main>> /\ (Logging' <=> Logging) => MainLogged' = MainLogged /\ OfficeLogged' = OfficeLogged
  BY DEF MainLogged, OfficeLogged, Fetched, Stored
<1>2. ASSUME UNCHANGED vars \/ \E t \in Threads : Format(t) PROVE RequestLines'
  <2>1. UNCHANGED <<reads, requests, pc, slog>>
    BY <1>2 DEF vars, Format, queue
  <2> QED
    BY <1>1, <1>a, <2>1 DEF main
<1>3. ASSUME NEW t \in Threads, TakeLock(t) \/ GiveLock(t) PROVE RequestLines'
  <2>1. UNCHANGED <<reads, requests, slog>> /\ pc[t] # "sayRequest"
    BY <1>3 DEF TakeLock, GiveLock, queue
  <2>2. \A o \in Offices : pc'[o] = "sayRequest" <=> pc[o] = "sayRequest"
    BY <1>3, <2>1, TakeMoves, GiveMoves, Ids DEF TakeLock, GiveLock
  <2>3. \/ main' = main \/ (main = "lockBuffer" /\ main' = "store") \/ (main = "unlockBuffer" /\ main' = "post")
    BY <1>3, TakeMoves, GiveMoves, Ids
  <2>4. MainLogged' = MainLogged /\ OfficeLogged' = OfficeLogged
    BY <2>1, <2>2, <2>3 DEF MainLogged, OfficeLogged, Fetched, Stored
  <2> QED
    BY <1>1, <2>1, <2>4
<1>4. ASSUME Create \/ Read \/ Store \/ Post \/ Eof \/ Join PROVE RequestLines'
  <2>1. slog' = slog
    BY <1>4 DEF Create, Read, Store, Post, Eof, Join
  <2>2. \A o \in Offices : pc'[o] = "sayRequest" <=> pc[o] = "sayRequest"
    <3>1. \A o \in Offices : pc'[o] = pc[o] \/ (pc[o] = "new" /\ pc'[o] = "idle")
      BY <1>4, MainMoves DEF Machine, Loops, TypeOK
    <3> QED
      BY <3>1
  <2>3. MainLogged' = MainLogged /\ Fetched' = Fetched
    <3>1. CASE Read
      <4>1. reads' = reads + 1 /\ requests' = requests
        BY <3>1 DEF Read
      <4> QED
        BY <1>0, <3>1, <4>1, MainMoves DEF MainLogged, Fetched, Stored
    <3>2. CASE Store
      <4>1. reads' = reads /\ Len(requests') = Len(requests) + 1
        BY <1>0, <3>2 DEF Store, TypeOK
      <4> QED
        BY <1>0, <3>2, <4>1, MainMoves DEF MainLogged, Fetched, Stored
    <3>3. CASE Create \/ Post \/ Eof \/ Join
      <4>1. reads' = reads /\ requests' = requests
        BY <3>3 DEF Create, Post, Eof, Join, queue
      <4>2. main \notin {"lockBuffer", "store", "sayRequest"} /\ main' \notin {"lockBuffer", "store", "sayRequest"}
        BY <3>3, MainMoves
      <4> QED
        BY <4>1, <4>2 DEF MainLogged, Fetched, Stored
    <3> QED
      BY <1>4, <3>1, <3>2, <3>3
  <2> QED
    BY <1>1, <2>1, <2>2, <2>3 DEF OfficeLogged
<1>5. ASSUME NEW o \in Offices, Claim(o) \/ Return(o) \/ Shut(o) PROVE RequestLines'
  <2>1. UNCHANGED <<reads, requests, slog>>
    BY <1>5 DEF Claim, Return, Shut, queue
  <2>2. main' = main /\ \A u \in Offices : pc'[u] = "sayRequest" <=> pc[u] = "sayRequest"
    BY <1>5, OfficeMoves, Ids
  <2> QED
    BY <1>1, <1>a, <2>1, <2>2
<1>6. ASSUME NEW o \in Offices, Fetch(o) PROVE RequestLines'
  <2>1. reads' = reads /\ slog' = slog /\ requests' = Tail(requests)
    BY <1>6 DEF Fetch
  <2>2. main' = main /\ pc[o] = "fetch" /\ pc'[o] = "sayRequest" /\ \A u \in Offices : u # o => pc'[u] = pc[u]
    BY <1>6, OfficeMoves, Ids
  <2>3. Len(requests) > 0 /\ Len(requests)' = Len(requests) - 1
    BY <1>0, <2>1, <2>2, RequestThere DEF TypeOK
  <2>4. \A u \in Offices : pc[u] # "sayRequest"
    <3> SUFFICES ASSUME NEW u \in Offices, pc[u] = "sayRequest" PROVE FALSE
      OBVIOUS
    <3>1. Holds(u, BufferLock) /\ Holds(o, BufferLock)
      BY <2>2 DEF Holds
    <3>2. owner[BufferLock] = u /\ owner[BufferLock] = o
      BY <1>0, <3>1, Ids DEF Locks, Mutexes
    <3> QED
      BY <2>2, <3>2
  <2>5. MainLogged' = MainLogged /\ Stored' = Stored /\ Stored \in Int
    BY <1>0, <2>1, <2>2 DEF MainLogged, Stored
  <2>6. Fetched \in Int /\ Fetched' = Fetched + 1
    BY <1>0, <2>3, <2>5 DEF Fetched
  <2>7. OfficeLogged = Fetched
    BY <2>4 DEF OfficeLogged
  <2>8. (\E u \in Offices : pc'[u] = "sayRequest")
    BY <2>2
  <2>9. OfficeLogged' = Fetched' - 1
    BY <2>8 DEF OfficeLogged
  <2>10. OfficeLogged' = OfficeLogged
    BY <2>6, <2>7, <2>9
  <2> QED
    BY <1>1, <2>1, <2>5, <2>10
<1>7. ASSUME NEW t \in Threads, Write(t) PROVE RequestLines'
  <2>0. UNCHANGED <<reads, requests, current>>
    BY <1>7 DEF Write, queue
  <2>1. PICK last \in Nat : last = Len(slog) + 1
    BY <1>7, Appended
  <2>2. /\ last >= 1 /\ DOMAIN slog = 1 .. last - 1 /\ DOMAIN slog' = 1 .. last
        /\ \A i \in DOMAIN slog : slog'[i] = slog[i]
        /\ slog'[last] = LineAt(t)
    BY <1>7, <2>1, Appended
  <2>3. MainPlaces' = MainPlaces \cup {i \in {last} : LineAt(t).what = "request" /\ LineAt(t).id = MAIN_THREAD_ID}
    <3>1. \A i \in DOMAIN slog : OfMain(i)' <=> OfMain(i)
      BY <2>2 DEF OfMain
    <3>2. OfMain(last)' <=> LineAt(t).what = "request" /\ LineAt(t).id = MAIN_THREAD_ID
      BY <2>2 DEF OfMain
    <3>3. DOMAIN slog' = DOMAIN slog \cup {last} /\ last \notin DOMAIN slog
      BY <2>1, <2>2
    <3>4. MainPlaces' = {i \in DOMAIN slog' : OfMain(i)'}
      BY DEF MainPlaces
    <3> QED
      BY <3>1, <3>2, <3>3, <3>4 DEF MainPlaces
  <2>4. OfficePlaces' = OfficePlaces \cup {i \in {last} : LineAt(t).what = "request" /\ LineAt(t).id # MAIN_THREAD_ID}
    <3>1. \A i \in DOMAIN slog : OfOffice(i)' <=> OfOffice(i)
      BY <2>2 DEF OfOffice
    <3>2. OfOffice(last)' <=> LineAt(t).what = "request" /\ LineAt(t).id # MAIN_THREAD_ID
      BY <2>2 DEF OfOffice
    <3>3. DOMAIN slog' = DOMAIN slog \cup {last} /\ last \notin DOMAIN slog
      BY <2>1, <2>2
    <3>4. OfficePlaces' = {i \in DOMAIN slog' : OfOffice(i)'}
      BY DEF OfficePlaces
    <3> QED
      BY <3>1, <3>2, <3>3, <3>4 DEF OfficePlaces
  <2>5. MainPlaces \subseteq 1 .. last - 1 /\ OfficePlaces \subseteq 1 .. last - 1
    BY <2>2 DEF MainPlaces, OfficePlaces
  <2>6. \A a, b \in 1 .. Len(arriving) : arriving[a].user = arriving[b].user => a = b
    BY <1>0, UsersDiffer DEF UserOf
  <2>7. pc[t] \in Saying /\ Loops
    BY <1>7, LogTyped DEF Machine
  <2>a. \A i \in MainPlaces \cup OfficePlaces : slog'[i] = slog[i]
    BY <2>2, <2>5
  <2>8. CASE t = MAIN_THREAD_ID /\ main = "sayRequest"
    <3>1. LineAt(t).what = "request" /\ LineAt(t).id = MAIN_THREAD_ID /\ LineAt(t).sid = UserOf(reads)
      BY <1>0, <2>7, <2>8, MainSays DEF main
    <3>2. MainPlaces' = MainPlaces \cup {last} /\ OfficePlaces' = OfficePlaces
      BY <2>3, <2>4, <3>1
    <3>3. MainLogged = reads - 1 /\ reads \in 1 .. Len(arriving) /\ MainLogged \in Nat /\ OfficeLogged <= MainLogged
          /\ OfficeLogged \in Nat
      BY <2>8, Counts
    <3>4. main' = "unlockBuffer" /\ \A o \in Offices : pc'[o] = pc[o]
      BY <1>7, <2>8, WriteMoves
    <3>5. MainLogged' = MainLogged + 1 /\ OfficeLogged' = OfficeLogged
      BY <2>0, <2>8, <3>3, <3>4 DEF MainLogged, OfficeLogged, Fetched, Stored
    <3>6. slog'[last].sid = arriving[MainLogged + 1].user
      BY <2>2, <3>1, <3>3 DEF UserOf
    <3>7. \A a, b \in 1 .. MainLogged + 1 : arriving[a].user = arriving[b].user => a = b
      BY <2>6, <3>3
    <3>8. InOrder(slog', arriving, MainPlaces \cup {last}, MainLogged + 1)
      <4>1. InOrder(slog, arriving, MainPlaces, MainLogged)
        BY DEF RequestLines
      <4>2. MainPlaces \in SUBSET (1 .. last - 1) /\ \A i \in MainPlaces : slog'[i] = slog[i]
        BY <2>5, <2>a
      <4> HIDE DEF MainPlaces, MainLogged
      <4> QED
        BY <2>1, <3>3, <3>6, <3>7, <4>1, <4>2, OrderExtended
    <3>9. InOrder(slog', arriving, OfficePlaces, OfficeLogged)
      BY <2>a, OrderKept DEF RequestLines
    <3>10. \A j \in OfficePlaces : slog'[j].sid # slog'[last].sid
      <4> SUFFICES ASSUME NEW j \in OfficePlaces, slog'[j].sid = slog'[last].sid PROVE FALSE
        OBVIOUS
      <4>1. PICK a \in 1 .. OfficeLogged : slog[j].sid = arriving[a].user
        BY DEF RequestLines, InOrder
      <4>2. arriving[a].user = arriving[MainLogged + 1].user
        BY <2>a, <3>6, <4>1
      <4> QED
        BY <3>3, <3>7, <4>2
    <3>11. \A i \in MainPlaces \cup {last}, j \in OfficePlaces : slog'[i].sid = slog'[j].sid => i < j
      BY <2>a, <3>10 DEF RequestLines
    <3> QED
      BY <1>0, <3>2, <3>5, <3>8, <3>9, <3>11 DEF RequestLines
  <2>9. CASE t \in Offices /\ pc[t] = "sayRequest"
    <3>1. LineAt(t).what = "request" /\ LineAt(t).id # MAIN_THREAD_ID /\ LineAt(t).sid = UserOf(current[t])
      BY <1>0, <2>7, <2>9, OfficeSays, Ids
    <3>2. MainPlaces' = MainPlaces /\ OfficePlaces' = OfficePlaces \cup {last}
      BY <2>3, <2>4, <3>1
    <3>3. OfficeLogged = current[t] - 1 /\ current[t] \in 1 .. Len(arriving) /\ OfficeLogged \in Nat
          /\ MainLogged \in Nat
      BY <2>9, Counts
    <3>4. main' = main /\ pc'[t] = "unlockBuffer" /\ \A u \in Threads : u # t => pc'[u] = pc[u]
      BY <1>7, <2>9, WriteMoves
    <3>5. MainLogged' = MainLogged /\ OfficeLogged' = OfficeLogged + 1
      <4>1. MainLogged' = MainLogged /\ Fetched' = Fetched
        BY <2>0, <3>4 DEF MainLogged, Fetched, Stored
      <4>2. OfficeLogged = Fetched - 1 /\ Fetched \in Nat
        BY <1>0, <2>0, <2>9, <3>3 DEF OfficeLogged, Queue, Serving
      <4>3. \A u \in Offices : pc'[u] # "sayRequest"
        <5> SUFFICES ASSUME NEW u \in Offices, pc'[u] = "sayRequest" PROVE FALSE
          OBVIOUS
        <5>1. u # t /\ pc[u] = "sayRequest"
          BY <3>4, Ids
        <5>2. Holds(u, BufferLock) /\ Holds(t, BufferLock)
          BY <2>9, <5>1 DEF Holds
        <5>3. owner[BufferLock] = u /\ owner[BufferLock] = t
          BY <1>0, <5>2, Ids DEF Locks, Mutexes
        <5> QED
          BY <5>1, <5>3
      <4> QED
        BY <4>1, <4>2, <4>3 DEF OfficeLogged
    <3>6. slog'[last].sid = arriving[OfficeLogged + 1].user
      BY <2>2, <3>1, <3>3 DEF UserOf
    <3>7. \A a, b \in 1 .. OfficeLogged + 1 : arriving[a].user = arriving[b].user => a = b
      BY <2>6, <3>3
    <3>8. InOrder(slog', arriving, OfficePlaces \cup {last}, OfficeLogged + 1)
      <4>1. InOrder(slog, arriving, OfficePlaces, OfficeLogged)
        BY DEF RequestLines
      <4>2. OfficePlaces \in SUBSET (1 .. last - 1) /\ \A i \in OfficePlaces : slog'[i] = slog[i]
        BY <2>5, <2>a
      <4> HIDE DEF OfficePlaces, OfficeLogged
      <4> QED
        BY <2>1, <3>3, <3>6, <3>7, <4>1, <4>2, OrderExtended
    <3>9. InOrder(slog', arriving, MainPlaces, MainLogged)
      BY <2>a, OrderKept DEF RequestLines
    <3>10. \A i \in MainPlaces, j \in OfficePlaces \cup {last} : slog'[i].sid = slog'[j].sid => i < j
      BY <2>5, <2>a DEF RequestLines
    <3> QED
      BY <1>0, <3>2, <3>5, <3>8, <3>9, <3>10 DEF RequestLines
  <2>10. CASE pc[t] # "sayRequest"
    <3>1. LineAt(t).what # "request"
      BY <1>0, <2>7, <2>10, OfficeSays, MainSays, Ids DEF main
    <3>2. MainPlaces' = MainPlaces /\ OfficePlaces' = OfficePlaces
      BY <2>3, <2>4, <3>1
    <3>3. \A o \in Offices : pc'[o] = "sayRequest" <=> pc[o] = "sayRequest"
      BY <1>7, <2>10, WriteMoves, Ids
    <3>4. \/ main' = main
          \/ main \notin {"lockBuffer", "store", "sayRequest"} /\ main' \notin {"lockBuffer", "store", "sayRequest"}
      BY <1>7, <2>10, WriteMoves, Ids DEF main
    <3>5. MainLogged' = MainLogged /\ OfficeLogged' = OfficeLogged
      BY <2>0, <3>3, <3>4 DEF MainLogged, OfficeLogged, Fetched, Stored
    <3>6. InOrder(slog', arriving, MainPlaces, MainLogged) /\ InOrder(slog', arriving, OfficePlaces, OfficeLogged)
      BY <2>a, OrderKept DEF RequestLines
    <3>7. \A i \in MainPlaces, j \in OfficePlaces : slog'[i].sid = slog'[j].sid => i < j
      BY <2>a DEF RequestLines
    <3> QED
      BY <1>0, <3>2, <3>5, <3>6, <3>7 DEF RequestLines
  <2> QED
    BY <2>8, <2>9, <2>10, Ids DEF main
<1> QED
  BY <1>2, <1>3, <1>4, <1>5, <1>6, <1>7 DEF Next

-----------------------------------------------------------------------------
(* The lines of the offices: replies and delays.                           *)

LEMMA PlacesKept ==
  ASSUME Machine, [Next]_vars, \A t \in Threads : ~Write(t), NEW o \in Offices
  PROVE  /\ pc'[o] \in Handling <=> pc[o] \in Handling
         /\ pc[o] \in Handling => current'[o] = current[o]
         /\ pc[o] \in {"sayDelay1", "sayDelay2"} => pc'[o] = pc[o]
<1>0. TypeOK /\ Loops /\ o \in Threads /\ o # MAIN_THREAD_ID /\ DOMAIN current = Threads
  BY Ids DEF Machine, TypeOK
<1>1. CASE UNCHANGED vars \/ \E t \in Threads : Format(t)
  BY <1>1 DEF vars, Format
<1>2. ASSUME NEW t \in Threads, TakeLock(t) \/ GiveLock(t)
      PROVE  /\ pc'[o] \in Handling <=> pc[o] \in Handling
             /\ pc[o] \in {"sayDelay1", "sayDelay2"} => pc'[o] = pc[o]
             /\ current' = current
  <2>1. current' = current /\ (TakeLock(t) => pc[t] \in {"lockBuffer", "lock1", "lock2"})
        /\ (GiveLock(t) => pc[t] \in {"unlockBuffer", "unlock1", "unlock2"})
    BY <1>2 DEF TakeLock, GiveLock
  <2>2. CASE t # o
    BY <1>0, <1>2, <2>1, <2>2, TakeMoves, GiveMoves
  <2>3. CASE t = o
    <3>1. \/ pc[o] = "lockBuffer" /\ pc'[o] = "fetch"
          \/ pc[o] = "lock1" /\ pc'[o] = "sayLock1"
          \/ pc[o] = "lock2" /\ pc'[o] = "sayLock2"
          \/ pc[o] = "unlockBuffer" /\ pc'[o] \in {"sayReply", "sayShutdown", "lock1"}
          \/ pc[o] = "unlock1" /\ pc'[o] = "sayUnlock1"
          \/ pc[o] = "unlock2" /\ pc'[o] = "sayUnlock2"
      BY <1>0, <1>2, <2>1, <2>3, TakeMoves, GiveMoves
    <3> QED
      BY <2>1, <3>1 DEF Handling, Section, InnerSection
  <2> QED
    BY <2>2, <2>3
<1>3. CASE Create \/ Read \/ Store \/ Post \/ Eof \/ Join
  <2>1. pc'[o] = pc[o] \/ (pc[o] = "new" /\ pc'[o] = "idle")
    BY <1>0, <1>3, MainMoves DEF Loops, TypeOK
  <2>2. current'[o] = current[o]
    BY <1>0, <1>3 DEF Create, Read, Store, Post, Eof, Join
  <2> QED
    BY <2>1, <2>2 DEF Handling, Section, InnerSection
<1>4. ASSUME NEW u \in Offices, Claim(u) \/ Return(u) \/ Fetch(u) \/ Shut(u)
      PROVE  /\ pc'[o] \in Handling <=> pc[o] \in Handling
             /\ pc[o] \in Handling => current'[o] = current[o]
             /\ pc[o] \in {"sayDelay1", "sayDelay2"} => pc'[o] = pc[o]
  <2>1. CASE u # o
    <3>1. current'[o] = current[o]
      BY <1>0, <1>4, <2>1 DEF Claim, Return, Fetch, Shut
    <3> QED
      BY <1>0, <1>4, <2>1, <3>1, OfficeMoves
  <2>2. CASE u = o
    <3>1. \/ pc[o] = "idle" /\ pc'[o] \in {"lockBuffer", "ended"}
          \/ pc[o] = "fetch" /\ pc'[o] = "sayRequest"
          \/ pc[o] = "shut" /\ pc'[o] = "sayReply" /\ current' = current
      BY <1>4, <2>2, OfficeMoves DEF Shut
    <3> QED
      BY <3>1 DEF Handling, Section, InnerSection
  <2> QED
    BY <2>1, <2>2
<1> QED
  BY <1>1, <1>2, <1>3, <1>4 DEF Next

LEMMA AnsweringStep == Machine /\ Answering /\ [Next]_vars => Answering'
<1> SUFFICES ASSUME Machine, Answering, [Next]_vars, NEW o \in Offices
             PROVE  /\ pc'[o] \in Handling =>
                         \E i \in DOMAIN slog' :
                             /\ slog'[i].id = o /\ slog'[i].what = "request" /\ slog'[i].sid = UserOf(current[o])'
                             /\ \A k \in DOMAIN slog' : k > i => ~Message(k, o)'
                    /\ pc'[o] \notin Handling =>
                         \A i \in DOMAIN slog' : slog'[i].id = o /\ slog'[i].what = "request" =>
                             \E k \in DOMAIN slog' : k > i /\ slog'[k].id = o /\ slog'[k].what = "reply"
  BY DEF Answering
<1>0. TypeOK /\ Loops /\ Queue /\ arriving' = arriving /\ o \in Threads /\ o # MAIN_THREAD_ID
  BY NothingElseArrives, Ids DEF Machine
<1>a. /\ pc[o] \in Handling =>
           \E i \in DOMAIN slog :
               /\ slog[i].id = o /\ slog[i].what = "request" /\ slog[i].sid = UserOf(current[o])
               /\ \A k \in DOMAIN slog : k > i => ~Message(k, o)
      /\ pc[o] \notin Handling =>
           \A i \in DOMAIN slog : slog[i].id = o /\ slog[i].what = "request" =>
               \E k \in DOMAIN slog : k > i /\ slog[k].id = o /\ slog[k].what = "reply"
  BY DEF Answering
<1>1. CASE \A t \in Threads : ~Write(t)
  <2>1. /\ slog' = slog
        /\ pc'[o] \in Handling <=> pc[o] \in Handling
        /\ pc[o] \in Handling => current'[o] = current[o]
    BY <1>1, LogKept, PlacesKept
  <2>2. \A k : Message(k, o)' <=> Message(k, o)
    BY <2>1 DEF Message
  <2>3. pc[o] \in Handling => UserOf(current[o])' = UserOf(current[o])
    BY <1>0, <2>1 DEF UserOf
  <2>4. CASE pc[o] \in Handling
    BY <1>a, <2>1, <2>2, <2>3, <2>4
  <2>5. CASE pc[o] \notin Handling
    BY <1>a, <2>1, <2>5
  <2> QED
    BY <2>4, <2>5
<1>2. ASSUME NEW t \in Threads, Write(t)
      PROVE  /\ pc'[o] \in Handling =>
                  \E i \in DOMAIN slog' :
                      /\ slog'[i].id = o /\ slog'[i].what = "request" /\ slog'[i].sid = UserOf(current[o])'
                      /\ \A k \in DOMAIN slog' : k > i => ~Message(k, o)'
             /\ pc'[o] \notin Handling =>
                  \A i \in DOMAIN slog' : slog'[i].id = o /\ slog'[i].what = "request" =>
                      \E k \in DOMAIN slog' : k > i /\ slog'[k].id = o /\ slog'[k].what = "reply"
  <2>1. PICK last \in Nat : last = Len(slog) + 1
    BY <1>2, Appended
  <2>2. /\ last >= 1 /\ DOMAIN slog = 1 .. last - 1 /\ DOMAIN slog' = 1 .. last
        /\ \A i \in DOMAIN slog : slog'[i] = slog[i]
        /\ slog'[last] = LineAt(t)
    BY <1>2, <2>1, Appended
  <2>3. UserOf(current[o])' = UserOf(current[o])
    BY <1>0, <1>2 DEF Write, UserOf
  <2>4. \A i \in DOMAIN slog : Message(i, o)' <=> Message(i, o)
    BY <2>2 DEF Message
  <2>5. pc[t] \in Saying
    BY <1>2, LogTyped
  <2>6. CASE t # o \/ pc[t] \notin {"sayRequest", "sayReply"}
    <3>1. ~Message(last, o)'
      <4>1. CASE t = MAIN_THREAD_ID
        BY <1>0, <2>2, <2>5, <4>1, MainSays DEF Message, main
      <4>2. CASE t \in Offices
        BY <1>0, <2>2, <2>5, <2>6, <4>2, OfficeSays DEF Message
      <4> QED
        BY <4>1, <4>2, Ids
    <3>2. pc'[o] \in Handling <=> pc[o] \in Handling
      <4>1. CASE t # o
        BY <1>0, <1>2, <4>1, WriteMoves
      <4>2. CASE t = o
        BY <1>2, <2>6, <4>2, WriteMoves DEF Handling, Section, InnerSection
      <4> QED
        BY <4>1, <4>2
    <3>3. ASSUME pc[o] \in Handling
          PROVE  \E i \in DOMAIN slog' :
                     /\ slog'[i].id = o /\ slog'[i].what = "request" /\ slog'[i].sid = UserOf(current[o])'
                     /\ \A k \in DOMAIN slog' : k > i => ~Message(k, o)'
      <4>1. PICK i \in DOMAIN slog :
              /\ slog[i].id = o /\ slog[i].what = "request" /\ slog[i].sid = UserOf(current[o])
              /\ \A k \in DOMAIN slog : k > i => ~Message(k, o)
        BY <1>a, <3>3
      <4>2. \A k \in DOMAIN slog' : k > i => ~Message(k, o)'
        BY <2>1, <2>2, <2>4, <3>1, <4>1
      <4>3. i \in DOMAIN slog' /\ slog'[i] = slog[i]
        BY <2>1, <2>2, <4>1
      <4> QED
        BY <2>3, <4>1, <4>2, <4>3
    <3>4. ASSUME pc[o] \notin Handling, NEW i \in DOMAIN slog', slog'[i].id = o, slog'[i].what = "request"
          PROVE  \E k \in DOMAIN slog' : k > i /\ slog'[k].id = o /\ slog'[k].what = "reply"
      <4>1. i # last
        BY <3>1, <3>4 DEF Message
      <4>2. i \in DOMAIN slog
        BY <2>1, <2>2, <4>1
      <4>3. PICK k \in DOMAIN slog : k > i /\ slog[k].id = o /\ slog[k].what = "reply"
        BY <1>a, <2>2, <3>4, <4>2
      <4> QED
        BY <2>1, <2>2, <4>3
    <3> QED
      BY <3>2, <3>3, <3>4
  <2>7. CASE t = o /\ pc[o] = "sayRequest"
    <3>1. LineAt(t).id = o /\ LineAt(t).what = "request" /\ LineAt(t).sid = UserOf(current[o])
      BY <1>0, <2>5, <2>7, OfficeSays
    <3>2. pc'[o] \in Handling
      BY <1>2, <2>7, WriteMoves DEF Handling
    <3>3. \A k \in DOMAIN slog' : ~(k > last)
      BY <2>1, <2>2
    <3>4. last \in DOMAIN slog'
      BY <2>1, <2>2
    <3> QED
      BY <2>2, <2>3, <3>1, <3>2, <3>3, <3>4
  <2>8. CASE t = o /\ pc[o] = "sayReply"
    <3>1. LineAt(t).id = o /\ LineAt(t).what = "reply"
      BY <1>0, <2>5, <2>8, OfficeSays
    <3>2. pc'[o] \notin Handling
      BY <1>2, <2>8, WriteMoves DEF Handling, Section, InnerSection
    <3>3. last \in DOMAIN slog' /\ \A i \in DOMAIN slog' : i # last => last > i
      BY <2>1, <2>2
    <3> QED
      BY <2>2, <3>1, <3>2, <3>3
  <2> QED
    BY <2>6, <2>7, <2>8
<1> QED
  BY <1>1, <1>2

LEMMA RepliesStep == Machine /\ Answering /\ RepliesFollow /\ [Next]_vars => RepliesFollow'
<1> SUFFICES ASSUME Machine, Answering, RepliesFollow, [Next]_vars PROVE RepliesFollow'
  OBVIOUS
<1>0. TypeOK /\ Loops /\ Queue /\ arriving' = arriving
  BY NothingElseArrives DEF Machine
<1>1. CASE \A t \in Threads : ~Write(t)
  <2>1. slog' = slog
    BY <1>1, LogKept
  <2> QED
    BY <1>0, <2>1 DEF RepliesFollow, Message, OfOffice
<1>2. ASSUME NEW t \in Threads, Write(t) PROVE RepliesFollow'
  <2>1. PICK last \in Nat : last = Len(slog) + 1
    BY <1>2, Appended
  <2>2. /\ last >= 1 /\ DOMAIN slog = 1 .. last - 1 /\ DOMAIN slog' = 1 .. last
        /\ \A i \in DOMAIN slog : slog'[i] = slog[i]
        /\ slog'[last] = LineAt(t)
    BY <1>2, <2>1, Appended
  <2>3. \A i \in DOMAIN slog : \A o : (Message(i, o)' <=> Message(i, o)) /\ (OfOffice(i)' <=> OfOffice(i))
    BY <2>2 DEF Message, OfOffice
  <2>5. ASSUME NEW j \in DOMAIN slog', slog'[j].what = "reply"
        PROVE  \E i \in 1 .. j - 1 :
                  /\ Message(i, slog[j].id)' /\ slog'[i].what = "request"
                  /\ \A k \in i + 1 .. j - 1 : ~Message(k, slog[j].id)'
                  /\ \E n \in DOMAIN arriving : arriving[n].user = slog'[i].sid /\ arriving[n].id = slog'[j].sid
    <3>1. CASE j # last
      <4>1. j \in DOMAIN slog /\ slog'[j] = slog[j]
        BY <2>1, <2>2, <3>1
      <4>2. PICK i \in 1 .. j - 1 :
              /\ Message(i, slog[j].id) /\ slog[i].what = "request"
              /\ \A k \in i + 1 .. j - 1 : ~Message(k, slog[j].id)
              /\ \E n \in DOMAIN arriving : arriving[n].user = slog[i].sid /\ arriving[n].id = slog[j].sid
        BY <2>5, <4>1 DEF RepliesFollow
      <4>3. i \in DOMAIN slog /\ slog'[i] = slog[i] /\ \A k \in i + 1 .. j - 1 : k \in DOMAIN slog /\ slog'[k] = slog[k]
        BY <2>1, <2>2, <4>1, <4>2
      <4> QED
        BY <4>1, <4>2, <4>3 DEF Message
    <3>2. CASE j = last
      <4>1. t \in Offices /\ pc[t] = "sayReply" /\ LineAt(t).id = t /\ LineAt(t).sid = Request(t).id
        <5>1. t # MAIN_THREAD_ID
          BY <1>0, <1>2, <2>2, <2>5, <3>2, MainSays, LogTyped DEF main
        <5> QED
          BY <1>0, <1>2, <2>2, <2>5, <3>2, <5>1, OfficeSays, LogTyped, Ids
      <4>2. PICK i \in DOMAIN slog :
              /\ slog[i].id = t /\ slog[i].what = "request" /\ slog[i].sid = UserOf(current[t])
              /\ \A k \in DOMAIN slog : k > i => ~Message(k, t)
        BY <4>1 DEF Answering, Handling
      <4>3. i \in 1 .. last - 1 /\ slog'[i] = slog[i]
        BY <2>2, <4>2
      <4>4. \A k \in i + 1 .. last - 1 : k \in DOMAIN slog /\ k > i /\ slog'[k] = slog[k]
        BY <2>1, <2>2, <4>2
      <4>5. current[t] \in DOMAIN arriving
        <5>1. current[t] \in 1 .. Fetched /\ Fetched <= Len(arriving)
          BY <1>0, <4>1 DEF Queue, Serving, Handling, Fetched, Stored, TypeOK
        <5>2. DOMAIN arriving = 1 .. Len(arriving) /\ Len(arriving) \in Nat /\ Fetched \in Int
          BY <1>0 DEF TypeOK, Fetched, Stored
        <5> QED
          BY <5>1, <5>2
      <4>6. arriving[current[t]].user = slog'[i].sid /\ arriving[current[t]].id = slog'[j].sid
        BY <2>2, <3>2, <4>1, <4>2, <4>3 DEF UserOf, Request
      <4>7. slog'[j].id = t
        BY <2>2, <3>2, <4>1
      <4>8. Message(i, t)' /\ slog'[i].what = "request"
        BY <4>2, <4>3 DEF Message
      <4>9. \A k \in i + 1 .. last - 1 : ~Message(k, t)'
        BY <4>2, <4>4 DEF Message
      <4> QED
        BY <3>2, <4>3, <4>5, <4>6, <4>7, <4>8, <4>9 DEF Message
    <3> QED
      BY <3>1, <3>2
  <2>6. ASSUME NEW i \in DOMAIN slog', NEW j \in DOMAIN slog', i < j, OfOffice(i)', OfOffice(j)', slog'[i].id = slog'[j].id
        PROVE  \E k \in i + 1 .. j - 1 : Message(k, slog[j].id)' /\ slog'[k].what = "reply"
    <3>1. i \in DOMAIN slog /\ slog'[i] = slog[i] /\ OfOffice(i)
      BY <2>1, <2>2, <2>3, <2>6
    <3>2. CASE j # last
      <4>1. j \in DOMAIN slog /\ slog'[j] = slog[j] /\ OfOffice(j)
        BY <2>1, <2>2, <2>3, <2>6, <3>2
      <4>2. PICK k \in i + 1 .. j - 1 : Message(k, slog[j].id) /\ slog[k].what = "reply"
        BY <2>6, <3>1, <4>1 DEF RepliesFollow
      <4>3. k \in DOMAIN slog /\ slog'[k] = slog[k]
        BY <2>1, <2>2, <3>1, <4>1, <4>2
      <4> QED
        BY <4>1, <4>2, <4>3 DEF Message
    <3>3. CASE j = last
      <4>1. t \in Offices /\ pc[t] = "sayRequest" /\ LineAt(t).id = t
        <5>1. t # MAIN_THREAD_ID
          BY <1>0, <1>2, <2>2, <2>6, <3>3, MainSays, LogTyped DEF main, OfOffice
        <5> QED
          BY <1>0, <1>2, <2>2, <2>6, <3>3, <5>1, OfficeSays, LogTyped, Ids DEF OfOffice
      <4>2. slog[i].id = t /\ slog[i].what = "request"
        BY <2>2, <2>6, <3>1, <3>3, <4>1 DEF OfOffice
      <4>3. PICK k \in DOMAIN slog : k > i /\ slog[k].id = t /\ slog[k].what = "reply"
        BY <3>1, <4>1, <4>2 DEF Answering, Handling, Section, InnerSection
      <4>4. k \in i + 1 .. last - 1 /\ slog'[k] = slog[k]
        BY <2>1, <2>2, <3>1, <4>3
      <4>5. slog'[j].id = t
        BY <2>2, <3>3, <4>1
      <4> QED
        BY <3>3, <4>3, <4>4, <4>5 DEF Message
    <3> QED
      BY <3>2, <3>3
  <2> QED
    BY <1>0, <2>5, <2>6 DEF RepliesFollow
<1> QED
  BY <1>1, <1>2

(* What holds of an office at the delay of an account it has locked.        *)
LEMMA AtDelay ==
  ASSUME Machine, NEW o \in Offices, pc[o] \in {"sayDelay1", "sayDelay2"}
  PROVE  AccountAt(o) \in Mutexes /\ owner[AccountAt(o)] = o
<1>0. TypeOK /\ Queue /\ Locks /\ o \in Threads
  BY Ids DEF Machine
<1>1. current[o] \in 1 .. Len(arriving)
  BY <1>0 DEF Queue, Fetched, Stored, TypeOK, Serving, Handling, Section, InnerSection
<1>2. AccountAt(o) \in Mutexes
  BY <1>0, <1>1, Arriving DEF AccountAt, Request, Mutexes
<1>3. Holds(o, AccountAt(o))
  BY DEF Holds, AccountAt, Section, InnerSection
<1> QED
  BY <1>0, <1>2, <1>3 DEF Locks

LEMMA DelayingStep == Machine /\ Delaying /\ SectionsApart /\ [Next]_vars => Delaying' /\ SectionsApart'
<1> SUFFICES ASSUME Machine, Delaying, SectionsApart, [Next]_vars PROVE Delaying' /\ SectionsApart'
  OBVIOUS
<1>0. TypeOK /\ Loops /\ Queue /\ arriving' = arriving /\ Offices \subseteq Threads
  BY NothingElseArrives, Ids DEF Machine
<1>1. ASSUME NEW i \in DOMAIN slog, slog[i].what = "MUTEX_LOCK"
      PROVE  \/ \E k \in DOMAIN slog : k > i /\ slog[k] = logSyncDelay(slog[i].id, slog[i].sid)
             \/ /\ slog[i].id \in Offices /\ pc[slog[i].id] \in {"sayDelay1", "sayDelay2"}
                /\ slog[i].sid = AccountAt(slog[i].id)
  BY <1>1 DEF Delaying
<1>2. ASSUME NEW o \in Offices, pc'[o] = pc[o], pc[o] \in {"sayDelay1", "sayDelay2"}, current'[o] = current[o]
      PROVE  AccountAt(o)' = AccountAt(o)
  BY <1>0, <1>2, LineKept
<1>3. CASE \A t \in Threads : ~Write(t)
  <2>1. slog' = slog
    BY <1>3, LogKept
  <2>2. ASSUME NEW i \in DOMAIN slog, slog[i].what = "MUTEX_LOCK"
        PROVE  \/ \E k \in DOMAIN slog : k > i /\ slog[k] = logSyncDelay(slog[i].id, slog[i].sid)
               \/ /\ slog[i].id \in Offices /\ pc'[slog[i].id] \in {"sayDelay1", "sayDelay2"}
                  /\ slog[i].sid = AccountAt(slog[i].id)'
    <3>1. CASE \E k \in DOMAIN slog : k > i /\ slog[k] = logSyncDelay(slog[i].id, slog[i].sid)
      BY <3>1
    <3>2. CASE /\ slog[i].id \in Offices /\ pc[slog[i].id] \in {"sayDelay1", "sayDelay2"}
               /\ slog[i].sid = AccountAt(slog[i].id)
      <4>1. PICK o \in Offices : o = slog[i].id
        BY <3>2
      <4>2. pc'[o] = pc[o] /\ current'[o] = current[o]
        BY <1>3, <3>2, <4>1, PlacesKept DEF Handling, Section, InnerSection
      <4>3. AccountAt(o)' = AccountAt(o)
        BY <1>2, <3>2, <4>1, <4>2
      <4>4. slog'[i].id = o
        BY <2>1, <4>1
      <4> QED
        BY <2>1, <3>2, <4>1, <4>2, <4>3, <4>4 DEF AccountAt, Request
    <3> QED
      BY <1>1, <2>2, <3>1, <3>2
  <2>3. Delaying'
    BY <2>1, <2>2 DEF Delaying, AccountAt, Request
  <2> QED
    BY <2>1, <2>3 DEF SectionsApart
<1>4. ASSUME NEW t \in Threads, Write(t) PROVE Delaying' /\ SectionsApart'
  <2>1. PICK last \in Nat : last = Len(slog) + 1
    BY <1>4, Appended
  <2>2. /\ last >= 1 /\ DOMAIN slog = 1 .. last - 1 /\ DOMAIN slog' = 1 .. last
        /\ \A i \in DOMAIN slog : slog'[i] = slog[i]
        /\ slog'[last] = LineAt(t)
    BY <1>4, <2>1, Appended
  <2>3. pc[t] \in Saying /\ current' = current
    BY <1>4, LogTyped DEF Write
  <2>4. LineAt(t).what \in {"MUTEX_LOCK", "delay"} => t \in Offices
    BY <1>0, <2>3, MainSays, Ids DEF main
  <2>5. ASSUME NEW i \in DOMAIN slog', slog'[i].what = "MUTEX_LOCK"
        PROVE  \/ \E k \in DOMAIN slog' : k > i /\ slog'[k] = logSyncDelay(slog'[i].id, slog'[i].sid)
               \/ \E o \in Offices : /\ slog'[i].id = o /\ pc'[o] \in {"sayDelay1", "sayDelay2"}
                                     /\ slog'[i].sid = AccountAt(o)'
    <3>1. CASE i = last
      <4>1. t \in Offices /\ pc[t] \in {"sayLock1", "sayLock2"} /\ LineAt(t).id = t /\ LineAt(t).sid = AccountAt(t)
        BY <1>0, <2>2, <2>3, <2>4, <2>5, <3>1, OfficeSays
      <4>2. \/ pc[t] = "sayLock1" /\ pc'[t] = "sayDelay1"
            \/ pc[t] = "sayLock2" /\ pc'[t] = "sayDelay2"
        BY <1>4, <4>1, WriteMoves
      <4>3. Request(t)' = Request(t)
        BY <1>0, <2>3 DEF Request
      <4>4. AccountAt(t)' = AccountAt(t)
        BY <4>2, <4>3 DEF AccountAt, Section, InnerSection, First, Second
      <4> QED
        BY <2>2, <3>1, <4>1, <4>2, <4>4
    <3>2. CASE i # last
      <4>1. i \in DOMAIN slog /\ slog'[i] = slog[i]
        BY <2>1, <2>2, <3>2
      <4>2. CASE \E k \in DOMAIN slog : k > i /\ slog[k] = logSyncDelay(slog[i].id, slog[i].sid)
        BY <2>1, <2>2, <4>1, <4>2
      <4>3. ASSUME NEW o \in Offices, o = slog[i].id, pc[o] \in {"sayDelay1", "sayDelay2"}, slog[i].sid = AccountAt(o)
            PROVE  \/ \E k \in DOMAIN slog' : k > i /\ slog'[k] = logSyncDelay(slog'[i].id, slog'[i].sid)
                   \/ /\ slog'[i].id = o /\ pc'[o] \in {"sayDelay1", "sayDelay2"}
                      /\ slog'[i].sid = AccountAt(o)'
        <5>1. CASE o = t
          <6>1. LineAt(t) = logSyncDelay(t, AccountAt(t))
            BY <1>0, <2>3, <4>3, <5>1, OfficeSays
          <6>2. last \in DOMAIN slog' /\ last > i
            BY <2>1, <2>2, <4>1
          <6> QED
            BY <2>2, <4>1, <4>3, <5>1, <6>1, <6>2
        <5>2. CASE o # t
          <6>1. pc'[o] = pc[o]
            BY <1>0, <1>4, <5>2, WriteMoves
          <6>2. AccountAt(o)' = AccountAt(o)
            BY <1>2, <2>3, <4>3, <6>1
          <6> QED
            BY <4>1, <4>3, <6>1, <6>2
        <5> QED
          BY <5>1, <5>2
      <4>4. slog[i].what = "MUTEX_LOCK"
        BY <2>5, <4>1
      <4> QED
        BY <1>1, <4>1, <4>2, <4>3, <4>4
    <3> QED
      BY <3>1, <3>2
  <2>6. Delaying'
    <3> SUFFICES ASSUME NEW i \in DOMAIN slog', slog'[i].what = "MUTEX_LOCK"
                 PROVE  \/ \E k \in DOMAIN slog' : k > i /\ slog'[k] = logSyncDelay(slog[i].id, slog[i].sid)'
                        \/ /\ slog'[i].id \in Offices /\ pc'[slog'[i].id] \in {"sayDelay1", "sayDelay2"}
                           /\ slog'[i].sid = AccountAt(slog[i].id)'
      BY DEF Delaying
    <3>1. CASE \E k \in DOMAIN slog' : k > i /\ slog'[k] = logSyncDelay(slog'[i].id, slog'[i].sid)
      BY <3>1 DEF logSyncDelay, Line
    <3>2. ASSUME NEW o \in Offices, slog'[i].id = o, pc'[o] \in {"sayDelay1", "sayDelay2"}, slog'[i].sid = AccountAt(o)'
          PROVE  /\ slog'[i].id \in Offices /\ pc'[slog'[i].id] \in {"sayDelay1", "sayDelay2"}
                 /\ slog'[i].sid = AccountAt(slog[i].id)'
      BY <3>2 DEF AccountAt, Request
    <3> QED
      BY <2>5, <3>1, <3>2
  <2>7. ASSUME NEW i \in DOMAIN slog', NEW j \in DOMAIN slog', i < j, slog'[i].what = "MUTEX_LOCK",
               slog'[j].what = "delay", slog'[j].sid = slog'[i].sid, slog'[j].id # slog'[i].id
        PROVE  \E k \in i + 1 .. j - 1 : slog'[k] = logSyncDelay(slog'[i].id, slog'[i].sid)
    <3>1. i \in DOMAIN slog /\ slog'[i] = slog[i]
      BY <2>1, <2>2, <2>7
    <3>2. CASE j # last
      <4>1. j \in DOMAIN slog /\ slog'[j] = slog[j]
        BY <2>1, <2>2, <3>2
      <4>2. PICK k \in i + 1 .. j - 1 : slog[k] = logSyncDelay(slog[i].id, slog[i].sid)
        BY <2>7, <3>1, <4>1 DEF SectionsApart
      <4>3. k \in DOMAIN slog /\ slog'[k] = slog[k]
        BY <2>1, <2>2, <3>1, <4>1, <4>2
      <4> QED
        BY <3>1, <4>2, <4>3
    <3>3. CASE j = last
      <4>1. /\ t \in Offices /\ pc[t] \in {"sayDelay1", "sayDelay2"}
            /\ LineAt(t).id = t /\ LineAt(t).sid = AccountAt(t)
        BY <1>0, <2>2, <2>3, <2>4, <2>7, <3>3, OfficeSays
      <4>2. slog[i].what = "MUTEX_LOCK" /\ slog[i].sid = AccountAt(t) /\ slog[i].id # t
        BY <2>2, <2>7, <3>1, <3>3, <4>1
      <4>3. ASSUME NEW o \in Offices, o = slog[i].id, pc[o] \in {"sayDelay1", "sayDelay2"}, slog[i].sid = AccountAt(o)
            PROVE  FALSE
        <5>1. owner[AccountAt(o)] = o /\ owner[AccountAt(t)] = t
          BY <4>1, <4>3, AtDelay
        <5> QED
          BY <4>2, <4>3, <5>1
      <4>4. PICK k \in DOMAIN slog : k > i /\ slog[k] = logSyncDelay(slog[i].id, slog[i].sid)
        BY <1>1, <3>1, <4>2, <4>3
      <4>5. k \in i + 1 .. last - 1 /\ slog'[k] = slog[k]
        BY <2>1, <2>2, <3>1, <4>4
      <4> QED
        BY <3>1, <3>3, <4>4, <4>5
    <3> QED
      BY <3>2, <3>3
  <2> QED
    BY <2>6, <2>7 DEF SectionsApart, logSyncDelay, Line
<1> QED
  BY <1>3, <1>4

-----------------------------------------------------------------------------
(* The lines of the main thread about the offices.                         *)

LEMMA Mentions ==
  ASSUME Machine, NEW t \in Threads, Write(t), NEW CONSTANT line
  PROVE  /\ LineAt(t) # line /\ Once(line) => Once(line)'
         /\ LineAt(t) # line /\ Never(line) => Never(line)'
         /\ LineAt(t) = line /\ Never(line) => Once(line)'
<1>1. PICK last \in Nat : last = Len(slog) + 1
  BY Appended
<1>2. /\ last >= 1 /\ DOMAIN slog = 1 .. last - 1 /\ DOMAIN slog' = 1 .. last
      /\ \A i \in DOMAIN slog : slog'[i] = slog[i]
      /\ slog'[last] = LineAt(t)
  BY <1>1, Appended
<1>3. last \in DOMAIN slog' /\ last \notin DOMAIN slog /\ \A j \in DOMAIN slog' : j # last => j \in DOMAIN slog
  BY <1>1, <1>2
<1>4. ASSUME LineAt(t) # line, Once(line) PROVE Once(line)'
  <2>1. PICK i \in DOMAIN slog : \A j \in DOMAIN slog : slog[j] = line <=> j = i
    BY <1>4 DEF Once
  <2>2. i \in DOMAIN slog' /\ \A j \in DOMAIN slog' : slog'[j] = line <=> j = i
    BY <1>1, <1>2, <1>3, <1>4, <2>1
  <2> QED
    BY <2>2 DEF Once
<1>5. ASSUME LineAt(t) # line, Never(line) PROVE Never(line)'
  BY <1>2, <1>3, <1>5 DEF Never
<1>6. ASSUME LineAt(t) = line, Never(line) PROVE Once(line)'
  <2>1. \A j \in DOMAIN slog' : slog'[j] = line <=> j = last
    BY <1>2, <1>3, <1>6 DEF Never
  <2> QED
    BY <1>3, <2>1 DEF Once
<1> QED
  BY <1>4, <1>5, <1>6

LEMMA BankOffices ==
  \A o, p, what : /\ logBankOffice(o, what) = logBankOffice(p, what) => o = p
                  /\ logBankOffice(o, what).what = what
  BY DEF logBankOffice, Line

LEMMA EndsKept ==
  ASSUME Ends, Opened' = Opened, Joined' = Joined,
         \A o \in Offices : /\ Once(logBankOffice(o, "OPEN")) => Once(logBankOffice(o, "OPEN"))'
                            /\ Never(logBankOffice(o, "OPEN")) => Never(logBankOffice(o, "OPEN"))'
                            /\ Once(logBankOffice(o, "CLOSE")) => Once(logBankOffice(o, "CLOSE"))'
                            /\ Never(logBankOffice(o, "CLOSE")) => Never(logBankOffice(o, "CLOSE"))'
  PROVE  Ends'
  BY DEF Ends

LEMMA EndsStep == Machine /\ Ends /\ [Next]_vars => Ends'
<1> SUFFICES ASSUME Machine, Ends, [Next]_vars PROVE Ends'
  OBVIOUS
<1>0. TypeOK /\ Loops /\ Queue /\ NumOffices \in Nat /\ office \in 0 .. NumOffices /\ Offices = 1 .. NumOffices
  BY DEF Machine, TypeOK, Offices
<1>1. CASE \A t \in Threads : ~Write(t)
  <2>1. slog' = slog
    BY <1>1, LogKept
  <2>2. Opened' = Opened /\ Joined' = Joined
    <3>1. CASE UNCHANGED vars \/ \E t \in Threads : Format(t)
      BY <3>1 DEF vars, Format, Opened, Joined, main
    <3>2. ASSUME NEW t \in Threads, TakeLock(t) \/ GiveLock(t) PROVE Opened' = Opened /\ Joined' = Joined
      <4>1. office' = office
        BY <3>2 DEF TakeLock, GiveLock
      <4>2. \/ main' = main
            \/ (main = "lockBuffer" /\ main' = "store") \/ (main = "unlockBuffer" /\ main' = "post")
        BY <3>2, TakeMoves, GiveMoves, Ids
      <4> QED
        BY <4>1, <4>2 DEF Opened, Joined
    <3>3. CASE Create \/ Eof \/ Join
      <4>1. \/ main = "create" /\ main' = "sayOpen" /\ office' = office + 1
            \/ main = "idle" /\ main' = "join" /\ office' = 0
            \/ main = "join" /\ main' = "sayClose" /\ office' = office + 1
        BY <3>3, MainMoves DEF Create, Eof, Join
      <4> QED
        BY <1>0, <4>1 DEF Opened, Joined
    <3>4. CASE Read \/ Store \/ Post
      <4>1. /\ office' = office
            /\ main \in {"idle", "store", "post"} /\ main' \in {"lockBuffer", "sayRequest", "idle"}
        BY <3>4, MainMoves DEF Read, Store, Post
      <4> QED
        BY <4>1 DEF Opened, Joined
    <3>5. ASSUME NEW o \in Offices, Claim(o) \/ Return(o) \/ Fetch(o) \/ Shut(o)
          PROVE  Opened' = Opened /\ Joined' = Joined
      <4>1. office' = office /\ main' = main
        BY <3>5, OfficeMoves DEF Claim, Return, Fetch, Shut
      <4> QED
        BY <4>1 DEF Opened, Joined
    <3> QED
      BY <1>1, <3>1, <3>2, <3>3, <3>4, <3>5 DEF Next
  <2> QED
    BY <2>1, <2>2, EndsKept DEF Once, Never
<1>2. ASSUME NEW t \in Threads, Write(t) PROVE Ends'
  <2>0. office' = office /\ pc[t] \in Saying
    BY <1>2, LogTyped DEF Write
  <2>1. \A line : /\ LineAt(t) # line /\ Once(line) => Once(line)'
                  /\ LineAt(t) # line /\ Never(line) => Never(line)'
                  /\ LineAt(t) = line /\ Never(line) => Once(line)'
    BY <1>2, Mentions
  <2>2. CASE t \in Offices \/ main \in {"sayAdmin", "sayRequest"}
    <3>1. LineAt(t).what \notin {"OPEN", "CLOSE"}
      BY <1>0, <2>0, <2>2, OfficeSays, MainSays, Ids DEF main
    <3>2. \/ main' = main
          \/ main = "sayAdmin" /\ main' = "create"
          \/ main = "sayRequest" /\ main' = "unlockBuffer"
      BY <1>2, <2>2, WriteMoves, Ids
    <3>3. Opened' = Opened /\ Joined' = Joined
      BY <2>0, <3>2 DEF Opened, Joined
    <3>4. \A o : LineAt(t) # logBankOffice(o, "OPEN") /\ LineAt(t) # logBankOffice(o, "CLOSE")
      BY <3>1, BankOffices
    <3> QED
      BY <2>1, <3>3, <3>4, EndsKept
  <2>3. CASE t = MAIN_THREAD_ID /\ main = "sayOpen"
    <3>1. LineAt(t) = logBankOffice(office, "OPEN")
      BY <1>0, <2>0, <2>3, MainSays DEF main
    <3>2. main' = IF office = NumOffices THEN "idle" ELSE "create"
      BY <1>2, <2>3, WriteMoves
    <3>3. Opened = office - 1 /\ Opened' = office /\ Joined = 0 /\ Joined' = 0
      BY <1>0, <2>0, <2>3, <3>2 DEF Opened, Joined
    <3>4. \A o : LineAt(t) # logBankOffice(o, "CLOSE")
      BY <3>1, BankOffices
    <3>5. \A o : LineAt(t) = logBankOffice(o, "OPEN") <=> o = office
      BY <3>1, BankOffices
    <3>6. ASSUME NEW o \in Offices
          PROVE  /\ o <= office => Once(logBankOffice(o, "OPEN"))'
                 /\ o > office => Never(logBankOffice(o, "OPEN"))'
                 /\ o <= 0 => Once(logBankOffice(o, "CLOSE"))'
                 /\ o > 0 => Never(logBankOffice(o, "CLOSE"))'
      <4>1. /\ o <= office - 1 => Once(logBankOffice(o, "OPEN"))
            /\ o > office - 1 => Never(logBankOffice(o, "OPEN"))
            /\ Never(logBankOffice(o, "CLOSE"))
        BY <1>0, <3>3 DEF Ends
      <4> QED
        BY <1>0, <2>1, <3>4, <3>5, <4>1
    <3> QED
      BY <3>3, <3>6 DEF Ends
  <2>4. CASE t = MAIN_THREAD_ID /\ main = "sayClose"
    <3>1. LineAt(t) = logBankOffice(office, "CLOSE")
      BY <1>0, <2>0, <2>4, MainSays DEF main
    <3>2. main' = IF office = NumOffices THEN "end" ELSE "join"
      BY <1>2, <2>4, WriteMoves
    <3>3. Joined = office - 1 /\ Joined' = office /\ Opened = NumOffices /\ Opened' = NumOffices
      BY <1>0, <2>0, <2>4, <3>2 DEF Opened, Joined
    <3>4. \A o : LineAt(t) # logBankOffice(o, "OPEN")
      BY <3>1, BankOffices
    <3>5. \A o : LineAt(t) = logBankOffice(o, "CLOSE") <=> o = office
      BY <3>1, BankOffices
    <3>6. ASSUME NEW o \in Offices
          PROVE  /\ o <= office => Once(logBankOffice(o, "CLOSE"))'
                 /\ o > office => Never(logBankOffice(o, "CLOSE"))'
                 /\ o <= NumOffices => Once(logBankOffice(o, "OPEN"))'
                 /\ o > NumOffices => Never(logBankOffice(o, "OPEN"))'
      <4>1. /\ o <= office - 1 => Once(logBankOffice(o, "CLOSE"))
            /\ o > office - 1 => Never(logBankOffice(o, "CLOSE"))
            /\ Once(logBankOffice(o, "OPEN"))
        BY <1>0, <3>3 DEF Ends
      <4> QED
        BY <1>0, <2>1, <3>4, <3>5, <4>1
    <3> QED
      BY <3>3, <3>6 DEF Ends
  <2>5. t \in Offices \/ main \in {"sayAdmin", "sayRequest"} \/ (t = MAIN_THREAD_ID /\ main \in {"sayOpen", "sayClose"})
    BY <1>2, WriteMoves, Ids
  <2> QED
    BY <2>2, <2>3, <2>4, <2>5
<1> QED
  BY <1>1, <1>2

-----------------------------------------------------------------------------
(* The invariant.                                                          *)

LEMMA InvInit == Init => Inv
<1> SUFFICES ASSUME Init PROVE Inv
  OBVIOUS
<1>1. Machine
  BY MachineInit
<1>2. slog = <<>> /\ DOMAIN slog = {} /\ main = "sayAdmin" /\ reads = 0 /\ requests = <<>> /\ office = 0
  BY Ids DEF Init, main
<1>3. \A o \in Offices : pc[o] = "new"
  BY Ids DEF Init
<1>4. MainPlaces = {} /\ OfficePlaces = {}
  BY <1>2 DEF MainPlaces, OfficePlaces
<1>5. MainLogged = 0 /\ OfficeLogged = 0
  <2>1. Fetched = 0
    BY <1>2 DEF Fetched, Stored
  <2> QED
    BY <1>2, <1>3, <2>1 DEF MainLogged, OfficeLogged
<1>6. RequestLines
  BY <1>4, <1>5 DEF RequestLines, InOrder
<1>7. Answering
  BY <1>2, <1>3 DEF Answering, Handling, Section, InnerSection
<1>8. Delaying /\ SectionsApart /\ RepliesFollow
  BY <1>2 DEF Delaying, SectionsApart, RepliesFollow
<1>9. Ends
  <2>1. Opened = 0 /\ Joined = 0
    BY <1>2 DEF Opened, Joined
  <2> QED
    BY <1>2, <2>1 DEF Ends, Never, Offices
<1> QED
  BY <1>1, <1>6, <1>7, <1>8, <1>9 DEF Inv

LEMMA InvNext == Inv /\ [Next]_vars => Inv'
  BY MachineStep, RequestLinesStep, AnsweringStep, RepliesStep, DelayingStep, EndsStep DEF Inv

(* The inductive invariant: the locks, the queue and the lines written so   *)
(* far belong together, in every reachable state.                          *)
THEOREM LogInvariant == Spec => []Inv
<1> QED
  BY InvInit, InvNext, PTL DEF Spec

-----------------------------------------------------------------------------
(* What a reader may conclude.                                             *)

(* Two lines of requests in order are not about the same request.          *)
LEMMA OrderDistinct ==
  ASSUME NEW log, NEW coming, NEW n, NEW places \in SUBSET Nat, InOrder(log, coming, places, n), n \in Nat,
         NEW i \in places, NEW j \in places, log[i].sid = log[j].sid
  PROVE  i = j
<1>1. PICK a \in 1 .. n : log[i].sid = coming[a].user
  BY DEF InOrder
<1>2. \A x, y \in places : x < y /\ log[x].sid = coming[a].user /\ log[y].sid = coming[a].user => a < a
  BY DEF InOrder
<1>3. ~(a < a)
  OBVIOUS
<1>4. ~(i < j) /\ ~(j < i)
  BY <1>1, <1>2, <1>3
<1> QED
  BY <1>4

LEMMA InvFetchedAsStored == Inv => FetchedAsStored
<1> SUFFICES ASSUME Inv PROVE FetchedAsStored
  OBVIOUS
<1>1. /\ TypeOK /\ MainLogged \in Nat /\ OfficeLogged \in Nat /\ OfficeLogged <= MainLogged
      /\ InOrder(slog, arriving, MainPlaces, MainLogged) /\ InOrder(slog, arriving, OfficePlaces, OfficeLogged)
      /\ \A i \in MainPlaces, j \in OfficePlaces : slog[i].sid = slog[j].sid => i < j
  BY Counts DEF Inv, Machine, RequestLines
<1>2. DOMAIN slog = 1 .. Len(slog) /\ Len(slog) \in Nat
  BY <1>1 DEF TypeOK
<1>3. MainPlaces \in SUBSET Nat /\ OfficePlaces \in SUBSET Nat
  BY <1>2 DEF MainPlaces, OfficePlaces
<1>4. /\ \A i : i \in MainPlaces <=> i \in DOMAIN slog /\ OfMain(i)
      /\ \A i : i \in OfficePlaces <=> i \in DOMAIN slog /\ OfOffice(i)
  BY DEF MainPlaces, OfficePlaces
<1> HIDE DEF MainPlaces, OfficePlaces, MainLogged, OfficeLogged
<1>5. ASSUME NEW i \in DOMAIN slog, NEW j \in DOMAIN slog, slog[i].sid = slog[j].sid,
             (OfMain(i) /\ OfMain(j)) \/ (OfOffice(i) /\ OfOffice(j))
      PROVE  i = j
  <2>1. CASE OfMain(i) /\ OfMain(j)
    BY <1>1, <1>3, <1>4, <1>5, <2>1, OrderDistinct
  <2>2. CASE OfOffice(i) /\ OfOffice(j)
    BY <1>1, <1>3, <1>4, <1>5, <2>2, OrderDistinct
  <2> QED
    BY <1>5, <2>1, <2>2
<1>6. ASSUME NEW i \in DOMAIN slog, OfOffice(i)
      PROVE  \E j \in 1 .. i - 1 :
                 /\ OfMain(j) /\ slog[j].sid = slog[i].sid
                 /\ \A k \in 1 .. j - 1 : OfMain(k) =>
                      \E h \in 1 .. i - 1 : OfOffice(h) /\ slog[h].sid = slog[k].sid
  <2>1. i \in OfficePlaces /\ i \in Nat
    BY <1>3, <1>4, <1>6
  <2>2. PICK a \in 1 .. OfficeLogged : slog[i].sid = arriving[a].user
    BY <1>1, <2>1 DEF InOrder
  <2>3. a \in 1 .. MainLogged
    BY <1>1
  <2>4. PICK j \in MainPlaces : slog[j].sid = arriving[a].user
    BY <1>1, <2>3 DEF InOrder
  <2>5. j < i /\ j \in DOMAIN slog /\ OfMain(j) /\ slog[j].sid = slog[i].sid
    BY <1>1, <1>4, <2>1, <2>2, <2>4
  <2>6. j \in 1 .. i - 1
    BY <1>2, <2>1, <2>5
  <2>7. ASSUME NEW k \in 1 .. j - 1, OfMain(k)
        PROVE  \E h \in 1 .. i - 1 : OfOffice(h) /\ slog[h].sid = slog[k].sid
    <3>1. k \in MainPlaces /\ k < j
      BY <1>2, <1>4, <2>5, <2>7
    <3>2. PICK b \in 1 .. MainLogged : slog[k].sid = arriving[b].user
      BY <1>1, <3>1 DEF InOrder
    <3>3. b < a
      BY <1>1, <2>3, <2>4, <3>1, <3>2 DEF InOrder
    <3>4. b \in 1 .. OfficeLogged
      BY <1>1, <3>3
    <3>5. PICK h \in OfficePlaces : slog[h].sid = arriving[b].user
      BY <1>1, <3>4 DEF InOrder
    <3>6. ~(i < h)
      <4> SUFFICES ASSUME i < h PROVE FALSE
        OBVIOUS
      <4>1. a < b
        BY <1>1, <2>1, <2>2, <3>4, <3>5 DEF InOrder
      <4> QED
        BY <1>1, <3>3, <4>1
    <3>7. h # i
      <4> SUFFICES ASSUME h = i PROVE FALSE
        OBVIOUS
      <4>1. k = j
        BY <1>1, <1>3, <2>2, <2>4, <3>1, <3>2, <3>5, OrderDistinct
      <4> QED
        BY <1>3, <3>1, <4>1
    <3>8. h \in DOMAIN slog /\ OfOffice(h)
      BY <1>4
    <3>9. h \in 1 .. i - 1
      BY <1>2, <2>1, <3>6, <3>7, <3>8
    <3> QED
      BY <3>2, <3>5, <3>8, <3>9
  <2> QED
    BY <2>5, <2>6, <2>7
<1> QED
  BY <1>5, <1>6 DEF FetchedAsStored

-----------------------------------------------------------------------------
(* What an office has to say about a request, and how far it has come.     *)

Length(r) ==
    CASE r.op = "denied" -> 2 [] r.op = "shutdown" -> 3 [] r.op = "create" -> 6
      [] HasSecond(r) -> 8 [] OTHER -> 5

(* A place that a request of this kind leads to. *)
OnTheWay(at, r) ==
    /\ at \in Section \cup InnerSection => r.op \notin {"denied", "shutdown"}
    /\ at \in InnerSection => HasSecond(r)
    /\ at = "sayAccount" => r.op = "create"
    /\ at \in {"sayShutdown", "shut"} => r.op = "shutdown"

(* How many lines the office has written about its request. *)
ToldAt(at, r) ==
    CASE at \in {"unlockBuffer", "lock1", "sayLock1", "sayShutdown"} -> 1
      [] at \in {"sayDelay1", "shut"} -> 2
      [] at \in {"sayAccount", "lock2", "sayLock2"} -> 3
      [] at = "sayDelay2" -> 4
      [] at \in {"unlock2", "sayUnlock2"} -> 5
      [] at \in {"unlock1", "sayUnlock1"} -> Length(r) - 2
      [] at = "sayReply" -> Length(r) - 1
      [] OTHER -> Length(r)

(* Where an office goes without a line, and after a line. *)
QuietTurn(at, r, next) ==
    \/ at = "unlockBuffer" /\ next = Handler(r)
    \/ at = "lock1" /\ next = "sayLock1"
    \/ at = "lock2" /\ next = "sayLock2"
    \/ at = "unlock1" /\ next = "sayUnlock1"
    \/ at = "unlock2" /\ next = "sayUnlock2"
    \/ at = "shut" /\ next = "sayReply"

SayingTurn(at, r, next) ==
    \/ at = "sayLock1" /\ next = "sayDelay1"
    \/ at = "sayDelay1" /\ next = (CASE r.op = "create" -> "sayAccount"
                                     [] HasSecond(r) -> "lock2" [] OTHER -> "unlock1")
    \/ at = "sayAccount" /\ next = "unlock1"
    \/ at = "sayLock2" /\ next = "sayDelay2"
    \/ at = "sayDelay2" /\ next = "unlock2"
    \/ at = "sayUnlock2" /\ next = "unlock1"
    \/ at = "sayUnlock1" /\ next = "sayReply"
    \/ at = "sayShutdown" /\ next = "shut"
    \/ at = "sayReply" /\ next = "idle"

LEMMA Lengths ==
  ASSUME NEW r, r.op \in Operations
  PROVE  /\ r.op = "denied" => Length(r) = 2
         /\ r.op = "shutdown" => Length(r) = 3
         /\ r.op = "create" => Length(r) = 6
         /\ HasSecond(r) => Length(r) = 8 /\ r.op = "transfer"
         /\ ~HasSecond(r) /\ r.op \in {"recreate", "balance", "transfer"} => Length(r) = 5
         /\ Length(r) \in 2 .. 8
  BY DEF Length, Operations, HasSecond

(* The lines of a handler, and where they are in what it has to say. *)
LEMMA ScriptShape ==
  ASSUME NEW o, NEW r, r.op \in Operations
  PROVE  LET s == Script(o, r)
             n == Length(r)
         IN  /\ Len(s) = n /\ s[1] = logRequest(o, r) /\ s[n] = logReply(o, r)
             /\ r.op = "shutdown" => s[2] = logDelay(o)
             /\ r.op \notin {"denied", "shutdown"} =>
                  /\ s[2] = logSyncMech(o, "MUTEX_LOCK", First(r))
                  /\ s[3] = logSyncDelay(o, First(r))
                  /\ s[n - 1] = logSyncMech(o, "MUTEX_UNLOCK", First(r))
             /\ r.op = "create" => s[4] = logAccountCreation(o, First(r))
             /\ HasSecond(r) =>
                  /\ s[4] = logSyncMech(o, "MUTEX_LOCK", Second(r))
                  /\ s[5] = logSyncDelay(o, Second(r))
                  /\ s[6] = logSyncMech(o, "MUTEX_UNLOCK", Second(r))
<1>1. CASE r.op = "denied"
  BY <1>1, Lengths DEF Script
<1>2. CASE r.op = "shutdown"
  BY <1>2, Lengths DEF Script
<1>3. CASE r.op = "create"
  <2>1. First(r) = r.target /\ Length(r) = 6 /\ ~HasSecond(r)
    BY <1>3, Lengths DEF First, HasSecond
  <2> QED
    BY <1>3, <2>1 DEF Script
<1>4. CASE HasSecond(r)
  <2>1. Length(r) = 8 /\ r.op = "transfer"
    BY <1>4, Lengths
  <2> QED
    BY <1>4, <2>1 DEF Script
<1>5. CASE ~HasSecond(r) /\ r.op \in {"recreate", "balance", "transfer"}
  <2>1. Length(r) = 5
    BY <1>5, Lengths
  <2> QED
    BY <1>5, <2>1 DEF Script
<1> QED
  BY <1>1, <1>2, <1>3, <1>4, <1>5 DEF Operations

(* A turn leads on along the way; one with a line counts one more. *)
LEMMA Turns ==
  ASSUME NEW r, r.op \in Operations, NEW at \in Handling, NEW next, OnTheWay(at, r)
  PROVE  /\ QuietTurn(at, r, next) =>
              next \in Handling /\ OnTheWay(next, r) /\ ToldAt(next, r) = ToldAt(at, r)
         /\ SayingTurn(at, r, next) =>
              /\ next = "idle" \/ next \in Handling
              /\ OnTheWay(next, r) /\ ToldAt(next, r) = ToldAt(at, r) + 1
<1>1. ASSUME QuietTurn(at, r, next)
      PROVE  next \in Handling /\ OnTheWay(next, r) /\ ToldAt(next, r) = ToldAt(at, r)
  <2>1. CASE at = "unlockBuffer" /\ next = Handler(r)
    <3>1. CASE r.op = "denied"
      BY <2>1, <3>1, Lengths DEF Handler, OnTheWay, ToldAt, Handling, Section, InnerSection
    <3>2. CASE r.op = "shutdown"
      BY <2>1, <3>2 DEF Handler, OnTheWay, ToldAt, Handling, Section, InnerSection
    <3>3. CASE r.op \notin {"denied", "shutdown"}
      BY <2>1, <3>3 DEF Handler, OnTheWay, ToldAt, Handling, Section, InnerSection
    <3> QED
      BY <3>1, <3>2, <3>3
  <2>2. CASE at = "shut" /\ next = "sayReply"
    BY <2>2, Lengths DEF OnTheWay, ToldAt, Handling, Section, InnerSection
  <2>3. CASE at # "unlockBuffer" /\ at # "shut"
    BY <1>1, <2>3 DEF QuietTurn, OnTheWay, ToldAt, Handling, Section, InnerSection
  <2> QED
    BY <1>1, <2>1, <2>2, <2>3 DEF QuietTurn
<1>2. ASSUME SayingTurn(at, r, next)
      PROVE  /\ next = "idle" \/ next \in Handling
             /\ OnTheWay(next, r) /\ ToldAt(next, r) = ToldAt(at, r) + 1
  <2>1. CASE at = "sayDelay1"
    <3>1. r.op \notin {"denied", "shutdown"}
      BY <2>1 DEF OnTheWay, Section
    <3>2. CASE r.op = "create"
      BY <1>2, <2>1, <3>2 DEF SayingTurn, OnTheWay, ToldAt, Handling, Section, InnerSection
    <3>3. CASE HasSecond(r)
      BY <1>2, <2>1, <3>1, <3>3, Lengths DEF SayingTurn, OnTheWay, ToldAt, Handling, Section, InnerSection
    <3>4. CASE r.op # "create" /\ ~HasSecond(r)
      <4>1. next = "unlock1" /\ Length(r) = 5
        BY <1>2, <2>1, <3>1, <3>4, Lengths DEF SayingTurn, Operations
      <4> QED
        BY <2>1, <3>1, <4>1 DEF OnTheWay, ToldAt, Handling, Section, InnerSection
    <3> QED
      BY <3>2, <3>3, <3>4
  <2>2. CASE at = "sayUnlock1" \/ at = "sayReply"
    BY <1>2, <2>2, Lengths DEF SayingTurn, OnTheWay, ToldAt, Handling, Section, InnerSection
  <2>3. CASE at = "sayAccount" \/ at = "sayUnlock2"
    BY <1>2, <2>3, Lengths DEF SayingTurn, OnTheWay, ToldAt, Handling, Section, InnerSection
  <2>4. CASE at \in {"sayLock1", "sayLock2", "sayDelay2", "sayShutdown"}
    BY <1>2, <2>4 DEF SayingTurn, OnTheWay, ToldAt, Handling, Section, InnerSection
  <2> QED
    BY <1>2, <2>1, <2>2, <2>3, <2>4 DEF SayingTurn
<1> QED
  BY <1>1, <1>2

LEMMA Served ==
  ASSUME Machine, NEW o \in Offices, pc[o] \in Serving
  PROVE  current[o] \in 1 .. Len(arriving) /\ Request(o).op \in Operations
<1>1. current[o] \in 1 .. Len(arriving)
  BY DEF Machine, Queue, Fetched, Stored, TypeOK
<1> QED
  BY <1>1, Arriving DEF Machine, Request

LEMMA QuietTurns ==
  ASSUME Machine, [Next]_vars, \A t \in Threads : ~Write(t), NEW o \in Offices, pc[o] \in Handling
  PROVE  /\ current'[o] = current[o] /\ Request(o)' = Request(o)
         /\ pc'[o] = pc[o] \/ QuietTurn(pc[o], Request(o), pc'[o])
<1>0. TypeOK /\ Loops /\ o \in Threads /\ o # MAIN_THREAD_ID /\ pc[o] \in OfficeLabels
  BY Ids DEF Machine, TypeOK
<1>1. current'[o] = current[o] /\ arriving' = arriving
  BY PlacesKept, NothingElseArrives
<1>2. CASE UNCHANGED vars \/ \E t \in Threads : Format(t)
  BY <1>1, <1>2 DEF vars, Format, Request
<1>3. ASSUME NEW t \in Threads, TakeLock(t) \/ GiveLock(t)
      PROVE  pc'[o] = pc[o] \/ QuietTurn(pc[o], Request(o), pc'[o])
  <2>1. CASE t # o
    BY <1>0, <1>3, <2>1, TakeMoves, GiveMoves
  <2>2. CASE t = o /\ pc[o] = "unlockBuffer"
    <3>1. Goes(o)
      BY <1>3, <2>2 DEF TakeLock, GiveLock
    <3>2. pc'[o] = AfterOffice(o)
      BY <1>0, <3>1, OfficeGoes
    <3>3. AfterOffice(o) = AfterFetching(o)
      BY <2>2 DEF AfterOffice, Section, InnerSection
    <3>4. AfterFetching(o) = Handler(Request(o))
      BY <2>2 DEF AfterFetching
    <3> QED
      BY <2>2, <3>2, <3>3, <3>4 DEF QuietTurn
  <2>3. CASE t = o /\ pc[o] # "unlockBuffer"
    <3>1. pc[o] \in {"lock1", "lock2", "unlock1", "unlock2"}
      BY <1>3, <2>3 DEF TakeLock, GiveLock, Handling, Section, InnerSection
    <3>2. /\ pc[o] \in {"lock1", "lock2"} => TakeLock(o)
          /\ pc[o] \in {"unlock1", "unlock2"} => GiveLock(o)
      BY <1>3, <2>3 DEF TakeLock, GiveLock
    <3> QED
      BY <3>1, <3>2, TakeMoves, GiveMoves, Ids DEF QuietTurn
  <2> QED
    BY <2>1, <2>2, <2>3
<1>4. CASE Create \/ Read \/ Store \/ Post \/ Eof \/ Join
  <2>1. pc[o] # "new"
    BY DEF Handling, Section, InnerSection
  <2>2. pc'[o] = pc[o] \/ (pc[o] = "new" /\ pc'[o] = "idle")
    BY <1>0, <1>4, MainMoves DEF Loops, TypeOK
  <2> QED
    BY <1>1, <2>1, <2>2 DEF Request
<1>5. ASSUME NEW u \in Offices, Claim(u) \/ Return(u) \/ Fetch(u) \/ Shut(u)
      PROVE  pc'[o] = pc[o] \/ QuietTurn(pc[o], Request(o), pc'[o])
  <2>1. CASE u # o
    BY <1>0, <1>5, <2>1, OfficeMoves
  <2>2. CASE u = o
    BY <1>5, <2>2, OfficeMoves DEF QuietTurn, Handling, Section, InnerSection
  <2> QED
    BY <2>1, <2>2
<1> QED
  BY <1>1, <1>2, <1>3, <1>4, <1>5 DEF Next, Request

LEMMA SayingTurns ==
  ASSUME Machine, NEW o \in Offices, Write(o), pc[o] \in Handling
  PROVE  SayingTurn(pc[o], Request(o), pc'[o])
<1>1. CASE pc[o] = "sayDelay1"
  <2>1. Goes(o) /\ TypeOK
    BY DEF Write, Machine
  <2>2. pc'[o] = AfterOffice(o)
    BY <2>1, OfficeGoes
  <2>3. AfterOffice(o) = AfterOuter(o)
    BY <1>1 DEF AfterOffice, Section, InnerSection
  <2>4. AfterOuter(o) = CASE Request(o).op = "create" -> "sayAccount"
                          [] HasSecond(Request(o)) -> "lock2" [] OTHER -> "unlock1"
    BY <1>1 DEF AfterOuter
  <2> QED
    BY <1>1, <2>2, <2>3, <2>4 DEF SayingTurn
<1>2. CASE pc[o] # "sayDelay1"
  BY <1>2, WriteMoves, Ids DEF SayingTurn, Handling, Section, InnerSection
<1> QED
  BY <1>1, <1>2

(* The line that an office has to say is the next of its script. *)
LEMMA NextLine ==
  ASSUME Machine, NEW o \in Offices, pc[o] \in Handling, pc[o] \in Saying,
         OnTheWay(pc[o], Request(o))
  PROVE  /\ ToldAt(pc[o], Request(o)) \in 1 .. Length(Request(o)) - 1
         /\ Length(Request(o)) \in 2 .. 8
         /\ LineAt(o) = Script(o, Request(o))[ToldAt(pc[o], Request(o)) + 1]
<1> DEFINE r == Request(o)
<1>1. r.op \in Operations
  BY Served DEF Serving
<1>2. r.op \notin {"denied", "shutdown"} => Length(r) \in {5, 6, 8}
  BY <1>1, Lengths DEF Operations
<1>3. Length(r) \in 2 .. 8
  BY <1>1, Lengths
<1>4. /\ Script(o, r)[Length(r)] = logReply(o, r)
      /\ r.op = "shutdown" => Script(o, r)[2] = logDelay(o)
      /\ r.op \notin {"denied", "shutdown"} =>
           /\ Script(o, r)[2] = logSyncMech(o, "MUTEX_LOCK", First(r))
           /\ Script(o, r)[3] = logSyncDelay(o, First(r))
           /\ Script(o, r)[Length(r) - 1] = logSyncMech(o, "MUTEX_UNLOCK", First(r))
      /\ r.op = "create" => Script(o, r)[4] = logAccountCreation(o, First(r))
      /\ HasSecond(r) =>
           /\ Script(o, r)[4] = logSyncMech(o, "MUTEX_LOCK", Second(r))
           /\ Script(o, r)[5] = logSyncDelay(o, Second(r))
           /\ Script(o, r)[6] = logSyncMech(o, "MUTEX_UNLOCK", Second(r))
  BY <1>1, ScriptShape
<1>5. AccountAt(o) = IF pc[o] \in InnerSection THEN Second(r) ELSE First(r)
  BY DEF AccountAt
<1>6. CASE pc[o] \in {"sayLock1", "sayDelay1", "sayUnlock1", "sayAccount"}
  <2>1. r.op \notin {"denied", "shutdown"} /\ (pc[o] = "sayAccount" => r.op = "create")
    BY <1>6 DEF OnTheWay, Section
  <2>2. AccountAt(o) = First(r)
    BY <1>5, <1>6 DEF InnerSection
  <2>3. r.op = "create" => Length(r) = 6
    BY <1>1, Lengths
  <2>4. /\ pc[o] = "sayLock1" => ToldAt(pc[o], r) = 1 /\ LineAt(o) = logSyncMech(o, "MUTEX_LOCK", First(r))
        /\ pc[o] = "sayDelay1" => ToldAt(pc[o], r) = 2 /\ LineAt(o) = logSyncDelay(o, First(r))
        /\ pc[o] = "sayAccount" => ToldAt(pc[o], r) = 3 /\ LineAt(o) = logAccountCreation(o, First(r))
        /\ pc[o] = "sayUnlock1" => /\ ToldAt(pc[o], r) = Length(r) - 2
                                   /\ LineAt(o) = logSyncMech(o, "MUTEX_UNLOCK", First(r))
    BY <2>2 DEF ToldAt, LineAt
  <2> HIDE DEF r
  <2>5. Length(r) - 2 + 1 = Length(r) - 1 /\ 1 + 1 = 2 /\ 2 + 1 = 3 /\ 3 + 1 = 4
    BY <1>3
  <2> QED
    BY <1>2, <1>3, <1>4, <1>6, <2>1, <2>3, <2>4, <2>5 DEF r
<1>7. CASE pc[o] \in {"sayLock2", "sayDelay2", "sayUnlock2"}
  <2>1. HasSecond(r) /\ AccountAt(o) = Second(r)
    BY <1>5, <1>7 DEF OnTheWay, InnerSection
  <2>2. Length(r) = 8
    BY <1>1, <2>1, Lengths
  <2>4. /\ pc[o] = "sayLock2" => ToldAt(pc[o], r) = 3 /\ LineAt(o) = logSyncMech(o, "MUTEX_LOCK", Second(r))
        /\ pc[o] = "sayDelay2" => ToldAt(pc[o], r) = 4 /\ LineAt(o) = logSyncDelay(o, Second(r))
        /\ pc[o] = "sayUnlock2" => ToldAt(pc[o], r) = 5 /\ LineAt(o) = logSyncMech(o, "MUTEX_UNLOCK", Second(r))
    BY <2>1 DEF ToldAt, LineAt
  <2> HIDE DEF r
  <2> QED
    BY <1>4, <1>7, <2>1, <2>2, <2>4 DEF r
<1>8. CASE pc[o] = "sayShutdown"
  <2>1. r.op = "shutdown" /\ LineAt(o) = logDelay(o) /\ ToldAt(pc[o], r) = 1
    BY <1>8 DEF OnTheWay, LineAt, ToldAt
  <2>2. Length(r) = 3
    BY <1>1, <2>1, Lengths
  <2> HIDE DEF r
  <2> QED
    BY <1>4, <2>1, <2>2 DEF r
<1>9. CASE pc[o] = "sayReply"
  <2>1. LineAt(o) = logReply(o, r) /\ ToldAt(pc[o], r) = Length(r) - 1
    BY <1>9 DEF LineAt, ToldAt
  <2> HIDE DEF r
  <2>2. Length(r) - 1 + 1 = Length(r)
    BY <1>3
  <2> QED
    BY <1>3, <1>4, <2>1, <2>2 DEF r
<1> QED
  BY <1>6, <1>7, <1>8, <1>9 DEF Handling, Section, InnerSection, Saying

-----------------------------------------------------------------------------
(* The lines of an office, from a place on.                                *)

OwnLine(line, o) == line.id = o /\ line.what \notin {"OPEN", "CLOSE"}
SaidIn(log, o, i, j) == Cardinality({k \in i .. j : OwnLine(log[k], o)})

(* The first n lines of the script are there. *)
TellsIn(log, o, r, i, n) ==
    \A m \in 1 .. n :
        \E j \in i .. Len(log) :
            log[j] = Script(o, r)[m] /\ OwnLine(log[j], o) /\ SaidIn(log, o, i, j) = m

(* The request lines of an office begin a script that is there, up to where *)
(* the office is if it has the request in hands, and to the end if not; and *)
(* each of its lines is in such a script.                                   *)
OfficeScripts(log, coming, o, at, n) ==
    /\ at \in Handling => OnTheWay(at, coming[n])
    /\ \A i \in DOMAIN log, a \in 1 .. Len(coming) : log[i] = logRequest(o, coming[a]) =>
         /\ at \in Handling /\ a = n =>
              /\ TellsIn(log, o, coming[a], i, ToldAt(at, coming[a]))
              /\ SaidIn(log, o, i, Len(log)) = ToldAt(at, coming[a])
         /\ ~(at \in Handling /\ a = n) => TellsIn(log, o, coming[a], i, Length(coming[a]))
    /\ \A j \in DOMAIN log : OwnLine(log[j], o) =>
         \E i \in 1 .. j, a \in 1 .. Len(coming) :
             log[i] = logRequest(o, coming[a]) /\ SaidIn(log, o, i, j) <= Length(coming[a])

Scripts == \A o \in Offices : OfficeScripts(slog, arriving, o, pc[o], current[o])

(* The main thread's own lines. *)
MainLines ==
    /\ main = "sayAdmin" => slog = <<>>
    /\ main # "sayAdmin" => Len(slog) > 0 /\ slog[1] = logAccountCreation(MAIN_THREAD_ID, 0)
    /\ \A i \in DOMAIN slog : slog[i].id = MAIN_THREAD_ID /\ i > 1 => slog[i].what = "request"

(* A log that has grown by a line, which is its last.                      *)
Grown(log, longer, last) ==
    /\ last \in Nat \ {0} /\ Len(log) = last - 1 /\ Len(longer) = last
    /\ \A k \in 1 .. last - 1 : longer[k] = log[k]

(* The counts before the last line do not change. *)
LEMMA SaidBefore ==
  ASSUME NEW log, NEW longer, NEW o, NEW last, Grown(log, longer, last),
         NEW i \in 1 .. last, NEW j \in 0 .. last - 1
  PROVE  SaidIn(longer, o, i, j) = SaidIn(log, o, i, j)
<1>1. {k \in i .. j : OwnLine(longer[k], o)} = {k \in i .. j : OwnLine(log[k], o)}
  <2>1. \A k \in i .. j : longer[k] = log[k]
    BY DEF Grown
  <2> QED
    BY <2>1
<1> QED
  BY <1>1 DEF SaidIn

(* The last line counts when it is the office's. *)
LEMMA SaidLast ==
  ASSUME NEW log, NEW longer, NEW o, NEW last, Grown(log, longer, last), NEW i \in 1 .. last
  PROVE  /\ OwnLine(longer[last], o) =>
              SaidIn(longer, o, i, last) = SaidIn(log, o, i, last - 1) + 1
         /\ ~OwnLine(longer[last], o) => SaidIn(longer, o, i, last) = SaidIn(log, o, i, last - 1)
<1> DEFINE S == {k \in i .. last - 1 : OwnLine(log[k], o)}
           T == {k \in i .. last : OwnLine(longer[k], o)}
<1>0. last \in Nat \ {0} /\ \A k \in 1 .. last - 1 : longer[k] = log[k]
  BY DEF Grown
<1>1. IsFiniteSet(S)
  <2>1. IsFiniteSet(i .. last - 1) /\ S \subseteq i .. last - 1
    BY <1>0, FS_Interval
  <2> QED
    BY <2>1, FS_Subset
<1>2. last \notin S
  BY <1>0
<1>3. \A k \in i .. last : k # last => k \in i .. last - 1 /\ longer[k] = log[k]
  BY <1>0
<1>4. \A k \in i .. last - 1 : k \in i .. last /\ longer[k] = log[k]
  BY <1>0
<1>5. last \in i .. last
  BY <1>0
<1>6. OwnLine(longer[last], o) => T = S \cup {last}
  BY <1>3, <1>4, <1>5
<1>7. ~OwnLine(longer[last], o) => T = S
  BY <1>3, <1>4, <1>5
<1>8. Cardinality(S \cup {last}) = Cardinality(S) + 1
  BY <1>1, <1>2, FS_AddElement
<1> QED
  BY <1>6, <1>7, <1>8 DEF SaidIn

(* It does not count when it is not. *)
LEMMA SaidNoMore ==
  \A log, longer, o, last, i :
      Grown(log, longer, last) /\ i \in 1 .. last /\ ~OwnLine(longer[last], o) =>
          SaidIn(longer, o, i, Len(longer)) = SaidIn(log, o, i, Len(log))
<1> TAKE log, longer, o, last, i
<1> HAVE Grown(log, longer, last) /\ i \in 1 .. last /\ ~OwnLine(longer[last], o)
<1>1. SaidIn(longer, o, i, last) = SaidIn(log, o, i, last - 1)
  BY SaidLast
<1>2. Len(longer) = last /\ Len(log) = last - 1
  BY DEF Grown
<1> QED
  BY <1>1, <1>2

(* It is the first from its own place on. *)
LEMMA SaidFirst ==
  ASSUME NEW log, NEW longer, NEW o, NEW last, Grown(log, longer, last), OwnLine(longer[last], o)
  PROVE  SaidIn(longer, o, last, last) = 1
<1>1. last \in 1 .. last /\ last \in Nat
  BY DEF Grown
<1>2. SaidIn(log, o, last, last - 1) = 0
  <2>1. {k \in last .. last - 1 : OwnLine(log[k], o)} = {}
    BY <1>1
  <2> QED
    BY <2>1, FS_EmptySet DEF SaidIn
<1>3. SaidIn(longer, o, last, last) = SaidIn(log, o, last, last - 1) + 1
  BY <1>1, SaidLast
<1> QED
  BY <1>2, <1>3

(* What is in a script stays there. *)
LEMMA TellsOn ==
  ASSUME NEW log, NEW longer, NEW o, NEW r, NEW last, Grown(log, longer, last),
         NEW i \in 1 .. last, NEW n, TellsIn(log, o, r, i, n)
  PROVE  TellsIn(longer, o, r, i, n)
<1>0. Len(log) = last - 1 /\ Len(longer) = last /\ last \in Nat
      /\ \A k \in 1 .. last - 1 : longer[k] = log[k]
  BY DEF Grown
<1> SUFFICES ASSUME NEW m \in 1 .. n
             PROVE  \E j \in i .. last : /\ longer[j] = Script(o, r)[m] /\ OwnLine(longer[j], o)
                                         /\ SaidIn(longer, o, i, j) = m
  BY <1>0 DEF TellsIn
<1>1. PICK j \in i .. last - 1 :
        log[j] = Script(o, r)[m] /\ OwnLine(log[j], o) /\ SaidIn(log, o, i, j) = m
  BY <1>0 DEF TellsIn
<1>2. j \in i .. last /\ j \in 0 .. last - 1 /\ longer[j] = log[j]
  BY <1>0, <1>1
<1>3. SaidIn(longer, o, i, j) = SaidIn(log, o, i, j)
  BY <1>2, SaidBefore
<1> QED
  BY <1>1, <1>2, <1>3

(* And a script goes on with its next line. *)
LEMMA TellsMore ==
  ASSUME NEW log, NEW longer, NEW o, NEW r, NEW last, Grown(log, longer, last),
         NEW i \in 1 .. last, NEW n \in Nat,
         TellsIn(log, o, r, i, n), SaidIn(log, o, i, last - 1) = n,
         OwnLine(longer[last], o), longer[last] = Script(o, r)[n + 1]
  PROVE  TellsIn(longer, o, r, i, n + 1) /\ SaidIn(longer, o, i, last) = n + 1
<1>1. SaidIn(longer, o, i, last) = n + 1
  BY SaidLast
<1>2. TellsIn(longer, o, r, i, n)
  BY TellsOn
<1>3. last \in i .. Len(longer) /\ Len(longer) = last
  BY DEF Grown
<1>4. \A m \in 1 .. n + 1 : m \in 1 .. n \/ m = n + 1
  OBVIOUS
<1> QED
  BY <1>1, <1>2, <1>3, <1>4 DEF TellsIn

(* A request line tells whose it is, and which request it is about. *)
LEMMA WhoseRequest ==
  ASSUME TypeOK, NEW o, NEW p, NEW m \in 1 .. Len(arriving), NEW n \in 1 .. Len(arriving),
         logRequest(o, arriving[m]) = logRequest(p, arriving[n])
  PROVE  o = p /\ m = n
<1>1. o = p /\ UserOf(m) = UserOf(n)
  BY DEF logRequest, Line, UserOf
<1> QED
  BY <1>1, UsersDiffer

LEMMA RequestLine ==
  \A o, r : /\ logRequest(o, r).id = o /\ logRequest(o, r).what = "request"
            /\ logRequest(o, r).sid = r.user
            /\ OwnLine(logRequest(o, r), o)
  BY DEF logRequest, Line, OwnLine

(* A step that writes nothing. *)
LEMMA ScriptsQuiet ==
  ASSUME Machine, Scripts, [Next]_vars, \A t \in Threads : ~Write(t)
  PROVE  Scripts'
<1>1. slog' = slog /\ arriving' = arriving
  BY LogKept, NothingElseArrives
<1> SUFFICES ASSUME NEW o \in Offices
             PROVE  OfficeScripts(slog, arriving, o, pc'[o], current'[o])
  BY <1>1 DEF Scripts
<1>2. pc'[o] \in Handling <=> pc[o] \in Handling
  BY PlacesKept
<1>3. OfficeScripts(slog, arriving, o, pc[o], current[o])
  BY DEF Scripts
<1>4. CASE pc[o] \notin Handling
  BY <1>2, <1>3, <1>4 DEF OfficeScripts
<1>5. CASE pc[o] \in Handling
  <2>1. /\ current'[o] = current[o]
        /\ pc'[o] = pc[o] \/ QuietTurn(pc[o], Request(o), pc'[o])
    BY <1>5, QuietTurns
  <2>2. OnTheWay(pc[o], Request(o)) /\ Request(o).op \in Operations
    BY <1>3, <1>5, Served DEF OfficeScripts, Serving, Request
  <2>3. OnTheWay(pc'[o], Request(o)) /\ ToldAt(pc'[o], Request(o)) = ToldAt(pc[o], Request(o))
    BY <1>5, <2>1, <2>2, Turns
  <2> QED
    BY <1>2, <1>3, <1>5, <2>1, <2>3 DEF OfficeScripts, Request
<1> QED
  BY <1>4, <1>5

(* A line of somebody else. *)
LEMMA ScriptsAside ==
  ASSUME Machine, Scripts, NEW t \in Threads, Write(t), NEW o \in Offices, t # o
  PROVE  /\ pc'[o] = pc[o] /\ current'[o] = current[o] /\ ~OwnLine(LineAt(t), o)
         /\ LineAt(t).what = "request" => LineAt(t).id # o
<1>1. TypeOK /\ Loops /\ Queue /\ o \in Threads /\ o # MAIN_THREAD_ID
  BY Ids DEF Machine
<1>2. pc'[o] = pc[o] /\ current' = current /\ pc[t] \in Saying
  BY <1>1, WriteMoves, LogTyped DEF Write
<1>3. CASE t \in Offices
  BY <1>1, <1>2, <1>3, OfficeSays DEF OwnLine
<1>4. CASE t = MAIN_THREAD_ID
  <2>1. main \in Saying
    BY <1>2, <1>4 DEF main
  <2>2. \/ LineAt(t).what \in {"OPEN", "CLOSE"}
        \/ LineAt(t).id = MAIN_THREAD_ID
    <3>1. main = "sayAdmin" => LineAt(t).id = MAIN_THREAD_ID
      BY <1>4 DEF LineAt, main, logAccountCreation, Line
    <3> QED
      BY <1>1, <1>4, <2>1, <3>1, MainSays
  <2> QED
    BY <1>1, <1>2, <2>2 DEF OwnLine
<1> QED
  BY <1>2, <1>3, <1>4, Ids

(* The log grows by the line of the thread that writes. *)
LEMMA WriteGrows ==
  ASSUME Machine, NEW t \in Threads, Write(t)
  PROVE  \E last \in Nat \ {0} :
            /\ Grown(slog, slog', last) /\ slog'[last] = LineAt(t)
            /\ DOMAIN slog = 1 .. last - 1 /\ DOMAIN slog' = 1 .. last
            /\ arriving' = arriving /\ current' = current
<1>1. slog' \in Seq(LogLines) /\ slog \in Seq(LogLines) /\ slog' = Append(slog, LineAt(t))
  BY LogTyped DEF Machine, TypeOK
<1>2. Len(slog) + 1 \in Nat \ {0} /\ Len(slog) = Len(slog) + 1 - 1 /\ Len(slog') = Len(slog) + 1
  BY <1>1
<1>3. arriving' = arriving /\ current' = current
  BY DEF Write, queue
<1>4. Grown(slog, slog', Len(slog) + 1)
  BY <1>2, Appended DEF Grown
<1> QED
  BY <1>2, <1>3, <1>4, Appended

(* The lines that were there before are in scripts as they were. *)
LEMMA OldLines ==
  ASSUME NEW log, NEW longer, NEW last, Grown(log, longer, last), last \in Nat \ {0},
         DOMAIN log = 1 .. last - 1, NEW coming, NEW o, NEW at, NEW n,
         OfficeScripts(log, coming, o, at, n),
         NEW j \in 1 .. last - 1, OwnLine(longer[j], o)
  PROVE  \E i \in 1 .. j, a \in 1 .. Len(coming) :
             longer[i] = logRequest(o, coming[a]) /\ SaidIn(longer, o, i, j) <= Length(coming[a])
<1>1. \A k \in 1 .. last - 1 : longer[k] = log[k]
  BY DEF Grown
<1>2. PICK i \in 1 .. j, a \in 1 .. Len(coming) :
        log[i] = logRequest(o, coming[a]) /\ SaidIn(log, o, i, j) <= Length(coming[a])
  BY <1>1 DEF OfficeScripts
<1>3. i \in 1 .. last /\ j \in 0 .. last - 1 /\ longer[i] = log[i]
  BY <1>1, <1>2
<1>4. SaidIn(longer, o, i, j) = SaidIn(log, o, i, j)
  BY <1>3, SaidBefore
<1> QED
  BY <1>2, <1>3, <1>4

LEMMA ScriptsAsideStep ==
  ASSUME Machine, Scripts, NEW t \in Threads, Write(t), NEW o \in Offices, t # o
  PROVE  OfficeScripts(slog', arriving', o, pc'[o], current'[o])
<1>1. PICK last \in Nat \ {0} :
         /\ Grown(slog, slog', last) /\ slog'[last] = LineAt(t)
         /\ DOMAIN slog = 1 .. last - 1 /\ DOMAIN slog' = 1 .. last
         /\ arriving' = arriving /\ current' = current
  BY WriteGrows
<1>2. /\ pc'[o] = pc[o] /\ ~OwnLine(LineAt(t), o)
      /\ LineAt(t).what = "request" => LineAt(t).id # o
  BY ScriptsAside
<1>3. OfficeScripts(slog, arriving, o, pc[o], current[o])
  BY DEF Scripts
<1>4. Len(slog) = last - 1 /\ Len(slog') = last /\ \A k \in 1 .. last - 1 : slog'[k] = slog[k]
  BY <1>1 DEF Grown
<1>5. ASSUME NEW i \in 1 .. last, NEW a \in 1 .. Len(arriving), slog'[i] = logRequest(o, arriving[a])
      PROVE  /\ pc[o] \in Handling /\ a = current[o] =>
                  /\ TellsIn(slog', o, arriving[a], i, ToldAt(pc[o], arriving[a]))
                  /\ SaidIn(slog', o, i, last) = ToldAt(pc[o], arriving[a])
             /\ ~(pc[o] \in Handling /\ a = current[o]) =>
                  TellsIn(slog', o, arriving[a], i, Length(arriving[a]))
  <2>1. i # last
    BY <1>1, <1>2, <1>5, RequestLine
  <2>2. i \in DOMAIN slog /\ slog[i] = logRequest(o, arriving[a])
    BY <1>1, <1>4, <1>5, <2>1
  <2>3. SaidIn(slog', o, i, last) = SaidIn(slog, o, i, last - 1)
    <3>1. PICK log, longer : log = slog /\ longer = slog'
      OBVIOUS
    <3>2. ~OwnLine(longer[last], o) /\ Grown(log, longer, last) /\ i \in 1 .. last
      BY <1>1, <1>2, <3>1
    <3>3. SaidIn(longer, o, i, Len(longer)) = SaidIn(log, o, i, Len(log))
      BY <3>2, SaidNoMore
    <3> QED
      BY <1>4, <3>1, <3>3
  <2>4. \A n : TellsIn(slog, o, arriving[a], i, n) => TellsIn(slog', o, arriving[a], i, n)
    BY <1>1, TellsOn
  <2>5. /\ pc[o] \in Handling /\ a = current[o] =>
             /\ TellsIn(slog, o, arriving[a], i, ToldAt(pc[o], arriving[a]))
             /\ SaidIn(slog, o, i, last - 1) = ToldAt(pc[o], arriving[a])
        /\ ~(pc[o] \in Handling /\ a = current[o]) =>
             TellsIn(slog, o, arriving[a], i, Length(arriving[a]))
    BY <1>3, <1>4, <2>2 DEF OfficeScripts
  <2> QED
    BY <2>3, <2>4, <2>5
<1>6. ASSUME NEW j \in 1 .. last, OwnLine(slog'[j], o)
      PROVE  \E i \in 1 .. j, a \in 1 .. Len(arriving) :
               slog'[i] = logRequest(o, arriving[a]) /\ SaidIn(slog', o, i, j) <= Length(arriving[a])
  <2>1. j \in 1 .. last - 1
    BY <1>1, <1>2, <1>6
  <2> QED
    BY <1>1, <1>3, <1>6, <2>1, OldLines
<1>7. pc'[o] \in Handling => OnTheWay(pc'[o], arriving[current[o]])
  BY <1>2, <1>3 DEF OfficeScripts
<1> QED
  BY <1>1, <1>2, <1>4, <1>5, <1>6, <1>7 DEF OfficeScripts

LEMMA ScriptBegins ==
  ASSUME Machine, Scripts, FetchedAsStored', NEW o \in Offices, Write(o), pc[o] = "sayRequest"
  PROVE  OfficeScripts(slog', arriving', o, pc'[o], current'[o])
<1>0. TypeOK /\ o \in Threads /\ o # MAIN_THREAD_ID
  BY Ids DEF Machine
<1>1. PICK last \in Nat \ {0} :
         /\ Grown(slog, slog', last) /\ slog'[last] = LineAt(o)
         /\ DOMAIN slog = 1 .. last - 1 /\ DOMAIN slog' = 1 .. last
         /\ arriving' = arriving /\ current' = current
  BY <1>0, WriteGrows
<1>2. pc'[o] = "unlockBuffer" /\ LineAt(o) = logRequest(o, arriving[current[o]])
  BY <1>0, WriteMoves DEF LineAt, Request
<1>3. OfficeScripts(slog, arriving, o, pc[o], current[o]) /\ pc[o] \notin Handling
  BY DEF Scripts, Handling, Section, InnerSection
<1>4. Len(slog) = last - 1 /\ Len(slog') = last /\ \A k \in 1 .. last - 1 : slog'[k] = slog[k]
  BY <1>1 DEF Grown
<1>5. current[o] \in 1 .. Len(arriving) /\ arriving[current[o]].op \in Operations
  BY Served DEF Serving, Request
<1>6. SaidIn(slog', o, last, last) = 1 /\ OwnLine(slog'[last], o)
  BY <1>1, <1>2, RequestLine, SaidFirst
<1>7. TellsIn(slog', o, arriving[current[o]], last, 1)
  <2>1. Script(o, arriving[current[o]])[1] = logRequest(o, arriving[current[o]])
    BY <1>5, ScriptShape
  <2>2. last \in last .. last
    BY <1>1
  <2> QED
    BY <1>1, <1>2, <1>4, <1>6, <2>1, <2>2 DEF TellsIn
<1>8. ToldAt("unlockBuffer", arriving[current[o]]) = 1
  BY DEF ToldAt
<1>9. ASSUME NEW i \in 1 .. last, NEW a \in 1 .. Len(arriving), slog'[i] = logRequest(o, arriving[a])
      PROVE  /\ a = current[o] =>
                  /\ TellsIn(slog', o, arriving[a], i, ToldAt("unlockBuffer", arriving[a]))
                  /\ SaidIn(slog', o, i, last) = ToldAt("unlockBuffer", arriving[a])
             /\ a # current[o] => TellsIn(slog', o, arriving[a], i, Length(arriving[a]))
  <2>1. CASE i = last
    <3>1. a = current[o]
      BY <1>0, <1>1, <1>2, <1>5, <1>9, <2>1, WhoseRequest
    <3> QED
      BY <1>6, <1>7, <1>8, <2>1, <3>1
  <2>2. CASE i # last
    <3>1. a # current[o]
      <4> SUFFICES ASSUME a = current[o] PROVE FALSE
        OBVIOUS
      <4>1. slog'[i] = slog'[last]
        BY <1>1, <1>2, <1>9
      <4>2. OfOffice(i)' /\ OfOffice(last)'
        BY <1>0, <1>1, <1>2, <1>9, RequestLine DEF OfOffice
      <4>3. i = last
        BY <1>1, <4>1, <4>2 DEF FetchedAsStored
      <4> QED
        BY <2>2, <4>3
    <3>2. i \in DOMAIN slog /\ slog[i] = logRequest(o, arriving[a])
      BY <1>1, <1>4, <1>9, <2>2
    <3>3. TellsIn(slog, o, arriving[a], i, Length(arriving[a]))
      BY <1>3, <3>2 DEF OfficeScripts
    <3>4. TellsIn(slog', o, arriving[a], i, Length(arriving[a]))
      BY <1>1, <3>3, TellsOn
    <3> QED
      BY <3>1, <3>4
  <2> QED
    BY <2>1, <2>2
<1>10. ASSUME NEW j \in 1 .. last, OwnLine(slog'[j], o)
       PROVE  \E i \in 1 .. j, a \in 1 .. Len(arriving) :
                slog'[i] = logRequest(o, arriving[a]) /\ SaidIn(slog', o, i, j) <= Length(arriving[a])
  <2>1. CASE j = last
    <3>1. 1 <= Length(arriving[current[o]])
      BY <1>5, Lengths
    <3>2. j \in 1 .. j
      BY <1>1, <2>1
    <3> QED
      BY <1>1, <1>2, <1>5, <1>6, <2>1, <3>1, <3>2
  <2>2. CASE j # last
    <3>1. j \in 1 .. last - 1
      BY <1>1, <2>2
    <3> QED
      BY <1>1, <1>3, <1>10, <3>1, OldLines
  <2> QED
    BY <2>1, <2>2
<1>11. OnTheWay("unlockBuffer", arriving[current[o]]) /\ "unlockBuffer" \in Handling
  BY DEF OnTheWay, Handling, Section, InnerSection
<1>12. ASSUME NEW i \in 1 .. last, NEW a \in 1 .. Len(arriving), slog'[i] = logRequest(o, arriving[a])
       PROVE  /\ pc'[o] \in Handling /\ a = current[o] =>
                   /\ TellsIn(slog', o, arriving[a], i, ToldAt(pc'[o], arriving[a]))
                   /\ SaidIn(slog', o, i, last) = ToldAt(pc'[o], arriving[a])
              /\ ~(pc'[o] \in Handling /\ a = current[o]) =>
                   TellsIn(slog', o, arriving[a], i, Length(arriving[a]))
  BY <1>2, <1>9, <1>11, <1>12
<1>13. OnTheWay(pc'[o], arriving[current[o]])
  BY <1>2, <1>11
<1> QED
  BY <1>1, <1>4, <1>10, <1>12, <1>13 DEF OfficeScripts

LEMMA ScriptGoesOn ==
  ASSUME Machine, Answering, Scripts, NEW o \in Offices, Write(o), pc[o] \in Handling
  PROVE  OfficeScripts(slog', arriving', o, pc'[o], current'[o])
<1> DEFINE r == arriving[current[o]]
           told == ToldAt(pc[o], r)
<1>0. TypeOK /\ Queue /\ o \in Threads /\ o # MAIN_THREAD_ID /\ pc[o] \in Saying
  BY Ids, LogTyped DEF Machine
<1>1. PICK last \in Nat \ {0} :
         /\ Grown(slog, slog', last) /\ slog'[last] = LineAt(o)
         /\ DOMAIN slog = 1 .. last - 1 /\ DOMAIN slog' = 1 .. last
         /\ arriving' = arriving /\ current' = current
  BY <1>0, WriteGrows
<1>2. OfficeScripts(slog, arriving, o, pc[o], current[o])
  BY DEF Scripts
<1>3. OnTheWay(pc[o], r) /\ r = Request(o) /\ r.op \in Operations /\ current[o] \in 1 .. Len(arriving)
  BY <1>2, Served DEF OfficeScripts, Serving, Request
<1>4. told \in 1 .. Length(r) - 1 /\ Length(r) \in 2 .. 8 /\ LineAt(o) = Script(o, r)[told + 1]
  BY <1>0, <1>3, NextLine
<1>5. /\ pc'[o] = "idle" \/ pc'[o] \in Handling
      /\ OnTheWay(pc'[o], r) /\ ToldAt(pc'[o], r) = told + 1
  BY <1>3, SayingTurns, Turns
<1>6. pc'[o] = "idle" => pc'[o] \notin Handling /\ ToldAt(pc'[o], r) = Length(r)
  BY DEF Handling, Section, InnerSection, ToldAt
<1>7. OwnLine(LineAt(o), o) /\ LineAt(o).what # "request"
  <2>1. pc[o] # "sayRequest"
    BY DEF Handling, Section, InnerSection
  <2> QED
    BY <1>0, <2>1, OfficeSays DEF OwnLine
<1>8. Len(slog) = last - 1 /\ Len(slog') = last /\ \A k \in 1 .. last - 1 : slog'[k] = slog[k]
  BY <1>1 DEF Grown
<1> HIDE DEF told
<1>9. ASSUME NEW i \in DOMAIN slog, slog[i] = logRequest(o, r)
      PROVE  TellsIn(slog', o, r, i, told + 1) /\ SaidIn(slog', o, i, last) = told + 1
  <2>1. TellsIn(slog, o, r, i, told) /\ SaidIn(slog, o, i, last - 1) = told
    BY <1>2, <1>3, <1>8, <1>9 DEF OfficeScripts, told
  <2>2. told \in Nat /\ i \in 1 .. last
    BY <1>1, <1>4
  <2> QED
    BY <1>1, <1>4, <1>7, <2>1, <2>2, TellsMore
<1>10. ASSUME NEW i \in 1 .. last, NEW a \in 1 .. Len(arriving), slog'[i] = logRequest(o, arriving[a])
       PROVE  /\ pc'[o] \in Handling /\ a = current[o] =>
                   /\ TellsIn(slog', o, arriving[a], i, ToldAt(pc'[o], arriving[a]))
                   /\ SaidIn(slog', o, i, last) = ToldAt(pc'[o], arriving[a])
              /\ ~(pc'[o] \in Handling /\ a = current[o]) =>
                   TellsIn(slog', o, arriving[a], i, Length(arriving[a]))
  <2>1. i # last
    BY <1>1, <1>7, <1>10, RequestLine
  <2>2. i \in DOMAIN slog /\ slog[i] = logRequest(o, arriving[a])
    BY <1>1, <1>8, <1>10, <2>1
  <2>3. CASE a = current[o]
    <3>1. TellsIn(slog', o, r, i, told + 1) /\ SaidIn(slog', o, i, last) = told + 1
      BY <1>9, <2>2, <2>3
    <3> QED
      BY <1>5, <1>6, <2>3, <3>1
  <2>4. CASE a # current[o]
    <3>1. TellsIn(slog, o, arriving[a], i, Length(arriving[a]))
      BY <1>2, <2>2, <2>4 DEF OfficeScripts
    <3>2. TellsIn(slog', o, arriving[a], i, Length(arriving[a]))
      BY <1>1, <3>1, TellsOn
    <3> QED
      BY <2>4, <3>2
  <2> QED
    BY <2>3, <2>4
<1>11. ASSUME NEW j \in 1 .. last, OwnLine(slog'[j], o)
       PROVE  \E i \in 1 .. j, a \in 1 .. Len(arriving) :
                slog'[i] = logRequest(o, arriving[a]) /\ SaidIn(slog', o, i, j) <= Length(arriving[a])
  <2>1. CASE j = last
    <3>1. PICK i \in DOMAIN slog :
            slog[i].id = o /\ slog[i].what = "request" /\ slog[i].sid = UserOf(current[o])
      BY DEF Answering
    <3>2. slog[i] \in LogLines
      BY <1>0, <3>1 DEF TypeOK
    <3>3. slog[i] = logRequest(o, r)
      BY <3>1, <3>2 DEF LogLines, logRequest, Line, UserOf
    <3>4. SaidIn(slog', o, i, last) = told + 1 /\ told + 1 <= Length(r)
      BY <1>4, <1>9, <3>3
    <3>5. i \in 1 .. j /\ slog'[i] = slog[i]
      BY <1>1, <1>8, <2>1
    <3> QED
      BY <1>3, <2>1, <3>3, <3>4, <3>5
  <2>2. CASE j # last
    <3>1. j \in 1 .. last - 1
      BY <1>1, <2>2
    <3> QED
      BY <1>1, <1>2, <1>11, <3>1, OldLines
  <2> QED
    BY <2>1, <2>2
<1> QED
  BY <1>1, <1>5, <1>8, <1>10, <1>11 DEF OfficeScripts

LEMMA ScriptsStep == Inv /\ Inv' /\ Scripts /\ [Next]_vars => Scripts'
<1> SUFFICES ASSUME Inv, Inv', Scripts, [Next]_vars PROVE Scripts'
  OBVIOUS
<1>1. Machine /\ Answering /\ TypeOK
  BY DEF Inv, Machine
<1>2. FetchedAsStored'
  BY InvFetchedAsStored, PTL
<1>3. CASE \A t \in Threads : ~Write(t)
  BY <1>1, <1>3, ScriptsQuiet
<1>4. ASSUME NEW t \in Threads, Write(t) PROVE Scripts'
  <2> SUFFICES ASSUME NEW o \in Offices PROVE OfficeScripts(slog', arriving', o, pc'[o], current'[o])
    BY DEF Scripts
  <2>1. CASE t # o
    BY <1>1, <1>4, <2>1, ScriptsAsideStep
  <2>2. CASE t = o
    <3>1. pc[o] \in Saying /\ pc[o] \in OfficeLabels
      BY <1>1, <1>4, <2>2, LogTyped DEF TypeOK
    <3>2. pc[o] = "sayRequest" \/ pc[o] \in Handling
      BY <3>1 DEF Saying, OfficeLabels, Serving
    <3> QED
      BY <1>1, <1>2, <1>4, <2>2, <3>2, ScriptBegins, ScriptGoesOn
  <2> QED
    BY <2>1, <2>2
<1> QED
  BY <1>3, <1>4

(* The main thread says its first line before anybody else says one.        *)
LEMMA MainLinesStep == Machine /\ MainLines /\ [Next]_vars => MainLines'
<1> SUFFICES ASSUME Machine, MainLines, [Next]_vars PROVE MainLines'
  OBVIOUS
<1>0. TypeOK /\ Loops /\ Queue /\ office \in Nat
  BY DEF Machine, TypeOK
<1>1. CASE \A t \in Threads : ~Write(t)
  <2>1. slog' = slog
    BY <1>1, LogKept
  <2>2. main' = "sayAdmin" <=> main = "sayAdmin"
    <3>1. CASE UNCHANGED vars \/ \E t \in Threads : Format(t)
      BY <3>1 DEF vars, Format, main
    <3>2. ASSUME NEW t \in Threads, TakeLock(t) \/ GiveLock(t) PROVE main' = "sayAdmin" <=> main = "sayAdmin"
      BY <3>2, TakeMoves, GiveMoves, Ids
    <3>3. CASE Create \/ Eof \/ Join \/ Read \/ Store \/ Post
      BY <3>3, MainMoves
    <3>4. ASSUME NEW o \in Offices, Claim(o) \/ Return(o) \/ Fetch(o) \/ Shut(o)
          PROVE  main' = "sayAdmin" <=> main = "sayAdmin"
      BY <3>4, OfficeMoves
    <3> QED
      BY <1>1, <3>1, <3>2, <3>3, <3>4 DEF Next
  <2> QED
    BY <2>1, <2>2 DEF MainLines
<1>2. ASSUME NEW t \in Threads, Write(t) PROVE MainLines'
  <2>1. PICK last \in Nat \ {0} :
           /\ Grown(slog, slog', last) /\ slog'[last] = LineAt(t)
           /\ DOMAIN slog = 1 .. last - 1 /\ DOMAIN slog' = 1 .. last
    BY <1>2, WriteGrows
  <2>2. Len(slog) = last - 1 /\ Len(slog') = last /\ \A k \in 1 .. last - 1 : slog'[k] = slog[k]
    BY <2>1 DEF Grown
  <2>3. pc[t] \in Saying
    BY <1>2, LogTyped
  <2>4. CASE main = "sayAdmin"
    <3>1. t = MAIN_THREAD_ID
      <4> SUFFICES ASSUME t \in Offices PROVE FALSE
        BY Ids
      <4>1. pc[t] = "new"
        BY <1>0, <2>4 DEF Loops, Offices
      <4> QED
        BY <2>3, <4>1 DEF Saying
    <3>2. LineAt(t) = logAccountCreation(MAIN_THREAD_ID, 0) /\ main' = "create"
      BY <1>2, <2>4, <3>1, WriteMoves DEF LineAt, main
    <3>3. slog = <<>> /\ last = 1
      BY <2>2, <2>4 DEF MainLines
    <3> QED
      BY <2>1, <2>2, <3>2, <3>3 DEF MainLines
  <2>5. CASE main # "sayAdmin"
    <3>1. main' # "sayAdmin"
      BY <1>2, <2>5, WriteMoves, Ids
    <3>2. LineAt(t).id = MAIN_THREAD_ID => LineAt(t).what = "request"
      <4>1. CASE t \in Offices
        BY <1>0, <2>3, <4>1, OfficeSays, Ids
      <4>2. CASE t = MAIN_THREAD_ID
        <5>1. main \in {"sayOpen", "sayClose", "sayRequest"}
          BY <1>0, <2>3, <2>5, <4>2, MainSays DEF main
        <5>2. main \in {"sayOpen", "sayClose"} => LineAt(t).id = office /\ office > 0
          BY <4>2 , <1>0 DEF LineAt, main, logBankOffice, Line, Loops
        <5>3. main = "sayRequest" => LineAt(t).what = "request"
          BY <4>2 DEF LineAt, main, logRequest, Line
        <5> QED
          BY <1>0, <5>1, <5>2, <5>3 DEF MAIN_THREAD_ID
      <4> QED
        BY <4>1, <4>2, Ids
    <3>3. Len(slog) > 0 /\ slog[1] = logAccountCreation(MAIN_THREAD_ID, 0)
      BY <2>5 DEF MainLines
    <3>4. Len(slog') > 0 /\ slog'[1] = logAccountCreation(MAIN_THREAD_ID, 0)
      BY <2>2, <3>3
    <3>5. ASSUME NEW i \in DOMAIN slog', slog'[i].id = MAIN_THREAD_ID, i > 1
          PROVE  slog'[i].what = "request"
      <4>1. CASE i = last
        BY <2>1, <3>2, <3>5, <4>1
      <4>2. CASE i # last
        <5>1. i \in DOMAIN slog /\ slog'[i] = slog[i]
          BY <2>1, <2>2, <4>2
        <5> QED
          BY <3>5, <5>1 DEF MainLines
      <4> QED
        BY <4>1, <4>2
    <3> QED
      BY <3>1, <3>4, <3>5 DEF MainLines
  <2> QED
    BY <2>4, <2>5
<1> QED
  BY <1>1, <1>2

LEMMA TellsAlways == Spec => [](Inv /\ Scripts /\ MainLines)
<1>1. Init => Scripts /\ MainLines
  <2> SUFFICES ASSUME Init PROVE Scripts /\ MainLines
    OBVIOUS
  <2>1. slog = <<>> /\ DOMAIN slog = {} /\ main = "sayAdmin" /\ \A o \in Offices : pc[o] = "new"
    BY Ids DEF Init, main
  <2>2. "new" \notin Handling
    BY DEF Handling, Section, InnerSection
  <2> QED
    BY <2>1, <2>2 DEF Scripts, OfficeScripts, MainLines
<1>2. Inv /\ Inv' /\ Scripts /\ MainLines /\ [Next]_vars => Scripts' /\ MainLines'
  BY ScriptsStep, MainLinesStep DEF Inv
<1> QED
  BY LogInvariant, <1>1, <1>2, PTL DEF Spec

(* The lines about a request, when the office has none in hands. *)
LEMMA TellsWhole ==
  ASSUME NEW o, NEW r, r.op \in Operations, NEW i, slog[i] = logRequest(o, r),
         TellsIn(slog, o, r, i, Length(r))
  PROVE  Tells(o, r, i) /\ Len(Script(o, r)) = Length(r)
<1>1. Len(Script(o, r)) = Length(r)
  BY ScriptShape
<1> QED
  BY <1>1 DEF Tells, TellsIn, Own, OwnLine, Said, SaidIn

LEMMA InvLogIsComplete == Inv /\ Scripts /\ MainLines => LogIsComplete
<1> SUFFICES ASSUME Inv, Scripts, MainLines, TheEnd PROVE LogIsComplete
  BY DEF LogIsComplete
<1>0. /\ main = "end" /\ TypeOK /\ Machine /\ Loops /\ Queue /\ NumOffices \in Nat \ {0}
      /\ Offices = 1 .. NumOffices
  BY DEF TheEnd, main, Inv, Machine, Offices
<1>1. office = NumOffices /\ \A o \in Offices : pc[o] = "ended" /\ pc[o] \notin Handling
  <2>1. office = NumOffices /\ \A o \in Offices : pc[o] = "ended"
    BY <1>0 DEF Loops, Closed, main
  <2> QED
    BY <2>1 DEF Handling, Section, InnerSection
<1>2. items = 0
  <2>1. 1 \in Offices
    BY <1>0
  <2> QED
    BY <1>0, <1>1, <2>1 DEF Loops
<1>3. Cardinality(Claimers) = 0
  <2>1. Claimers = {}
    BY <1>1 DEF Claimers
  <2> QED
    BY <2>1, FS_EmptySet
<1>4. Len(requests) = 0 /\ reads \in 0 .. Len(arriving)
  BY <1>0, <1>2, <1>3 DEF Queue, TypeOK
<1>5. MainLogged = reads /\ OfficeLogged = reads
  <2>1. Fetched = reads
    BY <1>0, <1>4 DEF Fetched, Stored
  <2> QED
    BY <1>0, <1>1, <2>1 DEF MainLogged, OfficeLogged
<1>6. /\ InOrder(slog, arriving, MainPlaces, reads) /\ InOrder(slog, arriving, OfficePlaces, reads)
      /\ slog \in Seq(LogLines)
  BY <1>0, <1>5 DEF Inv, RequestLines, TypeOK
<1>7. \A n \in 1 .. Len(arriving) : arriving[n].op \in Operations /\ arriving[n].user = UserOf(n)
  <2>1. arriving \in Seq([user : Nat, op : Operations, id : AccountIds, target : AccountIds])
    BY <1>0, ServerLogAssumption DEF TypeOK, ServerLogAssumption
  <2>2. \A n \in 1 .. Len(arriving) :
          arriving[n] \in [user : Nat, op : Operations, id : AccountIds, target : AccountIds]
    BY <2>1, ElementOfSeq
  <2>3. \A n \in 1 .. Len(arriving) : arriving[n].op \in Operations
    BY <2>2
  <2>4. \A n : arriving[n].user = UserOf(n)
    BY DEF UserOf
  <2> QED
    BY <2>3, <2>4
<1>8. \A i \in DOMAIN slog : slog[i] \in LogLines
  BY <1>6
(* A request line, from the user it names. *)
<1>9. ASSUME NEW i \in DOMAIN slog, NEW n \in 1 .. reads, slog[i].what = "request",
             slog[i].sid = arriving[n].user
      PROVE  slog[i] = logRequest(slog[i].id, arriving[n])
  BY <1>8, <1>9 DEF LogLines, logRequest, Line
<1>10. ASSUME NEW o \in Offices, NEW n \in 1 .. Len(arriving), NEW i \in DOMAIN slog,
              slog[i] = logRequest(o, arriving[n])
       PROVE  Tells(o, arriving[n], i) /\ Len(Script(o, arriving[n])) = Length(arriving[n])
  <2>1. OfficeScripts(slog, arriving, o, pc[o], current[o])
    BY DEF Scripts
  <2>2. TellsIn(slog, o, arriving[n], i, Length(arriving[n]))
    BY <1>1, <1>10, <2>1 DEF OfficeScripts
  <2> QED
    BY <1>7, <1>10, <2>2, TellsWhole
<1>11. ASSUME NEW n \in 1 .. reads
       PROVE  /\ \E i \in DOMAIN slog : slog[i] = logRequest(MAIN_THREAD_ID, arriving[n])
              /\ \E o \in Offices, i \in DOMAIN slog : Tells(o, arriving[n], i)
  <2>1. PICK i \in DOMAIN slog : OfMain(i) /\ slog[i].sid = arriving[n].user
    BY <1>6 DEF InOrder, MainPlaces
  <2>2. PICK j \in DOMAIN slog : OfOffice(j) /\ slog[j].sid = arriving[n].user
    BY <1>6 DEF InOrder, OfficePlaces
  <2>3. slog[i] = logRequest(MAIN_THREAD_ID, arriving[n])
    BY <1>9, <2>1 DEF OfMain
  <2>4. slog[j].id \in Offices /\ slog[j] = logRequest(slog[j].id, arriving[n])
    BY <1>8, <1>9, <2>2, Ids DEF OfOffice, LogLines
  <2>5. n \in 1 .. Len(arriving)
    BY <1>4
  <2>6. Tells(slog[j].id, arriving[n], j)
    BY <1>10, <2>4, <2>5
  <2> QED
    BY <2>3, <2>4, <2>6
<1>12. ASSUME NEW o \in Offices, NEW j \in DOMAIN slog, Own(j, o)
       PROVE  \E n \in 1 .. reads, i \in 1 .. j :
                Tells(o, arriving[n], i) /\ Said(o, i, j) <= Len(Script(o, arriving[n]))
  <2>1. OfficeScripts(slog, arriving, o, pc[o], current[o]) /\ OwnLine(slog[j], o)
    BY <1>12 DEF Scripts, Own, OwnLine
  <2>2. PICK i \in 1 .. j, a \in 1 .. Len(arriving) :
          slog[i] = logRequest(o, arriving[a]) /\ SaidIn(slog, o, i, j) <= Length(arriving[a])
    BY <2>1 DEF OfficeScripts
  <2>3. i \in DOMAIN slog
    BY <1>6, <1>12
  <2>4. Tells(o, arriving[a], i) /\ Len(Script(o, arriving[a])) = Length(arriving[a])
    BY <1>10, <2>2, <2>3
  <2>5. slog[i].what = "request" /\ slog[i].sid = arriving[a].user /\ slog[i].id = o /\ o # MAIN_THREAD_ID
    BY <2>2, RequestLine, Ids
  <2>6. PICK b \in 1 .. reads : slog[i].sid = arriving[b].user
    BY <1>6, <2>3, <2>5 DEF InOrder, OfficePlaces, OfOffice
  <2>7. b \in 1 .. Len(arriving) /\ UserOf(a) = UserOf(b)
    BY <1>4, <2>5, <2>6 DEF UserOf
  <2>8. a = b
    BY <1>0, <2>7, UsersDiffer
  <2>9. Said(o, i, j) = SaidIn(slog, o, i, j)
    BY DEF Said, SaidIn, Own, OwnLine
  <2>10. Said(o, i, j) <= Len(Script(o, arriving[a])) /\ a \in 1 .. reads
    BY <2>2, <2>4, <2>6, <2>8, <2>9
  <2> QED
    BY <2>2, <2>4, <2>10
<1>13. slog[1] = logAccountCreation(MAIN_THREAD_ID, 0)
  BY <1>0 DEF MainLines
<1>14. ASSUME NEW i \in DOMAIN slog, slog[i].id = MAIN_THREAD_ID
       PROVE  \/ i = 1 /\ slog[i] = logAccountCreation(MAIN_THREAD_ID, 0)
              \/ i > 1 /\ \E n \in 1 .. reads : slog[i] = logRequest(MAIN_THREAD_ID, arriving[n])
  <2>1. CASE i = 1
    BY <1>13, <2>1
  <2>2. CASE i # 1
    <3>1. i > 1
      BY <1>6, <2>2
    <3>2. OfMain(i)
      BY <1>14, <3>1 DEF MainLines, OfMain
    <3>3. PICK n \in 1 .. reads : slog[i].sid = arriving[n].user
      BY <1>6, <3>2 DEF InOrder, MainPlaces
    <3> QED
      BY <1>9, <1>14, <3>1, <3>2, <3>3 DEF OfMain
  <2> QED
    BY <2>1, <2>2
<1>15. ASSUME NEW o \in Offices, NEW what \in {"OPEN", "CLOSE"} PROVE Once(logBankOffice(o, what))
  <2>1. Opened = NumOffices /\ Joined = NumOffices
    BY <1>0, <1>1 DEF Opened, Joined
  <2>2. o <= NumOffices
    BY <1>0
  <2> QED
    BY <2>1, <2>2 DEF Inv, Ends
<1> QED
  BY <1>11, <1>12, <1>13, <1>14, <1>15 DEF LogIsComplete, Once

(* The offices' request lines follow the main thread's, in the same order, *)
(* each behind its own: both are written while buffer_lock is held, with   *)
(* the store and with the fetch (server.c, main and bankOfficeFunction).   *)
THEOREM LogIsFetchedAsStored == Spec => []FetchedAsStored
<1> QED
  BY LogInvariant, InvFetchedAsStored, PTL

(* A reply line belongs to the request line of its office before it, and   *)
(* an office replies to one request before it takes the next: so replies,  *)
(* which log.c writes without a user, can be attributed.                   *)
THEOREM RepliesAreAttributable == Spec => []RepliesFollow
<1>1. Inv => RepliesFollow
  BY DEF Inv
<1> QED
  BY LogInvariant, <1>1, PTL

(* No delay of another office at the same account is logged between an     *)
(* office's LOCK line and its own delay: the handlers write both while     *)
(* they hold the mutex of the account.                                     *)
THEOREM SectionsAreApart == Spec => []SectionsApart
<1>1. Inv => SectionsApart
  BY DEF Inv
<1> QED
  BY LogInvariant, <1>1, PTL

(* When the server has ended, the file tells of each request that was read *)
(* what the main thread and the handler of its office had to say, from the *)
(* request to the reply, and of nothing else but the administrator's       *)
(* account and the offices' OPEN and CLOSE lines, which are there once     *)
(* (log.c; the handlers and bankOfficeFunction in server.c).               *)
THEOREM LogEndsComplete == Spec => []LogIsComplete
<1> QED
  BY TellsAlways, InvLogIsComplete, PTL

=============================================================================
