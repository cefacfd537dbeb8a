----------------------------- MODULE ServerLog -----------------------------
(***************************************************************************)
(* The log file of the home-banking server, slog.txt (Trabalho_2/src/log.c *)
(* and its calls in server.c).  Main thread and offices write to it side   *)
(* by side and without a lock: what a reader of the file may conclude      *)
(* depends on atomicPrintf, which formats a line into a buffer and appends *)
(* it with one write(), and on which lines are written while a mutex is    *)
(* held.                                                                   *)
(*                                                                         *)
(* A thread is at an instruction, pc: lock, unlock, an access to the queue,*)
(* or a line ("say...").  A request is its number in arriving.  Slots,     *)
(* wake-ups and the lines about the mutexes of the queue are left out      *)
(* (RequestQueue has the queue itself), and so is what a handler decides   *)
(* (Accounts).                                                             *)
(***************************************************************************)
EXTENDS Integers, Sequences, FiniteSets

CONSTANTS
    NumOffices, \* numBankOffices
    MAX_BANK_ACCOUNTS,
    Arrivals,   \* what users may send: requests in the order in which they come
    Nobody, NoLine

MAIN_THREAD_ID == 0

Offices == 1 .. NumOffices
Threads == 0 .. NumOffices
AccountIds == 0 .. MAX_BANK_ACCOUNTS - 1
Operations == {"denied", "create", "recreate", "balance", "transfer", "shutdown"}

ASSUME ServerLogAssumption ==
    /\ NumOffices \in Nat \ {0} /\ MAX_BANK_ACCOUNTS \in Nat /\ Nobody \notin Threads
    /\ Arrivals \subseteq Seq([user : Nat, op : Operations, id : AccountIds, target : AccountIds])
    /\ \A s \in Arrivals : \A i, j \in DOMAIN s : s[i].user = s[j].user => i = j

VARIABLES
    slog,       \* the lines of the file
    buffer,     \* thread: the line it formatted last
    formatted,  \* thread: its line is in the buffer, and not in the file yet
    pc,
    current,    \* thread: currentRequest
    office,     \* main: the office it is about to create, or to join, less one
    owner,      \* the owners of buffer_lock and of the accounts' mutexes
    requests, items,  \* the request queue
    arriving,   \* the requests that come
    reads,      \* how many of them have been read
    dummyOpen   \* the server holds its own FIFO open

vars == <<slog, buffer, formatted, pc, current, office, owner, requests, items,
          arriving, reads, dummyOpen>>

queue == <<requests, items, arriving, reads, dummyOpen>>

(* The mutex of an account is named by its id. *)
BufferLock == -1
Mutexes == {BufferLock} \cup AccountIds

-----------------------------------------------------------------------------
(* The lines of log.c: who is it from, and which user or account it is     *)
(* about.  A reply names the account only.                                 *)

Line(id, what, sid) == [id |-> id, what |-> what, sid |-> sid]

logRequest(id, r) == Line(id, "request", r.user)
logReply(id, r) == Line(id, "reply", r.id)
logSyncMech(id, smo, sid) == Line(id, smo, sid)
logSyncDelay(id, sid) == Line(id, "delay", sid)
logDelay(id) == Line(id, "shutdown", 0)
logAccountCreation(id, account) == Line(id, "account", account)
logBankOffice(id, what) == Line(id, what, 0)

-----------------------------------------------------------------------------
(* The programs of the threads.                                            *)

Request(t) == arriving[current[t]]

(* The accounts whose mutexes a handler takes: one, or two in a transfer,   *)
(* the smaller first.                                                       *)
First(r) ==
    IF r.op \in {"create", "recreate"} \/ (r.op = "transfer" /\ r.target < r.id) THEN r.target ELSE r.id
Second(r) == IF r.target < r.id THEN r.id ELSE r.target
HasSecond(r) == r.op = "transfer" /\ r.target # r.id

Section == {"lock1", "sayLock1", "sayDelay1", "sayAccount", "unlock1", "sayUnlock1"}
InnerSection == {"lock2", "sayLock2", "sayDelay2", "unlock2", "sayUnlock2"}

AccountAt(o) == IF pc[o] \in InnerSection THEN Second(Request(o)) ELSE First(Request(o))

MutexAt(t) == IF pc[t] \in Section \cup InnerSection THEN AccountAt(t) ELSE BufferLock

(* handleRequest: where it begins.  "denied" is a request refused before   *)
(* any mutex is taken.                                                     *)
Handler(r) ==
    CASE r.op = "denied" -> "sayReply" [] r.op = "shutdown" -> "sayShutdown" [] OTHER -> "lock1"

(* Mutation of AfterFetching: the request is logged when others may be at the buffer. *)
AfterFetching_Unlocked(o) ==
    CASE pc[o] = "lockBuffer" -> "fetch" [] pc[o] = "fetch" -> "unlockBuffer"
      [] pc[o] = "unlockBuffer" -> "sayRequest" [] pc[o] = "sayRequest" -> Handler(Request(o))

AfterFetching(o) ==
    CASE pc[o] = "lockBuffer" -> "fetch" [] pc[o] = "fetch" -> "sayRequest"
      [] pc[o] = "sayRequest" -> "unlockBuffer" [] pc[o] = "unlockBuffer" -> Handler(Request(o))

(* The critical section of an account, as the handlers open and close it:   *)
(* the inner one of a transfer, ...                                         *)
AfterInner(o) ==
    CASE pc[o] = "lock2" -> "sayLock2" [] pc[o] = "sayLock2" -> "sayDelay2" [] pc[o] = "sayDelay2" -> "unlock2"
      [] pc[o] = "unlock2" -> "sayUnlock2" [] pc[o] = "sayUnlock2" -> "unlock1"

(* Mutation of AfterOuter: the mutex is given back before the delay. *)
AfterOuter_Short(o) ==
    CASE pc[o] = "lock1" -> "sayLock1" [] pc[o] = "sayLock1" -> "unlock1" [] pc[o] = "unlock1" -> "sayDelay1"
      [] pc[o] = "sayDelay1" -> "sayUnlock1" [] pc[o] = "sayUnlock1" -> "sayReply"

(* ... and the outer, or only one. *)
AfterOuter(o) ==
    CASE pc[o] = "lock1" -> "sayLock1" [] pc[o] = "sayLock1" -> "sayDelay1"
      [] pc[o] = "sayDelay1" -> (CASE Request(o).op = "create" -> "sayAccount"
                                   [] HasSecond(Request(o)) -> "lock2"
                                   [] OTHER -> "unlock1")
      [] pc[o] = "sayAccount" -> "unlock1"
      [] pc[o] = "unlock1" -> "sayUnlock1" [] pc[o] = "sayUnlock1" -> "sayReply"

AfterOffice(o) ==
    CASE pc[o] \in InnerSection -> AfterInner(o)
      [] pc[o] \in Section -> AfterOuter(o)
      [] pc[o] = "sayShutdown" -> "shut" [] pc[o] = "shut" -> "sayReply"
      [] pc[o] = "sayReply" -> "idle"
      [] OTHER -> AfterFetching(o)

(* The main thread: createAdminAccount, createBankOffices, the loop over    *)
(* the requests, closeBankOffices.                                          *)
AfterMain ==
    LET at == pc[MAIN_THREAD_ID] IN
    CASE at = "sayAdmin" -> "create"
      [] at = "create" -> "sayOpen" [] at = "sayOpen" -> IF office = NumOffices THEN "idle" ELSE "create"
      [] at = "lockBuffer" -> "store" [] at = "store" -> "sayRequest" [] at = "sayRequest" -> "unlockBuffer"
      [] at = "unlockBuffer" -> "post" [] at = "post" -> "idle"
      [] at = "join" -> "sayClose" [] at = "sayClose" -> IF office = NumOffices THEN "end" ELSE "join"

Goes(t) == pc' = [pc EXCEPT ![t] = IF t = MAIN_THREAD_ID THEN AfterMain ELSE AfterOffice(t)]

(* What a thread has to say where it is. *)
LineAt(t) ==
    CASE pc[t] = "sayRequest" -> logRequest(t, Request(t))
      [] pc[t] = "sayReply" -> logReply(t, Request(t))
      [] pc[t] \in {"sayLock1", "sayLock2"} -> logSyncMech(t, "MUTEX_LOCK", AccountAt(t))
      [] pc[t] \in {"sayUnlock1", "sayUnlock2"} -> logSyncMech(t, "MUTEX_UNLOCK", AccountAt(t))
      [] pc[t] \in {"sayDelay1", "sayDelay2"} -> logSyncDelay(t, AccountAt(t))
      [] pc[t] = "sayAccount" -> logAccountCreation(t, AccountAt(t))
      [] pc[t] = "sayShutdown" -> logDelay(t)
      [] pc[t] = "sayAdmin" -> logAccountCreation(t, 0)
      [] pc[t] = "sayOpen" -> logBankOffice(office, "OPEN")
      [] pc[t] = "sayClose" -> logBankOffice(office, "CLOSE")

Saying == {"sayRequest", "sayReply", "sayLock1", "sayLock2", "sayUnlock1", "sayUnlock2", "sayDelay1",
           "sayDelay2", "sayAccount", "sayShutdown", "sayAdmin", "sayOpen", "sayClose"}

-----------------------------------------------------------------------------
(* What an instruction does.                                               *)

Init ==
    /\ slog = <<>> /\ buffer = [t \in Threads |-> NoLine] /\ formatted = [t \in Threads |-> FALSE]
    /\ pc = [t \in Threads |-> IF t = MAIN_THREAD_ID THEN "sayAdmin" ELSE "new"]
    /\ current = [t \in Threads |-> 0] /\ office = 0
    /\ owner = [m \in Mutexes |-> Nobody]
    /\ requests = <<>> /\ items = 0 /\ arriving \in Arrivals /\ reads = 0 /\ dummyOpen = TRUE

TakeLock(t) ==
    /\ pc[t] \in {"lockBuffer", "lock1", "lock2"} /\ owner[MutexAt(t)] = Nobody
    /\ owner' = [owner EXCEPT ![MutexAt(t)] = t] /\ Goes(t)
    /\ UNCHANGED <<slog, buffer, formatted, current, office, queue>>

GiveLock(t) ==
    /\ pc[t] \in {"unlockBuffer", "unlock1", "unlock2"}
    /\ owner' = [owner EXCEPT ![MutexAt(t)] = Nobody] /\ Goes(t)
    /\ UNCHANGED <<slog, buffer, formatted, current, office, queue>>

(* Mutation of BufferOf: the static buffer that atomicPrintf had once. *)
BufferOf_Static(t) == MAIN_THREAD_ID

(* atomicPrintf has a buffer on the stack of its thread. *)
BufferOf(t) == t

(* atomicPrintf: vsnprintf ... *)
Format(t) ==
    /\ pc[t] \in Saying /\ ~formatted[t]
    /\ buffer' = [buffer EXCEPT ![BufferOf(t)] = LineAt(t)]
    /\ formatted' = [formatted EXCEPT ![t] = TRUE]
    /\ UNCHANGED <<slog, pc, current, office, owner, queue>>

(* ... and write, to a file that is open with O_APPEND. *)
Write(t) ==
    /\ formatted[t]
    /\ slog' = Append(slog, buffer[BufferOf(t)])
    /\ formatted' = [formatted EXCEPT ![t] = FALSE] /\ Goes(t)
    /\ UNCHANGED <<buffer, current, office, owner, queue>>

Create ==
    /\ pc[MAIN_THREAD_ID] = "create" /\ office' = office + 1
    /\ pc' = [pc EXCEPT ![MAIN_THREAD_ID] = AfterMain, ![office + 1] = "idle"]
    /\ UNCHANGED <<slog, buffer, formatted, current, owner, queue>>

(* readRequest, when nothing is left to do about the last request. *)
Read ==
    /\ pc[MAIN_THREAD_ID] = "idle" /\ reads < Len(arriving)
    /\ reads' = reads + 1 /\ current' = [current EXCEPT ![MAIN_THREAD_ID] = reads + 1]
    /\ pc' = [pc EXCEPT ![MAIN_THREAD_ID] = "lockBuffer"]
    /\ UNCHANGED <<slog, buffer, formatted, office, owner, requests, items, arriving, dummyOpen>>

Store ==
    /\ pc[MAIN_THREAD_ID] = "store" /\ Goes(MAIN_THREAD_ID)
    /\ requests' = Append(requests, current[MAIN_THREAD_ID])
    /\ UNCHANGED <<slog, buffer, formatted, current, office, owner, items, arriving, reads, dummyOpen>>

Post ==
    /\ pc[MAIN_THREAD_ID] = "post" /\ Goes(MAIN_THREAD_ID)
    /\ items' = items + 1
    /\ UNCHANGED <<slog, buffer, formatted, current, office, owner, requests, arriving, reads, dummyOpen>>

(* fifoClosed is set: no request will come. *)
Closed == pc[MAIN_THREAD_ID] \in {"join", "sayClose", "end"}

Eof ==
    /\ pc[MAIN_THREAD_ID] = "idle" /\ ~dummyOpen
    /\ pc' = [pc EXCEPT ![MAIN_THREAD_ID] = "join"] /\ office' = 0
    /\ UNCHANGED <<slog, buffer, formatted, current, owner, queue>>

Join ==
    /\ pc[MAIN_THREAD_ID] = "join" /\ pc[office + 1] = "ended"
    /\ office' = office + 1 /\ Goes(MAIN_THREAD_ID)
    /\ UNCHANGED <<slog, buffer, formatted, current, owner, queue>>

(* syncItemsBankOffice: an item, or the end. *)
Claim(o) ==
    /\ pc[o] = "idle" /\ items > 0
    /\ items' = items - 1 /\ pc' = [pc EXCEPT ![o] = "lockBuffer"]
    /\ UNCHANGED <<slog, buffer, formatted, current, office, owner, requests, arriving, reads, dummyOpen>>

Return(o) ==
    /\ pc[o] = "idle" /\ items = 0 /\ Closed
    /\ pc' = [pc EXCEPT ![o] = "ended"]
    /\ UNCHANGED <<slog, buffer, formatted, current, office, owner, queue>>

Fetch(o) ==
    /\ pc[o] = "fetch" /\ Goes(o)
    /\ requests' = Tail(requests) /\ current' = [current EXCEPT ![o] = Head(requests)]
    /\ UNCHANGED <<slog, buffer, formatted, office, owner, items, arriving, reads, dummyOpen>>

(* handleShutdown, after its delay. *)
Shut(o) ==
    /\ pc[o] = "shut" /\ Goes(o) /\ dummyOpen' = FALSE
    /\ UNCHANGED <<slog, buffer, formatted, current, office, owner, requests, items, arriving, reads>>

Next ==
    \/ \E t \in Threads : TakeLock(t) \/ GiveLock(t) \/ Format(t) \/ Write(t)
    \/ Create \/ Read \/ Store \/ Post \/ Eof \/ Join
    \/ \E o \in Offices : Claim(o) \/ Fetch(o) \/ Shut(o) \/ Return(o)

Spec == Init /\ [][Next]_vars

-----------------------------------------------------------------------------
(* Properties: what a reader of slog.txt may conclude.                     *)

(* The lines about messages, by their places. *)
OfMain(i) == slog[i].what = "request" /\ slog[i].id = MAIN_THREAD_ID
OfOffice(i) == slog[i].what = "request" /\ slog[i].id # MAIN_THREAD_ID

Message(i, o) == slog[i].what \in {"request", "reply"} /\ slog[i].id = o

TheEnd == pc[MAIN_THREAD_ID] = "end"

(* What an office has to say about a request, from its arrival at the       *)
(* office to the reply.                                                     *)
Script(o, r) ==
    LET lock(m) == logSyncMech(o, "MUTEX_LOCK", m)
        unlock(m) == logSyncMech(o, "MUTEX_UNLOCK", m)
        delay(m) == logSyncDelay(o, m)
        start == logRequest(o, r)
        finish == logReply(o, r)
    IN  CASE r.op = "denied" -> <<start, finish>>
          [] r.op = "shutdown" -> <<start, logDelay(o), finish>>
          [] r.op = "create" ->
               <<start, lock(r.target), delay(r.target), logAccountCreation(o, r.target),
                 unlock(r.target), finish>>
          [] HasSecond(r) ->
               <<start, lock(First(r)), delay(First(r)), lock(Second(r)), delay(Second(r)),
                 unlock(Second(r)), unlock(First(r)), finish>>
          [] OTHER -> <<start, lock(First(r)), delay(First(r)), unlock(First(r)), finish>>

(* The lines that an office wrote itself; how many there are from i to j.   *)
Own(j, o) == slog[j].id = o /\ slog[j].what \notin {"OPEN", "CLOSE"}
Said(o, i, j) == Cardinality({k \in i .. j : Own(k, o)})

(* The office's lines from i on are what it has to say about r, in order    *)
(* and with nothing in between.                                             *)
Tells(o, r, i) ==
    /\ slog[i] = logRequest(o, r)
    /\ \A m \in 1 .. Len(Script(o, r)) :
         \E j \in i .. Len(slog) : slog[j] = Script(o, r)[m] /\ Own(j, o) /\ Said(o, i, j) = m

(* The log is complete when the server ends.  For each request that was     *)
(* read there are the main thread's line and, of some office, all the lines *)
(* that its handler writes, from the request to the reply, in order: other  *)
(* threads' lines may be in between, but none of the same office.  No       *)
(* office has a line that is not among those.  Apart from its lines about   *)
(* requests, the main thread has one about the administrator's account, the *)
(* first of all, and one OPEN and one CLOSE for each office.                *)
LogIsComplete ==
    TheEnd =>
        /\ \A n \in 1 .. reads :
             /\ \E i \in DOMAIN slog : slog[i] = logRequest(MAIN_THREAD_ID, arriving[n])
             /\ \E o \in Offices, i \in DOMAIN slog : Tells(o, arriving[n], i)
        /\ \A o \in Offices, j \in DOMAIN slog : Own(j, o) =>
             \E n \in 1 .. reads, i \in 1 .. j :
                 Tells(o, arriving[n], i) /\ Said(o, i, j) <= Len(Script(o, arriving[n]))
        /\ \A i \in DOMAIN slog : slog[i].id = MAIN_THREAD_ID =>
             \/ i = 1 /\ slog[i] = logAccountCreation(MAIN_THREAD_ID, 0)
             \/ i > 1 /\ \E n \in 1 .. reads : slog[i] = logRequest(MAIN_THREAD_ID, arriving[n])
        /\ slog[1] = logAccountCreation(MAIN_THREAD_ID, 0)
        /\ \A o \in Offices, what \in {"OPEN", "CLOSE"} : \E i \in DOMAIN slog :
             \A j \in DOMAIN slog : slog[j] = logBankOffice(o, what) <=> j = i

(* The offices' lines about requests follow the order of the main thread's: *)
(* one for each request, behind the main thread's and behind the offices'   *)
(* lines about all requests before it.                                      *)
FetchedAsStored ==
    /\ \A i, j \in DOMAIN slog :
         slog[i].sid = slog[j].sid /\ ((OfMain(i) /\ OfMain(j)) \/ (OfOffice(i) /\ OfOffice(j))) => i = j
    /\ \A i \in DOMAIN slog : OfOffice(i) =>
         \E j \in 1 .. i - 1 :
             /\ OfMain(j) /\ slog[j].sid = slog[i].sid
             /\ \A k \in 1 .. j - 1 : OfMain(k) =>
                  \E h \in 1 .. i - 1 : OfOffice(h) /\ slog[h].sid = slog[k].sid

(* A reply line, which names no user, is about the request that is in its   *)
(* office's line before it, and no office takes a request before it has     *)
(* replied to the last.                                                     *)
RepliesFollow ==
    /\ \A j \in DOMAIN slog : slog[j].what = "reply" =>
         \E i \in 1 .. j - 1 :
             /\ Message(i, slog[j].id) /\ slog[i].what = "request"
             /\ \A k \in i + 1 .. j - 1 : ~Message(k, slog[j].id)
             /\ \E n \in DOMAIN arriving : arriving[n].user = slog[i].sid /\ arriving[n].id = slog[j].sid
    /\ \A i, j \in DOMAIN slog :
         i < j /\ OfOffice(i) /\ OfOffice(j) /\ slog[i].id = slog[j].id =>
             \E k \in i + 1 .. j - 1 : Message(k, slog[j].id) /\ slog[k].what = "reply"

(* Between the lines that say that an office has locked an account, and has *)
(* spent its delay there, no other office is logged to have spent a delay   *)
(* at that account: the lines tell in which order the offices had it.  The  *)
(* UNLOCK line may come late, for it is written without the mutex.          *)
SectionsApart ==
    \A i, j \in DOMAIN slog :
        (/\ i < j /\ slog[i].what = "MUTEX_LOCK"
         /\ slog[j].what = "delay" /\ slog[j].sid = slog[i].sid /\ slog[j].id # slog[i].id) =>
            \E k \in i + 1 .. j - 1 : slog[k] = logSyncDelay(slog[i].id, slog[i].sid)

=============================================================================
