------------------------------ MODULE Session ------------------------------
(***************************************************************************)
(* A request's way from a user process to the home-banking server and the  *)
(* way of its reply back (Trabalho_2/src/user.c, and main,                 *)
(* bankOfficeFunction, readRequest, writeReply and handleShutdown of       *)
(* server.c).  All users write to the one server FIFO; each has a FIFO of  *)
(* its own for the reply.                                                  *)
(*                                                                         *)
(* The FIFOs are modelled as POSIX has them: open() waits for the other    *)
(* end, read() of an empty FIFO waits while anybody can write to it and    *)
(* returns 0 afterwards, write() without a reader raises SIGPIPE, which    *)
(* kills the process, for neither program handles it.  A request, and a    *)
(* reply, is written with one write() of less than PIPE_BUF bytes.         *)
(*                                                                         *)
(* How the offices share the requests is the business of RequestQueue, and *)
(* what they do to the accounts that of Accounts: here a request waits in  *)
(* a queue and is decided in one step.                                     *)
(***************************************************************************)
EXTENDS Naturals, Sequences

CONSTANTS
    Users,            \* processes of the program user, one request each
    Admins,           \* those that may ask for a shutdown
    Offices,          \* the bank office threads
    NoUser, NoReply,
    MaxRestarts       \* how often a server that died is started again

ASSUME SessionAssumption ==
    /\ Admins \subseteq Users
    /\ NoUser \notin Users /\ NoReply \notin {"OK", "REFUSED", "SRV_DOWN", "SRV_TIMEOUT"}
    /\ MaxRestarts \in Nat

VARIABLES
    main,       \* the server's main thread, "down" when the process is not there
    restarts,   \* starts of the server after its death
    dummyOpen,  \* fdFifoServerDummy is open
    fifo,       \* /tmp/secure_srv: absent, writable or readOnly
    called,     \* a user has opened it since the server waits in open()
    late,       \* the users that opened it only after the server saw its end
    sent,       \* the users whose requests it holds
    pending,    \* the users whose requests no office has taken
    opc, client, answer,  \* office: control, the user it serves, the reply
    upc, code,  \* user: control, the return code it has in replyMsg
    logged,     \* user: the return code it wrote to its log
    met,        \* user: the opens of both ends of its FIFO have met
    mailbox,    \* user: the reply its FIFO holds
    decision    \* user: what the server decided about its request

process == <<main, restarts, dummyOpen>>
gate == <<fifo, called, late>>
server == <<process, gate, sent, pending>>
office == <<opc, client, answer>>
user == <<upc, code, logged>>
reply == <<met, mailbox, decision>>
vars == <<server, office, user, reply>>

OfficeGoto(o, label) == opc' = [opc EXCEPT ![o] = label]
UserGoto(u, label) == upc' = [upc EXCEPT ![u] = label]

ServerReads == main \in {"opening", "dummy", "reading", "joining"}

(* The users that have the server FIFO open, and the FIFOs of users. *)
Writers == {u \in Users : upc[u] \in {"send", "openReply", "read", "cancel"}}

HasFifo(u) == upc[u] \notin {"start", "ended"}

Reads(u) == upc[u] \in {"openReply", "read"}

Serving(u, labels) == \E o \in Offices : client[o] = u /\ opc[o] \in labels

Init ==
    /\ main = "down" /\ restarts = 0 /\ dummyOpen = FALSE
    /\ fifo = "absent" /\ called = FALSE /\ late = {} /\ sent = <<>> /\ pending = <<>>
    /\ opc = [o \in Offices |-> "idle"] /\ client = [o \in Offices |-> NoUser]
    /\ answer = [o \in Offices |-> NoReply]
    /\ upc = [u \in Users |-> "start"]
    /\ code = [u \in Users |-> "OK"]  \* replyMsg is a global: all zero, RC_OK
    /\ logged = [u \in Users |-> NoReply]
    /\ met = [u \in Users |-> FALSE] /\ mailbox = [u \in Users |-> NoReply]
    /\ decision = [u \in Users |-> NoReply]

-----------------------------------------------------------------------------
(* The server.                                                             *)

(* mkfifo, and the wait in open() for the first user.  A FIFO that is there *)
(* already is taken as it is.                                               *)
Start ==
    /\ main = "down"
    /\ IF fifo = "absent" THEN UNCHANGED restarts
       ELSE restarts < MaxRestarts /\ restarts' = restarts + 1
    /\ main' = "opening"
    /\ fifo' = IF fifo = "absent" THEN "writable" ELSE fifo
    /\ called' = FALSE
    /\ UNCHANGED <<dummyOpen, late, sent, pending, office, user, reply>>

OpenFifo ==
    /\ main = "opening" /\ (called \/ Writers # {})
    /\ main' = "dummy"
    /\ UNCHANGED <<restarts, dummyOpen, gate, sent, pending, office, user, reply>>

OpenDummy ==
    /\ main = "dummy" /\ main' = "reading"
    /\ dummyOpen' = TRUE
    /\ UNCHANGED <<restarts, gate, sent, pending, office, user, reply>>

ReadRequest ==
    /\ main = "reading" /\ sent # <<>>
    /\ pending' = Append(pending, Head(sent)) /\ sent' = Tail(sent)
    /\ UNCHANGED <<process, gate, office, user, reply>>

(* Mutation of ReadEof: the users that have the FIFO open are not waited for. *)
ReadEof_Hasty ==
    /\ main = "reading" /\ sent = <<>> /\ ~dummyOpen
    /\ main' = "joining"
    /\ UNCHANGED <<restarts, dummyOpen, gate, sent, pending, office, user, reply>>

ReadEof ==
    /\ main = "reading" /\ sent = <<>> /\ ~dummyOpen /\ Writers = {}
    /\ main' = "joining"
    /\ UNCHANGED <<restarts, dummyOpen, gate, sent, pending, office, user, reply>>

(* closeBankOffices, close and unlink. *)
End ==
    /\ main = "joining" /\ pending = <<>> /\ \A o \in Offices : opc[o] = "idle"
    /\ main' = "ended" /\ fifo' = "absent"
    /\ UNCHANGED <<restarts, dummyOpen, called, late, sent, pending, office, user, reply>>

(* The process dies, and with it its offices and its open files.  What is   *)
(* in the server FIFO stays as long as a user has it open.                  *)
Die ==
    /\ main' = "down" /\ dummyOpen' = FALSE /\ pending' = <<>>
    /\ sent' = IF Writers = {} THEN <<>> ELSE sent
    /\ opc' = [o \in Offices |-> "idle"] /\ client' = [o \in Offices |-> NoUser]
    /\ answer' = [o \in Offices |-> NoReply]
    /\ UNCHANGED <<restarts, gate, user, reply>>

Fetch(o) ==
    /\ opc[o] = "idle" /\ pending # <<>>
    /\ client' = [client EXCEPT ![o] = Head(pending)] /\ pending' = Tail(pending)
    /\ OfficeGoto(o, "handle")
    /\ UNCHANGED <<process, gate, sent, answer, user, reply>>

(* handleRequest: the operation is done, or refused, before the reply. *)
Decide(o, c) ==
    /\ opc[o] = "handle" /\ OfficeGoto(o, "open")
    /\ answer' = [answer EXCEPT ![o] = c]
    /\ decision' = [decision EXCEPT ![client[o]] = c]
    /\ UNCHANGED <<main, restarts, called, late, sent, pending, client, user, met, mailbox>>

Handle(o) ==
    /\ \E c \in {"OK", "REFUSED"} : Decide(o, c)
    /\ UNCHANGED <<dummyOpen, fifo>>

(* Mutation of Shutdown: the permissions of the FIFO are left as they are. *)
Shutdown_StillWritable(o) ==
    /\ client[o] \in Admins /\ dummyOpen /\ Decide(o, "OK")
    /\ dummyOpen' = FALSE /\ UNCHANGED fifo

(* handleShutdown: fchmod, and close of the dummy ... *)
Shutdown(o) ==
    /\ client[o] \in Admins /\ dummyOpen /\ Decide(o, "OK")
    /\ fifo' = "readOnly" /\ dummyOpen' = FALSE

(* ... which exits the process when it is closed already. *)
ShutdownAgain(o) == opc[o] = "handle" /\ client[o] \in Admins /\ ~dummyOpen /\ Die

Finish(o) ==
    /\ OfficeGoto(o, "idle")
    /\ client' = [client EXCEPT ![o] = NoUser] /\ answer' = [answer EXCEPT ![o] = NoReply]

(* The name of the user's FIFO is looked up; without one the office gives up *)
(* (RC_USR_DOWN), with one it waits there for the reader.                    *)
LookUpUser(o) ==
    /\ opc[o] = "open"
    /\ IF HasFifo(client[o]) THEN OfficeGoto(o, "waitReader") /\ UNCHANGED <<client, answer>>
       ELSE Finish(o)
    /\ UNCHANGED <<server, user, reply>>

MeetUser(o) ==
    /\ opc[o] = "waitReader" /\ (Reads(client[o]) \/ met[client[o]])
    /\ met' = [met EXCEPT ![client[o]] = TRUE]
    /\ OfficeGoto(o, "write")
    /\ UNCHANGED <<server, client, answer, user, mailbox, decision>>

WriteReply(o) ==
    /\ opc[o] = "write" /\ Reads(client[o])
    /\ mailbox' = [mailbox EXCEPT ![client[o]] = answer[o]]
    /\ OfficeGoto(o, "close")
    /\ UNCHANGED <<server, client, answer, user, met, decision>>

(* SIGPIPE: the user is gone since the office opened its FIFO. *)
BrokenPipe(o) == opc[o] = "write" /\ ~Reads(client[o]) /\ Die

CloseUser(o) ==
    /\ opc[o] = "close" /\ Finish(o)
    /\ UNCHANGED <<server, user, reply>>

-----------------------------------------------------------------------------
(* A user.                                                                 *)

(* mkfifo of the user's own FIFO. *)
Begin(u) ==
    /\ upc[u] = "start" /\ UserGoto(u, "lookUp")
    /\ UNCHANGED <<server, office, code, logged, reply>>

LookUpServer(u) ==
    /\ upc[u] = "lookUp"
    /\ IF fifo = "writable" THEN UserGoto(u, "openServer") /\ UNCHANGED code
       ELSE UserGoto(u, "log") /\ code' = [code EXCEPT ![u] = "SRV_DOWN"]
    /\ UNCHANGED <<server, office, logged, reply>>

(* open() returns when a reader is there.  The permissions were looked at   *)
(* before, so that may be a server that has stopped to read.                *)
OpenServer(u) ==
    /\ upc[u] = "openServer" /\ ServerReads
    /\ UserGoto(u, "send") /\ called' = TRUE
    /\ late' = IF main = "joining" THEN late \cup {u} ELSE late
    /\ UNCHANGED <<process, fifo, sent, pending, office, code, logged, reply>>

Send(u) ==
    /\ upc[u] = "send" /\ ServerReads
    /\ sent' = Append(sent, u)
    /\ UserGoto(u, "openReply")
    /\ UNCHANGED <<process, gate, pending, office, code, logged, reply>>

(* What the server FIFO holds when a user closes it: nothing any more when  *)
(* that was the last process to have it open.                               *)
SentAfter(u) == IF ServerReads \/ Writers \ {u} # {} THEN sent ELSE <<>>

(* SIGPIPE: the server died since the user opened the FIFO. *)
SendFails(u) ==
    /\ upc[u] = "send" /\ ~ServerReads
    /\ UserGoto(u, "dead") /\ sent' = SentAfter(u)
    /\ UNCHANGED <<process, gate, pending, office, code, logged, reply>>

OpenReply(u) ==
    /\ upc[u] = "openReply" /\ (met[u] \/ Serving(u, {"waitReader"}))
    /\ UserGoto(u, "read") /\ met' = [met EXCEPT ![u] = TRUE]
    /\ UNCHANGED <<server, office, code, logged, mailbox, decision>>

ReadReply(u) ==
    /\ upc[u] = "read" /\ mailbox[u] # NoReply
    /\ code' = [code EXCEPT ![u] = mailbox[u]]
    /\ UserGoto(u, "cancel")
    /\ UNCHANGED <<server, office, logged, reply>>

(* Mutation of ReadNothing: read() does not wait for the office. *)
ReadNothing_Early(u) ==
    /\ upc[u] = "read" /\ mailbox[u] = NoReply
    /\ UserGoto(u, "cancel")
    /\ UNCHANGED <<server, office, code, logged, reply>>

(* An end of file: the three reads of readReply return 0, which it takes    *)
(* for a reply, and replyMsg stays as it is.                                *)
ReadNothing(u) ==
    /\ upc[u] = "read" /\ mailbox[u] = NoReply
    /\ ~Serving(u, {"waitReader", "write", "close"})
    /\ UserGoto(u, "cancel")
    /\ UNCHANGED <<server, office, code, logged, reply>>

(* alarm(0), and both files are closed. *)
CancelAlarm(u) ==
    /\ upc[u] = "cancel" /\ UserGoto(u, "log")
    /\ sent' = SentAfter(u)
    /\ UNCHANGED <<process, gate, pending, office, code, logged, reply>>

(* Mutation of Alarm: the alarm is set only after the open(). *)
Alarm_Late(u) ==
    /\ upc[u] \in {"read", "cancel"} /\ UserGoto(u, "log")
    /\ code' = [code EXCEPT ![u] = "SRV_TIMEOUT"] /\ sent' = SentAfter(u)
    /\ UNCHANGED <<process, gate, pending, office, logged, reply>>

(* alarmHandler, up to the closing of the files.  The alarm is on until     *)
(* alarm(0), also when the reply is there.                                  *)
Alarm(u) ==
    /\ upc[u] \in {"openReply", "read", "cancel"} /\ UserGoto(u, "log")
    /\ code' = [code EXCEPT ![u] = "SRV_TIMEOUT"] /\ sent' = SentAfter(u)
    /\ UNCHANGED <<process, gate, pending, office, logged, reply>>

(* logReply and unlink, in main as in alarmHandler. *)
Leave(u) ==
    /\ upc[u] = "log" /\ UserGoto(u, "ended")
    /\ logged' = [logged EXCEPT ![u] = code[u]]
    /\ UNCHANGED <<server, office, code, reply>>

MainRuns == OpenFifo \/ OpenDummy \/ ReadRequest \/ ReadEof \/ End

OfficeRuns(o) ==
    \/ Fetch(o) \/ Handle(o) \/ Shutdown(o) \/ ShutdownAgain(o)
    \/ LookUpUser(o) \/ MeetUser(o) \/ WriteReply(o) \/ BrokenPipe(o) \/ CloseUser(o)

UserRuns(u) ==
    \/ LookUpServer(u) \/ OpenServer(u) \/ Send(u) \/ SendFails(u) \/ OpenReply(u)
    \/ ReadReply(u) \/ ReadNothing(u) \/ CancelAlarm(u) \/ Leave(u)

Next ==
    \/ Start \/ MainRuns
    \/ \E o \in Offices : OfficeRuns(o)
    \/ \E u \in Users : Begin(u) \/ UserRuns(u) \/ Alarm(u)

Spec == Init /\ [][Next]_vars

(* Processes and threads that can go on do, and the alarm goes off.         *)
(* Whether a user, or a new server, starts at all is up to people.          *)
Fairness ==
    /\ WF_vars(MainRuns)
    /\ \A o \in Offices : WF_vars(OfficeRuns(o))
    /\ \A u \in Users : WF_vars(UserRuns(u)) /\ WF_vars(Alarm(u))

FairSpec == Spec /\ Fairness

-----------------------------------------------------------------------------
(* Properties.                                                             *)

Answers == {"OK", "REFUSED"}
ReturnCodes == Answers \cup {"SRV_DOWN", "SRV_TIMEOUT"}

(* Every variable keeps its type, and an office that works has a user. *)
TypeOK ==
    /\ main \in {"down", "opening", "dummy", "reading", "joining", "ended"}
    /\ restarts \in 0 .. MaxRestarts
    /\ dummyOpen \in BOOLEAN /\ called \in BOOLEAN /\ late \subseteq Users
    /\ fifo \in {"absent", "writable", "readOnly"}
    /\ sent \in Seq(Users) /\ pending \in Seq(Users)
    /\ opc \in [Offices -> {"idle", "handle", "open", "waitReader", "write", "close"}]
    /\ client \in [Offices -> Users \cup {NoUser}]
    /\ \A o \in Offices : client[o] = NoUser <=> opc[o] = "idle"
    /\ answer \in [Offices -> Answers \cup {NoReply}]
    /\ upc \in [Users -> {"start", "lookUp", "openServer", "send", "openReply", "read",
                          "cancel", "log", "ended", "dead"}]
    /\ code \in [Users -> ReturnCodes] /\ logged \in [Users -> ReturnCodes \cup {NoReply}]
    /\ met \in [Users -> BOOLEAN]
    /\ mailbox \in [Users -> Answers \cup {NoReply}]
    /\ decision \in [Users -> Answers \cup {NoReply}]

(* The server has died at least once. *)
Died == restarts > 0 \/ (main = "down" /\ fifo # "absent")

(* Unless the server dies, the answer that a user logs is the one the       *)
(* server gave to its request: a user never takes an end of file for one.   *)
TrueAnswers ==
    Died \/ \A u \in Users : logged[u] \in Answers => logged[u] = decision[u]

(* The request of u has been written. *)
HasSent(u) ==
    \/ upc[u] \in {"openReply", "read", "cancel"}
    \/ upc[u] \in {"log", "ended"} /\ code[u] # "SRV_DOWN"

(* The server ends in order only when every request written to its FIFO has *)
(* been carried out, whenever it was written and whether its user is still  *)
(* there or not: one that comes after the shutdown request is not lost.     *)
(* Excepted are the users that came too late to be seen.                    *)
OrderlyEnd ==
    main = "ended" /\ ~Died =>
        \A u \in Users \ late : HasSent(u) => decision[u] # NoReply

(* An office waits at the FIFO of a user that is gone for good. *)
Stuck ==
    \E o \in Offices :
        opc[o] = "waitReader" /\ upc[client[o]] \in {"log", "ended"} /\ ~met[client[o]]

(* A request that was sent is carried out, whether its user waits for the   *)
(* reply or not, unless the server dies or gets stuck at another user; only *)
(* a user that came too late for it to look again is left without.  A       *)
(* handler is one step here: that it may never end, in a ring of            *)
(* coprocesses, is in Coprocess and RequestQueue.                           *)
RequestCarriedOut ==
    \A u \in Users :
        upc[u] = "openReply" ~> (decision[u] # NoReply \/ u \in late \/ Died \/ Stuck)

(* A user that has sent its request ends in any case, with the server       *)
(* dead, stuck or started again: nothing before alarm(0) waits for longer   *)
(* than the alarm.                                                          *)
UserEnds == \A u \in Users : upc[u] = "openReply" ~> upc[u] = "ended"

(* A user that comes after an accepted shutdown learns that the server is   *)
(* down, instead of waiting for an answer.                                  *)
LateUsersAreTold ==
    \A u \in Users :
        (main \in {"reading", "joining", "ended"} /\ ~dummyOpen /\ upc[u] = "lookUp")
            ~> logged[u] = "SRV_DOWN"

(* A user that does not wait for its answer does not bring down the server. *)
ServerSurvivesUsers == ~Died

(* A server that ends in order does not have users killed: a write that     *)
(* finds no server any more is to be taken for SRV_DOWN.                    *)
UserSurvivesServer == Died \/ \A u \in Users : upc[u] # "dead"

(* A user logs OK only for a request that the server carried out. *)
OkIsTrue == \A u \in Users : logged[u] = "OK" => decision[u] = "OK"

(* A user gets past the open of the server FIFO, or is told that it cannot. *)
OpenEnds == \A u \in Users : upc[u] = "lookUp" ~> upc[u] \notin {"lookUp", "openServer"}

=============================================================================
