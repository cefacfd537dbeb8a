---------------------------- MODULE Session_proofs ----------------------------
(***************************************************************************)
(* The session protocol for any number of users, offices and restarts of   *)
(* the server.  A request is followed from the write to its decision: it   *)
(* is in one place at a time (Once), nobody decides it twice (Decided), an *)
(* answer is read only if it was given (Served), and the server ends only  *)
(* behind the last request (Delivered).                                    *)
(***************************************************************************)
EXTENDS Session, SequenceTheorems, TLAPS

In(u, s) == \E i \in 1 .. Len(s) : s[i] = u
NoDup(s) == \A i, j \in 1 .. Len(s) : s[i] = s[j] => i = j

(* A user that was killed by SIGPIPE has sent nothing. *)
Unsent == {"start", "lookUp", "openServer", "send", "dead"}

Absent(u) == ~In(u, sent) /\ ~In(u, pending) /\ \A o \in Offices : client[o] # u

(* A request is in one place at a time, and nowhere before it is sent. *)
Once ==
    /\ NoDup(sent) /\ NoDup(pending)
    /\ \A u \in Users : In(u, sent) => ~In(u, pending) /\ \A o \in Offices : client[o] # u
    /\ \A u \in Users : In(u, pending) => \A o \in Offices : client[o] # u
    /\ \A o, p \in Offices : client[o] = client[p] /\ client[o] # NoUser => o = p
    /\ \A u \in Users : upc[u] \in Unsent =>
         Absent(u) /\ decision[u] = NoReply /\ mailbox[u] = NoReply /\ ~met[u]

(* A request is decided once, and the reply says so. *)
Decided ==
    /\ \A u \in Users : In(u, sent) \/ In(u, pending) => decision[u] = NoReply
    /\ \A o \in Offices : opc[o] = "handle" => decision[client[o]] = NoReply
    /\ \A o \in Offices : opc[o] \in {"open", "waitReader", "write", "close"} =>
         answer[o] \in Answers /\ decision[client[o]] = answer[o]
    /\ \A u \in Users : mailbox[u] # NoReply => mailbox[u] = decision[u]

(* Requests are served by a server that has its FIFO. *)
Opened ==
    /\ \A o \in Offices : opc[o] # "idle" => main \in {"reading", "joining"}
    /\ pending # <<>> => main \in {"reading", "joining"}
    /\ main \in {"opening", "dummy", "reading", "joining"} => fifo # "absent"
    /\ main = "ended" => fifo = "absent"

(* Unless the server dies, a user that has its FIFO open and no reply yet   *)
(* has an office at the other end, and the code it ends with is the answer. *)
Served ==
    \A u \in Users :
        /\ upc[u] \in {"openReply", "read"} /\ met[u] /\ mailbox[u] = NoReply =>
             Serving(u, {"waitReader", "write"})
        /\ upc[u] = "read" => met[u]
        /\ upc[u] \in {"cancel", "log", "ended"} /\ code[u] \in Answers => code[u] = decision[u]
        /\ logged[u] # NoReply => upc[u] = "ended" /\ logged[u] = code[u]

(* Unless the server dies, a request is on its way until it is decided, and *)
(* a server that has seen the end of its FIFO has only late users.          *)
Delivered ==
    /\ \A u \in Users \ late : HasSent(u) =>
         decision[u] # NoReply \/ In(u, sent) \/ In(u, pending) \/ Serving(u, {"handle"})
    /\ main \in {"joining", "ended"} =>
         Writers \subseteq late /\ \A u \in Users : In(u, sent) => u \in late
    /\ main = "down" => \A u \in Users : ~HasSent(u) /\ upc[u] \notin {"openServer", "send"}

Inv == TypeOK /\ Once /\ Decided /\ Opened /\ (Died \/ Served) /\ (Died \/ Delivered)

-----------------------------------------------------------------------------
(* Sequences.                                                              *)

LEMMA InEmpty == \A u : ~In(u, <<>>)
  BY DEF In

LEMMA InAppend ==
  ASSUME NEW s \in Seq(Users), NEW u \in Users, NEW v
  PROVE  In(v, Append(s, u)) <=> In(v, s) \/ v = u
<1>1. /\ Len(Append(s, u)) = Len(s) + 1 /\ Append(s, u)[Len(s) + 1] = u
      /\ \A i \in 1 .. Len(s) : Append(s, u)[i] = s[i]
      /\ Len(s) \in Nat
  BY AppendProperties, LenProperties
<1>2. In(v, s) => In(v, Append(s, u))
  BY <1>1 DEF In
<1>3. v = u => In(v, Append(s, u))
  BY <1>1 DEF In
<1>4. In(v, Append(s, u)) => In(v, s) \/ v = u
  <2> SUFFICES ASSUME NEW i \in 1 .. Len(Append(s, u)), Append(s, u)[i] = v PROVE In(v, s) \/ v = u
    BY DEF In
  <2>1. i \in 1 .. Len(s) \/ i = Len(s) + 1
    BY <1>1
  <2> QED
    BY <1>1, <2>1 DEF In
<1> QED
  BY <1>2, <1>3, <1>4

LEMMA NoDupAppend ==
  ASSUME NEW s \in Seq(Users), NEW u \in Users, NoDup(s), ~In(u, s)
  PROVE  NoDup(Append(s, u))
<1>1. /\ Len(Append(s, u)) = Len(s) + 1 /\ Append(s, u)[Len(s) + 1] = u
      /\ \A i \in 1 .. Len(s) : Append(s, u)[i] = s[i]
      /\ Len(s) \in Nat
  BY AppendProperties, LenProperties
<1> SUFFICES ASSUME NEW i \in 1 .. Len(s) + 1, NEW j \in 1 .. Len(s) + 1,
                    Append(s, u)[i] = Append(s, u)[j]
             PROVE  i = j
  BY <1>1 DEF NoDup
<1>2. (i \in 1 .. Len(s) \/ i = Len(s) + 1) /\ (j \in 1 .. Len(s) \/ j = Len(s) + 1)
  BY <1>1
<1> QED
  BY <1>1, <1>2 DEF NoDup, In

LEMMA InTail ==
  ASSUME NEW s \in Seq(Users), s # <<>>
  PROVE  /\ Head(s) \in Users /\ Tail(s) \in Seq(Users)
         /\ \A v : In(v, s) <=> In(v, Tail(s)) \/ v = Head(s)
         /\ NoDup(s) => NoDup(Tail(s)) /\ ~In(Head(s), Tail(s))
<1>1. /\ Head(s) \in Users /\ Head(s) = s[1] /\ Tail(s) \in Seq(Users)
      /\ Len(s) \in Nat \ {0} /\ Len(Tail(s)) = Len(s) - 1
      /\ \A i \in 1 .. Len(Tail(s)) : Tail(s)[i] = s[i + 1]
  BY HeadTailProperties, EmptySeq, LenProperties
<1>2. ASSUME NEW v, In(v, s) PROVE In(v, Tail(s)) \/ v = Head(s)
  <2>1. PICK i \in 1 .. Len(s) : s[i] = v
    BY <1>2 DEF In
  <2>2. CASE i = 1
    BY <1>1, <2>1, <2>2
  <2>3. CASE i # 1
    <3>1. i - 1 \in 1 .. Len(Tail(s)) /\ Tail(s)[i - 1] = v
      BY <1>1, <2>1, <2>3
    <3> QED
      BY <3>1 DEF In
  <2> QED
    BY <2>2, <2>3
<1>3. ASSUME NEW v, In(v, Tail(s)) \/ v = Head(s) PROVE In(v, s)
  <2>1. CASE v = Head(s)
    BY <1>1, <2>1 DEF In
  <2>2. CASE In(v, Tail(s))
    <3>1. PICK i \in 1 .. Len(Tail(s)) : Tail(s)[i] = v
      BY <2>2 DEF In
    <3>2. i + 1 \in 1 .. Len(s) /\ s[i + 1] = v
      BY <1>1, <3>1
    <3> QED
      BY <3>2 DEF In
  <2> QED
    BY <1>3, <2>1, <2>2
<1>4. ASSUME NoDup(s) PROVE NoDup(Tail(s))
  <2> SUFFICES ASSUME NEW i \in 1 .. Len(Tail(s)), NEW j \in 1 .. Len(Tail(s)), Tail(s)[i] = Tail(s)[j]
               PROVE  i = j
    BY DEF NoDup
  <2>1. i + 1 \in 1 .. Len(s) /\ j + 1 \in 1 .. Len(s) /\ s[i + 1] = s[j + 1]
    BY <1>1
  <2>2. i + 1 = j + 1
    BY <1>4, <2>1 DEF NoDup
  <2> QED
    BY <1>1, <2>2
<1>5. ASSUME NoDup(s), In(Head(s), Tail(s)) PROVE FALSE
  <2>1. PICK i \in 1 .. Len(Tail(s)) : Tail(s)[i] = Head(s)
    BY <1>5 DEF In
  <2>2. i + 1 \in 1 .. Len(s) /\ 1 \in 1 .. Len(s) /\ s[i + 1] = s[1]
    BY <1>1, <2>1
  <2>3. i + 1 = 1
    BY <1>5, <2>2 DEF NoDup
  <2> QED
    BY <1>1, <2>1, <2>3
<1> QED
  BY <1>1, <1>2, <1>3, <1>4, <1>5

-----------------------------------------------------------------------------
(* Types.                                                                  *)

LEMMA TypeInit == Init => TypeOK
<1> SUFFICES ASSUME Init PROVE TypeOK
  OBVIOUS
<1>0. restarts \in 0 .. MaxRestarts
  <2>1. restarts = 0 /\ MaxRestarts \in Nat
    BY SessionAssumption DEF Init
  <2> QED
    BY <2>1
<1>1. /\ main \in {"down", "opening", "dummy", "reading", "joining", "ended"}
      /\ dummyOpen \in BOOLEAN /\ called \in BOOLEAN /\ late \subseteq Users
      /\ fifo \in {"absent", "writable", "readOnly"}
  BY DEF Init
<1>2. sent \in Seq(Users) /\ pending \in Seq(Users)
  BY EmptySeq DEF Init
<1>3. /\ opc \in [Offices -> {"idle", "handle", "open", "waitReader", "write", "close"}]
      /\ client \in [Offices -> Users \cup {NoUser}]
      /\ \A o \in Offices : client[o] = NoUser <=> opc[o] = "idle"
      /\ answer \in [Offices -> Answers \cup {NoReply}]
  BY DEF Init
<1>4. /\ upc \in [Users -> {"start", "lookUp", "openServer", "send", "openReply", "read",
                           "cancel", "log", "ended", "dead"}]
      /\ code \in [Users -> ReturnCodes] /\ logged \in [Users -> ReturnCodes \cup {NoReply}]
      /\ met \in [Users -> BOOLEAN]
      /\ mailbox \in [Users -> Answers \cup {NoReply}]
      /\ decision \in [Users -> Answers \cup {NoReply}]
  BY DEF Init, ReturnCodes, Answers
<1> QED
  BY <1>0, <1>1, <1>2, <1>3, <1>4 DEF TypeOK

LEMMA TypeMain == TypeOK /\ (Start \/ MainRuns) => TypeOK'
<1> SUFFICES ASSUME TypeOK, Start \/ MainRuns PROVE TypeOK'
  OBVIOUS
<1> USE SessionAssumption DEF TypeOK
<1>1. CASE Start
  <2>1. restarts' \in 0 .. MaxRestarts
    BY <1>1 DEF Start
  <2>2. fifo' \in {"absent", "writable", "readOnly"} /\ main' = "opening" /\ called' = FALSE
    BY <1>1 DEF Start
  <2>3. UNCHANGED <<dummyOpen, late, sent, pending, opc, client, answer, upc, code, logged,
                    met, mailbox, decision>>
    BY <1>1 DEF Start, office, user, reply
  <2> QED
    BY <2>1, <2>2, <2>3
<1>2. CASE OpenFifo
  BY <1>2 DEF OpenFifo, gate, office, user, reply, process
<1>3. CASE OpenDummy
  BY <1>3 DEF OpenDummy, gate, office, user, reply, process
<1>4. CASE ReadRequest
  BY <1>4, InTail, AppendProperties DEF ReadRequest, gate, office, user, reply, process
<1>5. CASE ReadEof
  BY <1>5 DEF ReadEof, gate, office, user, reply, process
<1>6. CASE End
  BY <1>6 DEF End, gate, office, user, reply, process
<1> QED
  BY <1>1, <1>2, <1>3, <1>4, <1>5, <1>6 DEF MainRuns

LEMMA TypeOffice ==
  ASSUME TypeOK, NEW o \in Offices, OfficeRuns(o)
  PROVE  TypeOK'
<1> USE SessionAssumption DEF TypeOK
<1>0. opc[o] # "idle" => client[o] \in Users
  OBVIOUS
<1>1. CASE Fetch(o)
  BY <1>0, <1>1, InTail DEF Fetch, Answers, OfficeGoto, gate, office, user, reply, process, server
<1>2. CASE Handle(o)
  BY <1>0, <1>2 DEF Handle, Decide, Answers, OfficeGoto, gate, office, user, reply, process, server
<1>3. CASE Shutdown(o)
  BY <1>0, <1>3 DEF Shutdown, Decide, Answers, OfficeGoto, gate, office, user, reply, process, server
<1>4. CASE ShutdownAgain(o)
  BY <1>0, <1>4, EmptySeq DEF ShutdownAgain, Die, Answers, OfficeGoto, gate, office, user, reply, process, server
<1>5. CASE LookUpUser(o)
  BY <1>0, <1>5 DEF LookUpUser, Finish, Answers, OfficeGoto, gate, office, user, reply, process, server
<1>6. CASE MeetUser(o)
  BY <1>0, <1>6 DEF MeetUser, Answers, OfficeGoto, gate, office, user, reply, process, server
<1>7. CASE WriteReply(o)
  BY <1>0, <1>7 DEF WriteReply, Answers, OfficeGoto, gate, office, user, reply, process, server
<1>8. CASE BrokenPipe(o)
  BY <1>0, <1>8, EmptySeq DEF BrokenPipe, Die, Answers, OfficeGoto, gate, office, user, reply, process, server
<1>9. CASE CloseUser(o)
  BY <1>0, <1>9 DEF CloseUser, Finish, Answers, OfficeGoto, gate, office, user, reply, process, server
<1> QED
  BY <1>1, <1>2, <1>3, <1>4, <1>5, <1>6, <1>7, <1>8, <1>9 DEF OfficeRuns

LEMMA TypeUser ==
  ASSUME TypeOK, NEW u \in Users, Begin(u) \/ UserRuns(u) \/ Alarm(u)
  PROVE  TypeOK'
<1> USE SessionAssumption DEF TypeOK
<1>1. CASE Begin(u)
  BY <1>1 DEF Begin, UserGoto, ReturnCodes, Answers, gate, office, user, reply, process, server
<1>2. CASE LookUpServer(u)
  BY <1>2 DEF LookUpServer, UserGoto, ReturnCodes, Answers, gate, office, user, reply, process, server
<1>3. CASE OpenServer(u)
  BY <1>3 DEF OpenServer, UserGoto, ReturnCodes, Answers, gate, office, user, reply, process, server
<1>4. CASE Send(u)
  BY <1>4, AppendProperties DEF Send, UserGoto, ReturnCodes, Answers, gate, office, user, reply, process, server
<1>5. CASE SendFails(u)
  BY <1>5, EmptySeq DEF SendFails, SentAfter, UserGoto, ReturnCodes, Answers, gate, office, user, reply, process, server
<1>6. CASE OpenReply(u)
  BY <1>6 DEF OpenReply, UserGoto, ReturnCodes, Answers, gate, office, user, reply, process, server
<1>7. CASE ReadReply(u)
  BY <1>7 DEF ReadReply, UserGoto, ReturnCodes, Answers, gate, office, user, reply, process, server
<1>8. CASE ReadNothing(u)
  BY <1>8 DEF ReadNothing, UserGoto, ReturnCodes, Answers, gate, office, user, reply, process, server
<1>9. CASE CancelAlarm(u)
  BY <1>9, EmptySeq DEF CancelAlarm, SentAfter, UserGoto, ReturnCodes, Answers, gate, office, user, reply, process, server
<1>10. CASE Alarm(u)
  BY <1>10, EmptySeq DEF Alarm, SentAfter, UserGoto, ReturnCodes, Answers, gate, office, user, reply, process, server
<1>11. CASE Leave(u)
  BY <1>11 DEF Leave, UserGoto, ReturnCodes, Answers, gate, office, user, reply, process, server
<1> QED
  BY <1>1, <1>2, <1>3, <1>4, <1>5, <1>6, <1>7, <1>8, <1>9, <1>10, <1>11 DEF UserRuns

-----------------------------------------------------------------------------
(* A request is in one place at a time.                                    *)

LEMMA OnceMain == TypeOK /\ Once /\ (Start \/ MainRuns) => Once'
<1> SUFFICES ASSUME TypeOK, Once, Start \/ MainRuns PROVE Once'
  OBVIOUS
<1> USE DEF gate, office, user, reply, process
<1>1. CASE UNCHANGED <<sent, pending, client, upc, decision, mailbox, met>>
  BY <1>1 DEF Once, Absent
<1>2. CASE ReadRequest
  <2>1. /\ sent \in Seq(Users) /\ sent # <<>> /\ pending \in Seq(Users)
        /\ UNCHANGED <<client, upc, decision, mailbox, met>>
        /\ sent' = Tail(sent) /\ pending' = Append(pending, Head(sent))
    BY <1>2 DEF ReadRequest, TypeOK
  <2>2. Head(sent) \in Users /\ In(Head(sent), sent) /\ NoDup(sent') /\ ~In(Head(sent), sent')
    BY <2>1, InTail DEF Once
  <2>3. \A u : (In(u, sent) <=> In(u, sent') \/ u = Head(sent))
    BY <2>1, InTail
  <2>4. \A u : (In(u, pending') <=> In(u, pending) \/ u = Head(sent))
    BY <2>1, <2>2, InAppend
  <2>5. NoDup(pending')
    BY <2>1, <2>2, NoDupAppend DEF Once
  <2> QED
    BY <2>1, <2>2, <2>3, <2>4, <2>5 DEF Once, Absent
<1> QED
  BY <1>1, <1>2 DEF MainRuns, Start, OpenFifo, OpenDummy, ReadEof, End

LEMMA OnceDie == TypeOK /\ Once /\ Die => Once'
<1> SUFFICES ASSUME TypeOK, Once, Die PROVE Once'
  OBVIOUS
<1>1. /\ sent' = sent \/ sent' = <<>>
      /\ pending' = <<>> /\ \A o \in Offices : client'[o] = NoUser
      /\ UNCHANGED <<upc, decision, mailbox, met>>
  BY DEF Die, user, reply
<1>2. NoDup(<<>>) /\ \A v : ~In(v, <<>>)
  BY InEmpty DEF NoDup
<1> QED
  BY <1>1, <1>2, SessionAssumption DEF Once, Absent

LEMMA OnceOffice ==
  ASSUME TypeOK, Once, NEW o \in Offices, OfficeRuns(o)
  PROVE  Once'
<1> USE SessionAssumption DEF OfficeGoto, gate, office, user, reply, process, server
<1>0. /\ opc[o] # "idle" => client[o] \in Users /\ upc[client[o]] \notin Unsent
      /\ client \in [Offices -> Users \cup {NoUser}]
      /\ decision \in [Users -> Answers \cup {NoReply}]
      /\ mailbox \in [Users -> Answers \cup {NoReply}] /\ met \in [Users -> BOOLEAN]
      /\ pending \in Seq(Users)
  BY DEF TypeOK, Once, Absent
<1>1. CASE Fetch(o)
  <2>1. /\ pending # <<>> /\ client' = [client EXCEPT ![o] = Head(pending)] /\ pending' = Tail(pending)
        /\ client[o] = NoUser /\ UNCHANGED <<sent, upc, decision, mailbox, met>>
    BY <1>1 DEF Fetch, TypeOK
  <2>2. /\ Head(pending) \in Users /\ In(Head(pending), pending)
        /\ NoDup(pending') /\ ~In(Head(pending), pending')
    BY <1>0, <2>1, InTail DEF Once
  <2>3. \A u : (In(u, pending) <=> In(u, pending') \/ u = Head(pending))
    BY <1>0, <2>1, InTail
  <2> QED
    BY <1>0, <2>1, <2>2, <2>3 DEF Once, Absent
<1>2. CASE Handle(o) \/ Shutdown(o)
  <2>1. PICK c \in {"OK", "REFUSED"} : Decide(o, c)
    BY <1>2 DEF Handle, Shutdown
  <2>2. /\ opc[o] # "idle" /\ UNCHANGED <<sent, pending, client, upc, mailbox, met>>
        /\ \A u \in Users : u # client[o] => decision'[u] = decision[u]
    BY <1>0, <1>2, <2>1 DEF Decide, Handle, Shutdown
  <2> QED
    BY <1>0, <2>2 DEF Once, Absent
<1>3. CASE Finish(o) /\ UNCHANGED <<sent, pending, upc, decision, mailbox, met>>
  <2>1. \A p \in Offices : client'[p] = IF p = o THEN NoUser ELSE client[p]
    BY <1>0, <1>3 DEF Finish
  <2> QED
    BY <1>3, <2>1 DEF Once, Absent
<1>4. CASE MeetUser(o)
  <2>1. /\ opc[o] # "idle" /\ UNCHANGED <<sent, pending, client, upc, mailbox, decision>>
        /\ \A u \in Users : u # client[o] => met'[u] = met[u]
    BY <1>0, <1>4 DEF MeetUser
  <2> QED
    BY <1>0, <2>1 DEF Once, Absent
<1>5. CASE WriteReply(o)
  <2>1. /\ opc[o] # "idle" /\ UNCHANGED <<sent, pending, client, upc, met, decision>>
        /\ \A u \in Users : u # client[o] => mailbox'[u] = mailbox[u]
    BY <1>0, <1>5 DEF WriteReply
  <2> QED
    BY <1>0, <2>1 DEF Once, Absent
<1>6. CASE Die
  BY <1>6, OnceDie
<1>7. CASE LookUpUser(o)
  <2>1. CASE HasFifo(client[o])
    BY <1>7, <2>1 DEF LookUpUser, Once, Absent
  <2>2. CASE ~HasFifo(client[o])
    BY <1>3, <1>7, <2>2 DEF LookUpUser
  <2> QED
    BY <2>1, <2>2
<1>8. CASE CloseUser(o)
  BY <1>3, <1>8 DEF CloseUser
<1> QED
  BY <1>1, <1>2, <1>4, <1>5, <1>6, <1>7, <1>8 DEF OfficeRuns, ShutdownAgain, BrokenPipe

LEMMA OnceUser ==
  ASSUME TypeOK, Once, NEW u \in Users, Begin(u) \/ UserRuns(u) \/ Alarm(u)
  PROVE  Once'
<1> USE DEF UserGoto, gate, office, user, reply, process, server
<1>0. upc \in [Users -> {"start", "lookUp", "openServer", "send", "openReply", "read",
                         "cancel", "log", "ended", "dead"}]
      /\ met \in [Users -> BOOLEAN] /\ sent \in Seq(Users)
  BY DEF TypeOK
<1>1. ASSUME UNCHANGED <<pending, client, decision, mailbox>>,
             \A v \in Users : upc'[v] \in Unsent => upc[v] \in Unsent /\ met'[v] = met[v],
             sent' = sent \/ sent' = <<>>
      PROVE  Once'
  <2>1. NoDup(<<>>) /\ \A v : ~In(v, <<>>)
    BY InEmpty DEF NoDup
  <2>2. NoDup(sent') /\ \A v : In(v, sent') => In(v, sent)
    BY <1>1, <2>1 DEF Once
  <2> QED
    BY <1>1, <2>2 DEF Once, Absent
<1>2. CASE Begin(u) \/ LookUpServer(u) \/ OpenServer(u)
  <2>1. /\ UNCHANGED <<pending, client, decision, mailbox, met, sent>> /\ upc[u] \in Unsent
        /\ \A v \in Users : v # u => upc'[v] = upc[v]
    BY <1>0, <1>2 DEF Begin, LookUpServer, OpenServer, Unsent
  <2> QED
    BY <1>1, <2>1
<1>3. CASE Send(u)
  <2>1. /\ UNCHANGED <<pending, client, decision, mailbox, met>> /\ upc[u] \in Unsent
        /\ upc'[u] \notin Unsent /\ \A v \in Users : v # u => upc'[v] = upc[v]
        /\ sent' = Append(sent, u)
    BY <1>0, <1>3 DEF Send, Unsent
  <2>2. \A v : In(v, sent') <=> In(v, sent) \/ v = u
    BY <1>0, <2>1, InAppend
  <2>3. NoDup(sent')
    BY <1>0, <2>1, NoDupAppend DEF Once, Absent
  <2> QED
    BY <2>1, <2>2, <2>3 DEF Once, Absent
<1>4. CASE SendFails(u) \/ CancelAlarm(u) \/ Alarm(u)
  <2>1. /\ UNCHANGED <<pending, client, decision, mailbox, met>>
        /\ upc'[u] \in Unsent => upc[u] \in Unsent
        /\ \A v \in Users : v # u => upc'[v] = upc[v]
        /\ sent' = sent \/ sent' = <<>>
    BY <1>0, <1>4 DEF SendFails, CancelAlarm, Alarm, SentAfter, Unsent
  <2> QED
    BY <1>1, <2>1
<1>5. CASE OpenReply(u) \/ ReadReply(u) \/ ReadNothing(u) \/ Leave(u)
  <2>1. /\ UNCHANGED <<pending, client, decision, mailbox, sent>> /\ upc'[u] \notin Unsent
        /\ \A v \in Users : v # u => upc'[v] = upc[v] /\ met'[v] = met[v]
    BY <1>0, <1>5 DEF OpenReply, ReadReply, ReadNothing, Leave, Unsent
  <2> QED
    BY <1>1, <2>1
<1> QED
  BY <1>2, <1>3, <1>4, <1>5 DEF UserRuns

-----------------------------------------------------------------------------
(* A request is decided once.                                              *)

LEMMA DecidedMain == TypeOK /\ Decided /\ (Start \/ MainRuns) => Decided'
<1> SUFFICES ASSUME TypeOK, Decided, Start \/ MainRuns PROVE Decided'
  OBVIOUS
<1> USE DEF gate, office, user, reply, process
<1>1. CASE UNCHANGED <<sent, pending, opc, client, answer, mailbox, decision>>
  BY <1>1 DEF Decided
<1>2. CASE ReadRequest
  <2>1. /\ sent \in Seq(Users) /\ sent # <<>> /\ pending \in Seq(Users)
        /\ UNCHANGED <<opc, client, answer, mailbox, decision>>
        /\ sent' = Tail(sent) /\ pending' = Append(pending, Head(sent))
    BY <1>2 DEF ReadRequest, TypeOK
  <2>2. Head(sent) \in Users /\ \A u : (In(u, sent) <=> In(u, sent') \/ u = Head(sent))
    BY <2>1, InTail
  <2>3. \A u : (In(u, pending') <=> In(u, pending) \/ u = Head(sent))
    BY <2>1, <2>2, InAppend
  <2> QED
    BY <2>1, <2>2, <2>3 DEF Decided
<1> QED
  BY <1>1, <1>2 DEF MainRuns, Start, OpenFifo, OpenDummy, ReadEof, End

LEMMA DecidedDie == Decided /\ Die => Decided'
<1> SUFFICES ASSUME Decided, Die PROVE Decided'
  OBVIOUS
<1>1. /\ sent' = sent \/ sent' = <<>>
      /\ pending' = <<>> /\ \A o \in Offices : opc'[o] = "idle"
      /\ UNCHANGED <<decision, mailbox>>
  BY DEF Die, user, reply
<1> QED
  BY <1>1, InEmpty DEF Decided

LEMMA DecidedOffice ==
  ASSUME TypeOK, Once, Decided, NEW o \in Offices, OfficeRuns(o)
  PROVE  Decided'
<1> USE SessionAssumption DEF OfficeGoto, gate, office, user, reply, process, server
<1>0. /\ \A p \in Offices : opc[p] # "idle" => client[p] \in Users
      /\ \A p \in Offices : p # o /\ opc[o] # "idle" => client[p] # client[o]
      /\ opc \in [Offices -> {"idle", "handle", "open", "waitReader", "write", "close"}]
      /\ client \in [Offices -> Users \cup {NoUser}]
      /\ answer \in [Offices -> Answers \cup {NoReply}]
      /\ decision \in [Users -> Answers \cup {NoReply}]
      /\ mailbox \in [Users -> Answers \cup {NoReply}]
      /\ pending \in Seq(Users)
  BY DEF TypeOK, Once
<1>1. CASE Fetch(o)
  <2>1. /\ pending # <<>> /\ client' = [client EXCEPT ![o] = Head(pending)] /\ pending' = Tail(pending)
        /\ opc' = [opc EXCEPT ![o] = "handle"]
        /\ UNCHANGED <<sent, answer, mailbox, decision>>
    BY <1>1 DEF Fetch
  <2>2. /\ Head(pending) \in Users
        /\ \A u : (In(u, pending) <=> In(u, pending') \/ u = Head(pending))
    BY <1>0, <2>1, InTail
  <2>3. decision[Head(pending)] = NoReply
    BY <2>2 DEF Decided
  <2> QED
    BY <1>0, <2>1, <2>2, <2>3 DEF Decided
<1>2. CASE Handle(o) \/ Shutdown(o)
  <2>1. PICK c \in {"OK", "REFUSED"} : Decide(o, c)
    BY <1>2 DEF Handle, Shutdown
  <2>2. /\ opc[o] = "handle" /\ UNCHANGED <<sent, pending, client, mailbox>>
        /\ opc' = [opc EXCEPT ![o] = "open"] /\ answer' = [answer EXCEPT ![o] = c]
        /\ decision' = [decision EXCEPT ![client[o]] = c]
    BY <2>1 DEF Decide
  <2>3. client[o] \in Users /\ ~In(client[o], sent) /\ ~In(client[o], pending)
    BY <1>0, <2>2 DEF Once
  <2>4. mailbox[client[o]] = NoReply
    BY <1>0, <2>2, <2>3 DEF Decided
  <2>5. /\ opc'[o] = "open" /\ answer'[o] \in Answers /\ answer'[o] = decision'[client[o]]
        /\ \A p \in Offices : p # o => opc'[p] = opc[p] /\ answer'[p] = answer[p]
        /\ \A u \in Users : u # client[o] => decision'[u] = decision[u]
    BY <1>0, <2>2, <2>3 DEF Answers
  <2>6. \A u \in Users : In(u, sent') \/ In(u, pending') => decision'[u] = NoReply
    BY <2>2, <2>3, <2>5 DEF Decided
  <2>7. \A p \in Offices : opc'[p] = "handle" => decision'[client'[p]] = NoReply
    BY <1>0, <2>2, <2>5 DEF Decided
  <2>8. \A p \in Offices : opc'[p] \in {"open", "waitReader", "write", "close"} =>
          answer'[p] \in Answers /\ decision'[client'[p]] = answer'[p]
    BY <1>0, <2>2, <2>5 DEF Decided
  <2>9. \A u \in Users : mailbox'[u] # NoReply => mailbox'[u] = decision'[u]
    BY <2>2, <2>4, <2>5 DEF Decided
  <2> QED
    BY <2>6, <2>7, <2>8, <2>9 DEF Decided
<1>3. CASE Finish(o) /\ UNCHANGED <<sent, pending, decision, mailbox>>
  <2>1. /\ opc'[o] = "idle"
        /\ \A p \in Offices : p # o => opc'[p] = opc[p] /\ client'[p] = client[p] /\ answer'[p] = answer[p]
    BY <1>0, <1>3 DEF Finish
  <2> QED
    BY <1>3, <2>1 DEF Decided
<1>4. ASSUME UNCHANGED <<sent, pending, client, answer, mailbox, decision>>,
             NEW label \in {"waitReader", "write"},
             opc' = [opc EXCEPT ![o] = label], opc[o] \in {"open", "waitReader"}
      PROVE  Decided'
  BY <1>0, <1>4 DEF Decided
<1>5. CASE WriteReply(o)
  <2>1. /\ opc[o] = "write" /\ UNCHANGED <<sent, pending, client, answer, decision>>
        /\ opc' = [opc EXCEPT ![o] = "close"]
        /\ mailbox' = [mailbox EXCEPT ![client[o]] = answer[o]]
    BY <1>5 DEF WriteReply
  <2> QED
    BY <1>0, <2>1 DEF Decided
<1>6. CASE Die
  BY <1>6, DecidedDie
<1>7. CASE LookUpUser(o)
  <2>1. CASE HasFifo(client[o])
    BY <1>4, <1>7, <2>1 DEF LookUpUser
  <2>2. CASE ~HasFifo(client[o])
    BY <1>3, <1>7, <2>2 DEF LookUpUser
  <2> QED
    BY <2>1, <2>2
<1>8. CASE MeetUser(o)
  BY <1>4, <1>8 DEF MeetUser
<1>9. CASE CloseUser(o)
  BY <1>3, <1>9 DEF CloseUser
<1> QED
  BY <1>1, <1>2, <1>5, <1>6, <1>7, <1>8, <1>9 DEF OfficeRuns, ShutdownAgain, BrokenPipe

LEMMA DecidedUser ==
  ASSUME TypeOK, Once, Decided, NEW u \in Users, Begin(u) \/ UserRuns(u) \/ Alarm(u)
  PROVE  Decided'
<1> USE DEF UserGoto, gate, office, user, reply, process, server
<1>1. UNCHANGED <<pending, opc, client, answer, mailbox, decision>>
  BY DEF Begin, UserRuns, Alarm, LookUpServer, OpenServer, Send, SendFails, OpenReply, ReadReply,
         ReadNothing, CancelAlarm, Leave
<1>2. \A v \in Users : In(v, sent') => In(v, sent) \/ decision[v] = NoReply
  <2>1. CASE Send(u)
    <3>1. sent' = Append(sent, u) /\ sent \in Seq(Users) /\ decision[u] = NoReply
      BY <2>1 DEF Send, TypeOK, Once, Unsent
    <3> QED
      BY <3>1, InAppend
  <2>2. CASE sent' = sent \/ sent' = <<>>
    BY <2>2, InEmpty
  <2> QED
    BY <2>1, <2>2 DEF Begin, UserRuns, Alarm, LookUpServer, OpenServer, SendFails, OpenReply,
                      ReadReply, ReadNothing, CancelAlarm, Leave, SentAfter
<1> QED
  BY <1>1, <1>2 DEF Decided

-----------------------------------------------------------------------------
(* A server that serves has its FIFO, and a server that died is remembered. *)

LEMMA OpenedKept == TypeOK /\ Opened /\ Next => Opened'
<1> SUFFICES ASSUME TypeOK, Opened, Next PROVE Opened'
  OBVIOUS
<1> USE DEF gate, office, user, reply, process, server, OfficeGoto, UserGoto
<1>1. ASSUME Start \/ MainRuns PROVE Opened'
  <2>1. CASE Start
    BY <2>1 DEF Opened, Start
  <2>2. CASE OpenFifo
    BY <2>2 DEF Opened, OpenFifo
  <2>3. CASE OpenDummy
    BY <2>3 DEF Opened, OpenDummy
  <2>4. CASE ReadRequest
    BY <2>4 DEF Opened, ReadRequest
  <2>5. CASE ReadEof
    BY <2>5 DEF Opened, ReadEof
  <2>6. CASE End
    BY <2>6 DEF Opened, End
  <2> QED
    BY <1>1, <2>1, <2>2, <2>3, <2>4, <2>5, <2>6 DEF MainRuns
<1>2. ASSUME NEW o \in Offices, OfficeRuns(o) PROVE Opened'
  <2>1. CASE Die
    BY <2>1 DEF Opened, Die
  <2>2. CASE Fetch(o)
    BY <2>2 DEF Opened, Fetch, TypeOK
  <2>3. ASSUME opc[o] # "idle", UNCHANGED <<main, pending>>, fifo' \in {fifo, "readOnly"},
               \A p \in Offices : p # o => opc'[p] = opc[p]
        PROVE  Opened'
    <3>1. main \in {"reading", "joining"}
      BY <2>3 DEF Opened
    <3> QED
      BY <2>3, <3>1 DEF Opened
  <2>4. \/ Die \/ Fetch(o)
        \/ /\ opc[o] # "idle" /\ UNCHANGED <<main, pending>> /\ fifo' \in {fifo, "readOnly"}
           /\ \A p \in Offices : p # o => opc'[p] = opc[p]
    BY <1>2 DEF OfficeRuns, Handle, Decide, Shutdown, ShutdownAgain, LookUpUser, Finish,
                MeetUser, WriteReply, BrokenPipe, CloseUser, TypeOK
  <2> QED
    BY <2>1, <2>2, <2>3, <2>4
<1>3. ASSUME NEW u \in Users, Begin(u) \/ UserRuns(u) \/ Alarm(u) PROVE Opened'
  <2>1. UNCHANGED <<main, fifo, pending, opc>>
    BY <1>3 DEF Begin, UserRuns, Alarm, LookUpServer, OpenServer, Send, SendFails, OpenReply,
                ReadReply, ReadNothing, CancelAlarm, Leave
  <2> QED
    BY <2>1 DEF Opened
<1> QED
  BY <1>1, <1>2, <1>3 DEF Next

LEMMA DeathIsDied ==
  ASSUME TypeOK, Opened, NEW o \in Offices, opc[o] # "idle", Die
  PROVE  Died'
BY DEF Opened, Died, Die, gate

LEMMA DiedKept == TypeOK /\ Opened /\ Died /\ Next => Died'
<1> SUFFICES ASSUME TypeOK, Opened, Died, Next PROVE Died'
  OBVIOUS
<1> USE DEF gate, office, user, reply, process, server
<1>0. restarts \in Nat
  BY DEF TypeOK
<1>1. CASE UNCHANGED <<main, restarts, fifo>>
  BY <1>1 DEF Died
<1>2. CASE Start
  BY <1>0, <1>2 DEF Died, Start
<1>3. CASE MainRuns
  <2>1. restarts' = restarts /\ main # "down"
    BY <1>3 DEF MainRuns, OpenFifo, OpenDummy, ReadRequest, ReadEof, End
  <2> QED
    BY <2>1 DEF Died
<1>4. ASSUME NEW o \in Offices, OfficeRuns(o) PROVE Died'
  <2>1. CASE opc[o] # "idle" /\ Die
    BY <2>1, DeathIsDied
  <2>2. CASE Fetch(o)
    BY <1>1, <2>2 DEF Fetch
  <2>3. CASE opc[o] # "idle" /\ UNCHANGED <<main, restarts>>
    BY <2>3 DEF Died, Opened
  <2> QED
    BY <1>4, <2>1, <2>2, <2>3
      DEF OfficeRuns, Handle, Decide, Shutdown, ShutdownAgain, LookUpUser, MeetUser,
          WriteReply, BrokenPipe, CloseUser
<1>5. ASSUME NEW u \in Users, Begin(u) \/ UserRuns(u) \/ Alarm(u) PROVE Died'
  BY <1>1, <1>5 DEF Begin, UserRuns, Alarm, LookUpServer, OpenServer, Send, SendFails, OpenReply,
                    ReadReply, ReadNothing, CancelAlarm, Leave
<1> QED
  BY <1>2, <1>3, <1>4, <1>5 DEF Next

-----------------------------------------------------------------------------
(* An answer that is read was given.                                       *)

LEMMA ServedOffice ==
  ASSUME TypeOK, Once, Decided, Served, NEW o \in Offices, OfficeRuns(o), ~Die
  PROVE  Served'
<1> USE SessionAssumption DEF OfficeGoto, gate, office, user, reply, process, server
<1>0. /\ \A p \in Offices : opc[p] # "idle" => client[p] \in Users
      /\ \A p \in Offices : p # o /\ opc[o] # "idle" => client[p] # client[o]
      /\ opc \in [Offices -> {"idle", "handle", "open", "waitReader", "write", "close"}]
      /\ client \in [Offices -> Users \cup {NoUser}]
      /\ answer \in [Offices -> Answers \cup {NoReply}]
      /\ decision \in [Users -> Answers \cup {NoReply}]
      /\ mailbox \in [Users -> Answers \cup {NoReply}] /\ met \in [Users -> BOOLEAN]
  BY DEF TypeOK, Once
<1>1. ASSUME UNCHANGED <<user, met, mailbox>>,
             \A u \in Users : decision[u] # NoReply => decision'[u] = decision[u],
             \A p \in Offices : p # o => opc'[p] = opc[p] /\ client'[p] = client[p],
             opc[o] \notin {"waitReader", "write"}
      PROVE  Served'
  <2>1. \A u \in Users : Serving(u, {"waitReader", "write"}) => Serving(u, {"waitReader", "write"})'
    BY <1>1 DEF Serving
  <2>2. \A u \in Users : code[u] \in Answers /\ code[u] = decision[u] => code[u] = decision'[u]
    BY <1>1 DEF Answers
  <2> QED
    BY <1>1, <2>1, <2>2 DEF Served
<1>2. CASE Fetch(o)
  BY <1>0, <1>1, <1>2 DEF Fetch
<1>3. CASE Handle(o) \/ Shutdown(o)
  <2>1. PICK c \in {"OK", "REFUSED"} : Decide(o, c)
    BY <1>3 DEF Handle, Shutdown
  <2>2. decision[client[o]] = NoReply
    BY <2>1 DEF Decide, Decided
  <2> QED
    BY <1>0, <1>1, <1>3, <2>1, <2>2 DEF Decide, Handle, Shutdown
<1>4. CASE LookUpUser(o)
  BY <1>0, <1>1, <1>4 DEF LookUpUser, Finish
<1>5. CASE MeetUser(o)
  <2>1. /\ opc[o] = "waitReader" /\ client[o] \in Users
        /\ UNCHANGED <<user, client, mailbox, decision>>
        /\ \A u \in Users : u # client[o] => met'[u] = met[u]
        /\ opc'[o] = "write" /\ \A p \in Offices : p # o => opc'[p] = opc[p]
        /\ met'[client[o]]
    BY <1>0, <1>5 DEF MeetUser
  <2>2. \A u \in Users : Serving(u, {"waitReader", "write"}) => Serving(u, {"waitReader", "write"})'
    BY <2>1 DEF Serving
  <2>3. Serving(client[o], {"waitReader", "write"})'
    BY <2>1 DEF Serving
  <2> QED
    BY <2>1, <2>2, <2>3 DEF Served
<1>6. CASE WriteReply(o)
  <2>1. /\ opc[o] = "write" /\ client[o] \in Users
        /\ UNCHANGED <<user, client, met, decision>>
        /\ \A u \in Users : u # client[o] => mailbox'[u] = mailbox[u]
        /\ \A p \in Offices : p # o => opc'[p] = opc[p]
        /\ mailbox'[client[o]] = answer[o]
    BY <1>0, <1>6 DEF WriteReply
  <2>2. mailbox'[client[o]] # NoReply
    BY <2>1 DEF Decided, Answers
  <2>3. \A u \in Users \ {client[o]} :
          Serving(u, {"waitReader", "write"}) => Serving(u, {"waitReader", "write"})'
    BY <2>1 DEF Serving
  <2> QED
    BY <2>1, <2>2, <2>3 DEF Served
<1>7. CASE CloseUser(o)
  BY <1>0, <1>1, <1>7 DEF CloseUser, Finish
<1> QED
  BY <1>2, <1>3, <1>4, <1>5, <1>6, <1>7 DEF OfficeRuns, ShutdownAgain, BrokenPipe

LEMMA ServedUser ==
  ASSUME TypeOK, Once, Decided, Served, NEW u \in Users, Begin(u) \/ UserRuns(u) \/ Alarm(u)
  PROVE  Served'
<1> USE DEF UserGoto, gate, office, user, reply, process, server
<1>0. /\ UNCHANGED <<opc, client, mailbox, decision>>
      /\ upc[u] # "ended"
      /\ \A v \in Users \ {u} : UNCHANGED <<upc[v], code[v], logged[v], met[v]>>
      /\ upc \in [Users -> {"start", "lookUp", "openServer", "send", "openReply", "read",
                            "cancel", "log", "ended", "dead"}]
      /\ code \in [Users -> ReturnCodes] /\ logged \in [Users -> ReturnCodes \cup {NoReply}]
      /\ met \in [Users -> BOOLEAN]
  BY DEF TypeOK, Begin, UserRuns, Alarm, LookUpServer, OpenServer, Send, SendFails, OpenReply,
         ReadReply, ReadNothing, CancelAlarm, Leave
<1>1. \A v \in Users : Serving(v, {"waitReader", "write"})' = Serving(v, {"waitReader", "write"})
  BY <1>0 DEF Serving
<1>2. ASSUME /\ upc'[u] \in {"openReply", "read"} /\ met'[u] /\ mailbox[u] = NoReply =>
                  Serving(u, {"waitReader", "write"})
             /\ upc'[u] = "read" => met'[u]
             /\ upc'[u] \in {"cancel", "log", "ended"} /\ code'[u] \in Answers => code'[u] = decision[u]
             /\ logged'[u] # NoReply => upc'[u] = "ended" /\ logged'[u] = code'[u]
      PROVE  Served'
  BY <1>0, <1>1, <1>2 DEF Served
<1>3. logged[u] = NoReply
  BY <1>0 DEF Served
<1>4. CASE Begin(u) \/ OpenServer(u) \/ SendFails(u)
  BY <1>0, <1>2, <1>3, <1>4 DEF Begin, OpenServer, SendFails
<1>5. CASE LookUpServer(u)
  <2>1. upc'[u] = "openServer" \/ (upc'[u] = "log" /\ code'[u] = "SRV_DOWN")
    BY <1>0, <1>5 DEF LookUpServer
  <2>2. logged' = logged
    BY <1>5 DEF LookUpServer
  <2> QED
    BY <1>2, <1>3, <2>1, <2>2 DEF Answers
<1>6. CASE Send(u)
  <2>1. upc'[u] = "openReply" /\ ~met[u] /\ UNCHANGED <<met, logged>>
    BY <1>0, <1>6 DEF Send, Once, Unsent
  <2> QED
    BY <1>2, <1>3, <2>1
<1>7. CASE OpenReply(u)
  <2>1. /\ upc[u] = "openReply" /\ upc'[u] = "read" /\ met'[u] /\ logged' = logged
        /\ met[u] \/ Serving(u, {"waitReader"})
    BY <1>0, <1>7 DEF OpenReply
  <2>2. mailbox[u] = NoReply => Serving(u, {"waitReader", "write"})
    BY <2>1 DEF Served, Serving
  <2> QED
    BY <1>2, <1>3, <2>1, <2>2
<1>8. CASE ReadReply(u)
  <2>1. upc'[u] = "cancel" /\ code'[u] = mailbox[u] /\ mailbox[u] # NoReply /\ logged' = logged
    BY <1>0, <1>8 DEF ReadReply
  <2> QED
    BY <1>2, <1>3, <2>1 DEF Decided
<1>9. CASE ReadNothing(u)
  <2>1. upc[u] = "read" /\ mailbox[u] = NoReply /\ ~Serving(u, {"waitReader", "write", "close"})
    BY <1>9 DEF ReadNothing
  <2>2. Serving(u, {"waitReader", "write"})
    BY <2>1 DEF Served
  <2> QED
    BY <2>1, <2>2 DEF Serving
<1>10. CASE CancelAlarm(u)
  BY <1>0, <1>2, <1>3, <1>10 DEF CancelAlarm, Served
<1>11. CASE Alarm(u)
  <2>1. upc'[u] = "log" /\ code'[u] = "SRV_TIMEOUT" /\ logged' = logged
    BY <1>0, <1>11 DEF Alarm
  <2> QED
    BY <1>2, <1>3, <2>1 DEF Answers
<1>12. CASE Leave(u)
  BY <1>0, <1>2, <1>12 DEF Leave, Served
<1> QED
  BY <1>4, <1>5, <1>6, <1>7, <1>8, <1>9, <1>10, <1>11, <1>12 DEF UserRuns

LEMMA ServedKept == TypeOK /\ Once /\ Decided /\ Opened /\ Served /\ Next => Died' \/ Served'
<1> SUFFICES ASSUME TypeOK, Once, Decided, Opened, Served, Next PROVE Died' \/ Served'
  OBVIOUS
<1>1. CASE Start \/ MainRuns
  <2>1. UNCHANGED <<opc, client, user, reply>>
    BY <1>1 DEF Start, MainRuns, OpenFifo, OpenDummy, ReadRequest, ReadEof, End, office
  <2> QED
    BY <2>1 DEF Served, Serving, user, reply
<1>2. ASSUME NEW o \in Offices, OfficeRuns(o) PROVE Died' \/ Served'
  <2>1. CASE Die
    <3>1. opc[o] # "idle" \/ Fetch(o)
      BY <1>2 DEF OfficeRuns, Handle, Decide, Shutdown, ShutdownAgain, LookUpUser, MeetUser,
                  WriteReply, BrokenPipe, CloseUser
    <3>2. opc'[o] = "idle"
      BY <2>1 DEF Die
    <3>3. Fetch(o) => opc'[o] = "handle"
      BY DEF Fetch, OfficeGoto, TypeOK
    <3> QED
      BY <2>1, <3>1, <3>2, <3>3, DeathIsDied
  <2>2. CASE ~Die
    BY <1>2, <2>2, ServedOffice
  <2> QED
    BY <2>1, <2>2
<1>3. ASSUME NEW u \in Users, Begin(u) \/ UserRuns(u) \/ Alarm(u) PROVE Died' \/ Served'
  BY <1>3, ServedUser
<1> QED
  BY <1>1, <1>2, <1>3 DEF Next

-----------------------------------------------------------------------------
(* A request that was sent is on its way until it is decided.              *)

LEMMA DeliveredMain ==
  ASSUME TypeOK, Delivered, ~Died, Start \/ MainRuns
  PROVE  Delivered'
<1> USE DEF gate, office, user, reply, process
<1>0. /\ UNCHANGED <<late, upc, code, decision, opc, client>>
  BY DEF Start, MainRuns, OpenFifo, OpenDummy, ReadRequest, ReadEof, End
<1>1. \A u \in Users : HasSent(u)' = HasSent(u)
  BY <1>0 DEF HasSent
<1>2. \A u \in Users : Serving(u, {"handle"})' = Serving(u, {"handle"})
  BY <1>0 DEF Serving
<1>3. Writers' = Writers
  BY <1>0 DEF Writers
<1>4. CASE UNCHANGED <<sent, pending>> /\ main' \in {"opening", "dummy", "reading"}
  BY <1>0, <1>1, <1>2, <1>4 DEF Delivered
<1>5. CASE ReadRequest
  <2>1. /\ sent \in Seq(Users) /\ sent # <<>> /\ pending \in Seq(Users)
        /\ main = "reading" /\ main' = main
        /\ sent' = Tail(sent) /\ pending' = Append(pending, Head(sent))
    BY <1>5 DEF ReadRequest, TypeOK
  <2>2. Head(sent) \in Users /\ \A u : (In(u, sent) <=> In(u, sent') \/ u = Head(sent))
    BY <2>1, InTail
  <2>3. \A u : (In(u, pending') <=> In(u, pending) \/ u = Head(sent))
    BY <2>1, <2>2, InAppend
  <2> QED
    BY <1>0, <1>1, <1>2, <2>1, <2>2, <2>3 DEF Delivered
<1>6. CASE ReadEof
  <2>1. sent = <<>> /\ Writers = {} /\ UNCHANGED <<sent, pending>> /\ main' = "joining"
    BY <1>6 DEF ReadEof
  <2> QED
    BY <1>0, <1>1, <1>2, <1>3, <2>1, InEmpty DEF Delivered
<1>7. CASE End
  <2>1. UNCHANGED <<sent, pending>> /\ main = "joining" /\ main' = "ended"
    BY <1>7 DEF End
  <2> QED
    BY <1>0, <1>1, <1>2, <1>3, <2>1 DEF Delivered
<1> QED
  BY <1>4, <1>5, <1>6, <1>7 DEF MainRuns, Start, OpenFifo, OpenDummy

LEMMA DeliveredOffice ==
  ASSUME TypeOK, Decided, Delivered, NEW o \in Offices, OfficeRuns(o), ~Die
  PROVE  Delivered'
<1> USE SessionAssumption DEF OfficeGoto, gate, office, user, reply, process, server
<1>0. /\ UNCHANGED <<main, late, sent, upc, code>>
      /\ opc \in [Offices -> {"idle", "handle", "open", "waitReader", "write", "close"}]
      /\ client \in [Offices -> Users \cup {NoUser}]
      /\ answer \in [Offices -> Answers \cup {NoReply}]
      /\ decision \in [Users -> Answers \cup {NoReply}] /\ pending \in Seq(Users)
      /\ opc[o] # "idle" => client[o] \in Users
  BY DEF TypeOK, OfficeRuns, Fetch, Handle, Decide, Shutdown, ShutdownAgain, LookUpUser, Finish,
         MeetUser, WriteReply, BrokenPipe, CloseUser
<1>1. (\A u \in Users : HasSent(u)' = HasSent(u)) /\ Writers' = Writers
  BY <1>0 DEF HasSent, Writers
<1>2. ASSUME \A u \in Users : In(u, pending) => In(u, pending') \/ Serving(u, {"handle"})',
             \A u \in Users : decision[u] # NoReply => decision'[u] # NoReply,
             \A u \in Users : Serving(u, {"handle"}) => Serving(u, {"handle"})' \/ decision'[u] # NoReply
      PROVE  Delivered'
  BY <1>0, <1>1, <1>2 DEF Delivered
<1>3. CASE Fetch(o)
  <2>1. /\ pending # <<>> /\ pending' = Tail(pending) /\ decision' = decision
        /\ opc[o] = "idle" /\ opc'[o] = "handle" /\ client'[o] = Head(pending)
        /\ \A p \in Offices : p # o => opc'[p] = opc[p] /\ client'[p] = client[p]
    BY <1>0, <1>3 DEF Fetch
  <2>2. \A u : (In(u, pending) <=> In(u, pending') \/ u = Head(pending))
    BY <1>0, <2>1, InTail
  <2> QED
    BY <1>2, <2>1, <2>2 DEF Serving
<1>4. CASE Handle(o) \/ Shutdown(o)
  <2>1. PICK c \in {"OK", "REFUSED"} : Decide(o, c)
    BY <1>4 DEF Handle, Shutdown
  <2>2. /\ pending' = pending /\ client' = client /\ opc[o] = "handle"
        /\ \A p \in Offices : p # o => opc'[p] = opc[p]
        /\ decision'[client[o]] = c /\ \A u \in Users : u # client[o] => decision'[u] = decision[u]
    BY <1>0, <2>1 DEF Decide
  <2> QED
    BY <1>2, <2>2 DEF Serving
<1>5. ASSUME opc[o] # "handle", UNCHANGED <<pending, decision>>,
             \A p \in Offices : p # o => opc'[p] = opc[p] /\ client'[p] = client[p]
      PROVE  Delivered'
  BY <1>2, <1>5 DEF Serving
<1>6. CASE LookUpUser(o) \/ MeetUser(o) \/ WriteReply(o) \/ CloseUser(o)
  BY <1>0, <1>5, <1>6 DEF LookUpUser, Finish, MeetUser, WriteReply, CloseUser
<1> QED
  BY <1>3, <1>4, <1>6 DEF OfficeRuns, ShutdownAgain, BrokenPipe

LEMMA DeliveredUser ==
  ASSUME TypeOK, Delivered, Opened, ~Died, NEW u \in Users, Begin(u) \/ UserRuns(u) \/ Alarm(u)
  PROVE  Delivered'
<1> USE SessionAssumption DEF UserGoto, gate, office, user, reply, process, server
<1>0. /\ UNCHANGED <<main, fifo, pending, decision, opc, client>>
      /\ late \subseteq late' /\ sent \in Seq(Users)
      /\ \A v \in Users \ {u} : UNCHANGED <<upc[v], code[v]>>
      /\ upc \in [Users -> {"start", "lookUp", "openServer", "send", "openReply", "read",
                            "cancel", "log", "ended", "dead"}]
      /\ code \in [Users -> ReturnCodes]
      /\ mailbox \in [Users -> Answers \cup {NoReply}]
      /\ main \in {"down", "opening", "dummy", "reading", "joining", "ended"}
  BY DEF TypeOK, Begin, UserRuns, Alarm, LookUpServer, OpenServer, Send, SendFails, OpenReply,
         ReadReply, ReadNothing, CancelAlarm, Leave
<1>1. \A v \in Users : Serving(v, {"handle"})' = Serving(v, {"handle"})
  BY <1>0 DEF Serving
<1>2. \A v \in Users \ {u} : (HasSent(v)' <=> HasSent(v)) /\ (v \in Writers' <=> v \in Writers)
  BY <1>0 DEF HasSent, Writers
<1>3. ASSUME sent' = sent,
             HasSent(u)' => HasSent(u),
             u \in Writers' /\ main \in {"joining", "ended"} => u \in late',
             main = "down" => upc'[u] \notin {"openServer", "send"}
      PROVE  Delivered'
  <2>1. main \in {"joining", "ended"} => Writers' \subseteq late'
    BY <1>0, <1>2, <1>3 DEF Delivered, Writers
  <2> QED
    BY <1>0, <1>1, <1>2, <1>3, <2>1 DEF Delivered
<1>4. CASE Begin(u)
  BY <1>0, <1>3, <1>4 DEF Begin, HasSent, Writers
<1>5. CASE LookUpServer(u)
  <2>1. CASE fifo = "writable"
    <3>1. main # "down"
      BY <2>1 DEF Died
    <3> QED
      BY <1>0, <1>3, <1>5, <2>1, <3>1 DEF LookUpServer, HasSent, Writers
  <2>2. CASE fifo # "writable"
    <3>1. upc'[u] = "log" /\ code'[u] = "SRV_DOWN" /\ sent' = sent
      BY <1>0, <1>5, <2>2 DEF LookUpServer
    <3> QED
      BY <1>3, <3>1 DEF HasSent, Writers
  <2> QED
    BY <2>1, <2>2
<1>6. CASE OpenServer(u)
  <2>1. /\ upc'[u] = "send" /\ sent' = sent /\ main \notin {"down", "ended"}
        /\ main = "joining" => u \in late'
    BY <1>0, <1>6 DEF OpenServer, ServerReads
  <2> QED
    BY <1>3, <2>1 DEF HasSent, Writers
<1>7. CASE Send(u)
  <2>1. /\ upc[u] = "send" /\ upc'[u] = "openReply" /\ sent' = Append(sent, u)
        /\ main \notin {"down", "ended"} /\ late' = late
    BY <1>0, <1>7 DEF Send, ServerReads
  <2>2. \A v : In(v, sent') <=> In(v, sent) \/ v = u
    BY <1>0, <2>1, InAppend
  <2>3. Writers' = Writers /\ u \in Writers
    BY <1>0, <1>2, <2>1 DEF Writers
  <2> QED
    BY <1>0, <1>1, <1>2, <2>1, <2>2, <2>3 DEF Delivered
<1>8. ASSUME sent' = SentAfter(u), HasSent(u)' => HasSent(u), HasSent(u) \/ upc[u] = "send",
             upc'[u] \in {"dead", "log"}
      PROVE  Delivered'
  <2>1. u \notin Writers' /\ main # "down"
    BY <1>8 DEF Writers, Delivered
  <2>2. CASE sent' = sent
    BY <1>3, <1>8, <2>1, <2>2
  <2>3. CASE sent' # sent
    <3>1. sent' = <<>> /\ main = "ended"
      BY <1>0, <1>8, <2>1, <2>3 DEF SentAfter, ServerReads
    <3>2. \A v \in Users : In(v, sent) => v \in late
      BY <3>1 DEF Delivered
    <3>3. Writers' \subseteq late'
      BY <1>0, <1>2, <2>1, <3>1 DEF Delivered, Writers
    <3> QED
      BY <1>0, <1>1, <1>2, <1>8, <3>1, <3>2, <3>3, InEmpty DEF Delivered
  <2> QED
    BY <2>2, <2>3
<1>9. CASE SendFails(u)
  BY <1>0, <1>8, <1>9 DEF SendFails, HasSent
<1>10. CASE CancelAlarm(u) \/ Alarm(u)
  BY <1>0, <1>8, <1>10 DEF CancelAlarm, Alarm, HasSent
<1>11. CASE OpenReply(u) \/ ReadReply(u) \/ ReadNothing(u)
  <2>1. /\ sent' = sent /\ HasSent(u) /\ u \in Writers /\ late' = late
        /\ upc'[u] \notin {"openServer", "send"}
    BY <1>0, <1>11 DEF OpenReply, ReadReply, ReadNothing, HasSent, Writers
  <2> QED
    BY <1>3, <2>1 DEF Delivered
<1>12. CASE Leave(u)
  <2>1. /\ sent' = sent /\ upc[u] = "log" /\ upc'[u] = "ended" /\ code' = code
    BY <1>0, <1>12 DEF Leave
  <2> QED
    BY <1>3, <2>1 DEF HasSent, Writers
<1> QED
  BY <1>4, <1>5, <1>6, <1>7, <1>9, <1>10, <1>11, <1>12 DEF UserRuns

LEMMA DeliveredKept ==
  TypeOK /\ Decided /\ Opened /\ ~Died /\ Delivered /\ Next => Died' \/ Delivered'
<1> SUFFICES ASSUME TypeOK, Decided, Opened, ~Died, Delivered, Next PROVE Died' \/ Delivered'
  OBVIOUS
<1>1. CASE Start \/ MainRuns
  BY <1>1, DeliveredMain
<1>2. ASSUME NEW o \in Offices, OfficeRuns(o) PROVE Died' \/ Delivered'
  <2>1. CASE Die
    <3>1. opc[o] # "idle" \/ Fetch(o)
      BY <1>2 DEF OfficeRuns, Handle, Decide, Shutdown, ShutdownAgain, LookUpUser, MeetUser,
                  WriteReply, BrokenPipe, CloseUser
    <3>2. opc'[o] = "idle"
      BY <2>1 DEF Die
    <3>3. Fetch(o) => opc'[o] = "handle"
      BY DEF Fetch, OfficeGoto, TypeOK
    <3> QED
      BY <2>1, <3>1, <3>2, <3>3, DeathIsDied
  <2>2. CASE ~Die
    BY <1>2, <2>2, DeliveredOffice
  <2> QED
    BY <2>1, <2>2
<1>3. ASSUME NEW u \in Users, Begin(u) \/ UserRuns(u) \/ Alarm(u) PROVE Died' \/ Delivered'
  BY <1>3, DeliveredUser
<1> QED
  BY <1>1, <1>2, <1>3 DEF Next

-----------------------------------------------------------------------------
(* The invariant.                                                          *)

LEMMA InvInit == Init => Inv
<1> SUFFICES ASSUME Init PROVE Inv
  OBVIOUS
<1>1. NoDup(<<>>) /\ \A v : ~In(v, <<>>)
  BY InEmpty DEF NoDup
<1>2. Once
  BY <1>1, SessionAssumption DEF Init, Once, Absent
<1>3. Decided
  BY <1>1 DEF Init, Decided
<1>4. Opened
  BY DEF Init, Opened
<1>5. Served
  BY DEF Init, Served
<1>6. Delivered
  BY DEF Init, Delivered, HasSent
<1> QED
  BY TypeInit, <1>2, <1>3, <1>4, <1>5, <1>6 DEF Inv

LEMMA InvNext == Inv /\ [Next]_vars => Inv'
<1> SUFFICES ASSUME Inv, [Next]_vars PROVE Inv'
  OBVIOUS
<1>1. CASE UNCHANGED vars
  <2>1. UNCHANGED <<main, restarts, dummyOpen, fifo, called, late, sent, pending, opc, client,
                    answer, upc, code, logged, met, mailbox, decision>>
    BY <1>1 DEF vars, server, process, gate, office, user, reply
  <2> QED
    BY <2>1 DEF Inv, TypeOK, Once, Absent, Decided, Opened, Served, Serving, Delivered, HasSent,
                Writers, Died
<1>2. CASE Next
  <2>1. TypeOK'
    BY <1>2, TypeMain, TypeOffice, TypeUser DEF Next, Inv
  <2>2. Once'
    BY <1>2, OnceMain, OnceOffice, OnceUser DEF Next, Inv
  <2>3. Decided'
    BY <1>2, DecidedMain, DecidedOffice, DecidedUser DEF Next, Inv
  <2>4. Opened'
    BY <1>2, OpenedKept DEF Inv
  <2>5. Died' \/ Served'
    BY <1>2, DiedKept, ServedKept DEF Inv
  <2>6. Died' \/ Delivered'
    BY <1>2, DiedKept, DeliveredKept DEF Inv
  <2> QED
    BY <2>1, <2>2, <2>3, <2>4, <2>5, <2>6 DEF Inv
<1> QED
  BY <1>1, <1>2

LEMMA Invariance == Spec => []Inv
BY InvInit, InvNext, PTL DEF Spec

(* The session protocol keeps the types of its variables, and an office     *)
(* that works has a user.                                                   *)
THEOREM SessionTyped == Spec => []TypeOK
<1>1. Inv => TypeOK
  BY DEF Inv
<1> QED
  BY <1>1, Invariance, PTL

(* As long as the server does not die, an answer that a user logs is the    *)
(* one the server gave: its FIFO never shows it an end of file first.       *)
THEOREM AnswersAreTrue == Spec => []TrueAnswers
<1>1. Inv => TrueAnswers
  <2> SUFFICES ASSUME Inv, ~Died, NEW u \in Users, logged[u] \in Answers
               PROVE  logged[u] = decision[u]
    BY DEF TrueAnswers
  <2>1. logged[u] # NoReply
    BY SessionAssumption DEF Answers
  <2>2. upc[u] = "ended" /\ logged[u] = code[u]
    BY <2>1 DEF Inv, Served
  <2> QED
    BY <2>2 DEF Inv, Served
<1> QED
  BY <1>1, Invariance, PTL

(* A server that ends in order has carried out every request written to its *)
(* FIFO, but for those of users that opened it too late to be seen.         *)
THEOREM EndIsOrderly == Spec => []OrderlyEnd
<1>1. Inv => OrderlyEnd
  <2> SUFFICES ASSUME Inv, main = "ended", ~Died, NEW u \in Users \ late, HasSent(u)
               PROVE  decision[u] # NoReply
    BY DEF OrderlyEnd
  <2>1. ~In(u, sent)
    BY DEF Inv, Delivered
  <2>2. pending = <<>> /\ ~Serving(u, {"handle"})
    BY DEF Inv, Opened, Serving
  <2> QED
    BY <2>1, <2>2, InEmpty DEF Inv, Delivered
<1> QED
  BY <1>1, Invariance, PTL

-----------------------------------------------------------------------------
(* Standstill: what the server and the users can wait for, for ever.       *)

(* The main thread finds the writer, the request, the end of file or the    *)
(* offices idle that its next step needs.                                   *)
MainGoesOn ==
    \/ main = "opening" /\ (called \/ Writers # {})
    \/ main = "dummy"
    \/ main = "reading" /\ sent # <<>>
    \/ main = "reading" /\ ~dummyOpen /\ Writers = {}
    \/ main = "joining" /\ pending = <<>> /\ \A o \in Offices : opc[o] = "idle"

(* An office that has, or can get, a request to work on, and does not wait  *)
(* at the FIFO of a user that does not read.                                *)
OfficeGoesOn(o) ==
    \/ opc[o] = "idle" /\ pending # <<>>
    \/ opc[o] \in {"handle", "open", "write", "close"}
    \/ opc[o] = "waitReader" /\ (Reads(client[o]) \/ met[client[o]])

(* A user between its start and its end; the alarm is on in openReply, read *)
(* and cancel, and only in openServer does it wait without one.             *)
UserGoesOn(u) ==
    \/ upc[u] \in {"lookUp", "send", "openReply", "read", "cancel", "log"}
    \/ upc[u] = "openServer" /\ ServerReads

Standstill ==
    /\ ~MainGoesOn
    /\ \A o \in Offices : ~OfficeGoesOn(o)
    /\ \A u \in Users : ~UserGoesOn(u)

(* When nothing goes on, the users have ended or wait for a server that is  *)
(* not there, and every request that was written before the end of the file *)
(* was seen is decided, unless the server died or one of its offices waits  *)
(* for ever at the FIFO of a user whose alarm went off.                     *)
StopsDecided ==
    Standstill =>
        /\ \A u \in Users : \/ upc[u] \in {"start", "ended", "dead"}
                            \/ upc[u] = "openServer" /\ main \in {"down", "ended"}
        /\ \/ Died \/ Stuck
           \/ \A u \in Users \ late : HasSent(u) => decision[u] # NoReply

(* Unless the server died, a server that waits in its first open() has no   *)
(* request from before.                                                     *)
Unheard ==
    main = "opening" /\ ~called => \A u \in Users : ~HasSent(u) /\ upc[u] # "send"

LEMMA UnheardKept ==
  TypeOK /\ Opened /\ ~Died /\ Delivered /\ Unheard /\ Next => Died' \/ Unheard'
<1> SUFFICES ASSUME TypeOK, Opened, ~Died, Delivered, Unheard, Next PROVE Died' \/ Unheard'
  OBVIOUS
<1> USE DEF gate, office, user, reply, process, server
<1>1. CASE Start
  <2>1. main = "down" /\ UNCHANGED <<upc, code>>
    BY <1>1 DEF Start
  <2> QED
    BY <2>1 DEF Delivered, Unheard, HasSent
<1>2. CASE MainRuns
  BY <1>2 DEF MainRuns, OpenFifo, OpenDummy, ReadRequest, ReadEof, End, Unheard, HasSent
<1>3. ASSUME NEW o \in Offices, OfficeRuns(o) PROVE Unheard'
  <2>1. UNCHANGED <<called, upc, code>> /\ (main' = main \/ main' = "down")
    BY <1>3 DEF OfficeRuns, Fetch, Handle, Decide, Shutdown, ShutdownAgain, LookUpUser, Finish,
                MeetUser, WriteReply, BrokenPipe, CloseUser, Die
  <2> QED
    BY <2>1 DEF Unheard, HasSent
<1>4. ASSUME NEW u \in Users, Begin(u) \/ UserRuns(u) \/ Alarm(u) PROVE Unheard'
  <2>1. CASE OpenServer(u)
    BY <2>1 DEF OpenServer, Unheard
  <2>2. CASE ~OpenServer(u) /\ main = "opening" /\ ~called
    <3>1. /\ upc \in [Users -> {"start", "lookUp", "openServer", "send", "openReply", "read",
                                "cancel", "log", "ended", "dead"}]
          /\ code \in [Users -> ReturnCodes] /\ ~HasSent(u) /\ upc[u] # "send"
      BY <2>2 DEF TypeOK, Unheard
    <3>2. ~HasSent(u)' /\ upc'[u] # "send"
      BY <1>4, <2>2, <3>1 DEF Begin, UserRuns, Alarm, LookUpServer, Send, SendFails, OpenReply,
           ReadReply, ReadNothing, CancelAlarm, Leave, UserGoto, HasSent
    <3>3. \A v \in Users : v # u => upc'[v] = upc[v] /\ code'[v] = code[v]
      BY <1>4, <2>2, <3>1 DEF Begin, UserRuns, Alarm, LookUpServer, Send, SendFails, OpenReply,
           ReadReply, ReadNothing, CancelAlarm, Leave, UserGoto
    <3> QED
      BY <2>2, <3>2, <3>3 DEF Unheard, HasSent
  <2>3. CASE ~OpenServer(u) /\ ~(main = "opening" /\ ~called)
    <3>1. UNCHANGED <<main, called>>
      BY <1>4, <2>3 DEF Begin, UserRuns, Alarm, LookUpServer, Send, SendFails, OpenReply,
           ReadReply, ReadNothing, CancelAlarm, Leave
    <3> QED
      BY <2>3, <3>1 DEF Unheard
  <2> QED
    BY <2>1, <2>2, <2>3
<1> QED
  BY <1>1, <1>2, <1>3, <1>4 DEF Next

(* An office that stands still has no request, or has one whose user ended  *)
(* without an answer.                                                       *)
LEMMA StandstillOffices ==
  ASSUME Inv, Standstill, NEW o \in Offices
  PROVE  \/ opc[o] = "idle" /\ pending = <<>>
         \/ Stuck
<1>1. CASE opc[o] = "idle"
  BY <1>1 DEF Standstill, OfficeGoesOn
<1>2. CASE opc[o] # "idle"
  <2>1. opc[o] = "waitReader" /\ ~Reads(client[o]) /\ ~met[client[o]]
    BY <1>2 DEF Inv, TypeOK, Standstill, OfficeGoesOn
  <2>2. client[o] \in Users /\ upc[client[o]] \notin Unsent
    BY <1>2, SessionAssumption DEF Inv, TypeOK, Once, Absent
  <2>3. upc[client[o]] = "ended"
    BY <2>1, <2>2 DEF Inv, TypeOK, Standstill, UserGoesOn, Unsent
  <2> QED
    BY <2>1, <2>3 DEF Stuck
<1> QED
  BY <1>1, <1>2

(* The system of a server with at least one office and any users comes to a *)
(* stop only when there is nothing left to decide; the one way to stop      *)
(* early, short of the server's death, is an office at the FIFO of a user   *)
(* that is gone.                                                            *)
THEOREM SessionStopsDecided == ASSUME Offices # {} PROVE Spec => []StopsDecided
<1>1. Init => Unheard
  BY DEF Init, Unheard, HasSent
<1>2. Inv /\ (Died \/ Unheard) /\ [Next]_vars => (Died \/ Unheard)'
  <2> SUFFICES ASSUME Inv, Died \/ Unheard, [Next]_vars PROVE Died' \/ Unheard'
    OBVIOUS
  <2>1. CASE UNCHANGED vars
    BY <2>1 DEF Died, Unheard, HasSent, vars, server, process, gate, user
  <2>2. CASE Next
    BY <2>2, DiedKept, UnheardKept DEF Inv
  <2> QED
    BY <2>1, <2>2
<1>3. Inv /\ (Died \/ Unheard) => StopsDecided
  <2> SUFFICES ASSUME Inv, Died \/ Unheard, Standstill
               PROVE  /\ \A u \in Users : \/ upc[u] \in {"start", "ended", "dead"}
                                          \/ upc[u] = "openServer" /\ main \in {"down", "ended"}
                      /\ \/ Died \/ Stuck
                         \/ \A u \in Users \ late : HasSent(u) => decision[u] # NoReply
    BY DEF StopsDecided
  <2>1. \A u \in Users : \/ upc[u] \in {"start", "ended", "dead"}
                         \/ upc[u] = "openServer" /\ main \in {"down", "ended"}
    BY DEF Standstill, UserGoesOn, ServerReads, Inv, TypeOK
  <2>2. ASSUME ~Died, ~Stuck, NEW u \in Users \ late, HasSent(u) PROVE decision[u] # NoReply
    <3>1. pending = <<>> /\ \A o \in Offices : opc[o] = "idle"
      BY <2>2, StandstillOffices
    <3>2. decision[u] # NoReply \/ In(u, sent)
      BY <2>2, <3>1, InEmpty DEF Inv, Delivered, Serving
    <3>3. Writers = {}
      BY <2>1 DEF Writers
    <3>4. CASE main = "reading"
      <4>1. sent = <<>>
        BY <3>4 DEF Standstill, MainGoesOn
      <4> QED
        BY <3>2, <4>1, InEmpty
    <3>5. CASE main \in {"joining", "ended"}
      BY <2>2, <3>2, <3>5 DEF Inv, Delivered
    <3>6. CASE main = "down"
      BY <2>2, <3>6 DEF Inv, Delivered
    <3>7. CASE main = "opening"
      BY <2>2, <3>7 DEF Standstill, MainGoesOn, Unheard
    <3>8. main # "dummy"
      BY DEF Standstill, MainGoesOn
    <3> QED
      BY <3>4, <3>5, <3>6, <3>7, <3>8 DEF Inv, TypeOK
  <2> QED
    BY <2>1, <2>2
<1> QED
  BY <1>1, <1>2, <1>3, Invariance, PTL DEF Spec

=============================================================================
