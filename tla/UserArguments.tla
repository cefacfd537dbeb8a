---------------------------- MODULE UserArguments ----------------------------
(***************************************************************************)
(* What the program user makes of its command line before it looks for the *)
(* server (Trabalho_2/src/user.c, the first half of main), and the request *)
(* that comes of it.  The rest of the program is in Session.               *)
(*                                                                         *)
(* A number is what strtol, in atoi, finds in an argument, before it is    *)
(* stored in 32 bits; text counts as 0.  Of a password only the length is  *)
(* looked at: strtok takes the operation's arguments apart at the blanks,  *)
(* so that none of them has one and hasSpaces never finds any.  The empty  *)
(* sequence of arguments stands for the empty text.                        *)
(***************************************************************************)
EXTENDS Integers, Sequences

CONSTANTS
    MAX_BANK_ACCOUNTS, MAX_BALANCE, MIN_PASSWORD_LEN, MAX_PASSWORD_LEN,
    MAX_OP_DELAY_MS,  \* in constants.h only: user.c never looks at it
    WORD,          \* 2^32
    Microseconds,  \* 1000, in a millisecond
    CommandLines,  \* what may be typed
    HeaderSize, CreateSize, TransferSize,  \* sizeof of the parts of a request
    NoRequest

OP_CREATE_ACCOUNT == 0
OP_BALANCE == 1
OP_TRANSFER == 2
OP_SHUTDOWN == 3
MIN_BALANCE == 1

ASSUME UserAssumption ==
    /\ WORD \in Nat /\ MAX_BALANCE \in OP_SHUTDOWN .. WORD - 1
    /\ MAX_BANK_ACCOUNTS \in 1 .. MAX_BALANCE
    /\ MIN_PASSWORD_LEN \in Nat /\ MAX_PASSWORD_LEN \in Nat /\ Microseconds \in Nat
    /\ MAX_OP_DELAY_MS \in Nat
    /\ HeaderSize \in Nat /\ CreateSize \in Nat /\ TransferSize \in Nat
    /\ CommandLines \subseteq
         [complete : BOOLEAN, id : Int, length : Nat, delay : Int, op : Int,
          args : Seq([number : Int, length : Nat])]
    /\ NoRequest \notin [op : Int, id : Int, password : Nat, delay : Int, target : Int,
                         amount : Int, newPassword : Nat, length : Nat]

VARIABLES
    argv,     \* the command line
    pc,       \* control
    fifo,     \* the user's own FIFO is there
    request,  \* the message that is sent
    status    \* exit status, 0 as long as there is none

vars == <<argv, pc, fifo, request, status>>

(* Assignment to a variable of 32 bits. *)
Word(n) == n % WORD

ValidLength(n) == n >= MIN_PASSWORD_LEN /\ n <= MAX_PASSWORD_LEN

Init ==
    /\ argv \in CommandLines
    /\ pc = "begin" /\ fifo = FALSE /\ request = NoRequest /\ status = 0

(* exit(EXIT_FAILURE), wherever it is called. *)
Reject == pc' = "ended" /\ status' = 1 /\ UNCHANGED <<argv, fifo, request>>

(* argc, and mkfifo: a FIFO that is there already is taken as it is. *)
Begin ==
    /\ pc = "begin"
    /\ \/ Reject
       \/ /\ argv.complete /\ pc' = "header" /\ fifo' = TRUE
          /\ UNCHANGED <<argv, request, status>>

(* Mutation of Header: one id too many. *)
Header_OffByOne ==
    /\ pc = "header"
    /\ LET valid == Word(argv.id) <= MAX_BANK_ACCOUNTS /\ ValidLength(argv.length)
       IN  \/ ~valid /\ Reject
           \/ valid /\ pc' = "operation" /\ UNCHANGED <<argv, fifo, request, status>>

(* The id and the password of the user. *)
Header ==
    /\ pc = "header"
    /\ LET valid == Word(argv.id) < MAX_BANK_ACCOUNTS /\ ValidLength(argv.length)
       IN  \/ ~valid /\ Reject
           \/ valid /\ pc' = "operation" /\ UNCHANGED <<argv, fifo, request, status>>

Message(target, amount, newPassword, size) ==
    [op |-> Word(argv.op), id |-> Word(argv.id), password |-> argv.length,
     delay |-> Word(argv.delay), target |-> target, amount |-> amount,
     newPassword |-> newPassword, length |-> HeaderSize + size]

(* The open of the server FIFO and the write, when they succeed. *)
Send(message) == pc' = "sent" /\ request' = message /\ UNCHANGED <<argv, fifo, status>>

Operation(ops) == pc = "operation" /\ Word(argv.op) \in ops

Account(n) == Word(n) >= 1 /\ Word(n) < MAX_BANK_ACCOUNTS

Amount(n) == Word(n) >= MIN_BALANCE /\ Word(n) <= MAX_BALANCE

(* Mutation of Create: the limit itself is refused. *)
Create_Strict ==
    /\ Operation({OP_CREATE_ACCOUNT})
    /\ LET valid == /\ Len(argv.args) = 3 /\ ValidLength(argv.args[3].length)
                    /\ Amount(argv.args[2].number) /\ Word(argv.args[2].number) < MAX_BALANCE
                    /\ Account(argv.args[1].number)
       IN  \/ ~valid /\ Reject
           \/ valid /\ Send(Message(Word(argv.args[1].number), Word(argv.args[2].number),
                                    argv.args[3].length, CreateSize))

Create ==
    /\ Operation({OP_CREATE_ACCOUNT})
    /\ LET valid == /\ Len(argv.args) = 3 /\ ValidLength(argv.args[3].length)
                    /\ Amount(argv.args[2].number) /\ Account(argv.args[1].number)
       IN  \/ ~valid /\ Reject
           \/ valid /\ Send(Message(Word(argv.args[1].number), Word(argv.args[2].number),
                                    argv.args[3].length, CreateSize))

(* Mutation of Transfer: nobody looks for a third argument. *)
Transfer_More ==
    /\ Operation({OP_TRANSFER})
    /\ LET valid == Len(argv.args) >= 2 /\ Account(argv.args[1].number) /\ Amount(argv.args[2].number)
       IN  \/ ~valid /\ Reject
           \/ valid /\ Send(Message(Word(argv.args[1].number), Word(argv.args[2].number), 0, TransferSize))

Transfer ==
    /\ Operation({OP_TRANSFER})
    /\ LET valid == Len(argv.args) = 2 /\ Account(argv.args[1].number) /\ Amount(argv.args[2].number)
       IN  \/ ~valid /\ Reject
           \/ valid /\ Send(Message(Word(argv.args[1].number), Word(argv.args[2].number), 0, TransferSize))

(* A look-up of the balance, or a shutdown. *)
Plain ==
    /\ Operation({OP_BALANCE, OP_SHUTDOWN})
    /\ \/ argv.args # <<>> /\ Reject
       \/ argv.args = <<>> /\ Send(Message(0, 0, 0, 0))

Unknown ==
    /\ pc = "operation" /\ Word(argv.op) > OP_SHUTDOWN
    /\ Reject

(* The end of a user that got as far as the server; the ways there are in   *)
(* Session.                                                                 *)
Leave ==
    /\ pc = "sent" /\ pc' = "ended" /\ fifo' = FALSE
    /\ UNCHANGED <<argv, request, status>>

Next == Begin \/ Header \/ Create \/ Transfer \/ Plain \/ Unknown \/ Leave

Spec == Init /\ [][Next]_vars

(* usleep(op_delay_ms * 1000) at the server, in 32 bits. *)
Sleep(delay) == Word(delay * Microseconds)

-----------------------------------------------------------------------------
(* Properties.                                                             *)

Ids == 0 .. MAX_BANK_ACCOUNTS - 1
PasswordLengths == MIN_PASSWORD_LEN .. MAX_PASSWORD_LEN

(* Whatever is typed, numbers that do not fit a word included, the server    *)
(* gets nothing but what its handlers take for granted: ids of the array,    *)
(* an amount that cannot make the sum of two balances wrap, an account other *)
(* than the administrator's to create or to pay to.                          *)
SafeForServer ==
    request # NoRequest =>
        /\ request.op \in OP_CREATE_ACCOUNT .. OP_SHUTDOWN
        /\ request.id \in Ids /\ request.target \in Ids /\ request.amount \in 0 .. MAX_BALANCE
        /\ request.password \in PasswordLengths
        /\ request.op \in {OP_CREATE_ACCOUNT, OP_TRANSFER} =>
             request.target # 0 /\ request.amount >= MIN_BALANCE
        /\ request.op = OP_CREATE_ACCOUNT => request.newPassword \in PasswordLengths

(* A call that keeps to what "Programa do Utilizador" of the assignment and  *)
(* constants.h ask of its arguments, the delay left aside.                   *)
LegalButForDelay(a) ==
    /\ a.complete /\ a.id \in Ids /\ a.length \in PasswordLengths
    /\ \/ a.op \in {OP_BALANCE, OP_SHUTDOWN} /\ a.args = <<>>
       \/ /\ a.op = OP_TRANSFER /\ Len(a.args) = 2
          /\ a.args[1].number \in Ids \ {0} /\ a.args[2].number \in MIN_BALANCE .. MAX_BALANCE
       \/ /\ a.op = OP_CREATE_ACCOUNT /\ Len(a.args) = 3
          /\ a.args[1].number \in Ids \ {0} /\ a.args[2].number \in MIN_BALANCE .. MAX_BALANCE
          /\ a.args[3].length \in PasswordLengths

(* A legal call, with every limit of constants.h. *)
Legal(a) == LegalButForDelay(a) /\ a.delay \in 0 .. MAX_OP_DELAY_MS

(* The numbers are not so large, or so far below zero, that their last 32   *)
(* bits are those of another number within the limits.  user.c has no limit *)
(* for the delay, which is left aside here.                                 *)
Short(n) == n \in MAX_BALANCE - WORD + 1 .. WORD - 1
Fits(a) == Short(a.id) /\ Short(a.op) /\ \A i \in DOMAIN a.args : Short(a.args[i].number)

(* The message that a command line asks for. *)
Typed(m, a) ==
    /\ m.op = a.op /\ m.id = a.id /\ m.password = a.length
    /\ a.delay \in 0 .. WORD - 1 => m.delay = a.delay
    /\ a.op \in {OP_CREATE_ACCOUNT, OP_TRANSFER} =>
         m.target = a.args[1].number /\ m.amount = a.args[2].number
    /\ a.op = OP_CREATE_ACCOUNT => m.newPassword = a.args[3].length
    /\ m.length = HeaderSize + CASE a.op = OP_CREATE_ACCOUNT -> CreateSize
                                 [] a.op = OP_TRANSFER -> TransferSize
                                 [] OTHER -> 0

(* As long as the numbers fit, negative ones included, what main sends is    *)
(* what was typed, field by field, and within every limit but that of the    *)
(* delay.  The delay is sent whatever it is: a negative one, or one over     *)
(* MAX_OP_DELAY_MS, goes to the server too (see SentIsLegal).                *)
SentAsTyped ==
    request # NoRequest /\ Fits(argv) => LegalButForDelay(argv) /\ Typed(request, argv)

(* Once its FIFO is made, main refuses no legal call, whatever its delay. *)
RefusedForCause == status = 1 /\ fifo => ~LegalButForDelay(argv)

(* What main sends is within the limits of constants.h, that of the delay    *)
(* (constants.h:15) included; it is not.                                     *)
SentIsLegal == request # NoRequest /\ Fits(argv) => Legal(argv)

(* The user's FIFO is removed at the end, whatever was typed. *)
FifoRemoved == pc = "ended" => ~fifo

(* An id outside of the array is refused by the check that is there for it. *)
InvalidIdIsRefused == request # NoRequest => argv.id \in Ids

(* The server's usleep takes as long as the user asked for. *)
SleepsAsAsked == request # NoRequest => Sleep(request.delay) = argv.delay * Microseconds

=============================================================================
