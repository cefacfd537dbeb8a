------------------------- MODULE UserArguments_proofs -------------------------
(***************************************************************************)
(* The request that main of user.c sends, for every word width, every      *)
(* limit and every command line.                                           *)
(***************************************************************************)
EXTENDS UserArguments, SequenceTheorems, TLAPS

(* What the control says about the variables, and the three properties. *)
Inv ==
    /\ argv \in CommandLines
    /\ pc \in {"begin", "header", "operation", "sent", "ended"}
    /\ pc = "begin" => ~fifo
    /\ pc \in {"begin", "header", "operation"} => request = NoRequest /\ status = 0
    /\ pc = "sent" => status = 0
    /\ pc \in {"header", "operation"} => argv.complete
    /\ pc = "operation" => Word(argv.id) < MAX_BANK_ACCOUNTS /\ ValidLength(argv.length)
    /\ SafeForServer /\ SentAsTyped /\ RefusedForCause

(* A word holds the remainder, which is the number itself, or the number    *)
(* plus WORD, when it is not too far from zero.                             *)
LEMMA WordRange ==
  ASSUME NEW n \in Int
  PROVE  /\ Word(n) \in 0 .. WORD - 1
         /\ n \in 0 .. WORD - 1 => Word(n) = n
         /\ n \in MAX_BALANCE - WORD + 1 .. -1 => Word(n) > MAX_BALANCE
<1>1. WORD \in Nat \ {0} /\ MAX_BALANCE \in Nat /\ MAX_BALANCE < WORD
  BY UserAssumption DEF OP_SHUTDOWN
<1>2. n % WORD \in 0 .. WORD - 1
  BY <1>1, SMTT(30)
<1>3. n \in 0 .. WORD - 1 => n % WORD = n
  BY <1>1, SMTT(30)
<1>4. n \in MAX_BALANCE - WORD + 1 .. -1 => n % WORD = n + WORD
  BY <1>1, SMTT(30)
<1> QED
  BY <1>1, <1>2, <1>3, <1>4 DEF Word

(* The fields of a command line. *)
LEMMA Fields ==
  ASSUME argv \in CommandLines
  PROVE  /\ argv.complete \in BOOLEAN /\ argv.id \in Int /\ argv.length \in Nat
         /\ argv.delay \in Int /\ argv.op \in Int
         /\ argv.args \in Seq([number : Int, length : Nat])
         /\ \A i \in 1 .. Len(argv.args) : argv.args[i].number \in Int /\ argv.args[i].length \in Nat
<1>1. argv \in [complete : BOOLEAN, id : Int, length : Nat, delay : Int, op : Int,
                args : Seq([number : Int, length : Nat])]
  BY UserAssumption
<1>2. argv.args \in Seq([number : Int, length : Nat])
  BY <1>1
<1>3. \A i \in 1 .. Len(argv.args) : argv.args[i] \in [number : Int, length : Nat]
  BY <1>2, ElementOfSeq
<1> QED
  BY <1>1, <1>2, <1>3

(* The checks of main, done on words, mean what they say about the numbers. *)
LEMMA Checks ==
  ASSUME NEW n \in Int
  PROVE  /\ Word(n) < MAX_BANK_ACCOUNTS => Word(n) \in Ids /\ (Short(n) => n \in Ids /\ Word(n) = n)
         /\ n \in Ids => Word(n) = n /\ Word(n) < MAX_BANK_ACCOUNTS
         /\ Account(n) => Word(n) \in Ids \ {0} /\ (Short(n) => n \in Ids \ {0} /\ Word(n) = n)
         /\ n \in Ids \ {0} => Account(n)
         /\ Amount(n) => /\ Word(n) \in MIN_BALANCE .. MAX_BALANCE
                         /\ Short(n) => n \in MIN_BALANCE .. MAX_BALANCE /\ Word(n) = n
         /\ n \in MIN_BALANCE .. MAX_BALANCE => Amount(n)
<1>1. /\ WORD \in Nat /\ MAX_BALANCE \in Nat /\ MAX_BALANCE < WORD
      /\ MAX_BANK_ACCOUNTS \in Nat /\ MAX_BANK_ACCOUNTS <= MAX_BALANCE
  BY UserAssumption DEF OP_SHUTDOWN
<1> QED
  BY <1>1, WordRange DEF Ids, Short, Account, Amount, MIN_BALANCE

(* An operation's code is recognised when it is typed, and only then. *)
LEMMA Codes ==
  ASSUME NEW n \in Int
  PROVE  /\ \A k \in 0 .. 3 : n = k => Word(n) = k
         /\ \A k \in 0 .. 3 : Word(n) = k /\ Short(n) => n = k
         /\ Word(n) <= 3 => Word(n) \in 0 .. 3
<1>1. WORD \in Nat /\ MAX_BALANCE \in Nat /\ MAX_BALANCE < WORD /\ 3 <= MAX_BALANCE
  BY UserAssumption DEF OP_SHUTDOWN
<1> QED
  BY <1>1, WordRange DEF Short

(* A refusal of a call that is not legal, or before the FIFO is made. *)
LEMMA Refusal == Inv /\ Reject /\ (fifo => ~LegalButForDelay(argv)) /\ request = NoRequest => Inv'
<1> SUFFICES ASSUME Inv, Reject, fifo => ~LegalButForDelay(argv), request = NoRequest PROVE Inv'
  OBVIOUS
<1> QED
  BY DEF Inv, Reject, SafeForServer, SentAsTyped, RefusedForCause

LEMMA Initial == Init => Inv
  BY DEF Init, Inv, SafeForServer, SentAsTyped, RefusedForCause

(* A legal call passes the checks of the header. *)
LEMMA HeaderStep == Inv /\ Header => Inv'
<1> SUFFICES ASSUME Inv, Header PROVE Inv'
  OBVIOUS
<1>1. argv.id \in Int /\ argv.length \in Nat
  BY Fields DEF Inv
<1>2. CASE ~(Word(argv.id) < MAX_BANK_ACCOUNTS /\ ValidLength(argv.length))
  <2>1. ~LegalButForDelay(argv)
    BY <1>1, <1>2, Checks, UserAssumption DEF LegalButForDelay, ValidLength, PasswordLengths
  <2>2. Reject /\ request = NoRequest
    BY <1>2 DEF Header, Inv
  <2> QED
    BY <2>1, <2>2, Refusal
<1>3. CASE Word(argv.id) < MAX_BANK_ACCOUNTS /\ ValidLength(argv.length)
  <2>1. pc = "header" /\ pc' = "operation" /\ UNCHANGED <<argv, fifo, request, status>>
    BY <1>3 DEF Header, Reject
  <2>2. status = 0 /\ request = NoRequest /\ argv.complete
    BY <2>1 DEF Inv
  <2> QED
    BY <1>3, <2>1, <2>2 DEF Inv, SafeForServer, SentAsTyped, RefusedForCause
<1> QED
  BY <1>2, <1>3

(* An operation is refused before there is a request, its code is known. *)
LEMMA OperationFacts ==
  ASSUME Inv, pc = "operation"
  PROVE  /\ request = NoRequest /\ status = 0 /\ argv.complete
         /\ argv \in CommandLines /\ argv.id \in Int /\ argv.op \in Int
         /\ argv.length \in PasswordLengths
         /\ Word(argv.id) \in Ids /\ (Short(argv.id) => argv.id \in Ids /\ Word(argv.id) = argv.id)
         /\ argv.args \in Seq([number : Int, length : Nat])
         /\ \A i \in 1 .. Len(argv.args) : argv.args[i].number \in Int /\ argv.args[i].length \in Nat
<1>1. argv \in CommandLines /\ Word(argv.id) < MAX_BANK_ACCOUNTS /\ ValidLength(argv.length)
      /\ request = NoRequest /\ status = 0 /\ argv.complete
  BY DEF Inv
<1>2. argv.id \in Int /\ argv.length \in Nat
  BY <1>1, Fields
<1>3. argv.length \in PasswordLengths
  BY <1>1, <1>2, UserAssumption DEF ValidLength, PasswordLengths
<1> QED
  BY <1>1, <1>2, <1>3, Fields, Checks

(* The message asked for, when the numbers of the header fit. *)
LEMMA TypedMessage ==
  ASSUME Inv, pc = "operation", NEW target, NEW amount, NEW newPassword, NEW size \in Nat,
         Fits(argv), Word(argv.op) = argv.op,
         argv.op \in {0, 2} => target = argv.args[1].number /\ amount = argv.args[2].number,
         argv.op = 0 => newPassword = argv.args[3].length,
         size = CASE argv.op = 0 -> CreateSize [] argv.op = 2 -> TransferSize [] OTHER -> 0
  PROVE  Typed(Message(target, amount, newPassword, size), argv)
<1>1. Word(argv.id) = argv.id
  BY OperationFacts DEF Fits
<1>2. argv.delay \in 0 .. WORD - 1 => Word(argv.delay) = argv.delay
  BY OperationFacts, Fields, WordRange
<1> QED
  BY <1>1, <1>2 DEF Typed, Message, OP_CREATE_ACCOUNT, OP_TRANSFER

(* What a message says, and that the rest of the state is as before. *)
LEMMA Sending ==
  ASSUME Inv, pc = "operation", NEW target, NEW amount, NEW newPassword, NEW size \in Nat,
         Send(Message(target, amount, newPassword, size)),
         Word(argv.op) \in 0 .. 3, target \in Ids, amount \in 0 .. MAX_BALANCE,
         Word(argv.op) \in {0, 2} => target # 0 /\ amount >= 1,
         Word(argv.op) = 0 => newPassword \in PasswordLengths,
         size = CASE Word(argv.op) = 0 -> CreateSize
                  [] Word(argv.op) = 2 -> TransferSize
                  [] OTHER -> 0,
         Fits(argv) =>
            /\ LegalButForDelay(argv) /\ Word(argv.op) = argv.op
            /\ argv.op \in {0, 2} => target = argv.args[1].number /\ amount = argv.args[2].number
            /\ argv.op = 0 => newPassword = argv.args[3].length
  PROVE  Inv'
<1>1. /\ request'.op = Word(argv.op) /\ request'.id = Word(argv.id)
      /\ request'.password = argv.length /\ request'.target = target
      /\ request'.amount = amount /\ request'.newPassword = newPassword
  BY DEF Send, Message
<1>2. /\ pc' = "sent" /\ UNCHANGED <<argv, fifo, status>>
  BY DEF Send
<1>3. SafeForServer'
  BY <1>1, OperationFacts
     DEF SafeForServer, OP_CREATE_ACCOUNT, OP_TRANSFER, OP_SHUTDOWN, MIN_BALANCE, Ids,
         PasswordLengths
<1>4. SentAsTyped'
  <2>1. ASSUME Fits(argv) PROVE LegalButForDelay(argv) /\ Typed(request', argv)
    <3>1. Typed(Message(target, amount, newPassword, size), argv)
      BY <2>1, TypedMessage
    <3> QED
      BY <2>1, <3>1 DEF Send
  <2>2. argv' = argv
    BY <1>2
  <2> QED
    BY <2>1, <2>2 DEF SentAsTyped, Fits, LegalButForDelay, Typed
<1>5. RefusedForCause'
  BY <1>2, OperationFacts DEF RefusedForCause
<1> QED
  BY <1>2, <1>3, <1>4, <1>5 DEF Inv

(* A creation. *)
LEMMA CreateStep == Inv /\ Create => Inv'
<1> SUFFICES ASSUME Inv, Create PROVE Inv'
  OBVIOUS
<1> DEFINE valid == /\ Len(argv.args) = 3 /\ ValidLength(argv.args[3].length)
                    /\ Amount(argv.args[2].number) /\ Account(argv.args[1].number)
<1>1. pc = "operation" /\ Word(argv.op) = 0
  BY DEF Create, Operation, OP_CREATE_ACCOUNT
<1>2. CASE ~valid
  <2>1. ~LegalButForDelay(argv)
    <3>1. SUFFICES ASSUME LegalButForDelay(argv) PROVE valid
      BY <1>2
    <3>2. argv.op = 0
      BY <1>1, <3>1, OperationFacts, Codes DEF LegalButForDelay, OP_CREATE_ACCOUNT, OP_BALANCE,
           OP_TRANSFER, OP_SHUTDOWN
    <3>3. /\ Len(argv.args) = 3 /\ argv.args[1].number \in Ids \ {0}
          /\ argv.args[2].number \in MIN_BALANCE .. MAX_BALANCE
          /\ argv.args[3].length \in PasswordLengths
      BY <3>1, <3>2 DEF LegalButForDelay, OP_CREATE_ACCOUNT, OP_BALANCE, OP_TRANSFER, OP_SHUTDOWN
    <3>4. argv.args[1].number \in Int /\ argv.args[2].number \in Int /\ argv.args[3].length \in Nat
      BY <1>1, <3>3, OperationFacts
    <3>5. Account(argv.args[1].number) /\ Amount(argv.args[2].number)
      BY <3>3, <3>4, Checks
    <3>6. ValidLength(argv.args[3].length)
      BY <3>3, UserAssumption DEF ValidLength, PasswordLengths
    <3> QED
      BY <3>3, <3>5, <3>6
  <2>2. Reject
    BY <1>2 DEF Create
  <2> QED
    BY <1>1, <2>1, <2>2, Refusal, OperationFacts
<1>3. CASE valid
  <2> DEFINE target == Word(argv.args[1].number)
             amount == Word(argv.args[2].number)
  <2>1. Send(Message(Word(argv.args[1].number), Word(argv.args[2].number), argv.args[3].length, CreateSize))
    BY <1>3 DEF Create
  <2>2. /\ argv.args[1].number \in Int /\ argv.args[2].number \in Int /\ argv.args[3].length \in Nat
    BY <1>1, <1>3, OperationFacts
  <2>3. /\ Word(argv.args[1].number) \in Ids \ {0}
        /\ Word(argv.args[2].number) \in MIN_BALANCE .. MAX_BALANCE
        /\ argv.args[3].length \in PasswordLengths
    BY <1>3, <2>2, Checks, UserAssumption DEF ValidLength, PasswordLengths
  <2>4. ASSUME Fits(argv)
        PROVE  /\ argv.op = 0 /\ LegalButForDelay(argv)
               /\ Word(argv.args[1].number) = argv.args[1].number
               /\ Word(argv.args[2].number) = argv.args[2].number
    <3>1. Short(argv.op) /\ Short(argv.id) /\ Short(argv.args[1].number) /\ Short(argv.args[2].number)
      BY <1>1, <1>3, <2>4, OperationFacts DEF Fits
    <3>2. argv.op = 0
      BY <1>1, <3>1, OperationFacts, Codes
    <3>3. /\ argv.args[1].number \in Ids \ {0} /\ Word(argv.args[1].number) = argv.args[1].number
          /\ argv.args[2].number \in MIN_BALANCE .. MAX_BALANCE
          /\ Word(argv.args[2].number) = argv.args[2].number
      BY <1>3, <2>2, <3>1, Checks
    <3> QED
      BY <1>1, <1>3, <2>3, <3>1, <3>2, <3>3, OperationFacts DEF LegalButForDelay,
           OP_CREATE_ACCOUNT
  <2>5. /\ target \in Ids /\ target # 0 /\ amount \in 0 .. MAX_BALANCE /\ amount >= 1
        /\ CreateSize \in Nat /\ CreateSize = CASE Word(argv.op) = 0 -> CreateSize
                                                [] Word(argv.op) = 2 -> TransferSize
                                                [] OTHER -> 0
    BY <1>1, <2>3, UserAssumption DEF Ids, MIN_BALANCE, OP_SHUTDOWN
  <2>6. Fits(argv) =>
            /\ LegalButForDelay(argv) /\ Word(argv.op) = argv.op
            /\ target = argv.args[1].number /\ amount = argv.args[2].number
    BY <1>1, <2>4
  <2>7. Word(argv.op) \in 0 .. 3 /\ argv.args[3].length \in PasswordLengths
    BY <1>1, <2>3
  <2> QED
    BY <1>1, <2>1, <2>5, <2>6, <2>7, Sending
<1> QED
  BY <1>2, <1>3

(* A transfer. *)
LEMMA TransferStep == Inv /\ Transfer => Inv'
<1> SUFFICES ASSUME Inv, Transfer PROVE Inv'
  OBVIOUS
<1> DEFINE valid == Len(argv.args) = 2 /\ Account(argv.args[1].number) /\ Amount(argv.args[2].number)
<1>1. pc = "operation" /\ Word(argv.op) = 2
  BY DEF Transfer, Operation, OP_TRANSFER
<1>2. CASE ~valid
  <2>1. ~LegalButForDelay(argv)
    <3>1. SUFFICES ASSUME LegalButForDelay(argv) PROVE valid
      BY <1>2
    <3>2. argv.op = 2
      BY <1>1, <3>1, OperationFacts, Codes DEF LegalButForDelay, OP_CREATE_ACCOUNT, OP_BALANCE,
           OP_TRANSFER, OP_SHUTDOWN
    <3>3. /\ Len(argv.args) = 2 /\ argv.args[1].number \in Ids \ {0}
          /\ argv.args[2].number \in MIN_BALANCE .. MAX_BALANCE
      BY <3>1, <3>2 DEF LegalButForDelay, OP_CREATE_ACCOUNT, OP_BALANCE, OP_TRANSFER, OP_SHUTDOWN
    <3>4. argv.args[1].number \in Int /\ argv.args[2].number \in Int
      BY <1>1, <3>3, OperationFacts
    <3>5. Account(argv.args[1].number) /\ Amount(argv.args[2].number)
      BY <3>3, <3>4, Checks
    <3> QED
      BY <3>3, <3>5
  <2>2. Reject
    BY <1>2 DEF Transfer
  <2> QED
    BY <1>1, <2>1, <2>2, Refusal, OperationFacts
<1>3. CASE valid
  <2>1. Send(Message(Word(argv.args[1].number), Word(argv.args[2].number), 0, TransferSize))
    BY <1>3 DEF Transfer
  <2>2. /\ argv.args[1].number \in Int /\ argv.args[2].number \in Int
    BY <1>1, <1>3, OperationFacts
  <2>3. /\ Word(argv.args[1].number) \in Ids \ {0}
        /\ Word(argv.args[2].number) \in MIN_BALANCE .. MAX_BALANCE
    BY <1>3, <2>2, Checks
  <2>4. ASSUME Fits(argv)
        PROVE  /\ argv.op = 2 /\ LegalButForDelay(argv)
               /\ Word(argv.args[1].number) = argv.args[1].number
               /\ Word(argv.args[2].number) = argv.args[2].number
    <3>1. Short(argv.op) /\ Short(argv.id) /\ Short(argv.args[1].number) /\ Short(argv.args[2].number)
      BY <1>1, <1>3, <2>4, OperationFacts DEF Fits
    <3>2. argv.op = 2
      BY <1>1, <3>1, OperationFacts, Codes
    <3>3. /\ argv.args[1].number \in Ids \ {0} /\ Word(argv.args[1].number) = argv.args[1].number
          /\ argv.args[2].number \in MIN_BALANCE .. MAX_BALANCE
          /\ Word(argv.args[2].number) = argv.args[2].number
      BY <1>3, <2>2, <3>1, Checks
    <3> QED
      BY <1>1, <1>3, <3>1, <3>2, <3>3, OperationFacts DEF LegalButForDelay, OP_TRANSFER
  <2> QED
    BY <1>1, <1>3, <2>1, <2>3, <2>4, UserAssumption, Sending DEF Ids, MIN_BALANCE, OP_SHUTDOWN
<1> QED
  BY <1>2, <1>3

(* A look-up or a shutdown, and an unknown code. *)
LEMMA PlainStep == Inv /\ (Plain \/ Unknown) => Inv'
<1> SUFFICES ASSUME Inv, Plain \/ Unknown PROVE Inv'
  OBVIOUS
<1>1. pc = "operation"
  BY DEF Plain, Unknown, Operation
<1>2. LegalButForDelay(argv) => Word(argv.op) = argv.op /\ argv.op \in 0 .. 3
  BY <1>1, OperationFacts, Codes DEF LegalButForDelay, OP_CREATE_ACCOUNT, OP_BALANCE,
       OP_TRANSFER, OP_SHUTDOWN
<1>3. CASE Plain /\ argv.args # <<>>
  <2>1. Word(argv.op) \in {1, 3} /\ Reject
    BY <1>3 DEF Plain, Operation, OP_BALANCE, OP_SHUTDOWN
  <2>2. ~LegalButForDelay(argv)
    BY <1>2, <1>3, <2>1 DEF LegalButForDelay, OP_CREATE_ACCOUNT, OP_BALANCE, OP_TRANSFER,
         OP_SHUTDOWN
  <2> QED
    BY <1>1, <2>1, <2>2, Refusal, OperationFacts
<1>4. CASE Plain /\ argv.args = <<>>
  <2>1. Word(argv.op) \in {1, 3} /\ Send(Message(0, 0, 0, 0))
    BY <1>4 DEF Plain, Operation, OP_BALANCE, OP_SHUTDOWN
  <2>2. ASSUME Fits(argv) PROVE argv.op = Word(argv.op) /\ LegalButForDelay(argv)
    <3>1. Short(argv.op) /\ Short(argv.id)
      BY <2>2 DEF Fits
    <3>2. argv.op = Word(argv.op)
      BY <1>1, <2>1, <3>1, OperationFacts, Codes
    <3> QED
      BY <1>1, <1>4, <2>1, <3>1, <3>2, OperationFacts DEF LegalButForDelay, OP_BALANCE,
           OP_SHUTDOWN
  <2>3. 0 \in Ids /\ 0 \in 0 .. MAX_BALANCE /\ Len(argv.args) = 0
    BY <1>4, UserAssumption DEF Ids, OP_SHUTDOWN
  <2> QED
    BY <1>1, <2>1, <2>2, <2>3, Sending
<1>5. CASE Unknown
  <2>1. Reject /\ Word(argv.op) > 3
    BY <1>5 DEF Unknown, OP_SHUTDOWN
  <2>2. ~LegalButForDelay(argv)
    BY <1>2, <2>1
  <2> QED
    BY <1>1, <2>1, <2>2, Refusal, OperationFacts
<1> QED
  BY <1>3, <1>4, <1>5

LEMMA Steps == Inv /\ [Next]_vars => Inv'
<1> SUFFICES ASSUME Inv, [Next]_vars PROVE Inv'
  OBVIOUS
<1>1. CASE Begin
  BY <1>1 DEF Begin, Reject, Inv, SafeForServer, SentAsTyped, RefusedForCause
<1>2. CASE Leave
  BY <1>2 DEF Leave, Inv, SafeForServer, SentAsTyped, RefusedForCause
<1>3. CASE UNCHANGED vars
  BY <1>3 DEF vars, Inv, SafeForServer, SentAsTyped, RefusedForCause
<1> QED
  BY <1>1, <1>2, <1>3, HeaderStep, CreateStep, TransferStep, PlainStep DEF Next

LEMMA Invariance == Spec => []Inv
  BY Initial, Steps, PTL DEF Spec

(* Whatever is typed, the server gets nothing but what its handlers take    *)
(* for granted, the assumption on Requests in Accounts.                     *)
THEOREM RequestsAreSafe == Spec => []SafeForServer
  BY Invariance, PTL DEF Inv

(* If the numbers fit, a request is the one typed, field by field, and is   *)
(* within every limit but that of the delay, which nobody checks.           *)
THEOREM RequestsAreTyped == Spec => []SentAsTyped
  BY Invariance, PTL DEF Inv

(* No call that is legal, whatever its delay, is refused once the FIFO is   *)
(* made.                                                                    *)
THEOREM RefusalsHaveCause == Spec => []RefusedForCause
  BY Invariance, PTL DEF Inv

=============================================================================
