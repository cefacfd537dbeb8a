# Verification of the SOPE 2018/19 projects

This directory holds TLA+ models of the two programs in `src/`, the home-banking
server with its user program (`Trabalho_2`) and `forensic` (`Trabalho_1`), TLC
configurations that check them on small instances, and TLAPS proofs of their
properties for instances of any size. `PROJECT.json` lists the runs, the mutations
that show that each property can fail, the source lines of every definition,
the hazards, the findings and the theorems.

## 1. The systems

**`Trabalho_2`** (2300 lines of C): a multi-threaded bank server and a program with
which a user sends it one request. They talk through FIFOs.

| Part | State | Operations | Talks to |
|---|---|---|---|
| User's arguments (`user.c`: first half of `main`) | the user's own FIFO, the request | makes the FIFO, checks the command line, fills the request | hands the request to the session |
| Session (`user.c`; `readRequest`, `writeReply`, `main`, `handleShutdown` of `server.c`) | the server FIFO `/tmp/secure_srv` and its permissions, one reply FIFO per user, the user's alarm | a user sends one request, waits for the reply at most `FIFO_TIMEOUT_SECS`, logs a return code and ends | open, read, write, close and unlink of FIFOs; `SIGALRM`, `SIGPIPE` |
| Request queue (`server.c`: `main`, `bankOfficeFunction`, the `sync*` functions) | `requests`, `bufferIn`, `bufferOut`, `slots`, `items`, `fifoClosed`, `workingThreads`, three mutexes, two condition variables | one producer (main thread) stores what it reads from the server FIFO; up to 99 consumers (bank offices) fetch and serve it; the end of file closes the queue | offices call the handlers; `handleShutdown` closes the server's own write end |
| Accounts (`server.c`: `handle*`, `createAccount`, `transferAmount`, `checkPassword`) | `accounts`, `numAccounts`, one mutex per account id | create account, check balance, transfer | called by the offices side by side; call `generateHash` |
| Coprocess (`aux.c`: `generateHash`) | two pipes and a child per call | `sha256sum` hashes password and salt | called by several offices at a time; children inherit descriptors |
| Server log (`log.c` and its calls) | `slog.txt` | each thread formats a line and appends it with one `write` | main thread and offices, some lines inside critical sections |
| Test output (`aux.c`: `printRequest`, `printReply`) | none | | |

**`Trabalho_1`** (790 lines): `forensic` prints a line about each file of a directory tree.

| Part | State | Operations | Talks to |
|---|---|---|---|
| Options (`forensic.c`: `extractOptions`, `extractHOptions`; `others.c`) | `boolArray`, the index of the output file | reads `argv`, opens the files | |
| Tree of processes (`forensic.c`: `analiseDir`, `analiseFile`; `forensicAux.c`) | one process per directory, its working directory, two sums, output and log | forks one child per subdirectory, analyses the files, waits | exit statuses; `SIGUSR1`/`SIGUSR2` to the first process; `SIGINT` |

What is hard here: one producer and many consumers over two monitors and an
array with a lock of its own; a flag written without a lock; per-account
mutexes taken in pairs; a shared counter used under the wrong mutex; FIFOs
whose `open` waits, whose last `close` is the end of file, and whose write
without a reader is fatal; a time-out that may go off at any moment; children
that inherit descriptors of other threads; a log file written by everybody
without a lock; numbers of 64 bits stored in 32; signals that do not queue, and
an interrupt that reaches a whole tree of processes.

What makes each part correct:

* Arguments: the server gets requests its handlers can take, the ones typed.
* Session: the code a user logs is the server's; a request that was sent is
  carried out; everybody ends; the server does not end before its users.
* Queue: requests are served in order, none twice, none never; cells are not
  overwritten; no wake-up is lost; an office ends only when nothing can come.
* Accounts: handlers running side by side act and answer as if one request was
  served at a time; balances stay in range; mutexes are neither leaked nor
  waited for in a circle.
* Coprocess: a call returns the hash of its input.
* Log: what is written without a lock still tells what happened in which order, and at
  the end all that the threads had to say is there.
* Options: what the usage line allows is carried out, and nothing else.
* Tree: a good end means a complete output, but for a `write` whose result nobody looks
  at; a failure has a cause; Ctrl-C cuts no
  analysis short; sums are never too large; every process ends.

## 2. Modules

| Module | Models | Abstract specification | Proofs |
|---|---|---|---|
| `RequestQueue` | main thread and offices around the circular array | `RequestFifo` | `RequestQueue_proofs` |
| `Accounts` | account handlers | `Ledger` (`SpecWithLapse`) | `Accounts_proofs` |
| `Session` | users, server and FIFOs | | `Session_proofs` |
| `Coprocess` | calls of `generateHash` | | `Coprocess_proofs` |
| `UserArguments` | the user's command line | the legal calls (`Legal`) | `UserArguments_proofs` |
| `ServerLog` | the lines of `slog.txt` | | `ServerLog_proofs` |
| `Forensic` | the tree of processes | | `Forensic_proofs` |
| `ForensicOptions` | the command line of `forensic` | the usage line (`IsCall`) | `ForensicOptions_proofs` |
| `MC*` | constants and symmetry for TLC | | |

The server is cut along its interfaces. A request is opaque in `RequestQueue`
(only whether it is a shutdown that is accepted matters), an office in
`Accounts` takes any request at any time (the queue promises no more than
that, see `IsFifo`), and in `Session` the queue is a sequence and a handler one
step. What the parts share is small: the shutdown (`dummyOpen` in
`RequestQueue`, `Session` and `ServerLog`), the control of an office, and the form
of a request, which `UserArguments` makes (`SafeForServer`) and `Accounts` assumes
(`AccountsAssumption`).

### RequestQueue

Each variable has the name of the C global. A thread's control is `mainPc` or
`pc[o]`, named after what it does next.

* `slots_lock` and `items_lock` guard a counter and a wait set only, so
  `syncSlotsMainThread`, `syncItemsMainThread` and `syncSlotsBankOffice` are one
  step each. `syncItemsBankOffice` is cut where the code reads `fifoClosed`,
  which the main thread writes without `items_lock`: `ItemsTest` (lock and test),
  then `ItemsSleep` (`pthread_cond_wait`) or `ItemsTake`, with `itemsLock` held in
  between. A thread woken from `pthread_cond_wait` goes back to the test; the
  source repeats the test in the loop (line 940), to the same effect.
* Both accesses to the array are cut inside the lock (`Store`/`AdvanceIn`,
  `Fetch`/`AdvanceOut`), so that the lock matters to the model.
* `pthread_cond_signal` wakes any one waiting thread; `Spurious` wakes one without
  a signal, as POSIX allows.
* `Serve` stands for every handler except an accepted shutdown. `Shutdown` closes
  `fdFifoServerDummy`; a second one finds the number closed (`ShutdownFails`, the
  process exits) or in use again (`ShutdownRobs`, then `RobbedFails` at the
  other office).
* The reply is cut at the two calls that depend on the user. `open` of the user's FIFO fails
  (`UserDown`), returns (`MeetUser`) or never returns, when the user was ended by its alarm
  between the look-up of the name and its own `open` (`UserGone`: the office is "stuck").
  The `write` is done (`WriteReply`) or kills the process by `SIGPIPE` (`BrokenPipe`). The
  user itself is in `Session`; here all of these may happen at any reply.
* `generateHash` may never return: `RingOfCoprocesses` takes at least two offices in
  handlers, or some that join a ring that is there, and they are "hung". How a ring comes
  about is in `Coprocess`. `Lost` are the offices that are stuck or hung.
* `unsent` are the requests users may still write. The end of file needs the
  dummy descriptor to be closed; whether users still have the FIFO open is the
  business of `Session`, and reading after the shutdown is therefore optional.

### Accounts

One step per access that another office can see: lock, unlock, each statement
of `createAccount` (`SetId` ... `Store`; `numAccounts++` is a load and a store), both
halves of `transferAmount`. `Assign` sets `up` to FALSE when the code would write
past `accounts[]`. Cells not in use are zero and hence have the administrator's
id, as in C; `Find` returns the first match. Balances are words (`Add` and `Sub`
modulo `WORD`). Requests are what `user.c` lets through (`AccountsAssumption`).
A hash is a pair of password and salt, a salt the name of the request that drew
it; hashing itself is in `Coprocess`. A balance read from an account that is gone
is any word, for the variable is not initialised then (`BalanceOf`).

`SerialCreates` distinguishes two environments. TRUE: the administrator waits for
an answer before it asks for the next account. FALSE: creations of different
ids run side by side. The second breaks `createAccount` (section 3), so the
properties of the bank are claimed for the first.

`Ledger` is the promise: a request takes effect at one moment and is answered OK
or with the first error, in the order of `types.h`, that applies then (`Spec`). The code
does not keep it: `types.h:28` says NO_FUNDS when the final balance is below
`MIN_BALANCE`, and `server.c:695` only refuses what leaves a negative one. `Lapse` is this
exception and nothing else, a transfer that leaves between 0 and `MIN_BALANCE - 1`, and
`IsLedger` says that the server is `SpecWithLapse`; `IsLedgerOfTypesH`, without the lapse,
fails (`bank_min_balance.cfg`). The
mapping hides an account until `Verify`, and counts a transfer when it debits:
nobody can see the account that is still to be credited, for its mutex is held.

### Session

A user's labels follow `user.c`: `lookUp` and `openServer` are the two halves of the
`open` at line 238 (the check of name and permissions, the wait for a reader),
`send` is line 255 with the `alarm` after it, `openReply` line 265, `read` line 271,
`cancel` line 274, `log` lines 290 to 296. `Alarm` may come at `openReply`, `read`
and `cancel`. An office does the same on the other side: `LookUpUser`, `MeetUser`
(open at line 210), `WriteReply` or `BrokenPipe` (line 225), `CloseUser`.

FIFOs follow POSIX: `Writers` are the users that have the server FIFO open;
`ReadEof` needs it empty and without writers, the dummy included; data are lost
when the last descriptor is closed (`SentAfter`, `Die`). `Start` takes an existing
FIFO as it is (`EEXIST`, line 80), so a server that died leaves its permissions
and, perhaps, requests to the next one. `late` is a history variable: users
whose `open` passed the permissions before `fchmod` and returned only after the
server had read the end of file.

A coprocess inherits the server's descriptors, which may delay the end of file
until it exits; this only delays `ReadEof` and is not modelled. An attempt to
close `fdFifoServerDummy` twice always ends the process here (`ShutdownAgain`);
the other outcome is in `RequestQueue`.

### Coprocess

A call is a pair of office and number. `OpenEnds` are the write ends of the first
pipes that the server has open; `Fork` copies them to the child, `SetUp` removes
the child's own one, `Exit` closes them all. `Hash` needs the end of file. The
second pipe is left out, as its reader waits for data, not for an end of file.

### UserArguments

One step per part of the command line, in the order of `main`: `Begin` (the number of
arguments, and `mkfifo`), `Header` (id and password), then the operation. Numbers are
the integers that `strtol`, in `atoi`, finds, and `Word` is their assignment to 32
bits; text counts as 0. A password is its length, for nothing else is looked at:
`strtok` splits the operation's arguments at the blanks, so `hasSpaces` never finds
one. `Legal` says which calls are within the limits of `constants.h`, independently of the
checks, and `LegalButForDelay` leaves out `MAX_OP_DELAY_MS`, which the code never looks at:
a negative delay, or one that is too long, is sent (`SentIsLegal` fails, `user_delay_limit.cfg`).
`Typed` compares the whole request with the command line, password, new password and delay
included.

### ServerLog

A thread is at an instruction, `pc`: lock, unlock, an access to the queue, or a line
(`say...`), which is formatted in one step and appended in another, as `atomicPrintf`
does. `BufferOf` is the buffer it is formatted into, `LineAt` what is said where.
`AfterMain`, `AfterFetching` and `AfterOuter`/`AfterInner` are the programs of `main`,
`bankOfficeFunction` and the handlers, with the calls of `log.c` where the source has
them: inside `buffer_lock`, inside or just behind the section of an account
(`First(r)`, and `Second(r)` in a transfer). A request is its number in `arriving`. What a
handler decides is left out (`Accounts`).

### Forensic

A process has the name of its directory. A step is a system call with what follows up
to the next one; order of directory entries is free. `analiseDir` is `LogDir` and
`SignalDir` (with `-o`), `Open`, `Fork` for each subdirectory, `ChangeDir`, then
`analiseFile` for each file (`BeginFile`, `SignalFile`, `WriteLine`, `LogFile`, with
`SIGINT` blocked), `Wait` for each child and `Finish`. `Failing` are the places where a
system call or a command may fail; a failure ends its process, and the exit status
goes up through `Wait`, except that of a `write`: its result is looked at nowhere. For the
output the files whose line was lost are `unwritten`, and their process goes on to the
ANALYZED line; for the log, `sent` and `analyzed` are the lines handed to `write`. A signal that is not blocked is handled before the process's
next step (`Undisturbed`); those to the first process are a set (`usr`), for standard
signals do not queue. `Interrupt` is Ctrl-C, which reaches every process of the group;
`Killed` a `SIGKILL` from outside. Nothing stops the others then: children outlive a
parent that failed, as in the code.

### ForensicOptions

One round of the loop of `extractOptions` per step, one action per option. Arguments are
a small set of words: the flags, a list `-h` takes, a name. `IsCall` says of an argument
list that the usage line allows it: it can be cut into items (`Begins`) that are different
options with what they take, and a name at the end. The brackets of the usage line are not
balanced at `-h` (`others.c:15`), so `IsCall` reads them as `[-h <list>]`; and what a list may
be is what `extractHOptions` takes. `MCForensicOptions` also writes the
legal calls down as a set of sequences, and has TLC compare the two.

## 3. Runs

All passing runs explore the whole state space of their instance. `CHECK_DEADLOCK`
is switched off where the system may stop: the programs end, the log's users cease,
calls of `generateHash` are used up or wait in a ring.

| Run | Instance | Result |
|---|---|---|
| `queue_fair` | 2 offices, 2 cells, 4 requests, 2 of them accepted shutdowns, fair (177 000 states) | invariants; `RequestFifo` implemented; progress while the process lives and an office is not lost |
| `queue_lost_wakeup` | the same with 1 shutdown | **violation** of `ShutdownCompletes` |
| `bank_serial` | 2 offices, 3 ids, balances to 3, 10 requests, creations one at a time, fair (28 000) | invariants, `Ledger` with its lapse, answers |
| `bank_create_race` | 2 offices, 2 creations side by side | **violation** of `CreatedAsAsked` |
| `session` | 2 users, either may be the administrator, 2 offices, 1 restart, fair | answers, order of the end, progress |
| `session_sigpipe` | 1 user, 1 office | **violation** of `ServerSurvivesUsers` |
| `hash_calls` | 3 offices, 2 calls each | hash of the input; stops only in rings |
| `hash_deadlock` | 2 offices, 1 call each, fair | **violation** of `HashIsGenerated` |
| `user_arguments` | all command lines of the bounds below | safe, as typed, refused for a cause (1 820 000) |
| `server_log` | 2 offices, 2 or 3 requests (231 000) | order of the lines; all of each handler's, and no other |
| `forensic_tree` | 4 directories, 2 files, failures, kills, Ctrl-C, fair (336 000) | complete but for failed `write`s, quiet, whole; every process ends |
| `forensic_options` | all command lines of up to 6 of 6 words (145 000) | usage line, inside `argv`, right file |

Further configurations stand beside the runs. `bank_racing.cfg` passes: types and the
administrator's account with three creations side by side in a bank for four, holes and
overruns included; that cell 0 is never written does not mean that nothing behind the
array is. Each of the others reproduces one deviation of the code, the
violation of the property it names:

| Configuration (module) | Property | What the code does |
|---|---|---|
| `queue_second_shutdown` (`MCRequestQueue`) | `EndsOnlyWhenIdle` | an accepted shutdown closes the descriptor again (`server.c:776`); the process exits with requests pending |
| `bank_min_balance` (`MCAccounts`) | `IsLedgerOfTypesH` | `RC_NO_FUNDS` is given when the amount exceeds the balance (`server.c:695`), not when less than `MIN_BALANCE` is left (`types.h:28`) |
| `session_late_write` (`MCSession`) | `UserSurvivesServer` | a user that writes after the server's end is killed by `SIGPIPE` (`user.c:255`) and logs nothing |
| `session_false_ok` (`MCSession`) | `OkIsTrue` | a read of 0 bytes counts as a reply (`user.c:311`); when the server dies the zero reply is OK |
| `session_open_waits` (`MCSession`) | `OpenEnds` | a FIFO that a dead server left has no reader, and the `open` no time-out (`user.c:238`) |
| `user_fifo_left` (`MCUserArguments`) | `FifoRemoved` | the FIFO is made (`user.c:55`) before the arguments are checked, and a refusal leaves it |
| `user_id_wraps` (`MCUserArguments`) | `InvalidIdIsRefused` | a number is cut to 32 bits before it is compared (`user.c:75`) |
| `user_delay_wraps` (`MCUserArguments`) | `SleepsAsAsked` | milliseconds become microseconds in 32 bits (`server.c:547`) |
| `user_delay_limit` (`MCUserArguments`) | `SentIsLegal` | no delay is compared with `MAX_OP_DELAY_MS` (`constants.h:15`, `user.c:71`) |
| `forensic_lost_line` (`MCForensic`) | `OutputIsComplete` | the result of `write` is ignored (`forensic.c:90`): a line is lost and the exit status is 0 |
| `forensic_sums` (`MCForensic`) | `SumsAreRight` | signals that come while one is pending are counted once (`forensic.c:40`) |
| `forensic_killed` (`MCForensic`) | `DeathIsNoticed` | `WEXITSTATUS` without `WIFEXITED` is 0 for a killed child (`forensic.c:188`) |
| `forensic_interrupt` (`MCForensic`) | `InterruptHasItsCode` | `SIGINT` after `main` has closed the files closes them again (`forensicAux.c:216`), exit status 5 instead of 7 |

Bounds:

* Queue: two cells and four requests make the indices wrap, the queue full and
  empty, and both offices and the main thread sleep; two offices are enough for
  competition for an item, and for one that misses what the other does. The second
  shutdown meets the closed descriptor.
* Accounts: two clients and two offices give opposite transfers, a transfer
  against a creation or a look-up of the same account, and a full bank (three
  cells). Balances to 3 in words of 8 let a sum exceed the limit without
  wrapping, as 2 * 10^9 does in 32 bits. Both clients start with 2 and move 1
  and 2, so every refusal occurs.
* Session: two users give a shutdown against a request, two shutdowns, and a
  user that keeps the FIFO open for another; two offices serve both at once. A
  third user multiplies the states beyond a liveness run of minutes. One restart
  gives every state a FIFO may be left in.
* Coprocess: rings of two and of three; a second call lets a coprocess outlive the
  call it belongs to.
* User's arguments: ids 0 to 3, balances to 4, delays to 2, words of 16 values. Numbers lie on both
  sides of each limit, below zero, and beyond a word (17 and -15 are 1 modulo 16);
  lists have from none to four arguments.
* Log: two offices, and seven sequences of arrivals that put every kind of request next
  to another one at the same account or to a shutdown; one has three requests, so that an
  office fetches twice while the other still works.
* Forensic: the tree has a directory with two subdirectories, one of which has another,
  so that statuses go up two levels and processes at the same level race. One directory
  and one file may fail; any process but the first may be killed.
* Options: the longest legal call has seven arguments; with six, each three options
  occur together in every order, repeated, and with an argument missing.

### Fairness

* Queue: a thread that can run does (`WF`), mutexes included, for their owners
  give them back after a few steps. Reading a request is not fair (users need not
  come), nor are spurious wake-ups, which must stop in the end. An `open` of a user FIFO is
  decided in the end, for the user or its alarm comes, but nothing says in whose favour:
  the office may be lost, the write may kill the process, and no fairness prevents that a
  ring of coprocesses forms. So `EveryRequestServed` and `SlotComesBack` except a process
  that died and the loss of all offices, and `SleepersAreDismissed` an office that is lost
  itself. They say that offices which are not lost go on, whatever the others wait for.
* Accounts: offices are fair, and requests cease in the end: without that,
  POSIX mutexes, which promise no order, may starve an office for ever.
* Session: processes that can go on do and the alarm goes off. Users need not
  start, and nobody need restart the server.
* Coprocess: threads and children that can go on do.
* Forensic: processes that can go on do, and signals are delivered. Nobody need press
  Ctrl-C or kill.

### Findings

1. **Lost wake-up at the end** (`queue_lost_wakeup`). `fifoClosed` is set and
   `items_cond` broadcast without `items_lock` (`server.c:106`, `111`). An office between
   its test and `pthread_cond_wait` sleeps for ever, and so does the join.
   `SleepersAreDismissed` shows that all others are reached.
2. **Creations side by side** (`bank_create_race`). `createAccount` holds the mutex of
   one id but uses the shared `numAccounts` (`server.c:788-800`).
3. **SIGPIPE** (`session_sigpipe`). `RC_USR_DOWN` is meant for a user that went away
   (`server.c:419`), but the signal kills the server.
4. **Coprocesses wait for each other** (`hash_deadlock`). Write ends inherited across
   `fork` (`aux.c:53`) form a ring. `AllAnswered` and `RequestCarriedOut` hold apart from it:
   hashing is one step in `Accounts` and `Session`.

The passing properties name the other weak points as exceptions: an office may be
stuck at a user that is gone (`Stuck`, `Lost`), a payer may be left with less than the minimum
(`Lapse`), a line of `forensic` may be lost (`unwritten`), the delay has no limit
(`LegalButForDelay`), a user whose `open` was under way during the
shutdown may send a request nobody reads (`late`), after the death of the server
(`Died`) a user may log OK for a reply that never came, numbers beyond a word are taken
for others (`Fits`), and a killed child passes for a good one (`Survived`).

## 4. Proofs

Each theorem holds for every value of the constants under the module's
assumption: `QueueAssumption` (finitely many offices, at least one cell, distinct
names), `AccountsAssumption` (what `user.c` lets through, words that hold twice
the limit, distinct names), `CoprocessAssumption` (at least one call), `SessionAssumption`
(administrators are users, distinct names), `UserAssumption` (limits fit into a word),
`ServerLogAssumption` (at least one office, requests within the limits, users that differ,
for each has its own pid), `ForensicAssumption` (finitely many directories, which form a
tree) and `OptionsAssumption` (a list of algorithms is not a flag). The theorems on the
serial bank and on the ledger have the hypothesis `SerialCreates` besides.

**RequestQueue.** `TypeOK` alone is not inductive: `workingThreads - 1` and `slots - 1`
must be shown not to go below zero. The argument is layered.

1. `Typing` = `TypeOK` and `WorkingThreadsExact`: a count of offices in a set of control
   states is a cardinality, and `CountMoves` says how a step of one office changes
   it. Gives `TypeCorrect` and `WorkingThreadsCorrect`.
2. `SlotAccounting` is inductive over `TypeOK` (`SlotsCorrect`).
3. `NoLostSignal`: an item and a waker are added together, and a waker leaves only
   with an item or when there is none (`SignalsCorrect`).
4. `ClosedOfficeSawEmpty` needs `ClosedIsLast`: `fifoClosed` and the main thread's
   control agree (`ClosingCorrect`).
5. `LockOwners` is inductive over types (`LocksCorrect`).
6. `BufferAccounting` needs modular arithmetic, which is reduced to the lemmas
   `Wrap`, `WrapSuccessor` and `WrapDistinct`, and `OccupiedBound` from 2
   (`BufferCorrect`). `NoCellOverwritten` follows from 2 and 6 (`CellsCorrect`).
7. `QueueImplementsFifo`: with `Contents` (what is stored are requests, an office
   that has copied one holds the one at `bufferOut`) `AdvanceIn` is `Put`,
   `AdvanceOut` is `Get`, `Finish` is `Done`, and every other step stutters.
8. `QueueStopsServed`: when no thread of a living process can go on (`Standstill`), either all
   offices are lost or both mutexes are free, for an owner goes on, and every office that is
   not lost sleeps or has ended; by 3 and 4 no item is left, and by 2 the main thread does not
   wait for a slot. What remains is a server that waits for users, has ended, or joins an
   office that is lost or that the broadcast missed (finding 1), with no request left but in
   the hands of the lost ones.

**Accounts** (`Accounts_proofs`), with creations side by side as well. `Inv` = `TypeOK`,
`Stage` (what an office's control says about its request, reply and indices) and
`AdminFirst` (`AdminUntouched`, and `numAccounts` is positive, so that no creation ever
writes cell 0, not even with lost increments). `MutexesCorrect` and `NoOfficesInARing`
follow the lock order; the latter says that an office waits only for a mutex with a
larger id than all it holds, so no circle of waiting offices exists, for any number of
them. `HandlersGoOn` draws the conclusion: while an office waits there is one in a
handler that does not, namely the owner of the highest mutex that is waited for.

**The serial bank** (in `Accounts_proofs`). `SerialInv` has four parts: one creator at a time
(`Solo`); the cells in use are those before `numAccounts`, with different ids (`Array`);
balances in range; and for each office `Own`: there is room when it creates (`Room`), the
new cell holds what was written so far (`Progress`), and the checks of a transfer still
hold (`Working`). The point is that an office's part is not disturbed by others. A step
is `Careful` when it writes only accounts whose mutex its office holds, and the free
cell; every step is, and `OthersUndisturbed` concludes with the ownership of mutexes.
Sums and differences do not wrap because the terms are in range (`SumFits`,
`DifferenceFits`).

**The ledger** (in `Accounts_proofs`). `AccountsImplementLedger`: every step of the handlers is one
of `Ledger`, its lapse included, or a stutter; `RuleOrLapse` says that a verdict by the code's
test is one by the rule of `types.h` or the lapse. To `SerialInv` it adds `Known`: accounts are sealed with a
password and their salt, and an office that is past `checkPassword` works for an owner
whose password is still that of the account (`Vouched`), so that the check, done before
the mutex is taken, still counts when the request takes effect. `Shows` reads the view
of an account case by case: hidden while it is made, credited in advance while a
transfer is half done. `Unseen` then says which steps change nothing of the view, and
each effect is matched: refusals at `Authenticate`, `Capacity` and `Decide` with the first
error that applies, `Verify` with a creation, `Read` with a look-up, `Debit` with a
transfer. That a full array means that every id is taken, so that "no room" and "id in
use" are one error to the ledger, is a pigeonhole argument (`FullBank`).

**Coprocess.** `HashOfInput` needs `Order`: a child exists from `fork` on, and past
the write the input is there. A child whose input is missing has a writer, the
server itself. `StopsAreRings`: at a `Standstill` no office has a write end open any more,
and whoever waits for an end of file waits for a coprocess that waits itself, so that all
that wait form a `Ring`. `Standstill` is the negation of all guards, for the provers know
nothing of ENABLED.

**Session.** `Inv` = `TypeOK`, `Once` (a request is in one place: the FIFO, the queue or one
office), `Decided` (nobody decides it twice, and the reply says what was decided),
`Opened`, and, unless the server died, `Served` (a user reads an answer only if it was
given) and `Delivered` (main leaves its loop only when no user has the FIFO open, and ends
only behind the last request). `Died` never ends (`DiedKept`). Gives `AnswersAreTrue` and
`EndIsOrderly` for any number of users, offices and restarts. `SessionStopsDecided` is the safe
half of `RequestCarriedOut` and `UserEnds`: when nothing goes on, every user has ended, was
killed or waits for a server that is not there, and by `Delivered` the requests are decided;
it needs `Unheard` (a server in its first `open` has no request from before).

**UserArguments.** One invariant: what has been checked at each place, and which fields the
request has by then. `WordRange` says which
numbers a remainder may stand for.

**Forensic**, on any tree. `Typing` = `TypeOK` and `Left` (what is still to be done belongs
to its process). Over it, each independent of the others:

1. `Interrupts` (whoever runs after Ctrl-C has it pending): `NoNewWork`.
2. `Paths` (a process forks before it changes its directory): `FailuresHaveCauses`, by
   way of the child whose status was bad (`CauseOfChild`).
3. `FilesKept` (a file is to come, in hands, or done, its line written or lost in `write`):
   `AnalysesAreWhole`.
4. `TreeKept` (what a process has not forked it has still to fork, and one that is
   through has nothing left and has waited for all its children) and `Deep`
   (below a process that is through all are): `EndIsComplete`. `Deep` needs no induction
   over the tree: a step of one process extends it by one level, from `Below`'s
   equation.
5. `Silent`, from 4: when the first process prints, no signal is left (`ReportIsQuiet`).
6. `Announcing` and `Sums` (each count has a line of its own before it, the pending
   signals included): `SentComesFirst`, with cardinalities.
7. `Rooted` (processes are born from processes, and among any of them there is one that the
   others have not forked): `NoProcessHangs`. If nobody went on, each process alive would
   wait for a child alive, each for another one; a map of a finite set into itself that
   meets no value twice meets all, so each of them would be the child of one of them, which
   `Rooted` excludes. This is the safe half of `AllEnd`, orphans included.

**ServerLog**, for any number of offices and any requests. `Inv` has layers:

1. `Machine`: types; how far `main` is in its loops (`Loops`); a line that is formatted is
   the one its thread has to say (`Lines`, which is where a shared buffer would fail); the
   queue holds the requests behind the last that was fetched, and as many as there are
   items and offices about to fetch (`Queue`); who owns which mutex (`Locks`). `TakeMoves`,
   `GiveMoves`, `WriteMoves`, `MainMoves` and `OfficeMoves` say once where each step leads.
2. `RequestLines`: the request lines of `main` are those of the requests `1 .. MainLogged`
   in this order, those of the offices of `1 .. OfficeLogged`, and each of these comes
   behind the one of `main` (`InOrder`; `OrderExtended` adds a line). That the next line of
   an office is about the next request needs `Locks`: nobody else is between `fetch` and
   the unlock. `Counts` says that offices are not ahead of `main`. Gives
   `LogIsFetchedAsStored`.
3. `Answering`: the last message line of an office that has a request is that request's,
   and an office without one has replied to all. Gives `RepliesAreAttributable`.
4. `Delaying`: a LOCK line that its office's delay does not follow yet is of an office
   that is at this delay, at this account, and so owns the mutex (`AtDelay`). Gives
   `SectionsAreApart`.
5. `Ends`: the OPEN and CLOSE lines are those of the offices `main` has passed.
6. `Scripts`, over 1 to 3: `Script(o, r)` is what office `o` has to say about request `r`, and
   `ToldAt` how much of it is said at each place of a handler. Each request line of an
   office begins the script of its request in the file, up to the place of the office if
   it still has the request and to the end if not, and each of its lines is in such a
   script. `Turns` follows a handler through its script; a step adds no line
   (`ScriptsQuiet`), one of another thread (`ScriptsAside`), the first of a script
   (`ScriptBegins`) or the next (`ScriptGoesOn`). `MainLines` says the like of `main`. With 2 and
   5, for a server that has ended has fetched everything, it gives `LogEndsComplete`.

**ForensicOptions**, for command lines of any length. What has been read can be cut into
items in one way only (`Cut`), and the options that are on are the flags of these items
(`Parsed`). A round of the loop takes the next item (`NextItem`, `RoundTaken`) or finds that
no cut of the whole is a call (`RoundRefused`). Gives `UsageIsAccepted`, in both
directions, `StaysInsideArgv` and `OutputIsNamed`.

`TypeOK` of these modules, `MutexOwners`, `LockOwners` and `SlotAccounting` are proved
and not run. Every invariant that a run checks is proved, and so are both refinements.

Only model-checked: progress under fairness (`EveryRequestServed`, `SlotComesBack`,
`SleepersAreDismissed`, `AllAnswered`, `RequestCarriedOut`, `UserEnds`, `LateUsersAreTold`,
`AllEnd`), which the provers cannot reach: `HandlersGoOn`, `QueueStopsServed`,
`SessionStopsDecided`, `NoProcessHangs` and `StopsAreRings` prove of them what is safety:
where threads and processes may come to a standstill, and what is done by then. Also
only model-checked: that `IsCall` and the set of legal calls are the same, for words up to the bound.

## 5. Not modelled

* Printing for tests, and what lines of `forensic` say about a file.
* Failing system calls that make the bank's processes exit at once, except the ones above;
  signals other than `SIGALRM` and `SIGPIPE` there. A `fork` that fails, and the zombies of
  `generateHash` that may make it fail (`aux.c:53`): there is no bound in the code to check.
* The byte behind `hashResult` that `aux.c:95` may write: a matter of memory.
* That two salts differ, which rests on `rand()`.
* The lines of `slog.txt` about slots, items, wake-ups and `buffer_lock`, and the letters R
  and E (`log.c:164` compares the id of a thread with the pid of the process).
* A number of bank offices that is zero or below (`server.c:74`).
* `printf` and `snprintf` in the signal handlers of `forensic` (`forensicAux.c:282`), which are
  not safe when they interrupt one another: lines are taken to be written whole.

## 6. Plan

Written so far: the queue with its abstract FIFO; the accounts with the ledger; the
session; the coprocess; the user's arguments; the server's log; both parts of
`forensic`; proofs of all invariants and of both refinements.

Left:

1. A composition of `RequestQueue` and `Session`: the end of file of the queue
   derived from the users that hold the FIFO, and the reply to a shutdown.
2. `Coprocess` inside the handlers of `Accounts`: a ring holds account mutexes, so offices
   that hash nothing wait as well. `RequestQueue` has only the outcome, any set of offices.
