# Specifications of three programs: bank, name server, videotex emulator

TLA+ modules, model-checking configurations and machine-checked proofs for the
banking system under `src/distributed.banking.system`, the name server under
`src/simple.name.server` and the emulator under `src/videotex-emulator`. Paths
below are relative to `src/`. `DBMS.C`, `BACKEND.C`, `FRONT.C`, `MENU.C` and
their headers are in the first directory, `SERVER.C` and `CLIENT.C` in the
second, and `VIDEOTEX.C`, `KEYBOARD.C`, `COMMNGR.C`, `SCRIPT.C`, `PM.C`,
`DRAW.C` and `UTIL.C` in the third.

## 1. The repository

The repository is a collection of separate programs. Most of it is data (code
tables for Cantonese input, kernel configurations, word lists, notes), or
screens and reports around a data base engine that is not in it (Clipper,
FoxPro, dBASE, COBOL). Three C programs have state, protocols and failure
modes of their own:

| Component | State | Operations | Talks to |
|---|---|---|---|
| Data base functions, `DBMS.C` | record files with a list of deleted records, sorted index files, current record of each file | `db_obtain`, `db_update`, `db_insert`, `db_delete` over `add_record`, `delete_record`, `add_index`, `get_index`, `delete_index` | called by the backend, in its process |
| Backend, `BACKEND.C` | accounts (CUSTOMER), operators, transaction log; work areas, sequence number, reply area | seven request handlers, the loop over the request types | frontends, by one System V message queue |
| Frontends, `FRONT.C`, `MENU.C` | the form shown and its texts, the transaction, operator number, one message area | `process_form`, `check_amount_format`, `put_leading_zeros`, `build_request`, `send_request`, `receive_reply`, `process_response` | the backend |
| Name server, `simple.name.server/SERVER.C` | sorted list of names and addresses, one message area | register, enquire, modify, delete, one TCP connection at a time | clients, `CLIENT.C` |
| Emulator, communications, `COMMNGR.C` | ring of received characters, settings, the 8250's registers, interrupt vectors | interrupt handler, `receivechar`, `dial`, `setup8250`, `reset8250int` | the modem; the rest of the emulator |
| Emulator, scripts, `SCRIPT.C` | position in the script, the loop pending, result of the last `IF`, alarm | `execute_script` | communications, screen |
| Emulator, screen, `PM.C` | attributes of the decoder, the page received with the attributes of each byte, the text page | `charin`, `reveal`, `save_screen`, `view_screen` | called by everything that shows something |
| Emulator, application, `VIDEOTEX.C`, `KEYBOARD.C` | menus, dialing directory, configuration file | main loop, menus | all of the above |

What is hard, and what makes each part correct:

* **Data base functions.** Long sequences of insertions and deletions act on two
  structures, a sorted table with reusable slots and a file with a list of
  deleted records. The table must stay sorted, or the bisection goes wrong; each
  live entry must name an occupied record that holds its key; the list must end.
* **Backend.** A handler makes up to four data base calls and the process may
  end between any two. Money must be neither made nor lost, the log must explain
  the balances, each request must be answered with what belongs to it.
* **Exchange of messages.** Requests and replies of all terminals share one
  bounded queue, told apart by the message type only. A terminal must get the
  reply to its own request, the backend must serve requests only, nobody may
  wait for ever.
* **Forms.** Texts, the transaction and the current code outlive a form. A request
  must say what the form shows, an amount must be taken for what it spells, and
  nothing of one customer's transaction may reach the next.
* **Name server.** The table must be sorted and complete, and the answer the one
  to the question, also when a client closes its connection early.
* **Emulator.** The interrupt handler and the main program share the ring, a
  counter and the vector; the format of the line is put together from bits that
  are only ever added; scripts find the start of a loop again by counting lines;
  the page is decoded a second time, to be revealed or viewed, from whatever state
  the decoder is in.

`PROJECT.json` lists all components, those left out with the reason, and under
"hazards" the places where these concerns bite, with the properties about them.

## 2. Modules

    module            extends                            implements (INSTANCE)
    Dbms              DbFile                             KeyStore
    Backend           DbFile, BankMessages               Ledger
    Bank              BankMessages
    Front             Amounts, BankMessages
    NameServer                                           NameMap
    Emulator          CommManager, Screen, Script

    DbmsProofs        Dbms, LeastNumber
    BackendProofs     Backend                            (uses DbmsProofs)
    BankProofs        Bank, LeastNumber
    FrontProofs       Front, LeastNumber
    NameServerProofs  NameServer, LeastNumber
    ScreenProofs      Screen, LeastNumber
    EmulatorProofs    Emulator, ScreenProofs

| Module | Models | Correspondence |
|---|---|---|
| `DbFile` | values of `DBMS.C` | a file is `[free_recno, recs]`, an index a sequence of entries; each C function is an operator from the value before the call to the value after it |
| `Dbms` | one file and its index under any calls | one action per `db_` function; `file`, `index`, `curr_recno` are the C variables, `buffer` is the caller's work area; `looping` says that the walk of `delete_record` never returns |
| `KeyStore` | what `DBMS.C` promises | abstract specification: at most one value per key |
| `BankMessages` | `FRONT.H`, `BACKEND.H` | types, codes and contents of messages |
| `Backend` | the handlers of `BACKEND.C` | a request is served by a step that reads and decides, followed by one step per data base call (`todo`), then `Send`; `Kill` and `Restart` at any point |
| `Ledger` | what the comments of the handlers promise | abstract specification: every request takes effect once and as a whole, and is owed its answer |
| `Bank` | the queue, `FRONT.C` and the loop of `BACKEND.C` | one action per send, receive, screen and scan step; `staff` says which operators work at which terminal, and never changes |
| `Amounts` | the amount functions of `FRONT.C` | operators on texts; `Cents`, what an amount is worth, is the definition they are checked against |
| `Front` | forms and menu of `FRONT.C` | one action per key that ends a step of `process_form` (`Enter`, `Confirm`, `Escape`), per answer and per choice in the menu |
| `NameServer` | `SERVER.C` and its clients | `heap` and `namehead` are the linked list; a connection is served by one step, because the server does nothing else between `accept` and `close` |
| `NameMap` | what the comments of the name server promise | abstract specification: a map of names to addresses, in which a free name is registered and only a registered one refused |
| `CommManager` | `COMMNGR.C` and the 8250 | registers and vectors of both ports; a function that programs the port leaves its writes in `todo`, and the interrupts run between them |
| `Screen` | `PM.C` | the decoder's state as one record, each C function an operator on it |
| `Script` | the `switch` of `execute_script` | an operator per control statement, on what `execute_script` keeps |
| `Emulator` | the program around those three | `mode` says which loop is running; one action per menu, per byte, per statement |
| `MCDbms`, `MCBackend`, `MCBank`, `MCFront`, `MCNameServer`, `MCEmulator` | - | small instances |
| `DbmsProofs`, `BackendProofs`, `BankProofs`, `FrontProofs`, `NameServerProofs`, `EmulatorProofs` | - | theorems about the module of the name |
| `ScreenProofs`, `LeastNumber` | - | the lemmas about the decoder that `EmulatorProofs` uses; the least natural number of a set and the inductions it stands for |

Operators described in a comment as mistakes (`AddIndexNoShift`,
`DepositLogFirst`, ...) are not used by the specifications. They are variants of
the operator that follows them, and show that a property can fail: replacing the
operator by the variant breaks it (`PROJECT.json`, "mutants").

### Choices in the models

* Keys are digit strings of fixed width compared with `strcmp`, hence numbers.
* Index loops are given by what they find in a sorted table (`InsertPos`,
  `GetIndex`); `IndexSorted` shows that the table is sorted, `BisectionFinds`
  that the bisection, written out as in the code, gives the same answer.
* `delete_index` uses a data record number as a position. A position behind the
  last entry lies outside the index; what is written there is overwritten when
  the index grows, so the model drops it.
* `db_obtain` has no return statement after `get_record`, and the handlers look
  at its result. The model takes the value left in the return register, that of
  `get_record`.
* The backend decides first and then makes its calls: nothing but the reply and
  the calls depends on what it has read, and nobody else writes to the files.
  The reply area is set when the handler decides; only `Send` reads it.
* `strncpy` without a length (`BACKEND.C:240`) is a choice of three outcomes: the
  reply area stays as it was, gets the code, or the process dies. `padl` of a
  number of ten digits (`BACKEND.C:53`) kills the process before any write.
* Several arrays are a byte too short for their terminator (`acctno[6]`,
  `amount[9]`, `operator_id[3]`, `s[2]`). The models take the byte behind them for
  padding: writing it hurts nothing, and reading it ends the string.
* `banksch.h`, which declares files, indices and keys, is not in the repository.
  CUSTOMER has one index, by account number; the key of TRAN_LOG is taken to be
  the date and the sequence number.
* In `Bank` a request to the handlers is one step, because `Backend` shows what
  they do. `num` is what `atoi` reads from the first three characters of a
  message; `for` is a history field that no action of a program reads.
* `SYSERR`, and `REC2ERR` for a closed account, are answers to failing I/O or
  `malloc`, which are not modelled.
* In `Front` the editing of a text (`intextxy`) is one step, to any text the
  instance lists for that kind of entry that is no longer than the entry (`Input`).
  `test_amount` is a `float`, and `AsFloat` rounds as one does: 999999.96 and above
  are refused as too large although nine digits would hold them. `REJECT` stands for
  the answers that differ in their wording only.
* `closemenu` frees a menu that is a static variable (`MENU.C:215`). The program ends
  there, or the free has no effect that shows (`closemenu`, `LeaveMenu`).
* A blank inside an amount ends it: `1 000` is taken for 1.00. `AmountTaken`
  is about amounts without one.
* The bytes of `Screen` are named by what they do. `COLS` and `ROWS` are small;
  the code uses 40 and 24 in the same way. Of the colours two are enough to
  change and change back.
* Where the last byte received is ESC, `reveal` looks at the entry of `page` behind
  it, and a longer page before may have left an `X` there. Decoding the ESC again
  then has no effect that is not put back, except in a drawing, where it counts as
  an argument. The model ends the search at the last entry.
* A script is a sequence of parsed lines. `SEND`, `MACRO` and `HANGUP` only go
  on to the next line, since output to the modem is not modelled.
* The interrupt of a port other than COM1 does nothing here, because the modem is
  on COM1. While the divisor latch is on, the handler reads the divisor's low
  byte and puts it into the ring (`Latched`), as the code does, and the byte that
  arrived stays.
* With local echo the main loop decodes every key before it acts on it. The code
  of a function key has a low byte of 0, so what is decoded is `NUL`
  (`Echoed`), and the page that is saved or revealed then has it.
* `plan`, `keys` and `line` of `Emulator` bound what the user and the host do;
  `seen` holds what properties tell of the past. No step of the program reads
  them.

## 3. Runs

| Run | Result | What it shows |
|---|---|---|
| `dbms_any` | holds | any calls in any order: `TypeOK`, `IndexSorted`, `BisectionFinds`, `RecnosInFile`, and `InsertedKeyFound`: a reported insertion is found and changes no other key's answer |
| `dbms_aligned` | holds | where insertions keep positions equal to record numbers: `IndexExact`, `FreeListExact`, and the file implements `KeyStore`, deletions included |
| `dbms_delete_key` | violated | `DeletedKeyGone`: insert 2, then 1, delete 2: record 1 belongs to key 2 but entry 1 to key 1, so the entry of key 1 is freed and key 2 is still found |
| `backend_plain` | holds | two accounts, transfers, no crash: the handlers implement `Ledger`; `LogAgrees`: the last log record of each account tells its balance |
| `backend_kill` | holds | one account, every request but transfers, up to two kills at any point: `Ledger` is implemented, `LogTellsBalance`: a log record is written after the balance it reports, `Answered`: every request taken is answered or the process dies |
| `backend_atomic` | violated | `ImplementsLedger` with transfers and a kill: the credit is stored and the debit is not |
| `bank_calls` | holds | whoever shares an operator and whatever is killed: `OnlyRequestsServed`; as long as the terminals are `Apart` (no operator at two of them, none numbered up to 007, no frontend killed): `ReplyMatches`, `OneCopy`, `ReplyHasRoom`, and `WaitEnds` while the backend lives too |
| `bank_timeout` | violated | `WaitTimesOut`: the wait of a frontend whose request died with the backend has no end |
| `front_forms` | holds | any keys on any form: `SentAsShown`, a request carries what its form shows; `AmountTaken`, a text is accepted exactly when it is an amount, for its value; `RecheckKeeps`, ENTER on an accepted amount changes nothing; `BalanceShown`; `NothingLeft`, no text, amount or name of a form outlives it |
| `name_server` | holds | `TableSound`, the list ends, ascends strictly and holds every node allocated; `EarlyCloseHarmless`, the request that is carried out again for a client that closed early changes nothing; `PrintsTruth`, what a client prints was right by the table its request found, but for a refused middle name; `Answered`; `NameMapButMiddle`, the server implements `NameMap` but for that refusal |
| `name_server_middle` | violated | `ImplementsNameMap`, the map without exception: register 1, register 3, and 2, which is free and belongs between them, is refused as existing |
| `emulator` | holds | `RevealInPlace`, `SavedScreenViews`, `PortMatchesSettings`, `VectorsRestored`, `WaitHeard`, `LoopsCount`, `ScriptEnds` (below) |

The properties of `emulator`, each with its exceptions in the module:

* `RevealInPlace`: pressing F9 decodes every byte at the place and with the
  attributes it was received with, and leaves the decoder as it was.
* `SavedScreenViews`: a page that is saved and viewed again is the same page.
* `PortMatchesSettings`: outside the functions that program the port, its
  registers say what the settings say, whatever was set before.
* `VectorsRestored`: after the program both vectors are those of DOS again,
  through any changes of port.
* `WaitHeard`: `WAIT` goes on only when its string was received since it began.
* `LoopsCount`: a counted loop runs its body as often as it says, with any `IF`,
  `ELSE` and `EXITLOOP` in it, if it is recorded at its own line and the count is
  positive (with a negative one the body runs once).
* `ScriptEnds`: a script without `WAIT`, endless calls and endless loops ends.

Deadlock is checked in the runs of the name server only: elsewhere bounds stop the model in
the end, and the program itself stops where nobody presses a key.

### Bounds

* `dbms_any`: three keys are an insertion in front, behind and between; the file
  has room for three records, so that deleted records are used again and the
  known confusion of entries is reached. `dbms_aligned` has four records and two
  values, so that a duplicate insertion finds the file full, empty and with one
  or more records to reuse, and updates can be told apart.
* `backend_*`: `MaxBal` 2 or 3 stands for 999999999: with amounts 1 and 2 a
  deposit reaches it and exceeds it. `MaxLog` bounds the run, not the code: five
  to seven log records are several requests in a row per account. Two kills are a
  crash while the damage of the crash before is still there. `MaxDay` 2 lets a
  process start on the day of the last one or on a later day.
* `bank_*`: two terminals, two requests each, and a queue of two messages, which is
  one for each terminal, so that it does fill up. One request type, the last in the
  scan, besides the login, which is the first. In `bank_calls` the operators are one
  of each terminal's own, or 010 at both and 000, which takes any message, at the
  first; the backend and a frontend are killed once at most, at any point.
* `front_forms`: every amount of up to three characters out of five, of four out
  of three, and longer ones at the limits of the field and of the `float`;
  balances of 0, of a few cents, and of nine digits. Names, numbers and passwords
  are shortened; amounts have their nine characters. A text typed over an old one
  is one of two, so that an accepted amount can be changed.
* `name_server`: three names are the least that have one in the middle, with a
  node more, because `reg` is given one before it refuses; two addresses tell a
  modification apart. Of the two clients one registers, deletes and enquires any
  name and the other modifies the middle one or sends an unknown command; each
  may run again and again, wait in the backlog behind the other, leave its
  message in `msg` for the other, and be interrupted. The server is stopped and
  started at any time. There is no other bound.
* `emulator`: a screen of four columns and three rows has an inner cell, an edge
  for a Chinese character two columns wide, and a row hidden between two others.
  Pages are all sequences of four to six bytes of several alphabets, some after a
  prefix that brings the decoder into a state. Scripts are all of up to four of
  the control statements, and longer ones for calls, alarms and `WAIT`. `QMax`
  and `RMax` bound the ring and the buffer of `WAIT`; a handler or a loop that
  would exceed them waits. `DAY` 5 and `DialTime` 2 let a call run into midnight.

### What the passing runs leave out, and what happens there

These are restrictions of the instances or conditions in the properties, and the
behaviour outside them is known:

* Files with deletions whose insertions do not keep positions equal to record
  numbers: `DeletedKeyGone` fails, and with it `IndexExact`, `ImplementsKeyStore`
  and, for two accounts that are closed, `ImplementsLedger`. Deleting the record
  again through the remaining entry makes the list of deleted records a circle,
  and `delete_record` does not return.
* Transfers from an account to itself: the amount is lost and the second balance
  of the reply is never stored.
* A restart on the same day makes `seq` count from 0 again; the log then refuses
  records and `LogAgrees` fails. `LogAgrees` is therefore checked without kills.
* The answer to a withdrawal from an unknown account is left open in `Ledger`, and
  `LogAgrees` is not about the records of enquiries, which keep account, amount and
  balance of the record before (`BACKEND.C:155`).
* One operator at two terminals, or a frontend killed while it waits and started
  again: the terminal may take a reply that is not to its request.
* Operators 001 to 007: the backend takes its replies for requests.
* More terminals than messages in the queue: the backend can wait for room while
  every frontend waits for the backend.
* A free name that belongs between two others is refused as `ALREADY_EXIST`
  (`SERVER.C:128`), and its client prints that it exists (`CLIENT.C:88`), although
  the comments of `reg` have names inserted in the middle and refused only when they
  are there (`SERVER.C:94`, `:115`, `:127`): a finding, shown by
  `name_server_middle`. `MiddleName` leaves such requests out of `PrintsTruth` and
  `NameMapButMiddle`.
* The answer about an unknown name is the address that came with the question, which
  is empty (`SERVER.C:195`), and when a client closes early the request before is
  carried out again (`SERVER.C:177`). That neither does harm is what `PrintsTruth`
  and `EarlyCloseHarmless` say.
* Scripts: `IF` and `ELSE` do not count the line they stop at, and a jump back
  leaves the count one too low (`SCRIPT.C:96-104`, `161-178`). A `LOOP` after that
  is recorded at the line before its own: it is executed again with every round
  and never ends, or its body runs once too few.
* `setup8250` after a change of a setting, rather than of the port, saves its own
  handler as the old vector (`COMMNGR.C:96`), and the vector at exit is not that of
  DOS.
* An edit of the dialing directory shows menus that set the terminal as well,
  and does not program the port (`VIDEOTEX.C:1146-1165`); leaving the menu of baud
  rates with ESC still changes the entry.
* A call whose time is up after midnight waits for ever (`COMMNGR.C:289`); a key
  pressed at the moment of CONNECT aborts (`COMMNGR.C:308`); what the modem answers
  before the ring is flushed is lost (`COMMNGR.C:293`).
* `WAIT` with the telephone ringing may match bytes that an earlier `WAIT`
  left (`SCRIPT.C:137`, `COMMNGR.C:187`).
* `setcombaud` takes the high byte of a divisor from a signed char: right for 1200
  baud and more, which is all the menu offers (`COMMNGR.C:136`).
* Concealed Chinese, and concealing that begins in the arguments of a drawing, is
  revealed out of place; revealing ends the concealing of the row (`PM.C:1185`);
  a hidden row stays hidden after CS (`PM.C:449`). `reveal` does not put back the
  state of a drawing: where F9 is pressed in the middle of one and the page conceals,
  the arguments are counted anew, the bytes that follow are arguments for longer, and
  the page no longer tells which of its bytes are (`PM.C:1105-1186`; `Recorded` leaves
  out such pages from then until the next CS). A byte 255 in an image ends
  `view_screen`. The 1000 places of `page` and `textpage` are never counted
  (`PM.C:219`); the model's pages are unbounded.

### Fairness

The system runs processes that can run: weak fairness of the backend's steps
(`Work` in `Backend`; `StartBack` and `Serve` in `Bank`), of a frontend's send and
of its receive. A blocked `msgsnd` or `msgrcv` is a disabled action. There is no
fairness for what an operator does (login, transaction, leaving a screen) nor for
kills. `StartBack` is fair because an operator of the machine starts the backend;
no property depends on its being started again, except that `WaitTimesOut` fails
although it is.

In `NameServer` the server serves the first connection when it can, and a client
that has connected writes its message, which it does without waiting for anybody,
and reads its answer; nothing makes a client start or be interrupted. A client
that connects and stays silent keeps all others waiting (`SERVER.C:171`).

In `Emulator` the program goes on (`Emulate`) and the clock does (`Tick`); the
user, the host and the interrupts are not fair, so that `ScriptEnds` does not
rest on an answer of the modem.

## 4. Proofs

Checked by TLAPS for every value of the constants that the named assumptions
allow.

### Data base functions: `DbmsProofs`

Every set of keys (natural numbers), every set of values and files of any size:
`KeysAssumption`, `ValsAssumption` (`NoVal` is no value) and `BufAssumption`
(`NoBuf` is no record).

* `DbmsSafety`, `DbmsTyped`, `DbmsRecnos`: `TypeOK`, `IndexSorted` and
  `RecnosInFile` of any calls. The three are inductive together (`DbmsInv`):
  `add_index` keeps the table sorted because `InsertPos` exists (a least position
  whose key is not below the new one; the last one is such a position) and
  `get_index` has excluded an equal live key; the record number it enters is in the
  file because `add_record` made it so. The lemmas are one per operator:
  `InsertPosExists`, `AddIndexSorted`, `AddIndexLive`, `GetIndexCorrect`,
  `AddRecordFile`, `DeleteRecordFile`, `DeleteIndexTable`, ...
* `BisectionAlwaysFinds`: in a sorted table the bisection of `get_index` finds a
  live entry whenever there is one. A range that is not the answer is replaced by a
  half of it that still has the key.
* `InsertedAlwaysFound`: the action property `InsertedKeyFound`, from `DbmsInv` and
  what `add_index` does to the live entries.
* `AppendExact`, `AppendImplementsStore`: where nothing is deleted (TRAN_LOG,
  OPERATOR), index, records and list of deleted records agree, and the file
  implements `KeyStore`. `StoreInv` says besides `DbmsInv` that live entries are
  backed by records (`Backed`), occupied records have entries (`Covered`), the work
  area is the current record (`Current`), and that the deleted records are those of
  the list, each once, in an order that ends (`Path`, `Chain`, `Chained`). The order
  is a function whose existence is kept: a record taken off the head shortens it, one
  deleted lengthens it at the end, and that the walk of `delete_record` goes along it
  (`ChainExact`) follows by taking the first place where it would not.
* `AlignedExact`, `AlignedFreeList`, `AlignedImplementsStore`: the same with
  deletions, where keys come so that a new entry's position is the number of its
  record. `AlignedInv` adds that it is (`Positions`): what `delete_index` frees
  is then the entry of the record.

### Backend: `BackendProofs`

Any accounts, requests that name accounts and amounts as their type asks for
(`RequestsAssumption`), any number of kills; the value that stands for no request
is not taken for one (`NoReqAssumption`). It instantiates `DbmsProofs` with CUSTOMER
and its index, so that the lemmas about the functions of `DBMS.C` are proved once.

* `BackendTyped`: `TypeOK`, for all requests. The strengthening `BackendInv` says
  that entries in use and the calls a handler has still to make are about records of
  the file (`CustomerOK`, `Pending`), and that an insertion is the first call, of an
  account that is not there.
* `LogTruthful`: `LogTellsBalance` under `KeepsAccounts`: no account is closed, no
  transfer is to its own account. Both are needed: after a deletion an entry may name
  the record of another account, and a transfer to itself stores one balance and
  logs another as well. The invariant `TellInv` says that an entry names the record
  of its own account (`OwnRecords`) and that each log record still to be written
  tells what its account holds, or what the calls before it store there (`Tells`).
* `LogExplains`: `LogAgrees` under `KeepsAccounts` and without a restart
  (`MaxKills = 0`), which would number the records of the day from 0 again. `LogInv`
  adds to `TellInv` that all records are of today and numbered below `seq`
  (`Numbered`), so that `db_insert` refuses none and a new one is the last; that the
  last record of an account tells its balance or another one is still to be written
  (`Covered`); and that a record of the account follows each write of a balance
  (`Ordered`).
* `BackendImplementsLedger`: `ImplementsLedger` under `KeepsAccounts` and
  `WholeTransfers`: no kills, or no transfers. `LedgerInv` says how far the handler
  has come (`Phase`): whether an account is still to be added, one balance or two are
  still to be written, the second of two, or nothing but log records; and that the
  reply put together when it decided is the one for what will then be stored. The
  write that completes the change, or the decision where nothing is written, maps to
  the step of `Ledger`, sending or losing the reply to `Settle`, every other step to
  none.

### Exchange of messages: `BankProofs`

Any set of frontends, any ways to spread operators over them, any bound on requests
and any capacity of the queue.

* `BankTyped`: `TypeOK`, with kills of both sides. The strengthening (`Holding`) says
  that the message area of a frontend holds a request while it is sending one.
* `RequestsServed`: `OnlyRequestsServed`, for shared operators and with kills of both
  sides, if no operator has the number of a request type (`NoTypeNumbers`). In the
  queue and in everybody's hands a reply then has no request type, nor has a request
  such a number to be replied to (`Tagged`, `Numbered`); `NumberInv` is inductive
  because `staff` does not change (`StaffFixed`).
* `RepliesMatch`, `RequestsAnsweredOnce`: `ReplyMatches` and `OneCopy`, which are about
  the states in which the terminals are `Apart`. Terminals that are apart now have
  been so from the start, so that what holds then (`CallInv`) is carried along
  (`ApartInv`). `CallInv` follows a request on its way: a frontend that waits has
  exactly one of its request in the queue, its request with the backend, its reply
  with the backend or its reply in the queue, or none after the backend died
  (`InQueue`, `Distinct`, `Replying`, `NoneLost`); a message of a type below 8 is a
  request (`Asking`); a message for an operator belongs to the terminal that operator
  works at (`OwnOperator`).
* `RepliesHaveRoom`: `ReplyHasRoom`, for queues that are `Roomy`: with as many places
  as frontends, the messages in it stand for different frontends, none of them the
  one being replied to, so that there is a place left.

### Forms: `FrontProofs`

Fields of any lengths (`LengthsAssumption`; an amount has nine characters, as
`AmountLength` says), any texts and any answers; a balance in an answer has nine
digits (`BalanceAssumption`).

* `RequestsSayWhatIsShown`: `SentAsShown`. A text that is refused stays in its entry
  while the transaction keeps what an older one left, so the two agree in every entry
  but the one the cursor is in, and in all of them once a request is out (`Linked`).
  `FrontInv` says besides that a form goes with its transaction (`FormCode`) and that
  the login form keeps the operator's number (`LoggedIn`).
* `FormsLeaveNothing`: `NothingLeft`, from the same invariant.
* `FrontTyped`: `TypeOK`, from `FrontInv` and `TypeInv`: an amount that is accepted
  fits its field (`CheckedFits`), and so does a name with its padding.
* `AmountsAreTaken`: `AmountTaken`, for every text of up to nine characters. What is
  kept of a text without a blank inside is the text less its leading zeros, unless
  there is no digit behind them (`KeptOfText`); `WithDecimals` makes an amount with
  two digits behind the point of it (`WrittenFacts`), whose digits spell its cents
  (`CentsOf`). Below 999999.96, where the `float` still tells (`FloatFacts`), such an
  amount has at most seven characters up to the point (`WrittenFits`), so it fits
  when it is right aligned, and the nine digits made of it spell the same number
  (`SentSpelt`). Above, both the text and what is made of it are too large: the
  number the digits spell is cut off at 10^9 (`Spelt`), and a digit more never makes
  it smaller (`SpeltGrows`).
* `AmountsAreKept`: `RecheckKeeps`. Read again, an amount as it has been written loses
  the blanks in front of it and nothing else (`WrittenAgain`).
* `BalancesAreShown`: `BalanceShown`. A balance and its text differ in blanks for
  leading zeros and in the point, and neither changes what is spelt
  (`SpeltAfterZeros`, `SpeltAlike`).

The number a text spells is a recursive function on its positions. What is said of it
is said of every position by the first one where it would fail (`CountedOn`).

### Name server: `NameServerProofs`

Any finite sets of nodes and of names, any addresses but the empty one
(`AddressAssumption`), any clients and any messages of theirs (`MessagesAssumption`).
`MemoryAssumption` says that there are more nodes than names, that is, that `malloc`
succeeds: `main` does not look at what it returns. `NothingAssumption` keeps the
value for an empty stream apart from messages.

* `NameServerTyped`, `TableAlwaysSound`: the list is described without recursion
  (`Linked`): names are distinct, the head has the least, `next` the next one. `reg`,
  `delete` and `modify` keep that; that the walk then meets every node once and in
  order follows by taking the first step where it would not.
* `EarlyCloseDoesNoHarm`: the message in `msg` has been executed, and executed once
  more it would change nothing (`Settled`): a name registered is there or could not
  be added, one deleted is gone.
* `ClientsPrintTruth`: the action property `PrintsTruth`. What is right is read off
  the table before the step (`RightAnswer`); a free name that `reg` refuses has a name
  on either side of it (`MiddleOrEnd`).
* `ServerIsNameMap`: `NameMapButMiddle`; each execution maps to the step of `NameMap`
  on the map the list stands for (`View`), or is the refusal of a middle name.

### Emulator: `EmulatorProofs`, `ScreenProofs`

Any plans of user and host, of lines of bytes and scripts of lines
(`PlansAssumption`), any length of page and script, any even width from four columns
and any height from two rows (`SizeAssumption`), any number of arguments of the
drawings (`ArgumentsAssumption`), any settings whose baud rates the menu offers
(`BaudAssumption`, `SettingsAssumption`; the factory's rates are among them), any
size of the buffer of `WAIT` (`BoundAssumption`) and length of a day
(`ClockAssumption`).

* `PortProgrammed`: `PortMatchesSettings`. In the middle of `setup8250` the port is
  wrong, so the invariant `PortInv` says by the writes still to do what is right
  already (`Programming`): the divisor once it is written, no bit in the line control
  register between the closing of the latch and the format, and both at the end. It
  rests on what a user can have put into settings, directory and file (`SettingsOK`,
  with `FileKeeps` for the two bytes a baud rate has in the file), and on the divisors
  of the menu (`DivisorOfMenu`).
* `VectorsComeBack`: `VectorsRestored`. `VectorInv` says that while the program runs
  only the port in use is hooked and `OldAsynVector` is DOS's own, until a port is
  hooked over the program's own handler.
* `LoopsAlwaysCount`: `LoopsCount`. Lines are counted up to the one read next or
  fall behind (`JobOK`), and a pending loop recorded at its own line has begun its
  body once more than it was jumped back to, but for the moment of the jump
  (`RoundsRight`).
* `WaitsAreHeard`: `WaitHeard`. Without a ring of the telephone the bytes collected
  for the comparison are those received since `WAIT` began (`Collected`).
* `RevealLeavesInPlace`, `SavedPagesView`: `RevealInPlace` and `SavedScreenViews`.
  They rest on three groups of lemmas of `ScreenProofs`:
  * what one byte does to the decoder (`Received`): where the cursor stays, what is
    appended to the page, what can begin and end concealing, drawings and escapes;
  * that a byte does the same to two decoders that differ in the mosaic held, and in
    what is concealed where that cannot be seen (`Sim`);
  * that a page is the record of the decoders the bytes since the last CS have gone
    through (`Past`, `Faithful`): the attributes of an entry are those of the decoder
    that got its byte, and decoding the byte gives the next.

  `ScreenInv` says that the page is faithful, or that F9 was pressed in a drawing
  since it began, in which case it has the drawing still (`Tracked`). Decoding a
  faithful page again, from the first concealed byte or from CS, then stays alike to
  the record, byte by byte; the walk is a recursive function, whose existence is
  proved, and a first byte where the two part is led to a contradiction (`PassedOn`).
  With nothing drawn, `reveal` leaves the decoder as it was because the bytes it
  decodes are not kept and what they change is put back.
* `EmulatorTypes`: `TypeOK`, from these invariants and the ranges of vectors, clock
  and mode (`Restful`).

`LeastNatural` (`LeastNumber`), that a set of natural numbers that is not empty has a
least one, is the only induction used: it stands for the least counterexample
wherever something is shown of every step of a walk.

### Only model-checked

Liveness under fairness: `Answered` of both systems, `WaitEnds`, `ScriptEnds`. The
refinement of `Ledger` where accounts are closed. Every other property of a run that
holds is stated by a theorem.

## 5. Not modelled

* Bank: opening, closing and creating files; several indices per file
  (`banksch.h`, which declares them, is not there); the single writes of one data
  base call; failing I/O and `malloc`; the cursor, windows and key codes of
  `MENU.C`.
* Name server: failing system calls, and the printing of the table.
* Emulator: output to the modem (`sendchar`, `sendstring`, `init_modem`,
  `hang_up`, macros), so also that `sendstring` starts with an index it has not
  set when the string begins with `~` (`COMMNGR.C:227`); the ring's own code
  (`queue.c`, not in the repository); the 20 bytes of `dial`'s buffer; pixels,
  fonts, background, flashing, printing, the geometry of `DRAW.C`, the cursor
  of the menus.
* The programs listed as `not_modelled` in `PROJECT.json`, with the reasons.

## 6. What is left

1. The writes of `add_record`, `add_index`, `delete_index` and `delete_record` as
   steps, a crash between any two, the file reopened (`DBMS.C:541`).
2. Proofs: `Ledger` with accounts that are closed one at a time.
3. Violations worth a run of their own: a `LOOP` after a jump, a call into
   midnight, a setting changed twice.
