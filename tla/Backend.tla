------------------------------ MODULE Backend ------------------------------
(***************************************************************************)
(* The backend process, BACKEND.C: the handlers of the seven request types *)
(* over the CUSTOMER file with its index and the transaction log.          *)
(*                                                                         *)
(* A handler first reads and decides, and then performs its data base      *)
(* calls one after the other; the process may die between any two of them  *)
(* and be started again.  todo holds the calls a handler still has to      *)
(* make.  The reply is put together when the handler decides: nothing      *)
(* reads it before it is sent.                                             *)
(*                                                                         *)
(* CUSTOMER is a file of DbFile.tla, so that what a deletion does to other *)
(* accounts is part of the model.  TRAN_LOG is only ever added to:         *)
(* DbmsProofs.tla proves that such a file is a store of one record per     *)
(* key.  Its key is declared in banksch.h, which is not in the repository; *)
(* the date and the sequence number are taken as the key.                  *)
(***************************************************************************)
EXTENDS DbFile, BankMessages, FiniteSets

CONSTANTS Accts,       (* account numbers                                  *)
          Requests,    (* requests that may arrive                         *)
          Passwords,   (* OPERATOR: the operators and their passwords      *)
          MaxBal,      (* largest number of nine digits                    *)
          NoVal,       (* no account, or no balance                        *)
          NoReq,       (* no request is being served                       *)
          MaxLog,      (* bound: records the transaction log may grow to   *)
          MaxKills,    (* bound: times the process is started again        *)
          MaxDay       (* bound: days it may run on                        *)

ASSUME AcctsAssumption  == Accts \subseteq Nat
ASSUME MaxBalAssumption == MaxBal \in Nat
ASSUME NoValAssumption  == NoVal \notin Nat
ASSUME BoundsAssumption == MaxLog \in Nat /\ MaxKills \in Nat /\ MaxDay \in Nat

(* A request names accounts and an amount, as its type asks for.           *)
ASSUME RequestsAssumption ==
    \A r \in Requests :
        /\ r.mtype \in {OPEN, AINQ, ADEP, ACWD, ATFR, CLOS} => r.acct \in Accts
        /\ r.mtype \in {ADEP, ACWD, ATFR} => r.amount \in Nat
        /\ r.mtype = ATFR => r.to \in Accts

VARIABLES customer,    (* the CUSTOMER file: account number and balance    *)
          cindex,      (* its index                                        *)
          tran_log,    (* the records of TRAN_LOG                          *)
          seq,         (* number of the next log record                    *)
          today,       (* tran.tran_date, set when the process starts      *)
          tran,        (* the other fields of the work area tran           *)
          message,     (* the reply area                                   *)
          proc,        (* idle, busy, hung in delete_record, or down       *)
          req,         (* the request being served                         *)
          todo,        (* data base calls its handler still has to make    *)
          kills        (* times the process has died                       *)

disk   == <<customer, cindex, tran_log>>
memory == <<seq, tran, message, proc, req, todo>>
vars   == <<disk, memory, today, kills>>

Balances == 0 .. MaxBal

(* No request that was carried out is taken for none.                      *)
ASSUME NoReqAssumption ==
    NoReq \notin [req : Requests, answer : [code : Codes, bals : Seq(Balances)]]

Area(type, acct, amount, bal) ==
    [tran_type |-> type, acct_no |-> acct, tran_amount |-> amount, upd_balance |-> bal]

NoArea == Area("0", NoVal, 0, 0)

Init == /\ customer = EmptyFile
        /\ cindex = EmptyIndex
        /\ tran_log = {}
        /\ seq = 0
        /\ today = 1
        /\ tran = NoArea
        /\ message = Says(NoCode)
        /\ proc = "idle"
        /\ req = NoReq
        /\ todo = << >>
        /\ kills = 0

-----------------------------------------------------------------------------
(* The data base calls of a handler.                                       *)

(* db_update of record recno with a new balance.                           *)
Put(recno, bal) == [call |-> "put", recno |-> recno, bal |-> bal]

(* db_insert of an account with balance 0.                                 *)
Insert(acct)    == [call |-> "insert", acct |-> acct]

(* db_delete of record recno.                                              *)
Delete(recno)   == [call |-> "delete", recno |-> recno]

(* db_insert of the work area into TRAN_LOG, under the next number.        *)
Log(area)       == [call |-> "log", area |-> area]

(* db_insert refuses a number of the same day that is there already; the   *)
(* handlers do not look at its result.                                     *)
Logged(log, date, n, area) ==
    IF \E e \in log : e.date = date /\ e.seq = n
    THEN log
    ELSE log \cup {[date |-> date, seq |-> n, area |-> area]}

Recno(acct)  == GetIndex(cindex, acct)
Found(acct)  == Recno(acct) # 0
Held(acct)   == GetRecord(customer, Recno(acct))

-----------------------------------------------------------------------------
(* The handlers: msgrcv has taken r from the queue.                        *)

Decide(r, answer, calls) ==
    /\ proc' = "busy"
    /\ req' = r
    /\ message' = answer
    /\ todo' = calls
    /\ UNCHANGED <<disk, seq, tran, today, kills>>

(* The process dies and takes everything in memory with it.                *)
Die ==
    /\ proc' = "down"
    /\ req' = NoReq
    /\ message' = Says(NoCode)
    /\ todo' = << >>
    /\ seq' = 0
    /\ tran' = NoArea
    /\ kills' = kills + 1
    /\ UNCHANGED <<disk, today>>

CheckPasswd(r) ==
    \/ r.operator \notin DOMAIN Passwords /\ Decide(r, Says(REC1ERR), << >>)
    \/ /\ r.operator \in DOMAIN Passwords
       /\ Decide(r, Says(IF Passwords[r.operator] = r.passwd THEN OK ELSE PWERR), << >>)

OpenAcct(r) ==
    \/ Found(r.acct) /\ Decide(r, Says(DUP), << >>)
    \/ /\ ~Found(r.acct)
       /\ Decide(r, Says(OK), <<Insert(r.acct), Log(Area("1", r.acct, 0, 0))>>)

(* Only the type of the log record is set: account, amount and balance are *)
(* those of the transaction before.                                        *)
AcctInq(r) ==
    \/ ~Found(r.acct) /\ Decide(r, Says(REC1ERR), << >>)
    \/ /\ Found(r.acct)
       /\ Decide(r, Says1(OK, Held(r.acct).val), <<Log([tran EXCEPT !.tran_type = "2"])>>)

(* Mistakes: the log record is written before the balance, ...             *)
DepositLogFirst(r) ==
    LET bal == Held(r.acct).val + r.amount
    IN  \/ ~Found(r.acct) /\ Decide(r, Says(REC1ERR), << >>)
        \/ /\ Found(r.acct)
           /\ bal <= MaxBal
           /\ Decide(r, Says1(OK, bal),
                     <<Log(Area("3", Held(r.acct).key, r.amount, bal)), Put(Recno(r.acct), bal)>>)

(* ... the reply tells the balance before the deposit, ...                 *)
DepositOldBalance(r) ==
    LET cust == Held(r.acct)
        bal  == cust.val + r.amount
    IN  \/ ~Found(r.acct) /\ Decide(r, Says(REC1ERR), << >>)
        \/ /\ Found(r.acct)
           /\ bal <= MaxBal
           /\ Decide(r, Says1(OK, cust.val),
                     <<Put(Recno(r.acct), bal), Log(Area("3", cust.key, r.amount, bal))>>)

(* ... and a balance of any length is stored.                              *)
DepositAnyLength(r) ==
    LET bal == Held(r.acct).val + r.amount
    IN  \/ ~Found(r.acct) /\ Decide(r, Says(REC1ERR), << >>)
        \/ /\ Found(r.acct)
           /\ Decide(r, Says1(OK, bal),
                     <<Put(Recno(r.acct), bal),
                       Log(Area("3", Held(r.acct).key, r.amount, bal))>>)

(* padl of a number with more than nine digits computes a negative, that   *)
(* is, a huge unsigned number of padding characters and writes them over   *)
(* the stack.                                                              *)
Deposit(r) ==
    LET cust == Held(r.acct)
        bal  == cust.val + r.amount
    IN  \/ ~Found(r.acct) /\ Decide(r, Says(REC1ERR), << >>)
        \/ /\ Found(r.acct)
           /\ bal <= MaxBal
           /\ Decide(r, Says1(OK, bal),
                     <<Put(Recno(r.acct), bal), Log(Area("3", cust.key, r.amount, bal))>>)
        \/ Found(r.acct) /\ bal > MaxBal /\ Die

(* strncpy is called without a length (BACKEND.C:240): the reply area is   *)
(* left as it was, or gets the code, or the process is killed.             *)
Withdraw(r) ==
    LET cust == Held(r.acct)
        bal  == cust.val - r.amount
    IN  \/ ~Found(r.acct) /\ Decide(r, message, << >>)
        \/ ~Found(r.acct) /\ Decide(r, Says(REC1ERR), << >>)
        \/ ~Found(r.acct) /\ Die
        \/ Found(r.acct) /\ bal < 0 /\ Decide(r, Says1(BALERR, cust.val), << >>)
        \/ /\ Found(r.acct)
           /\ bal >= 0
           /\ Decide(r, Says1(OK, bal),
                     <<Put(Recno(r.acct), bal), Log(Area("4", cust.key, r.amount, bal))>>)

(* A mistake: the paying account is not obtained again before it is        *)
(* written, so that the receiving one is written twice.                    *)
TransferOneRecord(r) ==
    LET bal1 == Held(r.acct).val - r.amount
        bal2 == Held(r.to).val + r.amount
    IN  \/ ~Found(r.acct) /\ Decide(r, Says(REC1ERR), << >>)
        \/ Found(r.acct) /\ ~Found(r.to) /\ Decide(r, Says(REC2ERR), << >>)
        \/ /\ Found(r.acct) /\ Found(r.to)
           /\ bal1 >= 0 /\ bal2 <= MaxBal
           /\ Decide(r, Says2(OK, bal1, bal2),
                     <<Put(Recno(r.to), bal2), Put(Recno(r.to), bal1),
                       Log(Area("5", r.acct, r.amount, bal1)),
                       Log(Area("5", r.to, r.amount, bal2))>>)

(* The receiving account is written first.  Both balances are computed     *)
(* from what was read before either is written.                            *)
Transfer(r) ==
    LET cust  == Held(r.acct)
        cust2 == Held(r.to)
        bal1  == cust.val - r.amount
        bal2  == cust2.val + r.amount
    IN  \/ ~Found(r.acct) /\ Decide(r, Says(REC1ERR), << >>)
        \/ Found(r.acct) /\ ~Found(r.to) /\ Decide(r, Says(REC2ERR), << >>)
        \/ /\ Found(r.acct) /\ Found(r.to)
           /\ \/ bal1 < 0 /\ Decide(r, Says1(BALERR, cust.val), << >>)
              \/ /\ bal1 >= 0 /\ bal2 <= MaxBal
                 /\ Decide(r, Says2(OK, bal1, bal2),
                           <<Put(Recno(r.to), bal2),
                             Put(Recno(r.acct), bal1),
                             Log(Area("5", cust.key, r.amount, bal1)),
                             Log(Area("5", cust2.key, r.amount, bal2))>>)
              \/ bal1 >= 0 /\ bal2 > MaxBal /\ Die

CloseAcct(r) ==
    LET cust == Held(r.acct)
    IN  \/ ~Found(r.acct) /\ Decide(r, Says(REC1ERR), << >>)
        \/ /\ Found(r.acct)
           /\ Decide(r, Says1(OK, cust.val),
                     <<Delete(Recno(r.acct)), Log(Area("6", cust.key, 0, cust.val))>>)

Serve(r) ==
    /\ proc = "idle"
    /\ Cardinality(tran_log) + 2 <= MaxLog
    /\ \/ r.mtype = OPER /\ CheckPasswd(r)
       \/ r.mtype = OPEN /\ OpenAcct(r)
       \/ r.mtype = AINQ /\ AcctInq(r)
       \/ r.mtype = ADEP /\ Deposit(r)
       \/ r.mtype = ACWD /\ Withdraw(r)
       \/ r.mtype = ATFR /\ Transfer(r)
       \/ r.mtype = CLOS /\ CloseAcct(r)

-----------------------------------------------------------------------------
(* One data base call.                                                     *)

Call(name) == /\ proc = "busy"
              /\ todo # << >>
              /\ Head(todo).call = name
              /\ todo' = Tail(todo)
              /\ UNCHANGED <<today, kills, req, message>>

CallPut ==
    LET c == Head(todo)
    IN  /\ Call("put")
        /\ customer' = PutRecord(customer, c.recno,
                                 [key |-> GetRecord(customer, c.recno).key, val |-> c.bal])
        /\ UNCHANGED <<cindex, tran_log, seq, tran, proc>>

CallInsert ==
    LET acct == Head(todo).acct
    IN  /\ Call("insert")
        /\ customer' = AddRecord(customer, [key |-> acct, val |-> 0])
        /\ cindex' = AddIndex(cindex, NextRecno(customer), acct)
        /\ UNCHANGED <<tran_log, seq, tran, proc>>

CallDelete ==
    LET recno == Head(todo).recno
        ends  == DeleteReturns(customer, recno)
    IN  /\ Call("delete")
        /\ cindex' = DeleteIndex(cindex, GetRecord(customer, recno).key)
        /\ customer' = IF ends THEN DeleteRecord(customer, recno) ELSE MarkFree(customer, recno)
        /\ proc' = IF ends THEN "busy" ELSE "hung"
        /\ UNCHANGED <<tran_log, seq, tran>>

(* A mistake: the sequence number is not counted up.                       *)
CallLogSameSeq ==
    LET area == Head(todo).area
    IN  /\ Call("log")
        /\ tran_log' = Logged(tran_log, today, seq, area)
        /\ tran' = area
        /\ UNCHANGED <<customer, cindex, seq, proc>>

CallLog ==
    LET area == Head(todo).area
    IN  /\ Call("log")
        /\ tran_log' = Logged(tran_log, today, seq, area)
        /\ seq' = seq + 1
        /\ tran' = area
        /\ UNCHANGED <<customer, cindex, proc>>

(* A mistake: an empty reply is not sent.                                  *)
SendNonEmpty ==
    /\ proc = "busy"
    /\ todo = << >>
    /\ message.code # NoCode
    /\ proc' = "idle"
    /\ req' = NoReq
    /\ UNCHANGED <<disk, seq, tran, message, todo, today, kills>>

(* msgsnd of the reply.                                                    *)
Send ==
    /\ proc = "busy"
    /\ todo = << >>
    /\ proc' = "idle"
    /\ req' = NoReq
    /\ UNCHANGED <<disk, seq, tran, message, todo, today, kills>>

Kill == /\ proc # "down"
        /\ kills < MaxKills
        /\ Die

Restart ==
    /\ proc = "down"
    /\ kills <= MaxKills
    /\ proc' = "idle"
    /\ today' \in today .. MaxDay
    /\ UNCHANGED <<disk, seq, tran, message, req, todo, kills>>

Work == CallPut \/ CallInsert \/ CallDelete \/ CallLog \/ Send

Next == (\E r \in Requests : Serve(r)) \/ Work \/ Kill \/ Restart

Spec == Init /\ [][Next]_vars

(* A process that has something to do is run by the system.                *)
FairSpec == Spec /\ WF_vars(Work)

-----------------------------------------------------------------------------
(* Properties                                                              *)

Areas == [tran_type   : {"0", "1", "2", "3", "4", "5", "6"},
          acct_no     : Accts \cup {NoVal},
          tran_amount : Nat,
          upd_balance : Balances]

Calls == [call : {"put"}, recno : Nat \ {0}, bal : Balances]
         \cup [call : {"insert"}, acct : Accts]
         \cup [call : {"delete"}, recno : Nat \ {0}]
         \cup [call : {"log"}, area : Areas]

TypeOK ==
    /\ customer \in Files(Accts, Balances)
    /\ cindex \in Seq(Entries(Accts))
    /\ tran_log \subseteq [date : Nat, seq : Nat, area : Areas]
    /\ seq \in Nat
    /\ today \in Nat
    /\ tran \in Areas
    /\ message \in [code : Codes, bals : Seq(Balances)]
    /\ proc \in {"idle", "busy", "hung", "down"}
    /\ req \in Requests \cup {NoReq}
    /\ todo \in Seq(Calls)
    /\ kills \in Nat

(* The stored balance of each account.  While the credit of a transfer is  *)
(* written and the debit is not, the transfer has not happened yet.        *)
HalfDone == proc = "busy" /\ req.mtype = ATFR /\ Len(todo) = 3

BalView ==
    [a \in Accts |->
        IF ~Found(a) THEN NoVal
        ELSE IF HalfDone /\ req.to = a THEN Held(a).val - req.amount
        ELSE Held(a).val]

(* A request is carried out when no call but those for the log is left.    *)
OwedView ==
    IF proc = "busy" /\ \A i \in DOMAIN todo : todo[i].call = "log"
    THEN [req |-> req, answer |-> message]
    ELSE NoReq

LG == INSTANCE Ledger WITH bal <- BalView, owed <- OwedView

(* Every request takes effect once and as a whole, the reply sent for it   *)
(* is the one that belongs to it, and no crash undoes what is done         *)
(* (BACKEND.C:62-397 over DBMS.C:727-837).                                 *)
ImplementsLedger == LG!Spec

(* The log explains the accounts: between two requests the last record of  *)
(* an account, inquiries apart, tells its balance (BACKEND.C:118-124,      *)
(* 200-206, 256-262, 336-347, 385-391).                                    *)
Later(e, f) == e.date > f.date \/ (e.date = f.date /\ e.seq > f.seq)

RecordsOf(a) == { e \in tran_log : e.area.acct_no = a /\ e.area.tran_type # "2" }

LogAgrees ==
    proc = "idle" =>
        \A a \in Accts : Found(a) =>
            \E e \in RecordsOf(a) :
                /\ \A f \in RecordsOf(a) \ {e} : Later(e, f)
                /\ e.area.upd_balance = Held(a).val

(* A log record of a deposit, withdrawal or transfer is written after the  *)
(* balance it reports, and reports the balance that is stored, wherever    *)
(* the process is killed (BACKEND.C:199-206, 255-262, 329-347).            *)
LogTellsBalance ==
    [][\A e \in tran_log' \ tran_log :
          e.area.tran_type \in {"3", "4", "5"} =>
             /\ Found(e.area.acct_no)
             /\ e.area.upd_balance = Held(e.area.acct_no).val]_vars

(* A request that was taken from the queue is answered, unless the process *)
(* dies: delete_record comes to an end (DBMS.C:267-274, BACKEND.C:422-449).*)
Answered == (proc = "busy") ~> (proc \in {"idle", "down"})

=============================================================================
