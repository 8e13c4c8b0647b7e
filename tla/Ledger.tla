------------------------------- MODULE Ledger -------------------------------
(***************************************************************************)
(* What the headers of the functions of BACKEND.C promise to a teller:     *)
(* every request takes effect once, as a whole, and is owed the answer     *)
(* that belongs to it.  An answer may be lost with the process that owes   *)
(* it; an effect never is.                                                 *)
(*                                                                         *)
(* Two things that the code does not promise are left open: a request that *)
(* would make a balance outgrow its field is never carried out, and the    *)
(* answer to a withdrawal from an unknown account is not determined        *)
(* (BACKEND.C:240 passes strncpy no length).                               *)
(***************************************************************************)
EXTENDS BankMessages, Integers, Sequences

CONSTANTS Accts,       (* account numbers                                  *)
          Requests,    (* requests a teller may send                       *)
          Passwords,   (* the operators and their passwords                *)
          MaxBal,      (* largest balance that fits its field              *)
          NoVal,       (* there is no such account                         *)
          NoReq        (* no answer is owed                                *)

VARIABLES bal,         (* the balance of each account                      *)
          owed         (* the request carried out last, with its answer    *)

vars == <<bal, owed>>

Init == /\ bal = [a \in Accts |-> NoVal]
        /\ owed = NoReq

Owe(r, answer) == /\ owed = NoReq
                  /\ owed' = [req |-> r, answer |-> answer]

Refuse(r, code) == Owe(r, Says(code)) /\ UNCHANGED bal

CheckPasswd(r) ==
    \/ /\ r.operator \notin DOMAIN Passwords
       /\ Refuse(r, REC1ERR)
    \/ /\ r.operator \in DOMAIN Passwords
       /\ Refuse(r, IF Passwords[r.operator] = r.passwd THEN OK ELSE PWERR)

OpenAcct(r) ==
    \/ bal[r.acct] # NoVal /\ Refuse(r, DUP)
    \/ /\ bal[r.acct] = NoVal
       /\ Owe(r, Says(OK))
       /\ bal' = [bal EXCEPT ![r.acct] = 0]

AcctInq(r) ==
    \/ bal[r.acct] = NoVal /\ Refuse(r, REC1ERR)
    \/ /\ bal[r.acct] # NoVal
       /\ Owe(r, Says1(OK, bal[r.acct]))
       /\ UNCHANGED bal

Deposit(r) ==
    \/ bal[r.acct] = NoVal /\ Refuse(r, REC1ERR)
    \/ /\ bal[r.acct] # NoVal
       /\ bal[r.acct] + r.amount <= MaxBal
       /\ bal' = [bal EXCEPT ![r.acct] = @ + r.amount]
       /\ Owe(r, Says1(OK, bal'[r.acct]))

Withdraw(r) ==
    \/ /\ bal[r.acct] = NoVal
       /\ owed = NoReq
       /\ owed' # NoReq
       /\ owed'.req = r
       /\ UNCHANGED bal
    \/ /\ bal[r.acct] # NoVal
       /\ bal[r.acct] < r.amount
       /\ Owe(r, Says1(BALERR, bal[r.acct]))
       /\ UNCHANGED bal
    \/ /\ bal[r.acct] # NoVal
       /\ bal[r.acct] >= r.amount
       /\ bal' = [bal EXCEPT ![r.acct] = @ - r.amount]
       /\ Owe(r, Says1(OK, bal'[r.acct]))

Transfer(r) ==
    \/ bal[r.acct] = NoVal /\ Refuse(r, REC1ERR)
    \/ bal[r.acct] # NoVal /\ bal[r.to] = NoVal /\ Refuse(r, REC2ERR)
    \/ /\ bal[r.acct] # NoVal /\ bal[r.to] # NoVal
       /\ bal[r.acct] < r.amount
       /\ Owe(r, Says1(BALERR, bal[r.acct]))
       /\ UNCHANGED bal
    \/ /\ bal[r.acct] # NoVal /\ bal[r.to] # NoVal
       /\ bal[r.acct] >= r.amount
       /\ bal[r.to] + r.amount <= MaxBal
       /\ bal' = [[bal EXCEPT ![r.acct] = @ - r.amount] EXCEPT ![r.to] = @ + r.amount]
       /\ Owe(r, Says2(OK, bal'[r.acct], bal'[r.to]))

CloseAcct(r) ==
    \/ bal[r.acct] = NoVal /\ Refuse(r, REC1ERR)
    \/ /\ bal[r.acct] # NoVal
       /\ Owe(r, Says1(OK, bal[r.acct]))
       /\ bal' = [bal EXCEPT ![r.acct] = NoVal]

CarryOut(r) == \/ r.mtype = OPER /\ CheckPasswd(r)
               \/ r.mtype = OPEN /\ OpenAcct(r)
               \/ r.mtype = AINQ /\ AcctInq(r)
               \/ r.mtype = ADEP /\ Deposit(r)
               \/ r.mtype = ACWD /\ Withdraw(r)
               \/ r.mtype = ATFR /\ Transfer(r)
               \/ r.mtype = CLOS /\ CloseAcct(r)

(* The answer is sent, or lost.                                            *)
Settle == /\ owed # NoReq
          /\ owed' = NoReq
          /\ UNCHANGED bal

Next == (\E r \in Requests : CarryOut(r)) \/ Settle

Spec == Init /\ [][Next]_vars

=============================================================================
