---------------------------- MODULE BankMessages ----------------------------
(***************************************************************************)
(* The messages of the banking system: the request types of FRONT.H, the   *)
(* response codes of BACKEND.H and the contents of struct qtype.           *)
(***************************************************************************)

OPER == 1      (* message types 1 .. 7 are requests, FRONT.H               *)
OPEN == 2
AINQ == 3
ADEP == 4
ACWD == 5
ATFR == 6
CLOS == 7

OK      == "00"
SYSERR  == "02"
DUP     == "03"
REC1ERR == "04"
BALERR  == "05"
REC2ERR == "07"
PWERR   == "09"
NoCode  == ""       (* message.mtext before the first reply                *)

Codes == {OK, SYSERR, DUP, REC1ERR, BALERR, REC2ERR, PWERR, NoCode}

(* message.mtext: a code and as many balances, in order, as follow it.     *)
Says(code)       == [code |-> code, bals |-> << >>]
Says1(code, b)   == [code |-> code, bals |-> <<b>>]
Says2(code, b, c) == [code |-> code, bals |-> <<b, c>>]

Request(mtype, acct)          == [mtype |-> mtype, acct |-> acct]
AmountRequest(mtype, acct, n) == [mtype |-> mtype, acct |-> acct, amount |-> n]
TransferRequest(acct, to, n)  == [mtype |-> ATFR, acct |-> acct, to |-> to, amount |-> n]
PasswordRequest(oper, passwd) == [mtype |-> OPER, operator |-> oper, passwd |-> passwd]

=============================================================================
