----------------------------- MODULE MCBackend -----------------------------
(***************************************************************************)
(* The backend with requests for few accounts, amounts and days.           *)
(***************************************************************************)
EXTENDS Backend, TLC

MCOne   == {1}
MCTwo   == 1 .. 2

MCPasswords == ("001" :> "right")

MCPasswordRequests == { PasswordRequest(o, p) : o \in {"001", "002"}, p \in {"right", "wrong"} }

MCSimple(mtypes, accts) == { Request(t, a) : t \in mtypes, a \in accts }

MCAmounts(mtypes, accts, ns) == { AmountRequest(t, a, n) : t \in mtypes, a \in accts, n \in ns }

MCTransfers == { TransferRequest(a, b, 1) : a \in Accts, b \in Accts }

(* No account is closed and no transfer is to its own account.             *)
MCPlain ==
    MCSimple({OPEN, AINQ}, Accts)
    \cup MCAmounts({ADEP, ACWD}, Accts, {1, 2})
    \cup { r \in MCTransfers : r.acct # r.to }

(* Everything but transfers.                                               *)
MCSingle ==
    MCSimple({OPEN, AINQ, CLOS}, Accts)
    \cup MCAmounts({ADEP, ACWD}, Accts, {1, 2})
    \cup MCPasswordRequests

=============================================================================
