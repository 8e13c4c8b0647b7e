-------------------------------- MODULE Front --------------------------------
(***************************************************************************)
(* The forms of a frontend (FRONT.C, MENU.C): login, the menu, the six     *)
(* forms of a transaction, what is sent from them and what becomes of the  *)
(* answer.  intextxy is one step: it returns with the text a user may have *)
(* made of the old one.  tran_account1, tran_account2 and                  *)
(* tran_operator_passwd, which nothing reads, are left out.                *)
(***************************************************************************)
EXTENDS Amounts, BankMessages

CONSTANTS Typed(_, _),  \* the texts a user makes of an entry's old text
          L_OPERID, L_PASSWORD, L_ACCNUM, L_CUSTNAME, L_AMOUNT,
          Balances      \* the balances in answers, nine digits each

ASSUME AmountLength == L_AMOUNT = 9
ASSUME LengthsAssumption == {L_OPERID, L_PASSWORD, L_ACCNUM, L_CUSTNAME} \subseteq Nat
ASSUME BalanceAssumption == \A b \in Balances : b \in Seq(Digits) /\ Len(b) = L_AMOUNT

ACCEPT == 0
REJECT == 1
EXCEED_BALANCE == 5

(* REJECT stands for all the codes that differ in the wording only.        *)
ResponseCodes == {ACCEPT, REJECT, EXCEED_BALANCE}

(* The entries of each form.                                               *)
Forms == [loginf |-> <<"T_OPERID", "T_PASSWORD">>,
          openf  |-> <<"T_ACCNUM", "T_CUSTNAME">>,
          ainqf  |-> <<"T_ACCNUM">>,
          adepf  |-> <<"T_ACCNUM", "T_AMOUNT">>,
          acwdf  |-> <<"T_ACCNUM", "T_AMOUNT">>,
          atfrf  |-> <<"T_ACCNUM", "T_ACCNUM2", "T_AMOUNT">>,
          closf  |-> <<"T_ACCNUM">>]

Length == [T_OPERID |-> L_OPERID, T_PASSWORD |-> L_PASSWORD,
           T_ACCNUM |-> L_ACCNUM, T_ACCNUM2 |-> L_ACCNUM,
           T_AMOUNT |-> L_AMOUNT, T_CUSTNAME |-> L_CUSTNAME]

FormOf == <<"loginf", "openf", "ainqf", "adepf", "acwdf", "atfrf", "closf">>

Transactions == OPEN .. CLOS

VARIABLES form,         \* the form on the screen, "menu" or "exit"
          at,           \* the entry the cursor is in (i + 1)
          waiting,      \* a request is out: authorise_transaction
          value,        \* e_value of the entries of every form
          transaction,  \* tran_code, tran_cust_name, tran_operator_num,
                        \* tran_amount and tran_state
          current_tran, operator_num,
          message,      \* the request built last, until it is answered
          shown         \* the balance answered and the text shown for it

vars == <<form, at, waiting, value, transaction, current_tran, operator_num,
          message, shown>>

NoMessage == [mtype |-> 0, operator |-> <<>>, body |-> <<>>]
Blank     == [balance |-> <<>>, text |-> <<>>]
-----------------------------------------------------------------------------
IsText(s, l) == s \in Seq(Chars) /\ Len(s) <= l

(* intextxy takes no more characters than the entry is long.               *)
Input(type, old) == { text \in Typed(type, old) : IsText(text, Length[type]) }

check_numeric_format(s, l) == Len(s) >= l /\ ToSet(s) \subseteq Digits

all_field_entered(entries) == <<>> \notin ToSet(entries)

clear_form(f) == [value EXCEPT ![f] = [k \in DOMAIN Forms[f] |-> <<>>]]

reset_transaction ==
  [tran_code |-> 0, tran_cust_name |-> <<>>, tran_operator_num |-> <<>>,
   tran_amount |-> <<>>, tran_state |-> 2]

(* A bug in build_request: the amount as it is in the field.               *)
build_request_raw(code, v, tran) ==
  [mtype    |-> code,
   operator |-> IF current_tran = OPER THEN v.loginf[1] ELSE operator_num,
   body     |-> v[FormOf[code]]]

(* The request: an operator, the texts of the form, but the name and the   *)
(* amount from the transaction.                                            *)
build_request(code, v, tran) ==
  [mtype    |-> code,
   operator |-> IF current_tran = OPER THEN v.loginf[1] ELSE operator_num,
   body     |-> CASE code = OPER -> <<v.loginf[2]>>
                  [] code = OPEN -> <<v.openf[1], tran.tran_cust_name>>
                  [] code = AINQ -> v.ainqf
                  [] code = ADEP -> <<v.adepf[1], tran.tran_amount>>
                  [] code = ACWD -> <<v.acwdf[1], tran.tran_amount>>
                  [] code = ATFR -> <<v.atfrf[1], v.atfrf[2], tran.tran_amount>>
                  [] code = CLOS -> v.closf]

(* What an entry makes of its text: whether it is good, the text it leaves *)
(* and the transaction it leaves.                                          *)
Checked(type, text) ==
  LET amount == check_amount_format(text, L_AMOUNT)
      padded == text \o Fill(Space, L_CUSTNAME - Len(text))
  IN  CASE type = "T_CUSTNAME" ->
             [good |-> TRUE, text |-> text,
              tran |-> [transaction EXCEPT !.tran_cust_name = padded]]
        [] type = "T_AMOUNT" ->
             [good |-> amount.code = AMT_OK, text |-> amount.text,
              tran |-> IF amount.code = AMT_OK
                       THEN [transaction EXCEPT !.tran_amount =
                               put_leading_zeros(amount.text)]
                       ELSE transaction]
        [] OTHER ->
             LET good == check_numeric_format(text, Length[type])
             IN  [good |-> good, text |-> text,
                  tran |-> IF good /\ type = "T_OPERID"
                           THEN [transaction EXCEPT !.tran_operator_num = text]
                           ELSE transaction]

Open(f) == form' = f /\ at' = 1

Entering == form \in DOMAIN Forms /\ ~ waiting

(* A bug in process_form: i is counted up without the modulus.             *)
NextEntryOnly == at + 1

NextEntry == (at % Len(Forms[form])) + 1

(* process_form, one turn of its loop: a text, and ENTER or Ctrl-W.  A     *)
(* text that is not good keeps the cursor where it is; Ctrl-W sends the    *)
(* request once every entry has a text.                                    *)
Enter ==
  /\ Entering
  /\ LET type == Forms[form][at]
     IN  \E text \in Input(type, value[form][at]) :
           LET done == Checked(type, text)
           IN  /\ value' = [value EXCEPT ![form][at] = done.text]
               /\ transaction' = done.tran
               /\ at' = IF done.good THEN NextEntry ELSE at
  /\ shown' = Blank
  /\ UNCHANGED <<form, waiting, current_tran, operator_num, message>>

(* authorise_transaction: msgget may find no queue (CANNOT_SEND).          *)
Confirm ==
  /\ Entering
  /\ LET type == Forms[form][at]
     IN  \E text \in Input(type, value[form][at]), sent \in BOOLEAN :
           LET done  == Checked(type, text)
               v     == [value EXCEPT ![form][at] = done.text]
               ready == done.good /\ all_field_entered(v[form])
           IN  /\ value' = v
               /\ waiting' = (ready /\ sent)
               /\ message' = IF ready
                    THEN build_request(done.tran.tran_code, v, done.tran)
                    ELSE message
               /\ transaction' = IF ready /\ ~ sent
                    THEN [done.tran EXCEPT !.tran_state = REJECT]
                    ELSE done.tran
  /\ shown' = Blank
  /\ UNCHANGED <<form, at, current_tran, operator_num>>

(* A bug in f_mainmenu: the form is cleared when it is accepted only.      *)
LeaveUncleared ==
  /\ form' = "menu"
  /\ transaction' = reset_transaction
  /\ current_tran' = 0
  /\ UNCHANGED <<at, value>>

(* The end of f_mainmenu, after process_form has returned.                 *)
LeaveForm ==
  /\ form' = "menu"
  /\ at' = 1
  /\ value' = clear_form(form)
  /\ transaction' = reset_transaction
  /\ current_tran' = 0

(* ESC leaves the form; from the login form, the program.                  *)
Escape ==
  /\ Entering
  /\ IF form = "loginf"
     THEN form' = "exit" /\ UNCHANGED <<at, value, transaction, current_tran>>
     ELSE LeaveForm
  /\ shown' = Blank
  /\ UNCHANGED <<waiting, operator_num, message>>

(* receive_reply and process_response: an answer of any code.  Accepted    *)
(* ends the form, any other leaves it as it is.  From login the menu       *)
(* comes up, with the login form kept for receive_reply.                   *)
Answered ==
  /\ waiting
  /\ waiting' = FALSE
  /\ message' = NoMessage
  /\ \E code \in ResponseCodes, b \in Balances :
       LET shows == \/ code = ACCEPT /\ current_tran \in {AINQ, ADEP, ACWD, ATFR}
                    \/ code = EXCEED_BALANCE
       IN  /\ shown' = IF shows
                       THEN [balance |-> b, text |-> display_balance(b)]
                       ELSE Blank
           /\ CASE code # ACCEPT ->
                     /\ transaction' = [transaction EXCEPT !.tran_state = code]
                     /\ UNCHANGED <<form, at, value, current_tran, operator_num>>
                [] code = ACCEPT /\ current_tran = OPER ->
                     /\ transaction' = [transaction EXCEPT !.tran_state = code]
                     /\ operator_num' = transaction.tran_operator_num
                     /\ form' = "menu" /\ at' = 1
                     /\ UNCHANGED <<value, current_tran>>
                [] OTHER -> LeaveForm /\ UNCHANGED operator_num

(* f_mainmenu: an option of the menu puts its form on the screen.          *)
Choose ==
  /\ form = "menu"
  /\ \E code \in Transactions :
       /\ form' = FormOf[code]
       /\ transaction' = [transaction EXCEPT !.tran_code = code]
       /\ current_tran' = code
  /\ at' = 1
  /\ shown' = Blank
  /\ UNCHANGED <<waiting, value, operator_num, message>>

(* ESC in the menu: back to login.                                         *)
LeaveMenu ==
  /\ form = "menu"
  /\ form' = "loginf"
  /\ at' = 1
  /\ value' = clear_form("loginf")
  /\ transaction' = [transaction EXCEPT !.tran_code = OPER]
  /\ current_tran' = OPER
  /\ shown' = Blank
  /\ UNCHANGED <<waiting, operator_num, message>>

(* On the way back closemenu frees the menu, which was never allocated:    *)
(* the free may end the program.                                           *)
closemenu ==
  /\ form = "menu"
  /\ form' = "exit"
  /\ shown' = Blank
  /\ UNCHANGED <<at, waiting, value, transaction, current_tran, operator_num,
                 message>>

Init ==
  /\ form = "loginf"
  /\ at = 1
  /\ waiting = FALSE
  /\ value = [f \in DOMAIN Forms |-> [k \in DOMAIN Forms[f] |-> <<>>]]
  /\ transaction = [tran_code |-> OPER, tran_cust_name |-> <<>>,
                    tran_operator_num |-> <<>>, tran_amount |-> <<>>,
                    tran_state |-> ACCEPT]
  /\ current_tran = OPER
  /\ operator_num = <<>>
  /\ message = NoMessage
  /\ shown = Blank

Next == Enter \/ Confirm \/ Escape \/ Answered \/ Choose \/ LeaveMenu \/ closemenu

Spec == Init /\ [][Next]_vars
-----------------------------------------------------------------------------
TypeOK ==
  /\ form \in DOMAIN Forms \cup {"menu", "exit"}
  /\ form \in DOMAIN Forms => at \in DOMAIN Forms[form]
  /\ waiting \in BOOLEAN
  /\ \A f \in DOMAIN Forms : \A k \in DOMAIN Forms[f] :
       IsText(value[f][k], Length[Forms[f][k]])
  /\ transaction.tran_code \in 0 .. CLOS
  /\ IsText(transaction.tran_cust_name, L_CUSTNAME)
  /\ transaction.tran_state \in ResponseCodes \cup {2}
  /\ Len(transaction.tran_amount) \in {0, L_AMOUNT}
  /\ current_tran \in 0 .. CLOS

(* While an answer is waited for, the request (FRONT.C:208-247) says what  *)
(* the form on the screen says: its operator is the one whose replies      *)
(* receive_reply waits for (FRONT.C:381), its type is the form's, and the  *)
(* name and the amount, kept apart in the transaction, are those in the    *)
(* fields, whatever was typed, refused and typed again in between.         *)
SentAsShown ==
  waiting =>
    /\ FormOf[message.mtype] = form
    /\ message.operator = value.loginf[1]
    /\ Len(message.operator) = L_OPERID
    /\ \A k \in DOMAIN Forms[form] :
         LET text == value[form][k]
             sent == message.body[IF form = "loginf" THEN 1 ELSE k]
         IN  CASE Forms[form][k] = "T_AMOUNT" -> sent = put_leading_zeros(text)
               [] Forms[form][k] = "T_CUSTNAME" ->
                    Len(sent) = L_CUSTNAME /\ IsPrefix(text, sent)
               [] Forms[form][k] = "T_OPERID" -> message.operator = text
               [] OTHER -> sent = text

Entered(Test(_, _)) ==
  Entering /\ Forms[form][at] = "T_AMOUNT" =>
    \A text \in Input("T_AMOUNT", value[form][at]) :
      Test(text, Checked("T_AMOUNT", text))

(* The largest amount in cents that a float tells from a million.          *)
Largest == 99999995

(* A text without a blank inside is taken if and only if it is an amount   *)
(* as FRONT.C:467-478 describes it, not zero and not too large; the text   *)
(* left in the field is the same amount, and so are the nine digits sent.  *)
AmountTaken ==
  Entered(LAMBDA text, done :
    HasInnerBlank(text) \/
      LET sent == done.tran.tran_amount
      IN  /\ done.good <=> IsAmount(text) /\ Cents(text) \in 1 .. Largest
          /\ done.good => /\ Cents(done.text) = Cents(text)
                          /\ Spelt(sent) = Cents(text)
                          /\ Len(sent) = L_AMOUNT /\ ToSet(sent) \subseteq Digits)

(* Going over an accepted amount once more, with ENTER on the text as the  *)
(* program has written it (FRONT.C:603-619), changes nothing.              *)
RecheckKeeps ==
  Entered(LAMBDA text, done :
    done.good =>
      LET again == Checked("T_AMOUNT", done.text)
      IN  /\ again.good
          /\ again.text = done.text
          /\ again.tran.tran_amount = done.tran.tran_amount)

(* The balance on the screen (FRONT.C:257-273) is the one in the answer,   *)
(* with two decimals, a digit before the point and no other leading zero.  *)
BalanceShown ==
  shown # Blank =>
    LET text == shown.text
        lead == FirstOf(text, LAMBDA k : text[k] # Space)
    IN  /\ Spelt(text) = Spelt(shown.balance)
        /\ ToSet(From(text, lead)) \subseteq Digits \cup {"."}
        /\ Decimals(text) = 2
        /\ lead <= 7
        /\ text[lead] = "0" => lead = 7

(* Nothing of a transaction outlives its form: the entries of every other  *)
(* form are empty, and so are the amount and the name sent with them.      *)
NothingLeft ==
  /\ \A f \in DOMAIN Forms \ {form, "loginf"} : ToSet(value[f]) = {<<>>}
  /\ form \notin {"adepf", "acwdf", "atfrf"} => transaction.tran_amount = <<>>
  /\ form # "openf" => transaction.tran_cust_name = <<>>
===============================================================================
