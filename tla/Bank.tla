-------------------------------- MODULE Bank --------------------------------
(***************************************************************************)
(* Frontend processes (FRONT.C) and the backend process (BACKEND.C) around *)
(* the one System V message queue that carries requests and replies.       *)
(*                                                                         *)
(* A request has its transaction code for a message type and begins with   *)
(* the number of its operator; the reply to it has that number for a type  *)
(* and begins with the response code.  num is the number that atoi reads   *)
(* from the first three characters of a message.  What a handler does to   *)
(* the accounts is Backend.tla; here it is one step that takes the request *)
(* and knows the reply.  for names the request a message is, or answers:   *)
(* the programs have no such field, the properties are about it.           *)
(***************************************************************************)
EXTENDS BankMessages, Integers, Sequences, FiniteSets

CONSTANTS Fronts,      (* terminals a frontend runs on                     *)
          Staffs,      (* numbers of the operators at each terminal: the   *)
                       (* ways they may be spread over the terminals       *)
          Types,       (* transactions of the menu that are used           *)
          Capacity,    (* messages the queue holds                         *)
          NoMsg,       (* no message                                       *)
          MaxSent,     (* bound: requests of one terminal                  *)
          MaxKills,    (* bound: deaths of the backend                     *)
          MaxQuits     (* bound: frontends killed                          *)

ASSUME StaffsAssumption   == Staffs \subseteq [Fronts -> SUBSET Nat]
ASSUME TypesAssumption    == Types \subseteq OPEN .. CLOS
ASSUME CapacityAssumption == Capacity \in Nat \ {0}

VARIABLES queue,       (* the message queue                                *)
          made,        (* it has been created                              *)
          staff,       (* which of Staffs it is; nothing changes it        *)
          fpc,         (* where each frontend is                           *)
          logged,      (* its operator has been accepted                   *)
          oper,        (* the operator number in its login form            *)
          sent,        (* requests it has built                            *)
          fmsg,        (* its message area                                 *)
          bpc,         (* the backend: down, scanning or replying          *)
          scan,        (* the message type it looks for next               *)
          bmsg,        (* its reply                                        *)
          kills, quits

fronts == <<fpc, logged, oper, sent, fmsg>>
back   == <<bpc, scan, bmsg>>
vars   == <<queue, made, staff, fronts, back, kills, quits>>

Init == /\ queue = << >>
        /\ made = FALSE
        /\ staff \in Staffs
        /\ fpc = [f \in Fronts |-> "form"]
        /\ logged = [f \in Fronts |-> FALSE]
        /\ oper = [f \in Fronts |-> 0]
        /\ sent = [f \in Fronts |-> 0]
        /\ fmsg = [f \in Fronts |-> NoMsg]
        /\ bpc = "down"
        /\ scan = 1
        /\ bmsg = NoMsg
        /\ kills = 0
        /\ quits = 0

Message(kind, mtype, num, for) == [kind |-> kind, mtype |-> mtype, num |-> num, for |-> for]

-----------------------------------------------------------------------------
(* The queue: msgsnd blocks while it is full, msgrcv takes the first       *)
(* message of a type, or the first of any type when it asks for type 0.    *)

HasRoom == Len(queue) < Capacity

Positions(mtype) == { i \in DOMAIN queue : mtype \in {0, queue[i].mtype} }

First(mtype) == CHOOSE i \in Positions(mtype) : \A j \in Positions(mtype) : i <= j

Without(i) == SubSeq(queue, 1, i - 1) \o SubSeq(queue, i + 1, Len(queue))

-----------------------------------------------------------------------------
(* A frontend.                                                             *)

Goto(f, pc) == fpc' = [fpc EXCEPT ![f] = pc]

(* build_request                                                           *)
Build(f, mtype, o) ==
    /\ fpc[f] = "form"
    /\ sent[f] < MaxSent
    /\ sent' = [sent EXCEPT ![f] = @ + 1]
    /\ oper' = [oper EXCEPT ![f] = o]
    /\ fmsg' = [fmsg EXCEPT ![f] = Message("request", mtype, o, <<f, sent'[f]>>)]
    /\ Goto(f, "send")
    /\ UNCHANGED <<queue, made, staff, logged, back, kills, quits>>

Login(f)       == ~logged[f] /\ \E o \in staff[f] : Build(f, OPER, o)
Transaction(f) == logged[f] /\ \E t \in Types : Build(f, t, oper[f])

(* ESC in the menu goes back to the login form.                            *)
Logout(f) ==
    /\ fpc[f] = "form"
    /\ logged[f]
    /\ logged' = [logged EXCEPT ![f] = FALSE]
    /\ UNCHANGED <<queue, made, staff, fpc, oper, sent, fmsg, back, kills, quits>>

(* A mistake: the request is sent twice.                                   *)
SendRequestTwice(f) ==
    /\ fpc[f] = "send"
    /\ made
    /\ HasRoom
    /\ queue' = queue \o <<fmsg[f], fmsg[f]>>
    /\ Goto(f, "wait")
    /\ UNCHANGED <<made, staff, logged, oper, sent, fmsg, back, kills, quits>>

(* send_request                                                            *)
SendRequest(f) ==
    /\ fpc[f] = "send"
    /\ made
    /\ HasRoom
    /\ queue' = Append(queue, fmsg[f])
    /\ Goto(f, "wait")
    /\ UNCHANGED <<made, staff, logged, oper, sent, fmsg, back, kills, quits>>

CannotSend(f) ==
    /\ fpc[f] = "send"
    /\ ~made
    /\ Goto(f, "form")
    /\ UNCHANGED <<queue, made, staff, logged, oper, sent, fmsg, back, kills, quits>>

(* A mistake: the frontend does not wait when there is no message yet.     *)
ReceiveReplyNoWait(f) ==
    /\ fpc[f] = "wait"
    /\ \/ /\ Positions(oper[f]) = {}
          /\ Goto(f, "form")
          /\ UNCHANGED <<fmsg, queue>>
       \/ /\ Positions(oper[f]) # {}
          /\ fmsg' = [fmsg EXCEPT ![f] = queue[First(oper[f])]]
          /\ queue' = Without(First(oper[f]))
          /\ Goto(f, "shown")
    /\ UNCHANGED <<made, staff, logged, oper, sent, back, kills, quits>>

(* receive_reply: the queue exists, so this waits for a message            *)
ReceiveReply(f) ==
    /\ fpc[f] = "wait"
    /\ Positions(oper[f]) # {}
    /\ LET i == First(oper[f])
       IN  /\ fmsg' = [fmsg EXCEPT ![f] = queue[i]]
           /\ queue' = Without(i)
    /\ Goto(f, "shown")
    /\ UNCHANGED <<made, staff, logged, oper, sent, back, kills, quits>>

(* The response code is the first two characters, whatever the message is. *)
Accepted(m) == IF m.kind = "request" THEN m.num \div 10 = 0 ELSE m.num = 0

(* process_response, up to the key the operator presses                    *)
ProcessResponse(f) ==
    /\ fpc[f] = "shown"
    /\ logged' = [logged EXCEPT ![f] = @ \/ Accepted(fmsg[f])]
    /\ Goto(f, "form")
    /\ UNCHANGED <<queue, made, staff, oper, sent, fmsg, back, kills, quits>>

(* The frontend is killed, and started again.                              *)
KillFront(f) ==
    /\ quits < MaxQuits
    /\ quits' = quits + 1
    /\ Goto(f, "form")
    /\ logged' = [logged EXCEPT ![f] = FALSE]
    /\ oper' = [oper EXCEPT ![f] = 0]
    /\ fmsg' = [fmsg EXCEPT ![f] = NoMsg]
    /\ UNCHANGED <<queue, made, staff, sent, back, kills>>

-----------------------------------------------------------------------------
(* The backend.                                                            *)

(* Mistakes: the loop over the types stops at 6, or does not stop.         *)
NextTypeShort == IF scan = ATFR THEN OPER ELSE scan + 1
NextTypeLong  == scan + 1

NextType == IF scan = CLOS THEN OPER ELSE scan + 1

(* The numbers a reply to a request of each type can begin with: a code    *)
(* and, where balances follow, the first digit of a balance, which is 0.   *)
Numbers(mtype) ==
    CASE mtype = OPER -> {0, 4, 9}
      [] mtype = OPEN -> {0, 3}
      [] mtype = ACWD -> {0, 4, 50}
      [] mtype = ATFR -> {0, 4, 7, 50}
      [] OTHER        -> {0, 4}

StartBack ==
    /\ bpc = "down"
    /\ kills <= MaxKills
    /\ made' = TRUE
    /\ bpc' = "scan"
    /\ scan' = OPER
    /\ bmsg' = NoMsg
    /\ UNCHANGED <<queue, staff, fronts, kills, quits>>

(* msgrcv finds nothing                                                    *)
Skip ==
    /\ bpc = "scan"
    /\ Positions(scan) = {}
    /\ scan' = NextType
    /\ UNCHANGED <<queue, made, staff, fronts, bpc, bmsg, kills, quits>>

(* Mistakes: the reply goes to the operator of the request before, or      *)
(* keeps the type of its request.                                          *)
ReplyTypeBefore(m) == IF bmsg = NoMsg THEN m.num ELSE bmsg.mtype
ReplyTypeSame(m)   == m.mtype

(* operator = atoi(operator_id)                                            *)
ReplyType(m) == m.num

(* msgrcv and the handler                                                  *)
Handle ==
    /\ bpc = "scan"
    /\ Positions(scan) # {}
    /\ LET i == First(scan)
       IN  /\ queue' = Without(i)
           /\ \E n \in Numbers(scan) :
                 bmsg' = Message("reply", ReplyType(queue[i]), n, queue[i].for)
    /\ bpc' = "reply"
    /\ UNCHANGED <<made, staff, fronts, scan, kills, quits>>

(* msgsnd of the reply                                                     *)
Reply ==
    /\ bpc = "reply"
    /\ bmsg.mtype > 0
    /\ HasRoom
    /\ queue' = Append(queue, bmsg)
    /\ bpc' = "scan"
    /\ scan' = NextType
    /\ UNCHANGED <<made, staff, fronts, bmsg, kills, quits>>

Down == /\ bpc' = "down"
        /\ kills' = kills + 1
        /\ UNCHANGED <<queue, made, staff, fronts, scan, bmsg, quits>>

(* msgsnd fails: 0 is no message type                                      *)
ReplyFails == bpc = "reply" /\ bmsg.mtype = 0 /\ Down

KillBack == bpc # "down" /\ kills < MaxKills /\ Down

Serve == Skip \/ Handle \/ Reply \/ ReplyFails

Next == \/ \E f \in Fronts : \/ Login(f)
                             \/ Transaction(f)
                             \/ Logout(f)
                             \/ SendRequest(f)
                             \/ CannotSend(f)
                             \/ ReceiveReply(f)
                             \/ ProcessResponse(f)
                             \/ KillFront(f)
        \/ StartBack
        \/ Serve
        \/ KillBack

Spec == Init /\ [][Next]_vars

(* The system runs every process that can run.  It does not press keys.    *)
FairSpec == /\ Spec
            /\ WF_vars(StartBack)
            /\ WF_vars(Serve)
            /\ \A f \in Fronts : WF_vars(SendRequest(f) \/ CannotSend(f))
            /\ \A f \in Fronts : WF_vars(ReceiveReply(f))

-----------------------------------------------------------------------------
(* Properties                                                              *)

Messages == [kind : {"request", "reply"}, mtype : Nat, num : Nat,
             for : Fronts \X (Nat \ {0})]

TypeOK ==
    /\ queue \in Seq(Messages)
    /\ made \in BOOLEAN
    /\ staff \in Staffs
    /\ fpc \in [Fronts -> {"form", "send", "wait", "shown"}]
    /\ logged \in [Fronts -> BOOLEAN]
    /\ oper \in [Fronts -> Nat]
    /\ sent \in [Fronts -> Nat]
    /\ fmsg \in [Fronts -> Messages \cup {NoMsg}]
    /\ bpc \in {"down", "scan", "reply"}
    /\ scan \in OPER .. CLOS
    /\ bmsg \in Messages \cup {NoMsg}
    /\ kills \in Nat
    /\ quits \in Nat

(* No operator number is a message type of requests.                       *)
NoTypeNumbers == \A f \in Fronts : staff[f] \cap (OPER .. CLOS) = {}

(* Every terminal has operators of its own, none of them with a number up  *)
(* to 007, and no frontend has been killed: what is sent to an operator is *)
(* for one terminal, and for the request it has sent last.                 *)
Apart ==
    /\ quits = 0
    /\ \A f \in Fronts : \A o \in staff[f] : o > CLOS
    /\ \A f, g \in Fronts : f # g => staff[f] \cap staff[g] = {}

(* "compare the transaction to and from dbms" (FRONT.C:276): what a        *)
(* frontend shows is the reply to the request it sent last.                *)
ReplyMatches ==
    Apart => \A f \in Fronts : fpc[f] = "shown" => /\ fmsg[f].kind = "reply"
                                                   /\ fmsg[f].for = <<f, sent[f]>>

(* "This is the backend process that handles all transactions from the     *)
(* frontend processes" (BACKEND.C:9-10): it takes requests from the queue, *)
(* and never a reply, whoever shares an operator number or is killed.      *)
OnlyRequestsServed ==
    [][NoTypeNumbers /\ Handle => queue[First(scan)].kind = "request"]_vars

(* There is room for every reply: msgsnd of BACKEND.C:442 never waits for  *)
(* the frontends, which may all be waiting for it.                         *)
ReplyHasRoom == Apart /\ bpc = "reply" => HasRoom

(* A frontend that waits gets an answer, unless the backend dies: no       *)
(* terminal and no type of request is passed over for ever, however the    *)
(* others go on (BACKEND.C:422-449).                                       *)
WaitEnds ==
    \A f \in Fronts :
        Apart /\ fpc[f] = "wait" ~> (fpc[f] # "wait" \/ kills > 0 \/ quits > 0)

(* "Transaction Cancelled, timeout" (FRONT.C:402): the wait for a reply    *)
(* ends, with or without one.                                              *)
WaitTimesOut == \A f \in Fronts : (fpc[f] = "wait") ~> (fpc[f] # "wait")

(* No request is answered twice and, as long as the backend lives, none is *)
(* lost: of a request and the reply to it there is one copy, in the queue  *)
(* or in the hands of the backend (FRONT.C:360-383, BACKEND.C:426-442).    *)
Copies(f) ==
    { i \in DOMAIN queue : queue[i].for = <<f, sent[f]>> }
    \cup { i \in {0} : bpc = "reply" /\ bmsg.for = <<f, sent[f]>> }

OneCopy ==
    Apart => \A f \in Fronts : fpc[f] = "wait" =>
        /\ Cardinality(Copies(f)) <= 1
        /\ kills = 0 => Copies(f) # {}

=============================================================================
