------------------------------ MODULE NameServer ------------------------------
(***************************************************************************)
(* The simple name server (SERVER.C), its clients (CLIENT.C) and the       *)
(* stream connections between them (NSERVER.H).  The server keeps its      *)
(* table in a linked list of allocated nodes, and the message it reads in  *)
(* a global that outlives the connection.                                  *)
(*                                                                         *)
(* Names are ordered as strcmp orders them; addresses are strings.   *)
(* The server handles one connection at a time and nobody sees its state   *)
(* between readn and close, so that is one action.                         *)
(***************************************************************************)
EXTENDS Naturals, Sequences, FiniteSets, FiniteSetsExt

CONSTANTS Names, Addresses, Nodes, Clients, Nothing,
          Messages  \* the messages each client may be run with

NULL  == 0
Empty == ""

ASSUME NodesAssumption == Nodes \in SUBSET (Nat \ {NULL}) /\ IsFiniteSet(Nodes)
ASSUME NamesAssumption == Names \in SUBSET Nat /\ IsFiniteSet(Names)
ASSUME AddressAssumption == Empty \notin Addresses

(* malloc is never refused: main does not look at what it returns.         *)
ASSUME MemoryAssumption == Cardinality(Names) < Cardinality(Nodes)

VARIABLES namehead,  \* the first node of the table, or NULL
          heap,      \* the nodes: [name, address, next], or Nothing when free
          msg,       \* the message read last
          result,    \* the result of the command executed last
          backlog,   \* the connections, in the order of connect
          pc,        \* each client: "idle", "connected", "waiting" or "gone"
          sent,      \* the message a client has written, or Nothing
          reply      \* what a client has been answered, or Nothing

server == <<namehead, heap, msg, result>>
links  == <<backlog, pc, sent, reply>>
vars   == <<server, links>>

(* The messages a client can write: its own msg starts as zeros, so a      *)
(* command that takes no address carries the empty one.                    *)
WithAddress == [command : {"REGISTER", "MODIFY"}, name : Names,
                address : Addresses]
NoAddressIn == [command : {"ENQUIRE", "DELETE"}, name : Names, address : {Empty}]
Unknown     == [command : {"OTHER"}, name : Names, address : {Empty}]
ZeroMsg     == [command |-> "OTHER", name |-> 0, address |-> Empty]
Request     == WithAddress \cup NoAddressIn \cup Unknown

(* msg is a request, or one whose address enquire has replaced; a node of  *)
(* the table; the results, and what is written back.                       *)
Received == [command : {"REGISTER", "MODIFY", "ENQUIRE", "DELETE", "OTHER"},
             name : Names \cup {0}, address : Addresses \cup {Empty}]
NameType == [name : Names, address : Addresses, next : Nodes \cup {NULL}]
Results  == {"OK", "NOT_EXIST", "ALREADY_EXIST"}
Answers  == Results \cup {"eof", Empty} \cup Addresses

ASSUME MessagesAssumption == Messages \in [Clients -> SUBSET Request]
ASSUME NothingAssumption  == Nothing \notin Request \cup NameType \cup Answers

TypeOK ==
  /\ namehead \in Nodes \cup {NULL}
  /\ heap \in [Nodes -> {Nothing} \cup NameType]
  /\ msg \in Received
  /\ result \in Results
  /\ backlog \in Seq(Clients)
  /\ pc \in [Clients -> {"idle", "connected", "waiting", "gone"}]
  /\ sent \in [Clients -> {Nothing} \cup Request]
  /\ reply \in [Clients -> {Nothing} \cup Answers]
-----------------------------------------------------------------------------
(* The node k links behind the head, NULL from the end of the list on.     *)
NextOf(n) == IF n = NULL THEN NULL ELSE heap[n].next

Node[k \in 0 .. Cardinality(Nodes)] ==
  IF k = 0 THEN namehead ELSE NextOf(Node[k - 1])

Places == 0 .. Cardinality(Nodes)

(* Where a loop over the list stops: at the first node that answers to     *)
(* Test, or behind the last one.                                           *)
StopsAt(Test(_)) ==
  Min({k \in Places : Node[k] = NULL \/ Test(heap[Node[k]].name)}
        \cup {Cardinality(Nodes)})

Found(name) == Node[StopsAt(LAMBDA n : n = name)]

(* Each command answers with the list it leaves.                           *)
Result(r, h, hd, address) ==
  [result |-> r, heap |-> h, head |-> hd, address |-> address]

enquire(m) ==
  LET work == Found(m.name)
  IN  IF work = NULL THEN Result("NOT_EXIST", heap, namehead, m.address)
      ELSE Result("OK", heap, namehead, heap[work].address)

modify(m) ==
  LET work == Found(m.name)
  IN  IF work = NULL THEN Result("NOT_EXIST", heap, namehead, m.address)
      ELSE Result("OK", [heap EXCEPT ![work].address = m.address],
                  namehead, m.address)

delete(m) ==
  LET k    == StopsAt(LAMBDA n : n = m.name)
      work == Node[k]
  IN  IF work = NULL THEN Result("NOT_EXIST", heap, namehead, m.address)
      ELSE IF k = 0
      THEN Result("OK", [heap EXCEPT ![work] = Nothing],
                  heap[work].next, m.address)
      ELSE Result("OK", [heap EXCEPT ![Node[k - 1]].next = heap[work].next,
                                     ![work] = Nothing],
                  namehead, m.address)

(* A bug in reg: the loop walks on over an equal name.                     *)
regPastEqual(m, new) ==
  LET h == [heap EXCEPT ![new] =
                 [name |-> m.name, address |-> m.address, next |-> NULL]]
      k == StopsAt(LAMBDA n : n > m.name)
  IN  IF namehead = NULL THEN Result("OK", h, new, m.address)
      ELSE IF k = 0
      THEN Result("OK", [h EXCEPT ![new].next = namehead], new, m.address)
      ELSE IF Node[k] = NULL
      THEN Result("OK", [h EXCEPT ![Node[k - 1]].next = new], namehead,
                  m.address)
      ELSE Result("ALREADY_EXIST", heap, namehead, m.address)

(* A bug in reg: a new first name is not linked to the rest of the list.   *)
regForgetsTail(m, new) ==
  LET h == [heap EXCEPT ![new] =
                 [name |-> m.name, address |-> m.address, next |-> NULL]]
      k == StopsAt(LAMBDA n : n >= m.name)
  IN  IF k = 0 THEN Result("OK", h, new, m.address)
      ELSE IF Node[k] = NULL
      THEN Result("OK", [h EXCEPT ![Node[k - 1]].next = new], namehead,
                  m.address)
      ELSE Result("ALREADY_EXIST", heap, namehead, m.address)

(* reg with the malloc before it and the free after a refusal: a new name  *)
(* is linked in before the first node or behind the last one.              *)
reg(m, new) ==
  LET h == [heap EXCEPT ![new] =
                 [name |-> m.name, address |-> m.address, next |-> NULL]]
      k == StopsAt(LAMBDA n : n >= m.name)
  IN  IF namehead = NULL THEN Result("OK", h, new, m.address)
      ELSE IF k = 0 /\ heap[namehead].name > m.name
      THEN Result("OK", [h EXCEPT ![new].next = namehead], new, m.address)
      ELSE IF Node[k] = NULL
      THEN Result("OK", [h EXCEPT ![Node[k - 1]].next = new], namehead,
                  m.address)
      ELSE Result("ALREADY_EXIST", heap, namehead, m.address)

malloc == CHOOSE n \in Nodes : heap[n] = Nothing

(* The switch of the server's main.                                        *)
Execute(m) ==
  CASE m.command = "REGISTER" -> reg(m, malloc)
    [] m.command = "ENQUIRE"  -> enquire(m)
    [] m.command = "MODIFY"   -> modify(m)
    [] m.command = "DELETE"   -> delete(m)
    [] OTHER                  -> Result(result, heap, namehead, m.address)

(* What is written back: ENQUIRE's result is not, an unknown command gets  *)
(* nothing but the end of the stream.                                      *)
Answer(m, done) ==
  CASE m.command = "ENQUIRE" -> done.address
    [] m.command = "OTHER"   -> "eof"
    [] OTHER                 -> done.result
-----------------------------------------------------------------------------
(* The client.                                                             *)
Connect(c) ==
  /\ pc[c] = "idle"
  /\ pc' = [pc EXCEPT ![c] = "connected"]
  /\ backlog' = Append(backlog, c)
  /\ UNCHANGED <<server, sent, reply>>

(* A bug in the client: an address on the command line is sent with any    *)
(* command.                                                                *)
WriteAnyAddress(c) ==
  /\ pc[c] = "connected"
  /\ \E m \in Messages[c], a \in Addresses :
       sent' = [sent EXCEPT ![c] = [m EXCEPT !.address = a]]
  /\ pc' = [pc EXCEPT ![c] = "waiting"]
  /\ UNCHANGED <<server, backlog, reply>>

Write(c) ==
  /\ pc[c] = "connected"
  /\ \E m \in Messages[c] : sent' = [sent EXCEPT ![c] = m]
  /\ pc' = [pc EXCEPT ![c] = "waiting"]
  /\ UNCHANGED <<server, backlog, reply>>

(* The client reads the answer, prints it and exits.                       *)
Show(c) ==
  /\ pc[c] = "waiting"
  /\ reply[c] # Nothing
  /\ pc' = [pc EXCEPT ![c] = "idle"]
  /\ sent' = [sent EXCEPT ![c] = Nothing]
  /\ reply' = [reply EXCEPT ![c] = Nothing]
  /\ UNCHANGED <<server, backlog>>

(* The client is interrupted: what it has written stays in the stream.     *)
Interrupt(c) ==
  /\ pc[c] \in {"connected", "waiting"}
  /\ reply[c] = Nothing
  /\ pc' = [pc EXCEPT ![c] = "gone"]
  /\ UNCHANGED <<server, backlog, sent, reply>>

(* What the client prints for an answer.                                   *)
Printed(m, answer) ==
  IF m.command = "ENQUIRE" /\ answer = Empty THEN "NOT_EXIST" ELSE answer
-----------------------------------------------------------------------------
(* The server: accept, readn, the command, writen and close.  readn        *)
(* returns when the client has written, or has gone; a client that went    *)
(* before it wrote leaves msg as it was, and the switch goes ahead.        *)
Close(c, answer) ==
  /\ backlog' = Tail(backlog)
  /\ IF pc[c] = "gone"
     THEN /\ pc' = [pc EXCEPT ![c] = "idle"]
          /\ sent' = [sent EXCEPT ![c] = Nothing]
          /\ UNCHANGED reply
     ELSE reply' = [reply EXCEPT ![c] = answer] /\ UNCHANGED <<pc, sent>>

(* A bug in the server: an unknown command goes back to accept at once,    *)
(* past the close.                                                         *)
ServeNoClose(c) ==
  /\ backlog # <<>> /\ c = Head(backlog)
  /\ pc[c] \in {"waiting", "gone"}
  /\ LET m    == IF sent[c] = Nothing THEN msg ELSE sent[c]
         done == Execute(m)
     IN  /\ msg' = [m EXCEPT !.address = done.address]
         /\ result' = done.result
         /\ heap' = done.heap
         /\ namehead' = done.head
         /\ IF m.command = "OTHER" THEN backlog' = Tail(backlog)
                                        /\ UNCHANGED <<pc, sent, reply>>
            ELSE Close(c, Answer(m, done))

Serve(c) ==
  /\ backlog # <<>> /\ c = Head(backlog)
  /\ pc[c] \in {"waiting", "gone"}
  /\ LET m    == IF sent[c] = Nothing THEN msg ELSE sent[c]
         done == Execute(m)
     IN  /\ msg' = [m EXCEPT !.address = done.address]
         /\ result' = done.result
         /\ heap' = done.heap
         /\ namehead' = done.head
         /\ Close(c, Answer(m, done))

(* The server is stopped and started again: the table was in memory only,  *)
(* every connection is cut, and a client that waited reads nothing and     *)
(* prints what its variables happened to hold.                             *)
Restart ==
  /\ namehead' = NULL
  /\ heap' = [n \in Nodes |-> Nothing]
  /\ msg' = ZeroMsg
  /\ result' = "OK"
  /\ backlog' = <<>>
  /\ pc' = [c \in Clients |-> IF pc[c] = "waiting" THEN "waiting" ELSE "idle"]
  /\ sent' = [c \in Clients |->
                IF pc[c] = "waiting" THEN sent[c] ELSE Nothing]
  /\ reply' = [c \in Clients |->
                 IF pc[c] = "waiting" /\ reply[c] = Nothing THEN "eof"
                 ELSE reply[c]]

Init ==
  /\ namehead = NULL
  /\ heap = [n \in Nodes |-> Nothing]
  /\ msg = ZeroMsg
  /\ result = "OK"
  /\ backlog = <<>>
  /\ pc = [c \in Clients |-> "idle"]
  /\ sent = [c \in Clients |-> Nothing]
  /\ reply = [c \in Clients |-> Nothing]

Next ==
  \/ \E c \in Clients :
       Connect(c) \/ Write(c) \/ Show(c) \/ Interrupt(c) \/ Serve(c)
  \/ Restart

Spec == Init /\ [][Next]_vars

(* The processes run: a connected client writes and reads, the server      *)
(* handles a request that is there.                                        *)
Fairness ==
  /\ WF_vars(\E c \in Clients : Serve(c))
  /\ \A c \in Clients : WF_links(Write(c) \/ Show(c))

FairSpec == Spec /\ Fairness
-----------------------------------------------------------------------------
Listed == {Node[k] : k \in Places} \ {NULL}

Map ==
  LET listed == Listed
      names  == {heap[x].name : x \in listed}
  IN  [n \in Names |->
         IF n \notin names THEN Empty
         ELSE heap[CHOOSE x \in listed : heap[x].name = n].address]

(* The list (SERVER.C:67-131) ends, its names ascend strictly, and every   *)
(* node that is allocated is on it: no name twice, no node lost to a       *)
(* refusal or left behind by delete, none freed while it is linked.        *)
TableSound ==
  /\ Node[Cardinality(Nodes)] = NULL
  /\ \A k \in Places \ {0} :
       Node[k] # NULL => heap[Node[k - 1]].name < heap[Node[k]].name
  /\ Listed = {n \in Nodes : heap[n] # Nothing}

(* A client that closes before it writes leaves the message of the client  *)
(* before it in msg, and the switch executes it once more (SERVER.C:177-   *)
(* 181): that changes no name and no address.                              *)
EarlyCloseHarmless ==
  [][\A c \in Clients :
       sent[c] = Nothing /\ Serve(c) => Map' = Map]_vars

(* A request to register a free name that belongs in the middle of the     *)
(* table, between two registered ones.                                     *)
MiddleName(m) ==
  /\ m.command = "REGISTER"
  /\ Map[m.name] = Empty
  /\ \E a, b \in Names : /\ Map[a] # Empty /\ a < m.name
                         /\ Map[b] # Empty /\ m.name < b

(* What the table, as it is before the message is executed, has to say to  *)
(* it.                                                                     *)
RightAnswer(m) ==
  CASE m.command = "ENQUIRE"  -> IF Map[m.name] = Empty THEN "NOT_EXIST"
                                 ELSE Map[m.name]
    [] m.command = "OTHER"    -> "eof"
    [] m.command = "REGISTER" -> IF Map[m.name] = Empty THEN "OK"
                                 ELSE "ALREADY_EXIST"
    [] OTHER -> IF Map[m.name] = Empty THEN "NOT_EXIST" ELSE "OK"

(* What a client prints (CLIENT.C:75-93) is the answer to its own message, *)
(* and true of the table as it was when the server handled it: an unknown  *)
(* name is never shown at an address (SERVER.C:194-195), and a name is     *)
(* said to exist only if it does, unless it is a free name that belongs    *)
(* between two others (SERVER.C:127-128).                                  *)
PrintsTruth ==
  [][\A c \in Clients :
       pc[c] = "waiting" /\ reply[c] = Nothing /\ Serve(c) /\ ~ MiddleName(sent[c])
         => Printed(sent[c], reply'[c]) = RightAnswer(sent[c])]_vars

(* Every client that has connected prints an answer and exits, or is       *)
(* interrupted: one connection at a time (SERVER.C:171) keeps no one out.  *)
Answered == \A c \in Clients : pc[c] = "connected" ~> pc[c] \in {"idle", "gone"}

AnswerSeen ==
  CASE msg.command = "REGISTER" ->
         <<"register", msg.name,
           IF result = "OK" THEN "ok" ELSE "already exists">>
    [] msg.command = "MODIFY" ->
         <<"modify", msg.name, IF result = "OK" THEN "ok" ELSE "not exist">>
    [] msg.command = "DELETE" ->
         <<"delete", msg.name, IF result = "OK" THEN "ok" ELSE "not exist">>
    [] msg.command = "ENQUIRE" -> <<"enquire", msg.name, msg.address>>
    [] OTHER -> <<"none">>

Abstract == INSTANCE NameMap WITH map <- Map, answer <- AnswerSeen,
                                  NoAddress <- Empty

(* The linked list and the re-executed messages implement the map of       *)
(* names: a new name is inserted "with sorting" (SERVER.C:94), appended    *)
(* "to end or middle of list" (SERVER.C:115), and refused only if it "has  *)
(* the same name" as an entry (SERVER.C:127).                              *)
ImplementsNameMap == Abstract!Spec

MiddleRefused ==
  /\ MiddleName(msg')
  /\ AnswerSeen' = <<"register", msg'.name, "already exists">>
  /\ Map' = Map

(* Every step of the server is one of the map's, whatever the history,     *)
(* but for a request to register a middle name: that may be refused as     *)
(* well, and then leaves the map as it was (SERVER.C:67-131, 181-205).     *)
NameMapButMiddle ==
  /\ Abstract!Init
  /\ [][Abstract!Next \/ MiddleRefused]_<<Map, AnswerSeen>>
===============================================================================
