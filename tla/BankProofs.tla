----------------------------- MODULE BankProofs -----------------------------
(***************************************************************************)
(* Theorems about Bank.tla for any number of terminals and operators, a    *)
(* queue of any capacity and any number of requests.                       *)
(***************************************************************************)
EXTENDS Bank, TLAPS, FiniteSetTheorems, SequenceTheorems, LeastNumber

(* What a message is made of.                                              *)
LEMMA MessageFields ==
  ASSUME NEW m \in Messages
  PROVE  /\ m.kind \in {"request", "reply"}
         /\ m.mtype \in Nat /\ m.num \in Nat
         /\ m.for \in Fronts \X (Nat \ {0})
  BY DEF Messages

(* msgrcv takes the first of the messages of a type, if there is one.      *)
LEMMA FirstFound ==
  ASSUME NEW mtype, queue \in Seq(Messages), Positions(mtype) # {}
  PROVE  First(mtype) \in Positions(mtype)
<1>1. Positions(mtype) \in SUBSET Nat
  BY DEF Positions
<1>2. PICK m \in Positions(mtype) : \A q \in Positions(mtype) : m <= q
  BY <1>1, LeastNatural
<1>. QED
  BY <1>2 DEF First

(* The queue when a message has been taken out of it.                      *)
LEMMA WithoutOne ==
  ASSUME queue \in Seq(Messages), NEW i \in 1 .. Len(queue)
  PROVE  /\ Without(i) \in Seq(Messages)
         /\ Len(Without(i)) = Len(queue) - 1
         /\ \A j \in 1 .. Len(queue) - 1 :
              Without(i)[j] = IF j < i THEN queue[j] ELSE queue[j + 1]
<1> DEFINE a == SubSeq(queue, 1, i - 1)
           b == SubSeq(queue, i + 1, Len(queue))
<1>1. /\ a \in Seq(Messages) /\ Len(a) = i - 1
      /\ \A j \in 1 .. i - 1 : a[j] = queue[j]
  OBVIOUS
<1>2. /\ b \in Seq(Messages) /\ Len(b) = Len(queue) - i
      /\ \A j \in 1 .. Len(queue) - i : b[j] = queue[i + j]
  OBVIOUS
<1>3. Without(i) = a \o b
  BY DEF Without
<1> HIDE DEF a, b
<1>4. /\ a \o b \in Seq(Messages)
      /\ Len(a \o b) = Len(a) + Len(b)
      /\ \A j \in 1 .. Len(a) + Len(b) :
           (a \o b)[j] = IF j <= Len(a) THEN a[j] ELSE b[j - Len(a)]
  BY <1>1, <1>2, ConcatProperties
<1>5. \A j \in 1 .. Len(queue) - 1 :
        (a \o b)[j] = IF j < i THEN queue[j] ELSE queue[j + 1]
  BY <1>1, <1>2, <1>4
<1>. QED
  BY <1>1, <1>2, <1>3, <1>4, <1>5

(* What is about to be sent is a message.                                  *)
Holding == /\ \A f \in Fronts : fpc[f] = "send" => fmsg[f] \in Messages
           /\ bpc = "reply" => bmsg \in Messages

TypeInv == TypeOK /\ Holding

LEMMA TypeInit == Init => TypeInv
<1> SUFFICES ASSUME Init
             PROVE  TypeInv
  OBVIOUS
<1>1. logged \in [Fronts -> BOOLEAN] /\ made \in BOOLEAN /\ staff \in Staffs
  BY DEF Init
<1>2. /\ queue \in Seq(Messages)
      /\ fpc \in [Fronts -> {"form", "send", "wait", "shown"}]
      /\ fmsg \in [Fronts -> Messages \cup {NoMsg}]
      /\ bmsg \in Messages \cup {NoMsg}
  BY DEF Init
<1>3. /\ oper \in [Fronts -> Nat] /\ sent \in [Fronts -> Nat]
      /\ bpc \in {"down", "scan", "reply"} /\ scan \in OPER .. CLOS
      /\ kills \in Nat /\ quits \in Nat
  BY DEF Init, OPER, CLOS
<1>4. Holding
  BY DEF Init, Holding
<1>. QED
  BY <1>1, <1>2, <1>3, <1>4 DEF TypeOK, TypeInv

(* A record that Message builds.                                           *)
LEMMA MessageType ==
  ASSUME NEW kind \in {"request", "reply"}, NEW mtype \in Nat, NEW num \in Nat,
         NEW for \in Fronts \X (Nat \ {0})
  PROVE  Message(kind, mtype, num, for) \in Messages
  BY DEF Message, Messages

(* A step of a frontend.                                                   *)
LEMMA FrontTypeStep ==
  ASSUME TypeInv, NEW f \in Fronts
  PROVE  /\ Login(f) \/ Transaction(f) => TypeInv'
         /\ Logout(f) \/ ProcessResponse(f) \/ KillFront(f) => TypeInv'
         /\ SendRequest(f) \/ CannotSend(f) \/ ReceiveReply(f) => TypeInv'
<1>0. TypeOK /\ Holding
  BY DEF TypeInv
<1>1. ASSUME NEW t \in OPER .. CLOS, NEW o \in Nat, Build(f, t, o)
      PROVE  TypeInv'
  <2>1. t \in Nat
    BY DEF OPER, CLOS
  <2>2. sent' \in [Fronts -> Nat] /\ sent'[f] \in Nat \ {0}
    BY <1>0, <1>1 DEF Build, TypeOK
  <2>3. Message("request", t, o, <<f, sent'[f]>>) \in Messages
    BY <2>1, <2>2, MessageType
  <2>4. fmsg' \in [Fronts -> Messages \cup {NoMsg}]
    BY <1>0, <1>1, <2>3 DEF Build, TypeOK
  <2>5. Holding'
    BY <1>0, <1>1, <2>3 DEF Build, Holding, TypeOK, back, Goto
  <2>6. TypeOK'
    BY <1>0, <1>1, <2>2, <2>4 DEF Build, TypeOK, back, Goto
  <2>. QED
    BY <2>5, <2>6 DEF TypeInv
<1>2. ASSUME Login(f) PROVE TypeInv'
  BY <1>0, <1>1, <1>2, StaffsAssumption DEF Login, TypeOK, OPER, CLOS
<1>3. ASSUME Transaction(f) PROVE TypeInv'
  <2>1. oper[f] \in Nat
    BY <1>0 DEF TypeOK
  <2>2. PICK t \in Types : Build(f, t, oper[f])
    BY <1>3 DEF Transaction
  <2>3. t \in OPER .. CLOS
    BY TypesAssumption DEF OPEN, OPER, CLOS
  <2>. QED
    BY <1>1, <2>1, <2>2, <2>3
<1>4. ASSUME Logout(f) PROVE TypeInv'
  BY <1>0, <1>4 DEF Logout, TypeOK, Holding, TypeInv, back
<1>5. ASSUME ProcessResponse(f) PROVE TypeInv'
  <2>1. Accepted(fmsg[f]) \in BOOLEAN
    BY DEF Accepted
  <2>2. logged' \in [Fronts -> BOOLEAN]
    BY <1>0, <1>5, <2>1 DEF ProcessResponse, TypeOK
  <2>. QED
    BY <1>0, <1>5, <2>2 DEF ProcessResponse, TypeOK, Holding, TypeInv, back, Goto
<1>6. ASSUME KillFront(f) PROVE TypeInv'
  BY <1>0, <1>6 DEF KillFront, TypeOK, Holding, TypeInv, back, Goto
<1>7. ASSUME SendRequest(f) PROVE TypeInv'
  <2>1. fmsg[f] \in Messages
    BY <1>0, <1>7 DEF SendRequest, Holding
  <2>2. queue' \in Seq(Messages)
    BY <1>0, <1>7, <2>1 DEF SendRequest, TypeOK
  <2>. QED
    BY <1>0, <1>7, <2>2 DEF SendRequest, TypeOK, Holding, TypeInv, back, Goto
<1>8. ASSUME CannotSend(f) PROVE TypeInv'
  BY <1>0, <1>8 DEF CannotSend, TypeOK, Holding, TypeInv, back, Goto
<1>9. ASSUME ReceiveReply(f) PROVE TypeInv'
  <2>1. First(oper[f]) \in 1 .. Len(queue)
    BY <1>0, <1>9, FirstFound DEF ReceiveReply, TypeOK, Positions
  <2>2. Without(First(oper[f])) \in Seq(Messages) /\ queue[First(oper[f])] \in Messages
    BY <1>0, <2>1, WithoutOne DEF TypeOK
  <2>. QED
    BY <1>0, <1>9, <2>2 DEF ReceiveReply, TypeOK, Holding, TypeInv, back, Goto
<1>. QED
  BY <1>2, <1>3, <1>4, <1>5, <1>6, <1>7, <1>8, <1>9

(* A step of the backend.                                                  *)
LEMMA BackTypeStep ==
  ASSUME TypeInv
  PROVE  StartBack \/ Skip \/ Handle \/ Reply \/ ReplyFails \/ KillBack => TypeInv'
<1>0. TypeOK /\ Holding
  BY DEF TypeInv
<1>1. ASSUME StartBack PROVE TypeInv'
  BY <1>0, <1>1 DEF StartBack, TypeOK, Holding, TypeInv, fronts, OPER, CLOS
<1>2. NextType \in OPER .. CLOS
  BY <1>0 DEF NextType, TypeOK, OPER, CLOS
<1>3. ASSUME Skip PROVE TypeInv'
  BY <1>0, <1>2, <1>3 DEF Skip, TypeOK, Holding, TypeInv, fronts
<1>4. ASSUME Handle PROVE TypeInv'
  <2>1. First(scan) \in 1 .. Len(queue)
    BY <1>0, <1>4, FirstFound DEF Handle, TypeOK, Positions
  <2>2. Without(First(scan)) \in Seq(Messages) /\ queue[First(scan)] \in Messages
    BY <1>0, <2>1, WithoutOne DEF TypeOK
  <2>3. \A n \in Numbers(scan) : n \in Nat
    BY DEF Numbers
  <2>4. bmsg' \in Messages
    BY <1>4, <2>2, <2>3, MessageFields, MessageType DEF Handle, ReplyType
  <2>. QED
    BY <1>0, <1>4, <2>2, <2>4 DEF Handle, TypeOK, Holding, TypeInv, fronts
<1>5. ASSUME Reply PROVE TypeInv'
  BY <1>0, <1>2, <1>5 DEF Reply, TypeOK, Holding, TypeInv, fronts
<1>6. ASSUME ReplyFails \/ KillBack PROVE TypeInv'
  BY <1>0, <1>6 DEF ReplyFails, KillBack, Down, TypeOK, Holding, TypeInv, fronts
<1>. QED
  BY <1>1, <1>3, <1>4, <1>5, <1>6

LEMMA TypeStep == TypeInv /\ [Next]_vars => TypeInv'
<1> SUFFICES ASSUME TypeInv, [Next]_vars
             PROVE  TypeInv'
  OBVIOUS
<1>1. CASE Next
  BY <1>1, FrontTypeStep, BackTypeStep DEF Next, Serve
<1>2. CASE UNCHANGED vars
  BY <1>2 DEF vars, fronts, back, TypeInv, TypeOK, Holding
<1>. QED
  BY <1>1, <1>2

(* Type correctness (FRONT.C:60-100, BACKEND.C:380-450): whatever is typed *)
(* in and whoever dies, the programs and the queue hold what they should.  *)
THEOREM BankTyped == Spec => []TypeOK
<1>1. TypeInv => TypeOK
  BY DEF TypeInv
<1>. QED
  BY <1>1, TypeInit, TypeStep, PTL DEF Spec

-----------------------------------------------------------------------------
(* Nobody moves an operator to another terminal, and a killed frontend     *)
(* stays counted.                                                          *)
LEMMA StaffFixed ==
  ASSUME TypeInv, [Next]_vars
  PROVE  /\ staff' = staff
         /\ NoTypeNumbers' => NoTypeNumbers
         /\ Apart' => Apart
<1>1. staff' = staff /\ (quits' = quits \/ quits' = quits + 1)
  <2>1. ASSUME NEW f \in Fronts, Login(f) \/ Transaction(f)
        PROVE  staff' = staff /\ quits' = quits
    BY <2>1 DEF Login, Transaction, Build
  <2>2. ASSUME NEW f \in Fronts,
               \/ Logout(f) \/ ProcessResponse(f) \/ SendRequest(f)
               \/ CannotSend(f) \/ ReceiveReply(f)
        PROVE  staff' = staff /\ quits' = quits
    BY <2>2 DEF Logout, ProcessResponse, SendRequest, CannotSend, ReceiveReply
  <2>3. ASSUME NEW f \in Fronts, KillFront(f)
        PROVE  staff' = staff /\ quits' = quits + 1
    BY <2>3 DEF KillFront
  <2>4. CASE StartBack \/ Serve \/ KillBack
    BY <2>4 DEF StartBack, Serve, Skip, Handle, Reply, ReplyFails, KillBack, Down
  <2>5. CASE UNCHANGED vars
    BY <2>5 DEF vars
  <2>. QED
    BY <2>1, <2>2, <2>3, <2>4, <2>5 DEF Next
<1>2. quits \in Nat
  BY DEF TypeInv, TypeOK
<1>3. quits' = 0 => quits = 0
  BY <1>1, <1>2
<1>. QED
  BY <1>1, <1>3 DEF NoTypeNumbers, Apart

-----------------------------------------------------------------------------
(* From here on a message with a request type is a request, as long as no  *)
(* operator has a request type for a number.                               *)
Tagged(m) ==
  /\ m.kind = "request" => m.num \notin OPER .. CLOS
  /\ m.kind = "reply"   => m.mtype \notin OPER .. CLOS

(* OnlyRequestsServed alone is not inductive: what is taken is already in  *)
(* the queue, or about to be put there.                                    *)
Numbered ==
  /\ \A f \in Fronts : oper[f] \notin OPER .. CLOS
  /\ \A f \in Fronts : fpc[f] = "send" => Tagged(fmsg[f])
  /\ \A i \in 1 .. Len(queue) : Tagged(queue[i])
  /\ bpc = "reply" => Tagged(bmsg)

NumberInv == TypeInv /\ (NoTypeNumbers => Numbered)

LEMMA NumberInit == Init => NumberInv
<1> SUFFICES ASSUME Init
             PROVE  Numbered
  BY TypeInit DEF NumberInv
<1>1. Len(queue) = 0 /\ bpc = "down"
  BY DEF Init
<1>2. \A f \in Fronts : fpc[f] = "form" /\ oper[f] = 0
  BY DEF Init
<1>. QED
  BY <1>1, <1>2 DEF Numbered, OPER, CLOS

(* A message that is put at the end of the queue.                          *)
LEMMA TaggedAppend ==
  ASSUME queue \in Seq(Messages), NEW m \in Messages, Tagged(m),
         \A i \in 1 .. Len(queue) : Tagged(queue[i]), queue' = Append(queue, m)
  PROVE  \A i \in 1 .. Len(queue') : Tagged(queue'[i])
<1>1. /\ Len(queue') = Len(queue) + 1 /\ queue'[Len(queue) + 1] = m
      /\ Len(queue) \in Nat
      /\ \A i \in 1 .. Len(queue) : queue'[i] = queue[i]
  OBVIOUS
<1>2. \A i \in 1 .. Len(queue') : i \in 1 .. Len(queue) \/ i = Len(queue) + 1
  BY <1>1
<1>. QED
  BY <1>1, <1>2

(* A message that is taken out of it.                                      *)
LEMMA TaggedTaken ==
  ASSUME queue \in Seq(Messages), NEW i \in 1 .. Len(queue),
         \A j \in 1 .. Len(queue) : Tagged(queue[j]), queue' = Without(i)
  PROVE  \A j \in 1 .. Len(queue') : Tagged(queue'[j])
<1>1. /\ Len(queue') = Len(queue) - 1
      /\ \A j \in 1 .. Len(queue) - 1 :
           queue'[j] = IF j < i THEN queue[j] ELSE queue[j + 1]
  BY WithoutOne
<1>3. Len(queue) \in Nat
  OBVIOUS
<1>2. \A j \in 1 .. Len(queue') : j \in 1 .. Len(queue) /\ j + 1 \in 1 .. Len(queue)
  BY <1>1, <1>3
<1>. QED
  BY <1>1, <1>2

(* What the backend takes has a request type, and so is no reply.          *)
LEMMA TypeTaken ==
  ASSUME TypeInv, Numbered, Handle
  PROVE  /\ First(scan) \in 1 .. Len(queue)
         /\ queue[First(scan)].kind = "request"
<1> DEFINE i == First(scan)
<1>1. queue \in Seq(Messages) /\ scan \in OPER .. CLOS
  BY DEF TypeInv, TypeOK
<1>2. i \in 1 .. Len(queue) /\ queue[i].mtype = scan
  BY <1>1, FirstFound DEF Handle, Positions, OPER, CLOS
<1> HIDE DEF i
<1>3. queue[i] \in Messages
  BY <1>1, <1>2
<1>4. queue[i].kind # "reply"
  BY <1>1, <1>2 DEF Numbered, Tagged
<1>. QED
  BY <1>2, <1>3, <1>4, MessageFields DEF i

(* A step of a frontend.                                                   *)
LEMMA FrontNumbers ==
  ASSUME TypeInv, Numbered, NoTypeNumbers, NEW f \in Fronts
  PROVE  /\ Login(f) \/ Transaction(f) => Numbered'
         /\ Logout(f) \/ ProcessResponse(f) \/ KillFront(f) => Numbered'
         /\ SendRequest(f) \/ CannotSend(f) \/ ReceiveReply(f) => Numbered'
<1>0. TypeOK /\ Holding
  BY DEF TypeInv
<1>1. /\ fpc \in [Fronts -> {"form", "send", "wait", "shown"}]
      /\ DOMAIN oper = Fronts /\ DOMAIN fmsg = Fronts /\ queue \in Seq(Messages)
  BY <1>0 DEF TypeOK
<1>2. ASSUME NEW t, NEW o, o \notin OPER .. CLOS, Build(f, t, o)
      PROVE  Numbered'
  <2>1. Tagged(Message("request", t, o, <<f, sent'[f]>>))
    BY <1>2 DEF Tagged, Message
  <2>. QED
    BY <1>1, <1>2, <2>1 DEF Build, Goto, Numbered, back
<1>3. Login(f) \/ Transaction(f) => Numbered'
  <2>1. ASSUME Login(f) PROVE Numbered'
    <3>1. PICK o \in staff[f] : Build(f, OPER, o)
      BY <2>1 DEF Login
    <3>2. o \notin OPER .. CLOS
      BY <3>1 DEF NoTypeNumbers
    <3>. QED
      BY <1>2, <3>1, <3>2
  <2>2. ASSUME Transaction(f) PROVE Numbered'
    <3>1. PICK t \in Types : Build(f, t, oper[f])
      BY <2>2 DEF Transaction
    <3>2. oper[f] \notin OPER .. CLOS
      BY DEF Numbered
    <3>. QED
      BY <1>2, <3>1, <3>2
  <2>. QED
    BY <2>1, <2>2
<1>4. ASSUME Logout(f) \/ ProcessResponse(f) \/ CannotSend(f)
      PROVE  Numbered'
  <2>1. /\ UNCHANGED <<queue, oper, fmsg, bpc, bmsg>>
        /\ \A g \in Fronts : fpc'[g] = "send" => fpc[g] = "send"
    BY <1>1, <1>4 DEF Logout, ProcessResponse, CannotSend, Goto, back
  <2>. QED
    BY <2>1 DEF Numbered
<1>5. ASSUME KillFront(f) PROVE Numbered'
  <2>1. 0 \notin OPER .. CLOS
    BY DEF OPER, CLOS
  <2>2. /\ UNCHANGED <<queue, bpc, bmsg>>
        /\ oper' = [oper EXCEPT ![f] = 0] /\ fpc' = [fpc EXCEPT ![f] = "form"]
        /\ fmsg' = [fmsg EXCEPT ![f] = NoMsg]
    BY <1>5 DEF KillFront, Goto, back
  <2>. QED
    BY <1>1, <2>1, <2>2 DEF Numbered
<1>6. ASSUME SendRequest(f) PROVE Numbered'
  <2>1. /\ fpc[f] = "send" /\ fpc' = [fpc EXCEPT ![f] = "wait"]
        /\ queue' = Append(queue, fmsg[f]) /\ UNCHANGED <<oper, fmsg, bpc, bmsg>>
    BY <1>6 DEF SendRequest, Goto, back
  <2>2. fmsg[f] \in Messages /\ Tagged(fmsg[f])
    BY <1>0, <2>1 DEF Holding, Numbered
  <2>3. \A i \in 1 .. Len(queue') : Tagged(queue'[i])
    BY <1>1, <2>1, <2>2, TaggedAppend DEF Numbered
  <2>. QED
    BY <1>1, <2>1, <2>3 DEF Numbered
<1>7. ASSUME ReceiveReply(f) PROVE Numbered'
  <2>1. /\ fpc' = [fpc EXCEPT ![f] = "shown"]
        /\ fmsg' = [fmsg EXCEPT ![f] = queue[First(oper[f])]]
        /\ queue' = Without(First(oper[f])) /\ UNCHANGED <<oper, bpc, bmsg>>
    BY <1>7 DEF ReceiveReply, Goto, back
  <2>2. First(oper[f]) \in 1 .. Len(queue)
    BY <1>0, <1>7, FirstFound DEF ReceiveReply, TypeOK, Positions
  <2>3. \A i \in 1 .. Len(queue') : Tagged(queue'[i])
    BY <1>1, <2>1, <2>2, TaggedTaken DEF Numbered
  <2>. QED
    BY <1>1, <2>1, <2>3 DEF Numbered
<1>. QED
  BY <1>3, <1>4, <1>5, <1>6, <1>7

(* A step of the backend.                                                  *)
LEMMA BackNumbers ==
  ASSUME TypeInv, Numbered
  PROVE  StartBack \/ Skip \/ Handle \/ Reply \/ ReplyFails \/ KillBack => Numbered'
<1>0. TypeOK /\ Holding /\ queue \in Seq(Messages)
  BY DEF TypeInv, TypeOK
<1>1. ASSUME StartBack \/ Skip \/ ReplyFails \/ KillBack
      PROVE  Numbered'
  <2>1. UNCHANGED <<queue, fpc, oper, fmsg>> /\ bpc' # "reply"
    BY <1>1 DEF StartBack, Skip, ReplyFails, KillBack, Down, fronts
  <2>. QED
    BY <2>1 DEF Numbered
<1>2. ASSUME Handle PROVE Numbered'
  <2> DEFINE i == First(scan)
  <2>1. i \in 1 .. Len(queue) /\ queue[i].kind = "request"
    BY <1>2, TypeTaken
  <2>2. /\ queue' = Without(i) /\ UNCHANGED <<fpc, oper, fmsg>>
        /\ \E n \in Numbers(scan) :
             bmsg' = Message("reply", queue[i].num, n, queue[i].for)
    BY <1>2 DEF Handle, ReplyType, fronts
  <2> HIDE DEF i
  <2>3. queue[i].num \notin OPER .. CLOS
    BY <2>1 DEF Numbered, Tagged
  <2>4. Tagged(bmsg')
    BY <2>2, <2>3 DEF Tagged, Message
  <2>5. \A j \in 1 .. Len(queue') : Tagged(queue'[j])
    BY <1>0, <2>1, <2>2, TaggedTaken DEF Numbered
  <2>. QED
    BY <2>2, <2>4, <2>5 DEF Numbered
<1>3. ASSUME Reply PROVE Numbered'
  <2>1. /\ bpc = "reply" /\ bpc' # "reply" /\ queue' = Append(queue, bmsg)
        /\ UNCHANGED <<fpc, oper, fmsg>>
    BY <1>3 DEF Reply, fronts
  <2>2. \A i \in 1 .. Len(queue') : Tagged(queue'[i])
    BY <1>0, <2>1, TaggedAppend DEF Numbered, Holding
  <2>. QED
    BY <2>1, <2>2 DEF Numbered
<1>. QED
  BY <1>1, <1>2, <1>3

LEMMA NumberStep == NumberInv /\ [Next]_vars => NumberInv'
<1> SUFFICES ASSUME NumberInv, [Next]_vars, NoTypeNumbers'
             PROVE  Numbered'
  BY TypeStep DEF NumberInv
<1>1. TypeInv /\ NoTypeNumbers /\ Numbered
  BY StaffFixed DEF NumberInv
<1>2. CASE Next
  BY <1>1, <1>2, FrontNumbers, BackNumbers DEF Next, Serve
<1>3. CASE UNCHANGED vars
  BY <1>1, <1>3 DEF vars, fronts, back, Numbered
<1>. QED
  BY <1>2, <1>3

(* The backend takes requests only, and never a reply (BACKEND.C:426-430), *)
(* whoever shares an operator number and whatever is killed, if no         *)
(* operator has one of the numbers 001 to 007.                             *)
THEOREM RequestsServed == Spec => OnlyRequestsServed
<1>1. NumberInv /\ [Next]_vars
        => [NoTypeNumbers /\ Handle => queue[First(scan)].kind = "request"]_vars
  BY TypeTaken DEF NumberInv
<1>. QED
  BY <1>1, NumberInit, NumberStep, PTL DEF Spec, OnlyRequestsServed

-----------------------------------------------------------------------------
(* From here on every terminal has operators of its own, with numbers that *)
(* are no request types, and no frontend is killed (Apart).  For the room  *)
(* in the queue it has to hold a message of each terminal as well.         *)
Roomy == IsFiniteSet(Fronts) /\ Capacity >= Cardinality(Fronts)

Asks(m, f) == /\ m.kind = "request" /\ m.for = <<f, sent[f]>>
              /\ m.num = oper[f] /\ m.mtype \in OPER .. CLOS

Answers(m, f) == /\ m.kind = "reply" /\ m.for = <<f, sent[f]>>
                 /\ m.mtype = oper[f]

(* A message belongs to a terminal that waits for it.                      *)
Pending(m) == \E f \in Fronts : fpc[f] = "wait" /\ (Asks(m, f) \/ Answers(m, f))

Held(f) == \/ \E i \in 1 .. Len(queue) : queue[i].for = <<f, sent[f]>>
           \/ bpc = "reply" /\ bmsg.for = <<f, sent[f]>>

OwnOperator == \A f \in Fronts : fpc[f] # "form" \/ logged[f] => oper[f] \in staff[f]
Asking      == \A f \in Fronts : fpc[f] = "send" => Asks(fmsg[f], f)
InQueue     == \A i \in 1 .. Len(queue) : Pending(queue[i])
Distinct    == \A i, j \in 1 .. Len(queue) : i # j => queue[i].for # queue[j].for
Replying    == bpc = "reply" =>
                 /\ \E f \in Fronts : fpc[f] = "wait" /\ Answers(bmsg, f)
                 /\ \A i \in 1 .. Len(queue) : queue[i].for # bmsg.for
NoneLost    == kills = 0 => \A f \in Fronts : fpc[f] = "wait" => Held(f)

(* What ReplyMatches says of terminals that are apart.                     *)
Matched     == \A f \in Fronts : fpc[f] = "shown" =>
                 fmsg[f].kind = "reply" /\ fmsg[f].for = <<f, sent[f]>>

(* Matched alone is not inductive: what a frontend will be shown is        *)
(* already in the queue, or about to be put there.                         *)
CallInv == /\ TypeInv /\ quits = 0
           /\ OwnOperator /\ Asking /\ InQueue /\ Distinct /\ Replying
           /\ NoneLost /\ Matched

LEMMA CallInit == Init => CallInv
<1> SUFFICES ASSUME Init
             PROVE  CallInv
  OBVIOUS
<1>1. TypeInv
  BY TypeInit
<1>2. Len(queue) = 0 /\ quits = 0 /\ bpc = "down"
  BY DEF Init
<1>3. \A f \in Fronts : fpc[f] = "form" /\ ~logged[f]
  BY DEF Init
<1>. QED
  BY <1>1, <1>2, <1>3 DEF CallInv, OwnOperator, Asking, InQueue, Distinct,
     Replying, NoneLost, Matched

(* A terminal that does not wait, before or after its step, and leaves the *)
(* queue alone disturbs no one else's call.                                *)
LEMMA QuietStep ==
  ASSUME InQueue, Distinct, Replying, NoneLost, NEW f \in Fronts,
         UNCHANGED <<queue, back, kills>>,
         fpc[f] # "wait", fpc'[f] # "wait",
         \A g \in Fronts \ {f} : /\ fpc'[g] = fpc[g] /\ sent'[g] = sent[g]
                                 /\ oper'[g] = oper[g]
  PROVE  (InQueue /\ Distinct /\ Replying /\ NoneLost)'
<1>1. UNCHANGED <<queue, bpc, bmsg, kills>>
  BY DEF back
<1>2. \A g \in Fronts : fpc[g] = "wait" =>
         fpc'[g] = "wait" /\ sent'[g] = sent[g] /\ oper'[g] = oper[g]
  OBVIOUS
<1>3. \A g \in Fronts : fpc'[g] = "wait" => fpc[g] = "wait" /\ sent'[g] = sent[g]
  OBVIOUS
<1>4. InQueue'
  BY <1>1, <1>2 DEF InQueue, Pending, Asks, Answers
<1>5. Distinct'
  BY <1>1 DEF Distinct
<1>6. Replying'
  BY <1>1, <1>2 DEF Replying, Answers
<1>7. NoneLost'
  BY <1>1, <1>3 DEF NoneLost, Held
<1>. QED
  BY <1>4, <1>5, <1>6, <1>7

LEMMA BuildStep ==
  ASSUME CallInv, NEW f \in Fronts, Apart, Login(f) \/ Transaction(f)
  PROVE  CallInv'
<1>0. TypeInv /\ TypeOK
  BY DEF CallInv, TypeInv
<1>1. TypeInv'
  BY <1>0, FrontTypeStep
<1>2. PICK t \in OPER .. CLOS, o \in staff[f] : Build(f, t, o)
  <2>1. CASE Login(f)
    BY <2>1 DEF Login, OPER, CLOS
  <2>2. CASE Transaction(f)
    <3>1. oper[f] \in staff[f]
      BY <2>2 DEF Transaction, CallInv, OwnOperator
    <3>. QED
      BY <2>2, <3>1, TypesAssumption DEF Transaction, OPEN, OPER, CLOS
  <2>. QED
    BY <2>1, <2>2
<1>3. /\ fpc[f] = "form" /\ fpc' = [fpc EXCEPT ![f] = "send"]
      /\ sent' = [sent EXCEPT ![f] = @ + 1] /\ oper' = [oper EXCEPT ![f] = o]
      /\ fmsg' = [fmsg EXCEPT ![f] = Message("request", t, o, <<f, sent'[f]>>)]
      /\ UNCHANGED <<queue, made, staff, logged, back, kills, quits>>
  BY <1>2 DEF Build, Goto
<1>4. /\ fpc \in [Fronts -> {"form", "send", "wait", "shown"}]
      /\ DOMAIN sent = Fronts /\ DOMAIN oper = Fronts /\ DOMAIN fmsg = Fronts
  BY <1>0 DEF TypeOK
<1>5. (InQueue /\ Distinct /\ Replying /\ NoneLost)'
  BY <1>3, <1>4, QuietStep DEF CallInv
<1>6. OwnOperator'
  BY <1>3, <1>4 DEF CallInv, OwnOperator
<1>7. Asking'
  BY <1>3, <1>4 DEF CallInv, Asking, Asks, Message
<1>8. Matched'
  BY <1>3, <1>4 DEF CallInv, Matched
<1>. QED
  BY <1>1, <1>3, <1>5, <1>6, <1>7, <1>8 DEF CallInv

(* The steps with no request in hand.                                      *)
LEMMA FormStep ==
  ASSUME CallInv, NEW f \in Fronts,
         Logout(f) \/ CannotSend(f) \/ ProcessResponse(f)
  PROVE  CallInv'
<1>0. TypeInv /\ TypeOK
  BY DEF CallInv, TypeInv
<1>1. TypeInv'
  BY <1>0, FrontTypeStep
<1>2. /\ fpc[f] # "wait"
      /\ fpc' = [fpc EXCEPT ![f] = "form"]
      /\ \A g \in Fronts : logged'[g] => logged[g] \/ (g = f /\ fpc[f] = "shown")
      /\ UNCHANGED <<queue, staff, sent, oper, fmsg, back, kills, quits>>
  BY <1>0 DEF Logout, CannotSend, ProcessResponse, Goto, TypeOK
<1>4. fpc \in [Fronts -> {"form", "send", "wait", "shown"}]
  BY <1>0 DEF TypeOK
<1>5. (InQueue /\ Distinct /\ Replying /\ NoneLost)'
  BY <1>2, <1>4, QuietStep DEF CallInv
<1>6. OwnOperator'
  BY <1>2, <1>4 DEF CallInv, OwnOperator
<1>7. Asking'
  BY <1>2, <1>4 DEF CallInv, Asking, Asks
<1>8. Matched'
  BY <1>2, <1>4 DEF CallInv, Matched
<1>. QED
  BY <1>1, <1>2, <1>5, <1>6, <1>7, <1>8 DEF CallInv

(* send_request: the message is the only one of its terminal.              *)
LEMMA SendStep ==
  ASSUME CallInv, NEW f \in Fronts, SendRequest(f)
  PROVE  CallInv'
<1>0. TypeInv /\ TypeOK /\ Holding
  BY DEF CallInv, TypeInv
<1>1. TypeInv'
  BY <1>0, FrontTypeStep
<1>2. /\ fpc[f] = "send" /\ fpc' = [fpc EXCEPT ![f] = "wait"]
      /\ queue' = Append(queue, fmsg[f])
      /\ UNCHANGED <<staff, logged, oper, sent, fmsg, bpc, bmsg, kills, quits>>
  BY DEF SendRequest, Goto, back
<1>3. /\ fpc \in [Fronts -> {"form", "send", "wait", "shown"}]
      /\ queue \in Seq(Messages) /\ fmsg[f] \in Messages
  BY <1>0, <1>2 DEF TypeOK, Holding
<1>4. /\ Len(queue') = Len(queue) + 1
      /\ \A i \in 1 .. Len(queue) : queue'[i] = queue[i]
      /\ queue'[Len(queue) + 1] = fmsg[f]
  BY <1>2, <1>3
<1>5. Len(queue) \in Nat
  BY <1>3
<1>6. Asks(fmsg[f], f) /\ fmsg[f].for = <<f, sent[f]>>
  BY <1>2 DEF CallInv, Asking, Asks
<1>7. \A g \in Fronts : fpc[g] = "wait" => g # f /\ fpc'[g] = "wait"
  BY <1>2, <1>3
<1>8. \A i \in 1 .. Len(queue) : queue[i].for # <<f, sent[f]>>
  BY <1>7 DEF CallInv, InQueue, Pending, Asks, Answers
<1>9. InQueue'
  <2> SUFFICES ASSUME NEW i \in 1 .. Len(queue')
               PROVE  Pending(queue[i])'
    BY DEF InQueue
  <2>1. CASE i = Len(queue) + 1
    BY <1>2, <1>3, <1>4, <1>6, <2>1 DEF Pending, Asks
  <2>2. CASE i # Len(queue) + 1
    <3>1. i \in 1 .. Len(queue)
      BY <1>4, <1>5, <2>2
    <3>. QED
      BY <1>2, <1>4, <1>7, <3>1 DEF CallInv, InQueue, Pending, Asks, Answers
  <2>. QED
    BY <2>1, <2>2
<1>10. Distinct'
  BY <1>4, <1>5, <1>6, <1>8 DEF CallInv, Distinct
<1>11. Replying'
  <2> SUFFICES ASSUME bpc = "reply"
               PROVE  /\ \E g \in Fronts : fpc'[g] = "wait" /\ Answers(bmsg, g)
                      /\ \A i \in 1 .. Len(queue') : queue'[i].for # bmsg.for
    BY <1>2 DEF Replying, Answers
  <2>1. PICK g \in Fronts : fpc[g] = "wait" /\ Answers(bmsg, g)
    BY DEF CallInv, Replying
  <2>2. bmsg.for # fmsg[f].for
    BY <1>6, <1>7, <2>1 DEF Answers
  <2>3. \A i \in 1 .. Len(queue) : queue[i].for # bmsg.for
    BY DEF CallInv, Replying
  <2>. QED
    BY <1>4, <1>5, <1>7, <2>1, <2>2, <2>3
<1>12. NoneLost'
  <2> SUFFICES ASSUME kills = 0, NEW g \in Fronts, fpc'[g] = "wait"
               PROVE  Held(g)'
    BY <1>2 DEF NoneLost
  <2>1. CASE g = f
    BY <1>2, <1>4, <1>5, <1>6, <2>1 DEF Held
  <2>2. CASE g # f
    <3>1. Held(g)
      BY <1>2, <1>3, <2>2 DEF CallInv, NoneLost
    <3>. QED
      BY <1>2, <1>4, <1>5, <3>1 DEF Held
  <2>. QED
    BY <2>1, <2>2
<1>13. OwnOperator' /\ Asking' /\ Matched'
  BY <1>2, <1>3 DEF CallInv, OwnOperator, Asking, Asks, Matched
<1>. QED
  BY <1>1, <1>2, <1>9, <1>10, <1>11, <1>12, <1>13 DEF CallInv

(* What is left in the queue when msgrcv has taken message i.              *)
LEMMA TakenOut ==
  ASSUME queue \in Seq(Messages), NEW i \in 1 .. Len(queue), queue' = Without(i),
         Distinct
  PROVE  /\ \A k \in 1 .. Len(queue') : \E j \in 1 .. Len(queue) :
              j # i /\ queue'[k] = queue[j]
         /\ \A j \in 1 .. Len(queue) : j # i =>
              \E k \in 1 .. Len(queue') : queue'[k] = queue[j]
         /\ Distinct'
<1> DEFINE From(k) == IF k < i THEN k ELSE k + 1
<1>1. /\ Len(queue) \in Nat /\ Len(queue') = Len(queue) - 1
      /\ \A k \in 1 .. Len(queue') : queue'[k] = queue[From(k)]
  <2>1. Len(queue) \in Nat
    OBVIOUS
  <2>2. /\ Len(queue') = Len(queue) - 1
        /\ \A k \in 1 .. Len(queue) - 1 :
             queue'[k] = IF k < i THEN queue[k] ELSE queue[k + 1]
    BY WithoutOne
  <2>. QED
    BY <2>1, <2>2
<1>2. \A k \in 1 .. Len(queue') : From(k) \in 1 .. Len(queue) /\ From(k) # i
  BY <1>1
<1>3. \A j \in 1 .. Len(queue) : j # i =>
        \E k \in 1 .. Len(queue') : queue'[k] = queue[j]
  <2> SUFFICES ASSUME NEW j \in 1 .. Len(queue), j # i
               PROVE  \E k \in 1 .. Len(queue') : queue'[k] = queue[j]
    OBVIOUS
  <2>1. CASE j < i
    BY <1>1, <2>1
  <2>2. CASE j > i
    <3>1. j - 1 \in 1 .. Len(queue') /\ From(j - 1) = j
      BY <1>1, <2>2
    <3>. QED
      BY <1>1, <3>1
  <2>. QED
    BY <2>1, <2>2
<1>4. \A k, m \in 1 .. Len(queue') : k # m => From(k) # From(m)
  BY <1>1
<1>5. Distinct'
  <2> SUFFICES ASSUME NEW k \in 1 .. Len(queue'), NEW m \in 1 .. Len(queue'), k # m
               PROVE  queue'[k].for # queue'[m].for
    BY DEF Distinct
  <2>1. queue'[k] = queue[From(k)] /\ queue'[m] = queue[From(m)]
    BY <1>1
  <2>2. From(k) \in 1 .. Len(queue) /\ From(m) \in 1 .. Len(queue) /\ From(k) # From(m)
    BY <1>2, <1>4
  <2> HIDE DEF From
  <2>. QED
    BY <2>1, <2>2 DEF Distinct
<1>. QED
  BY <1>1, <1>2, <1>3, <1>5

(* receive_reply: the first message of an operator's type is the reply to  *)
(* what its terminal asked.                                                *)
LEMMA ReceiveStep ==
  ASSUME CallInv, NEW f \in Fronts, Apart, ReceiveReply(f)
  PROVE  CallInv'
<1>0. TypeInv /\ TypeOK
  BY DEF CallInv, TypeInv
<1>1. TypeInv'
  BY <1>0, FrontTypeStep
<1> DEFINE i == First(oper[f])
<1>2. /\ fpc[f] = "wait" /\ fpc' = [fpc EXCEPT ![f] = "shown"]
      /\ fmsg' = [fmsg EXCEPT ![f] = queue[i]]
      /\ queue' = Without(i)
      /\ UNCHANGED <<staff, logged, oper, sent, bpc, bmsg, kills, quits>>
  BY DEF ReceiveReply, Goto, back
<1>3. /\ fpc \in [Fronts -> {"form", "send", "wait", "shown"}]
      /\ queue \in Seq(Messages) /\ DOMAIN fmsg = Fronts
      /\ oper \in [Fronts -> Nat]
  BY <1>0 DEF TypeOK
<1>4. i \in Positions(oper[f])
  BY <1>3, FirstFound DEF ReceiveReply
<1>5. oper[f] \in staff[f] /\ oper[f] > CLOS
  BY <1>2 DEF CallInv, OwnOperator, Apart
<1>6. i \in 1 .. Len(queue) /\ queue[i].mtype = oper[f]
  BY <1>3, <1>4, <1>5 DEF Positions, CLOS
<1> HIDE DEF i
<1>7. Answers(queue[i], f)
  <2>1. PICK g \in Fronts : fpc[g] = "wait" /\ (Asks(queue[i], g) \/ Answers(queue[i], g))
    BY <1>6 DEF CallInv, InQueue, Pending
  <2>2. ~Asks(queue[i], g)
    BY <1>3, <1>5, <1>6 DEF Asks, OPER, CLOS
  <2>3. oper[f] \in staff[g]
    BY <1>6, <2>1, <2>2 DEF Answers, CallInv, OwnOperator
  <2>. QED
    BY <1>5, <2>1, <2>2, <2>3 DEF Apart
<1>8. queue[i].for = <<f, sent[f]>>
  BY <1>7 DEF Answers
<1>9. /\ \A k \in 1 .. Len(queue') : \E j \in 1 .. Len(queue) :
           j # i /\ queue'[k] = queue[j]
      /\ \A j \in 1 .. Len(queue) : j # i =>
           \E k \in 1 .. Len(queue') : queue'[k] = queue[j]
      /\ Distinct'
  BY <1>2, <1>3, <1>6, TakenOut DEF CallInv
<1>10. \A g \in Fronts \ {f} : fpc'[g] = fpc[g]
  BY <1>2, <1>3
<1>11. InQueue'
  <2> SUFFICES ASSUME NEW k \in 1 .. Len(queue')
               PROVE  Pending(queue[k])'
    BY DEF InQueue
  <2>1. PICK j \in 1 .. Len(queue) : j # i /\ queue'[k] = queue[j]
    BY <1>9
  <2>2. queue[j].for # <<f, sent[f]>>
    BY <1>6, <1>8, <2>1 DEF CallInv, Distinct
  <2>3. PICK g \in Fronts : fpc[g] = "wait" /\ (Asks(queue[j], g) \/ Answers(queue[j], g))
    BY DEF CallInv, InQueue, Pending
  <2>4. fpc'[g] = "wait"
    BY <1>10, <2>2, <2>3 DEF Asks, Answers
  <2>. QED
    BY <1>2, <2>1, <2>3, <2>4 DEF Pending, Asks, Answers
<1>12. Replying'
  <2> SUFFICES ASSUME bpc = "reply"
               PROVE  /\ \E g \in Fronts : fpc'[g] = "wait" /\ Answers(bmsg, g)
                      /\ \A k \in 1 .. Len(queue') : queue'[k].for # bmsg.for
    BY <1>2 DEF Replying, Answers
  <2>1. PICK g \in Fronts : fpc[g] = "wait" /\ Answers(bmsg, g)
    BY DEF CallInv, Replying
  <2>2. \A j \in 1 .. Len(queue) : queue[j].for # bmsg.for
    BY DEF CallInv, Replying
  <2>3. g # f
    BY <1>6, <1>8, <2>1, <2>2 DEF Answers
  <2>. QED
    BY <1>9, <1>10, <2>1, <2>2, <2>3
<1>13. NoneLost'
  <2> SUFFICES ASSUME kills = 0, NEW g \in Fronts, fpc'[g] = "wait"
               PROVE  Held(g)'
    BY <1>2 DEF NoneLost
  <2>1. g # f
    BY <1>2, <1>3
  <2>2. Held(g)
    BY <1>10, <2>1 DEF CallInv, NoneLost
  <2>3. \A j \in 1 .. Len(queue) : queue[j].for = <<g, sent[g]>> => j # i
    BY <1>8, <2>1
  <2>. QED
    BY <1>2, <1>9, <2>2, <2>3 DEF Held
<1>14. OwnOperator' /\ Asking'
  BY <1>2, <1>3, <1>5 DEF CallInv, OwnOperator, Asking, Asks
<1>15. Matched'
  BY <1>2, <1>3, <1>7 DEF CallInv, Matched, Answers
<1>. QED
  BY <1>1, <1>2, <1>9, <1>11, <1>12, <1>13, <1>14, <1>15 DEF CallInv

(* The backend starts, finds nothing of a type, or dies.                   *)
LEMMA IdleStep ==
  ASSUME CallInv, StartBack \/ Skip \/ ReplyFails \/ KillBack
  PROVE  CallInv'
<1>0. TypeInv /\ TypeOK
  BY DEF CallInv, TypeInv
<1>1. TypeInv'
  BY <1>0, BackTypeStep
<1>2. UNCHANGED <<queue, staff, fpc, logged, oper, sent, fmsg, quits>> /\ bpc' # "reply"
  BY DEF StartBack, Skip, ReplyFails, KillBack, Down, fronts
<1>3. InQueue' /\ Distinct' /\ OwnOperator' /\ Asking' /\ Matched'
  BY <1>2 DEF CallInv, InQueue, Pending, Asks, Answers, Distinct, OwnOperator,
     Asking, Matched
<1>4. Replying'
  BY <1>2 DEF Replying
<1>5. NoneLost'
  <2>1. CASE bpc # "reply" /\ kills' = kills
    BY <1>2, <2>1 DEF CallInv, NoneLost, Held
  <2>2. CASE kills' = kills + 1
    BY <1>0, <2>2 DEF NoneLost, TypeOK
  <2>. QED
    BY <2>1, <2>2 DEF StartBack, Skip, ReplyFails, KillBack, Down
<1>. QED
  BY <1>1, <1>2, <1>3, <1>4, <1>5 DEF CallInv

(* What the backend takes from the queue is a request.                     *)
LEMMA RequestTaken ==
  ASSUME CallInv, Apart, Handle
  PROVE  /\ First(scan) \in 1 .. Len(queue)
         /\ \E f \in Fronts : fpc[f] = "wait" /\ Asks(queue[First(scan)], f)
<1> DEFINE i == First(scan)
<1>1. queue \in Seq(Messages) /\ scan \in OPER .. CLOS /\ oper \in [Fronts -> Nat]
  BY DEF CallInv, TypeInv, TypeOK
<1>2. i \in 1 .. Len(queue) /\ queue[i].mtype = scan
  BY <1>1, FirstFound DEF Handle, Positions, OPER, CLOS
<1> HIDE DEF i
<1>3. PICK f \in Fronts : fpc[f] = "wait" /\ (Asks(queue[i], f) \/ Answers(queue[i], f))
  BY <1>2 DEF CallInv, InQueue, Pending
<1>4. oper[f] > CLOS
  BY <1>3 DEF CallInv, OwnOperator, Apart
<1>5. ~Answers(queue[i], f)
  BY <1>1, <1>2, <1>4 DEF Answers, OPER, CLOS
<1>. QED
  BY <1>2, <1>3, <1>5 DEF i

LEMMA HandleStep ==
  ASSUME CallInv, Apart, Handle
  PROVE  CallInv'
<1>0. TypeInv /\ TypeOK
  BY DEF CallInv, TypeInv
<1>1. TypeInv'
  BY <1>0, BackTypeStep
<1> DEFINE i == First(scan)
<1>2. /\ bpc # "reply" /\ bpc' = "reply" /\ queue' = Without(i)
      /\ \E n \in Numbers(scan) :
           bmsg' = Message("reply", queue[i].num, n, queue[i].for)
      /\ UNCHANGED <<staff, fpc, logged, oper, sent, fmsg, kills, quits>>
  BY DEF Handle, ReplyType, fronts
<1>3. i \in 1 .. Len(queue) /\ queue \in Seq(Messages)
  BY <1>0, RequestTaken DEF TypeOK
<1>4. PICK f \in Fronts : fpc[f] = "wait" /\ Asks(queue[i], f)
  BY RequestTaken
<1> HIDE DEF i
<1>5. Answers(bmsg, f)' /\ bmsg'.for = queue[i].for
  BY <1>2, <1>4 DEF Answers, Asks, Message
<1>6. /\ \A k \in 1 .. Len(queue') : \E j \in 1 .. Len(queue) :
           j # i /\ queue'[k] = queue[j]
      /\ \A j \in 1 .. Len(queue) : j # i =>
           \E k \in 1 .. Len(queue') : queue'[k] = queue[j]
      /\ Distinct'
  BY <1>2, <1>3, TakenOut DEF CallInv
<1>7. InQueue'
  <2> SUFFICES ASSUME NEW k \in 1 .. Len(queue')
               PROVE  Pending(queue[k])'
    BY DEF InQueue
  <2>1. PICK j \in 1 .. Len(queue) : j # i /\ queue'[k] = queue[j]
    BY <1>6
  <2>2. Pending(queue[j])
    BY DEF CallInv, InQueue
  <2>. QED
    BY <1>2, <2>1, <2>2 DEF Pending, Asks, Answers
<1>8. Replying'
  <2>1. ASSUME NEW k \in 1 .. Len(queue')
        PROVE  queue'[k].for # bmsg'.for
    <3>1. PICK j \in 1 .. Len(queue) : j # i /\ queue'[k] = queue[j]
      BY <1>6
    <3>2. queue[j].for # queue[i].for
      BY <1>3, <3>1 DEF CallInv, Distinct
    <3>. QED
      BY <1>5, <3>1, <3>2
  <2>2. fpc'[f] = "wait"
    BY <1>2, <1>4
  <2>. QED
    BY <1>5, <2>1, <2>2 DEF Replying
<1>9. NoneLost'
  <2> SUFFICES ASSUME kills = 0, NEW g \in Fronts, fpc[g] = "wait"
               PROVE  Held(g)'
    BY <1>2 DEF NoneLost
  <2>1. PICK j \in 1 .. Len(queue) : queue[j].for = <<g, sent[g]>>
    BY <1>2 DEF CallInv, NoneLost, Held
  <2>2. CASE j = i
    BY <1>2, <1>5, <2>1, <2>2 DEF Held
  <2>3. CASE j # i
    BY <1>2, <1>6, <2>1, <2>3 DEF Held
  <2>. QED
    BY <2>2, <2>3
<1>10. OwnOperator' /\ Asking' /\ Matched'
  BY <1>2 DEF CallInv, OwnOperator, Asking, Asks, Matched
<1>. QED
  BY <1>1, <1>2, <1>6, <1>7, <1>8, <1>9, <1>10 DEF CallInv

LEMMA ReplyStep ==
  ASSUME CallInv, Reply
  PROVE  CallInv'
<1>0. TypeInv /\ TypeOK /\ Holding
  BY DEF CallInv, TypeInv
<1>1. TypeInv'
  BY <1>0, BackTypeStep
<1>2. /\ bpc = "reply" /\ bpc' = "scan" /\ queue' = Append(queue, bmsg)
      /\ UNCHANGED <<staff, fpc, logged, oper, sent, fmsg, bmsg, kills, quits>>
  BY DEF Reply, fronts
<1>3. queue \in Seq(Messages) /\ bmsg \in Messages
  BY <1>0, <1>2 DEF TypeOK, Holding
<1>4. /\ Len(queue) \in Nat /\ Len(queue') = Len(queue) + 1
      /\ \A i \in 1 .. Len(queue) : queue'[i] = queue[i]
      /\ queue'[Len(queue) + 1] = bmsg
  BY <1>2, <1>3
<1>5. PICK f \in Fronts : fpc[f] = "wait" /\ Answers(bmsg, f)
  BY <1>2 DEF CallInv, Replying
<1>6. \A i \in 1 .. Len(queue) : queue[i].for # bmsg.for
  BY <1>2 DEF CallInv, Replying
<1>7. InQueue'
  <2> SUFFICES ASSUME NEW i \in 1 .. Len(queue')
               PROVE  Pending(queue[i])'
    BY DEF InQueue
  <2>1. CASE i = Len(queue) + 1
    BY <1>2, <1>4, <1>5, <2>1 DEF Pending, Answers
  <2>2. CASE i # Len(queue) + 1
    <3>1. i \in 1 .. Len(queue)
      BY <1>4, <2>2
    <3>. QED
      BY <1>2, <1>4, <3>1 DEF CallInv, InQueue, Pending, Asks, Answers
  <2>. QED
    BY <2>1, <2>2
<1>8. Distinct'
  BY <1>4, <1>6 DEF CallInv, Distinct
<1>9. Replying'
  BY <1>2 DEF Replying
<1>10. NoneLost'
  <2> SUFFICES ASSUME kills = 0, NEW g \in Fronts, fpc[g] = "wait"
               PROVE  Held(g)'
    BY <1>2 DEF NoneLost
  <2>1. Held(g)
    BY DEF CallInv, NoneLost
  <2>2. Len(queue) + 1 \in 1 .. Len(queue') /\ 1 .. Len(queue) \subseteq 1 .. Len(queue')
    BY <1>4
  <2>. QED
    BY <1>2, <1>4, <2>1, <2>2 DEF Held
<1>11. OwnOperator' /\ Asking' /\ Matched'
  BY <1>2 DEF CallInv, OwnOperator, Asking, Asks, Matched
<1>. QED
  BY <1>1, <1>2, <1>7, <1>8, <1>9, <1>10, <1>11 DEF CallInv

LEMMA CallStep == CallInv /\ Apart /\ [Next]_vars /\ Apart' => CallInv'
<1> SUFFICES ASSUME CallInv, Apart, [Next]_vars, Apart'
             PROVE  CallInv'
  OBVIOUS
<1>1. ASSUME NEW f \in Fronts, KillFront(f)
      PROVE  FALSE
  <2>1. quits = 0 /\ quits' = 0 /\ quits' = quits + 1
    BY <1>1 DEF KillFront, CallInv, Apart
  <2>. QED
    BY <2>1
<1>2. CASE Next
  BY <1>1, <1>2, BuildStep, FormStep, SendStep, ReceiveStep, IdleStep, HandleStep,
     ReplyStep DEF Next, Serve
<1>3. CASE UNCHANGED vars
  <2>1. UNCHANGED <<queue, staff, fpc, logged, oper, sent, fmsg, bpc, bmsg, kills, quits>>
    BY <1>3 DEF vars, fronts, back
  <2>2. TypeInv'
    BY <1>3, TypeStep DEF CallInv
  <2>3. (InQueue /\ Distinct /\ Replying /\ NoneLost)'
    BY <2>1 DEF CallInv, InQueue, Pending, Asks, Answers, Distinct, Replying,
       NoneLost, Held
  <2>4. (OwnOperator /\ Asking /\ Matched)'
    BY <2>1 DEF CallInv, OwnOperator, Asking, Asks, Matched
  <2>. QED
    BY <2>1, <2>2, <2>3, <2>4 DEF CallInv
<1>. QED
  BY <1>2, <1>3

(* As long as the terminals are apart they have been so from the start.    *)
ApartInv == TypeInv /\ (Apart => CallInv)

LEMMA ApartInit == Init => ApartInv
  BY TypeInit, CallInit DEF ApartInv

LEMMA ApartStep == ApartInv /\ [Next]_vars => ApartInv'
<1> SUFFICES ASSUME ApartInv, [Next]_vars, Apart'
             PROVE  CallInv'
  BY TypeStep DEF ApartInv
<1>. QED
  BY StaffFixed, CallStep DEF ApartInv

(* Each terminal is shown the reply to what it asked last (FRONT.C:276),   *)
(* for any number of terminals and operators and however often the backend *)
(* dies, as long as no operator works at two terminals or has a number up  *)
(* to 007, and no frontend has been killed.                                *)
THEOREM RepliesMatch == Spec => []ReplyMatches
<1>1. ApartInv => ReplyMatches
  BY DEF ApartInv, CallInv, Matched, ReplyMatches
<1>. QED
  BY <1>1, ApartInit, ApartStep, PTL DEF Spec

LEMMA OneCopyHolds == ApartInv => OneCopy
<1> SUFFICES ASSUME ApartInv, Apart, NEW f \in Fronts, fpc[f] = "wait"
             PROVE  /\ Cardinality(Copies(f)) <= 1
                    /\ kills = 0 => Copies(f) # {}
  BY DEF OneCopy
<1> CallInv
  BY DEF ApartInv
<1>0. DOMAIN queue = 1 .. Len(queue) /\ 0 \notin 1 .. Len(queue)
  BY DEF CallInv, TypeInv, TypeOK
<1>1. \A x \in Copies(f) :
        \/ x = 0 /\ bpc = "reply" /\ bmsg.for = <<f, sent[f]>>
        \/ x \in 1 .. Len(queue) /\ queue[x].for = <<f, sent[f]>>
  BY <1>0 DEF Copies
<1>2. \A x, y \in Copies(f) : x = y
  BY <1>1 DEF CallInv, Distinct, Replying
<1>3. Copies(f) = {} \/ \E x : Copies(f) = {x}
  BY <1>2
<1>4. Cardinality(Copies(f)) <= 1
  <2>1. Cardinality({}) = 0 /\ \A x : Cardinality({x}) = 1
    BY FS_EmptySet, FS_Singleton, Zenon
  <2>2. Cardinality(Copies(f)) \in {0, 1}
    BY <1>3, <2>1
  <2>. QED
    BY <2>2
<1>5. kills = 0 => Copies(f) # {}
  <2>1. kills = 0 => Held(f)
    BY DEF CallInv, NoneLost
  <2>. QED
    BY <1>0, <2>1 DEF Held, Copies
<1>. QED
  BY <1>4, <1>5

(* No request is answered twice, and none is lost while the backend lives  *)
(* (FRONT.C:360-383, BACKEND.C:426-442), under the same conditions.        *)
THEOREM RequestsAnsweredOnce == Spec => []OneCopy
  BY ApartInit, ApartStep, OneCopyHolds, PTL DEF Spec

(* Every message in the queue, and the reply in hand, is another terminal's. *)
LEMMA RoomHolds ==
  ASSUME ApartInv, Roomy
  PROVE  ReplyHasRoom
<1> SUFFICES ASSUME CallInv, bpc = "reply"
             PROVE  HasRoom
  BY DEF ReplyHasRoom, ApartInv
<1>0. Len(queue) \in Nat
  BY DEF CallInv, TypeInv, TypeOK
<1> DEFINE M(k) == IF k = 0 THEN bmsg ELSE queue[k]
           owner == [k \in 0 .. Len(queue) |-> M(k).for[1]]
<1>1. \A k \in 0 .. Len(queue) : \E f \in Fronts : M(k).for = <<f, sent[f]>>
  BY <1>0 DEF CallInv, InQueue, Pending, Replying, Asks, Answers
<1>2. \A k, l \in 0 .. Len(queue) : k # l => M(k).for # M(l).for
  BY <1>0 DEF CallInv, Distinct, Replying
<1> HIDE DEF M
<1>3. \A k, l \in 0 .. Len(queue) : k # l => M(k).for[1] # M(l).for[1]
  BY <1>1, <1>2
<1>4. owner \in Injection(0 .. Len(queue), Fronts)
  <2>1. owner \in [0 .. Len(queue) -> Fronts]
    BY <1>1
  <2>2. \A k, l \in 0 .. Len(queue) : owner[k] = owner[l] => k = l
    BY <1>3
  <2>. QED
    BY <2>1, <2>2 DEF Injection, IsInjective
<1>5. Cardinality(0 .. Len(queue)) <= Cardinality(Fronts)
  BY <1>4, FS_Injection DEF Roomy, ExistsInjection
<1>6. Cardinality(0 .. Len(queue)) = Len(queue) + 1
  BY <1>0, FS_Interval
<1>7. Cardinality(Fronts) \in Nat
  BY FS_CardinalityType DEF Roomy
<1>. QED
  BY <1>0, <1>5, <1>6, <1>7, CapacityAssumption DEF HasRoom, Roomy

(* There is room for every reply (BACKEND.C:442) when the queue holds as   *)
(* many messages as there are terminals, however many these are.           *)
THEOREM RepliesHaveRoom ==
  ASSUME Roomy
  PROVE  Spec => []ReplyHasRoom
<1>1. ApartInv => ReplyHasRoom
  BY RoomHolds
<1>. QED
  BY <1>1, ApartInit, ApartStep, PTL DEF Spec
=============================================================================
