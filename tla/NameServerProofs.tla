-------------------------- MODULE NameServerProofs --------------------------
(***************************************************************************)
(* Theorems about NameServer.tla for any names, addresses, clients and     *)
(* messages: the list is sound, what a client prints is true, a message    *)
(* executed twice does no harm, and the server implements NameMap.tla.     *)
(***************************************************************************)
EXTENDS NameServer, TLAPS, LeastNumber

-----------------------------------------------------------------------------
(* The list without its recursion: the names of the nodes in use are       *)
(* distinct, the head has the least of them, and the next node has the     *)
(* next one.                                                               *)
Used(h) == {x \in Nodes : h[x] # Nothing}

Distinct(h) == \A x, y \in Used(h) : h[x].name = h[y].name => x = y

HeadIsLeast(h, hd) ==
  IF hd = NULL THEN Used(h) = {}
  ELSE hd \in Used(h) /\ \A y \in Used(h) : h[hd].name <= h[y].name

NextIsNext(h) ==
  \A x \in Used(h) :
    IF h[x].next = NULL THEN \A y \in Used(h) : h[y].name <= h[x].name
    ELSE /\ h[x].next \in Used(h)
         /\ h[x].name < h[h[x].next].name
         /\ \A y \in Used(h) : \/ h[y].name <= h[x].name
                               \/ h[h[x].next].name <= h[y].name

Linked(h, hd) ==
  /\ h \in [Nodes -> {Nothing} \cup NameType]
  /\ hd \in Nodes \cup {NULL}
  /\ Distinct(h) /\ HeadIsLeast(h, hd) /\ NextIsNext(h)

(* The table as a map: the address of each name, Empty for a free one.     *)
View(h) ==
  [n \in Names |->
     IF \E x \in Used(h) : h[x].name = n
     THEN h[CHOOSE x \in Used(h) : h[x].name = n].address
     ELSE Empty]

(* A name that can be added: free, and at one end of the table.            *)
Addable(v, n) ==
  /\ v[n] = Empty
  /\ \/ \A k \in Names : v[k] # Empty => n < k
     \/ \A k \in Names : v[k] # Empty => k < n

(* What msg says of the table: it has just been executed, and executed     *)
(* again it would change nothing.                                          *)
Settled(m, v) ==
  /\ m.command # "OTHER" => m.name \in Names
  /\ m.command \in {"REGISTER", "MODIFY"} => m.address \in Addresses
  /\ m.command = "REGISTER" => ~ Addable(v, m.name)
  /\ m.command = "MODIFY"   => v[m.name] \in {Empty, m.address}
  /\ m.command = "DELETE"   => v[m.name] = Empty
  /\ m.command = "ENQUIRE"  => m.address = v[m.name]

(* What the streams hold: nothing before a client has written.             *)
Streams ==
  \A c \in Clients :
    /\ pc[c] = "waiting" => sent[c] \in Request
    /\ pc[c] \in {"idle", "connected"} => sent[c] = Nothing

ServerInv ==
  /\ TypeOK
  /\ Linked(heap, namehead)
  /\ Settled(msg, View(heap))
  /\ Streams
-----------------------------------------------------------------------------
(* The walk along the list is what the recursion says: NULL stays NULL.    *)
LEMMA NodeSteps ==
  /\ Cardinality(Nodes) \in Nat
  /\ Node \in [Places -> {Node[k] : k \in Places}]
  /\ Node[0] = namehead
  /\ \A k \in Places \ {0} : Node[k] = NextOf(Node[k - 1])
<1> DEFINE N == Cardinality(Nodes)
           Walk(m, f) == f = [k \in 0 .. m |->
                                IF k = 0 THEN namehead ELSE NextOf(f[k - 1])]
           Missing == {m \in Nat : ~ \E f : Walk(m, f)}
<1>1. N \in Nat
  BY NodesAssumption, FS_CardinalityType
<1>2. \E f : Walk(0, f)
  <2> DEFINE g == [k \in 0 .. 0 |-> namehead]
  <2>1. g = [k \in 0 .. 0 |-> IF k = 0 THEN namehead ELSE NextOf(g[k - 1])]
    OBVIOUS
  <2>. QED
    BY <2>1
<1>3. ASSUME NEW m \in Nat, NEW f, Walk(m, f)
      PROVE  \E g : Walk(m + 1, g)
  <2> DEFINE g == [k \in 0 .. m + 1 |-> IF k = 0 THEN namehead
                                        ELSE NextOf(f[k - 1])]
  <2>1. \A k \in 0 .. m : g[k] = f[k]
    BY <1>3
  <2>2. \A k \in 1 .. m + 1 : f[k - 1] = g[k - 1]
    <3> HIDE DEF g
    <3>1. \A k \in 1 .. m + 1 : k - 1 \in 0 .. m
      OBVIOUS
    <3>. QED
      BY <2>1, <3>1
  <2>3. g = [k \in 0 .. m + 1 |-> IF k = 0 THEN namehead ELSE NextOf(g[k - 1])]
    <3> HIDE DEF g
    <3>1. \A k \in 0 .. m + 1 : k # 0 => NextOf(f[k - 1]) = NextOf(g[k - 1])
      BY <2>2
    <3>. QED
      BY <3>1 DEF g
  <2>. QED
    BY <2>3
<1>4. Missing = {}
  <2> SUFFICES ASSUME Missing # {} PROVE FALSE
    OBVIOUS
  <2>1. PICK m \in Missing : \A q \in Missing : m <= q
    BY LeastNatural
  <2>2. m # 0
    BY <1>2, <2>1
  <2>3. m - 1 \in Nat /\ m - 1 \notin Missing
    <3>1. m \in Nat /\ m - 1 \in Nat /\ ~ (m <= m - 1)
      BY <2>2
    <3> HIDE DEF Missing
    <3>. QED
      BY <2>1, <3>1
  <2>4. PICK f : Walk(m - 1, f)
    BY <2>3
  <2>5. \E g : Walk((m - 1) + 1, g)
    BY <1>3, <2>3, <2>4
  <2>. QED
    BY <2>1, <2>5
<1>5. Node = [k \in 0 .. N |-> IF k = 0 THEN namehead ELSE NextOf(Node[k - 1])]
  <2>1. \E f : Walk(N, f)
    BY <1>1, <1>4
  <2>. QED
    BY <2>1, Zenon DEF Node
<1>. QED
  BY <1>1, <1>5 DEF Places

(* The places are numbers, each but the first has one before it.           *)
LEMMA PlaceBefore ==
  /\ Places \subseteq Nat
  /\ 0 \in Places /\ Cardinality(Nodes) \in Places
  /\ \A j \in Places : j <= Cardinality(Nodes)
  /\ \A j \in Places : j # 0 => j - 1 \in Places /\ j - 1 < j /\ ~ (j <= j - 1)
  /\ \A j \in Places, i \in Nat : i <= j => i \in Places
BY NodeSteps DEF Places

(* What a node in use holds.                                               *)
LEMMA UsedFields ==
  ASSUME NEW h \in [Nodes -> {Nothing} \cup NameType], NEW x \in Used(h)
  PROVE  /\ x \in Nodes /\ x # NULL
         /\ h[x] \in NameType
         /\ h[x].name \in Names /\ h[x].name \in Nat
         /\ h[x].address \in Addresses /\ h[x].address # Empty
         /\ h[x].next \in Nodes \cup {NULL}
<1>1. x \in Nodes /\ x # NULL
  BY NodesAssumption DEF Used
<1>2. h[x] \in NameType
  BY <1>1 DEF Used
<1>3. /\ h[x].name \in Names
      /\ h[x].address \in Addresses
      /\ h[x].next \in Nodes \cup {NULL}
  BY <1>2 DEF NameType
<1>. QED
  BY <1>1, <1>2, <1>3, NamesAssumption, AddressAssumption

(* One step along the list, from a node in use.                            *)
LEMMA NextUsed ==
  ASSUME NEW h, NEW hd, Linked(h, hd), NEW x \in Used(h), h[x].next # NULL
  PROVE  /\ h[x].next \in Used(h)
         /\ h[x].name < h[h[x].next].name
BY DEF Linked, NextIsNext

(* Every node walked over is in use, and the names ascend.                 *)
LEMMA NodeUsed ==
  Linked(heap, namehead) =>
    /\ \A k \in Places : Node[k] = NULL \/ Node[k] \in Used(heap)
    /\ \A k \in Places \ {0} :
         /\ Node[k - 1] = NULL => Node[k] = NULL
         /\ Node[k] # NULL => heap[Node[k - 1]].name < heap[Node[k]].name
<1> SUFFICES ASSUME Linked(heap, namehead)
             PROVE  /\ \A k \in Places : Node[k] = NULL \/ Node[k] \in Used(heap)
                    /\ \A k \in Places \ {0} :
                         /\ Node[k - 1] = NULL => Node[k] = NULL
                         /\ Node[k] # NULL =>
                              heap[Node[k - 1]].name < heap[Node[k]].name
  OBVIOUS
<1> DEFINE Bad == {k \in Places : ~ (Node[k] = NULL \/ Node[k] \in Used(heap))}
<1>1. \A k \in Places \ {0} : k - 1 \in Places /\ k \in Nat
  BY NodeSteps DEF Places
<1>2. ASSUME NEW k \in Places \ {0}, Node[k - 1] \in Used(heap), Node[k] # NULL
      PROVE  /\ Node[k] \in Used(heap)
             /\ heap[Node[k - 1]].name < heap[Node[k]].name
  <2>1. Node[k - 1] # NULL
    BY <1>2, UsedFields DEF Linked
  <2>2. Node[k] = heap[Node[k - 1]].next
    BY <2>1, NodeSteps DEF NextOf
  <2>. QED
    BY <1>2, <2>2, NextUsed
<1>3. ASSUME NEW k \in Places \ {0}, Node[k - 1] = NULL
      PROVE  Node[k] = NULL
  BY <1>3, NodeSteps DEF NextOf
<1>4. Node[0] = NULL \/ Node[0] \in Used(heap)
  BY NodeSteps DEF Linked, HeadIsLeast
<1>5. Bad = {}
  <2> SUFFICES ASSUME Bad # {} PROVE FALSE
    OBVIOUS
  <2>1. Bad \in SUBSET Nat
    BY NodeSteps DEF Places
  <2>2. PICK k \in Bad : \A q \in Bad : k <= q
    BY <2>1, LeastNatural
  <2>3. k \in Places \ {0}
    BY <1>4, <2>2
  <2>4. k - 1 \in Places /\ ~ (k <= k - 1)
    BY <1>1, <2>3
  <2>5. k - 1 \notin Bad
    BY <2>2, <2>4
  <2>6. Node[k - 1] = NULL \/ Node[k - 1] \in Used(heap)
    BY <2>4, <2>5
  <2>. QED
    BY <1>2, <1>3, <2>2, <2>3, <2>6
<1>. QED
  BY <1>1, <1>2, <1>3, <1>5

(* A later place holds a greater name, or nothing.                         *)
LEMMA NodeAscends ==
  Linked(heap, namehead) =>
    \A i, j \in Places : i < j /\ Node[j] # NULL =>
      /\ Node[i] # NULL
      /\ heap[Node[i]].name < heap[Node[j]].name
<1> SUFFICES ASSUME Linked(heap, namehead), NEW i \in Places
             PROVE  \A j \in Places : i < j /\ Node[j] # NULL =>
                      /\ Node[i] # NULL
                      /\ heap[Node[i]].name < heap[Node[j]].name
  OBVIOUS
<1> DEFINE Less(a, b) == Node[a] # NULL /\ heap[Node[a]].name < heap[Node[b]].name
           Bad == {j \in Places : i < j /\ Node[j] # NULL /\ ~ Less(i, j)}
<1>1. Bad = {}
  <2> SUFFICES ASSUME Bad # {} PROVE FALSE
    OBVIOUS
  <2>1. Bad \in SUBSET Nat
    BY NodeSteps DEF Places
  <2>2. PICK j \in Bad : \A q \in Bad : j <= q
    BY <2>1, LeastNatural
  <2>3. /\ j \in Places \ {0} /\ j - 1 \in Places /\ j \in Nat /\ i \in Nat
        /\ i < j /\ Node[j] # NULL /\ ~ Less(i, j)
    <3>1. j \in Places /\ i < j /\ Node[j] # NULL /\ ~ Less(i, j)
      BY <2>2
    <3>2. j \in Nat /\ i \in Nat
      BY <3>1, PlaceBefore
    <3>3. j # 0
      BY <3>1, <3>2
    <3>. QED
      BY <3>1, <3>2, <3>3, PlaceBefore
  <2>4. Node[j - 1] # NULL /\ heap[Node[j - 1]].name < heap[Node[j]].name
    BY <2>3, NodeUsed
  <2>5. CASE i = j - 1
    BY <2>3, <2>4, <2>5
  <2>6. CASE i < j - 1
    <3>1. j - 1 \notin Bad
      BY <2>2, <2>3
    <3>2. Node[i] # NULL /\ heap[Node[i]].name < heap[Node[j - 1]].name
      BY <2>3, <2>4, <2>6, <3>1
    <3>3. /\ Node[i] \in Used(heap) /\ Node[j - 1] \in Used(heap)
          /\ Node[j] \in Used(heap)
      BY <2>3, <2>4, <3>2, NodeUsed
    <3>4. /\ heap[Node[i]].name \in Nat /\ heap[Node[j - 1]].name \in Nat
          /\ heap[Node[j]].name \in Nat
      BY <3>3, UsedFields DEF Linked
    <3>. QED
      BY <2>3, <2>4, <3>2, <3>4
  <2>. QED
    BY <2>3, <2>5, <2>6
<1>. QED
  BY <1>1

(* The list ends: there are no more nodes than places to walk to.          *)
LEMMA ListEnds ==
  Linked(heap, namehead) => Node[Cardinality(Nodes)] = NULL
<1> SUFFICES ASSUME Linked(heap, namehead), Node[Cardinality(Nodes)] # NULL
             PROVE  FALSE
  OBVIOUS
<1> DEFINE N == Cardinality(Nodes)
           f == [k \in Places |-> Node[k]]
<1>1. N \in Nat /\ N \in Places /\ Places \subseteq Nat
  BY NodeSteps DEF Places
<1>2. \A k \in Places : Node[k] # NULL
  <2> TAKE k \in Places
  <2>1. k = N \/ k < N
    BY <1>1 DEF Places
  <2>. QED
    BY <1>1, <2>1, NodeAscends
<1>3. \A k \in Places : Node[k] \in Used(heap) /\ Node[k] \in Nodes
  BY <1>2, NodeUsed, UsedFields DEF Linked
<1>4. \A i, j \in Places : i < j => Node[i] # Node[j]
  <2> TAKE i, j \in Places
  <2> HAVE i < j
  <2>1. heap[Node[i]].name < heap[Node[j]].name
    BY <1>2, NodeAscends
  <2>2. heap[Node[j]].name \in Nat
    BY <1>3, UsedFields DEF Linked
  <2>. QED
    BY <2>1, <2>2
<1>5. f \in [Places -> Nodes]
  BY <1>3
<1>6. IsFiniteSet(Places) /\ Cardinality(Places) = N + 1
  BY <1>1, FS_Interval DEF Places
<1>7. Cardinality(Nodes) < Cardinality(Places)
  BY <1>1, <1>6
<1>8. PICK i, j \in Places : i # j /\ f[i] = f[j]
  <2> HIDE DEF f
  <2>. QED
    BY <1>5, <1>6, <1>7, NodesAssumption, FS_PigeonHole
<1>9. i < j \/ j < i
  BY <1>1, <1>8
<1>. QED
  BY <1>4, <1>8, <1>9

(* The nodes walked over are the nodes in use: none is skipped.            *)
LEMMA ListedIsUsed ==
  Linked(heap, namehead) => Listed = Used(heap)
<1> SUFFICES ASSUME Linked(heap, namehead)
             PROVE  Listed = Used(heap)
  OBVIOUS
<1>1. Listed \subseteq Used(heap)
  BY NodeUsed DEF Listed
<1>2. ASSUME NEW y \in Used(heap), y \notin Listed
      PROVE  FALSE
  <2> DEFINE Bad == {k \in Places : Node[k] = NULL}
  <2>1. Cardinality(Nodes) \in Bad /\ Bad \in SUBSET Nat
    BY NodeSteps, ListEnds DEF Places
  <2>2. PICK k \in Bad : \A q \in Bad : k <= q
    BY <2>1, LeastNatural
  <2>3. k # 0
    <3>1. namehead # NULL
      BY <1>2 DEF Linked, HeadIsLeast
    <3>. QED
      BY <2>2, <3>1, NodeSteps
  <2> DEFINE High == {j \in Places : j < k /\ ~ heap[Node[j]].name < heap[y].name}
  <2>4. \A j \in Places : j < k => Node[j] \in Used(heap) /\ Node[j] # y
    <3> TAKE j \in Places
    <3> HAVE j < k
    <3>1. j \notin Bad
      BY <2>1, <2>2
    <3>2. Node[j] # NULL
      BY <3>1
    <3>. QED
      BY <1>2, <3>2, NodeUsed DEF Listed
  <2>5. High = {}
    <3> SUFFICES ASSUME High # {} PROVE FALSE
      OBVIOUS
    <3>1. High \in SUBSET Nat
      BY NodeSteps DEF Places
    <3>2. PICK j \in High : \A q \in High : j <= q
      BY <3>1, LeastNatural
    <3>3. j \in Places /\ j < k /\ ~ heap[Node[j]].name < heap[y].name
      BY <3>2
    <3>4. /\ Node[j] \in Used(heap) /\ Node[j] # y
          /\ heap[Node[j]].name # heap[y].name
      BY <2>4, <3>3, <1>2 DEF Linked, Distinct
    <3>5. CASE j = 0
      <4>1. heap[Node[0]].name <= heap[y].name
        BY <1>2, <3>4, <3>5, NodeSteps, UsedFields DEF Linked, HeadIsLeast
      <4>. QED
        BY <3>3, <3>4, <3>5, <4>1, <1>2, UsedFields DEF Linked
    <3>6. CASE j # 0
      <4>1. j - 1 \in Places /\ j - 1 < k /\ j \in Places \ {0} /\ ~ (j <= j - 1)
        <5>1. j \in Nat /\ k \in Nat /\ j - 1 \in Places /\ j - 1 < j /\ ~ (j <= j - 1)
          BY <2>1, <2>2, <3>3, <3>6, PlaceBefore
        <5>. QED
          BY <3>3, <3>6, <5>1
      <4>2. j - 1 \notin High
        BY <3>2, <4>1
      <4>3. Node[j - 1] \in Used(heap) /\ heap[Node[j - 1]].name < heap[y].name
        BY <2>4, <4>1, <4>2
      <4>4. Node[j] = heap[Node[j - 1]].next /\ Node[j] # NULL
        BY <3>4, <4>1, <4>3, NodeSteps, UsedFields DEF NextOf, Linked
      <4>5. \/ heap[y].name <= heap[Node[j - 1]].name
            \/ heap[Node[j]].name <= heap[y].name
        BY <1>2, <4>3, <4>4 DEF Linked, NextIsNext
      <4>6. /\ heap[y].name \in Nat /\ heap[Node[j]].name \in Nat
            /\ heap[Node[j - 1]].name \in Nat
        BY <1>2, <3>4, <4>3, UsedFields DEF Linked
      <4>. QED
        BY <3>3, <3>4, <4>3, <4>5, <4>6
    <3>. QED
      BY <3>5, <3>6
  <2>6. k - 1 \in Places /\ k - 1 < k /\ k \in Places \ {0}
    BY <2>1, <2>2, <2>3, NodeSteps DEF Places
  <2>7. /\ Node[k - 1] \in Used(heap)
        /\ heap[Node[k - 1]].name < heap[y].name
    BY <2>4, <2>5, <2>6
  <2>8. heap[Node[k - 1]].next = NULL
    <3>1. Node[k] = NULL /\ Node[k - 1] # NULL
      BY <2>2, <2>7, UsedFields DEF Linked
    <3>. QED
      BY <2>6, <3>1, NodeSteps DEF NextOf
  <2>9. heap[y].name <= heap[Node[k - 1]].name
    BY <1>2, <2>7, <2>8 DEF Linked, NextIsNext
  <2>. QED
    BY <1>2, <2>7, <2>9, UsedFields DEF Linked
<1>. QED
  BY <1>1, <1>2

(* What TableSound says of the list follows.                               *)
LEMMA LinkedIsSound == Linked(heap, namehead) => TableSound
BY ListEnds, ListedIsUsed, NodeUsed DEF TableSound, Used

(* The map of the table is its view.                                       *)
LEMMA MapIsView == Linked(heap, namehead) => Map = View(heap)
<1> SUFFICES ASSUME Linked(heap, namehead)
             PROVE  Map = View(heap)
  OBVIOUS
<1>1. ASSUME NEW n \in Names
      PROVE  n \in {heap[x].name : x \in Listed}
               <=> \E x \in Used(heap) : heap[x].name = n
  BY ListedIsUsed
<1>. QED
  BY <1>1, ListedIsUsed DEF Map, View

-----------------------------------------------------------------------------
(* A loop over the list stops at the first node it looks for.              *)
LEMMA LeastPlace ==
  ASSUME NEW S \in SUBSET Places, NEW k, k = Min(S \cup {Cardinality(Nodes)})
  PROVE  /\ k \in Places
         /\ k \in S \/ k = Cardinality(Nodes)
         /\ \A j \in S : k <= j
<1> DEFINE T == S \cup {Cardinality(Nodes)}
<1>1. T \in SUBSET Nat /\ T # {}
  BY PlaceBefore
<1>2. PICK m \in T : \A q \in T : m <= q
  BY <1>1, LeastNatural
<1>3. k \in T /\ \A q \in T : k <= q
  <2> HIDE DEF T
  <2>1. k = CHOOSE x \in T : \A y \in T : x =< y
    BY DEF Min, T
  <2>. QED
    BY <1>2, <2>1
<1>. QED
  BY <1>3, PlaceBefore

(* The place of a name, or the end.                                        *)
LEMMA StopAtName ==
  ASSUME Linked(heap, namehead), NEW name
  PROVE  LET k == StopsAt(LAMBDA n : n = name)
         IN  /\ k \in Places
             /\ Node[k] = NULL => \A x \in Used(heap) : heap[x].name # name
             /\ Node[k] # NULL => /\ Node[k] \in Used(heap)
                                  /\ heap[Node[k]].name = name
<1> DEFINE k == StopsAt(LAMBDA n : n = name)
           S == {j \in Places : Node[j] = NULL \/ heap[Node[j]].name = name}
<1>1. k = Min(S \cup {Cardinality(Nodes)})
  BY DEF StopsAt
<1> HIDE DEF k
<1>2. k \in Places /\ (k \in S \/ k = Cardinality(Nodes)) /\ \A j \in S : k <= j
  BY <1>1, LeastPlace, PlaceBefore
<1>3. Node[k] = NULL \/ heap[Node[k]].name = name
  BY <1>2, ListEnds
<1>4. ASSUME Node[k] = NULL, NEW x \in Used(heap), heap[x].name = name
      PROVE  FALSE
  <2>1. PICK j \in Places : Node[j] = x /\ x # NULL
    BY <1>4, ListedIsUsed, UsedFields DEF Listed, Linked
  <2>2. j \in S
    BY <1>4, <2>1
  <2>3. k <= j /\ k # j
    BY <1>2, <1>4, <2>1, <2>2
  <2>4. k < j
    BY <1>2, <2>1, <2>3, PlaceBefore
  <2>. QED
    BY <1>2, <1>4, <2>1, <2>4, NodeAscends
<1>5. Node[k] # NULL => Node[k] \in Used(heap)
  BY <1>2, NodeUsed
<1>. QED
  BY <1>2, <1>3, <1>4, <1>5 DEF k

(* The place of the first name that is not below the new one, or the end;  *)
(* all names before it are below.                                          *)
LEMMA StopAtLeast ==
  ASSUME Linked(heap, namehead), NEW name \in Names
  PROVE  LET k == StopsAt(LAMBDA n : n >= name)
         IN  /\ k \in Places
             /\ Node[k] = NULL => \A x \in Used(heap) : heap[x].name < name
             /\ Node[k] # NULL => /\ Node[k] \in Used(heap)
                                  /\ heap[Node[k]].name >= name
             /\ k # 0 => /\ k - 1 \in Places
                         /\ Node[k - 1] \in Used(heap)
                         /\ heap[Node[k - 1]].name < name
<1> DEFINE k == StopsAt(LAMBDA n : n >= name)
           S == {j \in Places : Node[j] = NULL \/ heap[Node[j]].name >= name}
<1>1. k = Min(S \cup {Cardinality(Nodes)})
  BY DEF StopsAt
<1> HIDE DEF k
<1>2. k \in Places /\ (k \in S \/ k = Cardinality(Nodes)) /\ \A j \in S : k <= j
  BY <1>1, LeastPlace, PlaceBefore
<1>3. Node[k] = NULL \/ heap[Node[k]].name >= name
  BY <1>2, ListEnds
<1>4. name \in Nat /\ k \in Nat
  BY <1>2, NamesAssumption, PlaceBefore
<1>5. ASSUME Node[k] = NULL, NEW x \in Used(heap)
      PROVE  heap[x].name < name
  <2>1. PICK j \in Places : Node[j] = x /\ x # NULL
    BY <1>5, ListedIsUsed, UsedFields DEF Listed, Linked
  <2>2. j \in S => k < j
    BY <1>2, <1>5, <2>1, PlaceBefore
  <2>3. ~ k < j
    BY <1>2, <1>5, <2>1, NodeAscends
  <2>4. ~ heap[x].name >= name
    BY <2>1, <2>2, <2>3
  <2>. QED
    BY <1>4, <2>4, UsedFields DEF Linked
<1>6. Node[k] # NULL => Node[k] \in Used(heap)
  BY <1>2, NodeUsed
<1>7. ASSUME k # 0
      PROVE  /\ k - 1 \in Places /\ Node[k - 1] \in Used(heap)
             /\ heap[Node[k - 1]].name < name
  <2>1. k - 1 \in Places /\ ~ (k <= k - 1)
    BY <1>2, <1>7, PlaceBefore
  <2>2. k - 1 \notin S
    BY <1>2, <2>1
  <2>3. Node[k - 1] # NULL /\ ~ heap[Node[k - 1]].name >= name
    BY <2>1, <2>2
  <2>4. Node[k - 1] \in Used(heap)
    BY <2>1, <2>3, NodeUsed
  <2>. QED
    BY <1>4, <2>1, <2>3, <2>4, UsedFields DEF Linked
<1>. QED
  BY <1>2, <1>3, <1>5, <1>6, <1>7 DEF k

-----------------------------------------------------------------------------
(* What the view says of a name.                                           *)
LEMMA ViewAt ==
  ASSUME NEW h, NEW hd, Linked(h, hd)
  PROVE  /\ View(h) \in [Names -> Addresses \cup {Empty}]
         /\ \A n \in Names :
              /\ View(h)[n] = Empty <=> \A x \in Used(h) : h[x].name # n
              /\ \A x \in Used(h) : h[x].name = n => View(h)[n] = h[x].address
<1>1. ASSUME NEW n \in Names, NEW x \in Used(h), h[x].name = n
      PROVE  /\ View(h)[n] = h[x].address
             /\ View(h)[n] \in Addresses
             /\ View(h)[n] # Empty
  <2>1. (CHOOSE y \in Used(h) : h[y].name = n) = x
    BY <1>1 DEF Linked, Distinct
  <2>2. View(h)[n] = h[x].address
    BY <1>1, <2>1 DEF View
  <2>. QED
    BY <1>1, <2>2, UsedFields DEF Linked
<1>2. ASSUME NEW n \in Names, \A x \in Used(h) : h[x].name # n
      PROVE  View(h)[n] = Empty
  BY <1>2 DEF View
<1>3. View(h) = [n \in Names |-> View(h)[n]]
  BY DEF View
<1>4. \A n \in Names : View(h)[n] \in Addresses \cup {Empty}
  BY <1>1, <1>2
<1>5. View(h) \in [Names -> Addresses \cup {Empty}]
  BY <1>3, <1>4, Zenon
<1>. QED
  BY <1>1, <1>2, <1>5

(* A new address in a node.                                                *)
LEMMA NewAddress ==
  ASSUME NEW h, NEW hd, Linked(h, hd),
         NEW w \in Used(h), NEW a \in Addresses
  PROVE  LET g == [h EXCEPT ![w].address = a]
         IN  /\ Linked(g, hd)
             /\ View(g) = [View(h) EXCEPT ![h[w].name] = a]
<1> DEFINE g == [h EXCEPT ![w].address = a]
<1>1. /\ w \in Nodes /\ h[w] \in NameType /\ h[w].name \in Names
      /\ h \in [Nodes -> {Nothing} \cup NameType]
  BY UsedFields DEF Linked
<1>2. \A x \in Nodes : x # w => g[x] = h[x]
  BY <1>1
<1>3. g[w] = [h[w] EXCEPT !.address = a]
  BY <1>1
<1>4. /\ g[w] \in NameType /\ g[w].name = h[w].name /\ g[w].next = h[w].next
      /\ g[w].address = a
  BY <1>1, <1>3 DEF NameType
<1>5. g = [x \in Nodes |-> g[x]]
  BY <1>1
<1> HIDE DEF g
<1>6. g \in [Nodes -> {Nothing} \cup NameType]
  BY <1>1, <1>2, <1>4, <1>5
<1>7. Used(g) = Used(h)
  BY <1>1, <1>2, <1>4, NothingAssumption DEF Used
<1>8. \A x \in Used(h) : g[x].name = h[x].name /\ g[x].next = h[x].next
  BY <1>2, <1>4 DEF Used
<1>9. Linked(g, hd)
  BY <1>6, <1>7, <1>8 DEF Linked, Distinct, HeadIsLeast, NextIsNext
<1>10. ASSUME NEW n \in Names
       PROVE  View(g)[n] = IF n = h[w].name THEN a ELSE View(h)[n]
  <2>1. CASE n = h[w].name
    BY <1>4, <1>7, <1>9, <2>1, ViewAt
  <2>2. CASE n # h[w].name /\ \E x \in Used(h) : h[x].name = n
    <3>1. PICK x \in Used(h) : h[x].name = n
      BY <2>2
    <3>2. x # w /\ g[x] = h[x]
      BY <1>2, <2>2, <3>1 DEF Used
    <3>. QED
      BY <1>7, <1>9, <2>2, <3>1, <3>2, ViewAt
  <2>3. CASE \A x \in Used(h) : h[x].name # n
    BY <1>7, <1>8, <1>9, <2>3, ViewAt
  <2>. QED
    BY <2>1, <2>2, <2>3
<1>11. View(g) = [View(h) EXCEPT ![h[w].name] = a]
  <2>1. /\ View(g) \in [Names -> Addresses \cup {Empty}]
        /\ View(h) \in [Names -> Addresses \cup {Empty}]
    BY <1>9, ViewAt
  <2>. QED
    BY <1>1, <1>10, <2>1
<1>. QED
  BY <1>9, <1>11 DEF g

(* A node less.                                                            *)
LEMMA ViewWithout ==
  ASSUME NEW h, NEW hd, Linked(h, hd), NEW w \in Used(h),
         NEW g, NEW gd, Linked(g, gd), Used(g) = Used(h) \ {w},
         \A x \in Used(g) : g[x].name = h[x].name /\ g[x].address = h[x].address
  PROVE  View(g) = [View(h) EXCEPT ![h[w].name] = Empty]
<1>1. ASSUME NEW n \in Names
      PROVE  View(g)[n] = IF n = h[w].name THEN Empty ELSE View(h)[n]
  <2>1. CASE n = h[w].name
    <3>1. \A x \in Used(g) : g[x].name # n
      BY <2>1 DEF Linked, Distinct
    <3>. QED
      BY <2>1, <3>1, ViewAt
  <2>2. CASE n # h[w].name /\ \E x \in Used(h) : h[x].name = n
    <3>1. PICK x \in Used(h) : h[x].name = n
      BY <2>2
    <3>2. x \in Used(g)
      BY <2>2, <3>1
    <3>. QED
      BY <2>2, <3>1, <3>2, ViewAt
  <2>3. CASE n # h[w].name /\ \A x \in Used(h) : h[x].name # n
    <3>1. \A x \in Used(g) : g[x].name # n
      BY <2>3
    <3>. QED
      BY <2>3, <3>1, ViewAt
  <2>. QED
    BY <2>1, <2>2, <2>3
<1>2. /\ View(g) \in [Names -> Addresses \cup {Empty}]
      /\ View(h) \in [Names -> Addresses \cup {Empty}]
  BY ViewAt
<1>. QED
  BY <1>1, <1>2

(* A node more.                                                            *)
LEMMA ViewWith ==
  ASSUME NEW h, NEW hd, Linked(h, hd), NEW w \in Nodes \ Used(h),
         NEW g, NEW gd, Linked(g, gd), Used(g) = Used(h) \cup {w},
         \A x \in Used(h) : g[x].name = h[x].name /\ g[x].address = h[x].address
  PROVE  /\ View(h)[g[w].name] = Empty
         /\ View(g) = [View(h) EXCEPT ![g[w].name] = g[w].address]
<1>0. w \in Used(g) /\ w \notin Used(h) /\ g[w].name \in Names
  BY UsedFields DEF Linked
<1>1. ASSUME NEW n \in Names
      PROVE  View(g)[n] = IF n = g[w].name THEN g[w].address ELSE View(h)[n]
  <2>1. CASE n = g[w].name
    BY <1>0, <2>1, ViewAt
  <2>2. CASE n # g[w].name /\ \E x \in Used(h) : h[x].name = n
    <3>1. PICK x \in Used(h) : h[x].name = n
      BY <2>2
    <3>2. x \in Used(g)
      BY <3>1
    <3>. QED
      BY <2>2, <3>1, <3>2, ViewAt
  <2>3. CASE n # g[w].name /\ \A x \in Used(h) : h[x].name # n
    <3>1. \A x \in Used(g) : g[x].name # n
      BY <2>3
    <3>. QED
      BY <2>3, <3>1, ViewAt
  <2>. QED
    BY <2>1, <2>2, <2>3
<1>2. /\ View(g) \in [Names -> Addresses \cup {Empty}]
      /\ View(h) \in [Names -> Addresses \cup {Empty}]
  BY ViewAt
<1>3. \A x \in Used(h) : h[x].name # g[w].name
  BY <1>0 DEF Linked, Distinct
<1>4. View(h)[g[w].name] = Empty
  BY <1>0, <1>3, ViewAt
<1>. QED
  BY <1>1, <1>2, <1>4

(* The first node taken out.                                               *)
LEMMA FirstOut ==
  ASSUME NEW h, NEW hd, Linked(h, hd), hd # NULL
  PROVE  LET g == [h EXCEPT ![hd] = Nothing]
         IN  /\ Linked(g, h[hd].next)
             /\ View(g) = [View(h) EXCEPT ![h[hd].name] = Empty]
<1> DEFINE g == [h EXCEPT ![hd] = Nothing]
<1>1. /\ h \in [Nodes -> {Nothing} \cup NameType] /\ hd \in Used(h)
      /\ hd \in Nodes /\ h[hd].next \in Nodes \cup {NULL}
      /\ \A y \in Used(h) : h[hd].name <= h[y].name
  BY UsedFields DEF Linked, HeadIsLeast
<1>2. /\ g \in [Nodes -> {Nothing} \cup NameType]
      /\ \A x \in Nodes : g[x] = IF x = hd THEN Nothing ELSE h[x]
  BY <1>1
<1> HIDE DEF g
<1>3. Used(g) = Used(h) \ {hd} /\ \A x \in Used(g) : g[x] = h[x]
  BY <1>1, <1>2 DEF Used
<1>4. Distinct(g)
  BY <1>3 DEF Distinct, Linked
<1>5. \A x \in Used(h) : h[x].name \in Nat
  BY UsedFields DEF Linked
<1>6. HeadIsLeast(g, h[hd].next)
  <2>1. CASE h[hd].next = NULL
    <3>1. \A y \in Used(h) : h[y].name = h[hd].name
      BY <1>1, <1>5, <2>1 DEF Linked, NextIsNext
    <3>2. Used(h) = {hd}
      BY <1>1, <3>1 DEF Linked, Distinct
    <3>. QED
      BY <1>3, <2>1, <3>2 DEF HeadIsLeast
  <2>2. CASE h[hd].next # NULL
    <3> DEFINE z == h[hd].next
    <3>1. /\ z \in Used(h) /\ h[hd].name < h[z].name
          /\ \A y \in Used(h) : h[y].name <= h[hd].name \/ h[z].name <= h[y].name
      BY <1>1, <2>2 DEF Linked, NextIsNext
    <3>2. z # hd
      BY <1>1, <1>5, <3>1
    <3>3. ASSUME NEW y \in Used(h), y # hd
          PROVE  h[z].name <= h[y].name
      <4>1. h[y].name # h[hd].name
        BY <1>1, <3>3 DEF Linked, Distinct
      <4>. QED
        BY <1>1, <1>5, <3>1, <3>3, <4>1
    <3>. QED
      BY <1>3, <2>2, <3>1, <3>2, <3>3 DEF HeadIsLeast
  <2>. QED
    BY <2>1, <2>2
<1>7. NextIsNext(g)
  <2>1. ASSUME NEW x \in Used(g), h[x].next # NULL
        PROVE  h[x].next # hd
    BY <1>1, <1>3, <1>5, <2>1 DEF Linked, NextIsNext
  <2>. QED
    BY <1>3, <2>1 DEF Linked, NextIsNext
<1>8. Linked(g, h[hd].next)
  BY <1>1, <1>2, <1>4, <1>6, <1>7 DEF Linked
<1>9. View(g) = [View(h) EXCEPT ![h[hd].name] = Empty]
  BY <1>1, <1>3, <1>8, ViewWithout
<1>. QED
  BY <1>8, <1>9 DEF g

(* The node behind x taken out.                                            *)
LEMMA NextOut ==
  ASSUME NEW h, NEW hd, Linked(h, hd),
         NEW x \in Used(h), h[x].next # NULL, NEW w, w = h[x].next
  PROVE  LET g == [h EXCEPT ![x].next = h[w].next, ![w] = Nothing]
         IN  /\ Linked(g, hd)
             /\ View(g) = [View(h) EXCEPT ![h[w].name] = Empty]
<1> DEFINE g == [h EXCEPT ![x].next = h[w].next, ![w] = Nothing]
           u == h[w].next
<1>1. /\ h \in [Nodes -> {Nothing} \cup NameType]
      /\ w \in Used(h) /\ x \in Nodes /\ w \in Nodes /\ u \in Nodes \cup {NULL}
      /\ h[x] \in NameType /\ h[x].name < h[w].name
      /\ \A y \in Used(h) : h[y].name <= h[x].name \/ h[w].name <= h[y].name
  BY UsedFields DEF Linked, NextIsNext
<1>2. \A y \in Used(h) : h[y].name \in Nat
  BY UsedFields DEF Linked
<1>3. x # w
  BY <1>1, <1>2
<1>4. /\ g[w] = Nothing
      /\ g[x] = [h[x] EXCEPT !.next = u]
      /\ \A y \in Nodes : y # x /\ y # w => g[y] = h[y]
      /\ g = [y \in Nodes |-> g[y]]
  BY <1>1, <1>3
<1> HIDE DEF g
<1>5. /\ g[x] \in NameType /\ g[x].next = u
      /\ g[x].name = h[x].name /\ g[x].address = h[x].address
  BY <1>1, <1>4 DEF NameType
<1>6. g \in [Nodes -> {Nothing} \cup NameType]
  BY <1>1, <1>4, <1>5
<1>7. Used(g) = Used(h) \ {w}
  BY <1>1, <1>3, <1>4, <1>5, NothingAssumption DEF Used
<1>8. \A y \in Used(g) : /\ g[y].name = h[y].name /\ g[y].address = h[y].address
                         /\ y # x => g[y].next = h[y].next
  BY <1>4, <1>5 DEF Used
<1>9. hd # w
  BY <1>1, <1>2 DEF Linked, HeadIsLeast
<1>10. Distinct(g) /\ HeadIsLeast(g, hd)
  BY <1>7, <1>8, <1>9, <1>1 DEF Linked, Distinct, HeadIsLeast
<1>11. \A y \in Used(h) : y # w => h[y].name # h[w].name
  BY <1>1 DEF Linked, Distinct
<1>12. NextIsNext(g)
  <2>1. ASSUME u = NULL, NEW y \in Used(g)
        PROVE  g[y].name <= g[x].name
    <3>1. h[y].name <= h[w].name
      BY <1>1, <1>7, <2>1 DEF Linked, NextIsNext
    <3>. QED
      BY <1>1, <1>2, <1>5, <1>7, <1>8, <1>11, <3>1
  <2>2. ASSUME u # NULL
        PROVE  /\ u \in Used(g) /\ g[x].name < g[u].name
               /\ \A y \in Used(g) : \/ g[y].name <= g[x].name
                                     \/ g[u].name <= g[y].name
    <3>1. /\ u \in Used(h) /\ h[w].name < h[u].name
          /\ \A y \in Used(h) : h[y].name <= h[w].name \/ h[u].name <= h[y].name
      BY <1>1, <2>2 DEF Linked, NextIsNext
    <3>2. u \in Used(g)
      BY <1>1, <1>2, <1>7, <3>1
    <3>3. g[x].name < g[u].name
      BY <1>1, <1>2, <1>5, <1>8, <3>1, <3>2
    <3>4. ASSUME NEW y \in Used(g)
          PROVE  g[y].name <= g[x].name \/ g[u].name <= g[y].name
      BY <1>1, <1>2, <1>5, <1>7, <1>8, <1>11, <3>1, <3>2
    <3>. QED
      BY <3>2, <3>3, <3>4
  <2>3. ASSUME NEW y \in Used(g), y # x
        PROVE  IF g[y].next = NULL THEN \A q \in Used(g) : g[q].name <= g[y].name
               ELSE /\ g[y].next \in Used(g)
                    /\ g[y].name < g[g[y].next].name
                    /\ \A q \in Used(g) : \/ g[q].name <= g[y].name
                                          \/ g[g[y].next].name <= g[q].name
    <3> DEFINE z == h[y].next
    <3>1. g[y].next = z /\ g[y].name = h[y].name /\ y \in Used(h) /\ y # w
      BY <1>7, <1>8, <2>3
    <3>2. CASE z = NULL
      BY <1>7, <1>8, <3>1, <3>2 DEF Linked, NextIsNext
    <3>3. CASE z # NULL
      <4>1. /\ z \in Used(h) /\ h[y].name < h[z].name
            /\ \A q \in Used(h) : h[q].name <= h[y].name \/ h[z].name <= h[q].name
        BY <3>1, <3>3 DEF Linked, NextIsNext
      <4>2. h[y].name # h[x].name
        BY <2>3, <3>1 DEF Linked, Distinct
      <4>3. z # w
        <5>1. h[x].name <= h[y].name \/ h[w].name <= h[x].name \/ z # w
          BY <4>1
        <5>2. h[y].name <= h[x].name \/ h[w].name <= h[y].name
          BY <1>1, <3>1
        <5>. QED
          BY <1>1, <1>2, <3>1, <4>1, <4>2, <5>1, <5>2
      <4>. QED
        BY <1>7, <1>8, <3>1, <3>3, <4>1, <4>3
    <3>. QED
      BY <3>2, <3>3
  <2>. QED
    BY <1>5, <2>1, <2>2, <2>3 DEF NextIsNext
<1>13. Linked(g, hd)
  BY <1>6, <1>10, <1>12 DEF Linked
<1>14. View(g) = [View(h) EXCEPT ![h[w].name] = Empty]
  BY <1>1, <1>7, <1>8, <1>13, ViewWithout
<1>. QED
  BY <1>13, <1>14 DEF g

(* A node put before the first, whose name is below all.                   *)
LEMMA FirstIn ==
  ASSUME NEW h, NEW hd, Linked(h, hd), NEW w \in Nodes \ Used(h),
         NEW n \in Names, NEW a \in Addresses,
         \A y \in Used(h) : n < h[y].name,
         NEW g \in [Nodes -> {Nothing} \cup NameType],
         g[w] = [name |-> n, address |-> a, next |-> hd],
         \A y \in Nodes \ {w} : g[y] = h[y]
  PROVE  /\ Linked(g, w)
         /\ View(h)[n] = Empty /\ View(g) = [View(h) EXCEPT ![n] = a]
<1>1. /\ g[w].name = n /\ g[w].address = a /\ g[w].next = hd
      /\ w \notin Used(h) /\ w # NULL
  BY NodesAssumption
<1>2. /\ \A y \in Used(h) : h[y].name \in Nat /\ y \in Nodes \ {w}
      /\ \A y \in Used(h) : h[y].next # w
      /\ n \in Nat
  <2>1. \A y \in Used(h) : h[y].next # NULL => h[y].next \in Used(h)
    BY DEF Linked, NextIsNext
  <2>. QED
    BY <1>1, <2>1, UsedFields, NamesAssumption DEF Linked
<1>3. g[w] # Nothing
  <2>1. hd \in Nodes \cup {NULL}
    BY DEF Linked
  <2>2. g[w] \in NameType
    BY <2>1 DEF NameType
  <2>. QED
    BY <2>2, NothingAssumption
<1>4. Used(g) = Used(h) \cup {w}
  BY <1>1, <1>3 DEF Used
<1>5. \A y \in Used(h) : g[y] = h[y]
  BY <1>2
<1>6. Distinct(g)
  BY <1>1, <1>2, <1>4, <1>5 DEF Linked, Distinct
<1>7. HeadIsLeast(g, w)
  BY <1>1, <1>2, <1>4, <1>5 DEF HeadIsLeast
<1>8. NextIsNext(g)
  <2>1. ASSUME hd = NULL, NEW y \in Used(g)
        PROVE  g[y].name <= g[w].name
    BY <1>1, <1>2, <1>4, <2>1 DEF Linked, HeadIsLeast
  <2>2. ASSUME hd # NULL
        PROVE  /\ hd \in Used(g) /\ g[w].name < g[hd].name
               /\ \A y \in Used(g) : \/ g[y].name <= g[w].name
                                     \/ g[hd].name <= g[y].name
    BY <1>1, <1>2, <1>4, <1>5, <2>2 DEF Linked, HeadIsLeast
  <2>3. ASSUME NEW y \in Used(h)
        PROVE  IF g[y].next = NULL THEN \A q \in Used(g) : g[q].name <= g[y].name
               ELSE /\ g[y].next \in Used(g)
                    /\ g[y].name < g[g[y].next].name
                    /\ \A q \in Used(g) : \/ g[q].name <= g[y].name
                                          \/ g[g[y].next].name <= g[q].name
    <3>1. n < h[y].name /\ g[y] = h[y] /\ n \in Nat /\ h[y].name \in Nat
      BY <1>2, <1>5
    <3>2. CASE h[y].next = NULL
      <4>1. \A q \in Used(h) : h[q].name <= h[y].name
        BY <3>2 DEF Linked, NextIsNext
      <4>. QED
        BY <1>1, <1>4, <1>5, <3>1, <3>2, <4>1
    <3>3. CASE h[y].next # NULL
      <4>1. /\ h[y].next \in Used(h) /\ h[y].name < h[h[y].next].name
            /\ \A q \in Used(h) : \/ h[q].name <= h[y].name
                                  \/ h[h[y].next].name <= h[q].name
        BY <3>3 DEF Linked, NextIsNext
      <4>. QED
        BY <1>1, <1>4, <1>5, <3>1, <3>3, <4>1
    <3>. QED
      BY <3>2, <3>3
  <2>. QED
    BY <1>1, <1>4, <2>1, <2>2, <2>3 DEF NextIsNext
<1>9. Linked(g, w)
  BY <1>6, <1>7, <1>8 DEF Linked
<1>. QED
  BY <1>1, <1>4, <1>5, <1>9, ViewWith

(* A node put behind the last, whose name is above all.                    *)
LEMMA LastIn ==
  ASSUME NEW h, NEW hd, Linked(h, hd), NEW w \in Nodes \ Used(h),
         NEW x \in Used(h), h[x].next = NULL,
         NEW n \in Names, NEW a \in Addresses,
         \A y \in Used(h) : h[y].name < n,
         NEW g \in [Nodes -> {Nothing} \cup NameType],
         g[w] = [name |-> n, address |-> a, next |-> NULL],
         g[x] = [h[x] EXCEPT !.next = w],
         \A y \in Nodes \ {w, x} : g[y] = h[y]
  PROVE  /\ Linked(g, hd)
         /\ View(h)[n] = Empty /\ View(g) = [View(h) EXCEPT ![n] = a]
<1>1. /\ g[w].name = n /\ g[w].address = a /\ g[w].next = NULL
      /\ w \notin Used(h) /\ w # NULL /\ x # w
  BY NodesAssumption
<1>2. /\ \A y \in Used(h) : h[y].name \in Nat /\ y \in Nodes \ {w}
      /\ n \in Nat /\ h[x] \in NameType
  BY <1>1, UsedFields, NamesAssumption DEF Linked
<1>3. /\ g[x].next = w /\ g[x].name = h[x].name /\ g[x].address = h[x].address
  BY <1>2 DEF NameType
<1>4. g[w] # Nothing /\ g[x] # Nothing
  <2>1. g[w] \in NameType /\ g[x] \in NameType
    BY <1>2 DEF NameType
  <2>. QED
    BY <2>1, NothingAssumption
<1>5. Used(g) = Used(h) \cup {w}
  BY <1>1, <1>4 DEF Used
<1>6. \A y \in Used(h) : /\ g[y].name = h[y].name /\ g[y].address = h[y].address
                         /\ y # x => g[y].next = h[y].next
  BY <1>2, <1>3
<1>7. Distinct(g)
  BY <1>1, <1>2, <1>5, <1>6 DEF Linked, Distinct
<1>8. HeadIsLeast(g, hd)
  BY <1>1, <1>2, <1>5, <1>6 DEF Linked, HeadIsLeast
<1>9. NextIsNext(g)
  <2>1. \A q \in Used(g) : g[q].name <= g[w].name
    BY <1>1, <1>2, <1>5, <1>6
  <2>2. /\ g[x].name < g[w].name
        /\ \A q \in Used(g) : g[q].name <= g[x].name \/ g[w].name <= g[q].name
    <3>1. \A q \in Used(h) : h[q].name <= h[x].name
      BY DEF Linked, NextIsNext
    <3>. QED
      BY <1>1, <1>2, <1>3, <1>5, <1>6, <3>1
  <2>3. ASSUME NEW y \in Used(h), y # x
        PROVE  /\ g[y].next # NULL /\ g[y].next \in Used(g)
               /\ g[y].name < g[g[y].next].name
               /\ \A q \in Used(g) : \/ g[q].name <= g[y].name
                                     \/ g[g[y].next].name <= g[q].name
    <3>1. h[x].name <= h[y].name => h[x].name = h[y].name
      BY <1>2 DEF Linked, NextIsNext
    <3>2. h[y].name < h[x].name
      BY <1>2, <2>3, <3>1 DEF Linked, Distinct
    <3>3. /\ h[y].next # NULL /\ h[y].next \in Used(h)
          /\ h[y].name < h[h[y].next].name
          /\ \A q \in Used(h) : \/ h[q].name <= h[y].name
                                \/ h[h[y].next].name <= h[q].name
      BY <1>2, <3>2 DEF Linked, NextIsNext
    <3>. QED
      BY <1>1, <1>2, <1>5, <1>6, <2>3, <3>3
  <2>. QED
    BY <1>1, <1>3, <1>5, <2>1, <2>2, <2>3 DEF NextIsNext
<1>10. Linked(g, hd)
  BY <1>7, <1>8, <1>9 DEF Linked
<1>. QED
  BY <1>1, <1>5, <1>6, <1>10, ViewWith

(* malloc finds a node: distinct names need distinct nodes.                *)
LEMMA MallocFinds ==
  ASSUME Linked(heap, namehead)
  PROVE  malloc \in Nodes \ Used(heap)
<1>1. \E x \in Nodes : heap[x] = Nothing
  <2> SUFFICES ASSUME \A x \in Nodes : heap[x] # Nothing
               PROVE  FALSE
    OBVIOUS
  <2> DEFINE f == [x \in Nodes |-> heap[x].name]
  <2>1. Used(heap) = Nodes
    BY DEF Used
  <2>2. f \in [Nodes -> Names]
    BY <2>1, UsedFields DEF Linked
  <2>3. \E x, y \in Nodes : x # y /\ f[x] = f[y]
    <3>1. /\ IsFiniteSet(Nodes) /\ IsFiniteSet(Names)
          /\ Cardinality(Names) < Cardinality(Nodes)
      BY NodesAssumption, NamesAssumption, MemoryAssumption
    <3> HIDE DEF f
    <3>. QED
      BY <2>2, <3>1, FS_PigeonHole, Zenon
  <2>. QED
    BY <2>1, <2>3 DEF Linked, Distinct
<1>2. malloc \in Nodes /\ heap[malloc] = Nothing
  BY <1>1 DEF malloc
<1>. QED
  BY <1>2 DEF Used
-----------------------------------------------------------------------------
(* The four commands, as the view sees them.                               *)
LEMMA EnquireView ==
  ASSUME Linked(heap, namehead), NEW m, m.name \in Names
  PROVE  LET d == enquire(m)
             old == View(heap)[m.name]
         IN  /\ d.heap = heap /\ d.head = namehead
             /\ d.address = IF old = Empty THEN m.address ELSE old
             /\ d.result = IF old = Empty THEN "NOT_EXIST" ELSE "OK"
<1> DEFINE work == Found(m.name)
<1>1. /\ work = NULL => \A x \in Used(heap) : heap[x].name # m.name
      /\ work # NULL => work \in Used(heap) /\ heap[work].name = m.name
  BY StopAtName DEF Found
<1>2. /\ work = NULL => View(heap)[m.name] = Empty
      /\ work # NULL => /\ View(heap)[m.name] = heap[work].address
                        /\ View(heap)[m.name] # Empty
  BY <1>1, ViewAt, UsedFields DEF Linked
<1> HIDE DEF work
<1>. QED
  BY <1>2 DEF enquire, Result, work

LEMMA ModifyView ==
  ASSUME Linked(heap, namehead), NEW m, m.name \in Names, m.address \in Addresses
  PROVE  LET d == modify(m)
             old == View(heap)[m.name]
         IN  /\ Linked(d.heap, d.head) /\ d.address = m.address
             /\ View(d.heap) = [View(heap) EXCEPT ![m.name] =
                                  IF old = Empty THEN Empty ELSE m.address]
             /\ d.result = IF old = Empty THEN "NOT_EXIST" ELSE "OK"
<1> DEFINE work == Found(m.name)
<1>1. /\ work = NULL => \A x \in Used(heap) : heap[x].name # m.name
      /\ work # NULL => work \in Used(heap) /\ heap[work].name = m.name
  BY StopAtName DEF Found
<1>2. /\ work = NULL => View(heap)[m.name] = Empty
      /\ work # NULL => /\ View(heap)[m.name] = heap[work].address
                        /\ View(heap)[m.name] # Empty
  BY <1>1, ViewAt, UsedFields DEF Linked
<1> HIDE DEF work
<1>3. CASE work = NULL
  <2>1. View(heap) = [View(heap) EXCEPT ![m.name] = Empty]
    BY <1>2, <1>3, ViewAt
  <2>. QED
    BY <1>2, <1>3, <2>1 DEF modify, Result, work
<1>4. CASE work # NULL
  <2> DEFINE g == [heap EXCEPT ![work].address = m.address]
  <2>1. modify(m) = Result("OK", g, namehead, m.address)
    BY <1>4 DEF modify, work
  <2>2. Linked(g, namehead) /\ View(g) = [View(heap) EXCEPT ![m.name] = m.address]
    BY <1>1, <1>4, NewAddress
  <2> HIDE DEF g
  <2>. QED
    BY <1>2, <1>4, <2>1, <2>2 DEF Result
<1>. QED
  BY <1>3, <1>4

LEMMA DeleteView ==
  ASSUME Linked(heap, namehead), NEW m, m.name \in Names
  PROVE  LET d == delete(m)
             old == View(heap)[m.name]
         IN  /\ Linked(d.heap, d.head) /\ d.address = m.address
             /\ View(d.heap) = [View(heap) EXCEPT ![m.name] = Empty]
             /\ d.result = IF old = Empty THEN "NOT_EXIST" ELSE "OK"
<1> DEFINE k == StopsAt(LAMBDA n : n = m.name)
           work == Node[k]
<1>1. /\ k \in Places
      /\ work = NULL => \A x \in Used(heap) : heap[x].name # m.name
      /\ work # NULL => work \in Used(heap) /\ heap[work].name = m.name
  BY StopAtName
<1> HIDE DEF k
<1>2. /\ work = NULL => View(heap)[m.name] = Empty
      /\ work # NULL => View(heap)[m.name] # Empty
  BY <1>1, ViewAt, UsedFields DEF Linked
<1>3. CASE work = NULL
  <2>1. View(heap) = [View(heap) EXCEPT ![m.name] = Empty]
    BY <1>2, <1>3, ViewAt
  <2>. QED
    BY <1>2, <1>3, <2>1 DEF delete, Result, k
<1>4. CASE work # NULL /\ k = 0
  <2> DEFINE g == [heap EXCEPT ![work] = Nothing]
  <2>1. delete(m) = Result("OK", g, heap[work].next, m.address)
    BY <1>4 DEF delete, k
  <2>2. work = namehead
    BY <1>4, NodeSteps
  <2>3. /\ Linked(g, heap[work].next)
        /\ View(g) = [View(heap) EXCEPT ![m.name] = Empty]
    BY <1>1, <1>4, <2>2, FirstOut
  <2> HIDE DEF g
  <2>. QED
    BY <1>2, <1>4, <2>1, <2>3 DEF Result
<1>5. CASE work # NULL /\ k # 0
  <2> DEFINE x == Node[k - 1]
             g == [heap EXCEPT ![x].next = heap[work].next, ![work] = Nothing]
  <2>1. delete(m) = Result("OK", g, namehead, m.address)
    BY <1>5 DEF delete, k
  <2>2. k \in Places \ {0} /\ k - 1 \in Places /\ x # NULL
    BY <1>1, <1>5, PlaceBefore, NodeUsed
  <2>3. x \in Used(heap) /\ work = heap[x].next
    BY <2>2, NodeUsed, NodeSteps DEF NextOf
  <2>4. /\ Linked(g, namehead)
        /\ View(g) = [View(heap) EXCEPT ![m.name] = Empty]
    <3> HIDE DEF work, x
    <3>. QED
      BY <1>1, <1>5, <2>3, NextOut
  <2> HIDE DEF g
  <2>. QED
    BY <1>2, <1>5, <2>1, <2>4 DEF Result
<1>. QED
  BY <1>3, <1>4, <1>5

(* A name can be added when all names in the table are on one side of it.  *)
LEMMA AddableSides ==
  ASSUME NEW h, NEW hd, Linked(h, hd), NEW n \in Names
  PROVE  Addable(View(h), n) <=> \/ \A x \in Used(h) : n < h[x].name
                                 \/ \A x \in Used(h) : h[x].name < n
<1>1. \A x \in Used(h) : /\ h[x].name \in Names /\ h[x].name \in Nat
                         /\ View(h)[h[x].name] # Empty
  BY UsedFields, ViewAt DEF Linked
<1>2. \A k \in Names : View(h)[k] # Empty => \E x \in Used(h) : h[x].name = k
  BY ViewAt
<1>3. n \in Nat
  BY NamesAssumption
<1>4. (\A k \in Names : View(h)[k] # Empty => n < k)
        <=> \A x \in Used(h) : n < h[x].name
  BY <1>1, <1>2
<1>5. (\A k \in Names : View(h)[k] # Empty => k < n)
        <=> \A x \in Used(h) : h[x].name < n
  BY <1>1, <1>2
<1>6. ASSUME \/ \A x \in Used(h) : n < h[x].name
             \/ \A x \in Used(h) : h[x].name < n
      PROVE  View(h)[n] = Empty
  <2>1. \A x \in Used(h) : h[x].name # n
    BY <1>1, <1>3, <1>6
  <2>. QED
    BY <2>1, ViewAt
<1>. QED
  BY <1>4, <1>5, <1>6 DEF Addable

LEMMA RegView ==
  ASSUME Linked(heap, namehead), NEW m, m.name \in Names, m.address \in Addresses,
         NEW new \in Nodes \ Used(heap)
  PROVE  LET d == reg(m, new)
             v == View(heap)
         IN  /\ Linked(d.heap, d.head) /\ d.address = m.address
             /\ \/ /\ d.result = "OK" /\ Addable(v, m.name)
                   /\ View(d.heap) = [v EXCEPT ![m.name] = m.address]
                \/ /\ d.result = "ALREADY_EXIST" /\ ~ Addable(v, m.name)
                   /\ d.heap = heap /\ d.head = namehead
<1> DEFINE h == [heap EXCEPT ![new] =
                   [name |-> m.name, address |-> m.address, next |-> NULL]]
           k == StopsAt(LAMBDA n : n >= m.name)
           Cell(z) == [name |-> m.name, address |-> m.address, next |-> z]
           Added(g, hd) == /\ Linked(g, hd)
                           /\ View(g) = [View(heap) EXCEPT ![m.name] = m.address]
<1>1. /\ k \in Places
      /\ Node[k] = NULL => \A x \in Used(heap) : heap[x].name < m.name
      /\ Node[k] # NULL => Node[k] \in Used(heap) /\ heap[Node[k]].name >= m.name
      /\ k # 0 => /\ k - 1 \in Places /\ Node[k - 1] \in Used(heap)
                  /\ heap[Node[k - 1]].name < m.name
  BY StopAtLeast
<1>2. /\ new \in Nodes /\ new \notin Used(heap) /\ new # NULL
      /\ heap \in [Nodes -> {Nothing} \cup NameType]
      /\ namehead \in Nodes \cup {NULL} /\ m.name \in Nat
      /\ \A x \in Used(heap) : heap[x].name \in Nat
  BY NodesAssumption, NamesAssumption, UsedFields DEF Linked
<1>3. h = [heap EXCEPT ![new] = Cell(NULL)]
  OBVIOUS
<1> HIDE DEF k, h
<1>4. \A z \in Nodes \cup {NULL} : Cell(z) \in NameType
  BY DEF NameType
<1>5. CASE namehead = NULL
  <2>1. reg(m, new) = Result("OK", h, new, m.address)
    BY <1>5 DEF reg, h
  <2>2. Used(heap) = {}
    BY <1>5 DEF Linked, HeadIsLeast
  <2>3. /\ h \in [Nodes -> {Nothing} \cup NameType] /\ h[new] = Cell(namehead)
        /\ \A y \in Nodes \ {new} : h[y] = heap[y]
    BY <1>2, <1>3, <1>4, <1>5
  <2>4. Added(h, new)
    BY <2>2, <2>3, FirstIn
  <2>5. Addable(View(heap), m.name)
    BY <2>2, AddableSides
  <2>. QED
    BY <2>1, <2>4, <2>5 DEF Result
<1>6. CASE namehead # NULL /\ k = 0 /\ heap[namehead].name > m.name
  <2> DEFINE g == [h EXCEPT ![new].next = namehead]
  <2>1. reg(m, new) = Result("OK", g, new, m.address)
    BY <1>6 DEF reg, h, k
  <2>2. \A x \in Used(heap) : m.name < heap[x].name
    BY <1>2, <1>6 DEF Linked, HeadIsLeast
  <2>3. /\ g \in [Nodes -> {Nothing} \cup NameType] /\ g[new] = Cell(namehead)
        /\ \A y \in Nodes \ {new} : g[y] = heap[y]
    <3>1. /\ h \in [Nodes -> {Nothing} \cup NameType] /\ h[new] = Cell(NULL)
          /\ \A y \in Nodes \ {new} : h[y] = heap[y]
      BY <1>2, <1>3, <1>4
    <3>2. g[new] = [Cell(NULL) EXCEPT !.next = namehead]
      BY <1>2, <3>1
    <3>3. g[new] = Cell(namehead)
      BY <3>2
    <3>4. g = [y \in Nodes |-> g[y]] /\ \A y \in Nodes \ {new} : g[y] = heap[y]
      BY <3>1
    <3> HIDE DEF g
    <3>. QED
      BY <1>2, <1>4, <3>3, <3>4
  <2> HIDE DEF g
  <2>4. Added(g, new)
    BY <2>2, <2>3, FirstIn
  <2>5. Addable(View(heap), m.name)
    BY <2>2, AddableSides
  <2>. QED
    BY <2>1, <2>4, <2>5 DEF Result
<1>7. CASE /\ namehead # NULL /\ Node[k] = NULL
           /\ ~ (k = 0 /\ heap[namehead].name > m.name)
  <2> DEFINE x == Node[k - 1]
             g == [h EXCEPT ![x].next = new]
  <2>1. reg(m, new) = Result("OK", g, namehead, m.address)
    BY <1>7 DEF reg, h, k
  <2>2. k # 0
    BY <1>7, NodeSteps
  <2>3. x \in Used(heap) /\ x \in Nodes /\ x # new /\ heap[x].next = NULL
    <3>1. x \in Used(heap) /\ k \in Places \ {0}
      BY <1>1, <2>2
    <3>2. x # NULL /\ x \in Nodes
      BY <3>1, UsedFields DEF Linked
    <3>. QED
      BY <1>2, <1>7, <3>1, <3>2, NodeSteps DEF NextOf
  <2>4. \A y \in Used(heap) : heap[y].name < m.name
    BY <1>1, <1>7
  <2> HIDE DEF x
  <2>5. /\ g \in [Nodes -> {Nothing} \cup NameType]
        /\ g[new] = Cell(NULL) /\ g[x] = [heap[x] EXCEPT !.next = new]
        /\ \A y \in Nodes \ {new, x} : g[y] = heap[y]
    <3>1. /\ h \in [Nodes -> {Nothing} \cup NameType] /\ h[new] = Cell(NULL)
          /\ \A y \in Nodes \ {new} : h[y] = heap[y]
      BY <1>2, <1>3, <1>4
    <3>2. g[x] = [heap[x] EXCEPT !.next = new]
      BY <2>3, <3>1
    <3>3. heap[x] \in NameType
      BY <2>3, UsedFields DEF Linked
    <3>4. [heap[x] EXCEPT !.next = new] \in NameType
      BY <1>2, <3>3 DEF NameType
    <3>5. /\ g = [y \in Nodes |-> g[y]] /\ g[new] = h[new]
          /\ \A y \in Nodes \ {new, x} : g[y] = heap[y]
      BY <2>3, <3>1
    <3> HIDE DEF g
    <3>6. \A y \in Nodes : g[y] \in {Nothing} \cup NameType
      BY <1>2, <1>4, <3>1, <3>2, <3>4, <3>5
    <3>. QED
      BY <3>1, <3>2, <3>5, <3>6
  <2> HIDE DEF g
  <2>6. Added(g, namehead)
    BY <2>3, <2>4, <2>5, LastIn
  <2>7. Addable(View(heap), m.name)
    BY <2>4, AddableSides
  <2>. QED
    BY <2>1, <2>6, <2>7 DEF Result
<1>8. CASE /\ namehead # NULL /\ Node[k] # NULL
           /\ ~ (k = 0 /\ heap[namehead].name > m.name)
  <2>1. reg(m, new) = Result("ALREADY_EXIST", heap, namehead, m.address)
    BY <1>8 DEF reg, h, k
  <2>2. \E x \in Used(heap) : heap[x].name >= m.name
    BY <1>1, <1>8
  <2>3. \E x \in Used(heap) : heap[x].name <= m.name
    <3>1. CASE k = 0
      <4>1. namehead \in Used(heap) /\ ~ heap[namehead].name > m.name
        BY <1>8, <3>1 DEF Linked, HeadIsLeast
      <4>. QED
        BY <1>2, <4>1
    <3>2. CASE k # 0
      BY <1>1, <1>2, <3>2
    <3>. QED
      BY <3>1, <3>2
  <2>4. ~ Addable(View(heap), m.name)
    BY <1>2, <2>2, <2>3, AddableSides
  <2>. QED
    BY <2>1, <2>4 DEF Result
<1>. QED
  BY <1>5, <1>6, <1>7, <1>8

-----------------------------------------------------------------------------
(* A message the switch can be given: a client's, or the one before it.    *)
Fit(m, v) ==
  /\ m.command # "OTHER" => m.name \in Names
  /\ m.command \in {"REGISTER", "MODIFY"} => m.address \in Addresses
  /\ m.command = "ENQUIRE" => m.address \in {Empty, v[m.name]}

(* What a message does to the table v, w after it, and its result.         *)
Effect(m, v, w, res, addr) ==
  /\ m.command = "REGISTER" =>
       \/ /\ res = "OK" /\ Addable(v, m.name) /\ addr = m.address
          /\ w = [v EXCEPT ![m.name] = m.address]
       \/ res = "ALREADY_EXIST" /\ ~ Addable(v, m.name) /\ w = v
  /\ m.command = "MODIFY" =>
       /\ res = IF v[m.name] = Empty THEN "NOT_EXIST" ELSE "OK"
       /\ w = [v EXCEPT ![m.name] =
                 IF v[m.name] = Empty THEN Empty ELSE m.address]
  /\ m.command = "DELETE" =>
       /\ res = IF v[m.name] = Empty THEN "NOT_EXIST" ELSE "OK"
       /\ w = [v EXCEPT ![m.name] = Empty]
  /\ m.command = "ENQUIRE" => addr = v[m.name] /\ w = v
  /\ m.command = "OTHER" => w = v

LEMMA RequestFit ==
  ASSUME NEW m \in Request, NEW v
  PROVE  m \in Received /\ Fit(m, v)
<1>1. CASE m \in WithAddress
  BY <1>1 DEF WithAddress, Received, Fit
<1>2. CASE m \in NoAddressIn
  BY <1>2 DEF NoAddressIn, Received, Fit
<1>3. CASE m \in Unknown
  BY <1>3 DEF Unknown, Received, Fit
<1>. QED
  BY <1>1, <1>2, <1>3 DEF Request

LEMMA SettledFit ==
  ASSUME NEW m, NEW v, Settled(m, v)
  PROVE  Fit(m, v)
BY DEF Settled, Fit

(* One message through the switch.                                         *)
LEMMA ExecuteView ==
  ASSUME Linked(heap, namehead), result \in Results,
         NEW m \in Received, Fit(m, View(heap))
  PROVE  LET d == Execute(m)
         IN  /\ Linked(d.heap, d.head)
             /\ d.result \in Results
             /\ d.address \in Addresses \cup {Empty}
             /\ Effect(m, View(heap), View(d.heap), d.result, d.address)
             /\ m.command # "ENQUIRE" => d.address = m.address
<1> DEFINE d == Execute(m)
           v == View(heap)
           w == View(d.heap)
<1>1. /\ m.command \in {"REGISTER", "MODIFY", "ENQUIRE", "DELETE", "OTHER"}
      /\ m.address \in Addresses \cup {Empty}
  BY DEF Received
<1>2. v \in [Names -> Addresses \cup {Empty}]
  BY ViewAt
<1>3. CASE m.command = "REGISTER"
  <2>1. d = reg(m, malloc)
    BY <1>3 DEF Execute
  <2>2. m.name \in Names /\ m.address \in Addresses
    BY <1>3 DEF Fit
  <2>3. malloc \in Nodes \ Used(heap)
    BY MallocFinds
  <2>4. /\ Linked(d.heap, d.head) /\ d.address = m.address
        /\ \/ /\ d.result = "OK" /\ Addable(v, m.name)
              /\ w = [v EXCEPT ![m.name] = m.address]
           \/ /\ d.result = "ALREADY_EXIST" /\ ~ Addable(v, m.name)
              /\ d.heap = heap /\ d.head = namehead
    BY <2>1, <2>2, <2>3, RegView
  <2> HIDE DEF d
  <2>. QED
    BY <1>1, <1>3, <2>4 DEF Effect, Results, d
<1>4. CASE m.command = "MODIFY"
  <2>1. d = modify(m)
    BY <1>4 DEF Execute
  <2>2. m.name \in Names /\ m.address \in Addresses
    BY <1>4 DEF Fit
  <2>3. /\ Linked(d.heap, d.head) /\ d.address = m.address
        /\ w = [v EXCEPT ![m.name] = IF v[m.name] = Empty THEN Empty
                                     ELSE m.address]
        /\ d.result = IF v[m.name] = Empty THEN "NOT_EXIST" ELSE "OK"
    BY <2>1, <2>2, ModifyView
  <2> HIDE DEF d
  <2>. QED
    BY <1>1, <1>4, <2>3 DEF Effect, Results, d
<1>5. CASE m.command = "DELETE"
  <2>1. d = delete(m)
    BY <1>5 DEF Execute
  <2>2. m.name \in Names
    BY <1>5 DEF Fit
  <2>3. /\ Linked(d.heap, d.head) /\ d.address = m.address
        /\ w = [v EXCEPT ![m.name] = Empty]
        /\ d.result = IF v[m.name] = Empty THEN "NOT_EXIST" ELSE "OK"
    BY <2>1, <2>2, DeleteView
  <2> HIDE DEF d
  <2>. QED
    BY <1>1, <1>5, <2>3 DEF Effect, Results, d
<1>6. CASE m.command = "ENQUIRE"
  <2>1. d = enquire(m)
    BY <1>6 DEF Execute
  <2>2. m.name \in Names /\ m.address \in {Empty, v[m.name]}
    BY <1>6 DEF Fit
  <2>3. /\ d.heap = heap /\ d.head = namehead
        /\ d.address = IF v[m.name] = Empty THEN m.address ELSE v[m.name]
        /\ d.result = IF v[m.name] = Empty THEN "NOT_EXIST" ELSE "OK"
    BY <2>1, <2>2, EnquireView
  <2>4. d.address = v[m.name]
    BY <2>2, <2>3
  <2> HIDE DEF d
  <2>. QED
    BY <1>1, <1>2, <1>6, <2>2, <2>3, <2>4 DEF Effect, Results, d
<1>7. CASE m.command = "OTHER"
  <2>1. d = Result(result, heap, namehead, m.address)
    BY <1>7 DEF Execute
  <2>. QED
    BY <1>1, <1>7, <2>1 DEF Effect, Result
<1>. QED
  BY <1>1, <1>3, <1>4, <1>5, <1>6, <1>7

(* After a message the table has settled on it.                            *)
LEMMA EffectSettles ==
  ASSUME NEW m \in Received, NEW v \in [Names -> Addresses \cup {Empty}],
         Fit(m, v), NEW w, NEW res, NEW addr, Effect(m, v, w, res, addr),
         m.command # "ENQUIRE" => addr = m.address
  PROVE  Settled([m EXCEPT !.address = addr], w)
<1> DEFINE m2 == [m EXCEPT !.address = addr]
<1>1. m2.command = m.command /\ m2.name = m.name /\ m2.address = addr
  BY DEF Received
<1> HIDE DEF m2
<1>2. m.command \in {"REGISTER", "MODIFY", "ENQUIRE", "DELETE", "OTHER"}
  BY DEF Received
<1>3. CASE m.command = "REGISTER"
  <2>1. m.name \in Names /\ m.address \in Addresses /\ m.address # Empty
    BY <1>3, AddressAssumption DEF Fit
  <2>2. ~ Addable(w, m.name)
    BY <1>3, <2>1 DEF Effect, Addable
  <2>. QED
    BY <1>1, <1>3, <2>1, <2>2 DEF Settled, m2
<1>4. CASE m.command = "MODIFY"
  <2>1. m.name \in Names /\ m.address \in Addresses
    BY <1>4 DEF Fit
  <2>. QED
    BY <1>1, <1>4, <2>1 DEF Settled, Effect, m2
<1>5. CASE m.command = "DELETE"
  BY <1>1, <1>5 DEF Settled, Fit, Effect, m2
<1>6. CASE m.command = "ENQUIRE"
  BY <1>1, <1>6 DEF Settled, Fit, Effect, m2
<1>7. CASE m.command = "OTHER"
  BY <1>1, <1>7 DEF Settled, m2
<1>. QED
  BY <1>2, <1>3, <1>4, <1>5, <1>6, <1>7 DEF m2

(* A message executed a second time changes nothing.                       *)
LEMMA SettledChangesNothing ==
  ASSUME NEW m \in Received, NEW v \in [Names -> Addresses \cup {Empty}],
         Settled(m, v), NEW w, NEW res, NEW addr, Effect(m, v, w, res, addr)
  PROVE  w = v
<1>1. m.command \in {"REGISTER", "MODIFY", "ENQUIRE", "DELETE", "OTHER"}
  BY DEF Received
<1>2. CASE m.command = "REGISTER"
  BY <1>2 DEF Settled, Effect
<1>3. CASE m.command = "MODIFY"
  <2>1. /\ m.name \in Names
        /\ w = [v EXCEPT ![m.name] = v[m.name]]
    BY <1>3 DEF Settled, Effect
  <2>. QED
    BY <2>1
<1>4. CASE m.command = "DELETE"
  <2>1. /\ m.name \in Names
        /\ w = [v EXCEPT ![m.name] = v[m.name]]
    BY <1>4 DEF Settled, Effect
  <2>. QED
    BY <2>1
<1>5. CASE m.command \in {"ENQUIRE", "OTHER"}
  BY <1>5 DEF Effect
<1>. QED
  BY <1>1, <1>2, <1>3, <1>4, <1>5

-----------------------------------------------------------------------------
(* The message the server executes for a connection, and what comes of it. *)
Taken(c) == IF sent[c] = Nothing THEN msg ELSE sent[c]

LEMMA ServeView ==
  ASSUME ServerInv, NEW c \in Clients, Serve(c)
  PROVE  /\ Taken(c) \in Received /\ Fit(Taken(c), View(heap))
         /\ View(heap) \in [Names -> Addresses \cup {Empty}]
         /\ msg' = [Taken(c) EXCEPT !.address = msg'.address]
         /\ msg'.command = Taken(c).command /\ msg'.name = Taken(c).name
         /\ msg' \in Received
         /\ Linked(heap', namehead') /\ result' \in Results
         /\ Effect(Taken(c), View(heap), View(heap'), result', msg'.address)
         /\ Settled(msg', View(heap'))
         /\ \E answer \in Answers :
              /\ Close(c, answer)
              /\ answer = CASE Taken(c).command = "ENQUIRE" -> msg'.address
                            [] Taken(c).command = "OTHER"   -> "eof"
                            [] OTHER                        -> result'
<1> DEFINE m == Taken(c)
           d == Execute(m)
<1>1. /\ msg' = [m EXCEPT !.address = d.address]
      /\ result' = d.result /\ heap' = d.heap /\ namehead' = d.head
      /\ Close(c, Answer(m, d))
  BY DEF Serve, Taken
<1>2. m \in Received /\ Fit(m, View(heap))
  <2>1. CASE sent[c] = Nothing
    BY <2>1, SettledFit DEF Taken, ServerInv, TypeOK
  <2>2. CASE sent[c] # Nothing
    <3>1. sent[c] \in Request
      BY <2>2 DEF ServerInv, TypeOK
    <3>. QED
      BY <2>2, <3>1, RequestFit DEF Taken
  <2>. QED
    BY <2>1, <2>2
<1>3. View(heap) \in [Names -> Addresses \cup {Empty}]
  BY ViewAt DEF ServerInv
<1> HIDE DEF m
<1>4. /\ Linked(d.heap, d.head) /\ d.result \in Results
      /\ d.address \in Addresses \cup {Empty}
      /\ Effect(m, View(heap), View(d.heap), d.result, d.address)
      /\ m.command # "ENQUIRE" => d.address = m.address
  BY <1>2, ExecuteView DEF ServerInv, TypeOK
<1> HIDE DEF d
<1>5. Settled([m EXCEPT !.address = d.address], View(d.heap))
  BY <1>2, <1>3, <1>4, EffectSettles
<1>6. /\ msg'.command = m.command /\ msg'.name = m.name
      /\ msg'.address = d.address /\ msg' \in Received
  BY <1>1, <1>2, <1>4 DEF Received
<1>7. Answer(m, d) \in Answers
  BY <1>4 DEF Answer, Answers
<1>8. Answer(m, d) = CASE m.command = "ENQUIRE" -> msg'.address
                       [] m.command = "OTHER"   -> "eof"
                       [] OTHER                 -> result'
  BY <1>1, <1>6 DEF Answer
<1>. QED
  BY <1>1, <1>2, <1>3, <1>4, <1>5, <1>6, <1>7, <1>8 DEF m

LEMMA StartSettled ==
  /\ Linked([n \in Nodes |-> Nothing], NULL)
  /\ View([n \in Nodes |-> Nothing]) = [n \in Names |-> Empty]
  /\ ZeroMsg \in Received
  /\ \A v : Settled(ZeroMsg, v)
<1> DEFINE h == [n \in Nodes |-> Nothing]
<1>1. Used(h) = {} /\ h \in [Nodes -> {Nothing} \cup NameType]
  BY DEF Used
<1> HIDE DEF h
<1>2. Linked(h, NULL)
  BY <1>1 DEF Linked, Distinct, HeadIsLeast, NextIsNext
<1>3. View(h) = [n \in Names |-> Empty]
  BY <1>1 DEF View
<1>4. ZeroMsg \in Received /\ \A v : Settled(ZeroMsg, v)
  BY DEF ZeroMsg, Received, Settled
<1>. QED
  BY <1>2, <1>3, <1>4 DEF h

LEMMA ServerInit == Init => ServerInv
<1> SUFFICES ASSUME Init PROVE ServerInv
  OBVIOUS
<1>1. Linked(heap, namehead) /\ msg \in Received /\ Settled(msg, View(heap))
  BY StartSettled DEF Init
<1>2. Streams
  BY DEF Init, Streams
<1>3. backlog \in Seq(Clients)
  BY DEF Init
<1>4. TypeOK
  BY <1>1, <1>3 DEF Init, TypeOK, Results
<1>. QED
  BY <1>1, <1>2, <1>4 DEF ServerInv

(* The steps of the clients leave the server alone.                        *)
LEMMA ServerStays ==
  ASSUME ServerInv, UNCHANGED server,
         backlog' \in Seq(Clients),
         pc' \in [Clients -> {"idle", "connected", "waiting", "gone"}],
         sent' \in [Clients -> {Nothing} \cup Request],
         reply' \in [Clients -> {Nothing} \cup Answers],
         Streams'
  PROVE  ServerInv'
<1>1. /\ namehead' = namehead /\ heap' = heap /\ msg' = msg /\ result' = result
  BY DEF server
<1>2. TypeOK'
  BY <1>1 DEF ServerInv, TypeOK
<1>3. Linked(heap, namehead)' /\ Settled(msg, View(heap))'
  BY <1>1 DEF ServerInv
<1>. QED
  BY <1>2, <1>3 DEF ServerInv

LEMMA ServerStep == ServerInv /\ [Next]_vars => ServerInv'
<1> SUFFICES ASSUME ServerInv, [Next]_vars
             PROVE  ServerInv'
  OBVIOUS
<1>0. /\ backlog \in Seq(Clients)
      /\ pc \in [Clients -> {"idle", "connected", "waiting", "gone"}]
      /\ sent \in [Clients -> {Nothing} \cup Request]
      /\ reply \in [Clients -> {Nothing} \cup Answers]
      /\ Streams /\ TypeOK /\ Linked(heap, namehead)
  BY DEF ServerInv, TypeOK
<1>1. ASSUME NEW c \in Clients, Connect(c)
      PROVE  ServerInv'
  <2>1. backlog' \in Seq(Clients)
    BY <1>0, <1>1 DEF Connect
  <2>2. Streams'
    BY <1>0, <1>1 DEF Connect, Streams
  <2>. QED
    BY <1>0, <1>1, <2>1, <2>2, ServerStays DEF Connect
<1>2. ASSUME NEW c \in Clients, Write(c)
      PROVE  ServerInv'
  <2>1. PICK m \in Messages[c] : sent' = [sent EXCEPT ![c] = m]
    BY <1>2 DEF Write
  <2>2. m \in Request
    BY <2>1, MessagesAssumption
  <2>3. Streams'
    BY <1>0, <1>2, <2>1, <2>2 DEF Write, Streams
  <2>. QED
    BY <1>0, <1>2, <2>1, <2>2, <2>3, ServerStays DEF Write
<1>3. ASSUME NEW c \in Clients, Show(c)
      PROVE  ServerInv'
  <2>1. Streams'
    BY <1>0, <1>3 DEF Show, Streams
  <2>. QED
    BY <1>0, <1>3, <2>1, ServerStays DEF Show
<1>4. ASSUME NEW c \in Clients, Interrupt(c)
      PROVE  ServerInv'
  <2>1. Streams'
    BY <1>0, <1>4 DEF Interrupt, Streams
  <2>. QED
    BY <1>0, <1>4, <2>1, ServerStays DEF Interrupt
<1>5. ASSUME NEW c \in Clients, Serve(c)
      PROVE  ServerInv'
  <2>1. PICK answer \in Answers : Close(c, answer)
    BY <1>5, ServeView
  <2>2. backlog' \in Seq(Clients)
    BY <1>0, <1>5, <2>1 DEF Serve, Close
  <2>3. /\ pc' \in [Clients -> {"idle", "connected", "waiting", "gone"}]
        /\ sent' \in [Clients -> {Nothing} \cup Request]
        /\ reply' \in [Clients -> {Nothing} \cup Answers]
        /\ Streams'
    <3>1. CASE pc[c] = "gone"
      BY <1>0, <2>1, <3>1 DEF Close, Streams
    <3>2. CASE pc[c] # "gone"
      BY <1>0, <2>1, <3>2 DEF Close, Streams
    <3>. QED
      BY <3>1, <3>2
  <2>4. /\ Linked(heap', namehead') /\ msg' \in Received /\ result' \in Results
        /\ Settled(msg', View(heap'))
    BY <1>5, ServeView
  <2>5. TypeOK'
    BY <2>2, <2>3, <2>4 DEF TypeOK, Linked
  <2>. QED
    BY <2>3, <2>4, <2>5 DEF ServerInv
<1>6. CASE Restart
  <2>1. Linked(heap', namehead') /\ msg' \in Received /\ Settled(msg', View(heap'))
    BY <1>6, StartSettled DEF Restart
  <2>2. /\ pc' \in [Clients -> {"idle", "connected", "waiting", "gone"}]
        /\ sent' \in [Clients -> {Nothing} \cup Request]
        /\ reply' \in [Clients -> {Nothing} \cup Answers]
    BY <1>0, <1>6 DEF Restart, Answers
  <2>3. Streams'
    BY <1>0, <1>6 DEF Restart, Streams
  <2>4. TypeOK'
    BY <1>6, <2>1, <2>2 DEF Restart, TypeOK, Linked, Results
  <2>. QED
    BY <2>1, <2>3, <2>4 DEF ServerInv
<1>7. CASE UNCHANGED vars
  <2>1. UNCHANGED server /\ UNCHANGED <<backlog, pc, sent, reply>>
    BY <1>7 DEF vars, links
  <2>2. Streams'
    BY <1>0, <2>1 DEF Streams
  <2>. QED
    BY <1>0, <2>1, <2>2, ServerStays
<1>. QED
  BY <1>1, <1>2, <1>3, <1>4, <1>5, <1>6, <1>7 DEF Next

LEMMA ServerAlways == Spec => []ServerInv
BY ServerInit, ServerStep, PTL DEF Spec

(* Every variable keeps its type; malloc always has a node to give while   *)
(* there are more nodes than names (SERVER.C:184).                         *)
THEOREM NameServerTyped == Spec => []TypeOK
<1>1. Spec => []ServerInv
  BY ServerAlways
<1>2. ServerInv => TypeOK
  BY DEF ServerInv
<1>. QED
  BY <1>1, <1>2, PTL

(* The list always ends, in strict order, and has every allocated node on  *)
(* it, whatever is registered, deleted and executed again (SERVER.C:67-    *)
(* 131).                                                                   *)
THEOREM TableAlwaysSound == Spec => []TableSound
<1>1. Spec => []ServerInv
  BY ServerAlways
<1>2. ServerInv => TableSound
  BY LinkedIsSound DEF ServerInv
<1>. QED
  BY <1>1, <1>2, PTL


(* The map before and after a step.                                        *)
LEMMA MapsAreViews ==
  ServerInv /\ [Next]_vars => Map = View(heap) /\ Map' = View(heap')
<1>1. (Linked(heap, namehead) => Map = View(heap))'
  BY MapIsView, PTL
<1>2. ServerInv => Map = View(heap)
  BY MapIsView DEF ServerInv
<1>3. ServerInv' => Linked(heap', namehead')
  BY DEF ServerInv
<1>. QED
  BY <1>1, <1>2, <1>3, ServerStep

(* A client that goes before it writes makes the server execute the        *)
(* message before it again (SERVER.C:177-181), and that changes neither a  *)
(* name nor an address.                                                    *)
THEOREM EarlyCloseDoesNoHarm == Spec => EarlyCloseHarmless
<1>1. Spec => []ServerInv
  BY ServerAlways
<1>2. ServerInv /\ [Next]_vars =>
        [\A c \in Clients : sent[c] = Nothing /\ Serve(c) => Map' = Map]_vars
  <2> SUFFICES ASSUME ServerInv, [Next]_vars,
                      NEW c \in Clients, sent[c] = Nothing, Serve(c)
               PROVE  Map' = Map
    OBVIOUS
  <2>1. Taken(c) = msg /\ msg \in Received /\ Settled(msg, View(heap))
    BY DEF Taken, ServerInv, TypeOK
  <2>2. /\ View(heap) \in [Names -> Addresses \cup {Empty}]
        /\ Effect(Taken(c), View(heap), View(heap'), result', msg'.address)
    BY ServeView
  <2>3. View(heap') = View(heap)
    BY <2>1, <2>2, SettledChangesNothing
  <2>. QED
    BY <2>3, MapsAreViews
<1>. QED
  BY <1>1, <1>2, PTL DEF Spec, EarlyCloseHarmless

(* A free name that cannot be added at an end belongs in the middle.       *)
LEMMA MiddleOrEnd ==
  ASSUME NEW v \in [Names -> Addresses \cup {Empty}], NEW m, m.name \in Names,
         m.command = "REGISTER", Map = v, v[m.name] = Empty,
         ~ Addable(v, m.name)
  PROVE  MiddleName(m)
<1>1. \A a, b \in Names : a < b \/ a = b \/ b < a
  BY NamesAssumption
<1>2. PICK b \in Names : v[b] # Empty /\ ~ (b < m.name)
  BY DEF Addable
<1>3. PICK a \in Names : v[a] # Empty /\ ~ (m.name < a)
  BY DEF Addable
<1>4. m.name < b /\ a < m.name
  BY <1>1, <1>2, <1>3
<1>. QED
  BY <1>2, <1>3, <1>4 DEF MiddleName

(* What a waiting client is answered and prints (CLIENT.C:75-93) is true   *)
(* of the table as it was before its own message was executed: REGISTER    *)
(* says OK exactly when the name was free, if it did not belong between    *)
(* two others; an unknown name is never shown at an address (SERVER.C:194- *)
(* 195).                                                                   *)
THEOREM ClientsPrintTruth == Spec => PrintsTruth
<1>1. Spec => []ServerInv
  BY ServerAlways
<1>2. ServerInv /\ [Next]_vars =>
        [\A c \in Clients :
           pc[c] = "waiting" /\ reply[c] = Nothing /\ Serve(c) /\ ~ MiddleName(sent[c])
             => Printed(sent[c], reply'[c]) = RightAnswer(sent[c])]_vars
  <2> SUFFICES ASSUME ServerInv, [Next]_vars, NEW c \in Clients,
                      pc[c] = "waiting", reply[c] = Nothing, Serve(c),
                      ~ MiddleName(sent[c])
               PROVE  Printed(sent[c], reply'[c]) = RightAnswer(sent[c])
    OBVIOUS
  <2> DEFINE m == sent[c]
             v == View(heap)
             w == View(heap')
  <2>1. m \in Request /\ Taken(c) = m
    BY NothingAssumption DEF ServerInv, Streams, Taken
  <2>2. /\ m \in Received /\ Fit(m, v)
        /\ v \in [Names -> Addresses \cup {Empty}]
        /\ Effect(m, v, w, result', msg'.address)
    BY <2>1, ServeView
  <2>3. reply'[c] = CASE m.command = "ENQUIRE" -> msg'.address
                      [] m.command = "OTHER"   -> "eof"
                      [] OTHER                 -> result'
    <3>1. PICK answer \in Answers :
            /\ Close(c, answer)
            /\ answer = CASE m.command = "ENQUIRE" -> msg'.address
                          [] m.command = "OTHER"   -> "eof"
                          [] OTHER                 -> result'
      BY <2>1, ServeView
    <3>2. reply' = [reply EXCEPT ![c] = answer]
      BY <3>1 DEF Close
    <3>. QED
      BY <3>1, <3>2 DEF ServerInv, TypeOK
  <2>4. Map = v /\ Map' = w
    BY MapsAreViews
  <2>5. m.command \in {"REGISTER", "MODIFY", "ENQUIRE", "DELETE", "OTHER"}
    BY <2>2 DEF Received
  <2>10. ~ MiddleName(m)
    OBVIOUS
  <2> SUFFICES Printed(m, reply'[c]) = RightAnswer(m)
    OBVIOUS
  <2> HIDE DEF m, v, w
  <2>6. CASE m.command = "REGISTER"
    <3>1. m.name \in Names
      BY <2>2, <2>6 DEF Fit
    <3>2. Printed(m, reply'[c]) = result'
      BY <2>3, <2>6 DEF Printed
    <3>3. RightAnswer(m) = IF v[m.name] = Empty THEN "OK" ELSE "ALREADY_EXIST"
      BY <2>4, <2>6 DEF RightAnswer
    <3>4. v[m.name] = Empty <=> Addable(v, m.name)
      BY <2>2, <2>4, <2>6, <2>10, <3>1, MiddleOrEnd DEF Addable
    <3>. QED
      BY <2>2, <2>6, <3>2, <3>3, <3>4 DEF Effect
  <2>7. CASE m.command \in {"MODIFY", "DELETE"}
    <3>1. Printed(m, reply'[c]) = result'
      BY <2>3, <2>7 DEF Printed
    <3>2. RightAnswer(m) = IF v[m.name] = Empty THEN "NOT_EXIST" ELSE "OK"
      BY <2>4, <2>7 DEF RightAnswer
    <3>. QED
      BY <2>2, <2>7, <3>1, <3>2 DEF Effect
  <2>8. CASE m.command = "ENQUIRE"
    <3>1. reply'[c] = v[m.name]
      BY <2>2, <2>3, <2>8 DEF Effect
    <3>2. RightAnswer(m) = IF v[m.name] = Empty THEN "NOT_EXIST" ELSE v[m.name]
      BY <2>4, <2>8 DEF RightAnswer
    <3>. QED
      BY <2>8, <3>1, <3>2 DEF Printed
  <2>9. CASE m.command = "OTHER"
    BY <2>3, <2>4, <2>9 DEF Printed, RightAnswer
  <2>. QED
    BY <2>5, <2>6, <2>7, <2>8, <2>9
<1>. QED
  BY <1>1, <1>2, PTL DEF Spec, PrintsTruth
-----------------------------------------------------------------------------
(* The answer of an abstract step, from the message executed.              *)
LEMMA AbstractServe ==
  ASSUME ServerInv, [Next]_vars, NEW c \in Clients, Serve(c)
  PROVE  Abstract!Next \/ MiddleRefused
<1> DEFINE m == Taken(c)
           v == View(heap)
           w == View(heap')
           n == m.name
<1>1. /\ m \in Received /\ Fit(m, v)
      /\ v \in [Names -> Addresses \cup {Empty}]
      /\ msg'.command = m.command /\ msg'.name = n
      /\ result' \in Results
      /\ Effect(m, v, w, result', msg'.address)
  BY ServeView
<1>2. Map = v /\ Map' = w
  BY MapsAreViews
<1>3. m.command \in {"REGISTER", "MODIFY", "ENQUIRE", "DELETE", "OTHER"}
  BY <1>1 DEF Received
<1>4. AnswerSeen' =
        CASE m.command = "REGISTER" ->
               <<"register", n,
                 IF result' = "OK" THEN "ok" ELSE "already exists">>
          [] m.command = "MODIFY" ->
               <<"modify", n, IF result' = "OK" THEN "ok" ELSE "not exist">>
          [] m.command = "DELETE" ->
               <<"delete", n, IF result' = "OK" THEN "ok" ELSE "not exist">>
          [] m.command = "ENQUIRE" -> <<"enquire", n, msg'.address>>
          [] OTHER -> <<"none">>
  BY <1>1 DEF AnswerSeen
<1> HIDE DEF m, v, w
<1>5. CASE m.command = "REGISTER"
  <2>1. n \in Names /\ m.address \in Addresses
    BY <1>1, <1>5 DEF Fit
  <2>2. Abstract!Free(n) <=> v[n] = Empty
    BY <1>2 DEF Abstract!Free
  <2>3. CASE result' = "OK"
    <3>1. /\ AnswerSeen' = <<"register", n, "ok">>
          /\ Addable(v, n) /\ w = [v EXCEPT ![n] = m.address]
      BY <1>1, <1>4, <1>5, <2>3 DEF Effect
    <3>2. Abstract!Register(n, m.address)
      BY <1>2, <2>2, <3>1 DEF Abstract!Register, Addable
    <3>. QED
      BY <2>1, <3>2 DEF Abstract!Next
  <2>4. CASE result' # "OK"
    <3>1. /\ AnswerSeen' = <<"register", n, "already exists">>
          /\ ~ Addable(v, n) /\ w = v
      BY <1>1, <1>4, <1>5, <2>4 DEF Effect
    <3>2. CASE v[n] # Empty
      <4>1. Abstract!RefuseName(n)
        BY <1>2, <2>2, <3>1, <3>2 DEF Abstract!RefuseName
      <4>. QED
        BY <2>1, <4>1 DEF Abstract!Next
    <3>3. CASE v[n] = Empty
      <4>1. msg'.name \in Names /\ msg'.command = "REGISTER"
        BY <1>1, <1>5, <2>1
      <4>2. v[msg'.name] = Empty /\ ~ Addable(v, msg'.name)
        BY <1>1, <3>1, <3>3
      <4>3. MiddleName(msg')
        BY <1>1, <1>2, <4>1, <4>2, MiddleOrEnd
      <4>. QED
        BY <1>1, <1>2, <3>1, <4>3 DEF MiddleRefused
    <3>. QED
      BY <3>2, <3>3
  <2>. QED
    BY <2>3, <2>4
<1>6. CASE m.command = "MODIFY"
  <2>1. n \in Names /\ m.address \in Addresses
    BY <1>1, <1>6 DEF Fit
  <2>2. AnswerSeen' = <<"modify", n, IF v[n] = Empty THEN "not exist" ELSE "ok">>
    BY <1>1, <1>4, <1>6 DEF Effect
  <2>3. w = [v EXCEPT ![n] = IF v[n] = Empty THEN Empty ELSE m.address]
    BY <1>1, <1>6 DEF Effect
  <2>4. Abstract!Modify(n, m.address)
    BY <1>2, <2>2, <2>3 DEF Abstract!Modify, Abstract!Free
  <2>. QED
    BY <2>1, <2>4 DEF Abstract!Next
<1>7. CASE m.command = "DELETE"
  <2>1. n \in Names
    BY <1>1, <1>7 DEF Fit
  <2>2. AnswerSeen' = <<"delete", n, IF v[n] = Empty THEN "not exist" ELSE "ok">>
    BY <1>1, <1>4, <1>7 DEF Effect
  <2>3. w = [v EXCEPT ![n] = Empty]
    BY <1>1, <1>7 DEF Effect
  <2>4. Abstract!Delete(n)
    BY <1>2, <2>2, <2>3 DEF Abstract!Delete, Abstract!Free
  <2>. QED
    BY <2>1, <2>4 DEF Abstract!Next
<1>8. CASE m.command = "ENQUIRE"
  <2>1. n \in Names
    BY <1>1, <1>8 DEF Fit
  <2>2. AnswerSeen' = <<"enquire", n, v[n]>> /\ w = v
    BY <1>1, <1>4, <1>8 DEF Effect
  <2>3. Abstract!Enquire(n)
    BY <1>2, <2>2 DEF Abstract!Enquire
  <2>. QED
    BY <2>1, <2>3 DEF Abstract!Next
<1>9. CASE m.command = "OTHER"
  <2>1. AnswerSeen' = <<"none">> /\ w = v
    BY <1>1, <1>4, <1>9 DEF Effect
  <2>2. Abstract!Ignore
    BY <1>2, <2>1 DEF Abstract!Ignore
  <2>. QED
    BY <2>2 DEF Abstract!Next
<1>. QED
  BY <1>3, <1>5, <1>6, <1>7, <1>8, <1>9

LEMMA AbstractStep ==
  ServerInv /\ [Next]_vars
    => [Abstract!Next \/ MiddleRefused]_<<Map, AnswerSeen>>
<1> SUFFICES ASSUME ServerInv, [Next]_vars
             PROVE  \/ Abstract!Next \/ MiddleRefused
                    \/ UNCHANGED <<Map, AnswerSeen>>
  OBVIOUS
<1>1. Map = View(heap) /\ Map' = View(heap')
  BY MapsAreViews
<1>2. ASSUME UNCHANGED server
      PROVE  UNCHANGED <<Map, AnswerSeen>>
  BY <1>1, <1>2 DEF server, AnswerSeen
<1>3. ASSUME NEW c \in Clients, Connect(c) \/ Write(c) \/ Show(c) \/ Interrupt(c)
      PROVE  UNCHANGED server
  BY <1>3 DEF Connect, Write, Show, Interrupt
<1>4. ASSUME NEW c \in Clients, Serve(c)
      PROVE  Abstract!Next \/ MiddleRefused
  BY <1>4, AbstractServe
<1>5. CASE Restart
  <2>1. Map' = [n \in Names |-> Empty]
    BY <1>1, <1>5, StartSettled DEF Restart
  <2>2. AnswerSeen' = <<"none">>
    BY <1>5 DEF Restart, AnswerSeen, ZeroMsg
  <2>3. Abstract!Forget
    BY <2>1, <2>2 DEF Abstract!Forget
  <2>. QED
    BY <2>3 DEF Abstract!Next
<1>6. CASE UNCHANGED vars
  BY <1>2, <1>6 DEF vars
<1>. QED
  BY <1>2, <1>3, <1>4, <1>5, <1>6 DEF Next

LEMMA AbstractInit == Init => Abstract!Init
<1> SUFFICES ASSUME Init PROVE Abstract!Init
  OBVIOUS
<1>1. Map = [n \in Names |-> Empty]
  BY StartSettled, MapIsView DEF Init
<1>2. AnswerSeen = <<"none">>
  BY DEF Init, AnswerSeen, ZeroMsg
<1>. QED
  BY <1>1, <1>2 DEF Abstract!Init

(* The server is a map of names that gives one answer to each message it   *)
(* executes, right but for a middle name, which may be refused and then    *)
(* changes nothing, and loses all names when it stops (SERVER.C:99-130,    *)
(* 142).                                                                   *)
THEOREM ServerIsNameMap == Spec => NameMapButMiddle
<1>1. Spec => []ServerInv
  BY ServerAlways
<1>. QED
  BY <1>1, AbstractInit, AbstractStep, PTL DEF Spec, NameMapButMiddle
=============================================================================
