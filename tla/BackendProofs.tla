---------------------------- MODULE BackendProofs ----------------------------
(***************************************************************************)
(* Theorems about Backend.tla for any accounts, requests, days and kills:  *)
(* types, and, where no account is closed, that the transaction log tells  *)
(* the balances and explains every account, and that the backend           *)
(* implements Ledger.tla.  What the functions of DBMS.C do to CUSTOMER and *)
(* its index is taken from DbmsProofs.tla.                                 *)
(***************************************************************************)
EXTENDS Backend, TLAPS

NoBuffer == CHOOSE b : b \notin Buffers(Accts, Balances)

Db == INSTANCE DbmsProofs WITH
        Keys <- Accts, Vals <- Balances, NoBuf <- NoBuffer, MaxRecs <- 0,
        file <- customer, index <- cindex, curr_recno <- 0,
        buffer <- NoBuffer, rcode <- 0, looping <- FALSE

(* The assumptions of Dbms.tla, for CUSTOMER.                              *)
LEMMA DbAssumptions ==
  /\ Accts \subseteq Nat /\ NoVal \notin Balances
  /\ NoBuffer \notin Db!Buffers(Accts, Balances)
<1>1. Buffers(Accts, Balances) = Db!Buffers(Accts, Balances)
  BY DEF Buffers, Db!Buffers
<1>2. NoBuffer \notin Buffers(Accts, Balances)
  BY NoSetContainsEverything DEF NoBuffer
<1>. QED
  BY <1>1, <1>2, AcctsAssumption, MaxBalAssumption, NoValAssumption DEF Balances

(* The functions DbmsProofs.tla is about are the ones the backend calls.   *)
LEMMA SameSets ==
  /\ Entries(Accts) = Db!Entries(Accts)
  /\ Buffers(Accts, Balances) = Db!Buffers(Accts, Balances)
  /\ Records(Accts, Balances) = Db!Records(Accts, Balances)
  /\ Files(Accts, Balances) = Db!Files(Accts, Balances)
  BY DEF Entries, Db!Entries, Buffers, Db!Buffers, Records, Db!Records, Files,
         Db!Files, FREE, OCCUPIED, Db!FREE, Db!OCCUPIED

LEMMA SameIndex ==
  ASSUME NEW ix, NEW r, NEW k
  PROVE  /\ GetIndex(ix, k) = Db!GetIndex(ix, k)
         /\ AddIndex(ix, r, k) = Db!AddIndex(ix, r, k)
         /\ DeleteIndex(ix, k) = Db!DeleteIndex(ix, k)
         /\ Sorted(ix) <=> Db!Sorted(ix)
         /\ Live(ix) = Db!Live(ix)
         /\ EntryFor(r, k) = Db!EntryFor(r, k)
  BY DEF GetIndex, Db!GetIndex, AddIndex, Db!AddIndex, DeleteIndex,
         Db!DeleteIndex, Sorted, Db!Sorted, Live, Db!Live, EntryFor, Db!EntryFor,
         InsertPos, Db!InsertPos, ShiftIn, Db!ShiftIn, FREE, OCCUPIED, Db!FREE,
         Db!OCCUPIED

LEMMA SameFile ==
  ASSUME NEW f, NEW b, NEW n
  PROVE  /\ NextRecno(f) = Db!NextRecno(f)
         /\ AddRecord(f, b) = Db!AddRecord(f, b)
         /\ MarkFree(f, n) = Db!MarkFree(f, n)
         /\ DeleteRecord(f, n) = Db!DeleteRecord(f, n)
         /\ Occupied(b) = Db!Occupied(b)
  BY DEF NextRecno, Db!NextRecno, NewRecno, Db!NewRecno, AddRecord, Db!AddRecord,
         MarkFree, Db!MarkFree, DeleteRecord, Db!DeleteRecord, Occupied,
         Db!Occupied, FreeTail, Db!FreeTail, FreeWalk, Db!FreeWalk, FREE, OCCUPIED,
         Db!FREE, Db!OCCUPIED
-----------------------------------------------------------------------------

(* get_index.                                                              *)
LEMMA Gets ==
  ASSUME NEW ix \in Seq(Entries(Accts)), NEW k \in Accts, Sorted(ix)
  PROVE  /\ \A e \in Db!LiveEntries(ix) : e.key = k => GetIndex(ix, k) = e.recno
         /\ (\A e \in Db!LiveEntries(ix) : e.key # k) => GetIndex(ix, k) = 0
         /\ GetIndex(ix, k) \in Nat
  BY Db!GetIndexCorrect, DbAssumptions, SameSets, SameIndex

(* add_index of a key that get_index does not find.                        *)
LEMMA AddsEntry ==
  ASSUME NEW ix \in Seq(Entries(Accts)), NEW r \in Nat, NEW k \in Accts,
         Sorted(ix), \A e \in Db!LiveEntries(ix) : e.key # k
  PROVE  /\ AddIndex(ix, r, k) \in Seq(Entries(Accts))
         /\ Sorted(AddIndex(ix, r, k))
         /\ Db!LiveEntries(AddIndex(ix, r, k))
              = Db!LiveEntries(ix) \cup {[status |-> OCCUPIED, recno |-> r, key |-> k]}
<1>1. ix \in Seq(Db!Entries(Accts)) /\ Db!Sorted(ix)
  BY SameSets, SameIndex
<1>2. \A i \in Db!Live(ix) : ix[i].key # k
  BY DEF Db!LiveEntries
<1>3. Db!AddIndex(ix, r, k) \in Seq(Db!Entries(Accts))
  BY <1>1, Db!AddIndexType, DbAssumptions
<1>4. Db!Sorted(Db!AddIndex(ix, r, k))
  BY <1>1, <1>2, Db!AddIndexSorted, DbAssumptions
<1>5. Db!LiveEntries(Db!AddIndex(ix, r, k))
        = Db!LiveEntries(ix) \cup {Db!EntryFor(r, k)}
  BY <1>1, Db!AddIndexLive, DbAssumptions
<1>. QED
  BY <1>3, <1>4, <1>5, SameSets, SameIndex DEF EntryFor

(* delete_index.                                                           *)
LEMMA DeletesEntry ==
  ASSUME NEW ix \in Seq(Entries(Accts)), NEW k \in Accts, Sorted(ix)
  PROVE  /\ DeleteIndex(ix, k) \in Seq(Entries(Accts))
         /\ Sorted(DeleteIndex(ix, k))
         /\ Db!LiveEntries(DeleteIndex(ix, k)) \subseteq Db!LiveEntries(ix)
<1>1. ix \in Seq(Db!Entries(Accts)) /\ Db!Sorted(ix)
  BY SameSets, SameIndex
<1>2. /\ Db!DeleteIndex(ix, k) \in Seq(Db!Entries(Accts))
      /\ Db!Sorted(Db!DeleteIndex(ix, k))
      /\ Db!LiveEntries(Db!DeleteIndex(ix, k)) \subseteq Db!LiveEntries(ix)
  BY <1>1, Db!DeleteIndexTable, DbAssumptions
<1>. QED
  BY <1>2, SameSets, SameIndex

(* add_record and delete_record.                                           *)
LEMMA AddsRecord ==
  ASSUME NEW f \in Files(Accts, Balances), Db!Linked(f),
         NEW b \in Buffers(Accts, Balances)
  PROVE  LET g == AddRecord(f, b)
         IN  /\ g \in Files(Accts, Balances)
             /\ Db!Linked(g)
             /\ NextRecno(f) \in DOMAIN g.recs
             /\ DOMAIN g.recs = DOMAIN f.recs \cup {NextRecno(f)}
             /\ g.recs[NextRecno(f)] = Occupied(b)
             /\ \A r \in DOMAIN f.recs \ {NextRecno(f)} : g.recs[r] = f.recs[r]
<1> DEFINE g == Db!AddRecord(f, b)
           n == Db!NextRecno(f)
<1>1. f \in Db!Files(Accts, Balances) /\ b \in Db!Buffers(Accts, Balances)
  BY SameSets
<1>2. /\ g \in Db!Files(Accts, Balances)
      /\ Db!Linked(g)
      /\ n \in DOMAIN g.recs
      /\ DOMAIN g.recs = DOMAIN f.recs \cup {n}
      /\ g.recs[n] = Db!Occupied(b)
      /\ \A r \in DOMAIN f.recs \ {n} : g.recs[r] = f.recs[r]
  BY <1>1, Db!AddRecordFile, DbAssumptions
<1>3. g = AddRecord(f, b) /\ n = NextRecno(f) /\ Db!Occupied(b) = Occupied(b)
  BY SameFile
<1> HIDE DEF g, n
<1>. QED
  BY <1>2, <1>3, SameSets

LEMMA DeletesRecord ==
  ASSUME NEW f \in Files(Accts, Balances), Db!Linked(f), NEW n \in DOMAIN f.recs
  PROVE  /\ MarkFree(f, n) \in Files(Accts, Balances)
         /\ Db!Linked(MarkFree(f, n))
         /\ DOMAIN MarkFree(f, n).recs = DOMAIN f.recs
         /\ DeleteRecord(f, n) \in Files(Accts, Balances)
         /\ Db!Linked(DeleteRecord(f, n))
         /\ DOMAIN DeleteRecord(f, n).recs = DOMAIN f.recs
<1> DEFINE m == Db!MarkFree(f, n)
           d == Db!DeleteRecord(f, n)
<1>1. f \in Db!Files(Accts, Balances)
  BY SameSets
<1>2. /\ m \in Db!Files(Accts, Balances) /\ Db!Linked(m)
      /\ DOMAIN m.recs = DOMAIN f.recs
      /\ d \in Db!Files(Accts, Balances) /\ Db!Linked(d)
      /\ DOMAIN d.recs = DOMAIN f.recs
  BY <1>1, Db!DeleteRecordFile, DbAssumptions
<1>3. m = MarkFree(f, n) /\ d = DeleteRecord(f, n)
  BY SameFile
<1> HIDE DEF m, d
<1>. QED
  BY <1>2, <1>3, SameSets

LEMMA FieldsOfFile ==
  ASSUME NEW f \in Files(Accts, Balances)
  PROVE  /\ f.recs \in Seq(Records(Accts, Balances))
         /\ f.free_recno \in Nat
         /\ DOMAIN f.recs = 1 .. Len(f.recs) /\ Len(f.recs) \in Nat
         /\ 0 \notin DOMAIN f.recs
         /\ \A r \in DOMAIN f.recs :
               /\ f.recs[r] \in Records(Accts, Balances)
               /\ f.recs[r].next_recno \in Nat
               /\ f.recs[r].buf \in Buffers(Accts, Balances)
               /\ f.recs[r].buf.key \in Accts
               /\ f.recs[r].buf.val \in Balances
<1>1. /\ f.free_recno \in Nat
      /\ f.recs \in Seq(Records(Accts, Balances))
      /\ Len(f.recs) \in Nat
      /\ DOMAIN f.recs = 1 .. Len(f.recs)
      /\ \A r \in 1 .. Len(f.recs) : /\ f.recs[r] \in Records(Accts, Balances)
                                     /\ f.recs[r].next_recno \in Nat
                                     /\ f.recs[r].buf \in Buffers(Accts, Balances)
  BY Db!FileFields, DbAssumptions, SameSets
<1>. QED
  BY <1>1 DEF Buffers

(* put_record.                                                             *)
LEMMA PutsRecord ==
  ASSUME NEW f \in Files(Accts, Balances), Db!Linked(f), NEW n \in DOMAIN f.recs,
         NEW b \in Buffers(Accts, Balances)
  PROVE  LET g == PutRecord(f, n, b)
         IN  /\ g \in Files(Accts, Balances)
             /\ Db!Linked(g)
             /\ g.free_recno = f.free_recno
             /\ DOMAIN g.recs = DOMAIN f.recs
             /\ g.recs[n].buf = b
             /\ \A r \in DOMAIN f.recs \ {n} : g.recs[r] = f.recs[r]
<1> DEFINE g   == PutRecord(f, n, b)
           rec == [f.recs[n] EXCEPT !.buf = b]
           rs  == [f.recs EXCEPT ![n] = rec]
<1>1. /\ rec \in Records(Accts, Balances) /\ rec.buf = b
      /\ rec.next_recno = f.recs[n].next_recno
  <2>1. f.recs[n] \in Records(Accts, Balances)
    BY FieldsOfFile
  <2>. QED
    BY <2>1 DEF Records
<1>2. g = [f EXCEPT !.recs = rs]
  BY DEF PutRecord
<1> HIDE DEF rec
<1>3. /\ rs \in Seq(Records(Accts, Balances)) /\ DOMAIN rs = DOMAIN f.recs
      /\ rs[n] = rec /\ \A r \in DOMAIN f.recs \ {n} : rs[r] = f.recs[r]
  BY <1>1, FieldsOfFile
<1> HIDE DEF rs
<1>4. g.recs = rs /\ g.free_recno = f.free_recno /\ g \in Files(Accts, Balances)
  BY <1>2, <1>3 DEF Files
<1>5. Db!Linked(g)
  BY <1>1, <1>3, <1>4 DEF Db!Linked
<1>. QED
  BY <1>1, <1>3, <1>4, <1>5
-----------------------------------------------------------------------------
(* Type correctness.  The index is sorted and its entries in use name      *)
(* records of the file; so do the calls a handler has still to make, and   *)
(* an insertion comes first, of an account that is not there.              *)
CustomerOK ==
  /\ customer \in Files(Accts, Balances) /\ Db!Linked(customer)
  /\ cindex \in Seq(Entries(Accts)) /\ Sorted(cindex)
  /\ \A e \in Db!LiveEntries(cindex) : e.recno \in DOMAIN customer.recs

Pending(f, ix, calls) ==
  \A i \in DOMAIN calls :
    /\ calls[i].call = "insert" =>
         i = 1 /\ \A e \in Db!LiveEntries(ix) : e.key # calls[i].acct
    /\ calls[i].call \in {"put", "delete"} => calls[i].recno \in DOMAIN f.recs

BackendInv == TypeOK /\ CustomerOK /\ Pending(customer, cindex, todo)

LEMMA CallFields ==
  ASSUME NEW c \in Calls
  PROVE  /\ c.call \in {"put", "insert", "delete", "log"}
         /\ c.call = "put"    => c.recno \in Nat \ {0} /\ c.bal \in Balances
         /\ c.call = "insert" => c.acct \in Accts
         /\ c.call = "delete" => c.recno \in Nat \ {0}
         /\ c.call = "log"    => c.area \in Areas
  BY DEF Calls

(* What db_obtain finds.                                                   *)
LEMMA FoundRecord ==
  ASSUME CustomerOK, NEW a \in Accts
  PROVE  /\ Recno(a) \in Nat
         /\ Found(a) => /\ Recno(a) \in DOMAIN customer.recs
                        /\ Recno(a) \in Nat \ {0}
                        /\ Held(a).key \in Accts /\ Held(a).val \in Balances
                        /\ \E e \in Db!LiveEntries(cindex) :
                              e.key = a /\ e.recno = Recno(a)
         /\ ~Found(a) => \A e \in Db!LiveEntries(cindex) : e.key # a
<1>1. /\ \A e \in Db!LiveEntries(cindex) : e.key = a => Recno(a) = e.recno
      /\ (\A e \in Db!LiveEntries(cindex) : e.key # a) => Recno(a) = 0
      /\ Recno(a) \in Nat
  BY Gets DEF CustomerOK, Recno
<1>2. \A r \in DOMAIN customer.recs :
        /\ r # 0
        /\ customer.recs[r].buf.key \in Accts
        /\ customer.recs[r].buf.val \in Balances
  BY FieldsOfFile DEF CustomerOK
<1>. QED
  BY <1>1, <1>2 DEF CustomerOK, Found, Held, GetRecord

LEMMA BackendInit == Init => BackendInv
<1> SUFFICES ASSUME Init
             PROVE  BackendInv
  OBVIOUS
<1>1. customer \in Files(Accts, Balances) /\ cindex \in Seq(Entries(Accts))
  BY DEF Init, EmptyFile, EmptyIndex, Files
<1>2. TypeOK
  BY <1>1, MaxBalAssumption
  DEF Init, TypeOK, NoArea, Area, Areas, Balances, Says, Codes
<1>3. CustomerOK
  <2>1. Db!LiveEntries(cindex) = {}
    BY DEF Init, EmptyIndex, Db!LiveEntries, Db!Live
  <2>2. Db!Linked(customer) /\ Sorted(cindex)
    BY DEF Init, EmptyFile, EmptyIndex, Db!Linked, Sorted
  <2>. QED
    BY <1>1, <2>1, <2>2 DEF CustomerOK
<1>. QED
  BY <1>2, <1>3 DEF BackendInv, Pending, Init

LEMMA Decides ==
  ASSUME BackendInv, NEW r \in Requests, NEW answer, NEW calls,
         Decide(r, answer, calls),
         answer \in [code : Codes, bals : Seq(Balances)],
         calls \in Seq(Calls), Pending(customer, cindex, calls)
  PROVE  BackendInv'
  BY DEF Decide, disk, BackendInv, TypeOK, CustomerOK, Pending

LEMMA Dies ==
  ASSUME BackendInv, Die
  PROVE  BackendInv'
  BY MaxBalAssumption
  DEF Die, disk, BackendInv, TypeOK, CustomerOK, Pending, NoArea, Area, Areas,
      Balances, Says, Codes

(* The answers.                                                            *)
LEMMA Answers ==
  /\ \A c \in Codes : Says(c) \in [code : Codes, bals : Seq(Balances)]
  /\ \A c \in Codes, b \in Balances :
       Says1(c, b) \in [code : Codes, bals : Seq(Balances)]
  /\ \A c \in Codes, b, d \in Balances :
       Says2(c, b, d) \in [code : Codes, bals : Seq(Balances)]
  BY DEF Says, Says1, Says2

LEMMA CodesOfAnswers ==
  {OK, SYSERR, DUP, REC1ERR, BALERR, REC2ERR, PWERR, NoCode} \subseteq Codes
  BY DEF Codes

LEMMA NoCalls == << >> \in Seq(Calls) /\ Pending(customer, cindex, << >>)
  BY DEF Pending

(* A balance, and an area of the log, fit their fields.                    *)
LEMMA AreaTyped ==
  ASSUME NEW t \in {"0", "1", "2", "3", "4", "5", "6"}, NEW a \in Accts,
         NEW n \in Nat, NEW b \in Balances
  PROVE  Area(t, a, n, b) \in Areas
  BY DEF Area, Areas

LEMMA BalanceFits ==
  ASSUME NEW b \in Balances, NEW n \in Nat
  PROVE  /\ b + n <= MaxBal => b + n \in Balances
         /\ b - n >= 0 => b - n \in Balances
  BY MaxBalAssumption DEF Balances

LEMMA PutThenLog ==
  ASSUME NEW n \in DOMAIN customer.recs, n \in Nat \ {0}, NEW b \in Balances,
         NEW area \in Areas
  PROVE  /\ <<Put(n, b), Log(area)>> \in Seq(Calls)
         /\ Pending(customer, cindex, <<Put(n, b), Log(area)>>)
<1>1. Put(n, b) \in Calls /\ Log(area) \in Calls
  BY DEF Put, Log, Calls
<1>. QED
  BY <1>1 DEF Pending, Put, Log

LEMMA DeleteThenLog ==
  ASSUME NEW n \in DOMAIN customer.recs, n \in Nat \ {0}, NEW area \in Areas
  PROVE  /\ <<Delete(n), Log(area)>> \in Seq(Calls)
         /\ Pending(customer, cindex, <<Delete(n), Log(area)>>)
<1>1. Delete(n) \in Calls /\ Log(area) \in Calls
  BY DEF Delete, Log, Calls
<1>. QED
  BY <1>1 DEF Pending, Delete, Log

LEMMA PutPutLogLog ==
  ASSUME NEW n \in DOMAIN customer.recs, n \in Nat \ {0}, NEW b \in Balances,
         NEW m \in DOMAIN customer.recs, m \in Nat \ {0}, NEW d \in Balances,
         NEW area \in Areas, NEW area2 \in Areas
  PROVE  /\ <<Put(n, b), Put(m, d), Log(area), Log(area2)>> \in Seq(Calls)
         /\ Pending(customer, cindex, <<Put(n, b), Put(m, d), Log(area), Log(area2)>>)
<1>1. /\ Put(n, b) \in Calls /\ Put(m, d) \in Calls
      /\ Log(area) \in Calls /\ Log(area2) \in Calls
  BY DEF Put, Log, Calls
<1>. QED
  BY <1>1 DEF Pending, Put, Log
-----------------------------------------------------------------------------
(* A handler decides.                                                      *)
LEMMA Serves ==
  ASSUME BackendInv, NEW r \in Requests, Serve(r)
  PROVE  BackendInv'
<1> USE Decides, Dies, Answers, CodesOfAnswers, NoCalls
<1> DEFINE cust == Held(r.acct)
<1>0. CustomerOK /\ message \in [code : Codes, bals : Seq(Balances)] /\ tran \in Areas
  BY DEF BackendInv, TypeOK
<1>a. ASSUME r.acct \in Accts, Found(r.acct)
      PROVE  /\ Recno(r.acct) \in DOMAIN customer.recs
             /\ Recno(r.acct) \in Nat \ {0}
             /\ cust.key \in Accts /\ cust.val \in Balances
  BY <1>0, <1>a, FoundRecord
<1>1. CASE r.mtype = OPER /\ CheckPasswd(r)
  BY <1>1 DEF CheckPasswd
<1>2. CASE r.mtype = OPEN /\ OpenAcct(r)
  <2>1. r.acct \in Accts
    BY <1>2, RequestsAssumption
  <2>2. CASE Found(r.acct)
    BY <1>2, <2>2 DEF OpenAcct
  <2>3. CASE ~Found(r.acct)
    <3> DEFINE calls == <<Insert(r.acct), Log(Area("1", r.acct, 0, 0))>>
    <3>1. Decide(r, Says(OK), calls)
      BY <1>2, <2>3 DEF OpenAcct
    <3>2. \A e \in Db!LiveEntries(cindex) : e.key # r.acct
      BY <1>0, <2>1, <2>3, FoundRecord
    <3>3. Insert(r.acct) \in Calls
      BY <2>1 DEF Insert, Calls
    <3>4. Log(Area("1", r.acct, 0, 0)) \in Calls
      <4>1. 0 \in Balances
        BY MaxBalAssumption DEF Balances
      <4>2. Area("1", r.acct, 0, 0) \in Areas
        BY <2>1, <4>1, AreaTyped
      <4>. QED
        BY <4>2 DEF Log, Calls
    <3>5. calls \in Seq(Calls)
      BY <3>3, <3>4
    <3>6. Pending(customer, cindex, calls)
      BY <3>2 DEF Pending, Insert, Log
    <3>. QED
      BY <3>1, <3>5, <3>6
  <2>. QED
    BY <2>2, <2>3
<1>3. CASE r.mtype = AINQ /\ AcctInq(r)
  <2>1. r.acct \in Accts
    BY <1>3, RequestsAssumption
  <2>2. CASE Found(r.acct)
    <3> DEFINE calls == <<Log([tran EXCEPT !.tran_type = "2"])>>
    <3>1. Decide(r, Says1(OK, cust.val), calls)
      BY <1>3, <2>2 DEF AcctInq
    <3>2. [tran EXCEPT !.tran_type = "2"] \in Areas
      BY <1>0 DEF Areas
    <3>3. calls \in Seq(Calls)
      BY <3>2 DEF Log, Calls
    <3>4. Pending(customer, cindex, calls)
      BY DEF Pending, Log
    <3>. QED
      BY <1>a, <2>1, <2>2, <3>1, <3>3, <3>4
  <2>3. CASE ~Found(r.acct)
    BY <1>3, <2>3 DEF AcctInq
  <2>. QED
    BY <2>2, <2>3
<1>4. CASE r.mtype = ADEP /\ Deposit(r)
  <2>1. r.acct \in Accts /\ r.amount \in Nat
    BY <1>4, RequestsAssumption
  <2> DEFINE bal   == cust.val + r.amount
             calls == <<Put(Recno(r.acct), bal),
                        Log(Area("3", cust.key, r.amount, bal))>>
  <2>2. CASE Found(r.acct) /\ bal <= MaxBal /\ Decide(r, Says1(OK, bal), calls)
    <3>1. bal \in Balances
      BY <1>a, <2>1, <2>2, BalanceFits
    <3>2. Area("3", cust.key, r.amount, bal) \in Areas
      BY <1>a, <2>1, <2>2, <3>1, AreaTyped
    <3>. QED
      BY <1>a, <2>1, <2>2, <3>1, <3>2, PutThenLog
  <2>3. CASE Die \/ Decide(r, Says(REC1ERR), << >>)
    BY <2>3
  <2>. QED
    BY <1>4, <2>2, <2>3 DEF Deposit
<1>5. CASE r.mtype = ACWD /\ Withdraw(r)
  <2>1. r.acct \in Accts /\ r.amount \in Nat
    BY <1>5, RequestsAssumption
  <2> DEFINE bal   == cust.val - r.amount
             calls == <<Put(Recno(r.acct), bal),
                        Log(Area("4", cust.key, r.amount, bal))>>
  <2>2. CASE Found(r.acct) /\ bal >= 0 /\ Decide(r, Says1(OK, bal), calls)
    <3>1. bal \in Balances
      BY <1>a, <2>1, <2>2, BalanceFits
    <3>2. Area("4", cust.key, r.amount, bal) \in Areas
      BY <1>a, <2>1, <2>2, <3>1, AreaTyped
    <3>. QED
      BY <1>a, <2>1, <2>2, <3>1, <3>2, PutThenLog
  <2>3. CASE Found(r.acct) /\ Decide(r, Says1(BALERR, cust.val), << >>)
    BY <1>a, <2>1, <2>3
  <2>4. CASE Die \/ Decide(r, Says(REC1ERR), << >>) \/ Decide(r, message, << >>)
    BY <1>0, <2>4
  <2>. QED
    BY <1>5, <2>2, <2>3, <2>4 DEF Withdraw
<1>6. CASE r.mtype = ATFR /\ Transfer(r)
  <2> DEFINE cust2 == Held(r.to)
             bal1  == cust.val - r.amount
             bal2  == cust2.val + r.amount
             area1 == Area("5", cust.key, r.amount, bal1)
             area2 == Area("5", cust2.key, r.amount, bal2)
             calls == <<Put(Recno(r.to), bal2), Put(Recno(r.acct), bal1),
                        Log(area1), Log(area2)>>
  <2>1. r.acct \in Accts /\ r.amount \in Nat /\ r.to \in Accts
    BY <1>6, RequestsAssumption
  <2>2. CASE /\ Found(r.acct) /\ Found(r.to) /\ bal1 >= 0 /\ bal2 <= MaxBal
             /\ Decide(r, Says2(OK, bal1, bal2), calls)
    <3>1. /\ Recno(r.to) \in DOMAIN customer.recs /\ Recno(r.to) \in Nat \ {0}
          /\ cust2.key \in Accts /\ cust2.val \in Balances
      BY <1>0, <2>1, <2>2, FoundRecord
    <3>2. bal1 \in Balances /\ bal2 \in Balances
      BY <1>a, <2>1, <2>2, <3>1, BalanceFits
    <3>3. area1 \in Areas /\ area2 \in Areas
      BY <1>a, <2>1, <2>2, <3>1, <3>2, AreaTyped
    <3> HIDE DEF area1, area2, bal1, bal2
    <3>4. calls \in Seq(Calls) /\ Pending(customer, cindex, calls)
      BY <1>a, <2>1, <2>2, <3>1, <3>2, <3>3, PutPutLogLog
    <3> HIDE DEF calls
    <3>. QED
      BY <2>2, <3>2, <3>4
  <2>3. CASE Found(r.acct) /\ Decide(r, Says1(BALERR, cust.val), << >>)
    BY <1>a, <2>1, <2>3
  <2>4. CASE Die \/ Decide(r, Says(REC1ERR), << >>) \/ Decide(r, Says(REC2ERR), << >>)
    BY <2>4
  <2>. QED
    BY <1>6, <2>2, <2>3, <2>4 DEF Transfer
<1>7. CASE r.mtype = CLOS /\ CloseAcct(r)
  <2>1. r.acct \in Accts
    BY <1>7, RequestsAssumption
  <2> DEFINE calls == <<Delete(Recno(r.acct)), Log(Area("6", cust.key, 0, cust.val))>>
  <2>2. CASE Found(r.acct) /\ Decide(r, Says1(OK, cust.val), calls)
    <3>1. Area("6", cust.key, 0, cust.val) \in Areas
      BY <1>a, <2>1, <2>2, AreaTyped
    <3>2. calls \in Seq(Calls) /\ Pending(customer, cindex, calls)
      BY <1>a, <2>1, <2>2, <3>1, DeleteThenLog
    <3>. QED
      BY <1>a, <2>1, <2>2, <3>2
  <2>3. CASE Decide(r, Says(REC1ERR), << >>)
    BY <2>3
  <2>. QED
    BY <1>7, <2>2, <2>3 DEF CloseAcct
<1>. QED
  BY <1>1, <1>2, <1>3, <1>4, <1>5, <1>6, <1>7 DEF Serve
-----------------------------------------------------------------------------
(* The calls behind the first one.                                         *)
LEMMA RestOfCalls ==
  ASSUME NEW calls \in Seq(Calls), calls # << >>
  PROVE  /\ Head(calls) \in Calls /\ Head(calls) = calls[1] /\ 1 \in DOMAIN calls
         /\ Tail(calls) \in Seq(Calls)
         /\ \A i \in DOMAIN Tail(calls) :
               /\ i + 1 \in DOMAIN calls /\ i + 1 # 1 /\ i \in Nat \ {0}
               /\ Tail(calls)[i] = calls[i + 1]
  OBVIOUS

(* They hold nothing but calls on records that stay in the file.           *)
LEMMA PendingRest ==
  ASSUME NEW f, NEW ix, NEW g, NEW ix2, NEW calls \in Seq(Calls), calls # << >>,
         Pending(f, ix, calls), DOMAIN f.recs \subseteq DOMAIN g.recs
  PROVE  /\ Pending(g, ix2, Tail(calls))
         /\ \A i \in DOMAIN Tail(calls) : Tail(calls)[i].call # "insert"
<1>1. \A i \in DOMAIN Tail(calls) : Tail(calls)[i].call # "insert"
  BY RestOfCalls DEF Pending
<1>2. \A i \in DOMAIN Tail(calls) : Tail(calls)[i].call \in {"put", "delete"}
         => Tail(calls)[i].recno \in DOMAIN g.recs
  BY RestOfCalls DEF Pending
<1>. QED
  BY <1>1, <1>2 DEF Pending

LEMMA FirstCall ==
  ASSUME BackendInv, NEW name, Call(name)
  PROVE  /\ proc = "busy" /\ todo # << >> /\ Head(todo).call = name
         /\ Head(todo) \in Calls /\ todo' = Tail(todo) /\ todo' \in Seq(Calls)
         /\ UNCHANGED <<today, kills, req, message>>
         /\ name = "insert" => \A e \in Db!LiveEntries(cindex) : e.key # Head(todo).acct
         /\ name \in {"put", "delete"} => Head(todo).recno \in DOMAIN customer.recs
<1>1. /\ proc = "busy" /\ todo # << >> /\ Head(todo).call = name
      /\ todo' = Tail(todo) /\ UNCHANGED <<today, kills, req, message>>
  BY DEF Call
<1>2. todo \in Seq(Calls) /\ Pending(customer, cindex, todo)
  BY DEF BackendInv, TypeOK
<1>3. Head(todo) \in Calls /\ Head(todo) = todo[1] /\ 1 \in DOMAIN todo /\ Tail(todo) \in Seq(Calls)
  BY <1>1, <1>2, RestOfCalls
<1>. QED
  BY <1>1, <1>2, <1>3 DEF Pending

LEMMA PutCalled ==
  ASSUME BackendInv, CallPut
  PROVE  /\ BackendInv'
         /\ LET n == Head(todo).recno
            IN  /\ n \in DOMAIN customer.recs
                /\ DOMAIN customer'.recs = DOMAIN customer.recs
                /\ customer'.recs[n].buf.key = customer.recs[n].buf.key
                /\ customer'.recs[n].buf.val = Head(todo).bal
                /\ \A r \in DOMAIN customer.recs \ {n} :
                      customer'.recs[r] = customer.recs[r]
                /\ customer'.free_recno = customer.free_recno
<1> DEFINE c == Head(todo)
           b == [key |-> GetRecord(customer, c.recno).key, val |-> c.bal]
<1>1. /\ Call("put") /\ customer' = PutRecord(customer, c.recno, b)
      /\ UNCHANGED <<cindex, tran_log, seq, tran, proc>>
  BY DEF CallPut
<1>2. /\ c \in Calls /\ c.call = "put" /\ c.recno \in DOMAIN customer.recs
      /\ todo # << >> /\ todo' = Tail(todo) /\ todo' \in Seq(Calls)
      /\ UNCHANGED <<today, kills, req, message>>
  BY <1>1, FirstCall
<1>3. CustomerOK /\ TypeOK /\ Pending(customer, cindex, todo) /\ todo \in Seq(Calls)
  BY DEF BackendInv, TypeOK
<1>4. b \in Buffers(Accts, Balances)
  BY <1>2, <1>3, CallFields, FieldsOfFile DEF Buffers, GetRecord, CustomerOK
<1>5. b.key = customer.recs[c.recno].buf.key /\ b.val = c.bal
  BY DEF GetRecord
<1> HIDE DEF c, b
<1>6. /\ customer' \in Files(Accts, Balances) /\ Db!Linked(customer')
      /\ customer'.free_recno = customer.free_recno
      /\ DOMAIN customer'.recs = DOMAIN customer.recs
      /\ customer'.recs[c.recno].buf = b
      /\ \A r \in DOMAIN customer.recs \ {c.recno} : customer'.recs[r] = customer.recs[r]
  BY <1>1, <1>2, <1>3, <1>4, PutsRecord DEF CustomerOK
<1>7. CustomerOK'
  BY <1>1, <1>3, <1>6 DEF CustomerOK, Db!LiveEntries, Db!Live
<1>8. Pending(customer', cindex', todo')
  BY <1>2, <1>3, <1>6, PendingRest
<1>9. TypeOK'
  BY <1>1, <1>2, <1>3, <1>6 DEF TypeOK
<1>. QED
  BY <1>2, <1>5, <1>6, <1>7, <1>8, <1>9 DEF BackendInv, c

LEMMA InsertCalled ==
  ASSUME BackendInv, CallInsert
  PROVE  BackendInv'
<1> DEFINE acct == Head(todo).acct
           b == [key |-> acct, val |-> 0]
           n == NextRecno(customer)
<1>1. /\ Call("insert") /\ customer' = AddRecord(customer, b)
      /\ cindex' = AddIndex(cindex, n, acct)
      /\ UNCHANGED <<tran_log, seq, tran, proc>>
  BY DEF CallInsert
<1>2. /\ acct \in Accts /\ \A e \in Db!LiveEntries(cindex) : e.key # acct
      /\ todo # << >> /\ todo' = Tail(todo) /\ todo' \in Seq(Calls)
      /\ UNCHANGED <<today, kills, req, message>>
  BY <1>1, FirstCall, CallFields
<1>3. CustomerOK /\ TypeOK /\ Pending(customer, cindex, todo) /\ todo \in Seq(Calls)
  BY DEF BackendInv, TypeOK
<1>4. b \in Buffers(Accts, Balances)
  BY <1>2, MaxBalAssumption DEF Buffers, Balances
<1> HIDE DEF acct, b, n
<1>5. /\ customer' \in Files(Accts, Balances) /\ Db!Linked(customer')
      /\ DOMAIN customer'.recs = DOMAIN customer.recs \cup {n}
  BY <1>1, <1>3, <1>4, AddsRecord DEF CustomerOK, n
<1>6. n \in Nat
  BY <1>5, <1>3, FieldsOfFile DEF n, NextRecno, NewRecno, CustomerOK
<1>7. /\ cindex' \in Seq(Entries(Accts)) /\ Sorted(cindex')
      /\ Db!LiveEntries(cindex')
           = Db!LiveEntries(cindex) \cup {[status |-> OCCUPIED, recno |-> n, key |-> acct]}
  BY <1>1, <1>2, <1>3, <1>6, AddsEntry DEF CustomerOK
<1>8. CustomerOK'
  <2>1. \A e \in Db!LiveEntries(cindex') : e.recno \in DOMAIN customer'.recs
    BY <1>3, <1>5, <1>7 DEF CustomerOK
  <2>2. Db!LiveEntries(cindex') = Db!LiveEntries(cindex)'
    BY DEF Db!LiveEntries, Db!Live
  <2>. QED
    BY <1>5, <1>7, <2>1, <2>2 DEF CustomerOK
<1>9. Pending(customer', cindex', todo')
  BY <1>2, <1>3, <1>5, PendingRest
<1>10. TypeOK'
  BY <1>1, <1>2, <1>3, <1>5, <1>7 DEF TypeOK
<1>. QED
  BY <1>8, <1>9, <1>10 DEF BackendInv

LEMMA DeleteCalled ==
  ASSUME BackendInv, CallDelete
  PROVE  BackendInv'
<1> DEFINE n == Head(todo).recno
           k == GetRecord(customer, n).key
<1>1. /\ Call("delete") /\ cindex' = DeleteIndex(cindex, k)
      /\ customer' \in {DeleteRecord(customer, n), MarkFree(customer, n)}
      /\ proc' \in {"busy", "hung"} /\ UNCHANGED <<tran_log, seq, tran>>
  BY DEF CallDelete
<1>2. /\ n \in DOMAIN customer.recs
      /\ todo # << >> /\ todo' = Tail(todo) /\ todo' \in Seq(Calls)
      /\ UNCHANGED <<today, kills, req, message>>
  BY <1>1, FirstCall
<1>3. CustomerOK /\ TypeOK /\ Pending(customer, cindex, todo) /\ todo \in Seq(Calls)
  BY DEF BackendInv, TypeOK
<1>4. k \in Accts
  BY <1>2, <1>3, FieldsOfFile DEF GetRecord, CustomerOK
<1> HIDE DEF n, k
<1>5. /\ customer' \in Files(Accts, Balances) /\ Db!Linked(customer')
      /\ DOMAIN customer'.recs = DOMAIN customer.recs
  BY <1>1, <1>2, <1>3, DeletesRecord DEF CustomerOK
<1>6. /\ cindex' \in Seq(Entries(Accts)) /\ Sorted(cindex')
      /\ Db!LiveEntries(cindex') \subseteq Db!LiveEntries(cindex)
  BY <1>1, <1>3, <1>4, DeletesEntry DEF CustomerOK
<1>7. CustomerOK'
  <2>1. \A e \in Db!LiveEntries(cindex') : e.recno \in DOMAIN customer'.recs
    BY <1>3, <1>5, <1>6 DEF CustomerOK
  <2>. QED
    BY <1>5, <1>6, <2>1 DEF CustomerOK, Db!LiveEntries, Db!Live
<1>8. Pending(customer', cindex', todo')
  BY <1>2, <1>3, <1>5, PendingRest
<1>9. TypeOK'
  BY <1>1, <1>2, <1>3, <1>5, <1>6 DEF TypeOK
<1>. QED
  BY <1>7, <1>8, <1>9 DEF BackendInv

LEMMA LogCalled ==
  ASSUME BackendInv, CallLog
  PROVE  /\ BackendInv'
         /\ customer' = customer /\ cindex' = cindex
         /\ \A e \in tran_log' \ tran_log : e.area = Head(todo).area
<1> DEFINE area == Head(todo).area
           e == [date |-> today, seq |-> seq, area |-> area]
<1>1. /\ Call("log") /\ tran_log' \in {tran_log, tran_log \cup {e}}
      /\ seq' = seq + 1 /\ tran' = area /\ UNCHANGED <<customer, cindex, proc>>
  BY DEF CallLog, Logged
<1>2. /\ area \in Areas /\ todo # << >> /\ todo' = Tail(todo) /\ todo' \in Seq(Calls)
      /\ UNCHANGED <<today, kills, req, message>>
  BY <1>1, FirstCall, CallFields
<1>3. CustomerOK /\ TypeOK /\ Pending(customer, cindex, todo) /\ todo \in Seq(Calls)
  BY DEF BackendInv, TypeOK
<1>4. e \in [date : Nat, seq : Nat, area : Areas] /\ e.area = area
  BY <1>2, <1>3 DEF TypeOK
<1> HIDE DEF e, area
<1>5. CustomerOK'
  BY <1>1, <1>3 DEF CustomerOK, Db!LiveEntries, Db!Live
<1>6. Pending(customer', cindex', todo')
  BY <1>1, <1>2, <1>3, PendingRest
<1>7. TypeOK'
  BY <1>1, <1>2, <1>3, <1>4 DEF TypeOK
<1>. QED
  BY <1>1, <1>4, <1>5, <1>6, <1>7 DEF BackendInv, area

LEMMA BackendStep == BackendInv /\ [Next]_vars => BackendInv'
<1> SUFFICES ASSUME BackendInv, [Next]_vars
             PROVE  BackendInv'
  OBVIOUS
<1>1. CASE \E r \in Requests : Serve(r)
  BY <1>1, Serves
<1>2. CASE CallPut \/ CallInsert \/ CallDelete \/ CallLog
  BY <1>2, PutCalled, InsertCalled, DeleteCalled, LogCalled
<1>3. CASE Send
  BY <1>3 DEF Send, disk, BackendInv, TypeOK, CustomerOK, Pending
<1>4. CASE Kill
  BY <1>4, Dies DEF Kill
<1>5. CASE Restart
  <2>1. today' \in Nat
    BY <1>5, BoundsAssumption DEF Restart, BackendInv, TypeOK
  <2>. QED
    BY <1>5, <2>1 DEF Restart, disk, BackendInv, TypeOK, CustomerOK, Pending
<1>6. CASE UNCHANGED vars
  BY <1>6 DEF vars, disk, memory, BackendInv, TypeOK, CustomerOK, Pending
<1>. QED
  BY <1>1, <1>2, <1>3, <1>4, <1>5, <1>6 DEF Next, Work

LEMMA BackendInvariant == Spec => []BackendInv
  BY BackendInit, BackendStep, PTL DEF Spec

(* Whatever is requested, deletions and kills included: the files stay     *)
(* well formed, no balance leaves its field, and every call a handler      *)
(* makes is on a record of the file.                                       *)
THEOREM BackendTyped == Spec => []TypeOK
<1>1. BackendInv => TypeOK
  BY DEF BackendInv
<1>. QED
  BY <1>1, BackendInvariant, PTL
-----------------------------------------------------------------------------
(* What the log tells.  Without deletions an entry of the index names the  *)
(* record of its own account; a transfer is between two accounts.          *)
KeepsAccounts ==
  \A r \in Requests : r.mtype # CLOS /\ (r.mtype = ATFR => r.acct # r.to)

OwnRecords(f, ix) ==
  /\ f.free_recno = 0
  /\ \A e \in Db!LiveEntries(ix) : f.recs[e.recno].buf.key = e.key

Telling(c) == c.call = "log" /\ c.area.tran_type \in {"3", "4", "5"}

(* A record still to be logged tells the balance that its account has, or  *)
(* will have by then: all calls before it that write the account write     *)
(* that balance.                                                           *)
Tells(f, ix, calls, i) ==
  LET a   == calls[i].area.acct_no
      bal == calls[i].area.upd_balance
      n   == GetIndex(ix, a)
      Writes == {j \in 1 .. i - 1 : calls[j].call = "put" /\ calls[j].recno = n}
  IN  /\ n # 0
      /\ \A j \in Writes : calls[j].bal = bal
      /\ Writes = {} => GetRecord(f, n).val = bal

Truthful(f, ix, calls) ==
  \A i \in DOMAIN calls :
    /\ calls[i].call # "delete"
    /\ calls[1].call = "insert" => ~Telling(calls[i])
    /\ Telling(calls[i]) => Tells(f, ix, calls, i)

TellInv ==
  BackendInv /\ OwnRecords(customer, cindex) /\ Truthful(customer, cindex, todo)

LEMMA TellInit == Init => TellInv
<1> SUFFICES ASSUME Init
             PROVE  TellInv
  OBVIOUS
<1>1. OwnRecords(customer, cindex)
  BY DEF Init, EmptyFile, EmptyIndex, OwnRecords, Db!LiveEntries, Db!Live
<1>. QED
  BY <1>1, BackendInit DEF TellInv, Truthful, Init

(* What is found under a number is that account's.                         *)
LEMMA OwnRecord ==
  ASSUME CustomerOK, OwnRecords(customer, cindex), NEW a \in Accts, Found(a)
  PROVE  Held(a).key = a
  BY FoundRecord DEF OwnRecords, Held, GetRecord

LEMMA TruthfulPutLog ==
  ASSUME NEW f, NEW ix, NEW a, NEW b, NEW t, NEW m, GetIndex(ix, a) # 0
  PROVE  Truthful(f, ix, <<Put(GetIndex(ix, a), b), Log(Area(t, a, m, b))>>)
<1> DEFINE n     == GetIndex(ix, a)
           calls == <<Put(n, b), Log(Area(t, a, m, b))>>
<1>1. /\ DOMAIN calls = {1, 2}
      /\ calls[1].call = "put" /\ calls[1].recno = n /\ calls[1].bal = b
      /\ calls[2].call = "log" /\ calls[2].area.acct_no = a
      /\ calls[2].area.upd_balance = b
  BY DEF Put, Log, Area
<1> HIDE DEF calls
<1>2. Tells(f, ix, calls, 2)
  <2>1. 1 .. 2 - 1 = {1}
    OBVIOUS
  <2>. QED
    BY <1>1, <2>1 DEF Tells
<1>. QED
  BY <1>1, <1>2 DEF Truthful, Telling, calls

LEMMA TruthfulTransfer ==
  ASSUME NEW f, NEW ix, NEW a, NEW b, NEW c, NEW d, NEW m,
         GetIndex(ix, a) # 0, GetIndex(ix, c) # 0,
         GetIndex(ix, a) # GetIndex(ix, c)
  PROVE  Truthful(f, ix, <<Put(GetIndex(ix, c), d), Put(GetIndex(ix, a), b),
                           Log(Area("5", a, m, b)), Log(Area("5", c, m, d))>>)
<1> DEFINE calls == <<Put(GetIndex(ix, c), d), Put(GetIndex(ix, a), b),
                      Log(Area("5", a, m, b)), Log(Area("5", c, m, d))>>
<1>1. /\ DOMAIN calls = {1, 2, 3, 4}
      /\ calls[1].call = "put" /\ calls[1].recno = GetIndex(ix, c) /\ calls[1].bal = d
      /\ calls[2].call = "put" /\ calls[2].recno = GetIndex(ix, a) /\ calls[2].bal = b
      /\ calls[3].call = "log" /\ calls[3].area.acct_no = a
      /\ calls[3].area.upd_balance = b
      /\ calls[4].call = "log" /\ calls[4].area.acct_no = c
      /\ calls[4].area.upd_balance = d
  BY DEF Put, Log, Area
<1> HIDE DEF calls
<1>2. Tells(f, ix, calls, 3)
  <2>1. 1 .. 3 - 1 = {1, 2}
    OBVIOUS
  <2>. QED
    BY <1>1, <2>1 DEF Tells
<1>3. Tells(f, ix, calls, 4)
  <2>1. 1 .. 4 - 1 = {1, 2, 3}
    OBVIOUS
  <2>. QED
    BY <1>1, <2>1 DEF Tells
<1>. QED
  BY <1>1, <1>2, <1>3 DEF Truthful, Telling, calls
-----------------------------------------------------------------------------
(* The lists of calls the handlers make.                                   *)
Shape(calls) ==
  \/ calls = << >>
  \/ \E a \in Accts : calls = <<Insert(a), Log(Area("1", a, 0, 0))>>
  \/ \E area : area.tran_type = "2" /\ calls = <<Log(area)>>
  \/ \E a \in Accts, t \in {"3", "4"} : \E m, b :
        Found(a) /\ calls = <<Put(Recno(a), b), Log(Area(t, a, m, b))>>
  \/ \E a, c \in Accts : \E m, b, d :
        /\ Found(a) /\ Found(c) /\ a # c
        /\ calls = <<Put(Recno(c), d), Put(Recno(a), b),
                     Log(Area("5", a, m, b)), Log(Area("5", c, m, d))>>

LEMMA Shapes ==
  ASSUME KeepsAccounts, TellInv, NEW r \in Requests, Serve(r)
  PROVE  UNCHANGED <<customer, cindex, tran_log>> /\ Shape(todo')
<1> DEFINE cust == Held(r.acct)
<1>0. CustomerOK /\ OwnRecords(customer, cindex) /\ BackendInv
  BY DEF TellInv, BackendInv
<1>1. \A answer, calls : Decide(r, answer, calls)
         => todo' = calls /\ UNCHANGED <<customer, cindex, tran_log>>
  BY DEF Decide, disk
<1>2. Die => todo' = << >> /\ UNCHANGED <<customer, cindex, tran_log>>
  BY DEF Die, disk
<1>3. Shape(<< >>)
  BY DEF Shape
<1>4. CASE r.mtype = OPER /\ CheckPasswd(r)
  BY <1>1, <1>3, <1>4 DEF CheckPasswd
<1>5. CASE r.mtype = OPEN /\ OpenAcct(r)
  <2>1. r.acct \in Accts
    BY <1>5, RequestsAssumption
  <2>2. Shape(<<Insert(r.acct), Log(Area("1", r.acct, 0, 0))>>)
    BY <2>1 DEF Shape
  <2>. QED
    BY <1>1, <1>3, <1>5, <2>2 DEF OpenAcct
<1>6. CASE r.mtype = AINQ /\ AcctInq(r)
  <2> DEFINE area == [tran EXCEPT !.tran_type = "2"]
  <2>1. area.tran_type = "2"
    BY <1>0 DEF BackendInv, TypeOK, Areas
  <2>2. todo' \in {<< >>, <<Log(area)>>} /\ UNCHANGED <<customer, cindex, tran_log>>
    BY <1>1, <1>6 DEF AcctInq
  <2> HIDE DEF area
  <2>3. Shape(<<Log(area)>>)
    BY <2>1 DEF Shape
  <2>. QED
    BY <1>3, <2>2, <2>3
<1>7. CASE r.mtype \in {ADEP, ACWD} /\ (Deposit(r) \/ Withdraw(r))
  <2>1. r.acct \in Accts
    BY <1>7, RequestsAssumption
  <2>2. Found(r.acct) => cust.key = r.acct
    BY <1>0, <2>1, OwnRecord
  <2>3. \A t \in {"3", "4"} : \A b : Found(r.acct) => Shape(
           <<Put(Recno(r.acct), b), Log(Area(t, cust.key, r.amount, b))>>)
    BY <2>1, <2>2 DEF Shape
  <2>4. CASE Deposit(r)
    BY <1>1, <1>2, <1>3, <2>3, <2>4 DEF Deposit
  <2>5. CASE Withdraw(r)
    BY <1>1, <1>2, <1>3, <2>3, <2>5 DEF Withdraw
  <2>. QED
    BY <1>7, <2>4, <2>5
<1>8. CASE r.mtype = ATFR /\ Transfer(r)
  <2> DEFINE cust2 == Held(r.to)
  <2>1. r.acct \in Accts /\ r.to \in Accts /\ r.acct # r.to
    BY <1>8, RequestsAssumption DEF KeepsAccounts
  <2>2. /\ Found(r.acct) => cust.key = r.acct
        /\ Found(r.to) => cust2.key = r.to
    BY <1>0, <2>1, OwnRecord
  <2>3. \A b, d : Found(r.acct) /\ Found(r.to) => Shape(
           <<Put(Recno(r.to), d), Put(Recno(r.acct), b),
             Log(Area("5", cust.key, r.amount, b)),
             Log(Area("5", cust2.key, r.amount, d))>>)
    BY <2>1, <2>2 DEF Shape
  <2>. QED
    BY <1>1, <1>2, <1>3, <1>8, <2>3 DEF Transfer
<1>9. CASE r.mtype = CLOS
  BY <1>9 DEF KeepsAccounts
<1>. QED
  BY <1>4, <1>5, <1>6, <1>7, <1>8, <1>9 DEF Serve

(* Two accounts have two records.                                          *)
LEMMA TwoRecords ==
  ASSUME CustomerOK, OwnRecords(customer, cindex), NEW a \in Accts, NEW c \in Accts,
         Found(a), Found(c), Recno(a) = Recno(c)
  PROVE  a = c
<1>1. Held(a).key = a /\ Held(c).key = c
  BY OwnRecord
<1>. QED
  BY <1>1 DEF Held

LEMMA ShapeTruthful ==
  ASSUME TellInv, NEW calls, Shape(calls)
  PROVE  Truthful(customer, cindex, calls)
<1>0. CustomerOK /\ OwnRecords(customer, cindex)
  BY DEF TellInv, BackendInv
<1>1. CASE calls = << >>
  BY <1>1 DEF Truthful
<1>2. CASE \E a \in Accts : calls = <<Insert(a), Log(Area("1", a, 0, 0))>>
  BY <1>2 DEF Truthful, Telling, Insert, Log, Area
<1>3. CASE \E area : area.tran_type = "2" /\ calls = <<Log(area)>>
  BY <1>3 DEF Truthful, Telling, Log
<1>4. CASE \E a \in Accts, t \in {"3", "4"} : \E m, b :
             Found(a) /\ calls = <<Put(Recno(a), b), Log(Area(t, a, m, b))>>
  BY <1>4, TruthfulPutLog DEF Found, Recno
<1>5. CASE \E a, c \in Accts : \E m, b, d :
             /\ Found(a) /\ Found(c) /\ a # c
             /\ calls = <<Put(Recno(c), d), Put(Recno(a), b),
                          Log(Area("5", a, m, b)), Log(Area("5", c, m, d))>>
  <2>0. PICK a \in Accts, c \in Accts : \E m, b, d :
             /\ Found(a) /\ Found(c) /\ a # c
             /\ calls = <<Put(Recno(c), d), Put(Recno(a), b),
                          Log(Area("5", a, m, b)), Log(Area("5", c, m, d))>>
    BY <1>5
  <2>1. PICK m, b, d :
             /\ Found(a) /\ Found(c) /\ a # c
             /\ calls = <<Put(Recno(c), d), Put(Recno(a), b),
                          Log(Area("5", a, m, b)), Log(Area("5", c, m, d))>>
    BY <2>0
  <2>2. GetIndex(cindex, a) # GetIndex(cindex, c)
    BY <1>0, <2>1, TwoRecords DEF Recno
  <2>. QED
    BY <2>1, <2>2, TruthfulTransfer DEF Found, Recno
<1>. QED
  BY <1>1, <1>2, <1>3, <1>4, <1>5 DEF Shape

LEMMA ServesTruly ==
  ASSUME KeepsAccounts, TellInv, NEW r \in Requests, Serve(r)
  PROVE  UNCHANGED <<customer, cindex, tran_log>> /\ Truthful(customer, cindex, todo')
  BY Shapes, ShapeTruthful

LEMMA FoundInside ==
  ASSUME CustomerOK, NEW a
  PROVE  GetIndex(cindex, a) \in {0} \cup DOMAIN customer.recs
<1> SUFFICES ASSUME \E i \in Live(cindex) : cindex[i].key = a
             PROVE  GetIndex(cindex, a) \in DOMAIN customer.recs
  BY DEF GetIndex
<1>1. PICK i \in Live(cindex) : GetIndex(cindex, a) = cindex[i].recno
  BY DEF GetIndex
<1>. QED
  BY <1>1, SameIndex DEF CustomerOK, Db!LiveEntries

(* After the first call the others tell as before of the file it leaves,   *)
(* if it writes the balance it says and no other record.                   *)
LEMMA TellsOn ==
  ASSUME NEW f, NEW g, NEW ix, NEW calls \in Seq(Calls), calls # << >>,
         Truthful(f, ix, calls),
         Pending(f, ix, calls),
         \A a : GetIndex(ix, a) \in {0} \cup DOMAIN f.recs,
         \/ Head(calls).call = "log" /\ g = f
         \/ /\ Head(calls).call = "put"
            /\ GetRecord(g, Head(calls).recno).val = Head(calls).bal
            /\ \A n \in DOMAIN f.recs \ {Head(calls).recno} :
                  GetRecord(g, n) = GetRecord(f, n)
  PROVE  Truthful(g, ix, Tail(calls))
<1> DEFINE rest == Tail(calls)
           head == Head(calls)
<1>1. /\ head = calls[1] /\ 1 \in DOMAIN calls
      /\ \A i \in DOMAIN rest : /\ i + 1 \in DOMAIN calls /\ i \in Nat \ {0}
                                /\ rest[i] = calls[i + 1]
  BY RestOfCalls
<1>2. \A i \in DOMAIN rest : rest[i].call \notin {"insert", "delete"}
  BY <1>1 DEF Pending, Truthful
<1>3. ASSUME NEW i \in DOMAIN rest, Telling(rest[i])
      PROVE  Tells(g, ix, rest, i)
  <2> DEFINE bal == rest[i].area.upd_balance
             n   == GetIndex(ix, rest[i].area.acct_no)
             W   == {j \in 1 .. i : calls[j].call = "put" /\ calls[j].recno = n}
             V   == {j \in 1 .. i - 1 : rest[j].call = "put" /\ rest[j].recno = n}
  <2>1. /\ n # 0 /\ n \in DOMAIN f.recs /\ \A j \in W : calls[j].bal = bal
        /\ W = {} => GetRecord(f, n).val = bal
    <3>1. Tells(f, ix, calls, i + 1)
      BY <1>1, <1>3 DEF Truthful
    <3>2. rest[i] = calls[i + 1] /\ (i + 1) - 1 = i
      BY <1>1
    <3>. QED
      BY <3>1, <3>2 DEF Tells
  <2>2. DOMAIN rest = 1 .. Len(rest) /\ Len(rest) \in Nat
    BY RestOfCalls
  <2>3. \A j \in V : j + 1 \in W /\ rest[j].bal = calls[j + 1].bal
    BY <1>1, <2>2
  <2>4. \A j \in W : j # 1 => j - 1 \in V
    <3> SUFFICES ASSUME NEW j \in W, j # 1
                 PROVE  j - 1 \in V
      OBVIOUS
    <3>1. j - 1 \in 1 .. i - 1 /\ j - 1 \in DOMAIN rest
      BY <1>1, <2>2
    <3>. QED
      BY <1>1, <3>1
  <2>5. 1 \in W <=> head.call = "put" /\ head.recno = n
    BY <1>1
  <2> HIDE DEF W, V, n, bal
  <2>6. V = {} => GetRecord(g, n).val = bal
    <3>1. CASE 1 \in W
      BY <1>1, <2>1, <2>5, <3>1
    <3>2. CASE 1 \notin W
      BY <2>1, <2>4, <2>5, <3>2
    <3>. QED
      BY <3>1, <3>2
  <2>7. \A j \in V : rest[j].bal = bal
    BY <2>1, <2>3
  <2>. QED
    BY <2>1, <2>6, <2>7 DEF Tells, V, n, bal
<1>4. \A i \in DOMAIN rest : 1 \in DOMAIN rest
  <2>1. DOMAIN rest = 1 .. Len(rest) /\ Len(rest) \in Nat
    BY RestOfCalls
  <2>. QED
    BY <2>1
<1> HIDE DEF rest
<1>5. Truthful(g, ix, rest)
  BY <1>2, <1>3, <1>4 DEF Truthful
<1>. QED
  BY <1>5 DEF rest
-----------------------------------------------------------------------------
LEMMA PutTruly ==
  ASSUME TellInv, CallPut
  PROVE  OwnRecords(customer', cindex') /\ Truthful(customer', cindex', todo')
<1> DEFINE n == Head(todo).recno
<1>0. /\ BackendInv /\ CustomerOK /\ OwnRecords(customer, cindex)
      /\ Truthful(customer, cindex, todo) /\ Pending(customer, cindex, todo)
      /\ todo \in Seq(Calls)
  BY DEF TellInv, BackendInv, TypeOK
<1>1. /\ cindex' = cindex /\ todo # << >> /\ todo' = Tail(todo)
      /\ Head(todo).call = "put"
  BY DEF CallPut, Call
<1>2. /\ n \in DOMAIN customer.recs /\ DOMAIN customer'.recs = DOMAIN customer.recs
      /\ customer'.recs[n].buf.key = customer.recs[n].buf.key
      /\ customer'.recs[n].buf.val = Head(todo).bal
      /\ \A r \in DOMAIN customer.recs \ {n} : customer'.recs[r] = customer.recs[r]
      /\ customer'.free_recno = customer.free_recno
  BY <1>0, PutCalled
<1> HIDE DEF n
<1>3. OwnRecords(customer', cindex')
  BY <1>0, <1>1, <1>2 DEF OwnRecords, CustomerOK
<1>4. Truthful(customer', cindex, Tail(todo))
  BY <1>0, <1>1, <1>2, FoundInside, TellsOn DEF GetRecord, n
<1>. QED
  BY <1>1, <1>3, <1>4

LEMMA LogTruly ==
  ASSUME TellInv, CallLog
  PROVE  /\ OwnRecords(customer', cindex') /\ Truthful(customer', cindex', todo')
         /\ \A e \in tran_log' \ tran_log :
               e.area.tran_type \in {"3", "4", "5"} =>
                 /\ Found(e.area.acct_no)
                 /\ e.area.upd_balance = Held(e.area.acct_no).val
<1>0. /\ BackendInv /\ CustomerOK /\ OwnRecords(customer, cindex)
      /\ Truthful(customer, cindex, todo) /\ Pending(customer, cindex, todo)
      /\ todo \in Seq(Calls)
  BY DEF TellInv, BackendInv, TypeOK
<1>1. /\ todo # << >> /\ todo' = Tail(todo) /\ Head(todo).call = "log"
      /\ customer' = customer /\ cindex' = cindex
      /\ \A e \in tran_log' \ tran_log : e.area = Head(todo).area
  BY <1>0, LogCalled DEF CallLog, Call
<1>2. Truthful(customer, cindex, Tail(todo))
  BY <1>0, <1>1, FoundInside, TellsOn
<1>3. Telling(Head(todo)) =>
        /\ Found(Head(todo).area.acct_no)
        /\ Head(todo).area.upd_balance = Held(Head(todo).area.acct_no).val
  <2>1. Head(todo) = todo[1] /\ 1 \in DOMAIN todo
    BY <1>0, <1>1, RestOfCalls
  <2>2. Telling(Head(todo)) => Tells(customer, cindex, todo, 1)
    BY <1>0, <2>1 DEF Truthful
  <2>3. 1 .. 1 - 1 = {}
    OBVIOUS
  <2>. QED
    BY <2>1, <2>2, <2>3 DEF Tells, Found, Held, Recno
<1>. QED
  BY <1>0, <1>1, <1>2, <1>3 DEF Telling

(* What an insertion leaves as it was, and what it adds.                   *)
LEMMA InsertAdds ==
  ASSUME TellInv, CallInsert
  PROVE  LET acct == Head(todo).acct
             n    == NextRecno(customer)
         IN  /\ n \notin DOMAIN customer.recs /\ n \in Nat \ {0}
             /\ customer'.free_recno = 0
             /\ customer'.recs[n].buf = [key |-> acct, val |-> 0]
             /\ \A r \in DOMAIN customer.recs : customer'.recs[r] = customer.recs[r]
             /\ Db!LiveEntries(cindex')
                  = Db!LiveEntries(cindex)
                    \cup {[status |-> OCCUPIED, recno |-> n, key |-> acct]}
<1> DEFINE acct == Head(todo).acct
           b == [key |-> acct, val |-> 0]
           n == NextRecno(customer)
<1>0. BackendInv /\ CustomerOK /\ OwnRecords(customer, cindex)
  BY DEF TellInv, BackendInv
<1>1. /\ Call("insert") /\ customer' = AddRecord(customer, b)
      /\ cindex' = AddIndex(cindex, n, acct)
  BY DEF CallInsert
<1>2. acct \in Accts /\ \A e \in Db!LiveEntries(cindex) : e.key # acct
  BY <1>0, <1>1, FirstCall, CallFields
<1>3. b \in Buffers(Accts, Balances)
  BY <1>2, MaxBalAssumption DEF Buffers, Balances
<1>4. n \notin DOMAIN customer.recs /\ n \in Nat \ {0}
  <2>1. DOMAIN customer.recs = 1 .. Len(customer.recs) /\ Len(customer.recs) \in Nat
    BY <1>0, FieldsOfFile DEF CustomerOK
  <2>. QED
    BY <1>0, <2>1 DEF OwnRecords, NextRecno, NewRecno
<1>5. customer'.free_recno = 0
  BY <1>0, <1>1 DEF AddRecord, OwnRecords
<1> HIDE DEF acct, b, n
<1>6. /\ customer'.recs[n].buf = b
      /\ \A r \in DOMAIN customer.recs : customer'.recs[r] = customer.recs[r]
  <2>1. Occupied(b).buf = b
    BY DEF Occupied
  <2>. QED
    BY <1>0, <1>1, <1>3, <1>4, <2>1, AddsRecord DEF CustomerOK, n
<1>7. Db!LiveEntries(cindex')
        = Db!LiveEntries(cindex) \cup {[status |-> OCCUPIED, recno |-> n, key |-> acct]}
  BY <1>0, <1>1, <1>2, <1>4, AddsEntry DEF CustomerOK
<1>. QED
  BY <1>4, <1>5, <1>6, <1>7 DEF acct, b, n

(* What the accounts hold after a call.                                    *)
LEMMA PutHolds ==
  ASSUME TellInv, CallPut, NEW a \in Accts
  PROVE  /\ Recno(a)' = Recno(a) /\ (Found(a)' <=> Found(a))
         /\ Found(a) /\ Recno(a) = Head(todo).recno => Held(a)'.val = Head(todo).bal
         /\ Found(a) /\ Recno(a) # Head(todo).recno => Held(a)' = Held(a)
<1>1. BackendInv /\ CustomerOK /\ cindex' = cindex
  BY DEF TellInv, BackendInv, CallPut
<1>2. Recno(a)' = Recno(a) /\ (Found(a)' <=> Found(a))
  BY <1>1 DEF Found, Recno
<1>3. Found(a) => Recno(a) \in DOMAIN customer.recs
  BY <1>1, FoundRecord
<1>. QED
  BY <1>1, <1>2, <1>3, PutCalled DEF Held, GetRecord

LEMMA InsertHolds ==
  ASSUME TellInv, CallInsert, NEW acct, acct = Head(todo).acct, NEW a \in Accts
  PROVE  /\ ~Found(acct) /\ Found(acct)' /\ Held(acct)'.val = 0
         /\ a # acct => (Found(a)' <=> Found(a)) /\ (Found(a) => Held(a)' = Held(a))
<1> DEFINE n    == NextRecno(customer)
           new  == [status |-> OCCUPIED, recno |-> n, key |-> acct]
<1>1. BackendInv /\ CustomerOK /\ BackendInv'
  BY InsertCalled DEF TellInv, BackendInv
<1>2. acct \in Accts /\ \A e \in Db!LiveEntries(cindex) : e.key # acct
  BY <1>1, FirstCall, CallFields DEF CallInsert
<1>3. /\ n # 0
      /\ customer'.recs[n].buf = [key |-> acct, val |-> 0]
      /\ \A r \in DOMAIN customer.recs : customer'.recs[r] = customer.recs[r]
      /\ Db!LiveEntries(cindex') = Db!LiveEntries(cindex) \cup {new}
  BY InsertAdds
<1>4. cindex' \in Seq(Entries(Accts)) /\ Sorted(cindex')
  BY <1>1 DEF BackendInv, CustomerOK
<1>5. cindex \in Seq(Entries(Accts)) /\ Sorted(cindex)
  BY <1>1 DEF CustomerOK
<1>6. new.recno = n /\ new.key = acct
  OBVIOUS
<1> HIDE DEF n, new
<1>7. ~Found(acct)
  BY <1>2, <1>5, Gets DEF Found, Recno
<1>8. Recno(acct)' = n
  BY <1>2, <1>3, <1>4, <1>6, Gets DEF Recno
<1>9. Found(acct)' /\ Held(acct)'.val = 0
  BY <1>3, <1>8 DEF Found, Held, GetRecord
<1>10. ASSUME a # acct
       PROVE  Recno(a)' = Recno(a)
  <2>1. \A e : e \in Db!LiveEntries(cindex') /\ e.key = a
               <=> e \in Db!LiveEntries(cindex) /\ e.key = a
    BY <1>3, <1>6, <1>10
  <2>. QED
    BY <1>4, <1>5, <2>1, Gets DEF Recno
<1>11. ASSUME a # acct, Found(a)
       PROVE  Held(a)' = Held(a)
  BY <1>1, <1>3, <1>10, <1>11, FoundRecord DEF Held, GetRecord
<1>. QED
  BY <1>7, <1>9, <1>10, <1>11 DEF Found

LEMMA InsertTruly ==
  ASSUME TellInv, CallInsert
  PROVE  OwnRecords(customer', cindex') /\ Truthful(customer', cindex', todo')
<1> DEFINE acct == Head(todo).acct
           n == NextRecno(customer)
<1>0. /\ BackendInv /\ CustomerOK /\ OwnRecords(customer, cindex)
      /\ Truthful(customer, cindex, todo) /\ Pending(customer, cindex, todo)
      /\ todo \in Seq(Calls)
  BY DEF TellInv, BackendInv, TypeOK
<1>1. todo # << >> /\ todo' = Tail(todo) /\ Head(todo).call = "insert"
  BY <1>0, FirstCall DEF CallInsert
<1>2. /\ customer'.free_recno = 0
      /\ customer'.recs[n].buf.key = acct
      /\ \A r \in DOMAIN customer.recs : customer'.recs[r] = customer.recs[r]
      /\ Db!LiveEntries(cindex')
           = Db!LiveEntries(cindex) \cup {[status |-> OCCUPIED, recno |-> n, key |-> acct]}
  BY InsertAdds
<1> HIDE DEF acct, n
<1>3. OwnRecords(customer', cindex')
  BY <1>0, <1>2 DEF OwnRecords, CustomerOK
<1>4. \A i \in DOMAIN Tail(todo) :
        /\ ~Telling(Tail(todo)[i])
        /\ Tail(todo)[i].call \notin {"insert", "delete"}
  BY <1>0, <1>1, RestOfCalls DEF Truthful, Pending
<1>5. Truthful(customer', cindex', todo')
  BY <1>1, <1>4 DEF Truthful
<1>. QED
  BY <1>3, <1>5

(* What a step adds to the log, and that the invariant is kept.            *)
LEMMA TellStep ==
  ASSUME KeepsAccounts, TellInv, [Next]_vars
  PROVE  /\ TellInv'
         /\ \A e \in tran_log' \ tran_log :
               e.area.tran_type \in {"3", "4", "5"} =>
                 /\ Found(e.area.acct_no)
                 /\ e.area.upd_balance = Held(e.area.acct_no).val
<1>0. /\ BackendInv /\ BackendInv' /\ OwnRecords(customer, cindex)
      /\ Truthful(customer, cindex, todo)
  BY BackendStep DEF TellInv
<1>1. CASE \E r \in Requests : Serve(r)
  BY <1>0, <1>1, ServesTruly DEF TellInv
<1>2. CASE CallPut
  BY <1>0, <1>2, PutTruly DEF TellInv, CallPut
<1>3. CASE CallInsert
  BY <1>0, <1>3, InsertTruly DEF TellInv, CallInsert
<1>4. CASE CallDelete
  <2>1. /\ todo \in Seq(Calls) /\ todo # << >> /\ Head(todo).call = "delete"
    BY <1>0, <1>4 DEF BackendInv, TypeOK, CallDelete, Call
  <2>. QED
    BY <1>0, <2>1, RestOfCalls DEF Truthful
<1>5. CASE CallLog
  BY <1>0, <1>5, LogTruly DEF TellInv
<1>6. CASE Send \/ Restart \/ UNCHANGED vars
  BY <1>0, <1>6 DEF Send, Restart, vars, disk, memory, TellInv
<1>7. CASE Kill
  <2>1. todo' = << >> /\ UNCHANGED disk
    BY <1>7 DEF Kill, Die
  <2>. QED
    BY <1>0, <2>1 DEF disk, TellInv, Truthful
<1>. QED
  BY <1>1, <1>2, <1>3, <1>4, <1>5, <1>6, <1>7 DEF Next, Work

(* For any number of accounts, wherever and however often the process is   *)
(* killed: what the log says of a deposit, a withdrawal or either side of  *)
(* a transfer is the balance stored, as long as no account is closed and   *)
(* no transfer is from an account to itself.                               *)
THEOREM LogTruthful == KeepsAccounts => (Spec => LogTellsBalance)
<1> SUFFICES ASSUME KeepsAccounts
             PROVE  Spec => LogTellsBalance
  OBVIOUS
<1>1. Init => TellInv
  BY TellInit
<1>2. TellInv /\ [Next]_vars => TellInv'
  BY TellStep
<1>3. TellInv /\ [Next]_vars =>
        [\A e \in tran_log' \ tran_log :
           e.area.tran_type \in {"3", "4", "5"} =>
             /\ Found(e.area.acct_no)
             /\ e.area.upd_balance = Held(e.area.acct_no).val]_vars
  BY TellStep
<1>. QED
  BY <1>1, <1>2, <1>3, PTL DEF Spec, LogTellsBalance
-----------------------------------------------------------------------------
(***************************************************************************)
(* Between two requests the transaction log explains every account, while  *)
(* the process is not started again and no account is closed.              *)
(***************************************************************************)
LogOf(log, a) == { e \in log : e.area.acct_no = a /\ e.area.tran_type # "2" }

LastTells(log, a, bal) ==
  \E e \in LogOf(log, a) :
    /\ \A f \in LogOf(log, a) \ {e} : Later(e, f)
    /\ e.area.upd_balance = bal

LogsOn(c, a) == c.call = "log" /\ c.area.acct_no = a /\ c.area.tran_type # "2"

Owes(a, calls) == \E i \in DOMAIN calls : LogsOn(calls[i], a)

(* The last record of an account tells its balance, or another record of   *)
(* it is still to be written.                                              *)
Covered ==
  \A a \in Accts : Found(a) =>
    LastTells(tran_log, a, Held(a).val) \/ Owes(a, todo)

(* A balance is written before the record of it, and no record is written  *)
(* but of an opening, an inquiry or a balance.                             *)
PutsLogged(ix, calls) ==
  \A i \in DOMAIN calls : calls[i].call = "put" =>
    \A a \in Accts : GetIndex(ix, a) = calls[i].recno =>
      \E j \in DOMAIN calls : j > i /\ LogsOn(calls[j], a)

Opens(a) == Log(Area("1", a, 0, 0))

Ordinary(ix, calls) ==
  /\ \A i \in DOMAIN calls :
       /\ calls[i].call # "insert"
       /\ calls[i].call = "log" => Telling(calls[i]) \/ calls[i].area.tran_type = "2"
  /\ PutsLogged(ix, calls)

Ordered(f, ix, calls) ==
  \/ \E a \in Accts : calls = <<Insert(a), Opens(a)>>
  \/ \E a \in Accts : /\ calls = <<Opens(a)>>
                      /\ GetIndex(ix, a) # 0
                      /\ GetRecord(f, GetIndex(ix, a)).val = 0
  \/ Ordinary(ix, calls)

(* The records are numbered in the order they are written.                 *)
Numbered == \A e \in tran_log : e.date = today /\ e.seq < seq

LogInv ==
  /\ TellInv
  /\ proc = "down" => kills > 0
  /\ proc = "idle" => todo = << >>
  /\ proc # "down" => Numbered /\ Covered /\ Ordered(customer, cindex, todo)

LEMMA LogInit == Init => LogInv
<1> SUFFICES ASSUME Init
             PROVE  LogInv
  OBVIOUS
<1>1. TellInv
  BY TellInit
<1>2. Numbered
  BY DEF Init, Numbered
<1>3. \A a \in Accts : ~Found(a)
  BY DEF Init, EmptyIndex, Found, Recno, GetIndex, Live
<1>4. Ordered(customer, cindex, todo)
  BY DEF Init, Ordered, Ordinary, PutsLogged
<1>. QED
  BY <1>1, <1>2, <1>3, <1>4 DEF Init, LogInv, Covered
-----------------------------------------------------------------------------
(* The lists of calls the handlers make are of these forms.                *)
LEMMA ShapeOrdered ==
  ASSUME TellInv, NEW calls, Shape(calls)
  PROVE  Ordered(customer, cindex, calls)
<1>0. CustomerOK /\ OwnRecords(customer, cindex)
  BY DEF TellInv, BackendInv
<1>1. CASE calls = << >>
  BY <1>1 DEF Ordered, Ordinary, PutsLogged
<1>2. CASE \E a \in Accts : calls = <<Insert(a), Log(Area("1", a, 0, 0))>>
  BY <1>2 DEF Ordered, Opens
<1>3. CASE \E area : area.tran_type = "2" /\ calls = <<Log(area)>>
  BY <1>3 DEF Ordered, Ordinary, PutsLogged, Log
<1>4. CASE \E a \in Accts, t \in {"3", "4"} : \E m, b :
             Found(a) /\ calls = <<Put(Recno(a), b), Log(Area(t, a, m, b))>>
  <2>0. PICK a \in Accts, t \in {"3", "4"} : \E m, b :
             Found(a) /\ calls = <<Put(Recno(a), b), Log(Area(t, a, m, b))>>
    BY <1>4
  <2>1. PICK m, b :
             Found(a) /\ calls = <<Put(Recno(a), b), Log(Area(t, a, m, b))>>
    BY <2>0
  <2>2. /\ DOMAIN calls = {1, 2}
        /\ calls[1].call = "put" /\ calls[1].recno = Recno(a)
        /\ calls[2].call = "log" /\ calls[2].area.acct_no = a
        /\ calls[2].area.tran_type \in {"3", "4"}
    BY <2>1 DEF Put, Log, Area
  <2>3. LogsOn(calls[2], a) /\ Telling(calls[2])
    BY <2>2 DEF LogsOn, Telling
  <2>4. \A c \in Accts : Recno(c) = Recno(a) => c = a
    BY <1>0, <2>1, TwoRecords DEF Found
  <2>. QED
    BY <2>2, <2>3, <2>4 DEF Ordered, Ordinary, PutsLogged, Recno
<1>5. CASE \E a, c \in Accts : \E m, b, d :
             /\ Found(a) /\ Found(c) /\ a # c
             /\ calls = <<Put(Recno(c), d), Put(Recno(a), b),
                          Log(Area("5", a, m, b)), Log(Area("5", c, m, d))>>
  <2>0. PICK a \in Accts, c \in Accts : \E m, b, d :
             /\ Found(a) /\ Found(c) /\ a # c
             /\ calls = <<Put(Recno(c), d), Put(Recno(a), b),
                          Log(Area("5", a, m, b)), Log(Area("5", c, m, d))>>
    BY <1>5
  <2>1. PICK m, b, d :
             /\ Found(a) /\ Found(c) /\ a # c
             /\ calls = <<Put(Recno(c), d), Put(Recno(a), b),
                          Log(Area("5", a, m, b)), Log(Area("5", c, m, d))>>
    BY <2>0
  <2>2. /\ DOMAIN calls = {1, 2, 3, 4}
        /\ calls[1].call = "put" /\ calls[1].recno = Recno(c)
        /\ calls[2].call = "put" /\ calls[2].recno = Recno(a)
        /\ calls[3].call = "log" /\ calls[3].area.acct_no = a
        /\ calls[3].area.tran_type = "5"
        /\ calls[4].call = "log" /\ calls[4].area.acct_no = c
        /\ calls[4].area.tran_type = "5"
    BY <2>1 DEF Put, Log, Area
  <2>3. /\ LogsOn(calls[3], a) /\ Telling(calls[3])
        /\ LogsOn(calls[4], c) /\ Telling(calls[4])
    BY <2>2 DEF LogsOn, Telling
  <2>4. \A x \in Accts : /\ Recno(x) = Recno(a) => x = a
                         /\ Recno(x) = Recno(c) => x = c
    BY <1>0, <2>1, TwoRecords DEF Found
  <2>. QED
    BY <2>2, <2>3, <2>4 DEF Ordered, Ordinary, PutsLogged, Recno
<1>. QED
  BY <1>1, <1>2, <1>3, <1>4, <1>5 DEF Shape

LEMMA ServeLogs ==
  ASSUME KeepsAccounts, LogInv, NEW r \in Requests, Serve(r)
  PROVE  LogInv'
<1>0. TellInv /\ TellInv'
  BY TellStep DEF LogInv, Next
<1>1. UNCHANGED <<customer, cindex, tran_log>> /\ Shape(todo')
  BY <1>0, Shapes
<1>2. proc = "idle" /\ todo = << >> /\ Numbered /\ Covered
  BY DEF LogInv, Serve
<1>3. \A a : Found(a) /\ a \in Accts => LastTells(tran_log, a, Held(a).val)
  BY <1>2 DEF Covered, Owes
<1>4. Ordered(customer, cindex, todo')
  BY <1>0, <1>1, ShapeOrdered
<1>5. Covered'
  BY <1>1, <1>3 DEF Covered, Found, Recno, Held
<1>6. \/ UNCHANGED <<today, seq>> /\ proc' = "busy"
      \/ proc' = "down" /\ kills' = kills + 1
  <2>1. \A answer, calls : Decide(r, answer, calls)
          => UNCHANGED <<today, seq>> /\ proc' = "busy"
    BY DEF Decide
  <2>2. Die => proc' = "down" /\ kills' = kills + 1
    BY DEF Die
  <2>3. CASE CheckPasswd(r) \/ OpenAcct(r) \/ Deposit(r) \/ Withdraw(r) \/ CloseAcct(r)
    BY <2>1, <2>2, <2>3 DEF CheckPasswd, OpenAcct, Deposit, Withdraw, CloseAcct
  <2>4. CASE AcctInq(r)
    BY <2>1, <2>4, Zenon DEF AcctInq
  <2>5. CASE Transfer(r)
    BY <2>1, <2>2, <2>5 DEF Transfer
  <2>. QED
    BY <2>3, <2>4, <2>5 DEF Serve
<1>7. kills \in Nat
  BY <1>0 DEF TellInv, BackendInv, TypeOK
<1>8. proc' # "down" => Numbered'
  BY <1>1, <1>2, <1>6 DEF Numbered
<1>. QED
  BY <1>0, <1>1, <1>4, <1>5, <1>6, <1>7, <1>8 DEF LogInv
-----------------------------------------------------------------------------
(* After the first call the others are of such a form, and what is still   *)
(* to be written is among them unless that was the first.                  *)
LEMMA Rest ==
  ASSUME NEW ix, NEW calls \in Seq(Calls), calls # << >>
  PROVE  /\ Ordinary(ix, calls) => Ordinary(ix, Tail(calls))
         /\ \A a : \A i \in DOMAIN calls :
              LogsOn(calls[i], a) /\ i # 1 => Owes(a, Tail(calls))
         /\ \A a : Owes(a, calls) /\ ~LogsOn(Head(calls), a) => Owes(a, Tail(calls))
<1> DEFINE rest == Tail(calls)
<1>1. /\ Head(calls) = calls[1]
      /\ \A i \in DOMAIN rest : i + 1 \in DOMAIN calls /\ rest[i] = calls[i + 1] /\ i \in Nat
  BY RestOfCalls
<1>2. \A i \in DOMAIN calls : i \in Nat /\ (i # 1 => i - 1 \in DOMAIN rest /\ calls[i] = rest[i - 1])
  OBVIOUS
<1> HIDE DEF rest
<1>3. ASSUME Ordinary(ix, calls)
      PROVE  Ordinary(ix, rest)
  <2>1. PutsLogged(ix, rest)
    <3> SUFFICES ASSUME NEW i \in DOMAIN rest, rest[i].call = "put", NEW a \in Accts,
                        GetIndex(ix, a) = rest[i].recno
                 PROVE  \E j \in DOMAIN rest : j > i /\ LogsOn(rest[j], a)
      BY DEF PutsLogged
    <3>1. PICK j \in DOMAIN calls : j > i + 1 /\ LogsOn(calls[j], a)
      BY <1>1, <1>3 DEF Ordinary, PutsLogged
    <3>2. /\ j # 1 /\ j - 1 > i
      BY <1>1, <1>2, <3>1
    <3>. QED
      BY <1>2, <3>1, <3>2
  <2>. QED
    BY <1>1, <1>3, <2>1 DEF Ordinary
<1>4. \A a : \A i \in DOMAIN calls : LogsOn(calls[i], a) /\ i # 1 => Owes(a, rest)
  BY <1>2 DEF Owes
<1>5. \A a : Owes(a, calls) /\ ~LogsOn(Head(calls), a) => Owes(a, rest)
  BY <1>1, <1>4 DEF Owes
<1>. QED
  BY <1>3, <1>4, <1>5 DEF rest

(* A balance is written.                                                   *)
LEMMA PutLogs ==
  ASSUME LogInv, CallPut
  PROVE  Covered' /\ Ordered(customer', cindex', todo')
<1> DEFINE n == Head(todo).recno
<1>1. /\ TellInv /\ BackendInv /\ CustomerOK /\ todo \in Seq(Calls)
      /\ todo # << >> /\ todo' = Tail(todo) /\ Head(todo).call = "put"
      /\ proc = "busy" /\ cindex' = cindex /\ tran_log' = tran_log
  BY DEF LogInv, TellInv, BackendInv, TypeOK, CallPut, Call
<1>2. Head(todo) = todo[1] /\ 1 \in DOMAIN todo
  BY <1>1, RestOfCalls
<1>3. Covered /\ Ordinary(cindex, todo)
  BY <1>1, <1>2 DEF LogInv, Ordered, Insert, Opens, Log
<1>5. Ordered(customer', cindex', todo')
  BY <1>1, <1>3, Rest DEF Ordered
<1>6. ASSUME NEW a \in Accts, Found(a)'
      PROVE  LastTells(tran_log', a, Held(a).val') \/ Owes(a, todo')
  <2>1. Found(a) /\ (Recno(a) # n => Held(a)' = Held(a))
    BY <1>1, <1>6, PutHolds
  <2>2. CASE Recno(a) = n
    <3>1. PICK j \in DOMAIN todo : j > 1 /\ LogsOn(todo[j], a)
      BY <1>1, <1>2, <1>3, <2>2 DEF Ordinary, PutsLogged, Recno
    <3>2. j # 1
      BY <3>1
    <3>. QED
      BY <1>1, <3>1, <3>2, Rest
  <2>3. CASE Recno(a) # n
    <3>1. Held(a)' = Held(a)
      BY <2>1, <2>3
    <3>2. LastTells(tran_log, a, Held(a).val) \/ Owes(a, todo)
      BY <1>3, <2>1 DEF Covered
    <3>3. ~LogsOn(Head(todo), a)
      BY <1>1 DEF LogsOn
    <3>. QED
      BY <1>1, <3>1, <3>2, <3>3, Rest
  <2>. QED
    BY <2>2, <2>3
<1>. QED
  BY <1>5, <1>6 DEF Covered

(* An account is added.                                                    *)
LEMMA InsertLogs ==
  ASSUME LogInv, CallInsert
  PROVE  Covered' /\ Ordered(customer', cindex', todo')
<1>1. /\ TellInv /\ BackendInv /\ CustomerOK /\ todo \in Seq(Calls)
      /\ todo # << >> /\ todo' = Tail(todo) /\ Head(todo).call = "insert"
      /\ proc = "busy" /\ tran_log' = tran_log
  BY DEF LogInv, TellInv, BackendInv, TypeOK, CallInsert, Call
<1>2. Head(todo) = todo[1] /\ 1 \in DOMAIN todo
  BY <1>1, RestOfCalls
<1>3. PICK acct \in Accts : todo = <<Insert(acct), Opens(acct)>>
  BY <1>1, <1>2 DEF LogInv, Ordered, Ordinary, Opens, Log
<1>4. Head(todo).acct = acct /\ todo' = <<Opens(acct)>>
  BY <1>1, <1>3 DEF Insert
<1>5. Found(acct)' /\ Held(acct)'.val = 0
  BY <1>1, <1>4, InsertHolds
<1>6. Ordered(customer', cindex', todo')
  BY <1>4, <1>5 DEF Ordered, Found, Recno, Held
<1>7. ASSUME NEW a \in Accts, Found(a)'
      PROVE  LastTells(tran_log', a, Held(a).val') \/ Owes(a, todo')
  <2>1. CASE a = acct
    BY <1>4, <2>1 DEF Owes, LogsOn, Opens, Log, Area
  <2>2. CASE a # acct
    <3>1. Found(a) /\ Held(a)' = Held(a)
      BY <1>1, <1>4, <1>7, <2>2, InsertHolds
    <3>2. ~Owes(a, todo)
      BY <1>3, <2>2 DEF Owes, LogsOn, Insert, Opens, Log, Area
    <3>. QED
      BY <1>1, <3>1, <3>2 DEF LogInv, Covered
  <2>. QED
    BY <2>1, <2>2
<1>. QED
  BY <1>6, <1>7 DEF Covered

(* A record is added to the log: no number is used twice, and it is the    *)
(* last of its account.                                                    *)
LEMMA LogGrows ==
  ASSUME TypeOK, Numbered, NEW area,
         tran_log' = Logged(tran_log, today, seq, area),
         seq' = seq + 1, today' = today
  PROVE  /\ Numbered'
         /\ tran_log' \ tran_log = {[date |-> today, seq |-> seq, area |-> area]}
         /\ \A a : a = area.acct_no /\ area.tran_type # "2"
                   => LastTells(tran_log', a, area.upd_balance)
         /\ \A a : a # area.acct_no \/ area.tran_type = "2"
                   => LogOf(tran_log', a) = LogOf(tran_log, a)
<1> DEFINE e == [date |-> today, seq |-> seq, area |-> area]
<1>1. seq \in Nat /\ today \in Nat /\ \A f \in tran_log : f.seq \in Nat /\ f.date \in Nat
  BY DEF TypeOK
<1>2. \A f \in tran_log : f.date = today /\ f.seq < seq
  BY DEF Numbered
<1>3. e.date = today /\ e.seq = seq /\ e.area = area
  OBVIOUS
<1>4. tran_log' = tran_log \cup {e} /\ e \notin tran_log
  <2>1. ~ \E f \in tran_log : f.date = today /\ f.seq = seq
    BY <1>1, <1>2
  <2>. QED
    BY <1>3, <2>1 DEF Logged
<1> HIDE DEF e
<1>5. Numbered'
  BY <1>1, <1>2, <1>3, <1>4 DEF Numbered
<1>6. ASSUME NEW a, a = area.acct_no, area.tran_type # "2"
      PROVE  LastTells(tran_log', a, area.upd_balance)
  <2>1. e \in LogOf(tran_log', a)
    BY <1>3, <1>4, <1>6 DEF LogOf
  <2>2. \A f \in LogOf(tran_log', a) \ {e} : Later(e, f)
    BY <1>1, <1>2, <1>3, <1>4 DEF LogOf, Later
  <2>. QED
    BY <1>3, <2>1, <2>2 DEF LastTells
<1>7. \A a : a # area.acct_no \/ area.tran_type = "2"
        => LogOf(tran_log', a) = LogOf(tran_log, a)
  BY <1>3, <1>4 DEF LogOf
<1>. QED
  BY <1>4, <1>5, <1>6, <1>7 DEF e

LEMMA LogLogs ==
  ASSUME LogInv, CallLog
  PROVE  Numbered' /\ Covered' /\ Ordered(customer', cindex', todo')
<1> DEFINE area == Head(todo).area
<1>1. /\ TellInv /\ BackendInv /\ TypeOK /\ todo \in Seq(Calls)
      /\ todo # << >> /\ todo' = Tail(todo) /\ Head(todo).call = "log"
      /\ proc = "busy" /\ cindex' = cindex /\ customer' = customer
      /\ tran_log' = Logged(tran_log, today, seq, area)
      /\ seq' = seq + 1 /\ today' = today
  BY DEF LogInv, TellInv, BackendInv, TypeOK, CallLog, Call
<1>2. Head(todo) = todo[1] /\ 1 \in DOMAIN todo
  BY <1>1, RestOfCalls
<1>3. /\ Numbered /\ Covered
      /\ \/ \E a \in Accts : /\ todo = <<Opens(a)>> /\ Found(a) /\ Held(a).val = 0
         \/ Ordinary(cindex, todo)
  BY <1>1, <1>2 DEF LogInv, Ordered, Insert, Found, Recno, Held
<1>4. \A e \in tran_log' \ tran_log :
        e.area.tran_type \in {"3", "4", "5"} =>
          e.area.upd_balance = Held(e.area.acct_no).val
  BY <1>1, LogTruly
<1> HIDE DEF area
<1>5. /\ Numbered'
      /\ tran_log' \ tran_log = {[date |-> today, seq |-> seq, area |-> area]}
      /\ \A a : a = area.acct_no /\ area.tran_type # "2"
                => LastTells(tran_log', a, area.upd_balance)
      /\ \A a : a # area.acct_no \/ area.tran_type = "2"
                => LogOf(tran_log', a) = LogOf(tran_log, a)
  BY <1>1, <1>3, LogGrows
<1>6. area.tran_type # "2" => area.upd_balance = Held(area.acct_no).val
  <2>1. CASE \E a \in Accts : todo = <<Opens(a)>> /\ Found(a) /\ Held(a).val = 0
    BY <2>1 DEF area, Opens, Log, Area
  <2>2. CASE Ordinary(cindex, todo)
    <3>1. area.tran_type # "2" => area.tran_type \in {"3", "4", "5"}
      BY <1>1, <1>2, <2>2 DEF Ordinary, Telling, area
    <3>. QED
      BY <1>4, <1>5, <3>1
  <2>. QED
    BY <1>3, <2>1, <2>2
<1>7. ASSUME NEW a \in Accts, Found(a)'
      PROVE  LastTells(tran_log', a, Held(a).val') \/ Owes(a, todo')
  <2>1. Found(a) /\ Held(a)' = Held(a)
    BY <1>1, <1>7 DEF Found, Recno, Held
  <2>2. CASE a = area.acct_no /\ area.tran_type # "2"
    BY <1>5, <1>6, <2>1, <2>2
  <2>3. CASE a # area.acct_no \/ area.tran_type = "2"
    <3>1. ~LogsOn(Head(todo), a)
      BY <2>3 DEF LogsOn, area
    <3>2. LastTells(tran_log, a, Held(a).val) \/ Owes(a, todo)
      BY <1>3, <2>1 DEF Covered
    <3>3. LastTells(tran_log, a, Held(a).val) => LastTells(tran_log', a, Held(a).val)
      BY <1>5, <2>3 DEF LastTells
    <3>. QED
      BY <1>1, <2>1, <3>1, <3>2, <3>3, Rest
  <2>. QED
    BY <2>2, <2>3
<1>8. Ordered(customer', cindex', todo')
  <2>1. CASE \E a \in Accts : todo = <<Opens(a)>>
    <3>1. todo' = << >>
      BY <1>1, <2>1
    <3>. QED
      BY <3>1 DEF Ordered, Ordinary, PutsLogged
  <2>2. CASE Ordinary(cindex, todo)
    BY <1>1, <2>2, Rest DEF Ordered
  <2>. QED
    BY <1>3, <2>1, <2>2
<1>. QED
  BY <1>5, <1>7, <1>8 DEF Covered
-----------------------------------------------------------------------------
LEMMA LogStep ==
  ASSUME KeepsAccounts, MaxKills = 0
  PROVE  LogInv /\ [Next]_vars => LogInv'
<1> SUFFICES ASSUME LogInv, [Next]_vars
             PROVE  LogInv'
  OBVIOUS
<1>0. /\ TellInv /\ TellInv' /\ kills \in Nat
      /\ todo \in Seq(Calls) /\ Truthful(customer, cindex, todo)
  BY TellStep DEF LogInv, TellInv, BackendInv, TypeOK
<1>1. CASE \E r \in Requests : Serve(r)
  BY <1>1, ServeLogs
<1>2. CASE CallPut
  <2>1. /\ Covered' /\ Ordered(customer', cindex', todo') /\ proc' = "busy" /\ proc = "busy"
        /\ UNCHANGED <<tran_log, seq, today>>
    BY <1>2, PutLogs DEF CallPut, Call
  <2>. QED
    BY <1>0, <2>1 DEF LogInv, Numbered
<1>3. CASE CallInsert
  <2>1. /\ Covered' /\ Ordered(customer', cindex', todo') /\ proc' = "busy" /\ proc = "busy"
        /\ UNCHANGED <<tran_log, seq, today>>
    BY <1>3, InsertLogs DEF CallInsert, Call
  <2>. QED
    BY <1>0, <2>1 DEF LogInv, Numbered
<1>4. CASE CallDelete
  <2>1. todo # << >> /\ Head(todo).call = "delete"
    BY <1>4 DEF CallDelete, Call
  <2>. QED
    BY <1>0, <2>1, RestOfCalls DEF Truthful
<1>5. CASE CallLog
  <2>1. /\ Numbered' /\ Covered' /\ Ordered(customer', cindex', todo') /\ proc' = "busy"
    BY <1>5, LogLogs DEF CallLog, Call
  <2>. QED
    BY <1>0, <2>1 DEF LogInv
<1>6. CASE Send \/ UNCHANGED vars
  <2>1. /\ UNCHANGED <<customer, cindex, tran_log, seq, todo, today, kills>>
        /\ (proc = "busy" /\ proc' = "idle" /\ todo = << >>) \/ proc' = proc
    BY <1>6 DEF Send, vars, disk, memory
  <2>2. /\ Covered' <=> Covered
        /\ Numbered' <=> Numbered
        /\ Ordered(customer', cindex', todo') <=> Ordered(customer, cindex, todo)
    BY <2>1 DEF Covered, Numbered, Found, Recno, Held
  <2>. QED
    BY <1>0, <2>1, <2>2 DEF LogInv
<1>7. CASE Kill
  <2>1. proc' = "down" /\ kills' = kills + 1
    BY <1>7 DEF Kill, Die
  <2>. QED
    BY <1>0, <2>1 DEF LogInv
<1>8. CASE Restart
  BY <1>0, <1>8 DEF Restart, LogInv
<1>. QED
  BY <1>1, <1>2, <1>3, <1>4, <1>5, <1>6, <1>7, <1>8 DEF Next, Work

(* For any number of accounts, requests and amounts: between two requests  *)
(* the last record of an account, inquiries apart, tells its balance, as   *)
(* long as the process is not started again, no account is closed and no   *)
(* transfer is from an account to itself (BACKEND.C:118-124, 199-206,      *)
(* 255-262, 329-347).                                                      *)
THEOREM LogExplains == KeepsAccounts /\ MaxKills = 0 => (Spec => []LogAgrees)
<1> SUFFICES ASSUME KeepsAccounts, MaxKills = 0
             PROVE  Spec => []LogAgrees
  OBVIOUS
<1>1. Init => LogInv
  BY LogInit
<1>2. LogInv /\ [Next]_vars => LogInv'
  BY LogStep
<1>3. LogInv => LogAgrees
  <2>1. \A a : ~Owes(a, << >>)
    BY DEF Owes
  <2>2. \A a : LogOf(tran_log, a) = RecordsOf(a)
    BY DEF LogOf, RecordsOf
  <2>. QED
    BY <2>1, <2>2 DEF LogInv, Covered, LastTells, LogAgrees
<1>. QED
  BY <1>1, <1>2, <1>3, PTL DEF Spec

-----------------------------------------------------------------------------
(* The backend implements Ledger.tla, where no account is closed and no    *)
(* transfer can be torn by the death of the process.                       *)
(* The process is never killed, or there is no transfer it could be killed *)
(* in the middle of.                                                       *)
WholeTransfers == MaxKills = 0 \/ \A r \in Requests : r.mtype # ATFR

(* What a file and its index say of an account.                            *)
Shown(f, ix, a) ==
  IF GetIndex(ix, a) = 0 THEN NoVal ELSE GetRecord(f, GetIndex(ix, a)).val

(* How far a handler has come: all is done but the log, ...                *)
Done(calls) == Len(calls) <= 2 /\ \A i \in DOMAIN calls : calls[i].call = "log"

(* ... an account is to be added, ...                                      *)
OpenAhead(f, ix, r, answer, calls) ==
  /\ r.mtype = OPEN
  /\ Shown(f, ix, r.acct) = NoVal
  /\ answer = Says(OK)
  /\ \E area : calls = <<Insert(r.acct), Log(area)>>

(* ... a balance is to be written, ...                                     *)
AmountAhead(f, ix, r, answer, calls) ==
  \E bal \in Balances, area \in Areas :
    /\ Shown(f, ix, r.acct) # NoVal
    /\ \/ r.mtype = ADEP /\ bal = Shown(f, ix, r.acct) + r.amount
       \/ r.mtype = ACWD /\ bal = Shown(f, ix, r.acct) - r.amount
    /\ answer = Says1(OK, bal)
    /\ calls = <<Put(GetIndex(ix, r.acct), bal), Log(area)>>

(* ... two are, ...                                                        *)
TransferAhead(f, ix, r, answer, calls) ==
  \E bal1, bal2 \in Balances, area1, area2 \in Areas :
    /\ r.mtype = ATFR
    /\ Shown(f, ix, r.acct) # NoVal /\ bal1 = Shown(f, ix, r.acct) - r.amount
    /\ Shown(f, ix, r.to) # NoVal /\ bal2 = Shown(f, ix, r.to) + r.amount
    /\ answer = Says2(OK, bal1, bal2)
    /\ calls = <<Put(GetIndex(ix, r.to), bal2), Put(GetIndex(ix, r.acct), bal1),
                 Log(area1), Log(area2)>>

(* ... or the second of two.                                               *)
TransferHalf(f, ix, r, answer, calls) ==
  \E bal1, bal2 \in Balances, area1, area2 \in Areas :
    /\ r.mtype = ATFR
    /\ Shown(f, ix, r.acct) # NoVal /\ bal1 = Shown(f, ix, r.acct) - r.amount
    /\ Shown(f, ix, r.to) = bal2 /\ bal2 - r.amount \in Balances
    /\ answer = Says2(OK, bal1, bal2)
    /\ calls = <<Put(GetIndex(ix, r.acct), bal1), Log(area1), Log(area2)>>

Phase(f, ix, r, answer, calls) ==
  \/ Done(calls)
  \/ OpenAhead(f, ix, r, answer, calls)
  \/ AmountAhead(f, ix, r, answer, calls)
  \/ TransferAhead(f, ix, r, answer, calls)
  \/ TransferHalf(f, ix, r, answer, calls)

LedgerInv ==
  /\ TellInv
  /\ proc = "busy" => req \in Requests /\ Phase(customer, cindex, req, message, todo)

-----------------------------------------------------------------------------
(* The messages Ledger.tla speaks of are those of the backend.             *)
LEMMA SameMessages ==
  /\ LG!OPER = OPER /\ LG!OPEN = OPEN /\ LG!AINQ = AINQ /\ LG!ADEP = ADEP
  /\ LG!ACWD = ACWD /\ LG!ATFR = ATFR /\ LG!CLOS = CLOS
  /\ LG!OK = OK /\ LG!DUP = DUP /\ LG!REC1ERR = REC1ERR /\ LG!REC2ERR = REC2ERR
  /\ LG!BALERR = BALERR /\ LG!PWERR = PWERR
  /\ \A c : LG!Says(c) = Says(c)
  /\ \A c, b : LG!Says1(c, b) = Says1(c, b)
  /\ \A c, b, d : LG!Says2(c, b, d) = Says2(c, b, d)
  BY DEF LG!OPER, OPER, LG!OPEN, OPEN, LG!AINQ, AINQ, LG!ADEP, ADEP, LG!ACWD,
         ACWD, LG!ATFR, ATFR, LG!CLOS, CLOS, LG!OK, OK, LG!DUP, DUP, LG!REC1ERR,
         REC1ERR, LG!REC2ERR, REC2ERR, LG!BALERR, BALERR, LG!PWERR, PWERR,
         LG!Says, Says, LG!Says1, Says1, LG!Says2, Says2

LEMMA ShownFound ==
  ASSUME TellInv, NEW a \in Accts
  PROVE  /\ Shown(customer, cindex, a) = NoVal <=> ~Found(a)
         /\ Found(a) => /\ Shown(customer, cindex, a) = Held(a).val
                        /\ Shown(customer, cindex, a) \in Balances
<1>1. Found(a) => Held(a).val \in Balances
  BY FoundRecord DEF TellInv, BackendInv
<1>2. NoVal \notin Balances
  BY DbAssumptions
<1>. QED
  BY <1>1, <1>2 DEF Shown, Found, Recno, Held

(* What the ledger shows between two writes and in the middle of them.     *)
LEMMA ViewNow ==
  ASSUME ~HalfDone
  PROVE  BalView = [a \in Accts |-> Shown(customer, cindex, a)]
  BY DEF BalView, Shown, Found, Recno, Held

LEMMA ViewThen ==
  ASSUME ~HalfDone'
  PROVE  BalView' = [a \in Accts |-> Shown(customer', cindex', a)]
  BY DEF BalView, Shown, Found, Recno, Held

ShownHalf(f, ix, r, a) ==
  IF Shown(f, ix, a) # NoVal /\ a = r.to
  THEN Shown(f, ix, a) - r.amount ELSE Shown(f, ix, a)

LEMMA HalfNow ==
  ASSUME TellInv, HalfDone
  PROVE  BalView = [a \in Accts |-> ShownHalf(customer, cindex, req, a)]
<1>1. BalView = [a \in Accts |->
        IF ~Found(a) THEN NoVal
        ELSE IF req.to = a THEN Held(a).val - req.amount ELSE Held(a).val]
  BY DEF BalView
<1>2. \A a \in Accts : ShownHalf(customer, cindex, req, a)
        = (IF ~Found(a) THEN NoVal
           ELSE IF req.to = a THEN Held(a).val - req.amount ELSE Held(a).val)
  BY ShownFound DEF ShownHalf
<1>. QED
  BY <1>1, <1>2

LEMMA HalfThen ==
  ASSUME TellInv', HalfDone'
  PROVE  BalView' = [a \in Accts |-> ShownHalf(customer', cindex', req', a)]
<1>1. (TellInv /\ HalfDone)' => (BalView = [a \in Accts |-> ShownHalf(customer, cindex, req, a)])'
  BY HalfNow, PTL
<1>. QED
  BY <1>1
-----------------------------------------------------------------------------
(* A transfer is in the middle only when its second write is ahead.        *)
LEMMA HalfIs ==
  ASSUME LedgerInv, HalfDone
  PROVE  TransferHalf(customer, cindex, req, message, todo)
<1>1. proc = "busy" /\ Len(todo) = 3 /\ todo \in Seq(Calls)
  BY DEF HalfDone, LedgerInv, TellInv, BackendInv, TypeOK
<1>2. ~Done(todo)
  BY <1>1 DEF Done
<1>3. ~OpenAhead(customer, cindex, req, message, todo)
  BY <1>1 DEF OpenAhead
<1>4. ~AmountAhead(customer, cindex, req, message, todo)
  <2>1. ASSUME NEW bal, NEW area,
               todo = <<Put(GetIndex(cindex, req.acct), bal), Log(area)>>
        PROVE  FALSE
    BY <1>1, <2>1
  <2>. QED
    BY <2>1, Zenon DEF AmountAhead
<1>5. ~TransferAhead(customer, cindex, req, message, todo)
  BY <1>1 DEF TransferAhead
<1>. QED
  BY <1>1, <1>2, <1>3, <1>4, <1>5 DEF LedgerInv, Phase

LEMMA OwedNow ==
  ASSUME BackendInv
  PROVE  /\ proc # "busy" => OwedView = NoReq
         /\ proc = "busy" /\ Done(todo) => OwedView = [req |-> req, answer |-> message]
         /\ proc = "busy" /\ req \in Requests => [req |-> req, answer |-> message] # NoReq
         /\ (\E i \in DOMAIN todo : todo[i].call # "log") => OwedView = NoReq
<1>1. proc = "busy" /\ req \in Requests => [req |-> req, answer |-> message] # NoReq
  <2>1. message \in [code : Codes, bals : Seq(Balances)]
    BY DEF BackendInv, TypeOK
  <2>2. req \in Requests => [req |-> req, answer |-> message]
          \in [req : Requests, answer : [code : Codes, bals : Seq(Balances)]]
    BY <2>1
  <2>. QED
    BY <2>2, NoReqAssumption
<1>. QED
  BY <1>1 DEF OwedView, Done

LEMMA OwedThen ==
  ASSUME BackendInv'
  PROVE  /\ proc' # "busy" => OwedView' = NoReq
         /\ proc' = "busy" /\ Done(todo') => OwedView' = [req |-> req', answer |-> message']
         /\ proc' = "busy" /\ req' \in Requests => [req |-> req', answer |-> message'] # NoReq
         /\ (\E i \in DOMAIN todo' : todo'[i].call # "log") => OwedView' = NoReq
<1>1. proc' = "busy" /\ req' \in Requests => [req |-> req', answer |-> message'] # NoReq
  <2>1. message' \in [code : Codes, bals : Seq(Balances)]
    BY DEF BackendInv, TypeOK
  <2>2. req' \in Requests => [req |-> req', answer |-> message']
          \in [req : Requests, answer : [code : Codes, bals : Seq(Balances)]]
    BY <2>1
  <2>. QED
    BY <2>2, NoReqAssumption
<1>. QED
  BY <1>1 DEF OwedView, Done

(* A handler that has nothing to write has carried out its request when it *)
(* has decided; another has not begun.                                     *)
LEMMA Decided ==
  ASSUME TellInv, BackendInv', proc = "idle", NEW r \in Requests, NEW answer, NEW calls,
         Decide(r, answer, calls), Len(calls) # 3
  PROVE  /\ proc' = "busy" /\ req' = r /\ message' = answer /\ todo' = calls
         /\ customer' = customer /\ cindex' = cindex
         /\ BalView = [a \in Accts |-> Shown(customer, cindex, a)] /\ BalView' = BalView
         /\ OwedView = NoReq
         /\ Done(calls) => /\ OwedView' = [req |-> r, answer |-> answer]
                           /\ OwedView' # NoReq
         /\ (\E i \in DOMAIN calls : calls[i].call # "log") => OwedView' = NoReq
<1>1. /\ proc' = "busy" /\ req' = r /\ message' = answer /\ todo' = calls
      /\ customer' = customer /\ cindex' = cindex
  BY DEF Decide, disk
<1>2. ~HalfDone /\ ~HalfDone'
  BY <1>1 DEF HalfDone
<1>3. BalView = [a \in Accts |-> Shown(customer, cindex, a)] /\ BalView' = BalView
  BY <1>1, <1>2, ViewNow, ViewThen
<1>4. OwedView = NoReq
  BY OwedNow DEF TellInv
<1>. QED
  BY <1>1, <1>3, <1>4, OwedThen

LEMMA NothingDone == Done(<< >>) /\ Len(<< >>) # 3
  BY DEF Done

LEMMA DiedServing ==
  ASSUME TellInv, BackendInv', proc = "idle", Die
  PROVE  BalView' = BalView /\ OwedView' = OwedView /\ proc' = "down"
<1>1. proc' = "down" /\ customer' = customer /\ cindex' = cindex
  BY DEF Die, disk
<1>2. ~HalfDone /\ ~HalfDone'
  BY <1>1 DEF HalfDone
<1>3. OwedView = NoReq /\ OwedView' = NoReq
  BY <1>1, OwedNow, OwedThen DEF TellInv
<1>. QED
  BY <1>1, <1>2, <1>3, ViewNow, ViewThen
-----------------------------------------------------------------------------
(* A handler refines the one of the ledger, or has its work ahead of it.   *)
Refines(r) ==
  /\ (\E q \in Requests : LG!CarryOut(q)) \/ UNCHANGED <<BalView, OwedView>>
  /\ proc' = "busy" => /\ req' = r
                       /\ Phase(customer', cindex', req', message', todo')

LEMMA PasswdRefines ==
  ASSUME TellInv, BackendInv', proc = "idle", NEW r \in Requests,
         r.mtype = OPER, CheckPasswd(r)
  PROVE  Refines(r)
<1>1. PICK code : /\ Decide(r, Says(code), << >>)
                  /\ \/ r.operator \notin DOMAIN Passwords /\ code = REC1ERR
                     \/ /\ r.operator \in DOMAIN Passwords
                        /\ code = IF Passwords[r.operator] = r.passwd THEN OK ELSE PWERR
  BY DEF CheckPasswd
<1>2. /\ req' = r /\ todo' = << >>
      /\ BalView' = BalView /\ OwedView = NoReq
      /\ OwedView' = [req |-> r, answer |-> Says(code)]
  BY <1>1, NothingDone, Decided
<1>3. LG!CheckPasswd(r)
  BY <1>1, <1>2, SameMessages DEF LG!CheckPasswd, LG!Refuse, LG!Owe
<1>4. LG!CarryOut(r)
  BY <1>3, SameMessages DEF LG!CarryOut
<1>. QED
  BY <1>2, <1>4, NothingDone DEF Refines, Phase

LEMMA OpenRefines ==
  ASSUME TellInv, BackendInv', proc = "idle", NEW r \in Requests,
         r.mtype = OPEN, OpenAcct(r)
  PROVE  Refines(r)
<1>0. /\ r.acct \in Accts
      /\ Shown(customer, cindex, r.acct) = NoVal <=> ~Found(r.acct)
  BY RequestsAssumption, ShownFound
<1>1. CASE Found(r.acct)
  <2>1. Decide(r, Says(DUP), << >>)
    BY <1>1 DEF OpenAcct
  <2>2. /\ req' = r /\ todo' = << >>
        /\ BalView' = BalView /\ BalView[r.acct] # NoVal
        /\ OwedView = NoReq /\ OwedView' = [req |-> r, answer |-> Says(DUP)]
    BY <1>0, <1>1, <2>1, NothingDone, Decided
  <2>3. LG!CarryOut(r)
    BY <2>2, SameMessages DEF LG!CarryOut, LG!OpenAcct, LG!Refuse, LG!Owe
  <2>. QED
    BY <2>2, <2>3, NothingDone DEF Refines, Phase
<1>2. CASE ~Found(r.acct)
  <2> DEFINE calls == <<Insert(r.acct), Log(Area("1", r.acct, 0, 0))>>
  <2>1. Decide(r, Says(OK), calls)
    BY <1>2 DEF OpenAcct
  <2>2. Len(calls) # 3 /\ 1 \in DOMAIN calls /\ calls[1].call # "log"
    BY DEF Insert
  <2>3. OpenAhead(customer, cindex, r, Says(OK), calls)
    BY <1>0, <1>2 DEF OpenAhead
  <2> HIDE DEF calls
  <2>. QED
    BY <2>1, <2>2, <2>3, Decided DEF Refines, Phase
<1>. QED
  BY <1>1, <1>2

LEMMA InquiryRefines ==
  ASSUME TellInv, BackendInv', proc = "idle", NEW r \in Requests,
         r.mtype = AINQ, AcctInq(r)
  PROVE  Refines(r)
<1>0. /\ r.acct \in Accts
      /\ Shown(customer, cindex, r.acct) = NoVal <=> ~Found(r.acct)
      /\ Found(r.acct) => Shown(customer, cindex, r.acct) = Held(r.acct).val
  BY RequestsAssumption, ShownFound
<1>1. CASE ~Found(r.acct)
  <2>1. Decide(r, Says(REC1ERR), << >>)
    BY <1>1 DEF AcctInq
  <2>2. /\ req' = r /\ todo' = << >>
        /\ BalView' = BalView /\ BalView[r.acct] = NoVal
        /\ OwedView = NoReq /\ OwedView' = [req |-> r, answer |-> Says(REC1ERR)]
    BY <1>0, <1>1, <2>1, NothingDone, Decided
  <2>3. LG!CarryOut(r)
    BY <2>2, SameMessages DEF LG!CarryOut, LG!AcctInq, LG!Refuse, LG!Owe
  <2>. QED
    BY <2>2, <2>3, NothingDone DEF Refines, Phase
<1>2. CASE Found(r.acct)
  <2> DEFINE area   == [tran EXCEPT !.tran_type = "2"]
             answer == Says1(OK, Held(r.acct).val)
  <2>1. Decide(r, answer, <<Log(area)>>)
    BY <1>2 DEF AcctInq
  <2> HIDE DEF area
  <2>2. Done(<<Log(area)>>) /\ Len(<<Log(area)>>) # 3
    BY DEF Done, Log
  <2>3. /\ req' = r /\ todo' = <<Log(area)>>
        /\ BalView' = BalView /\ BalView[r.acct] # NoVal
        /\ answer = Says1(OK, BalView[r.acct])
        /\ OwedView = NoReq /\ OwedView' = [req |-> r, answer |-> answer]
    BY <1>0, <1>2, <2>1, <2>2, Decided
  <2> HIDE DEF answer
  <2>4. LG!CarryOut(r)
    BY <2>3, SameMessages DEF LG!CarryOut, LG!AcctInq, LG!Owe
  <2>. QED
    BY <2>2, <2>3, <2>4 DEF Refines, Phase
<1>. QED
  BY <1>1, <1>2

(* A deposit or a withdrawal that is possible.                             *)
LEMMA AmountDecided ==
  ASSUME TellInv, BackendInv', proc = "idle", NEW r \in Requests,
         r.acct \in Accts, Found(r.acct), NEW bal \in Balances, NEW area \in Areas,
         \/ r.mtype = ADEP /\ bal = Held(r.acct).val + r.amount
         \/ r.mtype = ACWD /\ bal = Held(r.acct).val - r.amount,
         Decide(r, Says1(OK, bal), <<Put(Recno(r.acct), bal), Log(area)>>)
  PROVE  Refines(r)
<1> DEFINE calls == <<Put(Recno(r.acct), bal), Log(area)>>
<1>1. Len(calls) # 3 /\ 1 \in DOMAIN calls /\ calls[1].call # "log"
  BY DEF Put
<1>2. AmountAhead(customer, cindex, r, Says1(OK, bal), calls)
  BY ShownFound DEF AmountAhead, Recno
<1> HIDE DEF calls
<1>3. Decide(r, Says1(OK, bal), calls)
  BY DEF calls
<1>. QED
  BY <1>1, <1>2, <1>3, Decided DEF Refines, Phase

LEMMA DepositRefines ==
  ASSUME TellInv, BackendInv', proc = "idle", NEW r \in Requests,
         r.mtype = ADEP, Deposit(r)
  PROVE  Refines(r)
<1> DEFINE bal == Held(r.acct).val + r.amount
<1>0. /\ r.acct \in Accts /\ r.amount \in Nat
      /\ Shown(customer, cindex, r.acct) = NoVal <=> ~Found(r.acct)
  BY RequestsAssumption, ShownFound
<1>1. CASE ~Found(r.acct) /\ Decide(r, Says(REC1ERR), << >>)
  <2>1. /\ req' = r /\ todo' = << >>
        /\ BalView' = BalView /\ BalView[r.acct] = NoVal
        /\ OwedView = NoReq /\ OwedView' = [req |-> r, answer |-> Says(REC1ERR)]
    BY <1>0, <1>1, NothingDone, Decided
  <2>2. LG!CarryOut(r)
    BY <2>1, SameMessages DEF LG!CarryOut, LG!Deposit, LG!Refuse, LG!Owe
  <2>. QED
    BY <2>1, <2>2, NothingDone DEF Refines, Phase
<1>2. CASE /\ Found(r.acct) /\ bal <= MaxBal
           /\ Decide(r, Says1(OK, bal), <<Put(Recno(r.acct), bal),
                                          Log(Area("3", Held(r.acct).key, r.amount, bal))>>)
  <2>1. Held(r.acct).key \in Accts /\ Held(r.acct).val \in Balances
    BY <1>0, <1>2, FoundRecord DEF TellInv, BackendInv
  <2>2. bal \in Balances
    BY <1>0, <1>2, <2>1, BalanceFits
  <2>3. Area("3", Held(r.acct).key, r.amount, bal) \in Areas
    BY <1>0, <2>1, <2>2, AreaTyped
  <2>. QED
    BY <1>0, <1>2, <2>2, <2>3, AmountDecided
<1>3. CASE Die
  BY <1>3, DiedServing DEF Refines
<1>. QED
  BY <1>1, <1>2, <1>3 DEF Deposit

LEMMA WithdrawRefines ==
  ASSUME TellInv, BackendInv', proc = "idle", NEW r \in Requests,
         r.mtype = ACWD, Withdraw(r)
  PROVE  Refines(r)
<1> DEFINE bal == Held(r.acct).val - r.amount
<1>0. /\ r.acct \in Accts /\ r.amount \in Nat
      /\ Shown(customer, cindex, r.acct) = NoVal <=> ~Found(r.acct)
      /\ Found(r.acct) => Shown(customer, cindex, r.acct) = Held(r.acct).val
  BY RequestsAssumption, ShownFound
<1>a. Found(r.acct) => Held(r.acct).key \in Accts /\ Held(r.acct).val \in Balances
  BY <1>0, FoundRecord DEF TellInv, BackendInv
<1>1. CASE ~Found(r.acct) /\ \E answer : Decide(r, answer, << >>)
  <2>1. PICK answer : Decide(r, answer, << >>)
    BY <1>1
  <2>2. /\ req' = r /\ todo' = << >>
        /\ BalView' = BalView /\ BalView[r.acct] = NoVal
        /\ OwedView = NoReq /\ OwedView' = [req |-> r, answer |-> answer]
        /\ OwedView' # NoReq
    BY <1>0, <1>1, <2>1, NothingDone, Decided
  <2>3. LG!CarryOut(r)
    BY <2>2, SameMessages DEF LG!CarryOut, LG!Withdraw
  <2>. QED
    BY <2>2, <2>3, NothingDone DEF Refines, Phase
<1>2. CASE /\ Found(r.acct) /\ bal < 0
           /\ Decide(r, Says1(BALERR, Held(r.acct).val), << >>)
  <2>1. /\ req' = r /\ todo' = << >>
        /\ BalView' = BalView /\ BalView[r.acct] # NoVal
        /\ BalView[r.acct] = Held(r.acct).val
        /\ OwedView = NoReq
        /\ OwedView' = [req |-> r, answer |-> Says1(BALERR, BalView[r.acct])]
    BY <1>0, <1>2, NothingDone, Decided
  <2>2. BalView[r.acct] < r.amount
    BY <1>0, <1>a, <1>2, <2>1, MaxBalAssumption DEF Balances
  <2>3. LG!CarryOut(r)
    BY <2>1, <2>2, SameMessages DEF LG!CarryOut, LG!Withdraw, LG!Owe
  <2>. QED
    BY <2>1, <2>3, NothingDone DEF Refines, Phase
<1>3. CASE /\ Found(r.acct) /\ bal >= 0
           /\ Decide(r, Says1(OK, bal), <<Put(Recno(r.acct), bal),
                                          Log(Area("4", Held(r.acct).key, r.amount, bal))>>)
  <2>1. bal \in Balances
    BY <1>0, <1>a, <1>3, BalanceFits
  <2>2. Area("4", Held(r.acct).key, r.amount, bal) \in Areas
    BY <1>0, <1>a, <1>3, <2>1, AreaTyped
  <2>. QED
    BY <1>0, <1>3, <2>1, <2>2, AmountDecided
<1>4. CASE Die
  BY <1>4, DiedServing DEF Refines
<1>. QED
  BY <1>1, <1>2, <1>3, <1>4 DEF Withdraw

LEMMA TransferRefines ==
  ASSUME TellInv, BackendInv', proc = "idle", NEW r \in Requests,
         r.mtype = ATFR, Transfer(r)
  PROVE  Refines(r)
<1> DEFINE cust  == Held(r.acct)
           cust2 == Held(r.to)
           bal1  == cust.val - r.amount
           bal2  == cust2.val + r.amount
           calls == <<Put(Recno(r.to), bal2), Put(Recno(r.acct), bal1),
                      Log(Area("5", cust.key, r.amount, bal1)),
                      Log(Area("5", cust2.key, r.amount, bal2))>>
<1>0. /\ r.acct \in Accts /\ r.to \in Accts /\ r.amount \in Nat
      /\ Shown(customer, cindex, r.acct) = NoVal <=> ~Found(r.acct)
      /\ Found(r.acct) => Shown(customer, cindex, r.acct) = cust.val
      /\ Shown(customer, cindex, r.to) = NoVal <=> ~Found(r.to)
      /\ Found(r.to) => Shown(customer, cindex, r.to) = cust2.val
  BY RequestsAssumption, ShownFound
<1>a. /\ Found(r.acct) => cust.key \in Accts /\ cust.val \in Balances
      /\ Found(r.to) => cust2.key \in Accts /\ cust2.val \in Balances
  BY <1>0, FoundRecord DEF TellInv, BackendInv
<1>1. CASE \/ ~Found(r.acct) /\ Decide(r, Says(REC1ERR), << >>)
           \/ Found(r.acct) /\ ~Found(r.to) /\ Decide(r, Says(REC2ERR), << >>)
  <2>1. PICK code : /\ Decide(r, Says(code), << >>)
                    /\ \/ ~Found(r.acct) /\ code = REC1ERR
                       \/ Found(r.acct) /\ ~Found(r.to) /\ code = REC2ERR
    BY <1>1
  <2>2. /\ req' = r /\ todo' = << >>
        /\ BalView' = BalView
        /\ BalView[r.acct] = NoVal <=> ~Found(r.acct)
        /\ BalView[r.to] = NoVal <=> ~Found(r.to)
        /\ OwedView = NoReq /\ OwedView' = [req |-> r, answer |-> Says(code)]
    BY <1>0, <2>1, NothingDone, Decided
  <2>3. LG!CarryOut(r)
    BY <2>1, <2>2, SameMessages DEF LG!CarryOut, LG!Transfer, LG!Refuse, LG!Owe
  <2>. QED
    BY <2>2, <2>3, NothingDone DEF Refines, Phase
<1>2. CASE /\ Found(r.acct) /\ Found(r.to) /\ bal1 < 0
           /\ Decide(r, Says1(BALERR, cust.val), << >>)
  <2>1. /\ req' = r /\ todo' = << >>
        /\ BalView' = BalView /\ BalView[r.acct] # NoVal /\ BalView[r.to] # NoVal
        /\ BalView[r.acct] = cust.val
        /\ OwedView = NoReq
        /\ OwedView' = [req |-> r, answer |-> Says1(BALERR, BalView[r.acct])]
    BY <1>0, <1>2, NothingDone, Decided
  <2>2. BalView[r.acct] < r.amount
    BY <1>0, <1>a, <1>2, <2>1, MaxBalAssumption DEF Balances
  <2>3. LG!CarryOut(r)
    BY <2>1, <2>2, SameMessages DEF LG!CarryOut, LG!Transfer, LG!Owe
  <2>. QED
    BY <2>1, <2>3, NothingDone DEF Refines, Phase
<1>3. CASE /\ Found(r.acct) /\ Found(r.to) /\ bal1 >= 0 /\ bal2 <= MaxBal
           /\ Decide(r, Says2(OK, bal1, bal2), calls)
  <2>1. bal1 \in Balances /\ bal2 \in Balances
    BY <1>0, <1>a, <1>3, BalanceFits
  <2>2. /\ Area("5", cust.key, r.amount, bal1) \in Areas
        /\ Area("5", cust2.key, r.amount, bal2) \in Areas
    BY <1>0, <1>a, <1>3, <2>1, AreaTyped
  <2>3. TransferAhead(customer, cindex, r, Says2(OK, bal1, bal2), calls)
    BY <1>0, <1>3, <2>1, <2>2 DEF TransferAhead, Recno
  <2>4. Len(calls) # 3 /\ 1 \in DOMAIN calls /\ calls[1].call # "log"
    BY DEF Put
  <2> HIDE DEF calls
  <2>. QED
    BY <1>3, <2>3, <2>4, Decided DEF Refines, Phase
<1>4. CASE Die
  BY <1>4, DiedServing DEF Refines
<1>. QED
  BY <1>1, <1>2, <1>3, <1>4 DEF Transfer

LEMMA ServeRefines ==
  ASSUME KeepsAccounts, TellInv, BackendInv', NEW r \in Requests, Serve(r)
  PROVE  Refines(r)
<1>1. proc = "idle" /\ r.mtype # CLOS
  BY DEF Serve, KeepsAccounts
<1>. QED
  BY <1>1, PasswdRefines, OpenRefines, InquiryRefines, DepositRefines, WithdrawRefines,
     TransferRefines DEF Serve
-----------------------------------------------------------------------------
(* A data base call takes effect on the account it is for.                 *)
CallRefines ==
  /\ (\E q \in Requests : LG!CarryOut(q)) \/ UNCHANGED <<BalView, OwedView>>
  /\ req' \in Requests /\ Phase(customer', cindex', req', message', todo')

LEMMA PutShown ==
  ASSUME TellInv, CallPut, NEW a \in Accts
  PROVE  Shown(customer', cindex', a)
           = IF Shown(customer, cindex, a) # NoVal /\ GetIndex(cindex, a) = Head(todo).recno
             THEN Head(todo).bal ELSE Shown(customer, cindex, a)
<1>1. Shown(customer, cindex, a) = NoVal <=> ~Found(a)
  BY ShownFound
<1>2. /\ GetIndex(cindex', a) = GetIndex(cindex, a)
      /\ Found(a) /\ GetIndex(cindex, a) = Head(todo).recno
           => GetRecord(customer', GetIndex(cindex', a)).val = Head(todo).bal
      /\ Found(a) /\ GetIndex(cindex, a) # Head(todo).recno
           => GetRecord(customer', GetIndex(cindex', a)) = GetRecord(customer, GetIndex(cindex, a))
  BY PutHolds DEF Held, Recno
<1>. QED
  BY <1>1, <1>2 DEF Shown, Found, Recno

(* Only that account.                                                      *)
LEMMA PutOne ==
  ASSUME TellInv, CallPut, NEW acct \in Accts, Shown(customer, cindex, acct) # NoVal,
         NEW b, Head(todo) = Put(GetIndex(cindex, acct), b), NEW a \in Accts
  PROVE  Shown(customer', cindex', a)
           = IF a = acct THEN b ELSE Shown(customer, cindex, a)
<1>1. Head(todo).recno = GetIndex(cindex, acct) /\ Head(todo).bal = b
  BY DEF Put
<1>2. CASE a = acct
  BY <1>1, <1>2, PutShown
<1>3. CASE a # acct /\ Shown(customer, cindex, a) = NoVal
  BY <1>3, PutShown
<1>4. CASE a # acct /\ Shown(customer, cindex, a) # NoVal
  <2>1. Found(a) /\ Found(acct)
    BY <1>4, ShownFound
  <2>2. GetIndex(cindex, a) # GetIndex(cindex, acct)
    BY <1>4, <2>1, TwoRecords DEF Recno, TellInv, BackendInv
  <2>. QED
    BY <1>1, <1>4, <2>2, PutShown
<1>. QED
  BY <1>2, <1>3, <1>4

LEMMA PutBusy ==
  ASSUME LedgerInv, CallPut
  PROVE  /\ proc = "busy" /\ proc' = "busy" /\ req' = req /\ message' = message
         /\ todo # << >> /\ todo' = Tail(todo) /\ Head(todo).call = "put"
         /\ todo \in Seq(Calls) /\ cindex' = cindex
         /\ req \in Requests /\ Phase(customer, cindex, req, message, todo)
         /\ OwedView = NoReq /\ BackendInv /\ BackendInv'
<1>1. /\ proc = "busy" /\ proc' = "busy" /\ req' = req /\ message' = message
      /\ todo # << >> /\ todo' = Tail(todo) /\ Head(todo).call = "put"
      /\ cindex' = cindex
  BY DEF CallPut, Call
<1>2. BackendInv /\ todo \in Seq(Calls)
  BY DEF LedgerInv, TellInv, BackendInv, TypeOK
<1>3. 1 \in DOMAIN todo /\ todo[1].call # "log"
  BY <1>1, <1>2, RestOfCalls
<1>4. OwedView = NoReq
  BY <1>2, <1>3, OwedNow
<1>. QED
  BY <1>1, <1>2, <1>4, PutCalled DEF LedgerInv

LEMMA AmountRefines ==
  ASSUME LedgerInv, CallPut, AmountAhead(customer, cindex, req, message, todo)
  PROVE  CallRefines
<1>1. PICK b \in Balances, area \in Areas :
        /\ Shown(customer, cindex, req.acct) # NoVal
        /\ \/ req.mtype = ADEP /\ b = Shown(customer, cindex, req.acct) + req.amount
           \/ req.mtype = ACWD /\ b = Shown(customer, cindex, req.acct) - req.amount
        /\ message = Says1(OK, b)
        /\ todo = <<Put(GetIndex(cindex, req.acct), b), Log(area)>>
  BY DEF AmountAhead
<1>2. /\ proc = "busy" /\ proc' = "busy" /\ req' = req /\ message' = message
      /\ todo' = Tail(todo) /\ req \in Requests
      /\ OwedView = NoReq /\ BackendInv /\ BackendInv' /\ TellInv
  BY PutBusy DEF LedgerInv
<1>3. /\ Head(todo) = Put(GetIndex(cindex, req.acct), b)
      /\ todo' = <<Log(area)>> /\ Len(todo) # 3 /\ Len(todo') # 3
  BY <1>1, <1>2
<1>4. Done(todo')
  BY <1>3 DEF Done, Log
<1>5. OwedView' = [req |-> req, answer |-> message]
  BY <1>2, <1>4, OwedThen
<1>6. ~HalfDone /\ ~HalfDone'
  BY <1>3 DEF HalfDone
<1>7. /\ BalView = [a \in Accts |-> Shown(customer, cindex, a)]
      /\ BalView' = [a \in Accts |-> Shown(customer', cindex', a)]
  BY <1>6, ViewNow, ViewThen
<1>8. req.acct \in Accts /\ req.amount \in Nat
  BY <1>1, <1>2, RequestsAssumption
<1>9. ASSUME NEW a \in Accts
       PROVE  BalView'[a] = IF a = req.acct THEN b ELSE BalView[a]
  BY <1>1, <1>2, <1>3, <1>7, <1>8, PutOne
<1>10. BalView' = [BalView EXCEPT ![req.acct] = b]
  BY <1>7, <1>8, <1>9
<1>11. /\ BalView[req.acct] # NoVal /\ BalView[req.acct] \in Balances
       /\ BalView[req.acct] = Shown(customer, cindex, req.acct)
       /\ BalView'[req.acct] = b
  BY <1>1, <1>2, <1>7, <1>8, <1>9, ShownFound
<1>12. /\ req.mtype = ADEP => /\ BalView[req.acct] + req.amount <= MaxBal
                              /\ BalView' = [BalView EXCEPT ![req.acct] = @ + req.amount]
       /\ req.mtype = ACWD => /\ BalView[req.acct] >= req.amount
                              /\ BalView' = [BalView EXCEPT ![req.acct] = @ - req.amount]
  <2> DEFINE v == BalView[req.acct]
  <2>1. v \in Nat /\ b \in Nat /\ b <= MaxBal
    BY <1>1, <1>11, MaxBalAssumption DEF Balances
  <2>2. /\ req.mtype = ADEP => b = v + req.amount
        /\ req.mtype = ACWD => b = v - req.amount
    BY <1>1, <1>11 DEF ADEP, ACWD
  <2>3. /\ req.mtype = ADEP => v + req.amount <= MaxBal
        /\ req.mtype = ACWD => v >= req.amount
    BY <1>8, <2>1, <2>2
  <2>. QED
    BY <1>10, <2>2, <2>3
<1>13. LG!CarryOut(req)
  <2>1. CASE req.mtype = ADEP
    BY <1>1, <1>2, <1>5, <1>11, <1>12, <2>1, SameMessages DEF LG!CarryOut, LG!Deposit, LG!Owe
  <2>2. CASE req.mtype = ACWD
    BY <1>1, <1>2, <1>5, <1>11, <1>12, <2>2, SameMessages DEF LG!CarryOut, LG!Withdraw, LG!Owe
  <2>. QED
    BY <1>1, <2>1, <2>2
<1>. QED
  BY <1>2, <1>4, <1>13 DEF CallRefines, Phase

(* The first of the two writes of a transfer: the ledger is as it was.     *)
LEMMA FirstHalfRefines ==
  ASSUME KeepsAccounts, LedgerInv, CallPut,
         TransferAhead(customer, cindex, req, message, todo), TellInv'
  PROVE  CallRefines
<1>1. PICK bal1 \in Balances, bal2 \in Balances, area1 \in Areas, area2 \in Areas :
        /\ req.mtype = ATFR
        /\ Shown(customer, cindex, req.acct) # NoVal
        /\ bal1 = Shown(customer, cindex, req.acct) - req.amount
        /\ Shown(customer, cindex, req.to) # NoVal
        /\ bal2 = Shown(customer, cindex, req.to) + req.amount
        /\ message = Says2(OK, bal1, bal2)
        /\ todo = <<Put(GetIndex(cindex, req.to), bal2), Put(GetIndex(cindex, req.acct), bal1),
                    Log(area1), Log(area2)>>
  BY DEF TransferAhead
<1>2. /\ proc = "busy" /\ proc' = "busy" /\ req' = req /\ message' = message
      /\ todo' = Tail(todo) /\ req \in Requests /\ cindex' = cindex
      /\ OwedView = NoReq /\ BackendInv /\ BackendInv' /\ TellInv
  BY PutBusy DEF LedgerInv
<1>3. /\ Head(todo) = Put(GetIndex(cindex, req.to), bal2)
      /\ todo' = <<Put(GetIndex(cindex, req.acct), bal1), Log(area1), Log(area2)>>
      /\ Len(todo) = 4 /\ Len(todo') = 3
  BY <1>1, <1>2
<1>4. /\ req.acct \in Accts /\ req.to \in Accts /\ req.amount \in Nat
      /\ req.acct # req.to
  BY <1>1, <1>2, RequestsAssumption DEF KeepsAccounts, ATFR
<1>5. OwedView' = NoReq
  <2>1. 1 \in DOMAIN todo' /\ todo'[1].call # "log"
    BY <1>3 DEF Put
  <2>. QED
    BY <1>2, <2>1, OwedThen
<1>6. ~HalfDone /\ HalfDone'
  BY <1>1, <1>2, <1>3 DEF HalfDone
<1>7. /\ BalView = [a \in Accts |-> Shown(customer, cindex, a)]
      /\ BalView' = [a \in Accts |-> ShownHalf(customer', cindex', req', a)]
  BY <1>6, ViewNow, HalfThen
<1>8. \A a \in Accts : Shown(customer', cindex', a)
        = IF a = req.to THEN bal2 ELSE Shown(customer, cindex, a)
  BY <1>1, <1>2, <1>3, <1>4, PutOne
<1>9. /\ Shown(customer, cindex, req.to) \in Balances
      /\ bal2 # NoVal /\ bal2 - req.amount = Shown(customer, cindex, req.to)
  <2>1. Shown(customer, cindex, req.to) \in Balances
    BY <1>1, <1>2, <1>4, ShownFound
  <2>. QED
    BY <1>1, <1>4, <2>1, DbAssumptions, MaxBalAssumption DEF Balances
<1>10. BalView' = BalView
  <2>1. \A a \in Accts : ShownHalf(customer', cindex', req', a) = Shown(customer, cindex, a)
    BY <1>2, <1>8, <1>9 DEF ShownHalf
  <2>. QED
    BY <1>7, <2>1
<1>11. TransferHalf(customer', cindex', req', message', todo')
  BY <1>1, <1>2, <1>3, <1>4, <1>8, <1>9 DEF TransferHalf
<1>. QED
  BY <1>2, <1>5, <1>10, <1>11 DEF CallRefines, Phase

(* The second.                                                             *)
LEMMA SecondHalfRefines ==
  ASSUME KeepsAccounts, LedgerInv, CallPut,
         TransferHalf(customer, cindex, req, message, todo)
  PROVE  CallRefines
<1>1. PICK bal1 \in Balances, bal2 \in Balances, area1 \in Areas, area2 \in Areas :
        /\ req.mtype = ATFR
        /\ Shown(customer, cindex, req.acct) # NoVal
        /\ bal1 = Shown(customer, cindex, req.acct) - req.amount
        /\ Shown(customer, cindex, req.to) = bal2 /\ bal2 - req.amount \in Balances
        /\ message = Says2(OK, bal1, bal2)
        /\ todo = <<Put(GetIndex(cindex, req.acct), bal1), Log(area1), Log(area2)>>
  BY DEF TransferHalf
<1>2. /\ proc = "busy" /\ proc' = "busy" /\ req' = req /\ message' = message
      /\ todo' = Tail(todo) /\ req \in Requests
      /\ OwedView = NoReq /\ BackendInv /\ BackendInv' /\ TellInv
  BY PutBusy DEF LedgerInv
<1>3. /\ Head(todo) = Put(GetIndex(cindex, req.acct), bal1)
      /\ todo' = <<Log(area1), Log(area2)>> /\ Len(todo) = 3 /\ Len(todo') # 3
  BY <1>1, <1>2
<1>4. /\ req.acct \in Accts /\ req.to \in Accts /\ req.amount \in Nat
      /\ req.acct # req.to
  BY <1>1, <1>2, RequestsAssumption DEF KeepsAccounts, ATFR
<1>5. Done(todo')
  BY <1>3 DEF Done, Log
<1>6. OwedView' = [req |-> req, answer |-> message]
  BY <1>2, <1>5, OwedThen
<1>7. HalfDone /\ ~HalfDone'
  BY <1>1, <1>2, <1>3 DEF HalfDone
<1>8. /\ BalView = [a \in Accts |-> ShownHalf(customer, cindex, req, a)]
      /\ BalView' = [a \in Accts |-> Shown(customer', cindex', a)]
  BY <1>2, <1>7, HalfNow, ViewThen
<1>9. \A a \in Accts : Shown(customer', cindex', a)
        = IF a = req.acct THEN bal1 ELSE Shown(customer, cindex, a)
  BY <1>1, <1>2, <1>3, <1>4, PutOne
<1>10. /\ Shown(customer, cindex, req.acct) \in Balances
       /\ bal2 # NoVal /\ bal2 - req.amount # NoVal
  <2>1. Shown(customer, cindex, req.acct) \in Balances
    BY <1>1, <1>2, <1>4, ShownFound
  <2>. QED
    BY <1>1, <2>1, DbAssumptions
<1> DEFINE v == BalView[req.acct]
           w == BalView[req.to]
<1>11. v = Shown(customer, cindex, req.acct) /\ w = bal2 - req.amount
  BY <1>1, <1>4, <1>8, <1>10 DEF ShownHalf
<1>12. /\ v # NoVal /\ w # NoVal /\ v >= req.amount /\ w + req.amount <= MaxBal
       /\ v - req.amount = bal1 /\ w + req.amount = bal2
  BY <1>1, <1>4, <1>10, <1>11, MaxBalAssumption DEF Balances
<1>13. BalView' = [[BalView EXCEPT ![req.acct] = bal1] EXCEPT ![req.to] = bal2]
  <2>1. ASSUME NEW a \in Accts
        PROVE  BalView'[a]
                 = IF a = req.to THEN bal2 ELSE IF a = req.acct THEN bal1 ELSE BalView[a]
    BY <1>1, <1>4, <1>8, <1>9 DEF ShownHalf
  <2>. QED
    BY <1>4, <1>8, <2>1
<1>14. BalView' = [[BalView EXCEPT ![req.acct] = @ - req.amount]
                      EXCEPT ![req.to] = @ + req.amount]
  <2>1. [BalView EXCEPT ![req.acct] = bal1][req.to] = w
    BY <1>4, <1>8
  <2>. QED
    BY <1>12, <1>13, <2>1
<1>15. BalView'[req.acct] = bal1 /\ BalView'[req.to] = bal2
  BY <1>1, <1>4, <1>8, <1>9
<1>16. LG!CarryOut(req)
  BY <1>1, <1>2, <1>6, <1>12, <1>14, <1>15, SameMessages
  DEF LG!CarryOut, LG!Transfer, LG!Owe
<1>. QED
  BY <1>2, <1>5, <1>16 DEF CallRefines, Phase

LEMMA PutRefines ==
  ASSUME KeepsAccounts, LedgerInv, CallPut, TellInv'
  PROVE  CallRefines
<1>1. /\ todo # << >> /\ Head(todo).call = "put" /\ todo \in Seq(Calls)
      /\ Phase(customer, cindex, req, message, todo)
  BY PutBusy
<1>2. Head(todo) = todo[1] /\ 1 \in DOMAIN todo
  BY <1>1, RestOfCalls
<1>3. ~Done(todo)
  BY <1>1, <1>2 DEF Done
<1>4. ~OpenAhead(customer, cindex, req, message, todo)
  BY <1>1, <1>2 DEF OpenAhead, Insert
<1>. QED
  BY <1>1, <1>3, <1>4, AmountRefines, FirstHalfRefines, SecondHalfRefines DEF Phase

LEMMA InsertRefines ==
  ASSUME LedgerInv, CallInsert
  PROVE  CallRefines
<1>1. /\ proc = "busy" /\ proc' = "busy" /\ req' = req /\ message' = message
      /\ todo # << >> /\ todo' = Tail(todo) /\ Head(todo).call = "insert"
      /\ todo \in Seq(Calls) /\ req \in Requests
      /\ TellInv /\ BackendInv /\ BackendInv'
      /\ Phase(customer, cindex, req, message, todo)
  BY InsertCalled DEF CallInsert, Call, LedgerInv, TellInv, BackendInv, TypeOK
<1>2. Head(todo) = todo[1] /\ 1 \in DOMAIN todo
  BY <1>1, RestOfCalls
<1>3. OpenAhead(customer, cindex, req, message, todo)
  BY <1>1, <1>2 DEF Phase, Done, AmountAhead, TransferAhead, TransferHalf, Put
<1>4. PICK area :
        /\ req.mtype = OPEN /\ Shown(customer, cindex, req.acct) = NoVal
        /\ message = Says(OK) /\ todo = <<Insert(req.acct), Log(area)>>
  BY <1>3 DEF OpenAhead
<1>5. /\ Head(todo).acct = req.acct /\ todo' = <<Log(area)>>
      /\ Len(todo) # 3 /\ Len(todo') # 3
  BY <1>1, <1>4 DEF Insert
<1>6. Done(todo')
  BY <1>5 DEF Done, Log
<1>7. OwedView = NoReq /\ OwedView' = [req |-> req, answer |-> message]
  <2>1. todo[1].call # "log"
    BY <1>1, <1>2
  <2>. QED
    BY <1>1, <1>2, <1>6, <2>1, OwedNow, OwedThen
<1>8. ~HalfDone /\ ~HalfDone'
  BY <1>5 DEF HalfDone
<1>9. /\ BalView = [a \in Accts |-> Shown(customer, cindex, a)]
      /\ BalView' = [a \in Accts |-> Shown(customer', cindex', a)]
  BY <1>8, ViewNow, ViewThen
<1>10. req.acct \in Accts
  BY <1>1, <1>4, RequestsAssumption
<1>11. ASSUME NEW a \in Accts
       PROVE  Shown(customer', cindex', a)
                = IF a = req.acct THEN 0 ELSE Shown(customer, cindex, a)
  <2>1. PICK acct : acct = Head(todo).acct
    OBVIOUS
  <2>2. acct = req.acct
    BY <1>5, <2>1
  <2>3. /\ Found(acct)' /\ Held(acct)'.val = 0
        /\ a # acct => (Found(a)' <=> Found(a)) /\ (Found(a) => Held(a)' = Held(a))
    BY <1>1, <2>1, InsertHolds
  <2>. QED
    BY <2>2, <2>3 DEF Shown, Found, Held, Recno
<1>12. BalView[req.acct] = NoVal /\ BalView' = [BalView EXCEPT ![req.acct] = 0]
  BY <1>4, <1>9, <1>10, <1>11
<1>13. LG!CarryOut(req)
  BY <1>1, <1>4, <1>7, <1>12, SameMessages DEF LG!CarryOut, LG!OpenAcct, LG!Owe
<1>. QED
  BY <1>1, <1>6, <1>13 DEF CallRefines, Phase

LEMMA LogRefines ==
  ASSUME LedgerInv, CallLog
  PROVE  CallRefines
<1>1. /\ proc = "busy" /\ proc' = "busy" /\ req' = req /\ message' = message
      /\ todo # << >> /\ todo' = Tail(todo) /\ Head(todo).call = "log"
      /\ todo \in Seq(Calls) /\ req \in Requests
      /\ customer' = customer /\ cindex' = cindex /\ BackendInv /\ BackendInv'
      /\ Phase(customer, cindex, req, message, todo)
  BY LogCalled DEF CallLog, Call, LedgerInv, TellInv, BackendInv, TypeOK
<1>2. Head(todo) = todo[1] /\ 1 \in DOMAIN todo
  BY <1>1, RestOfCalls
<1>3. Done(todo)
  BY <1>1, <1>2 DEF Phase, OpenAhead, AmountAhead, TransferAhead, TransferHalf, Put, Insert
<1>4. Done(todo') /\ Len(todo) # 3 /\ Len(todo') # 3
  <2>1. Len(todo) \in Nat /\ Len(todo') = Len(todo) - 1
    BY <1>1
  <2>2. \A i \in DOMAIN todo' : todo'[i].call = "log"
    BY <1>1, <1>3, RestOfCalls DEF Done
  <2>. QED
    BY <1>3, <2>1, <2>2 DEF Done
<1>5. OwedView' = OwedView
  BY <1>1, <1>3, <1>4, OwedNow, OwedThen
<1>6. BalView' = BalView
  BY <1>1, <1>4, ViewNow, ViewThen DEF HalfDone
<1>. QED
  BY <1>1, <1>4, <1>5, <1>6 DEF CallRefines, Phase
-----------------------------------------------------------------------------
(* The reply is sent, or the process dies with it.                         *)
LEMMA Settles ==
  ASSUME LedgerInv, BackendInv', proc' # "busy", UNCHANGED <<customer, cindex>>, ~HalfDone
  PROVE  LG!Settle \/ UNCHANGED <<BalView, OwedView>>
<1>1. ~HalfDone'
  BY DEF HalfDone
<1>2. BalView' = BalView
  BY <1>1, ViewNow, ViewThen
<1>3. OwedView' = NoReq
  BY OwedThen
<1>. QED
  BY <1>2, <1>3 DEF LG!Settle

LEMMA LedgerStep ==
  ASSUME KeepsAccounts, WholeTransfers, LedgerInv, [Next]_vars
  PROVE  LedgerInv' /\ [LG!Next]_<<BalView, OwedView>>
<1>0. TellInv /\ TellInv' /\ BackendInv' /\ kills \in Nat
  BY TellStep DEF LedgerInv, TellInv, BackendInv, TypeOK
<1>1. CASE \E r \in Requests : Serve(r)
  BY <1>0, <1>1, ServeRefines DEF Refines, LedgerInv, LG!Next
<1>2. CASE CallPut \/ CallInsert \/ CallLog
  BY <1>0, <1>2, PutRefines, InsertRefines, LogRefines DEF CallRefines, LedgerInv, LG!Next
<1>3. CASE CallDelete
  <2>1. todo # << >> /\ Head(todo).call = "delete" /\ todo \in Seq(Calls)
    BY <1>0, <1>3 DEF CallDelete, Call, TellInv, BackendInv, TypeOK
  <2>. QED
    BY <1>0, <2>1, RestOfCalls DEF TellInv, Truthful
<1>4. CASE Send
  <2>1. proc' # "busy" /\ UNCHANGED <<customer, cindex>> /\ ~HalfDone
    BY <1>4 DEF Send, disk, HalfDone
  <2>. QED
    BY <1>0, <2>1, Settles DEF LedgerInv, LG!Next
<1>5. CASE Kill
  <2>1. proc' # "busy" /\ UNCHANGED <<customer, cindex>> /\ kills < MaxKills
    BY <1>5 DEF Kill, Die, disk
  <2>2. ~HalfDone
    BY <1>0, <2>1 DEF WholeTransfers, LedgerInv, HalfDone
  <2>. QED
    BY <1>0, <2>1, <2>2, Settles DEF LedgerInv, LG!Next
<1>6. CASE Restart
  <2>1. proc # "busy" /\ proc' # "busy" /\ UNCHANGED <<customer, cindex>>
    BY <1>6 DEF Restart, disk
  <2>. QED
    BY <1>0, <2>1, Settles DEF HalfDone, LedgerInv, LG!Next
<1>7. CASE UNCHANGED vars
  <2>1. UNCHANGED <<customer, cindex, proc, req, message, todo>>
    BY <1>7 DEF vars, disk, memory
  <2>2. UNCHANGED <<BalView, OwedView>>
    BY <2>1 DEF BalView, OwedView, HalfDone, Found, Recno, Held
  <2>. QED
    BY <1>0, <2>1, <2>2 DEF LedgerInv
<1>. QED
  BY <1>1, <1>2, <1>3, <1>4, <1>5, <1>6, <1>7 DEF Next, Work

(* For any number of accounts, requests and amounts, every request takes   *)
(* effect once and as a whole and is owed the reply that belongs to it, if *)
(* no account is closed, no transfer is from an account to itself, and     *)
(* there are either no kills or no transfers (BACKEND.C:62-353).           *)
THEOREM BackendImplementsLedger ==
  KeepsAccounts /\ WholeTransfers => (Spec => ImplementsLedger)
<1> SUFFICES ASSUME KeepsAccounts, WholeTransfers
             PROVE  Spec => ImplementsLedger
  OBVIOUS
<1>1. Init => LedgerInv
  BY TellInit DEF LedgerInv, Init
<1>2. Init => LG!Init
  <2> SUFFICES ASSUME Init
               PROVE  LG!Init
    OBVIOUS
  <2>1. \A a \in Accts : ~Found(a)
    BY DEF Init, EmptyIndex, Found, Recno, GetIndex, Live
  <2>2. OwedView = NoReq
    BY DEF Init, OwedView
  <2>. QED
    BY <2>1, <2>2 DEF LG!Init, BalView
<1>3. LedgerInv /\ [Next]_vars => LedgerInv' /\ [LG!Next]_(LG!vars)
  BY LedgerStep DEF LG!vars
<1>. QED
  BY <1>1, <1>2, <1>3, PTL DEF Spec, ImplementsLedger, LG!Spec
=============================================================================
