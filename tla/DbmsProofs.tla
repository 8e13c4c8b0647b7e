----------------------------- MODULE DbmsProofs -----------------------------
(***************************************************************************)
(* Theorems about Dbms.tla for every set of keys and values and every      *)
(* bound on the file, with the lemmas about the index table they rest on.  *)
(***************************************************************************)
EXTENDS Dbms, TLAPS, FiniteSetTheorems, LeastNumber

(* The entries of an index that are in use.                                *)
LiveEntries(ix) == { ix[i] : i \in Live(ix) }

(* What the entries of an index are.                                       *)
LEMMA EntryFields ==
  ASSUME NEW ix \in Seq(Entries(Keys))
  PROVE  /\ Len(ix) \in Nat
         /\ DOMAIN ix = 1 .. Len(ix)
         /\ \A p \in 1 .. Len(ix) : /\ ix[p].key \in Keys
                                    /\ ix[p].key \in Nat
                                    /\ ix[p].status \in {FREE, OCCUPIED}
                                    /\ ix[p].recno \in Nat
<1>1. \A p \in 1 .. Len(ix) : ix[p] \in Entries(Keys)
  OBVIOUS
<1>2. \A e \in Entries(Keys) : /\ e.key \in Keys
                               /\ e.status \in {FREE, OCCUPIED}
                               /\ e.recno \in Nat
  BY DEF Entries
<1>3. Len(ix) \in Nat /\ DOMAIN ix = 1 .. Len(ix)
  OBVIOUS
<1>4. \A p \in 1 .. Len(ix) : /\ ix[p].key \in Keys
                              /\ ix[p].status \in {FREE, OCCUPIED}
                              /\ ix[p].recno \in Nat
  BY <1>1, <1>2, Zenon
<1>5. \A x \in Keys : x \in Nat
  BY KeysAssumption
<1>. QED
  BY <1>3, <1>4, <1>5, Zenon

(* A key that is not above the last one has a first position not below it. *)
LEMMA InsertPosExists ==
  ASSUME NEW ix \in Seq(Entries(Keys)), ix # << >>,
         NEW k \in Keys, ~(k > ix[Len(ix)].key)
  PROVE  /\ InsertPos(ix, k) \in DOMAIN ix
         /\ ix[InsertPos(ix, k)].key >= k
         /\ \A q \in 1 .. (InsertPos(ix, k) - 1) : ix[q].key < k
<1> DEFINE S == { p \in DOMAIN ix : ix[p].key >= k }
<1>1. DOMAIN ix = 1 .. Len(ix) /\ \A p \in DOMAIN ix : ix[p].key \in Nat
  BY EntryFields
<1>2. k \in Nat
  BY KeysAssumption
<1>3. Len(ix) \in S
  <2>1. Len(ix) \in DOMAIN ix
    OBVIOUS
  <2>. QED
    BY <1>1, <1>2, <2>1
<1>4. PICK m \in S : \A q \in S : m <= q
  <2>1. S \in SUBSET Nat
    BY <1>1
  <2> HIDE DEF S
  <2>. QED
    BY <1>3, <2>1, LeastNatural
<1>5. \A q \in 1 .. (m - 1) : ix[q].key < k
  BY <1>1, <1>2, <1>4
<1>6. \E p \in DOMAIN ix : /\ ix[p].key >= k
                           /\ \A q \in 1 .. (p - 1) : ix[q].key < k
  BY <1>4, <1>5
<1>. QED
  BY <1>6 DEF InsertPos

(* add_index yields an index.                                              *)
LEMMA AddIndexType ==
  ASSUME NEW ix \in Seq(Entries(Keys)), NEW r \in Nat, NEW k \in Keys
  PROVE  AddIndex(ix, r, k) \in Seq(Entries(Keys))
<1>1. EntryFor(r, k) \in Entries(Keys)
  BY DEF EntryFor, Entries, OCCUPIED
<1>2. CASE ix = << >> \/ k > ix[Len(ix)].key
  BY <1>1, <1>2 DEF AddIndex
<1>3. CASE ~(ix = << >> \/ k > ix[Len(ix)].key)
  <2> DEFINE pos == InsertPos(ix, k)
  <2>1. pos \in 1 .. Len(ix)
    BY <1>3, InsertPosExists
  <2>2. [ix EXCEPT ![pos] = EntryFor(r, k)] \in Seq(Entries(Keys))
    BY <1>1, <2>1
  <2>3. ShiftIn(ix, pos, EntryFor(r, k)) \in Seq(Entries(Keys))
    <3>1. ShiftIn(ix, pos, EntryFor(r, k)) \in [1 .. (Len(ix) + 1) -> Entries(Keys)]
      <4>1. \A i \in 1 .. (Len(ix) + 1) :
               (IF i < pos THEN ix[i] ELSE IF i = pos THEN EntryFor(r, k) ELSE ix[i - 1])
                  \in Entries(Keys)
        BY <1>1, <2>1
      <4>. QED
        BY <4>1 DEF ShiftIn
    <3>. QED
      BY <3>1
  <2>. QED
    BY <1>3, <2>2, <2>3 DEF AddIndex
<1>. QED
  BY <1>2, <1>3

(* A key that no live entry has is added in order: add_index keeps the     *)
(* table strictly ascending, whether it appends, reuses a free slot or     *)
(* shifts.                                                                 *)
LEMMA AddIndexSorted ==
  ASSUME NEW ix \in Seq(Entries(Keys)), NEW r \in Nat, NEW k \in Keys,
         Sorted(ix), \A i \in Live(ix) : ix[i].key # k
  PROVE  Sorted(AddIndex(ix, r, k))
<1>0. /\ k \in Nat
      /\ Len(ix) \in Nat /\ DOMAIN ix = 1 .. Len(ix)
      /\ \A p \in 1 .. Len(ix) : ix[p].key \in Nat /\ ix[p].status \in {FREE, OCCUPIED}
  BY KeysAssumption, EntryFields
<1>1. CASE ix = << >>
  BY <1>1 DEF AddIndex, Sorted, EntryFor
<1>2. CASE ix # << >> /\ k > ix[Len(ix)].key
  <2>1. \A i \in DOMAIN ix : ix[i].key < k
    BY <1>0, <1>2 DEF Sorted
  <2>. QED
    BY <1>0, <1>2, <2>1 DEF AddIndex, Sorted, EntryFor
<1>3. CASE ix # << >> /\ ~(k > ix[Len(ix)].key)
  <2> DEFINE pos == InsertPos(ix, k)
             e   == EntryFor(r, k)
  <2>1. /\ pos \in 1 .. Len(ix)
        /\ ix[pos].key >= k
        /\ \A q \in 1 .. (pos - 1) : ix[q].key < k
    BY <1>3, InsertPosExists
  <2>2. \A q \in (pos + 1) .. Len(ix) : ix[q].key > k
    BY <1>0, <2>1 DEF Sorted
  <2>3. e.key = k
    BY DEF EntryFor
  <2>4. CASE ix[pos].status = FREE
    <3> DEFINE new == [ix EXCEPT ![pos] = e]
    <3>1. AddIndex(ix, r, k) = new
      BY <1>3, <2>4 DEF AddIndex
    <3>2. \A i \in 1 .. Len(ix) : new[i] = IF i = pos THEN e ELSE ix[i]
      BY <2>1
    <3>3. DOMAIN new = 1 .. Len(ix)
      OBVIOUS
    <3>4. SUFFICES ASSUME NEW i \in 1 .. Len(ix), NEW j \in 1 .. Len(ix), i < j
                   PROVE  new[i].key < new[j].key
      BY <3>1, <3>3 DEF Sorted
    <3>. QED
      BY <1>0, <2>1, <2>2, <2>3, <3>2, <3>4 DEF Sorted
  <2>5. CASE ix[pos].status # FREE
    <3> DEFINE new == ShiftIn(ix, pos, e)
    <3>1. AddIndex(ix, r, k) = new
      BY <1>3, <2>5 DEF AddIndex
    <3>2. ix[pos].key > k
      <4>1. pos \in Live(ix)
        BY <1>0, <2>1, <2>5 DEF Live
      <4>. QED
        BY <1>0, <2>1, <4>1
    <3>3. \A i \in 1 .. (Len(ix) + 1) :
             new[i] = IF i < pos THEN ix[i] ELSE IF i = pos THEN e ELSE ix[i - 1]
      BY DEF ShiftIn
    <3>4. DOMAIN new = 1 .. (Len(ix) + 1)
      BY DEF ShiftIn
    <3>5. SUFFICES ASSUME NEW i \in 1 .. (Len(ix) + 1), NEW j \in 1 .. (Len(ix) + 1), i < j
                   PROVE  new[i].key < new[j].key
      BY <3>1, <3>4 DEF Sorted
    <3> HIDE DEF new, pos, e
    <3>6. CASE j < pos
      BY <2>1, <3>3, <3>5, <3>6 DEF Sorted
    <3>7. CASE j = pos
      BY <2>1, <2>3, <3>3, <3>5, <3>7
    <3>8. CASE j > pos
      <4>1. new[j] = ix[j - 1] /\ j - 1 \in pos .. Len(ix)
        BY <2>1, <3>3, <3>8
      <4>2. ix[j - 1].key > k
        <5>1. j - 1 = pos \/ j - 1 \in (pos + 1) .. Len(ix)
          BY <1>0, <2>1, <4>1
        <5>. QED
          BY <2>2, <3>2, <5>1
      <4>3. CASE i < pos
        <5>1. new[i] = ix[i] /\ i \in 1 .. (pos - 1)
          BY <2>1, <3>3, <4>3
        <5>2. ix[i].key < k
          BY <2>1, <5>1
        <5>. QED
          BY <1>0, <2>1, <4>1, <4>2, <5>1, <5>2
      <4>4. CASE i = pos
        <5>1. new[i] = e
          BY <2>1, <3>3, <4>4
        <5>. QED
          BY <2>3, <4>1, <4>2, <5>1
      <4>5. CASE i > pos
        <5>1. new[i] = ix[i - 1] /\ i - 1 \in 1 .. Len(ix) /\ i - 1 < j - 1
          BY <2>1, <3>3, <3>5, <4>5
        <5>2. j - 1 \in 1 .. Len(ix)
          BY <2>1, <4>1
        <5>. QED
          BY <4>1, <5>1, <5>2 DEF Sorted
      <4>. QED
        BY <2>1, <4>3, <4>4, <4>5
    <3>. QED
      BY <2>1, <3>6, <3>7, <3>8
  <2>. QED
    BY <2>4, <2>5
<1>. QED
  BY <1>1, <1>2, <1>3

(* add_index adds exactly one entry: the entries in use before it are all  *)
(* still there, wherever they have moved to.                               *)
LEMMA AddIndexLive ==
  ASSUME NEW ix \in Seq(Entries(Keys)), NEW r \in Nat, NEW k \in Keys
  PROVE  LiveEntries(AddIndex(ix, r, k)) = LiveEntries(ix) \cup {EntryFor(r, k)}
<1> DEFINE e == EntryFor(r, k)
<1>0. /\ Len(ix) \in Nat /\ DOMAIN ix = 1 .. Len(ix)
      /\ e.status = OCCUPIED
      /\ FREE # OCCUPIED
  BY EntryFields DEF EntryFor, FREE, OCCUPIED
<1>1. CASE ix = << >> \/ k > ix[Len(ix)].key
  <2> DEFINE new == Append(ix, e)
  <2>1. AddIndex(ix, r, k) = new
    BY <1>1 DEF AddIndex
  <2>2. /\ DOMAIN new = 1 .. (Len(ix) + 1)
        /\ \A i \in 1 .. Len(ix) : new[i] = ix[i]
        /\ new[Len(ix) + 1] = e
    BY <1>0
  <2> HIDE DEF new, e
  <2>. QED
    BY <1>0, <2>1, <2>2 DEF LiveEntries, Live, e
<1>2. CASE ~(ix = << >> \/ k > ix[Len(ix)].key)
  <2> DEFINE pos == InsertPos(ix, k)
  <2>1. pos \in 1 .. Len(ix)
    BY <1>0, <1>2, InsertPosExists
  <2>2. CASE ix[pos].status = FREE
    <3> DEFINE new == [ix EXCEPT ![pos] = e]
    <3>1. AddIndex(ix, r, k) = new
      BY <1>2, <2>2 DEF AddIndex
    <3>2. /\ DOMAIN new = 1 .. Len(ix)
          /\ \A i \in 1 .. Len(ix) : new[i] = IF i = pos THEN e ELSE ix[i]
      BY <1>0, <2>1
    <3> HIDE DEF new, e, pos
    <3>. QED
      BY <1>0, <2>1, <2>2, <3>1, <3>2 DEF LiveEntries, Live, e
  <2>3. CASE ix[pos].status # FREE
    <3> DEFINE new == ShiftIn(ix, pos, e)
    <3>1. AddIndex(ix, r, k) = new
      BY <1>2, <2>3 DEF AddIndex
    <3>2. /\ DOMAIN new = 1 .. (Len(ix) + 1)
          /\ \A i \in 1 .. (Len(ix) + 1) :
                new[i] = IF i < pos THEN ix[i] ELSE IF i = pos THEN e ELSE ix[i - 1]
      BY <1>0 DEF ShiftIn
    <3> HIDE DEF new, e, pos
    <3>3. LiveEntries(new) \subseteq LiveEntries(ix) \cup {e}
      <4>1. ASSUME NEW i \in 1 .. (Len(ix) + 1), new[i].status = OCCUPIED
            PROVE  new[i] = e \/ \E q \in 1 .. Len(ix) : new[i] = ix[q]
        <5>1. CASE i < pos
          BY <1>0, <2>1, <3>2, <5>1
        <5>2. CASE i = pos
          BY <3>2, <5>2
        <5>3. CASE i > pos
          <6>1. new[i] = ix[i - 1] /\ i - 1 \in 1 .. Len(ix)
            BY <1>0, <2>1, <3>2, <5>3
          <6>. QED
            BY <6>1
        <5>. QED
          BY <1>0, <2>1, <5>1, <5>2, <5>3
      <4>. QED
        BY <1>0, <3>2, <4>1 DEF LiveEntries, Live
    <3>4. LiveEntries(ix) \subseteq LiveEntries(new)
      <4>1. ASSUME NEW q \in 1 .. Len(ix)
            PROVE  \E i \in 1 .. (Len(ix) + 1) : new[i] = ix[q]
        <5>1. CASE q < pos
          BY <1>0, <2>1, <3>2, <5>1
        <5>2. CASE q >= pos
          <6>1. q + 1 \in 1 .. (Len(ix) + 1) /\ new[q + 1] = ix[q]
            BY <1>0, <2>1, <3>2, <5>2
          <6>. QED
            BY <6>1
        <5>. QED
          BY <1>0, <2>1, <5>1, <5>2
      <4>. QED
        BY <1>0, <3>2, <4>1 DEF LiveEntries, Live
    <3>5. e \in LiveEntries(new)
      <4>1. pos \in 1 .. (Len(ix) + 1) /\ new[pos] = e
        BY <1>0, <2>1, <3>2
      <4>. QED
        BY <1>0, <3>2, <4>1, Zenon DEF LiveEntries, Live
    <3>. QED
      BY <3>1, <3>3, <3>4, <3>5, Zenon DEF e
  <2>. QED
    BY <2>2, <2>3
<1>. QED
  BY <1>1, <1>2

(* In a table sorted by key, get_index answers with the record number of   *)
(* the one entry in use that has the key, and with 0 when there is none.   *)
LEMMA GetIndexCorrect ==
  ASSUME NEW ix \in Seq(Entries(Keys)), NEW k \in Keys, Sorted(ix)
  PROVE  /\ \A e \in LiveEntries(ix) : e.key = k => GetIndex(ix, k) = e.recno
         /\ (\A e \in LiveEntries(ix) : e.key # k) => GetIndex(ix, k) = 0
         /\ GetIndex(ix, k) \in Nat
<1>0. /\ Len(ix) \in Nat /\ DOMAIN ix = 1 .. Len(ix)
      /\ \A p \in 1 .. Len(ix) : ix[p].key \in Nat /\ ix[p].recno \in Nat
  BY EntryFields
<1>1. \A i, j \in 1 .. Len(ix) : ix[i].key = ix[j].key => i = j
  BY <1>0 DEF Sorted
<1>2. Live(ix) \subseteq 1 .. Len(ix)
  BY <1>0 DEF Live
<1>3. CASE \E i \in Live(ix) : ix[i].key = k
  <2>1. PICK c \in Live(ix) : ix[c].key = k /\ GetIndex(ix, k) = ix[c].recno
    BY <1>3, Zenon DEF GetIndex
  <2>2. \A i \in Live(ix) : ix[i].key = k => i = c
    BY <1>1, <1>2, <2>1
  <2>. QED
    BY <1>0, <1>2, <1>3, <2>1, <2>2 DEF LiveEntries
<1>4. CASE ~(\E i \in Live(ix) : ix[i].key = k)
  BY <1>4 DEF GetIndex, LiveEntries
<1>. QED
  BY <1>3, <1>4

-----------------------------------------------------------------------------
(* A record file whose record numbers all lie inside it.                   *)
Linked(f) ==
    /\ f.free_recno \in {0} \cup DOMAIN f.recs
    /\ \A r \in DOMAIN f.recs : f.recs[r].next_recno \in {0} \cup DOMAIN f.recs

(* What a record file and its records are.                                 *)
LEMMA FileFields ==
  ASSUME NEW f \in Files(Keys, Vals)
  PROVE  /\ f.free_recno \in Nat
         /\ f.recs \in Seq(Records(Keys, Vals))
         /\ Len(f.recs) \in Nat
         /\ DOMAIN f.recs = 1 .. Len(f.recs)
         /\ \A r \in 1 .. Len(f.recs) : /\ f.recs[r] \in Records(Keys, Vals)
                                        /\ f.recs[r].status \in {FREE, OCCUPIED}
                                        /\ f.recs[r].next_recno \in Nat
                                        /\ f.recs[r].buf \in Buffers(Keys, Vals)
<1>1. f.free_recno \in Nat /\ f.recs \in Seq(Records(Keys, Vals))
  BY DEF Files
<1>2. Len(f.recs) \in Nat /\ DOMAIN f.recs = 1 .. Len(f.recs)
  BY <1>1
<1>3. \A r \in 1 .. Len(f.recs) : f.recs[r] \in Records(Keys, Vals)
  BY <1>1
<1>4. \A rec \in Records(Keys, Vals) : /\ rec.status \in {FREE, OCCUPIED}
                                       /\ rec.next_recno \in Nat
                                       /\ rec.buf \in Buffers(Keys, Vals)
  BY DEF Records
<1>. QED
  BY <1>1, <1>2, <1>3, <1>4, Zenon

(* add_record returns a record inside the file it leaves, whose other      *)
(* records it keeps.                                                       *)
LEMMA AddRecordFile ==
  ASSUME NEW f \in Files(Keys, Vals), Linked(f), NEW b \in Buffers(Keys, Vals)
  PROVE  LET g == AddRecord(f, b)
         IN  /\ g \in Files(Keys, Vals)
             /\ Linked(g)
             /\ NextRecno(f) \in DOMAIN g.recs
             /\ DOMAIN f.recs \subseteq DOMAIN g.recs
             /\ DOMAIN g.recs = DOMAIN f.recs \cup {NextRecno(f)}
             /\ g.recs[NextRecno(f)] = Occupied(b)
             /\ \A r \in DOMAIN f.recs \ {NextRecno(f)} : g.recs[r] = f.recs[r]
<1> DEFINE g == AddRecord(f, b)
           o == Occupied(b)
<1>1. o \in Records(Keys, Vals) /\ o.next_recno = 0
  BY DEF Occupied, Records, OCCUPIED
<1>2. CASE f.free_recno # 0
  <2> DEFINE n == f.free_recno
             rs == [f.recs EXCEPT ![n] = o]
  <2>1. n \in 1 .. Len(f.recs) /\ NextRecno(f) = n
    BY <1>2, FileFields DEF Linked, NextRecno
  <2>2. g = [free_recno |-> f.recs[n].next_recno, recs |-> rs]
    BY <1>2 DEF AddRecord
  <2>3. rs \in Seq(Records(Keys, Vals)) /\ DOMAIN rs = DOMAIN f.recs
    BY <1>1, <2>1, FileFields
  <2>4. rs[n] = o /\ \A r \in DOMAIN f.recs \ {n} : rs[r] = f.recs[r]
    BY <2>1, FileFields
  <2>5. f.recs[n].next_recno \in Nat /\ f.recs[n].next_recno \in {0} \cup DOMAIN f.recs
    BY <2>1, FileFields DEF Linked
  <2> HIDE DEF rs, o
  <2>6. g.recs = rs /\ g.free_recno = f.recs[n].next_recno /\ g \in Files(Keys, Vals)
    BY <2>2, <2>3, <2>5 DEF Files
  <2>7. \A r \in DOMAIN rs : rs[r].next_recno \in {0} \cup DOMAIN rs
    BY <1>1, <2>1, <2>3, <2>4 DEF Linked
  <2>8. n \in DOMAIN f.recs
    BY <2>1, FileFields
  <2>. QED
    BY <2>1, <2>3, <2>4, <2>5, <2>6, <2>7, <2>8 DEF Linked, o
<1>3. CASE f.free_recno = 0
  <2> DEFINE rs == Append(f.recs, o)
  <2>1. NextRecno(f) = Len(f.recs) + 1
    BY <1>3 DEF NextRecno, NewRecno
  <2>2. g = [free_recno |-> 0, recs |-> rs]
    BY <1>3 DEF AddRecord
  <2>3. /\ rs \in Seq(Records(Keys, Vals))
        /\ DOMAIN rs = 1 .. (Len(f.recs) + 1)
        /\ rs[Len(f.recs) + 1] = o
        /\ \A r \in 1 .. Len(f.recs) : rs[r] = f.recs[r]
    BY <1>1, FileFields
  <2> HIDE DEF rs, o
  <2>4. g.recs = rs /\ g.free_recno = 0 /\ g \in Files(Keys, Vals)
    BY <2>2, <2>3 DEF Files
  <2>5. DOMAIN f.recs = 1 .. Len(f.recs) /\ Len(f.recs) \in Nat
    BY FileFields
  <2>6. DOMAIN rs = DOMAIN f.recs \cup {Len(f.recs) + 1}
    BY <2>3, <2>5
  <2>7. \A r \in DOMAIN rs : rs[r].next_recno \in {0} \cup DOMAIN rs
    BY <1>1, <2>3, <2>5, <2>6 DEF Linked
  <2>. QED
    BY <2>1, <2>3, <2>4, <2>5, <2>6, <2>7 DEF Linked, o
<1>. QED
  BY <1>2, <1>3

(* delete_record keeps every record number inside the file, even when its  *)
(* walk does not end where it should.                                      *)
LEMMA DeleteRecordFile ==
  ASSUME NEW f \in Files(Keys, Vals), Linked(f), NEW n \in DOMAIN f.recs
  PROVE  /\ MarkFree(f, n) \in Files(Keys, Vals)
         /\ Linked(MarkFree(f, n))
         /\ DOMAIN MarkFree(f, n).recs = DOMAIN f.recs
         /\ DeleteRecord(f, n) \in Files(Keys, Vals)
         /\ Linked(DeleteRecord(f, n))
         /\ DOMAIN DeleteRecord(f, n).recs = DOMAIN f.recs
<1> DEFINE m == MarkFree(f, n)
<1>0. n \in 1 .. Len(f.recs) /\ n \in Nat
  BY FileFields
<1>1. /\ m \in Files(Keys, Vals)
      /\ Linked(m)
      /\ DOMAIN m.recs = DOMAIN f.recs
      /\ m.free_recno = f.free_recno
  <2> DEFINE rec == [f.recs[n] EXCEPT !.status = FREE, !.next_recno = 0]
             rs  == [f.recs EXCEPT ![n] = rec]
  <2>1. m = [f EXCEPT !.recs = rs]
    BY <1>0, FileFields DEF MarkFree, Files, Records
  <2>2. rec \in Records(Keys, Vals) /\ rec.next_recno = 0
    BY <1>0, FileFields DEF Records, FREE
  <2>3. /\ rs \in Seq(Records(Keys, Vals))
        /\ DOMAIN rs = DOMAIN f.recs
        /\ rs[n] = rec
        /\ \A r \in DOMAIN f.recs \ {n} : rs[r] = f.recs[r]
    <3> HIDE DEF rec
    <3>. QED
      BY <1>0, <2>2, FileFields
  <2> HIDE DEF rs, rec
  <2>4. m.recs = rs /\ m.free_recno = f.free_recno /\ m \in Files(Keys, Vals)
    BY <2>1, <2>3 DEF Files
  <2>. QED
    BY <2>2, <2>3, <2>4 DEF Linked
<1>2. CASE f.free_recno = 0
  <2> HIDE DEF m
  <2>1. DeleteRecord(f, n) = [m EXCEPT !.free_recno = n]
    BY <1>2 DEF DeleteRecord, m
  <2>2. /\ [m EXCEPT !.free_recno = n] \in Files(Keys, Vals)
        /\ [m EXCEPT !.free_recno = n].recs = m.recs
        /\ [m EXCEPT !.free_recno = n].free_recno = n
    BY <1>0, <1>1 DEF Files
  <2>. QED
    BY <1>1, <2>1, <2>2 DEF Linked, m
<1>3. CASE f.free_recno # 0
  <2> DEFINE t  == FreeTail(m)
             rs == [m.recs EXCEPT ![t].next_recno = n]
             d  == [m EXCEPT !.recs = rs]
  <2> HIDE DEF m, t
  <2>1. DeleteRecord(f, n) = d
    <3>1. DeleteRecord(f, n) = [m EXCEPT !.recs[FreeTail(m)].next_recno = n]
      BY <1>3 DEF DeleteRecord, m
    <3>. QED
      BY <1>1, <3>1 DEF t, Files
  <2>2. /\ rs \in Seq(Records(Keys, Vals))
        /\ DOMAIN rs = DOMAIN m.recs
        /\ \A r \in DOMAIN m.recs : rs[r].next_recno \in {n, m.recs[r].next_recno}
    <3>1. CASE t \in DOMAIN m.recs
      <4> DEFINE rec == [m.recs[t] EXCEPT !.next_recno = n]
      <4>1. rec \in Records(Keys, Vals) /\ rec.next_recno = n
        BY <1>0, <1>1, <3>1, FileFields DEF Records
      <4>2. rs = [m.recs EXCEPT ![t] = rec]
        OBVIOUS
      <4> HIDE DEF rec
      <4>3. t \in 1 .. Len(m.recs) /\ m.recs \in Seq(Records(Keys, Vals))
        BY <1>1, <3>1, FileFields
      <4>. QED
        BY <4>1, <4>2, <4>3
    <3>2. CASE t \notin DOMAIN m.recs
      <4>1. m.recs \in Seq(Records(Keys, Vals))
        BY <1>1, FileFields
      <4>2. rs = m.recs
        BY <3>2, <4>1
      <4>. QED
        BY <4>1, <4>2
    <3>. QED
      BY <3>1, <3>2
  <2> HIDE DEF rs
  <2>3. d.recs = rs /\ d.free_recno = m.free_recno /\ d \in Files(Keys, Vals)
    BY <1>1, <2>2 DEF Files
  <2> HIDE DEF d
  <2>4. Linked(d)
    BY <1>1, <2>2, <2>3 DEF Linked
  <2>. QED
    BY <1>1, <2>1, <2>2, <2>3, <2>4 DEF m
<1>. QED
  BY <1>1, <1>2, <1>3

(* delete_index changes no key and brings no entry into use.               *)
LEMMA DeleteIndexTable ==
  ASSUME NEW ix \in Seq(Entries(Keys)), NEW k \in Keys, Sorted(ix)
  PROVE  /\ DeleteIndex(ix, k) \in Seq(Entries(Keys))
         /\ Sorted(DeleteIndex(ix, k))
         /\ LiveEntries(DeleteIndex(ix, k)) \subseteq LiveEntries(ix)
<1> DEFINE n == GetIndex(ix, k)
<1>1. CASE n \in DOMAIN ix
  <2> DEFINE e   == [status |-> FREE, recno |-> 0, key |-> ix[n].key]
             new == [ix EXCEPT ![n] = e]
  <2>1. DeleteIndex(ix, k) = new
    BY <1>1 DEF DeleteIndex
  <2>2. n \in 1 .. Len(ix) /\ DOMAIN ix = 1 .. Len(ix) /\ ix[n].key \in Keys
    BY <1>1, EntryFields
  <2>3. e \in Entries(Keys) /\ e.key = ix[n].key /\ e.status # OCCUPIED
    BY <2>2 DEF Entries, FREE, OCCUPIED
  <2> HIDE DEF e
  <2>4. /\ new \in Seq(Entries(Keys))
        /\ DOMAIN new = DOMAIN ix
        /\ \A i \in DOMAIN ix : new[i] = IF i = n THEN e ELSE ix[i]
    BY <2>2, <2>3
  <2> HIDE DEF new, n
  <2>5. \A i \in DOMAIN ix : new[i].key = ix[i].key
    BY <2>3, <2>4
  <2>6. Sorted(new)
    BY <2>4, <2>5 DEF Sorted
  <2>7. LiveEntries(new) \subseteq LiveEntries(ix)
    BY <2>3, <2>4 DEF LiveEntries, Live
  <2>. QED
    BY <2>1, <2>4, <2>6, <2>7
<1>2. CASE n \notin DOMAIN ix
  BY <1>2 DEF DeleteIndex
<1>. QED
  BY <1>1, <1>2

-----------------------------------------------------------------------------
(* The inductive invariant: the record numbers of the entries in use keep  *)
(* add_index from adding a key twice, and the order of the keys makes the  *)
(* answer of get_index the number of such an entry.                        *)
DbmsInv == TypeOK /\ IndexSorted /\ RecnosInFile

(* The same facts about the values of one state or the next.               *)
InFile(f, ix) == \A e \in LiveEntries(ix) : e.recno \in DOMAIN f.recs

LEMMA RecnosUnfold ==
  RecnosInFile <=> /\ InFile(file, index)
                   /\ Linked(file)
                   /\ buffer # NoBuf => curr_recno \in DOMAIN file.recs
BY DEF RecnosInFile, InFile, Linked, LiveEntries

(* A caller never finds a record number outside the file.                  *)
LEMMA ObtainedInFile ==
  ASSUME DbmsInv, NEW k \in Keys
  PROVE  /\ GetIndex(index, k) \in {0} \cup DOMAIN file.recs
         /\ GetIndex(index, k) \in Nat
         /\ GetIndex(index, k) = 0 => \A i \in Live(index) : index[i].key # k
<1>1. /\ index \in Seq(Entries(Keys)) /\ Sorted(index)
      /\ file \in Files(Keys, Vals) /\ InFile(file, index)
  BY RecnosUnfold DEF DbmsInv, TypeOK, IndexSorted
<1>2. 0 \notin DOMAIN file.recs
  BY <1>1, FileFields
<1>. QED
  BY <1>1, <1>2, GetIndexCorrect DEF InFile, LiveEntries

(* db_insert keeps the invariant, whether the key is new or refused.       *)
LEMMA DbInsertInv ==
  ASSUME DbmsInv, NEW k \in Keys, NEW v \in Vals, DbInsert(k, v)
  PROVE  DbmsInv'
<1> DEFINE b == [key |-> k, val |-> v]
           g == AddRecord(file, b)
           n == NextRecno(file)
<1>1. /\ file \in Files(Keys, Vals) /\ index \in Seq(Entries(Keys))
      /\ curr_recno \in Nat /\ looping \in BOOLEAN
      /\ Sorted(index) /\ InFile(file, index) /\ Linked(file)
  BY RecnosUnfold DEF DbmsInv, TypeOK, IndexSorted
<1>2. b \in Buffers(Keys, Vals)
  BY DEF Buffers
<1>3. /\ g \in Files(Keys, Vals) /\ Linked(g)
      /\ n \in DOMAIN g.recs
      /\ DOMAIN file.recs \subseteq DOMAIN g.recs
  BY <1>1, <1>2, AddRecordFile
<1>4. n \in Nat
  BY <1>3, FileFields
<1>5. buffer' = NoBuf /\ curr_recno' = curr_recno
  BY DEF DbInsert
<1> HIDE DEF b, g, n
<1>6. CASE GetIndex(index, k) # 0
  <2>1. /\ index' = index
        /\ rcode' = DB_REC_DUP
        /\ looping' \in BOOLEAN
        /\ file' \in {MarkFree(g, n), DeleteRecord(g, n)}
    BY <1>6 DEF DbInsert, b, g, n
  <2>2. /\ file' \in Files(Keys, Vals) /\ Linked(file')
        /\ DOMAIN file'.recs = DOMAIN g.recs
    BY <1>3, <2>1, DeleteRecordFile
  <2>3. InFile(file', index')
    BY <1>1, <1>3, <2>1, <2>2 DEF InFile
  <2>. QED
    BY <1>1, <1>5, <2>1, <2>2, <2>3
       DEF DbmsInv, TypeOK, IndexSorted, RecnosInFile, InFile, Linked, LiveEntries
<1>7. CASE GetIndex(index, k) = 0
  <2>1. /\ index' = AddIndex(index, n, k)
        /\ rcode' = SUCCESS
        /\ looping' = looping
        /\ file' = g
    BY <1>7 DEF DbInsert, b, g, n
  <2>2. \A i \in Live(index) : index[i].key # k
    BY <1>7, ObtainedInFile
  <2>3. index' \in Seq(Entries(Keys)) /\ Sorted(index')
    BY <1>1, <1>4, <2>1, <2>2, AddIndexType, AddIndexSorted
  <2>4. LiveEntries(index') = LiveEntries(index) \cup {EntryFor(n, k)}
    BY <1>1, <1>4, <2>1, AddIndexLive
  <2>5. InFile(file', index')
    BY <1>1, <1>3, <2>1, <2>4 DEF InFile, EntryFor
  <2>. QED
    BY <1>1, <1>3, <1>5, <2>1, <2>3, <2>5
       DEF DbmsInv, TypeOK, IndexSorted, RecnosInFile, InFile, Linked, LiveEntries
<1>. QED
  BY <1>6, <1>7

(* Every step keeps the invariant, db_delete included: what delete_index   *)
(* marks free may be the wrong entry, but it stays in order.               *)
LEMMA DbmsInvStep ==
  ASSUME DbmsInv, [Next]_vars
  PROVE  DbmsInv'
<1>1. /\ file \in Files(Keys, Vals) /\ index \in Seq(Entries(Keys))
      /\ curr_recno \in Nat /\ looping \in BOOLEAN
      /\ buffer \in Buffers(Keys, Vals) \cup {NoBuf}
      /\ rcode \in {SUCCESS, DB_REC_DUP, DB_REC_NTF}
      /\ Sorted(index) /\ InFile(file, index) /\ Linked(file)
      /\ buffer # NoBuf => curr_recno \in DOMAIN file.recs
  BY RecnosUnfold DEF DbmsInv, TypeOK, IndexSorted
<1>2. /\ DOMAIN file.recs = 1 .. Len(file.recs) /\ Len(file.recs) \in Nat
      /\ \A r \in DOMAIN file.recs : file.recs[r].buf \in Buffers(Keys, Vals)
  BY <1>1, FileFields
<1>3. ASSUME NEW k \in Keys, DbObtain(k)
      PROVE  DbmsInv'
  <2>1. /\ curr_recno' = GetIndex(index, k)
        /\ curr_recno' \in {0} \cup DOMAIN file.recs
        /\ curr_recno' \in Nat
    BY <1>3, ObtainedInFile DEF DbObtain
  <2>2. /\ file' = file /\ index' = index /\ looping' = looping
        /\ rcode' \in {SUCCESS, DB_REC_NTF}
        /\ buffer' \in Buffers(Keys, Vals) \cup {NoBuf}
        /\ buffer' # NoBuf => curr_recno' \in DOMAIN file.recs
    BY <1>2, <1>3, <2>1 DEF DbObtain, GetRecord
  <2>. QED
    BY <1>1, <2>1, <2>2
       DEF DbmsInv, TypeOK, IndexSorted, RecnosInFile, InFile, Linked, LiveEntries, Live
<1>4. ASSUME NEW v \in Vals, DbUpdate(v)
      PROVE  DbmsInv'
  <2> DEFINE n   == curr_recno
             b   == [buffer EXCEPT !.val = v]
             rec == [file.recs[n] EXCEPT !.buf = b]
             rs  == [file.recs EXCEPT ![n] = rec]
  <2>1. /\ buffer # NoBuf /\ buffer \in Buffers(Keys, Vals)
        /\ n \in DOMAIN file.recs
        /\ buffer' = b /\ file' = PutRecord(file, n, b)
        /\ UNCHANGED <<index, curr_recno, rcode, looping>>
    BY <1>1, <1>4 DEF DbUpdate
  <2>2. b \in Buffers(Keys, Vals)
    BY <2>1 DEF Buffers
  <2> HIDE DEF b
  <2>3. rec \in Records(Keys, Vals) /\ rec.next_recno = file.recs[n].next_recno
    BY <1>1, <1>2, <2>1, <2>2, FileFields DEF Records
  <2>4. file' = [file EXCEPT !.recs = rs]
    BY <2>1 DEF PutRecord
  <2> HIDE DEF rec
  <2>5. /\ rs \in Seq(Records(Keys, Vals))
        /\ DOMAIN rs = DOMAIN file.recs
        /\ \A r \in DOMAIN file.recs : rs[r].next_recno = file.recs[r].next_recno
    BY <1>1, <1>2, <2>1, <2>3, FileFields
  <2> HIDE DEF rs
  <2>6. /\ file' \in Files(Keys, Vals)
        /\ file'.recs = rs
        /\ file'.free_recno = file.free_recno
    BY <1>1, <2>4, <2>5 DEF Files
  <2>7. Linked(file)' /\ InFile(file, index)'
    BY <1>1, <2>1, <2>5, <2>6 DEF Linked, InFile, LiveEntries, Live
  <2>. QED
    BY <1>1, <2>1, <2>2, <2>5, <2>6, <2>7
       DEF DbmsInv, TypeOK, IndexSorted, RecnosInFile, InFile, Linked, LiveEntries, Live
<1>5. ASSUME NEW k \in Keys, NEW v \in Vals, DbInsert(k, v)
      PROVE  DbmsInv'
  BY <1>5, DbInsertInv
<1>6. CASE DbDelete
  <2> DEFINE n == curr_recno
             k == file.recs[n].buf.key
  <2>1. n \in DOMAIN file.recs
    BY <1>1, <1>6 DEF DbDelete
  <2>2. k \in Keys
    BY <1>2, <2>1 DEF Buffers
  <2>3. /\ index' = DeleteIndex(index, k)
        /\ looping' \in BOOLEAN
        /\ file' \in {MarkFree(file, n), DeleteRecord(file, n)}
        /\ buffer' = NoBuf /\ rcode' = SUCCESS /\ curr_recno' = curr_recno
    BY <1>6 DEF DbDelete, GetRecord
  <2>4. /\ index' \in Seq(Entries(Keys)) /\ Sorted(index')
        /\ LiveEntries(index') \subseteq LiveEntries(index)
    BY <1>1, <2>2, <2>3, DeleteIndexTable
  <2>5. /\ file' \in Files(Keys, Vals) /\ Linked(file')
        /\ DOMAIN file'.recs = DOMAIN file.recs
    BY <1>1, <2>1, <2>3, DeleteRecordFile
  <2>6. InFile(file', index')
    BY <1>1, <2>4, <2>5 DEF InFile
  <2>. QED
    BY <1>1, <2>3, <2>4, <2>5, <2>6
       DEF DbmsInv, TypeOK, IndexSorted, RecnosInFile, InFile, Linked, LiveEntries
<1>7. CASE UNCHANGED vars
  BY <1>7 DEF vars, DbmsInv, TypeOK, IndexSorted, Sorted, RecnosInFile, Live
<1>. QED
  BY <1>3, <1>4, <1>5, <1>6, <1>7 DEF Next, AppendNext

(* A new, empty file satisfies it.                                         *)
LEMMA DbmsInvInit == Init => DbmsInv
<1> SUFFICES ASSUME Init
             PROVE  DbmsInv
  OBVIOUS
<1>1. file.recs = << >> /\ file.free_recno = 0 /\ index = << >> /\ buffer = NoBuf
  BY DEF Init, EmptyFile, EmptyIndex
<1>2. file \in Files(Keys, Vals)
  BY DEF Init, EmptyFile, Files
<1>3. TypeOK
  <2>1. index \in Seq(Entries(Keys))
    BY <1>1
  <2>2. /\ curr_recno = 0 /\ buffer = NoBuf
        /\ rcode = SUCCESS /\ looping = FALSE
    BY DEF Init
  <2>. QED
    BY <1>2, <2>1, <2>2 DEF TypeOK
<1>4. IndexSorted /\ RecnosInFile
  BY <1>1 DEF IndexSorted, Sorted, RecnosInFile, Live
<1>. QED
  BY <1>3, <1>4 DEF DbmsInv

(* In every reachable state of a file that records are inserted into and   *)
(* deleted from, the table get_index bisects is strictly ascending and no  *)
(* record number lies outside the file (DBMS.C:213, 235, 259, 447-627).    *)
THEOREM DbmsSafety == Spec => [](TypeOK /\ IndexSorted /\ RecnosInFile)
<1>1. DbmsInv /\ [Next]_vars => DbmsInv'
  BY DbmsInvStep
<1>. QED
  BY <1>1, DbmsInvInit, PTL DEF Spec, DbmsInv

(* File, table, list head and work area are of their types in every        *)
(* reachable state: no call of DBMS.C leaves a record or an entry half     *)
(* made (DBMS.C:447-627).                                                  *)
THEOREM DbmsTyped == Spec => []TypeOK
BY DbmsSafety, PTL

(* No entry in use and no work area names a record that the file does not  *)
(* have (DBMS.C:213, 235, 259).                                            *)
THEOREM DbmsRecnos == Spec => []RecnosInFile
BY DbmsSafety, PTL

-----------------------------------------------------------------------------
(* The bisection of get_index.                                             *)

(* What the search in the part of a table from low to high finds.          *)
Found(ix, k, low, high) ==
  IF \E i \in low .. high : ix[i].key = k
  THEN GetIndex(ix, k)
  ELSE 0

(* In a sorted table one key tells on which side the others lie, ...       *)
LEMMA FoundHalf ==
  ASSUME NEW ix \in Seq(Entries(Keys)), Sorted(ix), NEW k \in Keys,
         NEW low \in 1 .. (Len(ix) + 1), NEW high \in 0 .. Len(ix), low <= high,
         NEW mid \in low .. high
  PROVE  /\ ix[mid].key = k =>
              Found(ix, k, low, high) =
                IF ix[mid].status = FREE THEN 0 ELSE ix[mid].recno
         /\ ix[mid].key # k /\ k < ix[mid].key =>
              Found(ix, k, low, high) = Found(ix, k, low, mid - 1)
         /\ ix[mid].key # k /\ ~ (k < ix[mid].key) =>
              Found(ix, k, low, high) = Found(ix, k, mid + 1, high)
<1>1. /\ Len(ix) \in Nat /\ DOMAIN ix = 1 .. Len(ix)
      /\ \A p \in 1 .. Len(ix) : /\ ix[p].key \in Nat
                                 /\ ix[p].status \in {FREE, OCCUPIED}
                                 /\ ix[p].recno \in Nat
  BY EntryFields
<1>2. mid \in 1 .. Len(ix) /\ \A i \in low .. high : i \in 1 .. Len(ix)
  BY <1>1
<1>3. k \in Nat
  BY KeysAssumption
<1>4. \A i, j \in 1 .. Len(ix) : i < j => ix[i].key < ix[j].key
  BY <1>1 DEF Sorted
<1>5. ASSUME ix[mid].key = k
      PROVE  Found(ix, k, low, high) =
               IF ix[mid].status = FREE THEN 0 ELSE ix[mid].recno
  <2>1. Found(ix, k, low, high) = GetIndex(ix, k)
    BY <1>5 DEF Found
  <2>2. CASE ix[mid].status = FREE
    <3>1. \A i \in Live(ix) : i \in 1 .. Len(ix) /\ i # mid
      BY <1>1, <2>2 DEF Live, FREE, OCCUPIED
    <3>2. \A i \in Live(ix) : ix[i].key # k
      BY <1>1, <1>2, <1>4, <1>5, <3>1
    <3>. QED
      BY <2>1, <2>2, <3>2 DEF GetIndex
  <2>3. CASE ix[mid].status # FREE
    <3>1. mid \in Live(ix)
      BY <1>1, <1>2, <2>3 DEF Live
    <3>2. ix[mid] \in LiveEntries(ix)
      BY <3>1 DEF LiveEntries
    <3>. QED
      BY <1>5, <2>1, <2>3, <3>2, GetIndexCorrect
  <2>. QED
    BY <2>2, <2>3
<1>6. ASSUME k < ix[mid].key
      PROVE  \A i \in low .. high : ix[i].key = k => i \in low .. (mid - 1)
  <2> SUFFICES ASSUME NEW i \in low .. high, ix[i].key = k
               PROVE  i < mid
    OBVIOUS
  <2>1. ~ (mid < i) /\ i # mid
    BY <1>1, <1>2, <1>3, <1>4, <1>6
  <2>. QED
    BY <2>1
<1>7. ASSUME ix[mid].key # k, ~ (k < ix[mid].key)
      PROVE  \A i \in low .. high : ix[i].key = k => i \in (mid + 1) .. high
  <2> SUFFICES ASSUME NEW i \in low .. high, ix[i].key = k
               PROVE  mid < i
    OBVIOUS
  <2>1. ~ (i < mid) /\ i # mid
    BY <1>1, <1>2, <1>3, <1>4, <1>7
  <2>. QED
    BY <2>1
<1>8. /\ \A i \in low .. (mid - 1) : i \in low .. high
      /\ \A i \in (mid + 1) .. high : i \in low .. high
  OBVIOUS
<1>. QED
  BY <1>5, <1>6, <1>7, <1>8 DEF Found

(* ... and the two halves the search goes on with are ranges, and smaller. *)
LEMMA HalvesAreRanges ==
  ASSUME NEW len \in Nat, NEW low \in 1 .. (len + 1), NEW high \in 0 .. len,
         low <= high
  PROVE  LET mid == (low + high) \div 2
         IN  /\ mid \in low .. high
             /\ mid - 1 \in 0 .. len /\ mid + 1 \in 1 .. (len + 1)
             /\ (mid - 1) - low < high - low
             /\ high - (mid + 1) < high - low
<1>1. (low + high) \div 2 \in Int
  OBVIOUS
<1>2. /\ low <= (low + high) \div 2
      /\ (low + high) \div 2 <= high
  OBVIOUS
<1>. QED
  BY <1>1, <1>2

(* The search finds what a look at every entry finds: the range [1, last]  *)
(* would have a smallest part in which it does not.                        *)
LEMMA BisectFound ==
  ASSUME NEW ix \in Seq(Entries(Keys)), Sorted(ix), NEW k \in Keys
  PROVE  Bisect(ix, k) = GetIndex(ix, k)
<1> DEFINE R == Ranges(ix)
           Mid(r) == (r[1] + r[2]) \div 2
           Step(f, r) ==
             IF r[1] > r[2] THEN 0
             ELSE IF ix[Mid(r)].key = k
                  THEN IF ix[Mid(r)].status = FREE THEN 0 ELSE ix[Mid(r)].recno
             ELSE IF k < ix[Mid(r)].key THEN f[<<r[1], Mid(r) - 1>>]
             ELSE f[<<Mid(r) + 1, r[2]>>]
           Search(f) == f = [r \in R |-> Step(f, r)]
           value == [r \in R |-> Found(ix, k, r[1], r[2])]
           Width(r) == IF r[1] > r[2] THEN 0 ELSE r[2] - r[1] + 1
<1>1. Len(ix) \in Nat /\ DOMAIN ix = 1 .. Len(ix)
  BY EntryFields
<1>2. \A r \in R : /\ r[1] \in 1 .. (Len(ix) + 1) /\ r[2] \in 0 .. Len(ix)
                   /\ r[1] \in Int /\ r[2] \in Int
  BY <1>1 DEF Ranges
<1>3. ASSUME NEW r \in R, ~ (r[1] > r[2])
      PROVE  /\ Mid(r) \in r[1] .. r[2]
             /\ <<r[1], Mid(r) - 1>> \in R /\ <<Mid(r) + 1, r[2]>> \in R
             /\ Width(<<r[1], Mid(r) - 1>>) < Width(r)
             /\ Width(<<Mid(r) + 1, r[2]>>) < Width(r)
  <2>1. r[1] <= r[2]
    BY <1>2, <1>3
  <2>2. LET mid == (r[1] + r[2]) \div 2
        IN  /\ mid \in r[1] .. r[2]
            /\ mid - 1 \in 0 .. Len(ix) /\ mid + 1 \in 1 .. (Len(ix) + 1)
            /\ (mid - 1) - r[1] < r[2] - r[1]
            /\ r[2] - (mid + 1) < r[2] - r[1]
    BY <1>1, <1>2, <2>1, HalvesAreRanges, Zenon
  <2>3. Mid(r) \in Int /\ r[1] \in Int /\ r[2] \in Int
    BY <1>2, <2>2
  <2>4. <<r[1], Mid(r) - 1>> \in R /\ <<Mid(r) + 1, r[2]>> \in R
    BY <1>2, <2>2, Zenon DEF Ranges
  <2>. QED
    BY <2>1, <2>2, <2>3, <2>4
<1>4. \A r \in R : Found(ix, k, r[1], r[2]) = Step(value, r)
  <2> SUFFICES ASSUME NEW r \in R
               PROVE  Found(ix, k, r[1], r[2]) = Step(value, r)
    OBVIOUS
  <2>1. CASE r[1] > r[2]
    <3>1. ~ \E i \in r[1] .. r[2] : ix[i].key = k
      BY <1>2, <2>1
    <3>. QED
      BY <2>1, <3>1 DEF Found
  <2>2. CASE ~ (r[1] > r[2])
    <3>1. /\ value[<<r[1], Mid(r) - 1>>] = Found(ix, k, r[1], Mid(r) - 1)
          /\ value[<<Mid(r) + 1, r[2]>>] = Found(ix, k, Mid(r) + 1, r[2])
      BY <1>3, <2>2
    <3>2. /\ ix[Mid(r)].key = k =>
               Found(ix, k, r[1], r[2]) =
                 IF ix[Mid(r)].status = FREE THEN 0 ELSE ix[Mid(r)].recno
          /\ ix[Mid(r)].key # k /\ k < ix[Mid(r)].key =>
               Found(ix, k, r[1], r[2]) = Found(ix, k, r[1], Mid(r) - 1)
          /\ ix[Mid(r)].key # k /\ ~ (k < ix[Mid(r)].key) =>
               Found(ix, k, r[1], r[2]) = Found(ix, k, Mid(r) + 1, r[2])
      <4>1. r[1] <= r[2]
        BY <1>2, <2>2
      <4>2. Mid(r) \in r[1] .. r[2]
        BY <1>3, <2>2
      <4> HIDE DEF R, Mid
      <4>. QED
        BY <1>2, <4>1, <4>2, FoundHalf
    <3> HIDE DEF value, Mid
    <3>. QED
      BY <2>2, <3>1, <3>2
  <2>. QED
    BY <2>1, <2>2
<1>5. Search(value)
  <2>1. value = [r \in R |-> Step(value, r)]
    BY <1>4, Zenon
  <2>. QED
    BY <2>1
<1>6. ASSUME NEW f, Search(f)
      PROVE  \A r \in R : f[r] = Found(ix, k, r[1], r[2])
  <2> DEFINE Wrong == { r \in R : f[r] # Found(ix, k, r[1], r[2]) }
             Widths == { Width(r) : r \in Wrong }
  <2> SUFFICES ASSUME Wrong # {} PROVE FALSE
    OBVIOUS
  <2>1. \A r \in R : Width(r) \in Nat
    BY <1>2
  <2>2. Widths \in SUBSET Nat /\ Widths # {}
    BY <2>1
  <2>3. PICK r \in Wrong : \A q \in Wrong : Width(r) <= Width(q)
    <3>1. PICK w \in Widths : \A v \in Widths : w <= v
      <4> HIDE DEF Widths
      <4>. QED
        BY <2>2, LeastNatural
    <3> HIDE DEF Wrong, Width
    <3>. QED
      BY <3>1
  <2>4. f[r] = Step(f, r)
    BY <1>6, <2>3
  <2>5. Found(ix, k, r[1], r[2]) = Step(value, r)
    BY <1>4, <2>3
  <2>6. CASE r[1] > r[2]
    BY <2>3, <2>4, <2>5, <2>6
  <2>7. CASE ~ (r[1] > r[2])
    <3> DEFINE a == <<r[1], Mid(r) - 1>>
               b == <<Mid(r) + 1, r[2]>>
    <3>1. a \in R /\ b \in R /\ Width(a) < Width(r) /\ Width(b) < Width(r)
      BY <1>3, <2>3, <2>7, Zenon
    <3>2. a \notin Wrong /\ b \notin Wrong
      <4>1. ~ (Width(r) <= Width(a)) /\ ~ (Width(r) <= Width(b))
        <5>1. Width(r) \in Nat /\ Width(a) \in Nat /\ Width(b) \in Nat
          BY <2>1, <2>3, <3>1
        <5> HIDE DEF Width, a, b
        <5>. QED
          BY <3>1, <5>1
      <4> HIDE DEF Wrong, Width, a, b
      <4>. QED
        BY <2>3, <4>1
    <3>3. f[a] = value[a] /\ f[b] = value[b]
      BY <3>1, <3>2
    <3>4. Step(f, r) = Step(value, r)
      BY <3>3
    <3>. QED
      BY <2>3, <2>4, <2>5, <3>4
  <2>. QED
    BY <2>6, <2>7
<1>7. \E f : Search(f) /\ Bisect(ix, k) = f[<<1, Len(ix)>>]
  <2>1. Bisect(ix, k) = (CHOOSE f : Search(f))[<<1, Len(ix)>>]
    BY DEF Bisect
  <2>2. Search(CHOOSE f : Search(f))
    <3> HIDE DEF Search
    <3>. QED
      BY <1>5
  <2>. QED
    BY <2>1, <2>2
<1>8. Bisect(ix, k) = Found(ix, k, 1, Len(ix))
  <2>1. <<1, Len(ix)>> \in R
    BY <1>1 DEF Ranges
  <2>2. PICK f : Search(f) /\ Bisect(ix, k) = f[<<1, Len(ix)>>]
    BY <1>7
  <2>3. f[<<1, Len(ix)>>] = Found(ix, k, <<1, Len(ix)>>[1], <<1, Len(ix)>>[2])
    BY <1>6, <2>1, <2>2, Zenon
  <2>. QED
    BY <2>2, <2>3
<1>9. Found(ix, k, 1, Len(ix)) = GetIndex(ix, k)
  <2>1. \A i \in Live(ix) : i \in 1 .. Len(ix)
    BY <1>1 DEF Live
  <2>. QED
    BY <2>1 DEF Found, GetIndex
<1>. QED
  BY <1>8, <1>9

(* The bisection of get_index (DBMS.C:576-595) finds the live entry of a   *)
(* key whenever there is one, in every table a caller can bring about.     *)
THEOREM BisectionAlwaysFinds == Spec => []BisectionFinds
<1>1. TypeOK /\ IndexSorted => BisectionFinds
  BY BisectFound DEF TypeOK, IndexSorted, BisectionFinds
<1>. QED
  BY <1>1, DbmsSafety, PTL

-----------------------------------------------------------------------------
(* A db_insert that is not refused.                                        *)
LEMMA InsertAdds ==
  ASSUME DbmsInv, NEW k \in Keys, NEW v \in Vals, DbInsert(k, v),
         GetIndex(index, k) = 0
  PROVE  LET n == NextRecno(file)
             b == [key |-> k, val |-> v]
         IN  /\ file' = AddRecord(file, b) /\ index' = AddIndex(index, n, k)
             /\ n \in DOMAIN file'.recs /\ n # 0
             /\ DOMAIN file'.recs = DOMAIN file.recs \cup {n}
             /\ file'.recs[n] = Occupied(b)
             /\ \A r \in DOMAIN file.recs \ {n} : file'.recs[r] = file.recs[r]
             /\ LiveEntries(index') = LiveEntries(index) \cup {EntryFor(n, k)}
             /\ \A e \in LiveEntries(index) : e.key # k
             /\ GetIndex(index', k) = n
             /\ \A q \in Keys \ {k} : GetIndex(index', q) = GetIndex(index, q)
<1> DEFINE n == NextRecno(file)
           b == [key |-> k, val |-> v]
<1>1. /\ file \in Files(Keys, Vals) /\ index \in Seq(Entries(Keys))
      /\ Sorted(index) /\ Linked(file) /\ b \in Buffers(Keys, Vals)
  BY RecnosUnfold DEF DbmsInv, TypeOK, IndexSorted, Buffers
<1>2. file' = AddRecord(file, b) /\ index' = AddIndex(index, n, k)
  BY DEF DbInsert
<1> HIDE DEF b, n
<1>3. /\ file' \in Files(Keys, Vals)
      /\ n \in DOMAIN file'.recs
      /\ DOMAIN file'.recs = DOMAIN file.recs \cup {n}
      /\ file'.recs[n] = Occupied(b)
      /\ \A r \in DOMAIN file.recs \ {n} : file'.recs[r] = file.recs[r]
  BY <1>1, <1>2, AddRecordFile DEF n
<1>4. n \in Nat /\ n # 0
  BY <1>3, FileFields
<1>5. \A e \in LiveEntries(index) : e.key # k
  BY ObtainedInFile DEF LiveEntries
<1>6. /\ LiveEntries(index') = LiveEntries(index) \cup {EntryFor(n, k)}
      /\ index' \in Seq(Entries(Keys)) /\ Sorted(index')
  <2>1. \A i \in Live(index) : index[i].key # k
    BY ObtainedInFile
  <2>. QED
    BY <1>1, <1>2, <1>4, <2>1, AddIndexType, AddIndexSorted, AddIndexLive
<1>7. EntryFor(n, k).key = k /\ EntryFor(n, k).recno = n
  BY DEF EntryFor
<1>8. GetIndex(index', k) = n
  BY <1>6, <1>7, GetIndexCorrect
<1>9. ASSUME NEW q \in Keys \ {k}
      PROVE  GetIndex(index', q) = GetIndex(index, q)
  <2>1. CASE \E e \in LiveEntries(index) : e.key = q
    BY <1>1, <1>6, <2>1, GetIndexCorrect
  <2>2. CASE \A e \in LiveEntries(index) : e.key # q
    <3>1. \A e \in LiveEntries(index') : e.key # q
      BY <1>6, <1>7, <2>2
    <3>. QED
      BY <1>1, <1>6, <2>2, <3>1, GetIndexCorrect
  <2>. QED
    BY <2>1, <2>2
<1>. QED
  BY <1>2, <1>3, <1>4, <1>5, <1>6, <1>8, <1>9 DEF n, b

(* A key that db_insert has accepted is found, at the record just written, *)
(* and every other key leads where it led before, although entries have    *)
(* moved and a slot or a record may have been used again                   *)
(* (DBMS.C:287-331, 447-554, 766-799).                                     *)
THEOREM InsertedAlwaysFound == Spec => InsertedKeyFound
<1> DEFINE Adds == \A k \in Keys, v \in Vals :
             (DbInsert(k, v) /\ rcode' = SUCCESS)
             => /\ GetIndex(index', k) # 0
                /\ GetRecord(file', GetIndex(index', k)) = [key |-> k, val |-> v]
                /\ \A q \in Keys \ {k} : GetIndex(index', q) = GetIndex(index, q)
<1>1. DbmsInv => Adds
  <2> SUFFICES ASSUME DbmsInv, NEW k \in Keys, NEW v \in Vals,
                      DbInsert(k, v), rcode' = SUCCESS
               PROVE  /\ GetIndex(index', k) # 0
                      /\ GetRecord(file', GetIndex(index', k))
                           = [key |-> k, val |-> v]
                      /\ \A q \in Keys \ {k} :
                            GetIndex(index', q) = GetIndex(index, q)
    OBVIOUS
  <2>1. GetIndex(index, k) = 0
    BY DEF DbInsert, SUCCESS, DB_REC_DUP
  <2>2. /\ NextRecno(file) # 0
        /\ GetIndex(index', k) = NextRecno(file)
        /\ file'.recs[NextRecno(file)] = Occupied([key |-> k, val |-> v])
        /\ \A q \in Keys \ {k} : GetIndex(index', q) = GetIndex(index, q)
    BY <2>1, InsertAdds
  <2>3. Occupied([key |-> k, val |-> v]).buf = [key |-> k, val |-> v]
    BY DEF Occupied
  <2>. QED
    BY <2>2, <2>3 DEF GetRecord
<1>2. DbmsInv /\ [Next]_vars => DbmsInv'
  BY DbmsInvStep
<1> HIDE DEF Adds
<1>3. Spec => [][Adds]_vars
  BY <1>1, <1>2, DbmsInvInit, PTL DEF Spec
<1>. QED
  BY <1>3 DEF InsertedKeyFound, Adds

-----------------------------------------------------------------------------
(***************************************************************************)
(* The list of deleted records: its records in the order of the list are   *)
(* c[1], ..., c[m], each once.                                             *)
(***************************************************************************)
Freed(f) == { r \in DOMAIN f.recs : f.recs[r].status = FREE }

Path(f, m, c) ==
    /\ m \in Nat
    /\ c \in [1 .. m -> DOMAIN f.recs]
    /\ \A i, j \in 1 .. m : c[i] = c[j] => i = j
    /\ f.free_recno = IF m = 0 THEN 0 ELSE c[1]
    /\ \A i \in 1 .. m : f.recs[c[i]].next_recno = IF i = m THEN 0 ELSE c[i + 1]

(* The deleted records are those of the list.                              *)
Chain(f, m, c) == Path(f, m, c) /\ Freed(f) = { c[i] : i \in 1 .. m }

Chained(f) == \E m, c : Chain(f, m, c)

(* A list is not longer than the file.                                     *)
LEMMA PathLength ==
  ASSUME NEW f \in Files(Keys, Vals), NEW m, NEW c, Path(f, m, c)
  PROVE  /\ m \in Nat /\ m <= Len(f.recs)
         /\ \A i \in 1 .. m : c[i] \in DOMAIN f.recs /\ c[i] # 0 /\ c[i] \in Nat
<1>1. /\ m \in Nat /\ Len(f.recs) \in Nat
      /\ DOMAIN f.recs = 1 .. Len(f.recs)
      /\ c \in [1 .. m -> 1 .. Len(f.recs)]
      /\ \A i, j \in 1 .. m : i # j => c[i] # c[j]
  BY FileFields DEF Path
<1>2. m <= Len(f.recs)
  <2> SUFFICES ASSUME m > Len(f.recs)
               PROVE  FALSE
    BY <1>1
  <2>1. /\ IsFiniteSet(1 .. m) /\ Cardinality(1 .. m) = m
        /\ IsFiniteSet(1 .. Len(f.recs))
        /\ Cardinality(1 .. Len(f.recs)) = Len(f.recs)
    <3>1. \A n \in Nat : IsFiniteSet(1 .. n) /\ Cardinality(1 .. n) = n
      <4> TAKE n \in Nat
      <4>1. /\ IsFiniteSet(1 .. n)
            /\ Cardinality(1 .. n) = IF 1 > n THEN 0 ELSE n - 1 + 1
        BY FS_Interval
      <4>. QED
        BY <4>1
    <3>. QED
      BY <1>1, <3>1
  <2>2. Cardinality(1 .. m) > Cardinality(1 .. Len(f.recs))
    BY <2>1
  <2>3. PICK i, j \in 1 .. m : i # j /\ c[i] = c[j]
    BY <1>1, <2>1, <2>2, FS_PigeonHole, Zenon
  <2>. QED
    BY <1>1, <2>3
<1>3. \A i \in 1 .. m : c[i] \in 1 .. Len(f.recs)
  BY <1>1
<1>. QED
  BY <1>1, <1>2, <1>3

(* The walk of delete_record visits the list and then has ended.           *)
LEMMA PathWalk ==
  ASSUME NEW f \in Files(Keys, Vals), NEW m, NEW c, Path(f, m, c)
  PROVE  /\ DOMAIN FreeWalk(f) = 0 .. Len(f.recs)
         /\ \A n \in 0 .. Len(f.recs) :
               FreeWalk(f)[n] = IF n < m THEN c[n + 1] ELSE 0
<1> DEFINE Step(w, n) == IF n = 0 THEN f.free_recno
                         ELSE IF w[n - 1] = 0 THEN 0
                         ELSE f.recs[w[n - 1]].next_recno
           Walk(w) == w = [n \in Nat |-> Step(w, n)]
           At(n) == IF n < m THEN c[n + 1] ELSE 0
           visits == [n \in Nat |-> At(n)]
<1>1. /\ m \in Nat
      /\ \A i \in 1 .. m : c[i] # 0
      /\ f.free_recno = IF m = 0 THEN 0 ELSE c[1]
      /\ \A i \in 1 .. m :
            f.recs[c[i]].next_recno = IF i = m THEN 0 ELSE c[i + 1]
  BY PathLength DEF Path
<1>2. ASSUME NEW n \in Nat, NEW w, n # 0 => w[n - 1] = At(n - 1)
      PROVE  Step(w, n) = At(n)
  <2>1. CASE n = 0
    BY <1>1, <2>1
  <2>2. CASE n # 0 /\ ~ (n - 1 < m)
    <3>1. w[n - 1] = 0 /\ ~ (n < m)
      BY <1>1, <1>2, <2>2
    <3>. QED
      BY <2>2, <3>1
  <2>3. CASE n # 0 /\ n - 1 < m
    <3>1. n \in 1 .. m /\ w[n - 1] = c[n]
      <4>1. (n - 1) + 1 = n
        OBVIOUS
      <4>. QED
        BY <1>1, <1>2, <2>3, <4>1
    <3>2. w[n - 1] # 0 /\ f.recs[w[n - 1]].next_recno = IF n = m THEN 0 ELSE c[n + 1]
      BY <1>1, <3>1
    <3>. QED
      BY <1>1, <2>3, <3>1, <3>2
  <2>. QED
    BY <2>1, <2>2, <2>3
<1>3. Walk(visits)
  <2>1. \A n \in Nat : n # 0 => visits[n - 1] = At(n - 1)
    OBVIOUS
  <2>2. \A n \in Nat : Step(visits, n) = At(n)
    <3> HIDE DEF Step, At, visits
    <3>. QED
      BY <1>2, <2>1
  <2>3. visits = [n \in Nat |-> Step(visits, n)]
    <3> HIDE DEF Step, At
    <3>. QED
      BY <2>2
  <2>. QED
    BY <2>3
<1>4. ASSUME NEW w, Walk(w)
      PROVE  \A n \in Nat : w[n] = At(n)
  <2> DEFINE Wrong == { n \in Nat : w[n] # At(n) }
  <2> SUFFICES ASSUME Wrong # {} PROVE FALSE
    OBVIOUS
  <2>1. PICK n \in Wrong : \A q \in Wrong : n <= q
    <3>1. Wrong \in SUBSET Nat
      OBVIOUS
    <3> HIDE DEF Wrong
    <3>. QED
      BY <3>1, LeastNatural
  <2>2. n \in Nat /\ w[n] # At(n)
    BY <2>1
  <2>3. n # 0 => w[n - 1] = At(n - 1)
    <3>1. n # 0 => n - 1 \in Nat /\ ~ (n <= n - 1)
      BY <2>2
    <3>2. n # 0 => n - 1 \notin Wrong
      <4> HIDE DEF Wrong
      <4>. QED
        BY <2>1, <3>1
    <3>. QED
      BY <3>1, <3>2
  <2>4. Step(w, n) = At(n)
    <3> HIDE DEF Step, At
    <3>. QED
      BY <1>2, <2>2, <2>3
  <2>5. w[n] = Step(w, n)
    BY <1>4, <2>2
  <2>. QED
    BY <2>2, <2>4, <2>5
<1>5. FreeWalk(f) = [n \in 0 .. Len(f.recs) |-> (CHOOSE w : Walk(w))[n]]
  BY DEF FreeWalk
<1>6. Walk(CHOOSE w : Walk(w))
  <2> HIDE DEF Walk
  <2>. QED
    BY <1>3
<1>7. \A n \in Nat : (CHOOSE w : Walk(w))[n] = At(n)
  <2> HIDE DEF Walk, At
  <2>. QED
    BY <1>4, <1>6
<1> HIDE DEF Walk
<1>. QED
  BY <1>5, <1>7

(* A list and the walk along it, taken together.                           *)
LEMMA PathFacts ==
  ASSUME NEW f \in Files(Keys, Vals), NEW m, NEW c, Path(f, m, c)
  PROVE  /\ m \in Nat /\ Len(f.recs) \in Nat /\ m <= Len(f.recs)
         /\ \A i \in 1 .. m : c[i] \in DOMAIN f.recs /\ c[i] # 0
         /\ \A i, j \in 1 .. m : c[i] = c[j] => i = j
         /\ f.free_recno = IF m = 0 THEN 0 ELSE c[1]
         /\ \A i \in 1 .. m :
               f.recs[c[i]].next_recno = IF i = m THEN 0 ELSE c[i + 1]
         /\ DOMAIN FreeWalk(f) = 0 .. Len(f.recs)
         /\ \A n \in 0 .. Len(f.recs) :
               FreeWalk(f)[n] = IF n < m THEN c[n + 1] ELSE 0
         /\ 0 \notin DOMAIN f.recs
<1>1. /\ m \in Nat /\ m <= Len(f.recs)
      /\ \A i \in 1 .. m : c[i] \in DOMAIN f.recs /\ c[i] # 0
  BY PathLength, Zenon
<1>2. /\ \A i, j \in 1 .. m : c[i] = c[j] => i = j
      /\ f.free_recno = IF m = 0 THEN 0 ELSE c[1]
      /\ \A i \in 1 .. m :
            f.recs[c[i]].next_recno = IF i = m THEN 0 ELSE c[i + 1]
  BY Zenon DEF Path
<1>3. /\ DOMAIN FreeWalk(f) = 0 .. Len(f.recs)
      /\ \A n \in 0 .. Len(f.recs) :
            FreeWalk(f)[n] = IF n < m THEN c[n + 1] ELSE 0
  BY PathWalk, Zenon
<1>4. Len(f.recs) \in Nat /\ 0 \notin DOMAIN f.recs
  BY FileFields
<1>. QED
  BY <1>1, <1>2, <1>3, <1>4, Zenon

(* Where the list ends, and what stands there.                             *)
LEMMA PathEnds ==
  ASSUME NEW f \in Files(Keys, Vals), NEW m, NEW c, Path(f, m, c)
  PROVE  /\ FreeListEnds(f)
         /\ m # 0 => FreeTail(f) = c[m]
<1>1. /\ m \in Nat /\ Len(f.recs) \in Nat /\ m <= Len(f.recs)
      /\ \A i \in 1 .. m : c[i] \in DOMAIN f.recs /\ c[i] # 0
      /\ DOMAIN FreeWalk(f) = 0 .. Len(f.recs)
      /\ \A n \in 0 .. Len(f.recs) :
            FreeWalk(f)[n] = IF n < m THEN c[n + 1] ELSE 0
      /\ \A i \in 1 .. m :
            f.recs[c[i]].next_recno = IF i = m THEN 0 ELSE c[i + 1]
      /\ 0 \notin DOMAIN f.recs
  BY PathFacts
<1>2. FreeListEnds(f)
  BY <1>1 DEF FreeListEnds
<1>3. ASSUME m # 0
      PROVE  FreeTail(f) = c[m]
  <2> DEFINE Last(r) == /\ \E n \in DOMAIN FreeWalk(f) : FreeWalk(f)[n] = r
                        /\ f.recs[r].next_recno = 0
  <2>1. c[m] \in DOMAIN f.recs /\ Last(c[m])
    <3>1. m - 1 \in 0 .. Len(f.recs) /\ m - 1 < m /\ (m - 1) + 1 = m /\ m \in 1 .. m
      BY <1>1, <1>3
    <3>. QED
      BY <1>1, <3>1
  <2>2. ASSUME NEW r \in DOMAIN f.recs, Last(r)
        PROVE  r = c[m]
    <3>1. PICK n \in 0 .. Len(f.recs) : FreeWalk(f)[n] = r
      BY <1>1, <2>2
    <3>2. n < m /\ r = c[n + 1]
      BY <1>1, <3>1
    <3>3. n + 1 \in 1 .. m
      BY <1>1, <3>2
    <3>4. n + 1 # m => n + 2 \in 1 .. m /\ (n + 1) + 1 = n + 2
      BY <1>1, <3>3
    <3>5. f.recs[r].next_recno = 0
      BY <2>2
    <3>. QED
      BY <1>1, <3>2, <3>3, <3>4, <3>5
  <2>3. FreeTail(f) = CHOOSE r \in DOMAIN f.recs : Last(r)
    BY DEF FreeTail
  <2> HIDE DEF Last
  <2>. QED
    BY <2>1, <2>2, <2>3
<1>. QED
  BY <1>2, <1>3

(* What the walk of the list of deleted records shows.                     *)
LEMMA ChainExact ==
  file \in Files(Keys, Vals) /\ Chained(file) => FreeListExact
<1> SUFFICES ASSUME file \in Files(Keys, Vals), NEW m, NEW c, Chain(file, m, c)
             PROVE  FreeListExact
  BY DEF Chained
<1> DEFINE walk == FreeWalk(file)
<1>1. /\ m \in Nat /\ Len(file.recs) \in Nat /\ m <= Len(file.recs)
      /\ \A i \in 1 .. m : c[i] # 0
      /\ \A i, j \in 1 .. m : c[i] = c[j] => i = j
      /\ DOMAIN walk = 0 .. Len(file.recs)
      /\ \A n \in 0 .. Len(file.recs) : walk[n] = IF n < m THEN c[n + 1] ELSE 0
      /\ Freed(file) = { c[i] : i \in 1 .. m }
      /\ FreeListEnds(file)
  BY PathFacts, PathEnds DEF Chain
<1>2. { walk[n] : n \in DOMAIN walk } \ {0} = Freed(file)
  <2>1. ASSUME NEW n \in DOMAIN walk, walk[n] # 0
        PROVE  walk[n] \in Freed(file)
    <3>1. n < m /\ walk[n] = c[n + 1] /\ n + 1 \in 1 .. m
      BY <1>1, <2>1
    <3>. QED
      BY <1>1, <3>1
  <2>2. ASSUME NEW i \in 1 .. m
        PROVE  c[i] # 0 /\ \E n \in DOMAIN walk : walk[n] = c[i]
    <3>1. i - 1 \in 0 .. Len(file.recs) /\ i - 1 < m /\ (i - 1) + 1 = i
      BY <1>1
    <3>2. walk[i - 1] = c[i]
      BY <1>1, <3>1
    <3>. QED
      BY <1>1, <3>1, <3>2
  <2> DEFINE W == { walk[n] : n \in DOMAIN walk }
  <2>3. \A x \in W \ {0} : x \in Freed(file)
    BY <2>1
  <2>4. Freed(file) = { c[i] : i \in 1 .. m }
    BY <1>1
  <2>5. \A x \in Freed(file) : x \in W /\ x # 0
    BY <2>2, <2>4
  <2> HIDE DEF walk, W
  <2>6. W \ {0} = Freed(file)
    BY <2>3, <2>5
  <2>. QED
    BY <2>6 DEF W
<1>3. ASSUME NEW p \in DOMAIN walk, NEW q \in DOMAIN walk,
             walk[p] = walk[q], walk[p] # 0
      PROVE  p = q
  <2>1. /\ p \in Nat /\ q \in Nat /\ p < m /\ q < m
        /\ walk[p] = c[p + 1] /\ walk[q] = c[q + 1]
        /\ p + 1 \in 1 .. m /\ q + 1 \in 1 .. m
    BY <1>1, <1>3
  <2>2. p + 1 = q + 1
    BY <1>1, <1>3, <2>1
  <2>. QED
    BY <2>1, <2>2
<1>. QED
  BY <1>1, <1>2, <1>3 DEF FreeListExact, Freed

(* A list depends on the links and the head alone.                         *)
LEMMA SamePath ==
  ASSUME NEW f, NEW g, NEW m, NEW c, Path(f, m, c),
         DOMAIN g.recs = DOMAIN f.recs, g.free_recno = f.free_recno,
         \A i \in 1 .. m : g.recs[c[i]].next_recno = f.recs[c[i]].next_recno
  PROVE  Path(g, m, c)
BY DEF Path

(* What delete_record writes first: the header of the record.              *)
LEMMA MarkFields ==
  ASSUME NEW f \in Files(Keys, Vals), Linked(f), NEW n \in DOMAIN f.recs
  PROVE  LET d == MarkFree(f, n)
         IN  /\ d \in Files(Keys, Vals)
             /\ d.free_recno = f.free_recno
             /\ DOMAIN d.recs = DOMAIN f.recs
             /\ d.recs[n].status = FREE /\ d.recs[n].next_recno = 0
             /\ \A r \in DOMAIN f.recs \ {n} : d.recs[r] = f.recs[r]
<1> DEFINE rec == [f.recs[n] EXCEPT !.status = FREE, !.next_recno = 0]
           rs  == [f.recs EXCEPT ![n] = rec]
<1>1. MarkFree(f, n) = [f EXCEPT !.recs = rs]
  BY FileFields DEF MarkFree, Files, Records
<1>2. rec.status = FREE /\ rec.next_recno = 0
  <2>1. f.recs[n] \in Records(Keys, Vals)
    BY FileFields
  <2>. QED
    BY <2>1 DEF Records
<1> HIDE DEF rec
<1>3. /\ DOMAIN rs = DOMAIN f.recs
      /\ rs[n] = rec
      /\ \A r \in DOMAIN f.recs \ {n} : rs[r] = f.recs[r]
  BY FileFields
<1> HIDE DEF rs
<1>4. MarkFree(f, n).recs = rs /\ MarkFree(f, n).free_recno = f.free_recno
  BY <1>1 DEF Files
<1>5. MarkFree(f, n) \in Files(Keys, Vals)
  BY DeleteRecordFile
<1>. QED
  BY <1>2, <1>3, <1>4, <1>5

(* What it writes last: the link of the record that was the last one.      *)
LEMMA LinkFields ==
  ASSUME NEW f \in Files(Keys, Vals), NEW t \in DOMAIN f.recs, NEW n
  PROVE  LET d == [f EXCEPT !.recs[t].next_recno = n]
         IN  /\ d.free_recno = f.free_recno
             /\ DOMAIN d.recs = DOMAIN f.recs
             /\ d.recs[t].next_recno = n
             /\ d.recs[t].status = f.recs[t].status
             /\ d.recs[t].buf = f.recs[t].buf
             /\ \A r \in DOMAIN f.recs \ {t} : d.recs[r] = f.recs[r]
<1> DEFINE rec == [f.recs[t] EXCEPT !.next_recno = n]
           rs  == [f.recs EXCEPT ![t] = rec]
           d   == [f EXCEPT !.recs[t].next_recno = n]
<1>1. d = [f EXCEPT !.recs = rs]
  BY FileFields DEF Files, Records
<1>2. /\ rec.next_recno = n
      /\ rec.status = f.recs[t].status /\ rec.buf = f.recs[t].buf
  <2>1. f.recs[t] \in Records(Keys, Vals)
    BY FileFields
  <2>. QED
    BY <2>1 DEF Records
<1> HIDE DEF rec
<1>3. /\ DOMAIN rs = DOMAIN f.recs
      /\ rs[t] = rec
      /\ \A r \in DOMAIN f.recs \ {t} : rs[r] = f.recs[r]
  BY FileFields
<1> HIDE DEF rs
<1>4. d.recs = rs /\ d.free_recno = f.free_recno
  BY <1>1 DEF Files
<1>. QED
  BY <1>2, <1>3, <1>4

(* delete_record of a record in use returns, and puts the record at the    *)
(* end of the list.                                                        *)
LEMMA DeleteChained ==
  ASSUME NEW f \in Files(Keys, Vals), Linked(f), Chained(f),
         NEW n \in DOMAIN f.recs, f.recs[n].status = OCCUPIED
  PROVE  LET d == DeleteRecord(f, n)
         IN  /\ DeleteReturns(f, n)
             /\ DOMAIN d.recs = DOMAIN f.recs
             /\ d.recs[n].status = FREE
             /\ \A r \in DOMAIN f.recs \ {n} : /\ d.recs[r].status = f.recs[r].status
                                               /\ d.recs[r].buf = f.recs[r].buf
             /\ Chained(d)
<1>1. PICK m, c : Chain(f, m, c)
  BY DEF Chained
<1> DEFINE k == MarkFree(f, n)
           d == DeleteRecord(f, n)
           e == [i \in 1 .. m + 1 |-> IF i <= m THEN c[i] ELSE n]
<1>2. /\ m \in Nat
      /\ \A i \in 1 .. m : c[i] \in DOMAIN f.recs /\ c[i] # 0 /\ c[i] # n
      /\ \A i, j \in 1 .. m : c[i] = c[j] => i = j
      /\ f.free_recno = IF m = 0 THEN 0 ELSE c[1]
      /\ \A i \in 1 .. m :
            f.recs[c[i]].next_recno = IF i = m THEN 0 ELSE c[i + 1]
      /\ Freed(f) = { c[i] : i \in 1 .. m }
  <2>1. Path(f, m, c) /\ Freed(f) = { c[i] : i \in 1 .. m }
    BY <1>1 DEF Chain
  <2>2. n \notin Freed(f)
    BY DEF Freed, FREE, OCCUPIED
  <2>. QED
    BY <2>1, <2>2, PathFacts
<1>3. /\ k \in Files(Keys, Vals)
      /\ k.free_recno = f.free_recno
      /\ DOMAIN k.recs = DOMAIN f.recs
      /\ k.recs[n].status = FREE /\ k.recs[n].next_recno = 0
      /\ \A r \in DOMAIN f.recs \ {n} : k.recs[r] = f.recs[r]
  BY MarkFields
<1> HIDE DEF k
<1>4. Path(k, m, c)
  <2>1. Path(f, m, c)
    BY <1>1 DEF Chain
  <2>2. \A i \in 1 .. m : k.recs[c[i]].next_recno = f.recs[c[i]].next_recno
    BY <1>2, <1>3
  <2>. QED
    BY <1>3, <2>1, <2>2, SamePath
<1>5. DeleteReturns(f, n)
  BY <1>3, <1>4, PathEnds DEF DeleteReturns, k
<1>6. /\ DOMAIN d.recs = DOMAIN f.recs
      /\ d.free_recno = e[1]
      /\ d.recs[n].status = FREE /\ d.recs[n].next_recno = 0
      /\ \A r \in DOMAIN f.recs \ {n} : /\ d.recs[r].status = f.recs[r].status
                                        /\ d.recs[r].buf = f.recs[r].buf
      /\ \A i \in 1 .. m : d.recs[c[i]].next_recno = IF i = m THEN n ELSE c[i + 1]
  <2>1. CASE m = 0
    <3>1. d = [k EXCEPT !.free_recno = n]
      BY <1>2, <2>1 DEF DeleteRecord, k
    <3>2. d.recs = k.recs /\ d.free_recno = n
      BY <1>3, <3>1 DEF Files
    <3>3. e[1] = n
      BY <2>1
    <3> HIDE DEF d, e
    <3>. QED
      BY <1>3, <2>1, <3>2, <3>3
  <2>2. CASE m # 0
    <3>1. d = [k EXCEPT !.recs[FreeTail(k)].next_recno = n]
      <4>1. f.free_recno # 0
        BY <1>2, <2>2
      <4>. QED
        BY <4>1 DEF DeleteRecord, k
    <3>2. FreeTail(k) = c[m]
      BY <1>3, <1>4, <2>2, PathEnds
    <3>3. m \in 1 .. m /\ c[m] \in DOMAIN k.recs /\ c[m] # n /\ e[1] = c[1]
      BY <1>2, <1>3, <2>2
    <3>4. /\ d.free_recno = k.free_recno
          /\ DOMAIN d.recs = DOMAIN k.recs
          /\ d.recs[c[m]].next_recno = n
          /\ d.recs[c[m]].status = k.recs[c[m]].status
          /\ d.recs[c[m]].buf = k.recs[c[m]].buf
          /\ \A r \in DOMAIN k.recs \ {c[m]} : d.recs[r] = k.recs[r]
      BY <1>3, <3>1, <3>2, <3>3, LinkFields
    <3>5. \A i \in 1 .. m : i # m => c[i] # c[m]
      BY <1>2, <3>3
    <3> HIDE DEF d, e
    <3>6. \A i \in 1 .. m : d.recs[c[i]].next_recno = IF i = m THEN n ELSE c[i + 1]
      <4> TAKE i \in 1 .. m
      <4>1. CASE i = m
        BY <3>4, <4>1
      <4>2. CASE i # m
        <5>1. d.recs[c[i]] = f.recs[c[i]]
          BY <1>2, <1>3, <3>4, <3>5, <4>2
        <5>. QED
          BY <1>2, <4>2, <5>1
      <4>. QED
        BY <4>1, <4>2
    <3>. QED
      BY <1>2, <1>3, <2>2, <3>3, <3>4, <3>6
  <2>. QED
    BY <2>1, <2>2
<1> HIDE DEF d
<1>7. /\ \A i \in 1 .. m : e[i] = c[i]
      /\ e[m + 1] = n
      /\ m + 1 \in Nat /\ m + 1 # 0
      /\ \A i \in 1 .. m + 1 : i # m + 1 => i \in 1 .. m
  BY <1>2
<1>8. Path(d, m + 1, e)
  <2>1. e \in [1 .. m + 1 -> DOMAIN d.recs]
    BY <1>2, <1>6
  <2> HIDE DEF e
  <2>2. \A i, j \in 1 .. m + 1 : e[i] = e[j] => i = j
    BY <1>2, <1>7
  <2>3. ASSUME NEW i \in 1 .. m + 1
        PROVE  d.recs[e[i]].next_recno = IF i = m + 1 THEN 0 ELSE e[i + 1]
    <3>1. CASE i = m + 1
      BY <1>6, <1>7, <3>1
    <3>2. CASE i # m + 1 /\ i = m
      BY <1>6, <1>7, <3>2
    <3>3. CASE i # m + 1 /\ i # m
      <4>1. i \in 1 .. m /\ i + 1 \in 1 .. m
        BY <1>2, <3>3
      <4>. QED
        BY <1>6, <1>7, <3>3, <4>1
    <3>. QED
      BY <3>1, <3>2, <3>3
  <2>. QED
    BY <1>6, <1>7, <2>1, <2>2, <2>3 DEF Path
<1>9. Freed(d) = { e[i] : i \in 1 .. m + 1 }
  <2>1. Freed(d) = Freed(f) \cup {n}
    BY <1>6 DEF Freed
  <2>2. { e[i] : i \in 1 .. m + 1 } = { c[i] : i \in 1 .. m } \cup {n}
    <3>1. \A i \in 1 .. m : i \in 1 .. m + 1
      BY <1>2
    <3>2. m + 1 \in 1 .. m + 1
      BY <1>2
    <3> HIDE DEF e
    <3>. QED
      BY <1>7, <3>1, <3>2
  <2>. QED
    BY <1>2, <2>1, <2>2
<1>10. Chained(d)
  <2> HIDE DEF e
  <2>1. Chain(d, m + 1, e)
    BY <1>8, <1>9 DEF Chain
  <2>. QED
    BY <2>1, Zenon DEF Chained
<1>. QED
  BY <1>5, <1>6, <1>10 DEF d

(* add_record takes the first record off the list, or a new one when the   *)
(* list is empty.                                                          *)
LEMMA AddChained ==
  ASSUME NEW f \in Files(Keys, Vals), Linked(f), Chained(f),
         NEW b \in Buffers(Keys, Vals)
  PROVE  /\ NextRecno(f) \in DOMAIN f.recs => f.recs[NextRecno(f)].status = FREE
         /\ Chained(AddRecord(f, b))
<1>1. PICK m, c : Chain(f, m, c)
  BY DEF Chained
<1> DEFINE n == NextRecno(f)
           g == AddRecord(f, b)
<1>2. /\ m \in Nat
      /\ \A i \in 1 .. m : c[i] \in DOMAIN f.recs /\ c[i] # 0
      /\ \A i, j \in 1 .. m : c[i] = c[j] => i = j
      /\ f.free_recno = IF m = 0 THEN 0 ELSE c[1]
      /\ \A i \in 1 .. m :
            f.recs[c[i]].next_recno = IF i = m THEN 0 ELSE c[i + 1]
      /\ Freed(f) = { c[i] : i \in 1 .. m }
  <2>1. Path(f, m, c) /\ Freed(f) = { c[i] : i \in 1 .. m }
    BY <1>1 DEF Chain
  <2>. QED
    BY <2>1, PathFacts
<1>3. /\ DOMAIN g.recs = DOMAIN f.recs \cup {n}
      /\ g.recs[n] = Occupied(b)
      /\ \A r \in DOMAIN f.recs \ {n} : g.recs[r] = f.recs[r]
  BY AddRecordFile
<1>4. Occupied(b).status # FREE
  BY DEF Occupied, FREE, OCCUPIED
<1>5. CASE m = 0
  <2>1. f.free_recno = 0 /\ Freed(f) = {}
    BY <1>2, <1>5
  <2>2. g.free_recno = 0
    BY <2>1 DEF AddRecord
  <2>3. n \notin DOMAIN f.recs
    <3>1. n = Len(f.recs) + 1
      BY <2>1 DEF NextRecno, NewRecno
    <3>. QED
      BY <3>1, FileFields
  <2> HIDE DEF n, g
  <2>4. Freed(g) = {}
    BY <1>3, <1>4, <2>1 DEF Freed
  <2> DEFINE e == [i \in 1 .. 0 |-> 0]
  <2>5. Path(g, 0, e) /\ { e[i] : i \in 1 .. 0 } = {}
    <3>1. 1 .. 0 = {}
      OBVIOUS
    <3>2. e \in [1 .. 0 -> DOMAIN g.recs]
      BY <3>1
    <3> HIDE DEF e
    <3>. QED
      BY <2>2, <3>1, <3>2 DEF Path
  <2>6. Chained(g)
    BY <2>4, <2>5 DEF Chained, Chain
  <2>. QED
    BY <2>3, <2>6 DEF n, g
<1>6. CASE m # 0
  <2>1. 1 \in 1 .. m /\ f.free_recno = c[1] /\ f.free_recno # 0
    BY <1>2, <1>6
  <2>2. n = c[1] /\ g.free_recno = f.recs[c[1]].next_recno
    BY <2>1 DEF NextRecno, AddRecord
  <2>3. n \in Freed(f)
    BY <1>2, <2>1, <2>2
  <2> HIDE DEF n, g
  <2> DEFINE e == [i \in 1 .. m - 1 |-> c[i + 1]]
  <2>4. /\ m - 1 \in Nat
        /\ \A i \in 1 .. m - 1 : i + 1 \in 1 .. m /\ i + 1 # 1
        /\ \A i \in 1 .. m : i # 1 => i - 1 \in 1 .. m - 1 /\ (i - 1) + 1 = i
    BY <1>2, <1>6
  <2>5. \A i \in 1 .. m - 1 : e[i] = c[i + 1] /\ e[i] # n /\ e[i] \in DOMAIN f.recs
    BY <1>2, <2>1, <2>2, <2>4
  <2>6. Path(g, m - 1, e)
    <3>1. e \in [1 .. m - 1 -> DOMAIN g.recs]
      BY <1>3, <2>5
    <3> HIDE DEF e
    <3>2. \A i, j \in 1 .. m - 1 : e[i] = e[j] => i = j
      <4> TAKE i, j \in 1 .. m - 1
      <4>1. e[i] = e[j] => i + 1 = j + 1
        BY <1>2, <2>4, <2>5
      <4>. QED
        BY <4>1
    <3>3. g.free_recno = IF m - 1 = 0 THEN 0 ELSE e[1]
      <4>1. CASE m = 1
        <5>1. g.free_recno = 0
          BY <1>2, <2>1, <2>2, <4>1
        <5>. QED
          BY <4>1, <5>1
      <4>2. CASE m # 1
        <5>1. 1 \in 1 .. m - 1 /\ m - 1 # 0
          BY <1>2, <1>6, <4>2
        <5>2. g.free_recno = c[1 + 1]
          BY <1>2, <2>1, <2>2, <4>2
        <5>. QED
          BY <2>5, <5>1, <5>2
      <4>. QED
        BY <4>1, <4>2
    <3>4. ASSUME NEW i \in 1 .. m - 1
          PROVE  g.recs[e[i]].next_recno = IF i = m - 1 THEN 0 ELSE e[i + 1]
      <4>1. g.recs[e[i]].next_recno = IF i + 1 = m THEN 0 ELSE c[i + 1 + 1]
        <5>1. g.recs[e[i]] = f.recs[c[i + 1]]
          BY <1>3, <2>5
        <5>. QED
          BY <1>2, <2>4, <5>1
      <4>2. CASE i = m - 1
        <5>1. i + 1 = m
          BY <1>2, <4>2
        <5>. QED
          BY <4>1, <4>2, <5>1
      <4>3. CASE i # m - 1
        <5>1. i + 1 # m /\ i + 1 \in 1 .. m - 1
          BY <1>2, <4>3
        <5>. QED
          BY <2>5, <4>1, <4>3, <5>1
      <4>. QED
        BY <4>2, <4>3
    <3>. QED
      BY <2>4, <3>1, <3>2, <3>3, <3>4 DEF Path
  <2>7. Freed(g) = { e[i] : i \in 1 .. m - 1 }
    <3> HIDE DEF e
    <3>1. Freed(g) = Freed(f) \ {n}
      BY <1>3, <1>4 DEF Freed
    <3>2. { c[i] : i \in 1 .. m } \ {n} = { e[i] : i \in 1 .. m - 1 }
      BY <2>1, <2>2, <2>4, <2>5
    <3>. QED
      BY <1>2, <3>1, <3>2
  <2>8. Chained(g)
    <3> HIDE DEF e
    <3>1. Chain(g, m - 1, e)
      BY <2>6, <2>7 DEF Chain
    <3>. QED
      BY <3>1, Zenon DEF Chained
  <2>9. f.recs[n].status = FREE
    BY <2>3 DEF Freed
  <2>. QED
    BY <2>8, <2>9 DEF n, g
<1>. QED
  BY <1>5, <1>6

(* A write that leaves status, links and head alone leaves the list alone. *)
LEMMA SameChained ==
  ASSUME NEW f \in Files(Keys, Vals), NEW g, Chained(f),
         DOMAIN g.recs = DOMAIN f.recs, g.free_recno = f.free_recno,
         \A r \in DOMAIN f.recs : /\ g.recs[r].status = f.recs[r].status
                                  /\ g.recs[r].next_recno = f.recs[r].next_recno
  PROVE  Chained(g)
<1>1. PICK m, c : Chain(f, m, c)
  BY DEF Chained
<1>2. Path(g, m, c)
  <2>1. \A i \in 1 .. m : c[i] \in DOMAIN f.recs
    BY <1>1, PathLength DEF Chain
  <2>. QED
    BY <1>1, <2>1, SamePath DEF Chain
<1>3. Freed(g) = Freed(f)
  BY DEF Freed
<1>. QED
  BY <1>1, <1>2, <1>3 DEF Chained, Chain

-----------------------------------------------------------------------------
(***************************************************************************)
(* A file whose index and records agree is the store of KeyStore.tla.      *)
(* Two kinds of files are: those nothing is deleted from, TRAN_LOG and     *)
(* OPERATOR in BACKEND.C, and those in which every key comes when its      *)
(* position in the index is the number of its record, so that the          *)
(* position db_delete frees is the one it means.                           *)
(***************************************************************************)
(* A live entry names an occupied record that holds its key.               *)
Backed(f, ix) ==
    \A e \in LiveEntries(ix) : /\ e.recno \in DOMAIN f.recs
                               /\ f.recs[e.recno].status = OCCUPIED
                               /\ f.recs[e.recno].buf.key = e.key

(* An occupied record has its entry.                                       *)
Covered(f, ix) ==
    \A r \in DOMAIN f.recs :
        f.recs[r].status = OCCUPIED => \E e \in LiveEntries(ix) : e.recno = r

(* The record the caller holds is the one on the disk.                     *)
Current(f, ix, n, b) ==
    b # NoBuf => /\ n \in DOMAIN f.recs
                 /\ f.recs[n].buf = b
                 /\ \E e \in LiveEntries(ix) : e.recno = n /\ e.key = b.key

StoreInv == /\ DbmsInv
            /\ Backed(file, index)
            /\ Covered(file, index)
            /\ Chained(file)
            /\ Current(file, index, curr_recno, buffer)
            /\ ~looping

(* A record found under a key is that key's record.                        *)
LEMMA ViewOfKey ==
  ASSUME NEW f \in Files(Keys, Vals), NEW ix \in Seq(Entries(Keys)),
         Sorted(ix), Backed(f, ix), NEW k \in Keys
  PROVE  \/ /\ GetIndex(ix, k) = 0
            /\ \A e \in LiveEntries(ix) : e.key # k
         \/ /\ GetIndex(ix, k) # 0
            /\ GetIndex(ix, k) \in DOMAIN f.recs
            /\ f.recs[GetIndex(ix, k)].status = OCCUPIED
            /\ f.recs[GetIndex(ix, k)].buf.key = k
            /\ \E e \in LiveEntries(ix) : e.key = k /\ e.recno = GetIndex(ix, k)
<1>1. 0 \notin DOMAIN f.recs
  BY FileFields
<1>. QED
  BY <1>1, GetIndexCorrect DEF Backed

(* The refinement mapping as an operator of the file and its index.        *)
View(f, ix) == [k \in Keys |-> IF GetIndex(ix, k) = 0 THEN NoVal
                               ELSE f.recs[GetIndex(ix, k)].buf.val]

LEMMA ViewIsStore == StoreView = View(file, index) /\ StoreView' = View(file', index')
BY DEF StoreView, View, GetRecord

(* The invariant, unfolded.                                                *)
LEMMA StoreFacts ==
  ASSUME StoreInv
  PROVE  /\ file \in Files(Keys, Vals) /\ index \in Seq(Entries(Keys))
         /\ buffer \in Buffers(Keys, Vals) \cup {NoBuf}
         /\ Sorted(index) /\ Linked(file)
         /\ Backed(file, index) /\ Covered(file, index) /\ Chained(file)
         /\ Current(file, index, curr_recno, buffer)
         /\ \A r \in DOMAIN file.recs : file.recs[r].buf \in Buffers(Keys, Vals)
BY RecnosUnfold, FileFields DEF StoreInv, DbmsInv, TypeOK, IndexSorted

(* db_obtain is the store's Obtain.                                        *)
LEMMA StoreObtain ==
  ASSUME StoreInv, NEW k \in Keys, DbObtain(k), DbmsInv'
  PROVE  StoreInv' /\ KS!Obtain(k)
<1> DEFINE n == GetIndex(index, k)
<1>1. /\ file' = file /\ index' = index /\ looping' = looping
      /\ curr_recno' = n
      /\ n = 0 => buffer' = NoBuf /\ rcode' = DB_REC_NTF
      /\ n # 0 => buffer' = file.recs[n].buf /\ rcode' = SUCCESS
  BY DEF DbObtain, GetRecord
<1>2. \/ n = 0
      \/ /\ n # 0 /\ n \in DOMAIN file.recs /\ file.recs[n].buf.key = k
         /\ \E e \in LiveEntries(index) : e.key = k /\ e.recno = n
  BY StoreFacts, ViewOfKey
<1>3. StoreView[k] = IF n = 0 THEN NoVal ELSE file.recs[n].buf.val
  BY DEF StoreView, GetRecord
<1> HIDE DEF n
<1>4. n # 0 => /\ StoreView[k] \in Vals
               /\ file.recs[n].buf = [key |-> k, val |-> StoreView[k]]
  BY <1>2, <1>3, StoreFacts DEF Buffers
<1>5. StoreView' = StoreView
  BY <1>1, ViewIsStore
<1>6. KS!Obtain(k)
  BY <1>1, <1>3, <1>4, <1>5, ValsAssumption
     DEF KS!Obtain, KS!SUCCESS, KS!DB_REC_NTF, SUCCESS, DB_REC_NTF
<1>7. Current(file', index', curr_recno', buffer')
  BY <1>1, <1>2 DEF Current
<1>8. StoreInv'
  BY <1>1, <1>7
     DEF StoreInv, Backed, Covered, Current, LiveEntries, Live
<1>. QED
  BY <1>6, <1>8

(* db_update is the store's Update: it writes the record that the key of   *)
(* the work area leads to, and no other key leads there.                   *)
LEMMA StoreUpdate ==
  ASSUME StoreInv, NEW v \in Vals, DbUpdate(v), DbmsInv'
  PROVE  StoreInv' /\ KS!Update(v)
<1> DEFINE n == curr_recno
           k == buffer.key
           b == [buffer EXCEPT !.val = v]
           rec == [file.recs[n] EXCEPT !.buf = b]
           rs  == [file.recs EXCEPT ![n] = rec]
<1>1. /\ buffer # NoBuf /\ buffer \in Buffers(Keys, Vals)
      /\ buffer' = b /\ file' = PutRecord(file, n, b)
      /\ index' = index /\ curr_recno' = n /\ rcode' = rcode /\ looping' = looping
  BY StoreFacts DEF DbUpdate
<1>2. /\ n \in DOMAIN file.recs
      /\ \E e \in LiveEntries(index) : e.recno = n /\ e.key = k
      /\ n \in 1 .. Len(file.recs)
  BY <1>1, StoreFacts, FileFields DEF Current
<1>3. /\ b \in Buffers(Keys, Vals) /\ b.key = k /\ b.val = v /\ k \in Keys
  BY <1>1 DEF Buffers
<1> HIDE DEF b
<1>4. /\ rec.status = file.recs[n].status
      /\ rec.next_recno = file.recs[n].next_recno
      /\ rec.buf = b
  <2>1. file.recs[n] \in Records(Keys, Vals)
    BY <1>2, StoreFacts, FileFields
  <2>. QED
    BY <2>1 DEF Records
<1>5. file' = [file EXCEPT !.recs = rs]
  BY <1>1 DEF PutRecord
<1> HIDE DEF rec
<1>6. /\ DOMAIN rs = DOMAIN file.recs
      /\ rs[n] = rec
      /\ \A r \in DOMAIN file.recs \ {n} : rs[r] = file.recs[r]
  BY <1>2, StoreFacts, FileFields
<1> HIDE DEF rs
<1>7. file'.recs = rs /\ file'.free_recno = file.free_recno
  BY <1>5, StoreFacts DEF Files
<1>8. GetIndex(index, k) = n /\ n # 0
  <2>1. 0 \notin DOMAIN file.recs
    BY StoreFacts, FileFields
  <2>. QED
    BY <1>2, <1>3, <2>1, StoreFacts, GetIndexCorrect
<1>9. StoreView' = [StoreView EXCEPT ![k] = v]
  <2>1. \A q \in Keys \ {k} : GetIndex(index, q) # 0
           => GetIndex(index, q) \in DOMAIN file.recs \ {n}
    <3>1. file.recs[n].buf.key = k
      BY <1>2, StoreFacts DEF Backed
    <3>. QED
      BY <3>1, StoreFacts, ViewOfKey
  <2>2. file'.recs[n].buf.val = v
    BY <1>3, <1>4, <1>6, <1>7
  <2>3. \A q \in Keys \ {k} : GetIndex(index, q) # 0
           => file'.recs[GetIndex(index, q)] = file.recs[GetIndex(index, q)]
    BY <1>6, <1>7, <2>1
  <2>4. View(file', index') = [View(file, index) EXCEPT ![k] = v]
    <3>1. \A q \in Keys : View(file', index)[q] = IF q = k THEN v ELSE View(file, index)[q]
      BY <1>3, <1>8, <2>2, <2>3 DEF View
    <3>2. /\ View(file', index) = [q \in Keys |-> View(file', index)[q]]
          /\ View(file, index) = [q \in Keys |-> View(file, index)[q]]
      BY DEF View
    <3>. QED
      BY <1>1, <1>3, <3>1, <3>2
  <2>. QED
    BY <2>4, ViewIsStore
<1>10. KS!Update(v)
  BY <1>1, <1>9 DEF KS!Update, b
<1>11. Backed(file', index') /\ Covered(file', index') /\ Chained(file')
  <2>1. file.recs[n].buf.key = k
    BY <1>2, StoreFacts DEF Backed
  <2>2. \A r \in DOMAIN file.recs : /\ rs[r].status = file.recs[r].status
                                    /\ rs[r].next_recno = file.recs[r].next_recno
                                    /\ rs[r].buf.key = file.recs[r].buf.key
    BY <1>3, <1>4, <1>6, <2>1
  <2>3. Chained(file')
    BY <1>6, <1>7, <2>2, StoreFacts, SameChained
  <2>. QED
    BY <1>1, <1>6, <1>7, <2>2, <2>3, StoreFacts DEF Backed, Covered
<1>12. Current(file', index', curr_recno', buffer')
  BY <1>1, <1>2, <1>3, <1>4, <1>6, <1>7 DEF Current
<1>13. StoreInv'
  BY <1>1, <1>11, <1>12
     DEF StoreInv, Backed, Covered, Current, LiveEntries, Live
<1>. QED
  BY <1>10, <1>13

(* db_insert of a key that is there leaves the store as it was: the record *)
(* it has written is deleted again.                                        *)
LEMMA StoreRefused ==
  ASSUME StoreInv, NEW k \in Keys, NEW v \in Vals, DbInsert(k, v), DbmsInv',
         GetIndex(index, k) # 0
  PROVE  StoreInv' /\ KS!Insert(k, v) /\ index' = index
<1> DEFINE b == [key |-> k, val |-> v]
           n == NextRecno(file)
           g == AddRecord(file, b)
           d == DeleteRecord(g, n)
<1>0. b \in Buffers(Keys, Vals)
  BY DEF Buffers
<1>1. /\ g \in Files(Keys, Vals) /\ Linked(g)
      /\ n \in DOMAIN g.recs
      /\ DOMAIN g.recs = DOMAIN file.recs \cup {n}
      /\ g.recs[n].status = OCCUPIED
      /\ \A r \in DOMAIN file.recs \ {n} : g.recs[r] = file.recs[r]
  <2>1. /\ g \in Files(Keys, Vals) /\ Linked(g)
        /\ n \in DOMAIN g.recs
        /\ DOMAIN g.recs = DOMAIN file.recs \cup {n}
        /\ g.recs[n] = Occupied(b)
        /\ \A r \in DOMAIN file.recs \ {n} : g.recs[r] = file.recs[r]
    BY <1>0, StoreFacts, AddRecordFile
  <2>2. Occupied(b).status = OCCUPIED
    BY DEF Occupied
  <2>. QED
    BY <2>1, <2>2
<1>2. /\ n \in DOMAIN file.recs => file.recs[n].status = FREE
      /\ Chained(g)
  BY <1>0, StoreFacts, AddChained
<1>3. /\ DeleteReturns(g, n)
      /\ DOMAIN d.recs = DOMAIN g.recs
      /\ d.recs[n].status = FREE
      /\ \A r \in DOMAIN g.recs \ {n} : /\ d.recs[r].status = g.recs[r].status
                                        /\ d.recs[r].buf = g.recs[r].buf
      /\ Chained(d)
  <2> HIDE DEF g, n
  <2>. QED
    BY <1>1, <1>2, DeleteChained
<1>4. /\ index' = index /\ rcode' = DB_REC_DUP /\ buffer' = NoBuf
      /\ looping' = FALSE /\ file' = d /\ curr_recno' = curr_recno
  BY <1>3 DEF DbInsert
<1> HIDE DEF b, n, g, d
<1>5. \A r \in DOMAIN file.recs \ {n} : /\ d.recs[r].status = file.recs[r].status
                                        /\ d.recs[r].buf = file.recs[r].buf
  BY <1>1, <1>3
<1>6. \A e \in LiveEntries(index) : e.recno # n
  BY <1>2, StoreFacts DEF Backed, FREE, OCCUPIED
<1>7. \A q \in Keys : GetIndex(index, q) # 0
         => /\ GetIndex(index, q) \in DOMAIN file.recs
            /\ GetIndex(index, q) # n
  BY <1>6, StoreFacts, ViewOfKey
<1>8. StoreView' = StoreView
  <2>1. View(file', index') = View(file, index)
    BY <1>4, <1>5, <1>7 DEF View
  <2>. QED
    BY <2>1, ViewIsStore
<1>9. StoreView[k] # NoVal
  <2>1. file.recs[GetIndex(index, k)].buf.val \in Vals
    BY <1>7, StoreFacts DEF Buffers
  <2>. QED
    BY <2>1, ValsAssumption, ViewIsStore DEF View
<1>10. KS!Insert(k, v)
  BY <1>4, <1>8, <1>9 DEF KS!Insert, KS!DB_REC_DUP, DB_REC_DUP
<1>11. Backed(file', index')
  BY <1>1, <1>3, <1>4, <1>5, <1>6, StoreFacts DEF Backed
<1>12. Covered(file', index')
  BY <1>1, <1>3, <1>4, <1>5, StoreFacts DEF Covered, FREE, OCCUPIED
<1>13. StoreInv'
  BY <1>3, <1>4, <1>11, <1>12
     DEF StoreInv, Backed, Covered, Current, LiveEntries, Live
<1>. QED
  BY <1>4, <1>10, <1>13

(* db_insert of a new key adds it to the store and changes no other key.   *)
LEMMA StoreAdded ==
  ASSUME StoreInv, NEW k \in Keys, NEW v \in Vals, DbInsert(k, v), DbmsInv',
         GetIndex(index, k) = 0
  PROVE  StoreInv' /\ KS!Insert(k, v)
<1> DEFINE b == [key |-> k, val |-> v]
           n == NextRecno(file)
<1>1. /\ b \in Buffers(Keys, Vals) /\ b.key = k /\ b.val = v
      /\ Occupied(b).status = OCCUPIED /\ Occupied(b).buf = b
      /\ EntryFor(n, k).key = k /\ EntryFor(n, k).recno = n
  BY DEF Buffers, Occupied, EntryFor
<1>2. /\ file' = AddRecord(file, b)
      /\ n # 0
      /\ DOMAIN file'.recs = DOMAIN file.recs \cup {n}
      /\ file'.recs[n] = Occupied(b)
      /\ \A r \in DOMAIN file.recs \ {n} : file'.recs[r] = file.recs[r]
      /\ LiveEntries(index') = LiveEntries(index) \cup {EntryFor(n, k)}
      /\ \A e \in LiveEntries(index) : e.key # k
      /\ GetIndex(index', k) = n
      /\ \A q \in Keys \ {k} : GetIndex(index', q) = GetIndex(index, q)
  BY InsertAdds DEF StoreInv
<1>3. /\ n \in DOMAIN file.recs => file.recs[n].status = FREE
      /\ Chained(file')
  BY <1>1, <1>2, StoreFacts, AddChained
<1>4. rcode' = SUCCESS /\ buffer' = NoBuf /\ looping' = looping
  BY DEF DbInsert
<1> HIDE DEF b, n
<1>5. \A e \in LiveEntries(index) : e.recno # n
  BY <1>3, StoreFacts DEF Backed, FREE, OCCUPIED
<1>6. \A q \in Keys \ {k} :
         GetIndex(index, q) # 0 => GetIndex(index, q) \in DOMAIN file.recs \ {n}
  BY <1>5, StoreFacts, ViewOfKey
<1>7. StoreView' = [StoreView EXCEPT ![k] = v]
  <2>1. file'.recs[n].buf.val = v
    BY <1>1, <1>2
  <2>2. \A q \in Keys : View(file', index')[q] = IF q = k THEN v
                                                 ELSE View(file, index)[q]
    <3>1. \A q \in Keys \ {k} : GetIndex(index, q) # 0 =>
             file'.recs[GetIndex(index, q)] = file.recs[GetIndex(index, q)]
      BY <1>2, <1>6
    <3>2. View(file', index')[k] = v
      BY <1>2, <2>1 DEF View
    <3>3. \A q \in Keys \ {k} : View(file', index')[q] = View(file, index)[q]
      BY <1>2, <3>1 DEF View
    <3>. QED
      BY <3>2, <3>3
  <2>3. View(file', index') = [View(file, index) EXCEPT ![k] = v]
    <3>1. /\ View(file', index') = [q \in Keys |-> View(file', index')[q]]
          /\ View(file, index) = [q \in Keys |-> View(file, index)[q]]
      BY DEF View
    <3>. QED
      BY <2>2, <3>1
  <2>. QED
    BY <2>3, ViewIsStore
<1>8. StoreView[k] = NoVal
  BY ViewIsStore DEF View
<1>9. KS!Insert(k, v)
  BY <1>4, <1>7, <1>8 DEF KS!Insert, KS!SUCCESS, SUCCESS
<1>10. Backed(file', index')
  BY <1>1, <1>2, <1>5, StoreFacts DEF Backed
<1>11. Covered(file', index')
  BY <1>1, <1>2, StoreFacts DEF Covered
<1>12. StoreInv'
  BY <1>3, <1>4, <1>10, <1>11
     DEF StoreInv, Backed, Covered, Current, LiveEntries, Live
<1>. QED
  BY <1>9, <1>12

(* The position of an entry in use is the number of its record.            *)
Positions(ix) == \A i \in Live(ix) : ix[i].recno = i

(* db_delete of the record the caller holds removes its key, when the      *)
(* record's number is the position of its entry.                           *)
LEMMA StoreDelete ==
  ASSUME StoreInv, Positions(index), DbDelete, DbmsInv'
  PROVE  StoreInv' /\ Positions(index') /\ KS!Delete
<1> DEFINE n == curr_recno
           k == buffer.key
           d == DeleteRecord(file, n)
           old == index[n]
           gone == [status |-> FREE, recno |-> 0, key |-> old.key]
           new == [index EXCEPT ![n] = gone]
<1>1. /\ buffer # NoBuf /\ n \in DOMAIN file.recs /\ file.recs[n].buf = buffer
      /\ k \in Keys
      /\ \E e \in LiveEntries(index) : e.recno = n /\ e.key = k
  BY StoreFacts DEF DbDelete, Current, Buffers
<1>2. /\ n \in Live(index) /\ old.key = k /\ old.recno = n
  BY <1>1 DEF Positions, LiveEntries
<1>3. n \in DOMAIN index /\ DOMAIN index = 1 .. Len(index)
  BY <1>2, StoreFacts, EntryFields DEF Live
<1>4. GetIndex(index, k) = n /\ file.recs[n].status = OCCUPIED
  BY <1>1, StoreFacts, GetIndexCorrect DEF Backed
<1>5. /\ DeleteReturns(file, n)
      /\ DOMAIN d.recs = DOMAIN file.recs
      /\ d.recs[n].status = FREE
      /\ \A r \in DOMAIN file.recs \ {n} :
            /\ d.recs[r].status = file.recs[r].status
            /\ d.recs[r].buf = file.recs[r].buf
      /\ Chained(d)
  BY <1>1, <1>4, StoreFacts, DeleteChained
<1>6. /\ index' = new
      /\ file' = d /\ looping' = FALSE
      /\ buffer' = NoBuf /\ rcode' = SUCCESS
  <2>1. index' = DeleteIndex(index, k)
    BY <1>1 DEF DbDelete, GetRecord
  <2>2. DeleteIndex(index, k) = new
    BY <1>3, <1>4 DEF DeleteIndex
  <2>. QED
    BY <1>5, <2>1, <2>2 DEF DbDelete
<1>7. /\ DOMAIN new = DOMAIN index /\ new[n].status = FREE
      /\ \A i \in DOMAIN index \ {n} : new[i] = index[i]
  <2>1. gone.status = FREE
    OBVIOUS
  <2> HIDE DEF gone
  <2>. QED
    BY <1>3, <2>1, StoreFacts
<1> HIDE DEF n, k, d, old, new
<1>8. Live(index') = Live(index) \ {n}
  BY <1>3, <1>6, <1>7 DEF Live, FREE, OCCUPIED
<1>9. \A i \in Live(index') : i # n /\ i \in Live(index) /\ index'[i] = index[i]
  BY <1>6, <1>7, <1>8 DEF Live
<1>10. Positions(index')
  BY <1>9 DEF Positions
<1>11. LiveEntries(index') = { e \in LiveEntries(index) : e.recno # n }
  <2>1. \A i \in Live(index) : index[i].recno = i
    BY DEF Positions
  <2>. QED
    BY <1>8, <1>9, <2>1 DEF LiveEntries
<1>12. /\ index' \in Seq(Entries(Keys)) /\ Sorted(index')
  BY DEF DbmsInv, TypeOK, IndexSorted
<1>13. \A e \in LiveEntries(index) : e.key = k <=> e.recno = n
  <2>1. \A e \in LiveEntries(index) : e.key = k => e.recno = n
    BY <1>1, <1>4, StoreFacts, GetIndexCorrect
  <2>2. \A e \in LiveEntries(index) : e.recno = n => e.key = k
    BY <1>1, StoreFacts DEF Backed, k
  <2>. QED
    BY <2>1, <2>2
<1>14. GetIndex(index', k) = 0
  BY <1>1, <1>11, <1>12, <1>13, GetIndexCorrect
<1>15. ASSUME NEW q \in Keys \ {k}
       PROVE  /\ GetIndex(index', q) = GetIndex(index, q)
              /\ GetIndex(index, q) # 0 =>
                   GetIndex(index, q) \in DOMAIN file.recs \ {n}
  <2>1. CASE GetIndex(index, q) = 0
    <3>1. \A e \in LiveEntries(index) : e.key # q
      BY <2>1, StoreFacts, ViewOfKey
    <3>. QED
      BY <1>11, <1>12, <2>1, <3>1, GetIndexCorrect
  <2>2. CASE GetIndex(index, q) # 0
    <3>1. PICK e \in LiveEntries(index) : e.key = q /\ e.recno = GetIndex(index, q)
      BY <2>2, StoreFacts, ViewOfKey
    <3>2. e.recno # n
      BY <1>13, <3>1
    <3>3. GetIndex(index', q) = e.recno
      BY <1>11, <1>12, <3>1, <3>2, GetIndexCorrect
    <3>. QED
      BY <3>1, <3>2, <3>3, StoreFacts DEF Backed
  <2>. QED
    BY <2>1, <2>2
<1>16. StoreView' = [StoreView EXCEPT ![k] = NoVal]
  <2>1. View(file', index') = [View(file, index) EXCEPT ![k] = NoVal]
    BY <1>5, <1>6, <1>14, <1>15 DEF View
  <2>. QED
    BY <2>1, ViewIsStore
<1>17. KS!Delete
  BY <1>1, <1>6, <1>16 DEF KS!Delete, KS!SUCCESS, SUCCESS, k
<1>18. Backed(file', index')
  BY <1>5, <1>6, <1>11, StoreFacts DEF Backed
<1>19. Covered(file', index')
  BY <1>5, <1>6, <1>11, StoreFacts DEF Covered, FREE, OCCUPIED
<1>20. StoreInv'
  BY <1>5, <1>6, <1>18, <1>19
     DEF StoreInv, Backed, Covered, Current, LiveEntries, Live
<1>. QED
  BY <1>10, <1>17, <1>20

(* A new key that is in step takes the position its record's number says.  *)
LEMMA AlignedInsert ==
  ASSUME StoreInv, Positions(index), NEW k \in Keys, InStep(k)
  PROVE  Positions(AddIndex(index, NextRecno(file), k))
<1> DEFINE n == NextRecno(file)
           e == EntryFor(n, k)
           new == AddIndex(index, n, k)
<1>1. /\ index \in Seq(Entries(Keys)) /\ Len(index) \in Nat
      /\ DOMAIN index = 1 .. Len(index)
  BY StoreFacts, EntryFields
<1>2. e.recno = n
  BY DEF EntryFor
<1>3. CASE index = << >> \/ k > index[Len(index)].key
  <2>1. n = Len(index) + 1 /\ new = Append(index, e)
    BY <1>3 DEF InStep, EntryPos, AddIndex
  <2> HIDE DEF n, e
  <2>2. /\ DOMAIN Append(index, e) = 1 .. (Len(index) + 1)
        /\ \A i \in 1 .. Len(index) : Append(index, e)[i] = index[i]
        /\ Append(index, e)[Len(index) + 1] = e
    BY <1>1
  <2> HIDE DEF new
  <2>3. \A i \in DOMAIN new : i # n => i \in DOMAIN index /\ new[i] = index[i]
    BY <1>1, <2>1, <2>2
  <2>4. new[n] = e
    BY <2>1, <2>2
  <2>5. \A i \in Live(new) : new[i].recno = i
    BY <1>2, <2>3, <2>4 DEF Positions, Live
  <2>. QED
    BY <2>5 DEF Positions, new, n
<1>4. CASE ~ (index = << >> \/ k > index[Len(index)].key)
  <2>1. n = InsertPos(index, k) /\ n \in DOMAIN index
    BY <1>1, <1>4, InsertPosExists DEF InStep, EntryPos
  <2>2. new = [index EXCEPT ![n] = e]
    BY <1>4, <2>1 DEF InStep, EntryPos, AddIndex
  <2> HIDE DEF n, e
  <2>3. /\ DOMAIN new = DOMAIN index /\ new[n] = e
        /\ \A i \in DOMAIN index \ {n} : new[i] = index[i]
    BY <1>1, <2>1, <2>2
  <2> HIDE DEF new
  <2>4. \A i \in Live(new) : new[i].recno = i
    BY <1>2, <2>3 DEF Positions, Live
  <2>. QED
    BY <2>4 DEF Positions, new, n
<1>. QED
  BY <1>3, <1>4

(* db_insert, of a key that is there or not.                               *)
LEMMA StoreInsert ==
  ASSUME StoreInv, NEW k \in Keys, NEW v \in Vals, DbInsert(k, v), DbmsInv'
  PROVE  StoreInv' /\ KS!Insert(k, v)
<1>1. CASE GetIndex(index, k) = 0
  BY <1>1, StoreAdded
<1>2. CASE GetIndex(index, k) # 0
  BY <1>2, StoreRefused
<1>. QED
  BY <1>1, <1>2

(* Nothing happens to the store when nothing happens to the file.          *)
LEMMA StoreStutter ==
  ASSUME StoreInv, UNCHANGED vars
  PROVE  StoreInv' /\ UNCHANGED KS!vars
<1>1. /\ file' = file /\ index' = index /\ curr_recno' = curr_recno
      /\ buffer' = buffer /\ rcode' = rcode /\ looping' = looping
  BY DEF vars
<1>2. StoreView' = StoreView
  BY <1>1, ViewIsStore
<1>3. DbmsInv'
  BY DbmsInvStep DEF StoreInv
<1>4. StoreInv'
  BY <1>1, <1>3 DEF StoreInv, Backed, Covered, Current, LiveEntries, Live
<1>. QED
  BY <1>1, <1>2, <1>4 DEF KS!vars

(* Every step of a file nothing is deleted from is a step of the store.    *)
LEMMA AppendStep ==
  ASSUME StoreInv, [AppendNext]_vars
  PROVE  StoreInv' /\ [KS!Next]_(KS!vars)
<1>1. DbmsInv'
  BY DbmsInvStep DEF StoreInv, Next
<1>2. CASE UNCHANGED vars
  BY <1>2, StoreStutter
<1>3. ASSUME NEW k \in Keys, DbObtain(k)
      PROVE  StoreInv' /\ KS!Next
  BY <1>1, <1>3, StoreObtain DEF KS!Next
<1>4. ASSUME NEW v \in Vals, DbUpdate(v)
      PROVE  StoreInv' /\ KS!Next
  BY <1>1, <1>4, StoreUpdate DEF KS!Next
<1>5. ASSUME NEW k \in Keys, NEW v \in Vals, DbInsert(k, v)
      PROVE  StoreInv' /\ KS!Next
  BY <1>1, <1>5, StoreInsert DEF KS!Next
<1>. QED
  BY <1>2, <1>3, <1>4, <1>5 DEF AppendNext

(* So is every step of a file whose keys come in step.                     *)
AlignedInv == StoreInv /\ Positions(index)

LEMMA AlignedStep ==
  ASSUME AlignedInv, [AlignedNext]_vars
  PROVE  AlignedInv' /\ [KS!Next]_(KS!vars)
<1>0. StoreInv /\ Positions(index)
  BY DEF AlignedInv
<1>1. DbmsInv'
  BY <1>0, DbmsInvStep DEF StoreInv, AlignedNext, Next, AppendNext
<1>2. index' = index => Positions(index')
  BY <1>0
<1>3. CASE UNCHANGED vars
  <2>1. index' = index
    BY <1>3 DEF vars
  <2>. QED
    BY <1>0, <1>2, <1>3, <2>1, StoreStutter DEF AlignedInv
<1>4. ASSUME NEW k \in Keys, DbObtain(k)
      PROVE  AlignedInv' /\ KS!Next
  <2>1. index' = index
    BY <1>4 DEF DbObtain
  <2>. QED
    BY <1>0, <1>1, <1>2, <1>4, <2>1, StoreObtain DEF KS!Next, AlignedInv
<1>5. ASSUME NEW v \in Vals, DbUpdate(v)
      PROVE  AlignedInv' /\ KS!Next
  <2>1. index' = index
    BY <1>5 DEF DbUpdate
  <2>. QED
    BY <1>0, <1>1, <1>2, <1>5, <2>1, StoreUpdate DEF KS!Next, AlignedInv
<1>6. ASSUME NEW k \in Keys, NEW v \in Vals,
             GetIndex(index, k) # 0 \/ InStep(k), DbInsert(k, v)
      PROVE  AlignedInv' /\ KS!Next
  <2>1. StoreInv' /\ KS!Insert(k, v)
    BY <1>0, <1>1, <1>6, StoreInsert
  <2>2. Positions(index')
    <3>1. CASE GetIndex(index, k) # 0
      BY <1>0, <1>1, <1>2, <1>6, <3>1, StoreRefused
    <3>2. CASE GetIndex(index, k) = 0
      <4>1. index' = AddIndex(index, NextRecno(file), k)
        BY <1>6, <3>2 DEF DbInsert
      <4>. QED
        BY <1>0, <1>6, <3>2, <4>1, AlignedInsert
    <3>. QED
      BY <3>1, <3>2
  <2>. QED
    BY <2>1, <2>2 DEF KS!Next, AlignedInv
<1>7. ASSUME DbDelete
      PROVE  AlignedInv' /\ KS!Next
  BY <1>0, <1>1, <1>7, StoreDelete DEF KS!Next, AlignedInv
<1>. QED
  BY <1>3, <1>4, <1>5, <1>6, <1>7 DEF AlignedNext

(* The empty file is the empty store.                                      *)
LEMMA StoreStart == Init => StoreInv /\ Positions(index) /\ KS!Init
<1> SUFFICES ASSUME Init
             PROVE  StoreInv /\ Positions(index) /\ KS!Init
  OBVIOUS
<1>1. DOMAIN file.recs = {} /\ file.free_recno = 0 /\ index = << >>
      /\ buffer = NoBuf /\ rcode = SUCCESS /\ ~looping
  BY DEF Init, EmptyFile, EmptyIndex
<1>2. Live(index) = {} /\ LiveEntries(index) = {}
  BY <1>1 DEF Live, LiveEntries
<1>3. Chained(file)
  <2> DEFINE c == [i \in 1 .. 0 |-> 0]
  <2>1. 1 .. 0 = {}
    OBVIOUS
  <2>2. c \in [1 .. 0 -> DOMAIN file.recs] /\ { c[i] : i \in 1 .. 0 } = {}
    BY <2>1
  <2> HIDE DEF c
  <2>3. Path(file, 0, c) /\ Freed(file) = {}
    BY <1>1, <2>1, <2>2 DEF Path, Freed
  <2>4. Chain(file, 0, c)
    BY <2>2, <2>3 DEF Chain
  <2>. QED
    BY <2>4, Zenon DEF Chained
<1>4. StoreInv
  BY <1>1, <1>2, <1>3, DbmsInvInit DEF StoreInv, Backed, Covered, Current
<1>5. StoreView = [k \in Keys |-> NoVal]
  BY <1>2 DEF StoreView, GetIndex
<1>. QED
  BY <1>1, <1>2, <1>4, <1>5 DEF KS!Init, KS!SUCCESS, SUCCESS, Positions

(* Index and records agree, and no two keys share a record.                *)
LEMMA StoreExact == StoreInv => IndexExact /\ NoAlias /\ FreeListExact
<1> SUFFICES ASSUME StoreInv
             PROVE  IndexExact /\ NoAlias /\ FreeListExact
  OBVIOUS
<1>1. \A i \in Live(index) : index[i] \in LiveEntries(index)
  BY DEF LiveEntries
<1>2. IndexExact
  BY <1>1, StoreFacts DEF IndexExact, Backed, Covered, LiveEntries
<1>3. NoAlias
  <2>1. /\ DOMAIN index = 1 .. Len(index) /\ Len(index) \in Nat
        /\ \A p \in 1 .. Len(index) : index[p].key \in Nat
    BY StoreFacts, EntryFields
  <2>2. \A i, j \in Live(index) : index[i].key = index[j].key => i = j
    BY <2>1, StoreFacts DEF Sorted, Live
  <2>3. \A i \in Live(index) : file.recs[index[i].recno].buf.key = index[i].key
    BY <1>2 DEF IndexExact
  <2>. QED
    BY <2>2, <2>3 DEF NoAlias
<1>4. FreeListExact
  BY StoreFacts, ChainExact
<1>. QED
  BY <1>2, <1>3, <1>4

(* The index of a file that nothing is deleted from is exact: each key has *)
(* at most one record, each record in use has its key, and the records     *)
(* that refused insertions leave behind are all on the list (add_index,    *)
(* add_record and db_insert, DBMS.C:287-331, 447-554, 766-799).            *)
THEOREM AppendExact == AppendSpec => [](IndexExact /\ NoAlias /\ FreeListExact)
<1>1. StoreInv /\ [AppendNext]_vars => StoreInv'
  BY AppendStep
<1>. QED
  BY <1>1, StoreStart, StoreExact, PTL DEF AppendSpec

(* db_obtain, db_update and db_insert on such a file are the operations of *)
(* a store of one value per key (DBMS.C:727-799).                          *)
THEOREM AppendImplementsStore == AppendSpec => ImplementsKeyStore
<1>1. StoreInv /\ [AppendNext]_vars => StoreInv' /\ [KS!Next]_(KS!vars)
  BY AppendStep
<1>. QED
  BY <1>1, StoreStart, PTL DEF AppendSpec, ImplementsKeyStore, KS!Spec

(* With deletions, and keys that come in step, the index stays exact ...   *)
THEOREM AlignedExact == AlignedSpec => [](IndexExact /\ NoAlias)
<1>1. AlignedInv /\ [AlignedNext]_vars => AlignedInv'
  BY AlignedStep
<1>2. Init => AlignedInv
  BY StoreStart DEF AlignedInv
<1>3. AlignedInv => IndexExact /\ NoAlias
  BY StoreExact DEF AlignedInv
<1>. QED
  BY <1>1, <1>2, <1>3, PTL DEF AlignedSpec

(* ... the list of deleted records ends, goes through every deleted record *)
(* and through none twice, so that delete_record always returns            *)
(* (DBMS.C:243-284, 304-312), ...                                          *)
THEOREM AlignedFreeList == AlignedSpec => []FreeListExact
<1>1. AlignedInv /\ [AlignedNext]_vars => AlignedInv'
  BY AlignedStep
<1>2. Init => AlignedInv
  BY StoreStart DEF AlignedInv
<1>3. AlignedInv => FreeListExact
  BY StoreExact DEF AlignedInv
<1>. QED
  BY <1>1, <1>2, <1>3, PTL DEF AlignedSpec

(* ... and the four operations are those of the store, db_delete included  *)
(* (DBMS.C:727-838).                                                       *)
THEOREM AlignedImplementsStore == AlignedSpec => ImplementsKeyStore
<1>1. AlignedInv /\ [AlignedNext]_vars => AlignedInv' /\ [KS!Next]_(KS!vars)
  BY AlignedStep
<1>2. Init => AlignedInv /\ KS!Init
  BY StoreStart DEF AlignedInv
<1>. QED
  BY <1>1, <1>2, PTL DEF AlignedSpec, ImplementsKeyStore, KS!Spec
=============================================================================
