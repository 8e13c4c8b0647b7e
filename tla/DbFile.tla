------------------------------- MODULE DbFile -------------------------------
(***************************************************************************)
(* The data structures of DBMS.C as values: a record file with its list of *)
(* deleted records, and the index file that goes with it.                  *)
(*                                                                         *)
(*   file  = [free_recno, recs]   struct dbfile_header and the records     *)
(*                                behind it; new_recno is Len(recs) + 1    *)
(*   index = sequence of entries  struct dbindex_header and its entries;   *)
(*                                last_recno is Len(index)                 *)
(*                                                                         *)
(* Keys are fixed-width digit strings compared with strcmp, hence numbers. *)
(* The functions of DBMS.C are operators from the value before the call to *)
(* the value after it.  The loops over an index are given by what they     *)
(* find in a table sorted by key: Dbms.tla shows that the table is always  *)
(* sorted, and that the bisection of get_index finds what GetIndex says.   *)
(***************************************************************************)
EXTENDS Integers, Sequences

FREE     == 0
OCCUPIED == 1

SUCCESS    == 0
DB_REC_DUP == -6
DB_REC_NTF == -7

Buffers(Keys, Vals) == [key : Keys, val : Vals]
Records(Keys, Vals) == [status : {FREE, OCCUPIED}, next_recno : Nat, buf : Buffers(Keys, Vals)]
Entries(Keys)       == [status : {FREE, OCCUPIED}, recno : Nat, key : Keys]
Files(Keys, Vals)   == [free_recno : Nat, recs : Seq(Records(Keys, Vals))]

EmptyFile  == [free_recno |-> 0, recs |-> << >>]
EmptyIndex == << >>

-----------------------------------------------------------------------------
(* The index file.                                                         *)

Live(index) == { i \in DOMAIN index : index[i].status = OCCUPIED }

Sorted(index) == \A i, j \in DOMAIN index : i < j => index[i].key < index[j].key

(* The data record a live entry for k names, 0 when there is none.         *)
GetIndex(index, k) ==
    IF \E i \in Live(index) : index[i].key = k
    THEN index[CHOOSE i \in Live(index) : index[i].key = k].recno
    ELSE 0

(* The low and the high end of the part of the table still to be searched. *)
Ranges(index) == (1 .. (Len(index) + 1)) \X (0 .. Len(index))

(* A mistake: the last position of the range is not looked at.             *)
BisectNarrow(index, k) ==
    LET search[range \in Ranges(index)] ==
            LET low  == range[1]
                high == range[2]
                mid  == (low + high) \div 2
            IN  IF low >= high THEN 0
                ELSE IF index[mid].key = k THEN GetIndex(index, k)
                ELSE IF k < index[mid].key THEN search[<<low, mid - 1>>]
                ELSE search[<<mid + 1, high>>]
    IN  search[<<1, Len(index)>>]

(* The search of get_index: by bisection over all entries, free or not.    *)
Bisect(index, k) ==
    LET search[range \in Ranges(index)] ==
            LET low  == range[1]
                high == range[2]
                mid  == (low + high) \div 2
            IN  IF low > high THEN 0
                ELSE IF index[mid].key = k
                     THEN IF index[mid].status = FREE THEN 0 ELSE index[mid].recno
                ELSE IF k < index[mid].key THEN search[<<low, mid - 1>>]
                ELSE search[<<mid + 1, high>>]
    IN  search[<<1, Len(index)>>]

(* First position whose key is not below k; the key of the last one is >= k *)
InsertPos(index, k) ==
    CHOOSE p \in DOMAIN index :
        /\ index[p].key >= k
        /\ \A q \in 1 .. (p - 1) : index[q].key < k

EntryFor(recno, k) == [status |-> OCCUPIED, recno |-> recno, key |-> k]

(* Entries from pos to the last move up by one, the new one takes pos.     *)
ShiftIn(index, pos, e) ==
    [i \in 1 .. (Len(index) + 1) |->
        IF i < pos THEN index[i] ELSE IF i = pos THEN e ELSE index[i - 1]]

(* Mistakes that the runs must find (PROJECT.json, "mutants"): a key that  *)
(* is above the first one is taken to be above all, ...                    *)
AddIndexAboveFirst(index, recno, k) ==
    IF index = << >> \/ k > index[1].key
    THEN Append(index, EntryFor(recno, k))
    ELSE ShiftIn(index, 1, EntryFor(recno, k))

(* ... and the entry found at the position is overwritten, free or not.    *)
AddIndexNoShift(index, recno, k) ==
    IF index = << >> \/ k > index[Len(index)].key
    THEN Append(index, EntryFor(recno, k))
    ELSE [index EXCEPT ![InsertPos(index, k)] = EntryFor(recno, k)]

AddIndex(index, recno, k) ==
    IF index = << >> \/ k > index[Len(index)].key
    THEN Append(index, EntryFor(recno, k))
    ELSE LET pos == InsertPos(index, k)
         IN  IF index[pos].status = FREE
             THEN [index EXCEPT ![pos] = EntryFor(recno, k)]
             ELSE ShiftIn(index, pos, EntryFor(recno, k))

(* Mistakes: the key of a deleted entry is wiped out as well, ...          *)
DeleteIndexWiped(index, k) ==
    LET recno == GetIndex(index, k)
    IN  IF recno \in DOMAIN index
        THEN [index EXCEPT ![recno] = [status |-> FREE, recno |-> 0, key |-> 0]]
        ELSE index

(* ... and the entry stays in use.                                         *)
DeleteIndexForgotten(index, k) == index

(* The data record number that get_index returns is used as a position in  *)
(* the index file.  A position behind the last entry is outside the index: *)
(* what is written there is overwritten when the index grows.              *)
DeleteIndex(index, k) ==
    LET recno == GetIndex(index, k)
    IN  IF recno \in DOMAIN index
        THEN [index EXCEPT ![recno] = [status |-> FREE, recno |-> 0, key |-> @.key]]
        ELSE index

-----------------------------------------------------------------------------
(* The record file.                                                        *)

(* A mistake: the count of the records for the number of the next.         *)
NewRecnoLow(file) == Len(file.recs)

NewRecno(file) == Len(file.recs) + 1

Occupied(buf) == [status |-> OCCUPIED, next_recno |-> 0, buf |-> buf]

GetRecord(file, recno) == file.recs[recno].buf

PutRecord(file, recno, buf) == [file EXCEPT !.recs[recno].buf = buf]

(* The record number add_record is about to use.                           *)
NextRecno(file) == IF file.free_recno # 0 THEN file.free_recno ELSE NewRecno(file)

(* A mistake: the record stays in the list of deleted records.             *)
AddRecordStillListed(file, buf) ==
    IF file.free_recno # 0
    THEN [file EXCEPT !.recs[file.free_recno] = Occupied(buf)]
    ELSE [free_recno |-> 0, recs |-> Append(file.recs, Occupied(buf))]

AddRecord(file, buf) ==
    IF file.free_recno # 0
    THEN [free_recno |-> file.recs[file.free_recno].next_recno,
          recs       |-> [file.recs EXCEPT ![file.free_recno] = Occupied(buf)]]
    ELSE [free_recno |-> 0, recs |-> Append(file.recs, Occupied(buf))]

(* The records the list of deleted records visits, in order: position n of *)
(* the walk, 0 from where the list has ended.                              *)
FreeWalk(file) ==
    LET walk[n \in Nat] ==
            IF n = 0 THEN file.free_recno
            ELSE IF walk[n - 1] = 0 THEN 0
            ELSE file.recs[walk[n - 1]].next_recno
    IN  [n \in 0 .. Len(file.recs) |-> walk[n]]

FreeListEnds(file) == FreeWalk(file)[Len(file.recs)] = 0

FreeTail(file) ==
    LET walk == FreeWalk(file)
    IN  CHOOSE r \in DOMAIN file.recs :
            /\ \E n \in DOMAIN walk : walk[n] = r
            /\ file.recs[r].next_recno = 0

(* delete_record writes the header of the deleted record, ...              *)
MarkFree(file, recno) ==
    [file EXCEPT !.recs[recno].status = FREE, !.recs[recno].next_recno = 0]

(* ... then walks to the end of the list.  A walk that does not end never  *)
(* returns to the caller.                                                  *)
DeleteReturns(file, recno) ==
    file.free_recno # 0 => FreeListEnds(MarkFree(file, recno))

(* A mistake: the list starts anew with each deleted record.               *)
DeleteRecordNewList(file, recno) ==
    [MarkFree(file, recno) EXCEPT !.free_recno = recno]

DeleteRecord(file, recno) ==
    LET marked == MarkFree(file, recno)
    IN  IF file.free_recno = 0
        THEN [marked EXCEPT !.free_recno = recno]
        ELSE [marked EXCEPT !.recs[FreeTail(marked)].next_recno = recno]

=============================================================================
