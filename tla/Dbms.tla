-------------------------------- MODULE Dbms --------------------------------
(***************************************************************************)
(* One data base file of DBMS.C with its index, under the calls a caller   *)
(* may make: db_obtain, db_update, db_insert and db_delete.                *)
(*                                                                         *)
(* A caller updates or deletes the record it has just obtained, as every   *)
(* handler of BACKEND.C does: buffer is that record, NoBuf when it has     *)
(* none.  The constant MaxRecs bounds the file for the model checker.      *)
(***************************************************************************)
EXTENDS DbFile

CONSTANTS Keys,     (* key values                                           *)
          Vals,     (* what a record holds besides its key                  *)
          NoVal,    (* no value: the key has no record                      *)
          NoBuf,    (* the caller holds no record                           *)
          MaxRecs   (* bound: records the file may grow to                  *)

ASSUME KeysAssumption == Keys \subseteq Nat
ASSUME ValsAssumption == NoVal \notin Vals
ASSUME BufAssumption  == NoBuf \notin Buffers(Keys, Vals)

VARIABLES file,        (* record file: fheader[fid] and the records         *)
          index,       (* index file: iheader[id] and the entries           *)
          curr_recno,  (* curr_recno[fid]                                   *)
          buffer,      (* the caller's work area                            *)
          rcode,       (* what the last call returned                       *)
          looping      (* delete_record's walk does not end                 *)

vars == <<file, index, curr_recno, buffer, rcode, looping>>

Init == /\ file = EmptyFile
        /\ index = EmptyIndex
        /\ curr_recno = 0
        /\ buffer = NoBuf
        /\ rcode = SUCCESS
        /\ looping = FALSE

(* A mistake: db_obtain does not keep the record number for db_update.     *)
DbObtainForgetful(k) ==
    LET recno == GetIndex(index, k)
    IN  /\ ~looping
        /\ curr_recno' = IF curr_recno = 0 THEN recno ELSE curr_recno
        /\ IF recno = 0
           THEN buffer' = NoBuf /\ rcode' = DB_REC_NTF
           ELSE buffer' = GetRecord(file, recno) /\ rcode' = SUCCESS
        /\ UNCHANGED <<file, index, looping>>

(* db_obtain leaves the result of get_record in the return register: it    *)
(* has no return statement of its own on that path.                        *)
DbObtain(k) ==
    /\ ~looping
    /\ curr_recno' = GetIndex(index, k)
    /\ IF curr_recno' = 0
       THEN buffer' = NoBuf /\ rcode' = DB_REC_NTF
       ELSE buffer' = GetRecord(file, curr_recno') /\ rcode' = SUCCESS
    /\ UNCHANGED <<file, index, looping>>

DbUpdate(v) ==
    /\ ~looping
    /\ buffer # NoBuf
    /\ buffer' = [buffer EXCEPT !.val = v]
    /\ file' = PutRecord(file, curr_recno, buffer')
    /\ UNCHANGED <<index, curr_recno, rcode, looping>>

(* The record is written before the key is looked up; a key that is        *)
(* already there makes db_insert delete the record again.                  *)
DbInsert(k, v) ==
    LET recno == NextRecno(file)
        added == AddRecord(file, [key |-> k, val |-> v])
        taken == GetIndex(index, k) # 0
    IN  /\ ~looping
        /\ Len(added.recs) <= MaxRecs
        /\ IF taken
           THEN /\ rcode' = DB_REC_DUP
                /\ index' = index
                /\ looping' = ~DeleteReturns(added, recno)
                /\ file' = IF looping' THEN MarkFree(added, recno)
                                       ELSE DeleteRecord(added, recno)
           ELSE /\ rcode' = SUCCESS
                /\ index' = AddIndex(index, recno, k)
                /\ file' = added
                /\ UNCHANGED looping
        /\ buffer' = NoBuf
        /\ UNCHANGED curr_recno

(* The key is read back from the record that is about to be deleted.       *)
DbDelete ==
    LET k == GetRecord(file, curr_recno).key
    IN  /\ ~looping
        /\ buffer # NoBuf
        /\ index' = DeleteIndex(index, k)
        /\ looping' = ~DeleteReturns(file, curr_recno)
        /\ file' = IF looping' THEN MarkFree(file, curr_recno)
                               ELSE DeleteRecord(file, curr_recno)
        /\ buffer' = NoBuf
        /\ rcode' = SUCCESS
        /\ UNCHANGED curr_recno

AppendNext == \/ \E k \in Keys : DbObtain(k)
              \/ \E v \in Vals : DbUpdate(v)
              \/ \E k \in Keys, v \in Vals : DbInsert(k, v)

Next == AppendNext \/ DbDelete

(* A file any caller may delete from: CUSTOMER.                            *)
Spec == Init /\ [][Next]_vars

(* A file nothing is ever deleted from: TRAN_LOG and OPERATOR.             *)
AppendSpec == Init /\ [][AppendNext]_vars

(* The position add_index gives a new key.                                 *)
EntryPos(k) == IF index = << >> \/ k > index[Len(index)].key
               THEN Len(index) + 1
               ELSE InsertPos(index, k)

(* Inserting k takes no entry or record out of step with the other: the    *)
(* new index position is the number of the new record.                     *)
InStep(k) == /\ EntryPos(k) = NextRecno(file)
             /\ EntryPos(k) \in DOMAIN index => index[EntryPos(k)].status = FREE

AlignedNext == \/ \E k \in Keys : DbObtain(k)
               \/ \E v \in Vals : DbUpdate(v)
               \/ \E k \in Keys, v \in Vals :
                    (GetIndex(index, k) # 0 \/ InStep(k)) /\ DbInsert(k, v)
               \/ DbDelete

(* Keys arrive in an order that keeps positions and record numbers equal.  *)
AlignedSpec == Init /\ [][AlignedNext]_vars

-----------------------------------------------------------------------------
(* Properties                                                              *)

TypeOK ==
    /\ file \in Files(Keys, Vals)
    /\ index \in Seq(Entries(Keys))
    /\ curr_recno \in Nat
    /\ buffer \in Buffers(Keys, Vals) \cup {NoBuf}
    /\ rcode \in {SUCCESS, DB_REC_DUP, DB_REC_NTF}
    /\ looping \in BOOLEAN

(* get_index searches by bisection, so add_index must leave the table      *)
(* strictly ascending, over reused slots and shifts, whatever delete_index *)
(* has marked free (DBMS.C:506-553, 580-590).                              *)
IndexSorted == Sorted(index)

(* The bisection of get_index finds the live entry of a key whenever there *)
(* is one, also next to entries that are free (DBMS.C:576-595).            *)
BisectionFinds == \A k \in Keys : Bisect(index, k) = GetIndex(index, k)

(* No record number in the index, in the list of deleted records or in     *)
(* curr_recno lies outside the file, so the GET_ERROR, PUT_ERROR and       *)
(* DEL_ERROR returns are never taken (DBMS.C:213, 235, 259).               *)
RecnosInFile ==
    /\ \A i \in Live(index) : index[i].recno \in DOMAIN file.recs
    /\ file.free_recno \in {0} \cup DOMAIN file.recs
    /\ \A r \in DOMAIN file.recs : file.recs[r].next_recno \in {0} \cup DOMAIN file.recs
    /\ buffer # NoBuf => curr_recno \in DOMAIN file.recs

(* After a db_insert that reports success the key is found, at the record  *)
(* that was just written (DBMS.C:766-799), and no other key's answer has   *)
(* changed.                                                                *)
InsertedKeyFound ==
    [][\A k \in Keys, v \in Vals :
          (DbInsert(k, v) /\ rcode' = SUCCESS)
          => /\ GetIndex(index', k) # 0
             /\ GetRecord(file', GetIndex(index', k)) = [key |-> k, val |-> v]
             /\ \A q \in Keys \ {k} : GetIndex(index', q) = GetIndex(index, q)]_vars

(* The index and the records agree: a live entry names an occupied record  *)
(* that holds its key, and every occupied record has its entry.            *)
IndexExact ==
    /\ \A i \in Live(index) :
          /\ index[i].recno \in DOMAIN file.recs
          /\ file.recs[index[i].recno].status = OCCUPIED
          /\ file.recs[index[i].recno].buf.key = index[i].key
    /\ \A r \in DOMAIN file.recs :
          file.recs[r].status = OCCUPIED => \E i \in Live(index) : index[i].recno = r

(* No two keys share a record.                                             *)
NoAlias ==
    \A i, j \in Live(index) : index[i].recno = index[j].recno => i = j

(* The list of deleted records ends, passes through deleted records only,  *)
(* and through every one of them (DBMS.C:243-284, 304-312).                *)
FreeListExact ==
    LET walk == FreeWalk(file)
    IN  /\ FreeListEnds(file)
        /\ { walk[n] : n \in DOMAIN walk } \ {0}
             = { r \in DOMAIN file.recs : file.recs[r].status = FREE }
        /\ \A m, n \in DOMAIN walk : walk[m] = walk[n] /\ walk[m] # 0 => m = n

(* The value the store holds for each key, as a caller can obtain it.      *)
StoreView == [k \in Keys |-> IF GetIndex(index, k) = 0 THEN NoVal
                             ELSE GetRecord(file, GetIndex(index, k)).val]

KS == INSTANCE KeyStore WITH store <- StoreView

(* The four operations behave as the store of KeyStore.tla.                *)
ImplementsKeyStore == KS!Spec

(* "To delete an index record for a key on the disk storage"               *)
(* (DBMS.C:606): after db_delete the key of the record is not found.       *)
DeletedKeyGone ==
    [][\A k \in Keys :
          (DbDelete /\ buffer.key = k) => GetIndex(index', k) = 0]_vars

=============================================================================
