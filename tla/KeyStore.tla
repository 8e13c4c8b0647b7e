------------------------------ MODULE KeyStore ------------------------------
(***************************************************************************)
(* What the functions of DBMS.C promise to a caller: a store of at most    *)
(* one value for each key, with a work area that holds the record obtained *)
(* last.  DBMS.C:727-837 are the four operations.                          *)
(***************************************************************************)
EXTENDS DbFile

CONSTANTS Keys,    (* the key values                                        *)
          Vals,    (* what a record holds besides its key                   *)
          NoVal,   (* a key that is not in the store                        *)
          NoBuf    (* the caller holds no record                            *)

VARIABLES store,   (* the value of each key                                 *)
          buffer,  (* the caller's work area                                *)
          rcode    (* result of the last operation                          *)

vars == <<store, buffer, rcode>>

Init == /\ store = [k \in Keys |-> NoVal]
        /\ buffer = NoBuf
        /\ rcode = SUCCESS

Obtain(k) ==
    /\ IF store[k] = NoVal
       THEN buffer' = NoBuf /\ rcode' = DB_REC_NTF
       ELSE buffer' = [key |-> k, val |-> store[k]] /\ rcode' = SUCCESS
    /\ UNCHANGED store

Update(v) ==
    /\ buffer # NoBuf
    /\ buffer' = [buffer EXCEPT !.val = v]
    /\ store' = [store EXCEPT ![buffer.key] = v]
    /\ UNCHANGED rcode

Insert(k, v) ==
    /\ IF store[k] = NoVal
       THEN store' = [store EXCEPT ![k] = v] /\ rcode' = SUCCESS
       ELSE rcode' = DB_REC_DUP /\ UNCHANGED store
    /\ buffer' = NoBuf

Delete ==
    /\ buffer # NoBuf
    /\ store' = [store EXCEPT ![buffer.key] = NoVal]
    /\ buffer' = NoBuf
    /\ rcode' = SUCCESS

Next == \/ \E k \in Keys : Obtain(k)
        \/ \E v \in Vals : Update(v)
        \/ \E k \in Keys, v \in Vals : Insert(k, v)
        \/ Delete

Spec == Init /\ [][Next]_vars

=============================================================================
