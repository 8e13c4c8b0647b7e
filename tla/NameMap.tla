------------------------------- MODULE NameMap -------------------------------
(***************************************************************************)
(* What a name server promises: a map from names to addresses, and one     *)
(* answer to each request.  A free name is registered, a name that is      *)
(* registered is refused.  The map is lost when the server stops.          *)
(***************************************************************************)
CONSTANTS Names, Addresses, NoAddress

VARIABLES map,    \* the address of each name, NoAddress for a free name
          answer  \* the last request answered, and its result

vars == <<map, answer>>

Free(n) == map[n] = NoAddress

Init == map = [n \in Names |-> NoAddress] /\ answer = <<"none">>

Register(n, a) ==
  /\ answer' = <<"register", n, "ok">>
  /\ Free(n)
  /\ map' = [map EXCEPT ![n] = a]

RefuseName(n) ==
  /\ answer' = <<"register", n, "already exists">>
  /\ ~ Free(n)
  /\ UNCHANGED map

Modify(n, a) ==
  /\ answer' = <<"modify", n, IF Free(n) THEN "not exist" ELSE "ok">>
  /\ map' = [map EXCEPT ![n] = IF Free(n) THEN NoAddress ELSE a]

Delete(n) ==
  /\ answer' = <<"delete", n, IF Free(n) THEN "not exist" ELSE "ok">>
  /\ map' = [map EXCEPT ![n] = NoAddress]

Enquire(n) == answer' = <<"enquire", n, map[n]>> /\ UNCHANGED map

Ignore == answer' = <<"none">> /\ UNCHANGED map

Forget == map' = [n \in Names |-> NoAddress] /\ answer' = <<"none">>

Next ==
  \/ \E n \in Names, a \in Addresses : Register(n, a) \/ Modify(n, a)
  \/ \E n \in Names : RefuseName(n) \/ Delete(n) \/ Enquire(n)
  \/ Ignore
  \/ Forget

Spec == Init /\ [][Next]_vars
==============================================================================
