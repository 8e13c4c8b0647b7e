------------------------------- MODULE MCBank -------------------------------
(***************************************************************************)
(* Two terminals and the operators that log in at them.                    *)
(***************************************************************************)
EXTENDS Bank

MCFronts == 1 .. 2

MCClos   == {CLOS}

(* Every terminal has an operator of its own, 010 or 020.                  *)
MCOwn    == [f \in Fronts |-> {10 * f}]

(* Operator 010 works at both terminals, 000 at the first.                 *)
MCShared == <<{0, 10}, {10}>>

MCStaffs == {MCOwn, MCShared}
MCOneWay == {MCOwn}
=============================================================================
