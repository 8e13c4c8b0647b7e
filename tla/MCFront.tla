------------------------------- MODULE MCFront -------------------------------
(***************************************************************************)
(* Short numbers, two operators, every amount of up to three of five       *)
(* characters, of four of three, and longer ones at the limits of the      *)
(* field.                                                                  *)
(***************************************************************************)
EXTENDS Front

MCBalances == {<<"0","0","0","0","0","0","0","0","0">>,
               <<"0","0","0","0","0","0","0","0","5">>,
               <<"0","0","0","0","0","0","5","0","0">>,
               <<"0","0","1","0","0","0","0","1","0">>,
               <<"9","9","9","9","9","9","9","9","9">>}

Alphabet == {" ", ".", "0", "5", "x"}

Short == UNION {[1 .. n -> Alphabet] : n \in 0 .. 3}
           \cup [1 .. 4 -> {" ", ".", "5"}]

Point == <<".">>

Long ==
  {Fill("9", n) \o tail : n \in 5 .. 6,
     tail \in {<<>>, Point} \cup {Point \o d : d \in {<<"9">>, <<"9", "5">>, <<"9", "6">>}}}
    \cup {Fill("0", n) \o t : n \in 1 .. 2, t \in {<<".", "0", "5">>, <<".", "5">>}}
    \cup {Fill(c, n) : c \in {"0", "1", " "}, n \in 7 .. 9}
    \cup {Fill(c, 9 - Len(t)) \o t : c \in {"0", " "}, t \in {<<"5">>, <<"5", ".">>, <<".", "5">>}}
    \cup {t \o Fill(" ", 9 - Len(t)) : t \in {<<"5">>, <<"5", ".">>, <<".", "5">>}}

Retyped == {<<"5">>, <<"x">>}

(* An empty entry is given any text of its kind; one with a text is left   *)
(* as it is or changed to one of a few.                                    *)
MCTyped(type, old) ==
  {old} \cup
    CASE type = "T_AMOUNT"   -> IF old = <<>> THEN Short \cup Long ELSE Retyped
      [] type = "T_CUSTNAME" -> {<<"x">>, <<"x", " ">>}
      [] type = "T_OPERID"   -> {<<"1">>, <<"2">>, <<>>}
      [] OTHER               -> {<<"1", "2">>, <<"1", "x">>}
=============================================================================
