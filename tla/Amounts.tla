------------------------------- MODULE Amounts -------------------------------
(***************************************************************************)
(* Amounts on a frontend: from the text in a field to the nine digits of a *)
(* request (check_amount_format, put_leading_zeros) and from the nine      *)
(* digits of a reply to the text on the screen (display_balance).  A text  *)
(* is the sequence of its characters, every letter being "x".              *)
(***************************************************************************)
EXTENDS Integers, FiniteSets, Sequences, SequencesExt

Numerals == <<"0", "1", "2", "3", "4", "5", "6", "7", "8", "9">>
Digits == {Numerals[n] : n \in 1 .. 10}
Space == " "
Chars == Digits \cup {Space, ".", "x"}

AMT_ERR        == "error"
AMT_OK         == "ok"
AMT_ZERO       == "zero"
AMT_EXCEED_MAX == "exceeds"

DigitValue(c) == CHOOSE n \in 0 .. 9 : Numerals[n + 1] = c

Fill(c, n) == [k \in 1 .. n |-> c]

From(s, k) == SubSeq(s, k, Len(s))

(* The first position that answers to Test, one past the end if none does. *)
FirstOf(s, Test(_)) ==
  Min({k \in 1 .. Len(s) : Test(k)} \cup {Len(s) + 1})

Count(s, chars) == Cardinality({k \in 1 .. Len(s) : s[k] \in chars})

(* The number the digits of a text spell, 10^9 if there are more than nine:*)
(* the number so far with one more character.                              *)
AndThen(n, c) == IF c \notin Digits THEN n
                 ELSE IF n >= 100000000 THEN 1000000000
                 ELSE 10 * n + DigitValue(c)

Spelling(s) ==
  LET spelling[k \in 0 .. Len(s)] ==
        IF k = 0 THEN 0 ELSE AndThen(spelling[k - 1], s[k])
  IN  spelling

Spelt(s) == Spelling(s)[Len(s)]
-----------------------------------------------------------------------------
(* Leading blanks and zeros go, but for a zero in front of the point.      *)
TrimLeft(s) ==
  From(s, FirstOf(s, LAMBDA k :
    ~ \/ s[k] = Space
      \/ s[k] = "0" /\ (k = Len(s) \/ s[k + 1] # ".")))

(* A blank before any digit counts as a zero (it follows the point); one   *)
(* after a digit ends the amount, and what follows is not looked at.       *)
Amount(s) ==
  LET digit == FirstOf(s, LAMBDA k : s[k] \in Digits)
      end   == FirstOf(s, LAMBDA k : k > digit /\ s[k] = Space)
  IN  [k \in 1 .. end - 1 |-> IF s[k] = Space THEN "0" ELSE s[k]]

Decimals(s) == Len(s) - FirstOf(s, LAMBDA k : s[k] = ".")

(* A bug: one decimal is taken for two.                                    *)
WithAnyDecimals(s) ==
  IF "." \notin ToSet(s) THEN s \o <<".", "0", "0">>
  ELSE s \o (IF Decimals(s) = 0 THEN <<"0", "0">> ELSE <<>>)

(* A bug: two zeros are added to what there is.                            *)
WithTwoZeros(s) ==
  IF "." \notin ToSet(s) THEN s \o <<".", "0", "0">> ELSE s \o <<"0", "0">>

(* Two decimals, given those there are.                                    *)
WithDecimals(s) ==
  IF "." \notin ToSet(s) THEN s \o <<".", "0", "0">>
  ELSE s \o Fill("0", 2 - Decimals(s))

(* test_amount is a float: 24 bits, the nearest value, ties to even.       *)
Spacing(n) == IF n < 16777216 THEN 1 ELSE IF n < 33554432 THEN 2
              ELSE IF n < 67108864 THEN 4 ELSE 8

AsFloat(n) ==
  LET u == Spacing(n)
      q == n \div u
      r == 2 * (n % u)
  IN  u * IF r > u \/ (r = u /\ q % 2 = 1) THEN q + 1 ELSE q

RightAligned(s, l) == Fill(Space, l - Len(s)) \o s

(* The digits in s that the loop counts, blanks turned to zeros left out.  *)
DigitsIn(s) ==
  Count(SubSeq(s, 1, Len(Amount(s))), Digits)

Answer(code, s) == [code |-> code, text |-> s]

check_amount_format(in_s, l) ==
  LET trimmed == TrimLeft(in_s)
      kept    == Amount(trimmed)
      s       == WithDecimals(kept)
      cents   == Spelt(s)
      points  == Count(kept, {"."})
  IN  CASE \/ \E k \in 1 .. Len(in_s) - 1 : in_s[k] = "x"
           \/ "x" \in ToSet(kept)
           \/ DigitsIn(trimmed) > l - 1
           \/ points > 1
           \/ points = 1 /\ Decimals(kept) > 2 -> Answer(AMT_ERR, in_s)
        [] OTHER ->
             CASE cents = 0                  -> Answer(AMT_ZERO, in_s)
               [] AsFloat(cents) > 99999999  -> Answer(AMT_EXCEED_MAX, in_s)
               [] OTHER -> Answer(AMT_OK, RightAligned(s, l))

(* The point is taken out, the rest moves right over it, blanks turn to    *)
(* zeros.                                                                  *)
put_leading_zeros(s) ==
  LET moved == <<"0">> \o SubSeq(s, 1, Len(s) - 3) \o From(s, Len(s) - 1)
  IN  [k \in 1 .. Len(s) |-> IF moved[k] = Space THEN "0" ELSE moved[k]]

(* A bug in display_balance: all leading zeros are blanked out, those      *)
(* around the point as well.                                               *)
display_digits(digits) ==
  LET blank == FirstOf(digits, LAMBDA k : digits[k] # "0") - 1
      shown == Fill(Space, blank) \o From(digits, blank + 1)
  IN  SubSeq(shown, 1, 7) \o <<".">> \o From(shown, 8)

(* The point goes in before the last two digits; up to six leading zeros   *)
(* are blanked out.                                                        *)
display_balance(digits) ==
  LET blank == Min({FirstOf(digits, LAMBDA k : digits[k] # "0") - 1, 6})
  IN  Fill(Space, blank) \o SubSeq(digits, blank + 1, 7) \o <<".">>
        \o From(digits, 8)
-----------------------------------------------------------------------------
(* What the comments in front of the functions call an amount: digits, at  *)
(* most one point, at most two decimals; blanks around it do not count.    *)
Stripped(s) ==
  LET first == FirstOf(s, LAMBDA k : s[k] # Space)
      last  == Max({k \in 1 .. Len(s) : s[k] # Space} \cup {0})
  IN  SubSeq(s, first, last)

HasInnerBlank(s) == Space \in ToSet(Stripped(s))

IsAmount(s) ==
  LET t == Stripped(s)
  IN  /\ ToSet(t) \subseteq Digits \cup {"."}
      /\ Count(t, {"."}) <= 1
      /\ "." \in ToSet(t) => Decimals(t) <= 2

Cents(s) ==
  LET t     == Stripped(s)
      point == FirstOf(t, LAMBDA k : t[k] = ".")
      whole == Spelt(SubSeq(t, 1, point - 1))
      decs  == From(t, point + 1)
  IN  IF whole > 1000000 THEN 1000000000
      ELSE 100 * whole + Spelt(decs \o Fill("0", 2 - Len(decs)))
==============================================================================
