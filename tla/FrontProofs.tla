----------------------------- MODULE FrontProofs -----------------------------
(***************************************************************************)
(* Theorems about Front.tla for every length of the fields and whatever is *)
(* typed: the request that is out says what the form on the screen says,   *)
(* nothing of a transaction outlives its form, an amount is taken for what *)
(* it says and stays what it is, a balance is shown for what it is.  The   *)
(* lemmas about the texts of Amounts.tla come first, then the forms.       *)
(***************************************************************************)
EXTENDS Front, TLAPS, LeastNumber

(* A digit has its value.                                                  *)
LEMMA DigitFacts ==
  /\ "0" \in Digits /\ DigitValue("0") = 0
  /\ Space \notin Digits /\ "." \notin Digits /\ "x" \notin Digits
  /\ \A c \in Digits : /\ DigitValue(c) \in 0 .. 9
                       /\ c # "0" => DigitValue(c) >= 1
<1>1. /\ Numerals[1] = "0" /\ Numerals[2] = "1" /\ Numerals[3] = "2"
      /\ Numerals[4] = "3" /\ Numerals[5] = "4" /\ Numerals[6] = "5"
      /\ Numerals[7] = "6" /\ Numerals[8] = "7" /\ Numerals[9] = "8"
      /\ Numerals[10] = "9"
  BY DEF Numerals
<1>2. Digits = {"0", "1", "2", "3", "4", "5", "6", "7", "8", "9"}
  <2>1. 1 .. 10 = {1, 2, 3, 4, 5, 6, 7, 8, 9, 10}
    OBVIOUS
  <2>. QED
    BY <1>1, <2>1 DEF Digits
<1>3. ASSUME NEW c \in Digits
      PROVE  DigitValue(c) \in 0 .. 9 /\ Numerals[DigitValue(c) + 1] = c
  <2>1. \E n \in 0 .. 9 : Numerals[n + 1] = c
    <3>1. PICK m \in 1 .. 10 : Numerals[m] = c
      BY DEF Digits
    <3>2. m - 1 \in 0 .. 9 /\ (m - 1) + 1 = m
      OBVIOUS
    <3>. QED
      BY <3>1, <3>2
  <2>. QED
    BY <2>1 DEF DigitValue
<1>4. \A n \in 0 .. 9 : n # 0 => Numerals[n + 1] # "0"
  BY <1>1
<1>5. DigitValue("0") = 0
  BY <1>2, <1>3, <1>4
<1>6. ASSUME NEW c \in Digits, c # "0"
      PROVE  DigitValue(c) >= 1
  <2>1. PICK n \in 0 .. 9 : DigitValue(c) = n /\ Numerals[n + 1] = c
    BY <1>3
  <2>. QED
    BY <1>1, <1>6, <2>1
<1>7. /\ "0" \in Digits /\ "." \notin Digits /\ "x" \notin Digits
      /\ Space \notin Digits
  BY <1>2, Zenon DEF Space
<1>. QED
  BY <1>3, <1>5, <1>6, <1>7

(* One character more, as the loop of check_amount_format reads it         *)
(* (FRONT.C:593-596).                                                      *)
LEMMA AndThenFacts ==
  ASSUME NEW n \in Nat, NEW c
  PROVE  /\ AndThen(n, c) \in Nat
         /\ c \notin Digits => AndThen(n, c) = n
         /\ c \in Digits /\ n < 100000000 => AndThen(n, c) = 10 * n + DigitValue(c)
         /\ c \in Digits /\ n >= 100000000 => AndThen(n, c) = 1000000000
BY DigitFacts, SMT DEF AndThen

(* A character more never makes a number smaller.                          *)
LEMMA AndThenGrows ==
  ASSUME NEW n \in Nat, NEW c, NEW least \in Nat, least <= 1000000000, n >= least
  PROVE  AndThen(n, c) >= least
<1>1. CASE c \notin Digits
  BY <1>1, AndThenFacts, SMT
<1>2. CASE c \in Digits
  <2>1. PICK d : d = DigitValue(c)
    BY SMT
  <2>2. d \in 0 .. 9
    BY <1>2, <2>1, DigitFacts, SMT
  <2>3. n < 100000000 => AndThen(n, c) = 10 * n + d
    BY <1>2, <2>1, AndThenFacts, SMT
  <2>4. n >= 100000000 => AndThen(n, c) = 1000000000
    BY <1>2, AndThenFacts, SMT
  <2>. QED
    BY <2>2, <2>3, <2>4, SMT
<1>. QED
  BY <1>1, <1>2, SMT

(* The walk through the digits of a text.                                  *)
Spells(f, s, m) ==
  f = [k \in 0 .. m |-> IF k = 0 THEN 0 ELSE AndThen(f[k - 1], s[k])]

(* The recursive function Spelling exists, and is what it says.            *)
LEMMA SpellingFacts ==
  ASSUME NEW s, Len(s) \in Nat
  PROVE  /\ DOMAIN Spelling(s) = 0 .. Len(s)
         /\ Spelling(s)[0] = 0
         /\ \A k \in 1 .. Len(s) : Spelling(s)[k] = AndThen(Spelling(s)[k - 1], s[k])
         /\ \A k \in 0 .. Len(s) : Spelling(s)[k] \in Nat
<1> DEFINE l == Len(s)
           G == {m \in 0 .. l : \E f : Spells(f, s, m)}
<1>1. 0 \in G
  <2>1. PICK f : f = [k \in 0 .. 0 |-> 0]
    OBVIOUS
  <2>2. f = [k \in 0 .. 0 |-> IF k = 0 THEN 0 ELSE AndThen(f[k - 1], s[k])]
    BY <2>1
  <2>. QED
    BY <2>2 DEF Spells
<1>2. ASSUME NEW m \in 1 .. l, m - 1 \in G
      PROVE  m \in G
  <2>1. PICK lo : lo = m - 1
    OBVIOUS
  <2>2. lo \in Nat /\ lo + 1 = m
    BY <2>1
  <2>3. PICK f : Spells(f, s, lo)
    BY <1>2, <2>1
  <2> DEFINE g == [k \in 0 .. m |-> IF k = 0 THEN 0 ELSE AndThen(f[k - 1], s[k])]
  <2>4. \A k \in 0 .. lo : g[k] = f[k]
    BY <2>2, <2>3 DEF Spells
  <2>5. \A k \in 1 .. m : k - 1 \in 0 .. lo
    BY <2>2
  <2>6. g = [k \in 0 .. m |-> IF k = 0 THEN 0 ELSE AndThen(g[k - 1], s[k])]
    <3> HIDE DEF g
    <3>1. \A k \in 0 .. m : k # 0 => AndThen(f[k - 1], s[k]) = AndThen(g[k - 1], s[k])
      BY <2>4, <2>5
    <3>. QED
      BY <3>1 DEF g
  <2>7. Spells(g, s, m) /\ m \in 0 .. l
    BY <2>6 DEF Spells
  <2> HIDE DEF g
  <2>. QED
    BY <2>7
<1>3. 0 .. l \subseteq G
  <2> HIDE DEF G
  <2>. QED
    BY <1>1, <1>2, CountedOn
<1>4. \E f : Spells(f, s, l)
  BY <1>3
<1>5. PICK f : f = CHOOSE g : Spells(g, s, l)
  OBVIOUS
<1>6. f = Spelling(s)
  BY <1>5 DEF Spelling, Spells
<1>7. f = [k \in 0 .. l |-> IF k = 0 THEN 0 ELSE AndThen(f[k - 1], s[k])]
  BY <1>4, <1>5 DEF Spells
<1>8. /\ DOMAIN f = 0 .. l /\ f[0] = 0
      /\ \A k \in 1 .. l : f[k] = AndThen(f[k - 1], s[k])
  BY <1>7
<1> DEFINE H == {k \in 0 .. l : f[k] \in Nat}
<1>9. 0 .. l \subseteq H
  <2>1. 0 \in H
    BY <1>8
  <2>2. \A k \in 1 .. l : k - 1 \in H => k \in H
    BY <1>8, AndThenFacts
  <2> HIDE DEF H
  <2>. QED
    BY <2>1, <2>2, CountedOn
<1>. QED
  BY <1>6, <1>8, <1>9
(* Two texts that go on alike, behind a and behind b, are spelt alike.     *)
Alike(s, a, u, b, n) ==
  /\ Len(s) \in Nat /\ a \in Nat /\ n \in Nat /\ a + n <= Len(s)
  /\ Len(u) \in Nat /\ b \in Nat /\ b + n <= Len(u)
  /\ \A i \in 1 .. n : s[a + i] = u[b + i]

(* A text that goes on as another begins.                                  *)
LEMMA AlikeStart ==
  ASSUME NEW s, NEW a \in Nat, NEW u, NEW n \in Nat,
         Len(s) \in Nat, a + n <= Len(s), Len(u) \in Nat, n <= Len(u),
         \A i \in 1 .. n : s[a + i] = u[i]
  PROVE  Alike(s, a, u, 0, n)
<1>1. 0 + n <= Len(u) /\ 0 \in Nat
  OBVIOUS
<1>2. \A i \in 1 .. n : 0 + i = i
  OBVIOUS
<1>3. \A i \in 1 .. n : s[a + i] = u[0 + i]
  BY <1>2
<1>. QED
  BY <1>1, <1>3 DEF Alike

(* Where two numbers are equal and the same follows, they stay equal.      *)
LEMMA SpeltAlike ==
  ASSUME NEW s, NEW a, NEW u, NEW b, NEW n, Alike(s, a, u, b, n),
         Spelling(s)[a] = Spelling(u)[b]
  PROVE  Spelling(s)[a + n] = Spelling(u)[b + n]
<1> DEFINE G == {i \in 0 .. n : Spelling(s)[a + i] = Spelling(u)[b + i]}
<1>1. /\ Len(s) \in Nat /\ a \in Nat /\ n \in Nat /\ a + n <= Len(s)
      /\ Len(u) \in Nat /\ b \in Nat /\ b + n <= Len(u)
      /\ \A i \in 1 .. n : s[a + i] = u[b + i]
  BY DEF Alike
<1>2. 0 \in G
  BY <1>1
<1>3. ASSUME NEW i \in 1 .. n, i - 1 \in G
      PROVE  i \in G
  <2>1. PICK j, k : j = a + i /\ k = b + i
    OBVIOUS
  <2>2. /\ j \in 1 .. Len(s) /\ k \in 1 .. Len(u)
        /\ a + (i - 1) = j - 1 /\ b + (i - 1) = k - 1
    BY <1>1, <2>1
  <2>3. Spelling(s)[j - 1] = Spelling(u)[k - 1] /\ s[j] = u[k]
    BY <1>1, <1>3, <2>1, <2>2
  <2>4. /\ Spelling(s)[j] = AndThen(Spelling(s)[j - 1], s[j])
        /\ Spelling(u)[k] = AndThen(Spelling(u)[k - 1], u[k])
    BY <1>1, <2>2, SpellingFacts
  <2>. QED
    BY <1>1, <2>1, <2>3, <2>4
<1>4. 0 .. n \subseteq G
  <2> HIDE DEF G
  <2>. QED
    BY <1>1, <1>2, <1>3, CountedOn
<1>. QED
  BY <1>1, <1>4

(* Leading zeros and what is no digit spell 0.                             *)
LEMMA ZeroSpelt ==
  ASSUME NEW s, Len(s) \in Nat, NEW n \in 0 .. Len(s),
         \A i \in 1 .. n : s[i] = "0" \/ s[i] \notin Digits
  PROVE  \A i \in 0 .. n : Spelling(s)[i] = 0
<1> DEFINE G == {i \in 0 .. n : Spelling(s)[i] = 0}
<1>1. 0 \in G
  BY SpellingFacts
<1>2. ASSUME NEW i \in 1 .. n, i - 1 \in G
      PROVE  i \in G
  <2>1. i \in 1 .. Len(s)
    OBVIOUS
  <2>2. Spelling(s)[i] = AndThen(0, s[i])
    BY <1>2, <2>1, SpellingFacts
  <2>3. AndThen(0, s[i]) = 0
    BY DigitFacts, SMT DEF AndThen
  <2>. QED
    BY <2>2, <2>3
<1>3. 0 .. n \subseteq G
  <2>1. n \in Nat
    OBVIOUS
  <2> HIDE DEF G
  <2>. QED
    BY <1>1, <1>2, <2>1, CountedOn
<1>. QED
  BY <1>3

(* More digits make no number smaller.                                     *)
LEMMA SpeltGrows ==
  ASSUME NEW s, Len(s) \in Nat, NEW a \in 0 .. Len(s), NEW n \in a .. Len(s),
         NEW least \in Nat, least <= 1000000000, Spelling(s)[a] >= least
  PROVE  Spelling(s)[n] >= least
<1> DEFINE G == {i \in a .. n : Spelling(s)[i] >= least}
<1>1. a \in G
  OBVIOUS
<1>2. ASSUME NEW i \in a + 1 .. n, i - 1 \in G
      PROVE  i \in G
  <2>1. PICK k : k = Spelling(s)[i - 1]
    OBVIOUS
  <2>2. i \in 1 .. Len(s) /\ i - 1 \in 0 .. Len(s)
    OBVIOUS
  <2>3. k \in Nat /\ k >= least /\ Spelling(s)[i] = AndThen(k, s[i])
    BY <1>2, <2>1, <2>2, SpellingFacts
  <2>4. AndThen(k, s[i]) >= least
    BY <2>3, AndThenGrows, SMT
  <2>. QED
    BY <2>3, <2>4
<1>3. a .. n \subseteq G
  <2> HIDE DEF G
  <2>1. a \in Int /\ n \in Int
    OBVIOUS
  <2>. QED
    BY <1>1, <1>2, <2>1, PassedOn
<1>. QED
  BY <1>3

(* The two digits behind the point.                                        *)
Money(s, p) ==
  /\ Len(s) = p + 2 /\ p \in Nat \ {0}
  /\ s[p] = "." /\ s[p + 1] \in Digits /\ s[p + 2] \in Digits

(* What is in front of the point counts for a hundred times as much.       *)
LEMMA MoneySpelt ==
  ASSUME NEW s, NEW p, Money(s, p), NEW w, w = Spelling(s)[p - 1]
  PROVE  /\ w \in Nat /\ Spelling(s)[p] = w
         /\ Spelling(s)[p + 2] = Spelt(s)
         /\ w <= 1000000 => Spelt(s) = 100 * w + 10 * DigitValue(s[p + 1])
                                         + DigitValue(s[p + 2])
         /\ w >= 1000000 => Spelt(s) >= 100000000
<1>1. /\ Len(s) \in Nat /\ p \in 1 .. Len(s) /\ p + 1 \in 1 .. Len(s)
      /\ p + 2 \in 1 .. Len(s) /\ p - 1 \in 0 .. Len(s)
      /\ (p + 1) - 1 = p /\ (p + 2) - 1 = p + 1
  BY DEF Money
<1>2. w \in Nat
  BY <1>1, SpellingFacts
<1>3. Spelling(s)[p] = AndThen(w, ".")
  BY <1>1, SpellingFacts DEF Money
<1>4. AndThen(w, ".") = w
  BY <1>2, AndThenFacts, DigitFacts, SMT
<1>5. PICK y, z : y = Spelling(s)[p + 1] /\ z = Spelling(s)[p + 2]
  OBVIOUS
<1>6. /\ y = AndThen(w, s[p + 1]) /\ y \in Nat
      /\ z = AndThen(y, s[p + 2]) /\ z \in Nat
  BY <1>1, <1>3, <1>4, <1>5, SpellingFacts
<1>7. Spelt(s) = z
  BY <1>5 DEF Spelt, Money
<1>8. PICK c, d : c = s[p + 1] /\ d = s[p + 2]
  OBVIOUS
<1>9. c \in Digits /\ d \in Digits /\ DigitValue(c) \in 0 .. 9 /\ DigitValue(d) \in 0 .. 9
  BY <1>8, DigitFacts DEF Money
<1>10. PICK m, n : m = DigitValue(c) /\ n = DigitValue(d)
  OBVIOUS
<1>11. /\ w < 100000000 => y = 10 * w + m
       /\ w >= 100000000 => y = 1000000000
       /\ y < 100000000 => z = 10 * y + n
       /\ y >= 100000000 => z = 1000000000
  BY <1>2, <1>6, <1>8, <1>9, <1>10, AndThenFacts, SMT
<1>12. m \in 0 .. 9 /\ n \in 0 .. 9
  BY <1>9, <1>10
<1>13. /\ w <= 1000000 => z = 100 * w + 10 * m + n
       /\ w >= 1000000 => z >= 100000000
  BY <1>2, <1>6, <1>11, <1>12, SMT
<1>. QED
  BY <1>2, <1>3, <1>4, <1>5, <1>7, <1>8, <1>10, <1>13, SMT

(* Seven digits before the point are a million at least.                   *)
LEMMA MoneyFits ==
  ASSUME NEW s, NEW p, Money(s, p), p >= 8, s[1] # "0",
         \A i \in 1 .. p - 1 : s[i] \in Digits
  PROVE  Spelt(s) >= 100000000
<1>1. /\ Len(s) \in Nat /\ Len(s) >= 10 /\ p - 1 >= 7
      /\ p - 1 \in 7 .. Len(s) /\ 7 \in 0 .. Len(s)
  BY DEF Money
<1> DEFINE f == Spelling(s)
<1>2. f[0] = 0 /\ \A i \in 1 .. 7 : f[i] = AndThen(f[i - 1], s[i]) /\ f[i] \in Nat
  <2>1. \A i \in 1 .. 7 : i \in 1 .. Len(s) /\ i \in 0 .. Len(s)
    BY <1>1
  <2>. QED
    BY <1>1, <2>1, SpellingFacts
<1>3. \A i \in 1 .. 7 : s[i] \in Digits /\ DigitValue(s[i]) \in 0 .. 9
  <2>1. \A i \in 1 .. 7 : i \in 1 .. p - 1
    BY <1>1
  <2>. QED
    BY <2>1, DigitFacts
<1> HIDE DEF f
<1>4. /\ f[1] = AndThen(f[0], s[1]) /\ f[2] = AndThen(f[1], s[2])
      /\ f[3] = AndThen(f[2], s[3]) /\ f[4] = AndThen(f[3], s[4])
      /\ f[5] = AndThen(f[4], s[5]) /\ f[6] = AndThen(f[5], s[6])
      /\ f[7] = AndThen(f[6], s[7])
  BY <1>2
<1>5. ASSUME NEW n \in Nat, NEW i \in 1 .. 7
      PROVE  AndThen(n, s[i]) = 10 * n + DigitValue(s[i]) \/ AndThen(n, s[i]) = 1000000000
  BY <1>3, AndThenFacts, SMT
<1>6. f[1] >= 1
  <2>1. 1 \in 1 .. 7 /\ 1 \in 1 .. p - 1
    BY <1>1
  <2>2. DigitValue(s[1]) >= 1
    BY <2>1, DigitFacts
  <2>. QED
    BY <1>2, <1>3, <1>4, <1>5, <2>1, <2>2, SMT
<1>7. ASSUME NEW n \in Nat, NEW i \in 1 .. 7, NEW k \in Nat, n >= k, k <= 100000
      PROVE  AndThen(n, s[i]) >= 10 * k
  BY <1>3, <1>5, <1>7, SMT
<1>8. f[2] >= 10
  BY <1>2, <1>4, <1>6, <1>7, SMT
<1>9. f[3] >= 100
  BY <1>2, <1>4, <1>8, <1>7, SMT
<1>10. f[4] >= 1000
  BY <1>2, <1>4, <1>9, <1>7, SMT
<1>11. f[5] >= 10000
  BY <1>2, <1>4, <1>10, <1>7, SMT
<1>12. f[6] >= 100000
  BY <1>2, <1>4, <1>11, <1>7, SMT
<1>13. f[7] >= 1000000
  BY <1>2, <1>4, <1>12, <1>7, SMT
<1>14. f[p - 1] >= 1000000
  <2>1. PICK n : n = p - 1
    OBVIOUS
  <2>2. n \in 7 .. Len(s)
    BY <1>1, <2>1
  <2>3. 1000000 \in Nat /\ 1000000 <= 1000000000
    BY SMT
  <2>4. f[n] >= 1000000
    BY <1>1, <1>13, <2>2, <2>3, SpeltGrows, SMT DEF f
  <2>. QED
    BY <2>1, <2>4, SMT
<1>. QED
  BY <1>14, MoneySpelt, SMT DEF f

(* A set of numbers that is not empty has a least one, and Min is it.      *)
LEMMA MinFacts ==
  ASSUME NEW S \in SUBSET Nat, NEW n \in S
  PROVE  Min(S) \in S /\ Min(S) \in Nat /\ \A k \in S : Min(S) <= k
<1>1. \E m \in S : \A k \in S : m <= k
  BY LeastNatural
<1>. QED
  BY <1>1 DEF Min

(* The first of the positions P of a text of length l.                     *)
First(P, l) == Min(P \cup {l + 1})

(* The first position of P, one past the end if there is none.             *)
LEMMA FirstFacts ==
  ASSUME NEW l \in Nat, NEW P \in SUBSET (1 .. l)
  PROVE  /\ First(P, l) \in 1 .. l + 1
         /\ First(P, l) \in P \/ First(P, l) = l + 1
         /\ \A k \in P : First(P, l) <= k
<1>1. P \cup {l + 1} \in SUBSET Nat /\ l + 1 \in P \cup {l + 1}
  OBVIOUS
<1>2. PICK m : m = Min(P \cup {l + 1})
  OBVIOUS
<1>3. m \in P \cup {l + 1} /\ \A k \in P \cup {l + 1} : m <= k
  BY <1>1, <1>2, MinFacts
<1>. QED
  BY <1>2, <1>3 DEF First

(* A position of P with none of P before it is the first.                  *)
LEMMA FirstIs ==
  ASSUME NEW l \in Nat, NEW P \in SUBSET (1 .. l), NEW f \in 1 .. l + 1,
         f \in P \/ f = l + 1, \A k \in 1 .. f - 1 : k \notin P
  PROVE  First(P, l) = f
<1>1. PICK m : m = First(P, l)
  OBVIOUS
<1>2. m \in 1 .. l + 1 /\ (m \in P \/ m = l + 1) /\ \A k \in P : m <= k
  BY <1>1, FirstFacts
<1>3. CASE f \in P
  BY <1>1, <1>2, <1>3
<1>4. CASE f = l + 1
  BY <1>1, <1>2, <1>4
<1>. QED
  BY <1>3, <1>4

(* Parts of texts, and texts put together.                                 *)
LEMMA FillFacts ==
  ASSUME NEW c, NEW n \in Nat, NEW S, c \in S
  PROVE  /\ Fill(c, n) \in Seq(S) /\ Len(Fill(c, n)) = n
         /\ \A k \in 1 .. n : Fill(c, n)[k] = c
BY DEF Fill

LEMMA SubSeqFacts ==
  ASSUME NEW S, NEW s \in Seq(S), NEW m \in 1 .. Len(s) + 1, NEW k \in m - 1 .. Len(s)
  PROVE  /\ SubSeq(s, m, k) \in Seq(S)
         /\ Len(SubSeq(s, m, k)) = k - m + 1
         /\ \A i \in 1 .. k - m + 1 : SubSeq(s, m, k)[i] = s[m + i - 1]
OBVIOUS

LEMMA FromFacts ==
  ASSUME NEW S, NEW s \in Seq(S), NEW k \in 1 .. Len(s) + 1
  PROVE  /\ From(s, k) \in Seq(S)
         /\ Len(From(s, k)) = Len(s) - k + 1
         /\ \A i \in 1 .. Len(s) - k + 1 : From(s, k)[i] = s[k + i - 1]
BY DEF From

LEMMA Concatenated ==
  ASSUME NEW S, NEW s \in Seq(S), NEW u \in Seq(S), NEW w, w = s \o u
  PROVE  /\ w \in Seq(S) /\ Len(w) = Len(s) + Len(u)
         /\ \A i \in 1 .. Len(s) : w[i] = s[i]
         /\ \A i \in 1 .. Len(u) : w[Len(s) + i] = u[i]
OBVIOUS

LEMMA SameText ==
  ASSUME NEW S, NEW T, NEW s \in Seq(S), NEW u \in Seq(T), Len(s) = Len(u),
         \A i \in 1 .. Len(s) : s[i] = u[i]
  PROVE  s = u
<1>1. s = [i \in 1 .. Len(s) |-> s[i]] /\ u = [i \in 1 .. Len(u) |-> u[i]]
  OBVIOUS
<1>. QED
  BY <1>1

(* A text moved to the right of its field, with blanks in front.           *)
LEMMA RightAlignedFacts ==
  ASSUME NEW s \in Seq(Chars), NEW l \in Nat, Len(s) <= l,
         NEW r, r = RightAligned(s, l)
  PROVE  /\ r \in Seq(Chars) /\ Len(r) = l
         /\ \A k \in 1 .. l - Len(s) : r[k] = Space
         /\ \A k \in 1 .. Len(s) : r[(l - Len(s)) + k] = s[k]
<1>1. PICK n \in Nat : n = l - Len(s)
  OBVIOUS
<1>2. PICK u : u = Fill(Space, n)
  OBVIOUS
<1>3. /\ u \in Seq(Chars) /\ Len(u) = n
      /\ \A k \in 1 .. n : u[k] = Space
  <2>1. Space \in Chars
    BY Zenon DEF Chars
  <2>. QED
    BY <1>2, <2>1, FillFacts
<1>4. r = u \o s
  BY <1>1, <1>2 DEF RightAligned
<1>. QED
  BY <1>1, <1>3, <1>4, Concatenated

(* A blank or a zero that TrimLeft takes away at position k.               *)
Idle(s, k) ==
  \/ s[k] = Space
  \/ s[k] = "0" /\ (k = Len(s) \/ s[k + 1] # ".")

(* What TrimLeft leaves begins at the first position that is not idle.     *)
LEMMA TrimLeftFacts ==
  ASSUME NEW S, NEW s \in Seq(S)
  PROVE  \E f \in 1 .. Len(s) + 1 :
           /\ TrimLeft(s) = From(s, f)
           /\ f <= Len(s) => ~ Idle(s, f)
           /\ \A k \in 1 .. f - 1 : Idle(s, k)
<1>1. PICK P : P = {k \in 1 .. Len(s) : ~ Idle(s, k)}
  OBVIOUS
<1>2. P \in SUBSET (1 .. Len(s)) /\ Len(s) \in Nat
  BY <1>1
<1>3. PICK f : f = First(P, Len(s))
  OBVIOUS
<1>4. f \in 1 .. Len(s) + 1 /\ (f \in P \/ f = Len(s) + 1) /\ \A k \in P : f <= k
  BY <1>2, <1>3, FirstFacts
<1>5. TrimLeft(s) = From(s, f)
  BY <1>1, <1>3 DEF TrimLeft, FirstOf, First, Idle
<1>6. \A k \in 1 .. f - 1 : k \in 1 .. Len(s) /\ k \notin P
  BY <1>2, <1>4
<1>. QED
  BY <1>1, <1>2, <1>4, <1>5, <1>6

(* Nothing is trimmed off but what is idle.                                *)
LEMMA TrimLeftIs ==
  ASSUME NEW S, NEW s \in Seq(S), NEW f \in 1 .. Len(s) + 1,
         f <= Len(s) => ~ Idle(s, f),
         \A k \in 1 .. f - 1 : Idle(s, k)
  PROVE  TrimLeft(s) = From(s, f)
<1>1. PICK P : P = {k \in 1 .. Len(s) : ~ Idle(s, k)}
  OBVIOUS
<1>2. P \in SUBSET (1 .. Len(s)) /\ Len(s) \in Nat
  BY <1>1
<1>3. f \in P \/ f = Len(s) + 1
  BY <1>1, <1>2
<1>4. \A k \in 1 .. f - 1 : k \notin P
  BY <1>1
<1>5. First(P, Len(s)) = f
  BY <1>2, <1>3, <1>4, FirstIs
<1>. QED
  BY <1>1, <1>5 DEF TrimLeft, FirstOf, First, Idle

(* Where the amount ends: at the first blank behind a digit.               *)
LEMMA AmountFacts ==
  ASSUME NEW s \in Seq(Chars)
  PROVE  \E d \in 1 .. Len(s) + 1, e \in 1 .. Len(s) + 1 :
           /\ Len(Amount(s)) = e - 1
           /\ Amount(s) \in Seq(Chars \ {Space})
           /\ \A k \in 1 .. e - 1 : Amount(s)[k] = IF s[k] = Space THEN "0" ELSE s[k]
           /\ d <= Len(s) => s[d] \in Digits
           /\ \A k \in 1 .. d - 1 : s[k] \notin Digits
           /\ e <= Len(s) => e > d /\ s[e] = Space
           /\ \A k \in d + 1 .. e - 1 : s[k] # Space
<1>1. PICK P : P = {k \in 1 .. Len(s) : s[k] \in Digits}
  OBVIOUS
<1>2. P \in SUBSET (1 .. Len(s)) /\ Len(s) \in Nat
  BY <1>1
<1>3. PICK d : d = First(P, Len(s))
  OBVIOUS
<1>4. d \in 1 .. Len(s) + 1 /\ (d \in P \/ d = Len(s) + 1) /\ \A k \in P : d <= k
  BY <1>2, <1>3, FirstFacts
<1>5. PICK Q : Q = {k \in 1 .. Len(s) : k > d /\ s[k] = Space}
  OBVIOUS
<1>6. Q \in SUBSET (1 .. Len(s))
  BY <1>5
<1>7. PICK e : e = First(Q, Len(s))
  OBVIOUS
<1>8. e \in 1 .. Len(s) + 1 /\ (e \in Q \/ e = Len(s) + 1) /\ \A k \in Q : e <= k
  BY <1>2, <1>6, <1>7, FirstFacts
<1>9. Amount(s) = [k \in 1 .. e - 1 |-> IF s[k] = Space THEN "0" ELSE s[k]]
  BY <1>1, <1>3, <1>5, <1>7 DEF Amount, FirstOf, First
<1>10. Len(Amount(s)) = e - 1 /\ Amount(s) \in Seq(Chars \ {Space})
  <2>1. "0" \in Chars \ {Space}
    BY DigitFacts DEF Chars
  <2>2. \A k \in 1 .. e - 1 : s[k] \in Chars
    BY <1>2, <1>8
  <2>3. e - 1 \in Nat
    BY <1>8
  <2>. QED
    BY <1>9, <2>1, <2>2, <2>3
<1>11. \A k \in 1 .. d - 1 : s[k] \notin Digits
  BY <1>1, <1>2, <1>4
<1>12. \A k \in d + 1 .. e - 1 : s[k] # Space
  BY <1>2, <1>4, <1>5, <1>8
<1>. QED
  BY <1>1, <1>4, <1>5, <1>8, <1>9, <1>10, <1>11, <1>12

(* A text without a blank is kept as it is.                                *)
LEMMA AmountOf ==
  ASSUME NEW s \in Seq(Chars), \A k \in 1 .. Len(s) : s[k] # Space
  PROVE  Amount(s) = s
<1>1. PICK d \in 1 .. Len(s) + 1, e \in 1 .. Len(s) + 1 :
        /\ Len(Amount(s)) = e - 1 /\ Amount(s) \in Seq(Chars \ {Space})
        /\ \A k \in 1 .. e - 1 : Amount(s)[k] = IF s[k] = Space THEN "0" ELSE s[k]
        /\ e <= Len(s) => e > d /\ s[e] = Space
  BY AmountFacts
<1>2. e = Len(s) + 1
  BY <1>1
<1>3. \A k \in 1 .. Len(s) : Amount(s)[k] = s[k]
  BY <1>1, <1>2
<1>. QED
  BY <1>1, <1>2, <1>3, SameText

(* Where the point is.                                                     *)
LEMMA DecimalsFacts ==
  ASSUME NEW S, NEW s \in Seq(S)
  PROVE  \E p \in 1 .. Len(s) + 1 :
           /\ Decimals(s) = Len(s) - p
           /\ p <= Len(s) => s[p] = "."
           /\ \A k \in 1 .. p - 1 : s[k] # "."
<1>1. PICK P : P = {k \in 1 .. Len(s) : s[k] = "."}
  OBVIOUS
<1>2. P \in SUBSET (1 .. Len(s)) /\ Len(s) \in Nat
  BY <1>1
<1>3. PICK f : f = First(P, Len(s))
  OBVIOUS
<1>4. f \in 1 .. Len(s) + 1 /\ (f \in P \/ f = Len(s) + 1) /\ \A k \in P : f <= k
  BY <1>2, <1>3, FirstFacts
<1>5. Decimals(s) = Len(s) - f
  BY <1>1, <1>3 DEF Decimals, FirstOf, First
<1>6. \A k \in 1 .. f - 1 : s[k] # "."
  BY <1>1, <1>2, <1>4
<1>. QED
  BY <1>1, <1>4, <1>5, <1>6

(* The digits behind the first point are the decimals.                     *)
LEMMA DecimalsIs ==
  ASSUME NEW S, NEW s \in Seq(S), NEW p \in 1 .. Len(s), s[p] = ".",
         \A k \in 1 .. p - 1 : s[k] # "."
  PROVE  Decimals(s) = Len(s) - p
<1>1. PICK q \in 1 .. Len(s) + 1 :
        /\ Decimals(s) = Len(s) - q
        /\ q <= Len(s) => s[q] = "."
        /\ \A k \in 1 .. q - 1 : s[k] # "."
  BY DecimalsFacts
<1>. QED
  BY <1>1

(* How often a character of C is in a text.                                *)
LEMMA CountFacts ==
  ASSUME NEW S, NEW s \in Seq(S), NEW C
  PROVE  /\ Count(s, C) \in Nat /\ Count(s, C) <= Len(s)
         /\ \A p \in 1 .. Len(s) : s[p] \notin C => Count(s, C) <= Len(s) - 1
         /\ Count(s, C) <= 1 =>
              \A i, j \in 1 .. Len(s) : s[i] \in C /\ s[j] \in C => i = j
<1>1. PICK P : P = {k \in 1 .. Len(s) : s[k] \in C}
  OBVIOUS
<1>2. PICK l \in Nat : l = Len(s)
  OBVIOUS
<1>3. Count(s, C) = Cardinality(P)
  BY <1>1 DEF Count
<1>4. IsFiniteSet(1 .. l) /\ Cardinality(1 .. l) = l
  <2>1. PICK one : one = 1
    OBVIOUS
  <2>2. one \in Int /\ l \in Int
    BY <1>2, <2>1
  <2>3. IsFiniteSet(one .. l) /\ Cardinality(one .. l) = IF one > l THEN 0 ELSE l - one + 1
    BY <2>2, FS_Interval
  <2>. QED
    BY <1>2, <2>1, <2>3
<1>5. P \subseteq 1 .. l
  BY <1>1, <1>2
<1>6. IsFiniteSet(P) /\ Cardinality(P) \in Nat /\ Cardinality(P) <= l
  BY <1>4, <1>5, FS_Subset, FS_CardinalityType
<1>7. ASSUME NEW p \in 1 .. Len(s), s[p] \notin C
      PROVE  Count(s, C) <= Len(s) - 1
  <2>1. PICK T : T = (1 .. l) \ {p}
    OBVIOUS
  <2>2. P \subseteq T
    BY <1>1, <1>5, <1>7, <2>1
  <2>3. IsFiniteSet(T) /\ Cardinality(T) = l - 1
    BY <1>2, <1>4, <2>1, FS_RemoveElement
  <2>4. Cardinality(P) <= Cardinality(T)
    BY <2>2, <2>3, FS_Subset
  <2>. QED
    BY <1>2, <1>3, <2>3, <2>4
<1>8. ASSUME Count(s, C) <= 1, NEW i \in 1 .. Len(s), NEW j \in 1 .. Len(s),
             s[i] \in C, s[j] \in C, i # j
      PROVE  FALSE
  <2>1. i \in P /\ j \in P
    BY <1>1, <1>8
  <2>2. PICK U, V : V = {i} /\ U = V \cup {j}
    OBVIOUS
  <2>3. IsFiniteSet(V) /\ Cardinality(V) = 1
    BY <2>2, FS_Singleton
  <2>4. j \notin V
    BY <1>8, <2>2
  <2>5. Cardinality(U) = 2
    <3>1. PICK c : c = Cardinality(V)
      OBVIOUS
    <3>2. Cardinality(U) = c + 1 /\ c = 1
      BY <2>2, <2>3, <2>4, <3>1, FS_AddElement
    <3>. QED
      BY ONLY <3>2
  <2>6. Cardinality(U) <= Cardinality(P)
    BY <1>6, <2>1, <2>2, FS_Subset
  <2>. QED
    BY <1>3, <1>6, <1>8, <2>5, <2>6
<1>. QED
  BY <1>2, <1>3, <1>6, <1>7, <1>8

(* What is in a text at one position at most is counted once at most.      *)
LEMMA OnceCounted ==
  ASSUME NEW S, NEW s \in Seq(S), NEW C,
         \A i, j \in 1 .. Len(s) : s[i] \in C /\ s[j] \in C => i = j
  PROVE  /\ Count(s, C) <= 1
         /\ Count(s, C) = 1 <=> \E i \in 1 .. Len(s) : s[i] \in C
<1>1. PICK P : P = {k \in 1 .. Len(s) : s[k] \in C}
  OBVIOUS
<1>2. Count(s, C) = Cardinality(P)
  BY <1>1 DEF Count
<1>3. CASE P = {}
  <2>1. Cardinality(P) = 0
    BY <1>3, FS_EmptySet
  <2>2. ~ \E i \in 1 .. Len(s) : s[i] \in C
    BY <1>1, <1>3
  <2>. QED
    BY <1>2, <2>1, <2>2
<1>4. ASSUME NEW p \in P
      PROVE  Count(s, C) <= 1 /\ (Count(s, C) = 1 <=> \E i \in 1 .. Len(s) : s[i] \in C)
  <2>1. P = {p} /\ p \in 1 .. Len(s) /\ s[p] \in C
    BY <1>1
  <2>2. Cardinality({p}) = 1
    BY FS_Singleton
  <2>. QED
    BY <1>2, <2>1, <2>2
<1>. QED
  BY <1>3, <1>4

(* The float tells more than a million from 999999.95.                     *)
LEMMA FloatFacts ==
  ASSUME NEW n \in Nat
  PROVE  AsFloat(n) > 99999999 <=> n > 99999995
<1>0. /\ n < 16777216 => Spacing(n) = 1
      /\ n >= 16777216 /\ n < 33554432 => Spacing(n) = 2
      /\ n >= 33554432 /\ n < 67108864 => Spacing(n) = 4
      /\ n >= 67108864 => Spacing(n) = 8
  BY SMT DEF Spacing
<1>1. CASE n < 16777216
  <2>1. n \div 1 = n /\ n % 1 = 0
    BY SMT
  <2>2. AsFloat(n) = n
    BY <1>1, <2>1, <1>0, SMT DEF AsFloat
  <2>. QED
    BY <1>1, <2>2, SMT
<1>2. CASE n >= 16777216 /\ n < 33554432
  <2>1. PICK q, r : q = n \div 2 /\ r = 2 * (n % 2)
    BY SMT
  <2>2. AsFloat(n) = 2 * (IF r > 2 \/ (r = 2 /\ q % 2 = 1) THEN q + 1 ELSE q)
    BY <1>2, <2>1, <1>0, SMT DEF AsFloat
  <2>3. q \in Nat /\ q <= 16777216
    BY <1>2, <2>1, SMT
  <2>. QED
    BY <1>2, <2>2, <2>3, SMT
<1>3. CASE n >= 33554432 /\ n < 67108864
  <2>1. PICK q, r : q = n \div 4 /\ r = 2 * (n % 4)
    BY SMT
  <2>2. AsFloat(n) = 4 * (IF r > 4 \/ (r = 4 /\ q % 2 = 1) THEN q + 1 ELSE q)
    BY <1>3, <2>1, <1>0, SMT DEF AsFloat
  <2>3. q \in Nat /\ q <= 16777216
    BY <1>3, <2>1, SMT
  <2>. QED
    BY <1>3, <2>2, <2>3, SMT
<1>4. CASE n >= 67108864
  <2>1. PICK q, r : q = n \div 8 /\ r = 2 * (n % 8)
    BY SMT
  <2>2. AsFloat(n) = 8 * (IF r > 8 \/ (r = 8 /\ q % 2 = 1) THEN q + 1 ELSE q)
    BY <1>4, <2>1, <1>0, SMT DEF AsFloat
  <2>3. PICK m : m = n % 8
    BY SMT
  <2>4. q \in Nat /\ m \in 0 .. 7 /\ n = 8 * q + m /\ r = 2 * m
    BY <2>1, <2>3, SMT
  <2>5. CASE q >= 12500000
    BY <2>2, <2>4, <2>5, SMT
  <2>6. CASE q <= 12499998
    BY <2>2, <2>4, <2>6, SMT
  <2>7. CASE q = 12499999
    <3>1. q % 2 = 1
      BY <2>7, SMT
    <3>. QED
      BY <2>2, <2>4, <2>7, <3>1, SMT
  <2>. QED
    BY <2>4, <2>5, <2>6, <2>7, SMT
<1>. QED
  BY <1>1, <1>2, <1>3, <1>4, SMT

(* A text as check_amount_format leaves it, blanks in front left out: the  *)
(* point is at p, two digits follow, and no zero leads but the one in      *)
(* front of the point.                                                     *)
Written(s, p) ==
  /\ s \in Seq(Digits \cup {"."})
  /\ Money(s, p)
  /\ \A i \in 1 .. p - 1 : s[i] \in Digits
  /\ p >= 3 => s[1] # "0"

(* What is added behind a text with at most one point and two decimals.    *)
LEMMA WithDecimalsFacts ==
  ASSUME NEW s \in Seq(Digits \cup {"."}),
         \A i, j \in 1 .. Len(s) : s[i] = "." /\ s[j] = "." => i = j,
         "." \in ToSet(s) => Decimals(s) <= 2,
         NEW w, w = WithDecimals(s)
  PROVE  \E p \in 1 .. Len(s) + 1 :
           /\ w \in Seq(Digits \cup {"."}) /\ Money(w, p) /\ Len(s) <= p + 2
           /\ \A i \in 1 .. p - 1 : w[i] \in Digits
           /\ \A i \in 1 .. Len(s) : w[i] = s[i]
           /\ p <= Len(s) \/ p = Len(s) + 1
           /\ \A i \in Len(s) + 1 .. p + 2 : i # p => w[i] = "0"
           /\ p <= Len(s) <=> "." \in ToSet(s)
<1>1. PICK S : S = Digits \cup {"."}
  OBVIOUS
<1>2. "0" \in S /\ "." \in S /\ s \in Seq(S) /\ \A c \in S : c \in Digits \/ c = "."
  BY <1>1, DigitFacts
<1>3. CASE "." \notin ToSet(s)
  <2>1. PICK u : u = <<".", "0", "0">>
    OBVIOUS
  <2>2. u \in Seq(S) /\ Len(u) = 3 /\ u[1] = "." /\ u[2] = "0" /\ u[3] = "0"
    BY <1>2, <2>1
  <2>3. w = s \o u
    BY <1>3, <2>1 DEF WithDecimals
  <2>4. /\ w \in Seq(S) /\ Len(w) = Len(s) + 3
        /\ \A i \in 1 .. Len(s) : w[i] = s[i]
        /\ w[Len(s) + 1] = "." /\ w[Len(s) + 2] = "0" /\ w[Len(s) + 3] = "0"
    <3>1. /\ w \in Seq(S) /\ Len(w) = Len(s) + Len(u)
          /\ \A i \in 1 .. Len(s) : w[i] = s[i]
          /\ \A i \in 1 .. Len(u) : w[Len(s) + i] = u[i]
      <4>1. s \in Seq(S) /\ u \in Seq(S)
        BY <1>2, <2>2
      <4>. QED
        BY <2>3, <4>1, Concatenated
    <3>. QED
      BY <2>2, <3>1
  <2>5. PICK p \in Nat : p = Len(s) + 1
    BY <1>2
  <2>6. \A i \in 1 .. Len(s) : s[i] \in Digits
    BY <1>1, <1>3 DEF ToSet
  <2>7. Money(w, p)
    BY <2>4, <2>5, DigitFacts DEF Money
  <2>8. \A i \in 1 .. p - 1 : w[i] \in Digits
    BY <2>4, <2>5, <2>6
  <2>9. \A i \in Len(s) + 1 .. p + 2 : i # p => w[i] = "0"
    BY <2>4, <2>5
  <2>10. p \in 1 .. Len(s) + 1 /\ Len(s) <= p + 2 /\ ~ (p <= Len(s))
    BY <2>5
  <2>. QED
    BY <1>1, <1>3, <2>4, <2>5, <2>7, <2>8, <2>9, <2>10
<1>4. CASE "." \in ToSet(s)
  <2>1. PICK p \in 1 .. Len(s) + 1 :
          /\ Decimals(s) = Len(s) - p
          /\ p <= Len(s) => s[p] = "."
          /\ \A k \in 1 .. p - 1 : s[k] # "."
    BY DecimalsFacts
  <2>2. PICK q \in 1 .. Len(s) : s[q] = "."
    BY <1>4 DEF ToSet
  <2>3. p \in 1 .. Len(s) /\ s[p] = "."
    BY <2>1, <2>2
  <2>4. PICK n \in Nat : n = 2 - (Len(s) - p) /\ n <= 2
    BY <1>4, <2>1, <2>3
  <2>5. PICK u : u = Fill("0", n)
    OBVIOUS
  <2>6. w = s \o u
    BY <1>4, <2>1, <2>4, <2>5 DEF WithDecimals
  <2>7. u \in Seq(S) /\ Len(u) = n /\ \A k \in 1 .. n : u[k] = "0"
    BY <1>2, <2>5, FillFacts
  <2>8. /\ w \in Seq(S) /\ Len(w) = Len(s) + n
        /\ \A i \in 1 .. Len(s) : w[i] = s[i]
        /\ \A i \in 1 .. n : w[Len(s) + i] = "0"
    <3>1. /\ w \in Seq(S) /\ Len(w) = Len(s) + Len(u)
          /\ \A i \in 1 .. Len(s) : w[i] = s[i]
          /\ \A i \in 1 .. Len(u) : w[Len(s) + i] = u[i]
      <4>1. s \in Seq(S) /\ u \in Seq(S)
        BY <1>2, <2>7
      <4>. QED
        BY <2>6, <4>1, Concatenated
    <3>. QED
      BY <2>7, <3>1
  <2>9. Len(w) = p + 2 /\ Len(s) \in Nat /\ Len(s) <= p + 2
    BY <1>2, <2>3, <2>4, <2>8
  <2>10. \A i \in 1 .. Len(s) : i # p => s[i] \in Digits
    BY <1>2, <2>3
  <2>11. \A i \in Len(s) + 1 .. p + 2 : w[i] = "0"
    <3> TAKE i \in Len(s) + 1 .. p + 2
    <3>1. i - Len(s) \in 1 .. n /\ Len(s) + (i - Len(s)) = i
      BY <2>3, <2>4, <2>9
    <3>. QED
      BY <2>8, <3>1
  <2>12. \A i \in 1 .. p + 2 : i # p => w[i] \in Digits
    <3> TAKE i \in 1 .. p + 2
    <3>1. i \in 1 .. Len(s) \/ i \in Len(s) + 1 .. p + 2
      BY <2>9
    <3>. QED
      BY <2>8, <2>10, <2>11, <3>1, DigitFacts
  <2>13. Money(w, p)
    <3>1. p \in Nat \ {0} /\ p + 1 \in 1 .. p + 2 /\ p + 2 \in 1 .. p + 2
          /\ p + 1 # p /\ p + 2 # p
      BY <2>3
    <3>. QED
      BY <2>3, <2>8, <2>9, <2>12, <3>1 DEF Money
  <2>14. \A i \in 1 .. p - 1 : w[i] \in Digits
    <3> TAKE i \in 1 .. p - 1
    <3>1. i \in 1 .. p + 2 /\ i # p
      BY <2>3
    <3>. QED
      BY <2>12, <3>1
  <2>. QED
    BY <1>1, <1>4, <2>3, <2>8, <2>9, <2>11, <2>13, <2>14
<1>. QED
  BY <1>3, <1>4

(* What check_amount_format refuses, and what it makes of the rest.        *)
Kept(s) == Amount(TrimLeft(s))

Malformed(s) ==
  \/ \E k \in 1 .. Len(s) - 1 : s[k] = "x"
  \/ "x" \in ToSet(Kept(s))
  \/ Count(Kept(s), {"."}) > 1
  \/ Count(Kept(s), {"."}) = 1 /\ Decimals(Kept(s)) > 2

Refused(s, l) == Malformed(s) \/ DigitsIn(TrimLeft(s)) > l - 1

(* check_amount_format, with the float read as what it tells apart.        *)
LEMMA CheckFacts ==
  ASSUME NEW s, NEW l, NEW w, w = WithDecimals(Kept(s)),
         ~ Refused(s, l) => Spelt(w) \in Nat,
         NEW r, r = check_amount_format(s, l)
  PROVE  /\ r.code = AMT_OK <=>
              ~ Refused(s, l) /\ Spelt(w) # 0 /\ Spelt(w) <= 99999995
         /\ r.text = IF r.code = AMT_OK THEN RightAligned(w, l) ELSE s
<1>1. AMT_ERR # AMT_OK /\ AMT_ZERO # AMT_OK /\ AMT_EXCEED_MAX # AMT_OK
  BY SMT DEF AMT_ERR, AMT_OK, AMT_ZERO, AMT_EXCEED_MAX
<1>2. CASE Refused(s, l)
  <2>1. r = Answer(AMT_ERR, s)
    BY <1>2, SMT DEF check_amount_format, Refused, Malformed, Kept
  <2>. QED
    BY <1>1, <1>2, <2>1, SMT DEF Answer
<1>3. CASE ~ Refused(s, l)
  <2>1. PICK n \in Nat : n = Spelt(w)
    BY <1>3, SMT
  <2>2. AsFloat(n) > 99999999 <=> n > 99999995
    BY FloatFacts, SMT
  <2>3. r = CASE n = 0                  -> Answer(AMT_ZERO, s)
              [] AsFloat(n) > 99999999  -> Answer(AMT_EXCEED_MAX, s)
              [] OTHER                  -> Answer(AMT_OK, RightAligned(w, l))
    BY <1>3, <2>1, SMT DEF check_amount_format, Refused, Malformed, Kept
  <2>4. CASE n = 0
    <3>1. ~ (AsFloat(n) > 99999999)
      BY <2>2, <2>4, SMT
    <3>2. r = Answer(AMT_ZERO, s)
      BY <2>3, <2>4, <3>1, SMT
    <3>. QED
      BY <1>1, <2>1, <2>4, <3>2, SMT DEF Answer
  <2>5. CASE n # 0 /\ AsFloat(n) > 99999999
    <3>1. r = Answer(AMT_EXCEED_MAX, s)
      BY <2>3, <2>5, SMT
    <3>. QED
      BY <1>1, <2>1, <2>2, <2>5, <3>1, SMT DEF Answer
  <2>6. CASE n # 0 /\ ~ (AsFloat(n) > 99999999)
    <3>1. r = Answer(AMT_OK, RightAligned(w, l))
      BY <2>3, <2>6, SMT
    <3>. QED
      BY <1>3, <2>1, <2>2, <2>6, <3>1, SMT DEF Answer
  <2>. QED
    BY <2>4, <2>5, <2>6, SMT
<1>. QED
  BY <1>2, <1>3, SMT

(* Every text spells a number.                                             *)
LEMMA SpeltFacts ==
  ASSUME NEW S, NEW s \in Seq(S)
  PROVE  Len(s) \in Nat /\ Spelt(s) = Spelling(s)[Len(s)] /\ Spelt(s) \in Nat
BY SpellingFacts DEF Spelt

(* What is kept of a text has no blank and is no longer.                   *)
LEMMA KeptFacts ==
  ASSUME NEW s \in Seq(Chars), NEW v, v = Kept(s)
  PROVE  /\ v \in Seq(Chars \ {Space}) /\ Len(v) <= Len(s)
         /\ Len(v) >= 1 /\ v[1] = "0" => Len(v) >= 2 /\ v[2] = "."
<1>1. PICK f \in 1 .. Len(s) + 1 :
        /\ TrimLeft(s) = From(s, f)
        /\ f <= Len(s) => ~ Idle(s, f)
  BY TrimLeftFacts
<1>2. PICK t : t = From(s, f)
  OBVIOUS
<1>3. /\ t \in Seq(Chars) /\ Len(t) = Len(s) - f + 1
      /\ \A i \in 1 .. Len(s) - f + 1 : t[i] = s[f + i - 1]
  BY <1>2, FromFacts
<1>4. v = Amount(t)
  BY <1>1, <1>2 DEF Kept
<1>5. PICK d \in 1 .. Len(t) + 1, e \in 1 .. Len(t) + 1 :
        /\ Len(Amount(t)) = e - 1
        /\ Amount(t) \in Seq(Chars \ {Space})
        /\ \A k \in 1 .. e - 1 : Amount(t)[k] = IF t[k] = Space THEN "0" ELSE t[k]
        /\ d <= Len(t) => t[d] \in Digits
        /\ \A k \in 1 .. d - 1 : t[k] \notin Digits
        /\ e <= Len(t) => e > d /\ t[e] = Space
  BY <1>3, AmountFacts
<1>6. Len(v) = e - 1 /\ Len(t) \in Nat /\ Len(s) \in Nat
  BY <1>3, <1>4, <1>5
<1>7. ASSUME Len(v) >= 1, v[1] = "0"
      PROVE  Len(v) >= 2 /\ v[2] = "."
  <2>1. Len(t) >= 1 /\ f \in 1 .. Len(s) /\ t[1] = s[f] /\ 1 \in 1 .. e - 1
    BY <1>3, <1>5, <1>6, <1>7
  <2>2. t[1] # Space
    BY <1>1, <2>1 DEF Idle
  <2>3. t[1] = "0"
    BY <1>4, <1>5, <1>7, <2>1, <2>2
  <2>4. f # Len(s) /\ s[f + 1] = "."
    BY <1>1, <2>1, <2>3 DEF Idle
  <2>5. Len(t) >= 2 /\ t[2] = "."
    <3>1. 2 \in 1 .. Len(s) - f + 1 /\ f + 2 - 1 = f + 1
      BY <2>1, <2>4
    <3>. QED
      BY <1>3, <2>4, <3>1
  <2>6. t[2] # Space
    BY <2>5, Zenon DEF Space
  <2>7. e >= 3
    BY <1>5, <1>6, <2>1, <2>5, <2>6
  <2>8. 2 \in 1 .. e - 1
    BY <2>7
  <2>. QED
    BY <1>4, <1>5, <1>6, <2>5, <2>6, <2>8
<1>. QED
  BY <1>3, <1>4, <1>5, <1>6, <1>7

(* An amount that is not refused is written with a point and two digits.   *)
LEMMA WrittenFacts ==
  ASSUME NEW s \in Seq(Chars), ~ Malformed(s), NEW v, v = Kept(s),
         NEW w, w = WithDecimals(v)
  PROVE  /\ v \in Seq(Digits \cup {"."})
         /\ \E p \in 1 .. Len(v) + 1 :
              /\ Written(w, p) /\ Len(v) <= p + 2
              /\ \A i \in 1 .. Len(v) : w[i] = v[i]
              /\ \A i \in Len(v) + 1 .. p + 2 : i # p => w[i] = "0"
              /\ p <= Len(v) <=> "." \in ToSet(v)
<1>1. /\ v \in Seq(Chars \ {Space}) /\ Len(v) <= Len(s)
      /\ Len(v) >= 1 /\ v[1] = "0" => Len(v) >= 2 /\ v[2] = "."
  BY KeptFacts
<1>2. v \in Seq(Digits \cup {"."})
  <2>1. \A i \in 1 .. Len(v) : v[i] \in Chars \ {Space}
    BY <1>1
  <2>2. \A i \in 1 .. Len(v) : v[i] # "x"
    BY DEF Malformed, ToSet
  <2>3. \A i \in 1 .. Len(v) : v[i] \in Digits \cup {"."}
    BY <2>1, <2>2 DEF Chars
  <2>4. v = [i \in 1 .. Len(v) |-> v[i]] /\ Len(v) \in Nat
    BY <1>1
  <2>. QED
    BY <2>3, <2>4
<1>3. Count(v, {"."}) <= 1
  BY <1>2, CountFacts DEF Malformed
<1>4. \A i, j \in 1 .. Len(v) : v[i] = "." /\ v[j] = "." => i = j
  <2>1. \A i, j \in 1 .. Len(v) : v[i] \in {"."} /\ v[j] \in {"."} => i = j
    BY <1>2, <1>3, CountFacts
  <2>. QED
    BY <2>1
<1>5. ASSUME "." \in ToSet(v)
      PROVE  Decimals(v) <= 2
  <2>1. \E i \in 1 .. Len(v) : v[i] \in {"."}
    BY <1>5 DEF ToSet
  <2>2. Count(v, {"."}) = 1
    BY <1>2, <1>4, <2>1, OnceCounted
  <2>3. Decimals(v) \in Int
    BY <1>2, DecimalsFacts
  <2>. QED
    BY <2>2, <2>3 DEF Malformed
<1>6. PICK p \in 1 .. Len(v) + 1 :
        /\ w \in Seq(Digits \cup {"."}) /\ Money(w, p) /\ Len(v) <= p + 2
        /\ \A i \in 1 .. p - 1 : w[i] \in Digits
        /\ \A i \in 1 .. Len(v) : w[i] = v[i]
        /\ p <= Len(v) \/ p = Len(v) + 1
        /\ \A i \in Len(v) + 1 .. p + 2 : i # p => w[i] = "0"
        /\ p <= Len(v) <=> "." \in ToSet(v)
  BY <1>2, <1>4, <1>5, WithDecimalsFacts
<1>7. ASSUME p >= 3, w[1] = "0"
      PROVE  FALSE
  <2>1. Len(v) \in Nat /\ 1 \in 1 .. Len(v) /\ 2 \in 1 .. Len(v) /\ 2 \in 1 .. p - 1
    BY <1>1, <1>6, <1>7
  <2>2. w[1] = v[1] /\ w[2] = v[2] /\ w[2] \in Digits
    BY <1>6, <2>1
  <2>. QED
    BY <1>1, <1>7, <2>1, <2>2, DigitFacts
<1>8. Written(w, p)
  BY <1>6, <1>7 DEF Written
<1>. QED
  BY <1>2, <1>6, <1>8

(* An amount that is not too large fits its field.                         *)
LEMMA WrittenFits ==
  ASSUME NEW w, NEW p, Written(w, p), Spelt(w) \in Nat, Spelt(w) <= 99999995
  PROVE  p \in 1 .. 7 /\ Len(w) <= 9
<1>1. p \in Nat \ {0} /\ Len(w) = p + 2
  BY SMT DEF Written, Money
<1>2. ASSUME p >= 8
      PROVE  FALSE
  <2>1. w[1] # "0"
    BY <1>1, <1>2, SMT DEF Written
  <2>2. Spelt(w) >= 100000000
    BY <1>1, <1>2, <2>1, MoneyFits, SMT DEF Written
  <2>. QED
    BY <2>2, SMT
<1>. QED
  BY <1>1, <1>2, SMT

(* What is written is left as it is when it is checked again.              *)
LEMMA WrittenAgain ==
  ASSUME NEW w, NEW p, Written(w, p), p <= 7, NEW r, r = RightAligned(w, 9)
  PROVE  /\ Kept(r) = w /\ WithDecimals(w) = w
         /\ r \in Seq(Chars) /\ Len(r) = 9 /\ Decimals(w) = 2
         /\ ~ Refused(r, 9)
<1>1. /\ Len(w) = p + 2 /\ p \in Nat \ {0} /\ Len(w) <= 9
      /\ w[p] = "." /\ w[p + 1] \in Digits /\ w[p + 2] \in Digits
      /\ \A i \in 1 .. p - 1 : w[i] \in Digits
  BY DEF Written, Money
<1>2. w \in Seq(Digits \cup {"."}) /\ w \in Seq(Chars)
  BY DEF Written, Chars
<1>3. /\ r \in Seq(Chars) /\ Len(r) = 9
      /\ \A k \in 1 .. 9 - Len(w) : r[k] = Space
      /\ \A k \in 1 .. Len(w) : r[(9 - Len(w)) + k] = w[k]
  <2>1. PICK l \in Nat : l = 9
    OBVIOUS
  <2>2. Len(w) <= l /\ r = RightAligned(w, l)
    BY <1>1, <2>1
  <2>3. /\ r \in Seq(Chars) /\ Len(r) = l
        /\ \A k \in 1 .. l - Len(w) : r[k] = Space
        /\ \A k \in 1 .. Len(w) : r[(l - Len(w)) + k] = w[k]
    BY <1>2, <2>2, RightAlignedFacts
  <2>. QED
    BY <2>1, <2>3
<1>4. \A i \in 1 .. Len(w) : i # p => w[i] \in Digits
  <2> TAKE i \in 1 .. Len(w)
  <2>1. i \in 1 .. p - 1 \/ i = p \/ i = p + 1 \/ i = p + 2
    BY <1>1
  <2>. QED
    BY <1>1, <2>1
<1>5. \A i \in 1 .. Len(w) : w[i] # Space /\ w[i] # "x"
  <2>1. "." # Space /\ "." # "x"
    BY Zenon DEF Space
  <2>. QED
    BY <1>1, <1>4, <2>1, DigitFacts
<1>6. PICK f : f = (9 - Len(w)) + 1
  OBVIOUS
<1>7. f \in 1 .. 9 /\ f \in 1 .. Len(r) + 1 /\ f = 8 - p
  BY <1>1, <1>3, <1>6
<1>8. r[f] = w[1]
  BY <1>1, <1>3, <1>6
<1>9. ~ Idle(r, f)
  <2>1. w[1] # Space
    BY <1>1, <1>5
  <2>2. ASSUME w[1] = "0"
        PROVE  f # 9 /\ r[f + 1] = "."
    <3>1. p = 2
      <4>1. p # 1
        BY <1>1, <2>2
      <4>2. ~ (p >= 3)
        BY <2>2 DEF Written
      <4>. QED
        BY <1>1, <4>1, <4>2
    <3>2. r[f + 1] = w[2]
      <4>1. 2 \in 1 .. Len(w) /\ f + 1 = (9 - Len(w)) + 2
        BY <1>1, <1>6
      <4>. QED
        BY <1>3, <4>1
    <3>. QED
      BY <1>1, <1>7, <3>1, <3>2
  <2>. QED
    BY <1>3, <1>8, <2>1, <2>2 DEF Idle
<1>10. \A k \in 1 .. f - 1 : Idle(r, k)
  BY <1>3, <1>6, <1>7 DEF Idle
<1>11. TrimLeft(r) = w
  <2>1. PICK u : u = From(r, f)
    OBVIOUS
  <2>2. TrimLeft(r) = u
    <3>1. r \in Seq(Chars) /\ f \in 1 .. Len(r) + 1
      BY <1>3, <1>7
    <3>2. f <= Len(r) => ~ Idle(r, f)
      BY <1>9
    <3>3. TrimLeft(r) = From(r, f)
      BY <1>10, <3>1, <3>2, TrimLeftIs
    <3>. QED
      BY <2>1, <3>3
  <2>3. /\ u \in Seq(Chars) /\ Len(u) = Len(r) - f + 1
        /\ \A i \in 1 .. Len(r) - f + 1 : u[i] = r[f + i - 1]
    <3>1. r \in Seq(Chars) /\ f \in 1 .. Len(r) + 1
      BY <1>3, <1>7
    <3>. QED
      BY <2>1, <3>1, FromFacts
  <2>4. Len(u) = Len(w)
    BY <1>1, <1>3, <1>6, <2>3
  <2>5. \A i \in 1 .. Len(u) : u[i] = w[i]
    <3> TAKE i \in 1 .. Len(u)
    <3>1. f + i - 1 = (9 - Len(w)) + i /\ i \in 1 .. Len(w) /\ i \in 1 .. Len(r) - f + 1
      BY <1>1, <1>6, <2>3, <2>4
    <3>. QED
      BY <1>3, <2>3, <3>1
  <2>6. u = w
    BY <1>2, <2>3, <2>4, <2>5, SameText
  <2>. QED
    BY <2>2, <2>6
<1>12. Kept(r) = w
  BY <1>2, <1>5, <1>11, AmountOf DEF Kept
<1>13. \A i \in 1 .. p - 1 : w[i] # "."
  BY <1>1, DigitFacts
<1>14. Decimals(w) = 2
  <2>1. p \in 1 .. Len(w) /\ Len(w) - p = 2
    BY <1>1
  <2>. QED
    BY <1>1, <1>2, <1>13, <2>1, DecimalsIs
<1>15. "." \in ToSet(w)
  BY <1>1 DEF ToSet
<1>16. WithDecimals(w) = w
  <2>1. PICK u : u = Fill("0", 0)
    OBVIOUS
  <2>2. u = <<>>
    BY <2>1 DEF Fill
  <2>3. WithDecimals(w) = w \o u
    <3>1. 2 - Decimals(w) = 0
      BY <1>14
    <3>. QED
      BY <1>15, <2>1, <3>1 DEF WithDecimals
  <2>. QED
    BY <1>2, <2>2, <2>3
<1>17. ~ Refused(r, 9)
  <2>1. ~ \E k \in 1 .. Len(r) - 1 : r[k] = "x"
    <3>1. ASSUME NEW k \in 1 .. Len(r) - 1
          PROVE  r[k] # "x"
      <4>0. k \in 1 .. 8 /\ Len(w) \in 3 .. 9
        <5>1. Len(r) - 1 = 8
          BY <1>3
        <5>2. k \in 1 .. 8
          BY <5>1
        <5>3. Len(w) \in 3 .. 9
          BY <1>1
        <5>. QED
          BY <5>2, <5>3
      <4>1. CASE k <= 9 - Len(w)
        <5>1. Space # "x"
          BY Zenon DEF Space
        <5>. QED
          BY <1>3, <4>0, <4>1, <5>1
      <4>2. CASE ~ (k <= 9 - Len(w))
        <5>1. PICK i : i = k - (9 - Len(w))
          OBVIOUS
        <5>2. i \in 1 .. Len(w) /\ (9 - Len(w)) + i = k
          BY <4>0, <4>2, <5>1
        <5>3. r[k] = w[i]
          BY <1>3, <5>2
        <5>. QED
          BY <1>5, <5>2, <5>3
      <4>. QED
        BY <4>0, <4>1, <4>2
    <3>. QED
      BY <3>1
  <2>2. "x" \notin ToSet(w)
    BY <1>5 DEF ToSet
  <2>3. DigitsIn(TrimLeft(r)) <= 8
    <3>1. Amount(w) = w
      BY <1>2, <1>5, AmountOf
    <3>2. SubSeq(w, 1, Len(w)) = w
      BY <1>2
    <3>3. DigitsIn(TrimLeft(r)) = Count(w, Digits)
      BY <1>11, <3>1, <3>2 DEF DigitsIn
    <3>4. p \in 1 .. Len(w) /\ w[p] \notin Digits
      BY <1>1, DigitFacts
    <3>5. Count(w, Digits) <= Len(w) - 1 /\ Count(w, Digits) \in Nat
      BY <1>2, <3>4, CountFacts
    <3>. QED
      BY <1>1, <3>3, <3>5
  <2>4. Count(w, {"."}) <= 1
    <3>1. \A i, j \in 1 .. Len(w) : w[i] \in {"."} /\ w[j] \in {"."} => i = j
      BY <1>4, DigitFacts
    <3>. QED
      BY <1>2, <3>1, OnceCounted
  <2>5. DigitsIn(TrimLeft(r)) \in Nat /\ Count(w, {"."}) \in Nat
    <3>1. DigitsIn(TrimLeft(r)) = Count(w, Digits)
      <4>1. Amount(w) = w /\ SubSeq(w, 1, Len(w)) = w
        BY <1>2, <1>5, AmountOf
      <4>. QED
        BY <1>11, <4>1 DEF DigitsIn
    <3>. QED
      BY <1>2, <3>1, CountFacts
  <2>. QED
    BY <1>12, <1>14, <2>1, <2>2, <2>3, <2>4, <2>5 DEF Refused, Malformed
<1>. QED
  BY <1>3, <1>12, <1>14, <1>16, <1>17

(* A set of positions that is not empty has a last one, and Max is it.     *)
LEMMA MaxFacts ==
  ASSUME NEW l \in Nat, NEW S \in SUBSET (0 .. l), NEW n \in S
  PROVE  Max(S) \in S /\ \A k \in S : k <= Max(S)
<1>1. PICK T : T = {l - k : k \in S}
  OBVIOUS
<1>2. T \in SUBSET Nat /\ T # {}
  BY <1>1
<1>3. PICK m \in T : \A q \in T : m <= q
  BY <1>2, LeastNatural
<1>4. \E x \in S : \A y \in S : x >= y
  <2>1. PICK x \in S : m = l - x
    BY <1>1
  <2>2. ASSUME NEW y \in S
        PROVE  x >= y
    <3>1. l - y \in T
      BY <1>1
    <3>2. m <= l - y
      BY <1>3, <3>1
    <3>. QED
      BY <2>1, <3>2
  <2>. QED
    BY <2>2
<1>. QED
  BY <1>4 DEF Max

(* The text without the blanks around it.                                  *)
Around(s, t, a) ==
  /\ t \in Seq(Chars) /\ a \in Nat /\ a + Len(t) <= Len(s)
  /\ \A i \in 1 .. Len(t) : t[i] = s[a + i]
  /\ \A i \in 1 .. a : s[i] = Space
  /\ \A i \in a + Len(t) + 1 .. Len(s) : s[i] = Space
  /\ Len(t) >= 1 => t[1] # Space /\ t[Len(t)] # Space

(* Stripped takes the blanks around a text off, and nothing else.          *)
LEMMA StrippedFacts ==
  ASSUME NEW s \in Seq(Chars), NEW t, t = Stripped(s)
  PROVE  \E a \in Nat : Around(s, t, a)
<1>1. PICK l \in Nat : l = Len(s)
  OBVIOUS
<1>2. PICK P : P = {k \in 1 .. l : s[k] # Space}
  OBVIOUS
<1>3. PICK f : f = First(P, l)
  OBVIOUS
<1>4. P \in SUBSET (1 .. l)
  BY <1>2
<1>5. f \in 1 .. l + 1 /\ (f \in P \/ f = l + 1) /\ \A k \in P : f <= k
  BY <1>3, <1>4, FirstFacts
<1>6. PICK Q : Q = P \cup {0}
  OBVIOUS
<1>7. Q \in SUBSET (0 .. l) /\ 0 \in Q
  BY <1>4, <1>6
<1>8. PICK g : g = Max(Q)
  OBVIOUS
<1>9. g \in Q /\ \A k \in Q : k <= g
  BY <1>7, <1>8, MaxFacts
<1>10. t = SubSeq(s, f, g)
  BY <1>1, <1>2, <1>3, <1>6, <1>8 DEF Stripped, FirstOf, First
<1>11. CASE P = {}
  <2>1. f = l + 1 /\ g = 0
    BY <1>5, <1>6, <1>9, <1>11
  <2>2. t = <<>>
    BY <1>1, <1>10, <2>1
  <2>3. \A i \in 1 .. l : s[i] = Space
    BY <1>2, <1>11
  <2>4. Len(t) = 0 /\ t \in Seq(Chars)
    BY <2>2
  <2>5. Around(s, t, l)
    BY <1>1, <2>3, <2>4 DEF Around
  <2>. QED
    BY <2>5
<1>12. CASE P # {}
  <2>1. PICK k \in P : TRUE
    BY <1>12
  <2>2. /\ f \in P /\ g \in P /\ f <= g
        /\ f \in 1 .. l /\ g \in 1 .. l /\ s[f] # Space /\ s[g] # Space
    <3>1. f <= k /\ k <= g /\ k \in 1 .. l
      BY <1>4, <1>5, <1>6, <1>9, <2>1
    <3>2. f \in P
      BY <1>4, <1>5, <2>1, <3>1
    <3>3. g \in P
      BY <1>4, <1>6, <1>9, <3>1
    <3>4. f <= g
      BY <1>6, <1>9, <3>2
    <3>. QED
      BY <1>2, <3>2, <3>3, <3>4
  <2>3. PICK a \in Nat : a = f - 1
    BY <2>2
  <2>4. /\ t \in Seq(Chars) /\ Len(t) = g - a
        /\ \A i \in 1 .. g - a : t[i] = s[f + i - 1]
    BY <1>1, <1>10, <2>2, <2>3
  <2>5. \A i \in 1 .. g - a : t[i] = s[a + i]
    <3> TAKE i \in 1 .. g - a
    <3>1. f + i - 1 = a + i
      BY <2>2, <2>3
    <3>. QED
      BY <2>4, <3>1
  <2>6. \A i \in 1 .. a : s[i] = Space
    <3> TAKE i \in 1 .. a
    <3>1. i \in 1 .. l /\ ~ (f <= i)
      BY <2>2, <2>3
    <3>. QED
      BY <1>2, <1>5, <3>1
  <2>7. \A i \in g + 1 .. l : s[i] = Space
    <3> TAKE i \in g + 1 .. l
    <3>1. i \in 1 .. l /\ ~ (i <= g)
      BY <2>2
    <3>. QED
      BY <1>2, <1>6, <1>9, <3>1
  <2>8. t[1] # Space /\ t[g - a] # Space
    <3>1. 1 \in 1 .. g - a /\ g - a \in 1 .. g - a /\ a + 1 = f /\ a + (g - a) = g
      BY <2>2, <2>3
    <3>. QED
      BY <2>2, <2>5, <3>1
  <2>9. a + Len(t) = g
    BY <2>2, <2>3, <2>4
  <2>10. Around(s, t, a)
    BY <1>1, <2>2, <2>4, <2>5, <2>6, <2>7, <2>8, <2>9 DEF Around
  <2>. QED
    BY <2>10
<1>. QED
  BY <1>11, <1>12

(* A text moved to the right is the text again when it is stripped.        *)
LEMMA StrippedIs ==
  ASSUME NEW w \in Seq(Chars), NEW l \in Nat, Len(w) <= l, Len(w) >= 1,
         w[1] # Space, w[Len(w)] # Space,
         NEW r, r = RightAligned(w, l)
  PROVE  Stripped(r) = w
<1>1. /\ r \in Seq(Chars) /\ Len(r) = l
      /\ \A k \in 1 .. l - Len(w) : r[k] = Space
      /\ \A k \in 1 .. Len(w) : r[(l - Len(w)) + k] = w[k]
  BY RightAlignedFacts
<1>2. PICK t : t = Stripped(r)
  OBVIOUS
<1>3. PICK a \in Nat : Around(r, t, a)
  BY <1>1, <1>2, StrippedFacts
<1>4. PICK n \in Nat : n = Len(w)
  OBVIOUS
<1>5. PICK b \in Nat : b = l - n /\ b + n = l
  BY <1>4
<1>6. PICK m \in Nat : m = Len(t)
  BY <1>3 DEF Around
<1>7. /\ \A k \in 1 .. b : r[k] = Space
      /\ \A k \in 1 .. n : r[b + k] = w[k]
  BY <1>1, <1>4, <1>5
<1>8. /\ a + m <= l /\ \A i \in 1 .. m : t[i] = r[a + i]
      /\ \A i \in 1 .. a : r[i] = Space
      /\ \A i \in a + m + 1 .. l : r[i] = Space
      /\ m >= 1 => t[1] # Space
  BY <1>1, <1>3, <1>6 DEF Around
<1>9. r[b + 1] # Space /\ r[l] # Space /\ n >= 1
  <2>1. 1 \in 1 .. n /\ n \in 1 .. n
    BY <1>4
  <2>. QED
    BY <1>4, <1>5, <1>7, <2>1
<1>10. a <= b
  <2>1. b + 1 \notin 1 .. a
    BY <1>8, <1>9
  <2>. QED
    BY <2>1
<1>11. a + m = l
  <2>1. l \notin a + m + 1 .. l
    BY <1>8, <1>9
  <2>. QED
    BY <1>8, <2>1
<1>12. ~ (a < b)
  <2>1. ASSUME a < b
        PROVE  FALSE
    <3>1. m >= 1 /\ 1 \in 1 .. m /\ a + 1 \in 1 .. b
      BY <1>5, <1>9, <1>11, <2>1
    <3>. QED
      BY <1>7, <1>8, <3>1
  <2>. QED
    BY <2>1
<1>13. a = b /\ m = n
  BY <1>5, <1>10, <1>11, <1>12
<1>14. \A i \in 1 .. m : t[i] = w[i]
  BY <1>7, <1>8, <1>13
<1>15. t \in Seq(Chars) /\ Len(t) = Len(w)
  BY <1>3, <1>4, <1>6, <1>13 DEF Around
<1>16. t = w
  BY <1>6, <1>14, <1>15, SameText
<1>. QED
  BY <1>2, <1>16

(* What is kept of a text without a blank inside: the zeros in front go,   *)
(* and if there is a digit behind them, all the rest stays.                *)
KeptWhole(t, v, z) ==
  /\ Len(v) = Len(t) - z /\ \A i \in 1 .. Len(v) : v[i] = t[z + i]

(* Without a blank inside, what is kept is the text less its leading       *)
(* zeros.                                                                  *)
LEMMA KeptOfText ==
  ASSUME NEW s \in Seq(Chars), NEW t, t = Stripped(s), Space \notin ToSet(t),
         NEW v, v = Kept(s)
  PROVE  \E z \in 0 .. Len(t) :
           /\ \A i \in 1 .. z : t[i] = "0"
           /\ \/ KeptWhole(t, v, z) /\ DigitsIn(TrimLeft(s)) = Count(v, Digits)
              \/ /\ \A i \in z + 1 .. Len(t) : t[i] \notin Digits
                 /\ \A i \in 1 .. Len(v) : v[i] = "0" \/ v[i] \notin Digits
<1>1. PICK a \in Nat : Around(s, t, a)
  BY StrippedFacts
<1>2. PICK l, m \in Nat : l = Len(s) /\ m = Len(t)
  BY <1>1 DEF Around
<1>3. /\ a + m <= l /\ \A i \in 1 .. m : t[i] = s[a + i]
      /\ \A i \in 1 .. a : s[i] = Space
      /\ \A i \in a + m + 1 .. l : s[i] = Space
  BY <1>1, <1>2 DEF Around
<1>4. \A i \in 1 .. m : t[i] # Space
  BY <1>2 DEF ToSet
<1>5. PICK f \in 1 .. l + 1 :
        /\ TrimLeft(s) = From(s, f)
        /\ f <= l => ~ Idle(s, f)
        /\ \A k \in 1 .. f - 1 : Idle(s, k)
  BY <1>2, TrimLeftFacts
<1>6. f >= a + 1
  <2>1. \A i \in 1 .. a : Idle(s, i)
    BY <1>3 DEF Idle
  <2>. QED
    BY <1>3, <1>5, <2>1
<1>7. PICK u : u = From(s, f)
  OBVIOUS
<1>8. /\ u \in Seq(Chars) /\ Len(u) = l - f + 1
      /\ \A i \in 1 .. l - f + 1 : u[i] = s[f + i - 1]
  BY <1>2, <1>7, FromFacts
<1>9. v = Amount(u)
  BY <1>5, <1>7 DEF Kept
<1>10. PICK d \in 1 .. Len(u) + 1, e \in 1 .. Len(u) + 1 :
        /\ Len(Amount(u)) = e - 1
        /\ Amount(u) \in Seq(Chars \ {Space})
        /\ \A k \in 1 .. e - 1 : Amount(u)[k] = IF u[k] = Space THEN "0" ELSE u[k]
        /\ d <= Len(u) => u[d] \in Digits
        /\ \A k \in 1 .. d - 1 : u[k] \notin Digits
        /\ e <= Len(u) => e > d /\ u[e] = Space
        /\ \A k \in d + 1 .. e - 1 : u[k] # Space
  BY <1>8, AmountFacts
<1>11. /\ v \in Seq(Chars) /\ Len(v) = e - 1
       /\ \A k \in 1 .. Len(v) : v[k] = IF u[k] = Space THEN "0" ELSE u[k]
  BY <1>9, <1>10
<1>12. CASE f > a + m
  <2>1. \A i \in 1 .. m : t[i] = "0"
    <3> TAKE i \in 1 .. m
    <3>1. a + i \in 1 .. f - 1
      BY <1>12
    <3>2. Idle(s, a + i)
      BY <1>5, <3>1
    <3>. QED
      BY <1>3, <1>4, <3>2 DEF Idle
  <2>2. f = l + 1
    <3>1. ASSUME f <= l
          PROVE  FALSE
      <4>1. f \in a + m + 1 .. l
        BY <1>12, <3>1
      <4>2. Idle(s, f)
        BY <1>3, <4>1 DEF Idle
      <4>. QED
        BY <1>5, <3>1, <4>2
    <3>. QED
      BY <3>1
  <2>3. Len(u) = 0 /\ Len(v) = 0
    BY <1>8, <1>10, <1>11, <2>2
  <2>4. \A i \in m + 1 .. Len(t) : t[i] \notin Digits
    BY <1>2
  <2>5. \A i \in 1 .. Len(v) : v[i] = "0" \/ v[i] \notin Digits
    BY <2>3
  <2>6. m \in 0 .. Len(t)
    BY <1>2
  <2>. QED
    BY <2>1, <2>4, <2>5, <2>6
<1>13. CASE f <= a + m
  <2>1. PICK z, n \in Nat : z = f - 1 - a /\ n = m - z /\ z < m
    BY <1>6, <1>13
  <2>2. \A i \in 1 .. z : t[i] = "0"
    <3> TAKE i \in 1 .. z
    <3>1. a + i \in 1 .. f - 1 /\ i \in 1 .. m
      BY <2>1
    <3>2. Idle(s, a + i)
      BY <1>5, <3>1
    <3>. QED
      BY <1>3, <1>4, <3>1, <3>2 DEF Idle
  <2>3. n <= Len(u) /\ z + n = m
    BY <1>3, <1>8, <2>1
  <2>4. \A i \in 1 .. n : u[i] = t[z + i] /\ u[i] # Space
    <3> TAKE i \in 1 .. n
    <3>1. /\ i \in 1 .. l - f + 1 /\ z + i \in 1 .. m
          /\ f + i - 1 = a + (z + i)
      BY <1>3, <2>1
    <3>2. u[i] = s[f + i - 1]
      BY <1>8, <3>1
    <3>3. t[z + i] = s[a + (z + i)]
      BY <1>3, <3>1
    <3>4. t[z + i] # Space
      BY <1>4, <3>1
    <3>. QED
      BY <3>1, <3>2, <3>3, <3>4
  <2>5. \A i \in n + 1 .. Len(u) : u[i] = Space
    <3> TAKE i \in n + 1 .. Len(u)
    <3>1. i \in 1 .. l - f + 1 /\ f + i - 1 \in a + m + 1 .. l
      BY <1>3, <1>8, <2>1
    <3>. QED
      BY <1>3, <1>8, <3>1
  <2>6. CASE \E j \in 1 .. n : u[j] \in Digits
    <3>1. PICK j \in 1 .. n : u[j] \in Digits
      BY <2>6
    <3>2. d <= j /\ d <= n
      BY <1>10, <3>1
    <3>3. e = n + 1
      <4>1. e >= n + 1
        <5>1. ASSUME e < n + 1
              PROVE  FALSE
          <6>1. e \in 1 .. n /\ e <= Len(u)
            BY <2>3, <5>1
          <6>. QED
            BY <1>10, <2>4, <6>1
        <5>. QED
          BY <5>1
      <4>2. e <= n + 1
        <5>1. ASSUME e > n + 1
              PROVE  FALSE
          <6>1. n + 1 \in n + 1 .. Len(u) /\ n + 1 \in d + 1 .. e - 1
            BY <3>2, <5>1
          <6>. QED
            BY <1>10, <2>5, <6>1
        <5>. QED
          BY <5>1
      <4>. QED
        BY <4>1, <4>2
    <3>4. Len(v) = n /\ \A i \in 1 .. n : v[i] = u[i]
      BY <1>11, <2>4, <3>3
    <3>5. KeptWhole(t, v, z)
      BY <1>2, <2>1, <2>4, <3>4 DEF KeptWhole
    <3>6. DigitsIn(TrimLeft(s)) = Count(v, Digits)
      <4>1. PICK q : q = SubSeq(u, 1, n)
        OBVIOUS
      <4>2. q \in Seq(Chars) /\ Len(q) = n /\ \A i \in 1 .. n : q[i] = u[i]
        <5>1. u \in Seq(Chars) /\ n <= Len(u)
          BY <1>8, <2>3
        <5>2. q = [i \in 1 .. n |-> u[i]]
          BY <4>1, <5>1
        <5>3. \A i \in 1 .. n : u[i] \in Chars
          BY <5>1
        <5>. QED
          BY <5>2, <5>3
      <4>3. q = v
        BY <1>11, <3>4, <4>2, SameText
      <4>4. DigitsIn(u) = Count(v, Digits)
        BY <1>9, <3>4, <4>1, <4>3 DEF DigitsIn
      <4>. QED
        BY <1>5, <1>7, <4>4
    <3>7. z \in 0 .. Len(t)
      BY <1>2, <2>1
    <3>. QED
      BY <2>2, <3>5, <3>6, <3>7
  <2>7. CASE \A j \in 1 .. n : u[j] \notin Digits
    <3>1. \A i \in z + 1 .. Len(t) : t[i] \notin Digits
      <4> TAKE i \in z + 1 .. Len(t)
      <4>1. i - z \in 1 .. n /\ z + (i - z) = i
        BY <1>2, <2>3
      <4>. QED
        BY <2>4, <2>7, <4>1
    <3>2. \A i \in 1 .. Len(v) : v[i] = "0" \/ v[i] \notin Digits
      <4> TAKE i \in 1 .. Len(v)
      <4>1. i \in 1 .. n \/ i \in n + 1 .. Len(u)
        BY <1>11, <1>10, <2>3
      <4>. QED
        BY <1>11, <2>5, <2>7, <4>1
    <3>3. z \in 0 .. Len(t)
      BY <1>2, <2>1
    <3>. QED
      BY <2>2, <3>1, <3>2, <3>3
  <2>. QED
    BY <2>6, <2>7
<1>. QED
  BY <1>12, <1>13

(* The decimals as a number.                                               *)
LEMMA TwoSpelt ==
  ASSUME NEW b \in Seq(Digits), Len(b) = 2
  PROVE  Spelt(b) = 10 * DigitValue(b[1]) + DigitValue(b[2])
<1>1. 1 \in 1 .. Len(b) /\ 2 \in 1 .. Len(b) /\ Len(b) \in Nat
  OBVIOUS
<1>2. b[1] \in Digits /\ b[2] \in Digits
  BY <1>1
<1>3. PICK c, d : c = b[1] /\ d = b[2]
  OBVIOUS
<1>4. PICK m, n \in 0 .. 9 : m = DigitValue(c) /\ n = DigitValue(d)
  BY <1>2, <1>3, DigitFacts
<1>5. PICK f : f = Spelling(b)
  OBVIOUS
<1>6. f[0] = 0 /\ f[1] = AndThen(f[0], c) /\ f[2] = AndThen(f[1], d) /\ f[1] \in Nat
  <2>1. /\ f[0] = 0 /\ \A k \in 1 .. Len(b) : f[k] = AndThen(f[k - 1], b[k])
        /\ \A k \in 0 .. Len(b) : f[k] \in Nat
    BY <1>1, <1>5, SpellingFacts
  <2>. QED
    BY <1>1, <1>3, <2>1
<1>7. AndThen(0, c) = m
  <2>1. AndThen(0, c) = 10 * 0 + m
    BY <1>2, <1>3, <1>4, AndThenFacts, SMT
  <2>. QED
    BY <1>4, <2>1, SMT
<1>8. AndThen(m, d) = 10 * m + n
  <2>1. m \in Nat /\ m < 100000000
    BY <1>4, SMT
  <2>. QED
    BY <1>2, <1>3, <1>4, <2>1, AndThenFacts, SMT
<1>9. Spelt(b) = f[2]
  BY <1>5 DEF Spelt
<1>. QED
  BY <1>3, <1>4, <1>6, <1>7, <1>8, <1>9, SMT

(* Zeros in front change nothing.                                          *)
LeadingZeros(a, z) == \A i \in 1 .. z : a[i] = "0" \/ a[i] \notin Digits

(* Leading zeros change no number.                                         *)
LEMMA SpeltAfterZeros ==
  ASSUME NEW a, NEW z, NEW w, NEW k, Alike(a, z, w, 0, k), LeadingZeros(a, z)
  PROVE  Spelling(a)[z + k] = Spelling(w)[k]
<1>1. Spelling(a)[z] = 0
  <2>1. z \in 0 .. Len(a) /\ Len(a) \in Nat
    BY DEF Alike
  <2>2. \A i \in 0 .. z : Spelling(a)[i] = 0
    BY <2>1, ZeroSpelt DEF LeadingZeros
  <2>. QED
    BY <2>1, <2>2
<1>2. Spelling(w)[0] = 0
  BY SpellingFacts DEF Alike
<1>3. Spelling(a)[z + k] = Spelling(w)[0 + k]
  BY <1>1, <1>2, SpeltAlike
<1>4. 0 + k = k
  BY DEF Alike
<1>. QED
  BY <1>3, <1>4

PointAt(t, q) ==
  /\ Len(t) \in Nat /\ q \in 1 .. Len(t) + 1 /\ (q = Len(t) + 1 \/ t[q] = ".")
  /\ \A i \in 1 .. q - 1 : t[i] # "."

(* The point of a text is the first one, and Cents is about its two sides. *)
LEMMA CentsFacts ==
  ASSUME NEW s, NEW t, t = Stripped(s), NEW q, PointAt(t, q)
  PROVE  Cents(s) = IF Spelt(SubSeq(t, 1, q - 1)) > 1000000 THEN 1000000000
                    ELSE 100 * Spelt(SubSeq(t, 1, q - 1))
                         + Spelt(From(t, q + 1) \o Fill("0", 2 - Len(From(t, q + 1))))
<1>1. PICK l \in Nat : l = Len(t)
  BY DEF PointAt
<1>2. PICK P : P = {k \in 1 .. l : t[k] = "."}
  OBVIOUS
<1>3. P \in SUBSET (1 .. l) /\ (q \in P \/ q = l + 1) /\ q \in 1 .. l + 1
  BY <1>1, <1>2 DEF PointAt
<1>4. \A i \in 1 .. q - 1 : i \notin P
  BY <1>2 DEF PointAt
<1>5. First(P, l) = q
  BY <1>3, <1>4, FirstIs
<1>6. FirstOf(t, LAMBDA k : t[k] = ".") = q
  BY <1>1, <1>2, <1>5 DEF FirstOf, First
<1>. QED
  BY <1>6, SMT DEF Cents

(* The cents a text says are those of what is written for it, or both are  *)
(* a million at least.                                                     *)
LEMMA CentsOf ==
  ASSUME NEW S, S = Digits \cup {"."}, NEW s, NEW t \in Seq(S), t = Stripped(s),
         NEW z \in 0 .. Len(t), \A i \in 1 .. z : t[i] = "0",
         NEW v \in Seq(S), KeptWhole(t, v, z),
         NEW p \in 1 .. Len(v) + 1, NEW w, Written(w, p), Len(v) <= p + 2,
         \A i \in 1 .. Len(v) : w[i] = v[i],
         \A i \in Len(v) + 1 .. p + 2 : i # p => w[i] = "0"
  PROVE  /\ \/ Cents(s) = Spelt(w)
            \/ Cents(s) >= 100000000 /\ Spelt(w) >= 100000000
         /\ "." \in ToSet(t) => Decimals(t) <= 2
<1>1. PICK l, n \in Nat : l = Len(t) /\ n = Len(v)
  OBVIOUS
<1>2. n = l - z /\ \A i \in 1 .. n : v[i] = t[z + i]
  BY <1>1 DEF KeptWhole
<1>3. /\ w \in Seq(S) /\ Len(w) = p + 2 /\ p \in Nat \ {0}
      /\ w[p] = "." /\ w[p + 1] \in Digits /\ w[p + 2] \in Digits
      /\ \A i \in 1 .. p - 1 : w[i] \in Digits
  BY DEF Written, Money
<1>4. PICK q \in Nat : q = z + p
  BY <1>3
<1>5. q \in 1 .. l + 1
  BY <1>1, <1>2, <1>3, <1>4
<1>6. q = l + 1 \/ t[q] = "."
  <2>1. p = n + 1 \/ p \in 1 .. n
    BY <1>1
  <2>2. p = n + 1 => q = l + 1
    BY <1>2, <1>4
  <2>3. p \in 1 .. n => t[q] = "."
    <3>1. ASSUME p \in 1 .. n
          PROVE  t[q] = "."
      <4>1. w[p] = v[p] /\ v[p] = t[z + p]
        BY <1>1, <1>2, <3>1
      <4>. QED
        BY <1>3, <1>4, <4>1
    <3>. QED
      BY <3>1
  <2>. QED
    BY <2>1, <2>2, <2>3
<1>7. \A i \in 1 .. p - 1 : t[z + i] = w[i] /\ i \in 1 .. n
  <2> TAKE i \in 1 .. p - 1
  <2>1. i \in 1 .. n
    BY <1>1
  <2>2. w[i] = v[i] /\ v[i] = t[z + i]
    BY <1>1, <1>2, <2>1
  <2>. QED
    BY <2>1, <2>2
<1>8. \A i \in 1 .. q - 1 : t[i] \in Digits
  <2> TAKE i \in 1 .. q - 1
  <2>1. CASE i <= z
    BY <2>1, DigitFacts
  <2>2. CASE i > z
    <3>1. i - z \in 1 .. p - 1 /\ z + (i - z) = i
      BY <1>4, <2>2
    <3>2. t[i] = w[i - z]
      BY <1>7, <3>1
    <3>. QED
      BY <1>3, <3>1, <3>2
  <2>. QED
    BY <2>1, <2>2
<1>9. \A i \in 1 .. q - 1 : t[i] # "."
  BY <1>8, DigitFacts
<1>10. PICK a, c, b : /\ a = SubSeq(t, 1, q - 1)
                      /\ c = From(t, q + 1)
                      /\ b = c \o Fill("0", 2 - Len(c))
  OBVIOUS
<1>11. Cents(s) = IF Spelt(a) > 1000000 THEN 1000000000
                  ELSE 100 * Spelt(a) + Spelt(b)
  <2>1. PointAt(t, q)
    BY <1>1, <1>5, <1>6, <1>9 DEF PointAt
  <2>2. Cents(s) = IF Spelt(SubSeq(t, 1, q - 1)) > 1000000 THEN 1000000000
          ELSE 100 * Spelt(SubSeq(t, 1, q - 1))
               + Spelt(From(t, q + 1) \o Fill("0", 2 - Len(From(t, q + 1))))
    BY <2>1, CentsFacts, SMT
  <2>. QED
    BY <1>10, <2>2, SMT
<1>12. /\ a \in Seq(S) /\ Len(a) = q - 1
       /\ \A i \in 1 .. q - 1 : a[i] = t[i]
  <2>1. a = [i \in 1 .. q - 1 |-> t[i]]
    BY <1>1, <1>5, <1>10
  <2>2. \A i \in 1 .. q - 1 : t[i] \in S
    BY <1>8
  <2>3. q - 1 \in Nat
    BY <1>5
  <2>. QED
    BY <2>1, <2>2, <2>3
<1>13. Spelt(a) = Spelling(w)[p - 1]
  <2>1. PICK k \in Nat : k = p - 1
    BY <1>3
  <2>2. /\ Len(a) \in Nat /\ Len(w) \in Nat /\ z \in Nat
        /\ z + k <= Len(a) /\ k <= Len(w) /\ z + k = Len(a)
    BY <1>3, <1>4, <1>12, <2>1
  <2>3. LeadingZeros(a, z)
    BY <1>3, <1>4, <1>12 DEF LeadingZeros
  <2>4. \A i \in 1 .. k : a[z + i] = w[i]
    <3> TAKE i \in 1 .. k
    <3>1. z + i \in 1 .. q - 1 /\ i \in 1 .. p - 1
      BY <1>4, <2>1
    <3>2. a[z + i] = t[z + i]
      BY <1>12, <3>1
    <3>. QED
      BY <1>7, <3>1, <3>2
  <2>5. Alike(a, z, w, 0, k)
    BY <2>2, <2>4, AlikeStart
  <2>6. Spelling(a)[z + k] = Spelling(w)[k]
    BY <2>3, <2>5, SpeltAfterZeros
  <2>. QED
    BY <2>1, <2>2, <2>6 DEF Spelt
<1>14. PICK j, m \in 0 .. 2 : j = (IF p <= n THEN n - p ELSE 0) /\ m = 2 - j
  <2>1. p \in 1 .. n + 1 /\ n <= p + 2
    BY <1>1
  <2>2. PICK j \in 0 .. 2 : j = IF p <= n THEN n - p ELSE 0
    BY <2>1
  <2>3. j = 0 \/ j = 1 \/ j = 2
    BY <2>2
  <2>. QED
    BY <2>2, <2>3
<1>15. /\ c \in Seq(S) /\ Len(c) = j
       /\ \A i \in 1 .. j : c[i] = w[p + i]
  <2>1. CASE p <= n
    <3>1. q + 1 \in 1 .. l + 1 /\ l - (q + 1) + 1 = n - p
      BY <1>2, <1>4, <2>1
    <3>2. /\ c \in Seq(S) /\ Len(c) = l - (q + 1) + 1
          /\ \A i \in 1 .. l - (q + 1) + 1 : c[i] = t[(q + 1) + i - 1]
      BY <1>1, <1>10, <3>1, FromFacts
    <3>3. ASSUME NEW i \in 1 .. j
          PROVE  c[i] = w[p + i]
      <4>1. i \in 1 .. l - (q + 1) + 1 /\ (q + 1) + i - 1 = z + (p + i)
            /\ p + i \in 1 .. n
        BY <1>3, <1>4, <1>14, <3>1, <3>2
      <4>2. c[i] = t[z + (p + i)]
        BY <3>2, <4>1
      <4>3. v[p + i] = t[z + (p + i)]
        BY <1>2, <4>1
      <4>4. w[p + i] = v[p + i]
        BY <1>1, <4>1
      <4>. QED
        BY <4>2, <4>3, <4>4
    <3>4. Len(c) = j
      BY <1>14, <2>1, <3>1, <3>2
    <3>. QED
      BY <3>2, <3>3, <3>4, Zenon
  <2>2. CASE ~ (p <= n)
    <3>1. q = l + 1
      <4>1. p \in 1 .. n + 1 /\ n = l - z
        BY <1>1, <1>2
      <4>2. p = n + 1
        BY <2>2, <4>1
      <4>. QED
        BY <1>4, <4>1, <4>2
    <3>2. c = <<>>
      BY <1>1, <1>10, <3>1 DEF From
    <3>. QED
      BY <1>14, <2>2, <3>2
  <2>. QED
    BY <2>1, <2>2, Zenon
<1>16. /\ Len(b) = 2 /\ b \in Seq(Digits)
       /\ b[1] = w[p + 1] /\ b[2] = w[p + 2]
  <2>1. m \in Nat /\ m = 2 - j
    BY <1>14
  <2>2. PICK u : u = Fill("0", m)
    OBVIOUS
  <2>3. /\ u \in Seq(S) /\ Len(u) = m
        /\ \A k \in 1 .. m : u[k] = "0"
    <3>1. "0" \in S
      BY DigitFacts
    <3>. QED
      BY <2>2, <3>1, FillFacts
  <2>4. b = c \o u
    BY <1>10, <1>15, <2>1, <2>2
  <2>5. /\ b \in Seq(S) /\ Len(b) = Len(c) + Len(u)
        /\ \A i \in 1 .. Len(c) : b[i] = c[i]
        /\ \A i \in 1 .. Len(u) : b[Len(c) + i] = u[i]
    <3>1. c \in Seq(S) /\ u \in Seq(S)
      BY <1>15, <2>3
    <3>. QED
      BY <2>4, <3>1, Concatenated
  <2>6. ASSUME NEW i \in 1 .. 2
        PROVE  b[i] = w[p + i]
    <3>1. CASE i <= j
      <4>1. i \in 1 .. j
        BY <3>1
      <4>. QED
        BY <1>15, <2>5, <4>1
    <3>2. CASE ~ (i <= j)
      <4>1. i - j \in 1 .. m /\ j + (i - j) = i
        BY <2>1, <3>2
      <4>2. b[i] = "0"
        BY <1>15, <2>3, <2>5, <4>1
      <4>3. p + i \in n + 1 .. p + 2 /\ p + i # p
        <5>1. p + i > n
          BY <1>14, <3>2
        <5>. QED
          BY <1>3, <5>1
      <4>4. w[p + i] = "0"
        BY <1>1, <4>3
      <4>. QED
        BY <4>2, <4>4
    <3>. QED
      BY <3>1, <3>2
  <2>7. Len(b) = 2
    BY <1>15, <2>1, <2>3, <2>5
  <2>8. b[1] = w[p + 1] /\ b[2] = w[p + 2]
    BY <2>6
  <2>9. b = [i \in 1 .. 2 |-> b[i]] /\ \A i \in 1 .. 2 : b[i] \in Digits
    <3>1. \A i \in 1 .. 2 : i = 1 \/ i = 2
      OBVIOUS
    <3>2. \A i \in 1 .. 2 : b[i] \in Digits
      BY <1>3, <2>8, <3>1
    <3>3. b = [i \in 1 .. Len(b) |-> b[i]]
      BY <2>5
    <3>. QED
      BY <2>7, <3>2, <3>3
  <2>. QED
    BY <2>7, <2>8, <2>9
<1>17. Spelt(b) = 10 * DigitValue(w[p + 1]) + DigitValue(w[p + 2])
  BY <1>16, TwoSpelt
<1>18. PICK x \in Nat : x = Spelling(w)[p - 1]
  BY <1>13, <1>12, SpeltFacts
<1>19. Money(w, p)
  BY DEF Written
<1>20. /\ x <= 1000000 => Spelt(w) = 100 * x + 10 * DigitValue(w[p + 1])
                                       + DigitValue(w[p + 2])
       /\ x >= 1000000 => Spelt(w) >= 100000000
  BY <1>18, <1>19, MoneySpelt, SMT
<1>21. PICK y, y2 \in 0 .. 9 : y = DigitValue(w[p + 1]) /\ y2 = DigitValue(w[p + 2])
  <2>1. PICK c1, c2 \in Digits : c1 = w[p + 1] /\ c2 = w[p + 2]
    BY <1>3
  <2>. QED
    BY <2>1, DigitFacts
<1>22. \/ Cents(s) = Spelt(w)
       \/ Cents(s) >= 100000000 /\ Spelt(w) >= 100000000
  <2>1. Spelt(a) = x /\ Spelt(b) = 10 * y + y2
    BY <1>13, <1>17, <1>18, <1>21, SMT
  <2>2. x <= 1000000 => Spelt(w) = 100 * x + 10 * y + y2
    BY <1>20, <1>21, SMT
  <2>. QED
    BY <1>11, <1>20, <2>1, <2>2, SMT
<1>23. ASSUME "." \in ToSet(t)
       PROVE  Decimals(t) <= 2
  <2>1. PICK i \in 1 .. l : t[i] = "."
    BY <1>1, <1>23 DEF ToSet
  <2>2. q <= l
    BY <1>5, <1>9, <2>1
  <2>3. q \in 1 .. Len(t) /\ t[q] = "."
    BY <1>1, <1>5, <1>6, <2>2
  <2>4. Decimals(t) = Len(t) - q
    BY <1>9, <2>3, DecimalsIs
  <2>. QED
    BY <1>1, <1>2, <1>4, <2>2, <2>4
<1>. QED
  BY <1>22, <1>23, SMT

(* What is sent for an amount is spelt like it.                            *)
LEMMA SentSpelt ==
  ASSUME NEW w, NEW p, Written(w, p), p <= 7, NEW r, r = RightAligned(w, 9),
         NEW q, q = put_leading_zeros(r)
  PROVE  q \in Seq(Digits) /\ Len(q) = 9 /\ Spelt(q) = Spelt(w)
<1>1. /\ Len(w) = p + 2 /\ p \in Nat \ {0} /\ p \in 1 .. 7 /\ w[p] = "."
      /\ w[p + 1] \in Digits /\ w[p + 2] \in Digits
      /\ \A i \in 1 .. p - 1 : w[i] \in Digits
  BY DEF Written, Money
<1>2. w \in Seq(Chars)
  BY DEF Written, Chars
<1>3. PICK b \in Nat : b = 7 - p /\ b + p = 7
  BY <1>1
<1>4. /\ r \in Seq(Chars) /\ Len(r) = 9
      /\ \A k \in 1 .. b : r[k] = Space
      /\ \A k \in 1 .. p + 2 : r[b + k] = w[k]
  <2>1. PICK l \in Nat : l = 9
    OBVIOUS
  <2>2. Len(w) <= l /\ r = RightAligned(w, l)
    BY <1>1, <2>1
  <2>3. /\ r \in Seq(Chars) /\ Len(r) = l
        /\ \A k \in 1 .. l - Len(w) : r[k] = Space
        /\ \A k \in 1 .. Len(w) : r[(l - Len(w)) + k] = w[k]
    BY <1>2, <2>2, RightAlignedFacts
  <2>4. l - Len(w) = b
    BY <1>1, <1>3, <2>1
  <2>. QED
    BY <1>1, <2>1, <2>3, <2>4
<1>5. PICK x, y, m : x = SubSeq(r, 1, 6) /\ y = From(r, 8) /\ m = <<"0">> \o x \o y
  OBVIOUS
<1>6. /\ m[1] = "0" /\ \A i \in 1 .. 6 : m[1 + i] = r[i]
      /\ m[8] = r[8] /\ m[9] = r[9]
  <2>1. x \in Seq(Chars) /\ Len(x) = 6 /\ \A i \in 1 .. 6 : x[i] = r[i]
    BY <1>4, <1>5
  <2>2. y \in Seq(Chars) /\ Len(y) = 2 /\ y[1] = r[8] /\ y[2] = r[9]
    <3>1. r \in Seq(Chars) /\ Len(r) = 9
      BY <1>4
    <3>2. 8 \in 1 .. Len(r) + 1 /\ Len(r) - 8 + 1 = 2
      <4>1. PICK l : l = Len(r)
        OBVIOUS
      <4>2. l = 9
        BY <3>1, <4>1
      <4>3. 8 \in 1 .. l + 1 /\ l - 8 + 1 = 2
        BY <4>2
      <4>. QED
        BY <4>1, <4>3
    <3>3. /\ y \in Seq(Chars) /\ Len(y) = Len(r) - 8 + 1
          /\ \A i \in 1 .. Len(r) - 8 + 1 : y[i] = r[8 + i - 1]
      BY <1>5, <3>1, <3>2, FromFacts
    <3>. QED
      BY <3>2, <3>3
  <2>3. PICK o : o = <<"0">>
    OBVIOUS
  <2>4. o \in Seq(Chars) /\ Len(o) = 1 /\ o[1] = "0"
    <3>1. "0" \in Chars
      BY DigitFacts DEF Chars
    <3>. QED
      BY <2>3, <3>1
  <2>5. PICK h : h = o \o x
    OBVIOUS
  <2>6. /\ h \in Seq(Chars) /\ Len(h) = Len(o) + Len(x)
        /\ \A i \in 1 .. Len(o) : h[i] = o[i]
        /\ \A i \in 1 .. Len(x) : h[Len(o) + i] = x[i]
    <3>1. o \in Seq(Chars) /\ x \in Seq(Chars)
      BY <2>1, <2>4
    <3>. QED
      BY <2>5, <3>1, Concatenated
  <2>7. m = h \o y
    BY <1>5, <2>3, <2>5
  <2>8. /\ \A i \in 1 .. Len(h) : m[i] = h[i]
        /\ \A i \in 1 .. Len(y) : m[Len(h) + i] = y[i]
    <3>1. h \in Seq(Chars) /\ y \in Seq(Chars)
      BY <2>2, <2>6
    <3>. QED
      BY <2>7, <3>1, Concatenated
  <2>9. Len(h) = 7 /\ \A i \in 1 .. 6 : h[1 + i] = r[i]
    BY <2>1, <2>4, <2>6
  <2>10. m[1] = "0"
    BY <2>4, <2>6, <2>8, <2>9
  <2>11. \A i \in 1 .. 6 : m[1 + i] = r[i]
    <3> TAKE i \in 1 .. 6
    <3>1. 1 + i \in 1 .. Len(h)
      BY <2>9
    <3>. QED
      BY <2>8, <2>9, <3>1
  <2>12. m[8] = r[8] /\ m[9] = r[9]
    <3>1. 1 \in 1 .. Len(y) /\ 2 \in 1 .. Len(y) /\ Len(h) + 1 = 8 /\ Len(h) + 2 = 9
      BY <2>2, <2>9
    <3>. QED
      BY <2>2, <2>8, <3>1
  <2>. QED
    BY <2>10, <2>11, <2>12
<1>7. q = [k \in 1 .. 9 |-> IF m[k] = Space THEN "0" ELSE m[k]]
  <2>1. Len(r) - 3 = 6 /\ Len(r) - 1 = 8
    BY <1>4
  <2>. QED
    BY <1>4, <1>5, <2>1 DEF put_leading_zeros
<1>8. \A i \in 1 .. b + 1 : q[i] = "0"
  <2> TAKE i \in 1 .. b + 1
  <2>1. i \in 1 .. 9
    BY <1>1, <1>3
  <2>2. CASE i = 1
    <3>1. m[i] = "0"
      BY <1>6, <2>2
    <3>. QED
      BY <1>7, <2>1, <3>1
  <2>3. CASE i # 1
    <3>1. i - 1 \in 1 .. 6 /\ 1 + (i - 1) = i /\ i - 1 \in 1 .. b
      BY <1>1, <1>3, <2>3
    <3>2. m[i] = Space
      BY <1>4, <1>6, <3>1
    <3>. QED
      BY <1>7, <2>1, <3>2
  <2>. QED
    BY <2>2, <2>3
<1>9. \A i \in 1 .. p - 1 : q[(b + 1) + i] = w[i]
  <2> TAKE i \in 1 .. p - 1
  <2>1. /\ b + i \in 1 .. 6 /\ 1 + (b + i) = (b + 1) + i /\ (b + 1) + i \in 1 .. 9
        /\ i \in 1 .. p + 2
    BY <1>1, <1>3
  <2>2. m[(b + 1) + i] = r[b + i] /\ r[b + i] = w[i]
    BY <1>4, <1>6, <2>1
  <2>3. w[i] # Space
    BY <1>1, DigitFacts
  <2>. QED
    BY <1>7, <2>1, <2>2, <2>3
<1>10. q[8] = w[p + 1] /\ q[9] = w[p + 2]
  <2>1. r[8] = w[p + 1] /\ r[9] = w[p + 2]
    <3>1. /\ p + 1 \in 1 .. p + 2 /\ p + 2 \in 1 .. p + 2
          /\ b + (p + 1) = 8 /\ b + (p + 2) = 9
      BY <1>1, <1>3
    <3>. QED
      BY <1>4, <3>1
  <2>2. w[p + 1] # Space /\ w[p + 2] # Space
    BY <1>1, DigitFacts
  <2>. QED
    BY <1>6, <1>7, <2>1, <2>2
<1>11. /\ q \in Seq(Digits) /\ Len(q) = 9
  <2>1. \A i \in 1 .. 9 : q[i] \in Digits
    <3> TAKE i \in 1 .. 9
    <3>1. i \in 1 .. b + 1 \/ i - (b + 1) \in 1 .. p - 1 \/ i = 8 \/ i = 9
      BY <1>1, <1>3
    <3>2. CASE i \in 1 .. b + 1
      BY <1>8, <3>2, DigitFacts
    <3>3. CASE i - (b + 1) \in 1 .. p - 1
      <4>1. (b + 1) + (i - (b + 1)) = i
        OBVIOUS
      <4>2. q[i] = w[i - (b + 1)]
        BY <1>9, <3>3, <4>1
      <4>. QED
        BY <1>1, <3>3, <4>2
    <3>4. CASE i = 8 \/ i = 9
      BY <1>1, <1>10, <3>4
    <3>. QED
      BY <3>1, <3>2, <3>3, <3>4
  <2>2. PICK g : g = [k \in 1 .. 9 |-> IF m[k] = Space THEN "0" ELSE m[k]]
    OBVIOUS
  <2>3. \A i \in 1 .. 9 : g[i] \in Digits
    BY <1>7, <2>1, <2>2
  <2>4. g \in [1 .. 9 -> Digits]
    BY <2>2, <2>3
  <2>5. g \in Seq(Digits) /\ Len(g) = 9
    <3>1. PICK l \in Nat : l = 9
      OBVIOUS
    <3>2. g \in [1 .. l -> Digits]
      BY <2>4, <3>1
    <3>3. g \in Seq(Digits) /\ Len(g) = l
      BY <3>2
    <3>. QED
      BY <3>1, <3>3
  <2>. QED
    BY <1>7, <2>2, <2>5
<1>12. Spelling(q)[7] = Spelling(w)[p - 1]
  <2>1. PICK k, z \in Nat : k = p - 1 /\ z = b + 1 /\ z + k = 7
    BY <1>1, <1>3
  <2>2. LeadingZeros(q, z)
    BY <1>8, <2>1 DEF LeadingZeros
  <2>3. Alike(q, z, w, 0, k)
    <3>1. Len(q) \in Nat /\ z + k <= Len(q) /\ Len(w) \in Nat /\ k <= Len(w)
      <4>1. Len(q) = 9 /\ Len(w) = p + 2 /\ p \in Nat
        BY <1>1, <1>11
      <4>. QED
        BY <2>1, <4>1
    <3>2. \A i \in 1 .. k : q[z + i] = w[i]
      BY <1>9, <2>1
    <3>. QED
      BY <3>1, <3>2, AlikeStart
  <2>4. Spelling(q)[z + k] = Spelling(w)[k]
    BY <2>2, <2>3, SpeltAfterZeros
  <2>. QED
    BY <2>1, <2>4
<1>13. Spelling(w)[p] = Spelling(w)[p - 1] /\ Spelling(w)[p + 2] = Spelt(w)
  BY MoneySpelt DEF Written
<1>14. Alike(q, 7, w, p, 2)
  <2>1. \A i \in 1 .. 2 : i = 1 \/ i = 2
    OBVIOUS
  <2>2. 7 + 1 = 8 /\ 7 + 2 = 9
    OBVIOUS
  <2>3. \A i \in 1 .. 2 : q[7 + i] = w[p + i]
    BY <1>10, <2>1, <2>2
  <2>. QED
    BY <1>1, <1>11, <2>3 DEF Alike
<1>15. Spelling(q)[7 + 2] = Spelling(w)[p + 2]
  BY <1>12, <1>13, <1>14, SpeltAlike
<1>16. Spelt(q) = Spelling(q)[9]
  BY <1>11 DEF Spelt
<1>. QED
  BY <1>11, <1>13, <1>15, <1>16

(* The nine digits of a balance on the screen.                             *)
LEMMA ShownFacts ==
  ASSUME NEW b \in Seq(Digits), Len(b) = 9, NEW t, t = display_balance(b)
  PROVE  \E n \in 0 .. 6 :
           /\ t \in Seq(Chars) /\ Len(t) = 10
           /\ \A i \in 1 .. n : t[i] = Space /\ b[i] = "0"
           /\ \A i \in n + 1 .. 7 : t[i] = b[i]
           /\ t[8] = "." /\ t[9] = b[8] /\ t[10] = b[9]
           /\ n < 6 => t[n + 1] # "0"
<1>1. PICK P : P = {k \in 1 .. 9 : b[k] # "0"}
  OBVIOUS
<1>2. PICK l \in Nat : l = 9
  OBVIOUS
<1>3. P \in SUBSET (1 .. l)
  BY <1>1, <1>2
<1>4. PICK f : f = First(P, l)
  OBVIOUS
<1>5. f \in 1 .. l + 1 /\ (f \in P \/ f = l + 1) /\ \A k \in P : f <= k
  BY <1>3, <1>4, FirstFacts
<1>6. FirstOf(b, LAMBDA k : b[k] # "0") = f
  BY <1>1, <1>2, <1>4 DEF FirstOf, First
<1>7. PICK n : n = Min({f - 1, 6})
  OBVIOUS
<1>8. n \in {f - 1, 6} /\ n <= f - 1 /\ n <= 6
  <2>1. PICK S : S = {f - 1, 6}
    OBVIOUS
  <2>2. S \in SUBSET Nat /\ f - 1 \in S /\ 6 \in S
    BY <1>2, <1>5, <2>1
  <2>3. Min(S) \in S /\ \A k \in S : Min(S) <= k
    BY <2>2, MinFacts
  <2>. QED
    BY <1>7, <2>1, <2>2, <2>3
<1>9. n \in 0 .. 6 /\ n \in Nat
  BY <1>2, <1>5, <1>8
<1>10. \A i \in 1 .. n : b[i] = "0"
  <2> TAKE i \in 1 .. n
  <2>1. i \in 1 .. 9 /\ ~ (f <= i)
    BY <1>2, <1>5, <1>8, <1>9
  <2>. QED
    BY <1>1, <1>5, <2>1
<1>11. n < 6 => b[n + 1] # "0"
  BY <1>1, <1>2, <1>5, <1>8
<1>12. PICK u, v, x, y : /\ u = Fill(Space, n) /\ v = SubSeq(b, n + 1, 7)
                         /\ x = <<".">> /\ y = From(b, 8)
  OBVIOUS
<1>13. t = u \o v \o x \o y
  BY <1>6, <1>7, <1>12 DEF display_balance
<1>14. Space \in Chars /\ "." \in Chars /\ b \in Seq(Chars)
  <2>1. Space \in Chars /\ "." \in Chars
    BY Zenon DEF Chars
  <2>2. \A c \in Digits : c \in Chars
    BY DEF Chars
  <2>. QED
    BY <2>1, <2>2
<1>15. u \in Seq(Chars) /\ Len(u) = n /\ \A i \in 1 .. n : u[i] = Space
  BY <1>9, <1>12, <1>14, FillFacts
<1>16. v \in Seq(Chars) /\ Len(v) = 7 - n /\ \A i \in 1 .. 7 - n : v[i] = b[n + i]
  <2>1. PICK m \in Nat : m = n + 1
    BY <1>9
  <2>2. m \in 1 .. Len(b) + 1 /\ 7 \in m - 1 .. Len(b) /\ 7 - m + 1 = 7 - n
    BY <1>9, <2>1
  <2>3. /\ v \in Seq(Chars) /\ Len(v) = 7 - m + 1
        /\ \A i \in 1 .. 7 - m + 1 : v[i] = b[m + i - 1]
    BY <1>12, <1>14, <2>1, <2>2, SubSeqFacts
  <2>4. \A i \in 1 .. 7 - n : m + i - 1 = n + i
    BY <1>9, <2>1
  <2>. QED
    BY <2>2, <2>3, <2>4
<1>17. x \in Seq(Chars) /\ Len(x) = 1 /\ x[1] = "."
  BY <1>12, <1>14
<1>18. y \in Seq(Chars) /\ Len(y) = 2 /\ y[1] = b[8] /\ y[2] = b[9]
  <2>1. 8 \in 1 .. Len(b) + 1 /\ Len(b) - 8 + 1 = 2
    OBVIOUS
  <2>2. \A i \in 1 .. 2 : y[i] = b[8 + i - 1]
    BY <1>12, <2>1, FromFacts
  <2>3. y \in Seq(Chars) /\ Len(y) = 2
    BY <1>12, <1>14, <2>1, FromFacts
  <2>. QED
    BY <2>2, <2>3
<1>19. PICK g, h : g = u \o v /\ h = g \o x
  OBVIOUS
<1>20. /\ g \in Seq(Chars) /\ Len(g) = 7
       /\ \A i \in 1 .. n : g[i] = Space
       /\ \A i \in n + 1 .. 7 : g[i] = b[i]
  <2>1. /\ g \in Seq(Chars) /\ Len(g) = Len(u) + Len(v)
        /\ \A i \in 1 .. Len(u) : g[i] = u[i]
        /\ \A i \in 1 .. Len(v) : g[Len(u) + i] = v[i]
    <3>1. u \in Seq(Chars) /\ v \in Seq(Chars)
      BY <1>15, <1>16
    <3>. QED
      BY <1>19, <3>1, Concatenated
  <2>2. Len(g) = 7
    BY <1>9, <1>15, <1>16, <2>1
  <2>3. \A i \in 1 .. n : g[i] = Space
    BY <1>15, <2>1
  <2>4. ASSUME NEW i \in n + 1 .. 7
        PROVE  g[i] = b[i]
    <3>1. i - n \in 1 .. 7 - n /\ n + (i - n) = i
      BY <1>9
    <3>2. g[i] = v[i - n]
      BY <1>15, <1>16, <2>1, <3>1
    <3>3. v[i - n] = b[i]
      BY <1>16, <3>1
    <3>. QED
      BY <3>2, <3>3
  <2>. QED
    BY <2>1, <2>2, <2>3, <2>4
<1>21. h \in Seq(Chars) /\ Len(h) = 8 /\ h[8] = "." /\ \A i \in 1 .. 7 : h[i] = g[i]
  <2>1. /\ h \in Seq(Chars) /\ Len(h) = Len(g) + Len(x)
        /\ \A i \in 1 .. Len(g) : h[i] = g[i]
        /\ \A i \in 1 .. Len(x) : h[Len(g) + i] = x[i]
    <3>1. g \in Seq(Chars) /\ x \in Seq(Chars)
      BY <1>17, <1>20
    <3>. QED
      BY <1>19, <3>1, Concatenated
  <2>. QED
    BY <1>17, <1>20, <2>1
<1>22. /\ t \in Seq(Chars) /\ Len(t) = 10 /\ t[9] = b[8] /\ t[10] = b[9]
       /\ \A i \in 1 .. 8 : t[i] = h[i]
  <2>1. t = h \o y
    BY <1>13, <1>19
  <2>2. /\ t \in Seq(Chars) /\ Len(t) = Len(h) + Len(y)
        /\ \A i \in 1 .. Len(h) : t[i] = h[i]
        /\ \A i \in 1 .. Len(y) : t[Len(h) + i] = y[i]
    <3>1. h \in Seq(Chars) /\ y \in Seq(Chars)
      BY <1>18, <1>21
    <3>. QED
      BY <2>1, <3>1, Concatenated
  <2>3. 1 \in 1 .. Len(y) /\ 2 \in 1 .. Len(y) /\ Len(h) + 1 = 9 /\ Len(h) + 2 = 10
    BY <1>18, <1>21
  <2>. QED
    BY <1>18, <1>21, <2>2, <2>3
<1>23. \A i \in 1 .. n : t[i] = Space /\ b[i] = "0"
  <2> TAKE i \in 1 .. n
  <2>1. i \in 1 .. 8 /\ i \in 1 .. 7
    BY <1>9
  <2>. QED
    BY <1>10, <1>20, <1>21, <1>22, <2>1
<1>24. \A i \in n + 1 .. 7 : t[i] = b[i]
  <2> TAKE i \in n + 1 .. 7
  <2>1. i \in 1 .. 8 /\ i \in 1 .. 7
    BY <1>9
  <2>. QED
    BY <1>20, <1>21, <1>22, <2>1
<1>25. t[8] = "."
  BY <1>21, <1>22
<1>26. n < 6 => t[n + 1] # "0"
  <2>1. n + 1 \in n + 1 .. 7
    BY <1>9
  <2>. QED
    BY <1>11, <1>24, <2>1
<1>. QED
  BY <1>9, <1>22, <1>23, <1>24, <1>25, <1>26

(* A text has a character at each of its positions.                        *)
LEMMA TextDomain ==
  ASSUME NEW q \in Seq(Chars), NEW n, n = Len(q)
  PROVE  DOMAIN q = 1 .. n
  OBVIOUS

(* What check_amount_format accepts.                                       *)
LEMMA Accepted ==
  ASSUME NEW s \in Seq(Chars), NEW r, r = check_amount_format(s, 9),
         NEW w, w = WithDecimals(Kept(s))
  PROVE  /\ ~ Malformed(s) => Spelt(w) \in Nat
         /\ r.code = AMT_OK <=>
              ~ Refused(s, 9) /\ Spelt(w) # 0 /\ Spelt(w) <= 99999995
         /\ r.code = AMT_OK =>
              \E p \in 1 .. 7 : Written(w, p) /\ r.text = RightAligned(w, 9)
         /\ r.code # AMT_OK => r.text = s
<1>1. ASSUME ~ Malformed(s)
      PROVE  Spelt(w) \in Nat /\ \E p \in Nat : Written(w, p)
  <2>1. PICK v : v = Kept(s)
    OBVIOUS
  <2>2. PICK p \in 1 .. Len(v) + 1 : Written(w, p)
    BY <1>1, <2>1, WrittenFacts
  <2>3. w \in Seq(Digits \cup {"."}) /\ p \in Nat
    BY <2>2 DEF Written, Money
  <2>4. Spelt(w) \in Nat
    BY <2>3, SpeltFacts
  <2>. QED
    BY <2>2, <2>3, <2>4
<1>2. ~ Refused(s, 9) => Spelt(w) \in Nat
  BY <1>1 DEF Refused
<1>3. /\ r.code = AMT_OK <=>
           ~ Refused(s, 9) /\ Spelt(w) # 0 /\ Spelt(w) <= 99999995
      /\ r.text = IF r.code = AMT_OK THEN RightAligned(w, 9) ELSE s
  BY <1>2, CheckFacts, SMT
<1>4. ASSUME r.code = AMT_OK
      PROVE  \E p \in 1 .. 7 : Written(w, p) /\ r.text = RightAligned(w, 9)
  <2>1. ~ Malformed(s) /\ Spelt(w) <= 99999995
    BY <1>3, <1>4, SMT DEF Refused
  <2>2. PICK p \in Nat : Written(w, p)
    BY <1>1, <2>1, SMT
  <2>3. p \in 1 .. 7
    BY <1>1, <2>1, <2>2, WrittenFits, SMT
  <2>. QED
    BY <1>3, <1>4, <2>2, <2>3, SMT
<1>. QED
  BY <1>1, <1>3, <1>4, SMT

(* An amount as the comments describe it is well formed.                   *)
LEMMA AmountWellFormed ==
  ASSUME NEW s \in Seq(Chars), NEW t, t = Stripped(s), Space \notin ToSet(t),
         NEW z \in 0 .. Len(t), \A i \in 1 .. z : t[i] = "0",
         NEW v, v = Kept(s), KeptWhole(t, v, z), IsAmount(s)
  PROVE  ~ Malformed(s)
<1>1. PICK a \in Nat : Around(s, t, a)
  BY StrippedFacts
<1>2. /\ t \in Seq(Chars) /\ a + Len(t) <= Len(s)
      /\ \A i \in 1 .. Len(t) : t[i] = s[a + i]
      /\ \A i \in 1 .. a : s[i] = Space
      /\ \A i \in a + Len(t) + 1 .. Len(s) : s[i] = Space
  BY <1>1 DEF Around
<1>3. PICK l, n \in Nat : l = Len(t) /\ n = Len(v) /\ n = l - z
  BY <1>2 DEF KeptWhole
<1>4. \A i \in 1 .. n : v[i] = t[z + i] /\ z + i \in 1 .. l
  BY <1>3 DEF KeptWhole
<1>5. \A i \in 1 .. l : t[i] \in Digits \cup {"."}
  <2>1. ToSet(t) \subseteq Digits \cup {"."}
    BY DEF IsAmount
  <2>. QED
    BY <1>3, <2>1 DEF ToSet
<1>6. "x" \notin Digits \cup {"."}
  BY DigitFacts
<1>7. ASSUME NEW k \in 1 .. Len(s) - 1, s[k] = "x"
      PROVE  FALSE
  <2>1. PICK m \in Nat : m = Len(s)
    OBVIOUS
  <2>2. k \in 1 .. a \/ k \in a + l + 1 .. m \/ k - a \in 1 .. l
    BY <1>3, <2>1
  <2>3. Space # "x"
    BY Zenon DEF Space
  <2>4. k - a \in 1 .. l
    BY <1>2, <1>3, <1>7, <2>1, <2>2, <2>3
  <2>5. t[k - a] = s[k]
    <3>1. a + (k - a) = k
      BY <2>1
    <3>. QED
      BY <1>2, <1>3, <2>4, <3>1
  <2>. QED
    BY <1>5, <1>6, <1>7, <2>4, <2>5
<1>8. v \in Seq(Chars)
  BY KeptFacts
<1>9. "x" \notin ToSet(v)
  <2>1. ASSUME NEW i \in 1 .. n
        PROVE  v[i] # "x"
    <3>1. v[i] = t[z + i] /\ z + i \in 1 .. l
      BY <1>4
    <3>. QED
      BY <1>5, <1>6, <3>1
  <2>. QED
    <3>1. DOMAIN v = 1 .. n
      <4>1. n = Len(v)
        BY <1>3
      <4>. QED
        BY <1>8, <4>1, TextDomain
    <3>. QED
      BY <2>1, <3>1 DEF ToSet
<1>10. \A i, j \in 1 .. l : t[i] = "." /\ t[j] = "." => i = j
  <2>1. Count(t, {"."}) <= 1
    BY DEF IsAmount
  <2>2. \A i, j \in 1 .. l : t[i] \in {"."} /\ t[j] \in {"."} => i = j
    <3>1. t \in Seq(Chars)
      BY <1>2
    <3>2. \A i, j \in 1 .. Len(t) : t[i] \in {"."} /\ t[j] \in {"."} => i = j
      BY <2>1, <3>1, CountFacts
    <3>. QED
      BY <1>3, <3>2
  <2>. QED
    BY <2>2
<1>11. \A i, j \in 1 .. n : v[i] = "." /\ v[j] = "." => i = j
  <2> TAKE i, j \in 1 .. n
  <2>1. /\ v[i] = t[z + i] /\ v[j] = t[z + j]
        /\ z + i \in 1 .. l /\ z + j \in 1 .. l
    BY <1>4
  <2>2. t[z + i] = "." /\ t[z + j] = "." => z + i = z + j
    BY <1>10, <2>1
  <2>. QED
    BY <2>1, <2>2
<1>12. Count(v, {"."}) <= 1 /\ Count(v, {"."}) \in Nat
       /\ (Count(v, {"."}) = 1 <=> \E i \in 1 .. Len(v) : v[i] \in {"."})
  <2>1. \A i, j \in 1 .. Len(v) : v[i] \in {"."} /\ v[j] \in {"."} => i = j
    BY <1>3, <1>11
  <2>2. /\ Count(v, {"."}) <= 1
        /\ Count(v, {"."}) = 1 <=> \E i \in 1 .. Len(v) : v[i] \in {"."}
    BY <1>8, <2>1, OnceCounted
  <2>3. Count(v, {"."}) \in Nat
    BY <1>8, CountFacts
  <2>. QED
    BY <2>2, <2>3
<1>13. ASSUME Count(v, {"."}) = 1
       PROVE  Decimals(v) <= 2
  <2>1. PICK i \in 1 .. n : v[i] = "."
    BY <1>3, <1>12, <1>13
  <2>2. z + i \in 1 .. l /\ t[z + i] = "."
    BY <1>4, <2>1
  <2>3. \A k \in 1 .. (z + i) - 1 : t[k] # "."
    <3> TAKE k \in 1 .. (z + i) - 1
    <3>1. k \in 1 .. l /\ k # z + i
      BY <2>2
    <3>. QED
      BY <1>10, <2>2, <3>1
  <2>4. \A k \in 1 .. i - 1 : v[k] # "."
    <3> TAKE k \in 1 .. i - 1
    <3>1. k \in 1 .. n /\ k # i
      BY <1>3
    <3>. QED
      BY <1>11, <2>1, <3>1
  <2>5. Decimals(t) = Len(t) - (z + i)
    <3>1. PICK q : q = z + i
      OBVIOUS
    <3>2. q \in 1 .. Len(t) /\ t[q] = "." /\ \A k \in 1 .. q - 1 : t[k] # "."
      BY <1>3, <2>2, <2>3, <3>1
    <3>3. Decimals(t) = Len(t) - q
      BY <1>2, <3>2, DecimalsIs
    <3>. QED
      BY <3>1, <3>3
  <2>6. Decimals(v) = Len(v) - i
    <3>1. i \in 1 .. Len(v)
      BY <1>3
    <3>. QED
      BY <1>8, <2>1, <2>4, <3>1, DecimalsIs
  <2>7. Decimals(t) <= 2
    <3>1. "." \in ToSet(t)
      BY <1>3, <2>2 DEF ToSet
    <3>. QED
      BY <3>1 DEF IsAmount
  <2>. QED
    <3>1. Decimals(t) = l - (z + i) /\ Decimals(v) = n - i
      BY <1>3, <2>5, <2>6
    <3>2. l - (z + i) = n - i
      BY <1>3
    <3>. QED
      BY <2>7, <3>1, <3>2
<1>14. Decimals(v) \in Int
  BY <1>8, DecimalsFacts
<1>. QED
  BY <1>7, <1>9, <1>12, <1>13, <1>14 DEF Malformed

(* CentsOf, with what it says of the completed amount under one name.      *)
Completed(v, w, p) ==
  /\ Written(w, p) /\ Len(v) <= p + 2
  /\ \A i \in 1 .. Len(v) : w[i] = v[i]
  /\ \A i \in Len(v) + 1 .. p + 2 : i # p => w[i] = "0"

LEMMA CentsCompleted ==
  ASSUME NEW S, S = Digits \cup {"."}, NEW s, NEW t \in Seq(S), t = Stripped(s),
         NEW z \in 0 .. Len(t), \A i \in 1 .. z : t[i] = "0",
         NEW v \in Seq(S), KeptWhole(t, v, z),
         NEW p \in 1 .. Len(v) + 1, NEW w, Completed(v, w, p)
  PROVE  /\ \/ Cents(s) = Spelt(w)
            \/ Cents(s) >= 100000000 /\ Spelt(w) >= 100000000
         /\ "." \in ToSet(t) => Decimals(t) <= 2
  BY CentsOf, SMT DEF Completed

(* Without a digit behind the zeros there is no amount.                    *)
LEMMA NothingSaid ==
  ASSUME NEW s \in Seq(Chars), NEW t, t = Stripped(s),
         NEW z \in 0 .. Len(t), \A i \in 1 .. z : t[i] = "0",
         \A i \in z + 1 .. Len(t) : t[i] \notin Digits, IsAmount(s)
  PROVE  Cents(s) = 0
<1>1. PICK a \in Nat : Around(s, t, a)
  BY StrippedFacts
<1>2. t \in Seq(Chars)
  BY <1>1 DEF Around
<1>3. PICK l \in Nat : l = Len(t)
  BY <1>2
<1>4. \A i \in 1 .. l : t[i] = "0" \/ t[i] \notin Digits
  <2> TAKE i \in 1 .. l
  <2>1. i \in 1 .. z \/ i \in z + 1 .. Len(t)
    BY <1>3
  <2>. QED
    BY <2>1
<1>5. PICK q \in 1 .. l + 1 :
        /\ Decimals(t) = l - q
        /\ q <= l => t[q] = "."
        /\ \A k \in 1 .. q - 1 : t[k] # "."
  BY <1>2, <1>3, DecimalsFacts
<1>6. PointAt(t, q)
  BY <1>3, <1>5 DEF PointAt
<1>7. q <= l => l - q <= 2
  <2>1. q <= l => "." \in ToSet(t)
    BY <1>2, <1>3, <1>5 DEF ToSet
  <2>. QED
    BY <1>5, <2>1 DEF IsAmount
<1>8. PICK x, c : x = SubSeq(t, 1, q - 1) /\ c = From(t, q + 1)
  OBVIOUS
<1>9. x \in Seq(Chars) /\ Len(x) = q - 1 /\ \A i \in 1 .. q - 1 : x[i] = t[i]
  <2>1. x = [i \in 1 .. q - 1 |-> t[i]]
    BY <1>2, <1>3, <1>5, <1>8
  <2>2. \A i \in 1 .. q - 1 : t[i] \in Chars
    BY <1>2, <1>3
  <2>. QED
    BY <2>1, <2>2
<1>10. /\ c \in Seq(Chars) /\ Len(c) <= 2 /\ Len(c) \in Nat
       /\ \A i \in 1 .. Len(c) : c[i] = "0" \/ c[i] \notin Digits
  <2>1. CASE q <= l
    <3>1. q + 1 \in 1 .. Len(t) + 1 /\ Len(t) - (q + 1) + 1 = l - q
      BY <1>3, <2>1
    <3>2. /\ c \in Seq(Chars) /\ Len(c) = l - q
          /\ \A i \in 1 .. l - q : c[i] = t[(q + 1) + i - 1]
      BY <1>2, <1>8, <3>1, FromFacts
    <3>3. \A i \in 1 .. l - q : (q + 1) + i - 1 \in 1 .. l
      BY <2>1
    <3>. QED
      BY <1>4, <1>7, <2>1, <3>2, <3>3
  <2>2. CASE ~ (q <= l)
    <3>1. c = <<>>
      BY <1>2, <1>3, <1>8, <2>2 DEF From
    <3>. QED
      BY <3>1
  <2>. QED
    BY <2>1, <2>2
<1>11. PICK m \in Nat : m = 2 - Len(c)
  BY <1>10
<1>12. PICK u, b : u = Fill("0", m) /\ b = c \o u
  OBVIOUS
<1>13. u \in Seq(Chars) /\ Len(u) = m /\ \A k \in 1 .. m : u[k] = "0"
  <2>1. "0" \in Chars
    BY DigitFacts DEF Chars
  <2>. QED
    BY <1>12, <2>1, FillFacts
<1>14. /\ b \in Seq(Chars) /\ Len(b) = Len(c) + Len(u)
       /\ \A i \in 1 .. Len(c) : b[i] = c[i]
       /\ \A i \in 1 .. Len(u) : b[Len(c) + i] = u[i]
  <2>1. c \in Seq(Chars) /\ u \in Seq(Chars)
    BY <1>10, <1>13
  <2>. QED
    BY <1>12, <2>1, Concatenated
<1>15. Spelt(x) = 0
  <2>1. Len(x) \in Nat /\ Len(x) \in 0 .. Len(x)
    BY <1>9
  <2>2. \A i \in 1 .. Len(x) : x[i] = "0" \/ x[i] \notin Digits
    BY <1>3, <1>4, <1>9
  <2>3. \A i \in 0 .. Len(x) : Spelling(x)[i] = 0
    BY <2>1, <2>2, ZeroSpelt
  <2>. QED
    BY <2>1, <2>3 DEF Spelt
<1>16. Spelt(b) = 0
  <2>1. Len(b) \in Nat /\ Len(b) \in 0 .. Len(b)
    BY <1>14
  <2>2. ASSUME NEW i \in 1 .. Len(b)
        PROVE  b[i] = "0" \/ b[i] \notin Digits
    <3>1. CASE i \in 1 .. Len(c)
      BY <1>10, <1>14, <3>1
    <3>2. CASE i \notin 1 .. Len(c)
      <4>1. i - Len(c) \in 1 .. Len(u) /\ Len(c) + (i - Len(c)) = i
        BY <1>10, <1>13, <1>14, <3>2
      <4>2. b[i] = "0"
        BY <1>13, <1>14, <4>1
      <4>. QED
        BY <4>2
    <3>. QED
      BY <3>1, <3>2
  <2>3. \A i \in 0 .. Len(b) : Spelling(b)[i] = 0
    BY <2>1, <2>2, ZeroSpelt
  <2>. QED
    BY <2>1, <2>3 DEF Spelt
<1>17. Cents(s) = IF Spelt(SubSeq(t, 1, q - 1)) > 1000000 THEN 1000000000
                  ELSE 100 * Spelt(SubSeq(t, 1, q - 1))
                       + Spelt(From(t, q + 1) \o Fill("0", 2 - Len(From(t, q + 1))))
  BY <1>6, CentsFacts, SMT
<1>18. Cents(s) = IF Spelt(x) > 1000000 THEN 1000000000 ELSE 100 * Spelt(x) + Spelt(b)
  BY <1>8, <1>11, <1>12, <1>17, SMT
<1>. QED
  BY <1>15, <1>16, <1>18, SMT

(* A number of cents that is neither zero nor too large.                   *)
InRange(c) == c \in Nat /\ c # 0 /\ c <= 99999995

(* A text without a blank inside is taken if and only if it is an amount,  *)
(* not zero and not too large, and for what it says.                       *)
LEMMA TakenAsMeant ==
  ASSUME NEW s \in Seq(Chars), Len(s) <= 9, Space \notin ToSet(Stripped(s)),
         NEW r, r = check_amount_format(s, 9),
         NEW w, w = WithDecimals(Kept(s))
  PROVE  /\ r.code = AMT_OK <=> IsAmount(s) /\ InRange(Cents(s))
         /\ r.code = AMT_OK => Spelt(w) = Cents(s)
<1>1. PICK t, v : t = Stripped(s) /\ v = Kept(s)
  OBVIOUS
<1>2. PICK a \in Nat : Around(s, t, a)
  BY <1>1, StrippedFacts
<1>3. t \in Seq(Chars) /\ v \in Seq(Chars) /\ Len(v) <= 9
  <2>1. v \in Seq(Chars \ {Space}) /\ Len(v) <= Len(s)
    BY <1>1, KeptFacts
  <2>. QED
    BY <1>2, <2>1 DEF Around
<1>4. PICK z \in 0 .. Len(t) :
         /\ \A i \in 1 .. z : t[i] = "0"
         /\ \/ KeptWhole(t, v, z) /\ DigitsIn(TrimLeft(s)) = Count(v, Digits)
            \/ /\ \A i \in z + 1 .. Len(t) : t[i] \notin Digits
               /\ \A i \in 1 .. Len(v) : v[i] = "0" \/ v[i] \notin Digits
  BY <1>1, KeptOfText
<1>5. /\ ~ Malformed(s) => Spelt(w) \in Nat
      /\ r.code = AMT_OK <=>
           ~ Refused(s, 9) /\ Spelt(w) # 0 /\ Spelt(w) <= 99999995
  BY Accepted, SMT
<1>6. PICK S : S = Digits \cup {"."}
  OBVIOUS
<1>7. ASSUME ~ Malformed(s)
      PROVE  /\ v \in Seq(S) /\ w = WithDecimals(v)
             /\ \E p \in 1 .. Len(v) + 1 :
                  /\ Written(w, p) /\ Len(v) <= p + 2
                  /\ \A i \in 1 .. Len(v) : w[i] = v[i]
                  /\ \A i \in Len(v) + 1 .. p + 2 : i # p => w[i] = "0"
                  /\ p <= Len(v) <=> "." \in ToSet(v)
  BY <1>1, <1>6, <1>7, WrittenFacts
<1>8. CASE /\ \A i \in z + 1 .. Len(t) : t[i] \notin Digits
           /\ \A i \in 1 .. Len(v) : v[i] = "0" \/ v[i] \notin Digits
  <2>1. IsAmount(s) => Cents(s) = 0
    BY <1>1, <1>4, <1>8, NothingSaid
  <2>2. ASSUME ~ Malformed(s)
        PROVE  Spelt(w) = 0
    <3>1. PICK p \in 1 .. Len(v) + 1 :
            /\ Written(w, p) /\ Len(v) <= p + 2
            /\ \A i \in 1 .. Len(v) : w[i] = v[i]
            /\ \A i \in Len(v) + 1 .. p + 2 : i # p => w[i] = "0"
      BY <1>7, <2>2
    <3>2. Len(w) = p + 2 /\ p \in Nat /\ w[p] = "." /\ Len(w) \in 0 .. Len(w)
      BY <3>1 DEF Written, Money
    <3>3. ASSUME NEW i \in 1 .. Len(w)
          PROVE  w[i] = "0" \/ w[i] \notin Digits
      <4>1. i \in 1 .. Len(v) \/ i = p \/ (i \in Len(v) + 1 .. p + 2 /\ i # p)
        BY <1>3, <3>2
      <4>. QED
        BY <1>8, <3>1, <3>2, <4>1, DigitFacts
    <3>4. \A i \in 0 .. Len(w) : Spelling(w)[i] = 0
      BY <3>2, <3>3, ZeroSpelt
    <3>. QED
      BY <3>2, <3>4 DEF Spelt
  <2>3. Malformed(s) \/ Spelt(w) = 0
    BY <2>2
  <2>4. r.code # AMT_OK
    BY <1>5, <2>3, SMT DEF Refused
  <2>5. IsAmount(s) => ~ InRange(Cents(s))
    BY <2>1, SMT DEF InRange
  <2>. QED
    BY <2>4, <2>5, SMT
<1>9. CASE KeptWhole(t, v, z) /\ DigitsIn(TrimLeft(s)) = Count(v, Digits)
  <2>1. ASSUME ~ Malformed(s)
        PROVE  /\ \/ Cents(s) = Spelt(w)
                  \/ Cents(s) >= 100000000 /\ Spelt(w) >= 100000000
               /\ IsAmount(s)
    <3>1. v \in Seq(S) /\ w = WithDecimals(v)
      BY <1>7, <2>1
    <3>2. PICK p \in 1 .. Len(v) + 1 :
            /\ Written(w, p) /\ Len(v) <= p + 2
            /\ \A i \in 1 .. Len(v) : w[i] = v[i]
            /\ \A i \in Len(v) + 1 .. p + 2 : i # p => w[i] = "0"
      BY <1>7, <2>1
    <3>3. PICK l, n \in Nat : l = Len(t) /\ n = Len(v) /\ n = l - z
      BY <1>3, <1>9 DEF KeptWhole
    <3>4. \A i \in 1 .. n : v[i] = t[z + i]
      BY <1>9, <3>3 DEF KeptWhole
    <3>5. \A i \in z + 1 .. l : i - z \in 1 .. n /\ t[i] = v[i - z]
      <4> TAKE i \in z + 1 .. l
      <4>1. i - z \in 1 .. n /\ z + (i - z) = i
        BY <3>3
      <4>. QED
        BY <3>4, <4>1
    <3>6. \A i \in 1 .. l : i \in 1 .. z \/ i \in z + 1 .. l
      BY <3>3
    <3>7. t \in Seq(S)
      <4>1. \A i \in 1 .. l : t[i] \in S
        <5> TAKE i \in 1 .. l
        <5>1. CASE i \in 1 .. z
          BY <1>4, <1>6, <5>1, DigitFacts
        <5>2. CASE i \in z + 1 .. l
          <6>1. i - z \in 1 .. n /\ t[i] = v[i - z]
            BY <3>5, <5>2
          <6>2. PICK j \in 1 .. n : t[i] = v[j]
            BY <6>1
          <6>3. v \in Seq(S) /\ j \in 1 .. Len(v)
            BY <3>1, <3>3
          <6>4. v[j] \in S
            BY <6>3
          <6>. QED
            BY <6>2, <6>4
        <5>. QED
          BY <3>6, <5>1, <5>2
      <4>2. t = [i \in 1 .. l |-> t[i]]
        BY <1>3, <3>3
      <4>. QED
        BY <4>1, <4>2
    <3>8. /\ \/ Cents(s) = Spelt(w)
             \/ Cents(s) >= 100000000 /\ Spelt(w) >= 100000000
          /\ "." \in ToSet(t) => Decimals(t) <= 2
      <4>1. p \in 1 .. Len(v) + 1 /\ Completed(v, w, p)
        BY <3>2 DEF Completed
      <4>2. \A i \in 1 .. z : t[i] = "0"
        BY <1>4
      <4>3. t = Stripped(s) /\ KeptWhole(t, v, z) /\ z \in 0 .. Len(t)
        BY <1>1, <1>9
      <4>. QED
        BY <1>6, <3>1, <3>7, <4>1, <4>2, <4>3, CentsCompleted, SMT
    <3>9. ToSet(t) \subseteq Digits \cup {"."}
      BY <1>6, <3>7 DEF ToSet
    <3>10. Count(t, {"."}) <= 1
      <4>1. Count(v, {"."}) <= 1
        BY <1>1, <1>3, <2>1, CountFacts DEF Malformed
      <4>2. \A i, j \in 1 .. Len(v) : v[i] \in {"."} /\ v[j] \in {"."} => i = j
        BY <1>3, <4>1, CountFacts
      <4>3. \A i \in 1 .. z : t[i] \notin {"."}
        BY <1>4, DigitFacts
      <4>4. \A i, j \in 1 .. l : t[i] \in {"."} /\ t[j] \in {"."} => i = j
        <5> TAKE i, j \in 1 .. l
        <5>1. HAVE t[i] \in {"."} /\ t[j] \in {"."}
        <5>2. i \in z + 1 .. l /\ j \in z + 1 .. l
          BY <3>6, <4>3, <5>1
        <5>3. i - z = j - z
          BY <3>3, <3>5, <4>2, <5>1, <5>2
        <5>. QED
          BY <5>2, <5>3
      <4>. QED
        BY <1>3, <3>3, <4>4, OnceCounted
    <3>. QED
      BY <1>1, <3>8, <3>9, <3>10, SMT DEF IsAmount
  <2>2. IsAmount(s) => ~ Malformed(s)
    BY <1>1, <1>4, <1>9, AmountWellFormed
  <2>3. ASSUME ~ Malformed(s), Spelt(w) <= 99999995
        PROVE  ~ Refused(s, 9)
    <3>1. PICK p \in 1 .. Len(v) + 1 :
            /\ Written(w, p) /\ Len(v) <= p + 2
            /\ \A i \in 1 .. Len(v) : w[i] = v[i]
            /\ p <= Len(v) <=> "." \in ToSet(v)
      BY <1>7, <2>3
    <3>2. p \in 1 .. 7
      BY <1>5, <2>3, <3>1, WrittenFits, SMT
    <3>3. PICK n \in Nat : n = Len(v) /\ n <= 9
      BY <1>3
    <3>4. Count(v, Digits) \in Nat /\ Count(v, Digits) <= n
      BY <1>3, <3>3, CountFacts
    <3>5. ASSUME Count(v, Digits) > 8
          PROVE  FALSE
      <4>1. n = 9
        BY <3>3, <3>4, <3>5
      <4>2. p \in 1 .. n /\ p <= Len(v)
        BY <3>2, <3>3, <4>1
      <4>3. w[p] = "." /\ w[p] = v[p]
        BY <3>1, <3>3, <4>2 DEF Written, Money
      <4>4. v[p] \notin Digits
        BY <4>3, DigitFacts
      <4>5. Count(v, Digits) <= Len(v) - 1
        BY <1>3, <3>3, <4>2, <4>4, CountFacts
      <4>. QED
        BY <3>3, <3>4, <3>5, <4>1, <4>5
    <3>. QED
      BY <1>9, <2>3, <3>4, <3>5 DEF Refused
  <2>4. ASSUME r.code = AMT_OK
        PROVE  IsAmount(s) /\ InRange(Cents(s)) /\ Spelt(w) = Cents(s)
    <3>1. ~ Malformed(s) /\ Spelt(w) # 0 /\ Spelt(w) <= 99999995
      BY <1>5, <2>4, SMT DEF Refused
    <3>2. Spelt(w) \in Nat
      BY <1>5, <3>1, SMT
    <3>. QED
      BY <2>1, <3>1, <3>2, SMT DEF InRange
  <2>5. ASSUME IsAmount(s), InRange(Cents(s))
        PROVE  r.code = AMT_OK
    <3>1. ~ Malformed(s)
      BY <2>2, <2>5, SMT
    <3>2. Spelt(w) = Cents(s)
      BY <2>1, <2>5, <3>1, SMT DEF InRange
    <3>3. Spelt(w) # 0 /\ Spelt(w) <= 99999995
      BY <2>5, <3>2, SMT DEF InRange
    <3>. QED
      BY <1>5, <2>3, <3>1, <3>3, SMT
  <2>. QED
    BY <2>4, <2>5, SMT
<1>. QED
  BY <1>4, <1>8, <1>9, SMT

(* An amount as check_amount_format writes it.                             *)
Settled(x) ==
  /\ check_amount_format(x, 9).code = AMT_OK
  /\ check_amount_format(x, 9).text = x
  /\ x \in Seq(Chars) /\ Len(x) = 9

(* Once accepted, an amount is accepted again, as it is written.           *)
LEMMA AcceptedAgain ==
  ASSUME NEW s \in Seq(Chars), NEW r, r = check_amount_format(s, 9),
         r.code = AMT_OK
  PROVE  Settled(r.text)
<1>0. PICK x : x = r.text
  OBVIOUS
<1>1. PICK w : w = WithDecimals(Kept(s))
  OBVIOUS
<1>2. r = check_amount_format(s, 9)
  OBVIOUS
<1>3. r.code = AMT_OK
  OBVIOUS
<1>4. /\ Spelt(w) # 0 /\ Spelt(w) <= 99999995
      /\ \E p \in 1 .. 7 : Written(w, p) /\ x = RightAligned(w, 9)
  BY <1>0, <1>1, <1>2, <1>3, Accepted, SMT
<1>5. PICK p \in 1 .. 7 : Written(w, p) /\ x = RightAligned(w, 9)
  BY <1>4
<1>6. /\ Kept(x) = w /\ WithDecimals(w) = w
      /\ x \in Seq(Chars) /\ Len(x) = 9 /\ ~ Refused(x, 9)
  BY <1>5, WrittenAgain
<1>7. PICK q : q = check_amount_format(x, 9)
  OBVIOUS
<1>8. PICK u : u = WithDecimals(Kept(x))
  OBVIOUS
<1>9. u = w
  BY <1>6, <1>8
<1>10. q.code = AMT_OK <=>
         ~ Refused(x, 9) /\ Spelt(u) # 0 /\ Spelt(u) <= 99999995
  BY <1>6, <1>7, <1>8, Accepted, SMT
<1>11. q.code = AMT_OK
  BY <1>4, <1>6, <1>9, <1>10, SMT
<1>12. \E k \in 1 .. 7 : Written(u, k) /\ q.text = RightAligned(u, 9)
  BY <1>6, <1>7, <1>8, <1>11, Accepted, SMT
<1>13. q.text = x
  BY <1>5, <1>9, <1>12
<1>. QED
  BY <1>0, <1>6, <1>7, <1>11, <1>13 DEF Settled

(* What is left in the field and what is sent are the amount that was      *)
(* typed.                                                                  *)
LEMMA AmountKept ==
  ASSUME NEW s \in Seq(Chars), Len(s) <= 9, Space \notin ToSet(Stripped(s)),
         NEW r, r = check_amount_format(s, 9), r.code = AMT_OK,
         NEW x, x = r.text, NEW q, q = put_leading_zeros(x)
  PROVE  /\ Cents(x) = Cents(s)
         /\ q \in Seq(Digits) /\ Len(q) = 9 /\ Spelt(q) = Cents(s)
<1>0. Settled(r.text)
  BY AcceptedAgain
<1>1. PICK w : w = WithDecimals(Kept(s))
  OBVIOUS
<1>2. r = check_amount_format(s, 9)
  OBVIOUS
<1>3. r.code = AMT_OK /\ x = r.text
  OBVIOUS
<1>4. \E p \in 1 .. 7 : Written(w, p) /\ x = RightAligned(w, 9)
  BY <1>1, <1>2, <1>3, Accepted, SMT
<1>5. PICK p \in 1 .. 7 : Written(w, p) /\ x = RightAligned(w, 9)
  BY <1>4
<1>6. Spelt(w) = Cents(s)
  BY <1>1, <1>2, <1>3, TakenAsMeant, SMT
<1>7. q \in Seq(Digits) /\ Len(q) = 9 /\ Spelt(q) = Spelt(w)
  BY <1>5, SentSpelt
<1>8. /\ Kept(x) = w /\ WithDecimals(w) = w /\ x \in Seq(Chars) /\ Len(x) = 9
  BY <1>5, WrittenAgain
<1>9. /\ Len(w) = p + 2 /\ Len(w) \in Nat /\ w \in Seq(Digits \cup {"."})
      /\ w \in Seq(Chars) /\ w[Len(w)] \in Digits
  BY <1>5 DEF Written, Money, Chars
<1>10. ASSUME NEW i \in 1 .. Len(w)
       PROVE  w[i] # Space
  <2>1. w[i] \in Digits \cup {"."}
    BY <1>9
  <2>2. Space \notin Digits \cup {"."}
    BY DigitFacts, Zenon DEF Space
  <2>. QED
    BY <2>1, <2>2
<1>11. Stripped(x) = w
  <2>1. PICK l \in Nat : l = 9
    OBVIOUS
  <2>2. Len(w) <= l /\ Len(w) >= 1 /\ x = RightAligned(w, l)
    BY <1>5, <1>9, <2>1
  <2>3. w[1] # Space /\ w[Len(w)] # Space
    BY <1>9, <1>10
  <2>. QED
    BY <1>9, <2>2, <2>3, StrippedIs
<1>12. Space \notin ToSet(Stripped(x))
  <2>1. DOMAIN w = 1 .. Len(w)
    BY <1>9
  <2>2. Space \notin ToSet(w)
    BY <1>10, <2>1 DEF ToSet
  <2>. QED
    BY <1>11, <2>2
<1>13. PICK u : u = WithDecimals(Kept(x))
  OBVIOUS
<1>14. check_amount_format(x, 9).code = AMT_OK
  BY <1>0 DEF Settled
<1>15. Spelt(u) = Cents(x)
  <2>1. x \in Seq(Chars) /\ Len(x) <= 9
    <3>1. PICK k : k = Len(x)
      OBVIOUS
    <3>2. k = 9
      BY <1>8, <3>1
    <3>3. k <= 9
      BY ONLY <3>2
    <3>. QED
      BY ONLY <1>8, <3>1, <3>3
  <2>2. PICK y : y = check_amount_format(x, 9)
    OBVIOUS
  <2>3. y.code = AMT_OK
    BY <1>14, <2>2
  <2>. QED
    BY <1>12, <1>13, <2>1, <2>2, <2>3, TakenAsMeant, SMT
<1>16. u = w
  BY <1>8, <1>13
<1>. QED
  BY <1>6, <1>7, <1>15, <1>16

(* A text over S has characters of S.                                      *)
LEMMA InText ==
  ASSUME NEW S, NEW q \in Seq(S), NEW i \in 1 .. Len(q)
  PROVE  q[i] \in S
  OBVIOUS

(* The balance in an answer, as it is shown.                               *)
Shows(b, t, n) ==
  /\ t \in Seq(Chars) /\ Len(t) = 10
  /\ \A i \in 1 .. n : t[i] = Space /\ b[i] = "0"
  /\ \A i \in n + 1 .. 7 : t[i] = b[i]
  /\ t[8] = "." /\ t[9] = b[8] /\ t[10] = b[9]
  /\ n < 6 => t[n + 1] # "0"

(* What display_balance makes of nine digits is such a text.               *)
LEMMA DisplayShows ==
  ASSUME NEW b \in Seq(Digits), Len(b) = 9
  PROVE  \E n \in 0 .. 6 : Shows(b, display_balance(b), n)
  BY ShownFacts DEF Shows

(* Such a text says what the digits say.                                   *)
LEMMA BalanceText ==
  ASSUME NEW b \in Seq(Digits), Len(b) = 9, NEW t, NEW n \in 0 .. 6,
         Shows(b, t, n)
  PROVE  /\ Spelt(t) = Spelt(b)
         /\ ToSet(From(t, n + 1)) \subseteq Digits \cup {"."}
         /\ Decimals(t) = 2
         /\ t[n + 1] = "0" => n = 6
         /\ First({k \in 1 .. Len(t) : t[k] # Space}, Len(t)) = n + 1
<1>1. /\ t \in Seq(Chars) /\ Len(t) = 10
      /\ \A i \in 1 .. n : t[i] = Space /\ b[i] = "0"
      /\ \A i \in n + 1 .. 7 : t[i] = b[i]
      /\ t[8] = "." /\ t[9] = b[8] /\ t[10] = b[9]
      /\ n < 6 => t[n + 1] # "0"
  BY DEF Shows
<1>2. PICK l \in Nat : l = 10
  OBVIOUS
<1>3. \A i \in 1 .. 9 : b[i] \in Digits
  <2>1. \A i \in 1 .. Len(b) : b[i] \in Digits
    BY InText
  <2>2. Len(b) = 9
    OBVIOUS
  <2>. QED
    BY ONLY <2>1, <2>2, Zenon
<1>4. Space \notin Digits \cup {"."} /\ "." \notin Digits
  BY DigitFacts, Zenon DEF Space
<1>5. \A i \in n + 1 .. 10 : t[i] \in Digits \cup {"."}
  <2> TAKE i \in n + 1 .. 10
  <2>1. (i \in n + 1 .. 7 /\ i \in 1 .. 9) \/ i = 8 \/ i = 9 \/ i = 10
    BY <1>1
  <2>. QED
    BY <1>1, <1>3, <2>1
<1>6. First({k \in 1 .. Len(t) : t[k] # Space}, Len(t)) = n + 1
  <2>1. PICK P : P = {k \in 1 .. l : t[k] # Space}
    OBVIOUS
  <2>2. PICK f : f = n + 1
    OBVIOUS
  <2>3. f \in 1 .. l + 1 /\ P \in SUBSET (1 .. l)
    BY <1>2, <2>1, <2>2
  <2>4. f \in P
    <3>1. f \in n + 1 .. 10 /\ f \in 1 .. l
      BY <1>2, <2>2
    <3>. QED
      BY <1>4, <1>5, <2>1, <3>1
  <2>5. \A k \in 1 .. f - 1 : k \notin P
    <3> TAKE k \in 1 .. f - 1
    <3>1. k \in 1 .. n
      BY <2>2
    <3>. QED
      BY <1>1, <2>1, <3>1
  <2>6. First(P, l) = f
    BY <2>3, <2>4, <2>5, FirstIs
  <2>7. Len(t) = l
    BY <1>1, <1>2
  <2>8. {k \in 1 .. Len(t) : t[k] # Space} = P
    BY ONLY <2>1, <2>7, Zenon
  <2>. QED
    BY ONLY <2>2, <2>6, <2>7, <2>8, Zenon
<1>7. PICK d : d = From(t, n + 1)
  OBVIOUS
<1>8. ToSet(d) \subseteq Digits \cup {"."}
  <2>1. PICK k, m : k = n + 1 /\ m = 10 - n
    OBVIOUS
  <2>2. k \in 1 .. Len(t) + 1 /\ Len(t) - k + 1 = m /\ d = From(t, k)
    BY <1>1, <1>7, <2>1
  <2>3. /\ d \in Seq(Chars) /\ Len(d) = m
        /\ \A i \in 1 .. m : d[i] = t[k + i - 1]
    <3>1. t \in Seq(Chars)
      BY <1>1
    <3>. QED
      BY <2>2, <3>1, FromFacts
  <2>4. ASSUME NEW i \in 1 .. m
        PROVE  d[i] \in Digits \cup {"."}
    <3>1. k + i - 1 \in n + 1 .. 10
      BY <2>1
    <3>. QED
      BY <1>5, <2>3, <3>1
  <2>5. DOMAIN d = 1 .. m
    BY <2>3
  <2>. QED
    BY <2>4, <2>5 DEF ToSet
<1>9. Decimals(t) = 2
  <2>1. 8 \in 1 .. Len(t) /\ t[8] = "."
    BY <1>1
  <2>2. ASSUME NEW k \in 1 .. 8 - 1
        PROVE  t[k] # "."
    <3>1. k \in 1 .. n \/ (k \in n + 1 .. 7 /\ k \in 1 .. 9)
      BY <1>1
    <3>2. t[k] = Space \/ t[k] \in Digits
      BY <1>1, <1>3, <3>1
    <3>. QED
      BY <1>4, <3>2
  <2>3. Decimals(t) = Len(t) - 8
    BY <1>1, <2>1, <2>2, DecimalsIs
  <2>. QED
    BY <1>1, <2>3
<1>10. Len(t) \in Nat /\ Len(b) \in Nat /\ n \in Nat /\ n <= 6
  BY <1>1
<1>11. Spelling(t)[n] = 0 /\ Spelling(b)[n] = 0
  <2>1. n \in 0 .. Len(t) /\ n \in 0 .. Len(b) /\ n \in 0 .. n
    BY <1>1
  <2>2. \A i \in 1 .. n : t[i] = "0" \/ t[i] \notin Digits
    BY <1>1, <1>4
  <2>3. \A i \in 1 .. n : b[i] = "0" \/ b[i] \notin Digits
    BY <1>1
  <2>4. Spelling(t)[n] = 0
    BY <1>10, <2>1, <2>2, ZeroSpelt
  <2>5. Spelling(b)[n] = 0
    BY <1>10, <2>1, <2>3, ZeroSpelt
  <2>. QED
    BY <2>4, <2>5
<1>12. Spelling(t)[7] = Spelling(b)[7]
  <2>1. PICK k \in Nat : k = 7 - n /\ n + k = 7
    BY <1>10
  <2>2. Alike(t, n, b, n, k)
    <3>1. ASSUME NEW i \in 1 .. k
          PROVE  t[n + i] = b[n + i]
      <4>1. n + i \in n + 1 .. 7
        BY <2>1
      <4>. QED
        BY <1>1, <4>1
    <3>2. n + k <= Len(t) /\ n + k <= Len(b)
      BY <1>1, <2>1
    <3>. QED
      BY <1>10, <2>1, <3>1, <3>2 DEF Alike
  <2>3. Spelling(t)[n + k] = Spelling(b)[n + k]
    BY <1>11, <2>2, SpeltAlike
  <2>. QED
    BY <2>1, <2>3
<1>13. Spelling(t)[8] = Spelling(b)[7]
  <2>1. 8 \in 1 .. Len(t) /\ 8 - 1 = 7 /\ 7 \in 0 .. Len(b)
    BY <1>1
  <2>2. Spelling(t)[8] = AndThen(Spelling(t)[7], ".")
    BY <1>1, <1>10, <2>1, SpellingFacts
  <2>. QED
    BY <1>4, <1>12, <2>2, SMT DEF AndThen
<1>14. Spelling(t)[10] = Spelling(b)[9]
  <2>1. Alike(t, 8, b, 7, 2)
    <3>1. ASSUME NEW i \in 1 .. 2
          PROVE  t[8 + i] = b[7 + i]
      <4>1. i = 1 \/ i = 2
        OBVIOUS
      <4>. QED
        BY <1>1, <4>1
    <3>2. 8 + 2 <= Len(t) /\ 7 + 2 <= Len(b)
      BY <1>1
    <3>. QED
      BY <1>10, <3>1, <3>2 DEF Alike
  <2>2. Spelling(t)[8 + 2] = Spelling(b)[7 + 2]
    BY <1>13, <2>1, SpeltAlike
  <2>. QED
    BY <2>2
<1>15. Spelt(t) = Spelt(b)
  BY <1>1, <1>14 DEF Spelt
<1>16. t[n + 1] = "0" => n = 6
  <2>1. n = 6 \/ n < 6
    OBVIOUS
  <2>. QED
    BY <1>1, <2>1
<1>. QED
  BY <1>6, <1>7, <1>8, <1>9, <1>15, <1>16

-----------------------------------------------------------------------------
FormNames == {"loginf", "openf", "ainqf", "adepf", "acwdf", "atfrf", "closf"}

EntryTypes == {"T_OPERID", "T_PASSWORD", "T_ACCNUM", "T_ACCNUM2", "T_AMOUNT",
               "T_CUSTNAME"}

(* The forms, their entries and the transactions they belong to.           *)
LEMMA FormFacts ==
  /\ DOMAIN Forms = FormNames
  /\ DOMAIN Forms["loginf"] = 1 .. 2 /\ DOMAIN Forms["openf"] = 1 .. 2
  /\ DOMAIN Forms["ainqf"] = 1 .. 1 /\ DOMAIN Forms["adepf"] = 1 .. 2
  /\ DOMAIN Forms["acwdf"] = 1 .. 2 /\ DOMAIN Forms["atfrf"] = 1 .. 3
  /\ DOMAIN Forms["closf"] = 1 .. 1
  /\ Forms["loginf"][1] = "T_OPERID" /\ Forms["loginf"][2] = "T_PASSWORD"
  /\ Forms["openf"][1] = "T_ACCNUM" /\ Forms["openf"][2] = "T_CUSTNAME"
  /\ Forms["ainqf"][1] = "T_ACCNUM"
  /\ Forms["adepf"][1] = "T_ACCNUM" /\ Forms["adepf"][2] = "T_AMOUNT"
  /\ Forms["acwdf"][1] = "T_ACCNUM" /\ Forms["acwdf"][2] = "T_AMOUNT"
  /\ Forms["atfrf"][1] = "T_ACCNUM" /\ Forms["atfrf"][2] = "T_ACCNUM2"
  /\ Forms["atfrf"][3] = "T_AMOUNT"
  /\ Forms["closf"][1] = "T_ACCNUM"
BY DEF Forms, FormNames

(* The forms of the transactions.                                          *)
LEMMA FormOfFacts ==
  /\ FormOf[1] = "loginf" /\ FormOf[2] = "openf" /\ FormOf[3] = "ainqf"
  /\ FormOf[4] = "adepf" /\ FormOf[5] = "acwdf" /\ FormOf[6] = "atfrf"
  /\ FormOf[7] = "closf"
BY DEF FormOf

(* The next entry is an entry.                                             *)
LEMMA NextIsEntry ==
  ASSUME form \in FormNames, at \in DOMAIN Forms[form]
  PROVE  NextEntry \in DOMAIN Forms[form]
<1>1. Len(Forms[form]) \in 1 .. 3 /\ DOMAIN Forms[form] = 1 .. Len(Forms[form])
  BY DEF Forms, FormNames
<1> DEFINE n == Len(Forms[form])
<1>2. n \in Nat /\ n >= 1 /\ at \in Nat
  BY <1>1
<1>3. NextEntry = (at % n) + 1
  BY DEF NextEntry
<1> HIDE DEF n
<1>4. at % n \in 0 .. n - 1
  BY <1>2
<1>5. (at % n) + 1 \in 1 .. n
  BY <1>2, <1>4
<1>. QED
  BY <1>1, <1>3, <1>5 DEF n

-----------------------------------------------------------------------------
(* A transaction has its five fields, a form a text for every entry.       *)
HasFields(t) ==
  t = [tran_code |-> t.tran_code, tran_cust_name |-> t.tran_cust_name,
       tran_operator_num |-> t.tran_operator_num,
       tran_amount |-> t.tran_amount, tran_state |-> t.tran_state]

Shaped(v) ==
  /\ v = [f \in FormNames |-> v[f]]
  /\ \A f \in FormNames : v[f] = [k \in DOMAIN Forms[f] |-> v[f][k]]

(* A change of one field leaves the others.                                *)
LEMMA FieldUpdates ==
  ASSUME NEW t, HasFields(t), NEW x
  PROVE  /\ LET u == [t EXCEPT !.tran_code = x]
            IN  /\ HasFields(u) /\ u.tran_code = x
                /\ u.tran_cust_name = t.tran_cust_name
                /\ u.tran_operator_num = t.tran_operator_num
                /\ u.tran_amount = t.tran_amount
         /\ LET u == [t EXCEPT !.tran_cust_name = x]
            IN  /\ HasFields(u) /\ u.tran_cust_name = x
                /\ u.tran_code = t.tran_code
                /\ u.tran_operator_num = t.tran_operator_num
                /\ u.tran_amount = t.tran_amount
         /\ LET u == [t EXCEPT !.tran_operator_num = x]
            IN  /\ HasFields(u) /\ u.tran_operator_num = x
                /\ u.tran_code = t.tran_code
                /\ u.tran_cust_name = t.tran_cust_name
                /\ u.tran_amount = t.tran_amount
         /\ LET u == [t EXCEPT !.tran_amount = x]
            IN  /\ HasFields(u) /\ u.tran_amount = x
                /\ u.tran_code = t.tran_code
                /\ u.tran_cust_name = t.tran_cust_name
                /\ u.tran_operator_num = t.tran_operator_num
         /\ LET u == [t EXCEPT !.tran_state = x]
            IN  /\ HasFields(u)
                /\ u.tran_code = t.tran_code
                /\ u.tran_cust_name = t.tran_cust_name
                /\ u.tran_operator_num = t.tran_operator_num
                /\ u.tran_amount = t.tran_amount
BY DEF HasFields

(* A change of one entry leaves the others.                                *)
LEMMA EntryUpdate ==
  ASSUME NEW v, Shaped(v), NEW f \in FormNames, NEW k \in DOMAIN Forms[f], NEW x
  PROVE  LET w == [v EXCEPT ![f][k] = x]
         IN  /\ Shaped(w)
             /\ w[f][k] = x
             /\ \A j \in DOMAIN Forms[f] \ {k} : w[f][j] = v[f][j]
             /\ \A g \in FormNames \ {f} : w[g] = v[g]
<1> DEFINE e == [v[f] EXCEPT ![k] = x]
           w == [v EXCEPT ![f] = e]
<1>1. /\ e = [j \in DOMAIN Forms[f] |-> e[j]]
      /\ e[k] = x
      /\ \A j \in DOMAIN Forms[f] \ {k} : e[j] = v[f][j]
  BY DEF Shaped
<1>2. [v EXCEPT ![f][k] = x] = w
  OBVIOUS
<1> HIDE DEF e
<1>3. /\ w = [g \in FormNames |-> w[g]]
      /\ w[f] = e
      /\ \A g \in FormNames \ {f} : w[g] = v[g]
  BY DEF Shaped
<1> HIDE DEF w
<1>4. Shaped(w)
  BY <1>1, <1>3 DEF Shaped
<1>. QED
  BY <1>1, <1>2, <1>3, <1>4

(* clear_form empties every entry of its form and of no other.             *)
LEMMA ClearedForm ==
  ASSUME Shaped(value), NEW f \in FormNames
  PROVE  /\ Shaped(clear_form(f))
         /\ \A k \in DOMAIN Forms[f] : clear_form(f)[f][k] = <<>>
         /\ ToSet(clear_form(f)[f]) = {<<>>}
         /\ \A g \in FormNames \ {f} : clear_form(f)[g] = value[g]
<1> DEFINE e == [k \in DOMAIN Forms[f] |-> <<>>]
           w == [value EXCEPT ![f] = e]
<1>1. /\ e = [k \in DOMAIN Forms[f] |-> e[k]]
      /\ \A k \in DOMAIN Forms[f] : e[k] = <<>>
      /\ DOMAIN e = DOMAIN Forms[f]
  OBVIOUS
<1>2. ToSet(e) = {<<>>}
  <2>1. 1 \in DOMAIN Forms[f]
    BY FormFacts DEF FormNames
  <2> HIDE DEF e
  <2>. QED
    BY <1>1, <2>1 DEF ToSet
<1>3. clear_form(f) = w
  BY DEF clear_form
<1> HIDE DEF e
<1>4. /\ w = [g \in FormNames |-> w[g]]
      /\ w[f] = e
      /\ \A g \in FormNames \ {f} : w[g] = value[g]
  BY DEF Shaped
<1> HIDE DEF w
<1>5. Shaped(w)
  BY <1>1, <1>4 DEF Shaped
<1>. QED
  BY <1>1, <1>2, <1>3, <1>4, <1>5

-----------------------------------------------------------------------------
(* What a good text of an entry and the transaction have to do with each   *)
(* other.                                                                  *)
Link(type, text, tran) ==
  /\ type = "T_OPERID" => /\ tran.tran_operator_num = text
                          /\ Len(text) = L_OPERID
  /\ type = "T_CUSTNAME" => /\ IsText(text, L_CUSTNAME)
                            /\ tran.tran_cust_name
                                 = text \o Fill(Space, L_CUSTNAME - Len(text))
  /\ type = "T_AMOUNT" => tran.tran_amount = put_leading_zeros(text)

(* The inductive invariant.  A text that was refused stays in its entry,   *)
(* with the cursor, and what is kept of the entry is of an older one; so   *)
(* entry and transaction agree in all the other entries, and in all of     *)
(* them once a request is out.                                             *)
ShapeInv ==
  /\ form \in FormNames \cup {"menu", "exit"}
  /\ form \in FormNames => at \in DOMAIN Forms[form]
  /\ waiting \in BOOLEAN
  /\ Shaped(value)
  /\ HasFields(transaction)

FormCode ==
  form \in FormNames => /\ current_tran \in OPER .. CLOS
                        /\ FormOf[current_tran] = form
                        /\ transaction.tran_code = current_tran

Linked ==
  form \in FormNames =>
    \A k \in DOMAIN Forms[form] :
      waiting \/ (k # at /\ value[form][k] # <<>>) =>
        Link(Forms[form][k], value[form][k], transaction)

LoggedIn ==
  form \notin {"loginf", "exit"} =>
    operator_num = value["loginf"][1] /\ Len(operator_num) = L_OPERID

FrontInv ==
  /\ ShapeInv
  /\ FormCode
  /\ Linked
  /\ LoggedIn
  /\ NothingLeft
  /\ waiting => form \in FormNames
  /\ SentAsShown

(* The names of the constants in numbers.                                  *)
LEMMA Codes17 ==
  /\ OPER = 1 /\ OPEN = 2 /\ AINQ = 3 /\ ADEP = 4 /\ ACWD = 5 /\ ATFR = 6
  /\ CLOS = 7
BY DEF OPER, OPEN, AINQ, ADEP, ACWD, ATFR, CLOS

(* A form belongs to one transaction.                                      *)
LEMMA CodeOfForm ==
  ASSUME FormCode, form \in FormNames
  PROVE  /\ form = "loginf" <=> current_tran = 1
         /\ form = "openf" <=> current_tran = 2
         /\ form = "ainqf" <=> current_tran = 3
         /\ form = "adepf" <=> current_tran = 4
         /\ form = "acwdf" <=> current_tran = 5
         /\ form = "atfrf" <=> current_tran = 6
         /\ form = "closf" <=> current_tran = 7
<1>1. current_tran \in 1 .. 7 /\ FormOf[current_tran] = form
  BY Codes17 DEF FormCode
<1>2. \/ current_tran = 1 \/ current_tran = 2 \/ current_tran = 3
      \/ current_tran = 4 \/ current_tran = 5 \/ current_tran = 6
      \/ current_tran = 7
  BY <1>1
<1>. QED
  BY <1>1, <1>2, FormOfFacts

(* No form has two entries of a type.                                      *)
LEMMA TypesDiffer ==
  ASSUME NEW f \in FormNames, NEW j \in DOMAIN Forms[f], NEW k \in DOMAIN Forms[f],
         j # k
  PROVE  /\ Forms[f][j] # Forms[f][k]
         /\ Forms[f][j] \in EntryTypes
<1>1. j \in {1, 2, 3} /\ k \in {1, 2, 3}
  BY FormFacts DEF FormNames
<1>. QED
  BY <1>1, FormFacts DEF FormNames, EntryTypes

(* Where the entries of the three types kept in the transaction are.       *)
LEMMA TypesIn ==
  ASSUME NEW f \in FormNames, NEW k \in DOMAIN Forms[f]
  PROVE  /\ Forms[f][k] \in EntryTypes
         /\ Forms[f][k] = "T_OPERID" <=> f = "loginf" /\ k = 1
         /\ Forms[f][k] = "T_CUSTNAME" => f = "openf"
         /\ Forms[f][k] = "T_AMOUNT" => f \in {"adepf", "acwdf", "atfrf"}
<1>1. k \in {1, 2, 3}
  BY FormFacts DEF FormNames
<1>. QED
  BY <1>1, FormFacts DEF FormNames, EntryTypes

(* An entry that is good leaves the transaction linked to its text, and    *)
(* any entry leaves alone what the others keep there.                      *)
LEMMA CheckedLinks ==
  ASSUME HasFields(transaction), NEW type \in EntryTypes, NEW text,
         IsText(text, Length[type])
  PROVE  LET done == Checked(type, text)
         IN  /\ HasFields(done.tran)
             /\ done.tran.tran_code = transaction.tran_code
             /\ done.good => Link(type, done.text, done.tran)
             /\ type # "T_OPERID" => done.tran.tran_operator_num
                                       = transaction.tran_operator_num
             /\ type # "T_CUSTNAME" => done.tran.tran_cust_name
                                         = transaction.tran_cust_name
             /\ type # "T_AMOUNT" => done.tran.tran_amount
                                       = transaction.tran_amount
<1> DEFINE done == Checked(type, text)
           padded == text \o Fill(Space, L_CUSTNAME - Len(text))
           amount == check_amount_format(text, L_AMOUNT)
           named == [transaction EXCEPT !.tran_cust_name = padded]
           priced == [transaction EXCEPT !.tran_amount = put_leading_zeros(amount.text)]
           signed == [transaction EXCEPT !.tran_operator_num = text]
<1>1. CASE type = "T_CUSTNAME"
  <2>1. done.good = TRUE /\ done.text = text /\ done.tran = named
    BY <1>1 DEF Checked
  <2>2. IsText(text, L_CUSTNAME)
    BY <1>1 DEF Length
  <2> HIDE DEF done, padded
  <2>3. /\ HasFields(named) /\ named.tran_cust_name = padded
        /\ named.tran_code = transaction.tran_code
        /\ named.tran_operator_num = transaction.tran_operator_num
        /\ named.tran_amount = transaction.tran_amount
    BY FieldUpdates
  <2>. QED
    BY <1>1, <2>1, <2>2, <2>3 DEF Link, padded, done
<1>2. CASE type = "T_AMOUNT"
  <2>1. /\ done.good <=> amount.code = AMT_OK
        /\ done.text = amount.text
        /\ done.good => done.tran = priced
        /\ ~ done.good => done.tran = transaction
    BY <1>2 DEF Checked
  <2> HIDE DEF done, amount
  <2>2. /\ HasFields(priced) /\ priced.tran_amount = put_leading_zeros(amount.text)
        /\ priced.tran_code = transaction.tran_code
        /\ priced.tran_operator_num = transaction.tran_operator_num
        /\ priced.tran_cust_name = transaction.tran_cust_name
    BY FieldUpdates
  <2> HIDE DEF priced
  <2>3. CASE done.good
    BY <1>2, <2>1, <2>2, <2>3 DEF Link, done
  <2>4. CASE ~ done.good
    BY <1>2, <2>1, <2>4 DEF done
  <2>. QED
    BY <2>3, <2>4
<1>3. CASE type \notin {"T_CUSTNAME", "T_AMOUNT"}
  <2>1. /\ done.good <=> check_numeric_format(text, Length[type])
        /\ done.text = text
        /\ done.good /\ type = "T_OPERID" => done.tran = signed
        /\ ~ (done.good /\ type = "T_OPERID") => done.tran = transaction
    BY <1>3 DEF Checked
  <2> HIDE DEF done
  <2>2. /\ HasFields(signed) /\ signed.tran_operator_num = text
        /\ signed.tran_code = transaction.tran_code
        /\ signed.tran_amount = transaction.tran_amount
        /\ signed.tran_cust_name = transaction.tran_cust_name
    BY FieldUpdates
  <2> HIDE DEF signed
  <2>3. CASE done.good /\ type = "T_OPERID"
    <3>1. Len(text) = L_OPERID
      <4>1. Length[type] = L_OPERID
        BY <2>3 DEF Length
      <4>2. Len(text) >= L_OPERID /\ Len(text) <= L_OPERID
        BY <2>1, <2>3, <4>1 DEF check_numeric_format, IsText
      <4>3. Len(text) \in Nat /\ L_OPERID \in Nat
        BY LengthsAssumption DEF IsText
      <4>. QED
        BY <4>2, <4>3
    <3>2. Link(type, done.text, done.tran)
      BY <2>1, <2>2, <2>3, <3>1 DEF Link
    <3>. QED
      BY <2>1, <2>2, <2>3, <3>2 DEF done
  <2>4. CASE ~ (done.good /\ type = "T_OPERID")
    <3>1. done.good => Link(type, done.text, done.tran)
      BY <1>3, <2>4 DEF Link
    <3>. QED
      BY <2>1, <2>4, <3>1 DEF done
  <2>. QED
    BY <2>3, <2>4
<1>. QED
  BY <1>1, <1>2, <1>3

-----------------------------------------------------------------------------
(* A text is typed and checked.                                            *)
LEMMA TypedText ==
  ASSUME FrontInv, Entering,
         NEW text \in Input(Forms[form][at], value[form][at])
  PROVE  LET done == Checked(Forms[form][at], text)
             v    == [value EXCEPT ![form][at] = done.text]
         IN  /\ Shaped(v)
             /\ HasFields(done.tran)
             /\ done.tran.tran_code = transaction.tran_code
             /\ \A k \in DOMAIN Forms[form] :
                  v[form][k] # <<>> /\ (k = at => done.good)
                    => Link(Forms[form][k], v[form][k], done.tran)
             /\ \A g \in FormNames \ {form} : v[g] = value[g]
             /\ form \notin {"adepf", "acwdf", "atfrf"} =>
                  done.tran.tran_amount = <<>>
             /\ form # "openf" => done.tran.tran_cust_name = <<>>
<1> DEFINE type == Forms[form][at]
           done == Checked(type, text)
           v    == [value EXCEPT ![form][at] = done.text]
<1>1. /\ form \in FormNames /\ at \in DOMAIN Forms[form] /\ ~ waiting
      /\ Shaped(value) /\ HasFields(transaction)
  BY FormFacts DEF FrontInv, ShapeInv, Entering
<1>2. type \in EntryTypes /\ IsText(text, Length[type])
  BY <1>1, TypesIn DEF Input
<1>3. /\ HasFields(done.tran)
      /\ done.tran.tran_code = transaction.tran_code
      /\ done.good => Link(type, done.text, done.tran)
      /\ type # "T_OPERID" => done.tran.tran_operator_num
                                = transaction.tran_operator_num
      /\ type # "T_CUSTNAME" => done.tran.tran_cust_name
                                  = transaction.tran_cust_name
      /\ type # "T_AMOUNT" => done.tran.tran_amount
                                = transaction.tran_amount
  BY <1>1, <1>2, CheckedLinks
<1> HIDE DEF done
<1>4. /\ Shaped(v)
      /\ v[form][at] = done.text
      /\ \A j \in DOMAIN Forms[form] \ {at} : v[form][j] = value[form][j]
      /\ \A g \in FormNames \ {form} : v[g] = value[g]
  BY <1>1, EntryUpdate
<1> HIDE DEF v
<1>5. ASSUME NEW k \in DOMAIN Forms[form], v[form][k] # <<>>, k = at => done.good
      PROVE  Link(Forms[form][k], v[form][k], done.tran)
  <2>1. CASE k = at
    BY <1>3, <1>4, <1>5, <2>1
  <2>2. CASE k # at
    <3>1. Forms[form][k] # type
      BY <1>1, <2>2, TypesDiffer
    <3>2. v[form][k] = value[form][k] /\ value[form][k] # <<>>
      BY <1>4, <1>5, <2>2
    <3>3. Link(Forms[form][k], value[form][k], transaction)
      BY <1>1, <2>2, <3>2 DEF FrontInv, Linked
    <3> HIDE DEF type
    <3>. QED
      BY <1>3, <3>1, <3>2, <3>3 DEF Link
  <2>. QED
    BY <2>1, <2>2
<1>6. /\ form \notin {"adepf", "acwdf", "atfrf"} => done.tran.tran_amount = <<>>
      /\ form # "openf" => done.tran.tran_cust_name = <<>>
  <2>1. /\ form \notin {"adepf", "acwdf", "atfrf"} => transaction.tran_amount = <<>>
        /\ form # "openf" => transaction.tran_cust_name = <<>>
    BY DEF FrontInv, NothingLeft
  <2>2. /\ type = "T_CUSTNAME" => form = "openf"
        /\ type = "T_AMOUNT" => form \in {"adepf", "acwdf", "atfrf"}
    BY <1>1, TypesIn
  <2>. QED
    BY <1>3, <2>1, <2>2
<1>. QED
  BY <1>3, <1>4, <1>5, <1>6 DEF done, v

(* ENTER.                                                                  *)
LEMMA EnterStep == FrontInv /\ Enter => FrontInv'
<1> SUFFICES ASSUME FrontInv, Enter
             PROVE  FrontInv'
  OBVIOUS
<1>1. /\ Entering
      /\ UNCHANGED <<form, waiting, current_tran, operator_num, message>>
  BY DEF Enter
<1>2. PICK text \in Input(Forms[form][at], value[form][at]) :
        LET done == Checked(Forms[form][at], text)
        IN  /\ value' = [value EXCEPT ![form][at] = done.text]
            /\ transaction' = done.tran
            /\ at' = IF done.good THEN NextEntry ELSE at
  BY Zenon DEF Enter
<1> DEFINE done == Checked(Forms[form][at], text)
           v    == [value EXCEPT ![form][at] = done.text]
<1>3. /\ Shaped(v)
      /\ HasFields(done.tran)
      /\ done.tran.tran_code = transaction.tran_code
      /\ \A k \in DOMAIN Forms[form] :
           v[form][k] # <<>> /\ (k = at => done.good)
             => Link(Forms[form][k], v[form][k], done.tran)
      /\ \A g \in FormNames \ {form} : v[g] = value[g]
      /\ form \notin {"adepf", "acwdf", "atfrf"} => done.tran.tran_amount = <<>>
      /\ form # "openf" => done.tran.tran_cust_name = <<>>
  BY <1>1, TypedText
<1>4. /\ value' = v /\ transaction' = done.tran
      /\ at' = IF done.good THEN NextEntry ELSE at
  BY <1>2
<1> HIDE DEF done, v
<1>5. /\ form \in FormNames /\ ~ waiting /\ at \in DOMAIN Forms[form]
  BY <1>1, FormFacts DEF FrontInv, ShapeInv, Entering
<1>6. at' \in DOMAIN Forms[form]
  BY <1>4, <1>5, NextIsEntry
<1>7. ShapeInv'
  BY <1>1, <1>3, <1>4, <1>5, <1>6 DEF FrontInv, ShapeInv
<1>8. FormCode'
  BY <1>1, <1>3, <1>4 DEF FrontInv, FormCode
<1>9. Linked'
  BY <1>1, <1>3, <1>4, <1>5 DEF Linked
<1>10. LoggedIn'
  BY <1>1, <1>3, <1>4, <1>5 DEF FrontInv, LoggedIn, FormNames
<1>11. NothingLeft'
  BY <1>1, <1>3, <1>4, FormFacts DEF FrontInv, NothingLeft
<1>12. SentAsShown' /\ (waiting => form \in FormNames)'
  BY <1>1, <1>5 DEF SentAsShown
<1>. QED
  BY <1>7, <1>8, <1>9, <1>10, <1>11, <1>12 DEF FrontInv

-----------------------------------------------------------------------------
(* A request m says what the form f shows.                                 *)
Matches(m, v, f) ==
  /\ FormOf[m.mtype] = f
  /\ m.operator = v.loginf[1]
  /\ Len(m.operator) = L_OPERID
  /\ \A k \in DOMAIN Forms[f] :
       LET text == v[f][k]
           sent == m.body[IF f = "loginf" THEN 1 ELSE k]
       IN  CASE Forms[f][k] = "T_AMOUNT" -> sent = put_leading_zeros(text)
             [] Forms[f][k] = "T_CUSTNAME" ->
                  Len(sent) = L_CUSTNAME /\ IsPrefix(text, sent)
             [] Forms[f][k] = "T_OPERID" -> m.operator = text
             [] OTHER -> sent = text

LEMMA SentMatches == SentAsShown <=> (waiting => Matches(message, value, form))
BY DEF SentAsShown, Matches

(* A padded name begins with the name.                                     *)
LEMMA Padding ==
  ASSUME NEW text, IsText(text, L_CUSTNAME)
  PROVE  LET padded == text \o Fill(Space, L_CUSTNAME - Len(text))
         IN  Len(padded) = L_CUSTNAME /\ IsPrefix(text, padded)
<1> DEFINE n == L_CUSTNAME - Len(text)
           fill == Fill(Space, n)
<1>1. /\ text \in Seq(Chars) /\ Len(text) \in Nat /\ n \in Nat
      /\ L_CUSTNAME = Len(text) + n
  BY LengthsAssumption DEF IsText
<1> HIDE DEF n
<1>2. fill \in Seq(Chars) /\ Len(fill) = n
  <2>1. fill = [k \in 1 .. n |-> Space]
    BY DEF Fill
  <2>2. Space \in Chars
    BY DEF Chars
  <2>3. fill \in [1 .. n -> Chars]
    BY <2>1, <2>2
  <2> HIDE DEF fill
  <2>4. fill \in Seq(Chars)
    BY <1>1, <2>3
  <2>5. DOMAIN fill = 1 .. n
    BY <2>3
  <2>6. DOMAIN fill = 1 .. Len(fill) /\ Len(fill) \in Nat
    BY <2>4
  <2>. QED
    BY <1>1, <2>4, <2>5, <2>6
<1> HIDE DEF fill
<1>3. /\ Len(text \o fill) = Len(text) + n
      /\ \A i \in 1 .. Len(text) : (text \o fill)[i] = text[i]
      /\ text \o fill \in Seq(Chars)
  BY <1>1, <1>2
<1> DEFINE padded == text \o fill
<1> HIDE DEF padded
<1>4. IsPrefix(text, padded)
  <2>1. Len(text) <= Len(padded)
    BY <1>1, <1>3 DEF padded
  <2>2. SubSeq(text, 1, Len(text)) = SubSeq(padded, 1, Len(text))
    <3>1. \A i \in 1 .. Len(text) : padded[i] = text[i]
      BY <1>3 DEF padded
    <3>2. padded \in Seq(Chars)
      BY <1>3 DEF padded
    <3>. QED
      BY <1>1, <2>1, <3>1, <3>2
  <2>. QED
    BY <2>1, <2>2 DEF IsPrefix
<1>. QED
  BY <1>1, <1>3, <1>4 DEF n, fill, padded

(* build_request, of a form whose entries are all linked.                  *)
LEMMA RequestMatches ==
  ASSUME FormCode, form \in FormNames, NEW v, Shaped(v), NEW tran,
         tran.tran_code = transaction.tran_code,
         \A k \in DOMAIN Forms[form] : Link(Forms[form][k], v[form][k], tran),
         form # "loginf" => /\ operator_num = v["loginf"][1]
                            /\ Len(operator_num) = L_OPERID
  PROVE  Matches(build_request(tran.tran_code, v, tran), v, form)
<1> DEFINE code == current_tran
           m == build_request(code, v, tran)
<1>1. /\ tran.tran_code = code /\ FormOf[code] = form
      /\ form = "loginf" <=> code = 1
      /\ form = "openf" <=> code = 2
      /\ form = "ainqf" <=> code = 3
      /\ form = "adepf" <=> code = 4
      /\ form = "acwdf" <=> code = 5
      /\ form = "atfrf" <=> code = 6
      /\ form = "closf" <=> code = 7
  BY CodeOfForm DEF FormCode
<1>2. /\ m.mtype = code
      /\ code = 1 => m.operator = v.loginf[1]
      /\ code # 1 => m.operator = operator_num
      /\ code = 1 => m.body = <<v.loginf[2]>>
      /\ code = 2 => m.body = <<v.openf[1], tran.tran_cust_name>>
      /\ code = 3 => m.body = v.ainqf
      /\ code = 4 => m.body = <<v.adepf[1], tran.tran_amount>>
      /\ code = 5 => m.body = <<v.acwdf[1], tran.tran_amount>>
      /\ code = 6 => m.body = <<v.atfrf[1], v.atfrf[2], tran.tran_amount>>
      /\ code = 7 => m.body = v.closf
  BY Codes17 DEF build_request
<1>3. /\ \A k \in DOMAIN Forms[form] :
            Forms[form][k] = "T_AMOUNT" =>
              tran.tran_amount = put_leading_zeros(v[form][k])
      /\ \A k \in DOMAIN Forms[form] :
            Forms[form][k] = "T_CUSTNAME" =>
              Len(tran.tran_cust_name) = L_CUSTNAME
                /\ IsPrefix(v[form][k], tran.tran_cust_name)
      /\ \A k \in DOMAIN Forms[form] :
            Forms[form][k] = "T_OPERID" => Len(v[form][k]) = L_OPERID
  BY Padding DEF Link
<1> HIDE DEF m
<1>4. m.operator = v.loginf[1] /\ Len(m.operator) = L_OPERID
  BY <1>1, <1>2, <1>3, FormFacts
<1>5. ASSUME NEW k \in DOMAIN Forms[form]
      PROVE  LET text == v[form][k]
                 sent == m.body[IF form = "loginf" THEN 1 ELSE k]
             IN  CASE Forms[form][k] = "T_AMOUNT" -> sent = put_leading_zeros(text)
                   [] Forms[form][k] = "T_CUSTNAME" ->
                        Len(sent) = L_CUSTNAME /\ IsPrefix(text, sent)
                   [] Forms[form][k] = "T_OPERID" -> m.operator = text
                   [] OTHER -> sent = text
  <2> HIDE DEF code
  <2>1. CASE form = "loginf"
    <3>1. k = 1 \/ k = 2
      BY <2>1, FormFacts
    <3>. QED
      BY <1>1, <1>2, <1>4, <2>1, <3>1, FormFacts
  <2>2. CASE form = "openf"
    <3>1. k = 1 \/ k = 2
      BY <2>2, FormFacts
    <3>2. m.body = <<v.openf[1], tran.tran_cust_name>>
      BY <1>1, <1>2, <2>2
    <3>. QED
      BY <1>3, <2>2, <3>1, <3>2, FormFacts
  <2>3. CASE form = "ainqf"
    <3>1. k = 1 /\ m.body = v.ainqf
      BY <1>1, <1>2, <2>3, FormFacts
    <3>. QED
      BY <2>3, <3>1, FormFacts
  <2>4. CASE form = "adepf"
    <3>1. /\ k = 1 \/ k = 2
          /\ m.body = <<v.adepf[1], tran.tran_amount>>
      BY <1>1, <1>2, <2>4, FormFacts
    <3>. QED
      BY <1>3, <2>4, <3>1, FormFacts
  <2>5. CASE form = "acwdf"
    <3>1. /\ k = 1 \/ k = 2
          /\ m.body = <<v.acwdf[1], tran.tran_amount>>
      BY <1>1, <1>2, <2>5, FormFacts
    <3>. QED
      BY <1>3, <2>5, <3>1, FormFacts
  <2>6. CASE form = "atfrf"
    <3>1. /\ k = 1 \/ k = 2 \/ k = 3
          /\ m.body = <<v.atfrf[1], v.atfrf[2], tran.tran_amount>>
      BY <1>1, <1>2, <2>6, FormFacts
    <3>. QED
      BY <1>3, <2>6, <3>1, FormFacts
  <2>7. CASE form = "closf"
    <3>1. k = 1 /\ m.body = v.closf
      BY <1>1, <1>2, <2>7, FormFacts
    <3>. QED
      BY <2>7, <3>1, FormFacts
  <2>. QED
    BY <2>1, <2>2, <2>3, <2>4, <2>5, <2>6, <2>7 DEF FormNames
<1>6. Matches(m, v, form)
  BY <1>1, <1>2, <1>4, <1>5 DEF Matches
<1>. QED
  BY <1>1, <1>6 DEF m

(* Ctrl-W.                                                                 *)
LEMMA ConfirmStep == FrontInv /\ Confirm => FrontInv'
<1> SUFFICES ASSUME FrontInv, Confirm
             PROVE  FrontInv'
  OBVIOUS
<1>1. /\ Entering
      /\ UNCHANGED <<form, at, current_tran, operator_num>>
  BY DEF Confirm
<1>2. PICK text \in Input(Forms[form][at], value[form][at]), sent \in BOOLEAN :
        LET done  == Checked(Forms[form][at], text)
            v     == [value EXCEPT ![form][at] = done.text]
            ready == done.good /\ all_field_entered(v[form])
        IN  /\ value' = v
            /\ waiting' = (ready /\ sent)
            /\ message' = IF ready
                 THEN build_request(done.tran.tran_code, v, done.tran)
                 ELSE message
            /\ transaction' = IF ready /\ ~ sent
                 THEN [done.tran EXCEPT !.tran_state = REJECT]
                 ELSE done.tran
  BY Zenon DEF Confirm
<1> DEFINE done  == Checked(Forms[form][at], text)
           v     == [value EXCEPT ![form][at] = done.text]
           ready == done.good /\ all_field_entered(v[form])
           refused == [done.tran EXCEPT !.tran_state = REJECT]
<1>3. /\ Shaped(v)
      /\ HasFields(done.tran)
      /\ done.tran.tran_code = transaction.tran_code
      /\ \A k \in DOMAIN Forms[form] :
           v[form][k] # <<>> /\ (k = at => done.good)
             => Link(Forms[form][k], v[form][k], done.tran)
      /\ \A g \in FormNames \ {form} : v[g] = value[g]
      /\ form \notin {"adepf", "acwdf", "atfrf"} => done.tran.tran_amount = <<>>
      /\ form # "openf" => done.tran.tran_cust_name = <<>>
  BY <1>1, TypedText
<1>4. /\ value' = v
      /\ waiting' = (ready /\ sent)
      /\ ready => message' = build_request(done.tran.tran_code, v, done.tran)
      /\ transaction' \in {done.tran, refused}
  BY <1>2
<1> HIDE DEF done, v
<1>5. /\ form \in FormNames /\ ~ waiting /\ at \in DOMAIN Forms[form]
  BY <1>1, FormFacts DEF FrontInv, ShapeInv, Entering
<1>6. /\ HasFields(transaction')
      /\ transaction'.tran_code = transaction.tran_code
      /\ transaction'.tran_amount = done.tran.tran_amount
      /\ transaction'.tran_cust_name = done.tran.tran_cust_name
      /\ transaction'.tran_operator_num = done.tran.tran_operator_num
  <2>1. /\ HasFields(refused)
        /\ refused.tran_code = done.tran.tran_code
        /\ refused.tran_amount = done.tran.tran_amount
        /\ refused.tran_cust_name = done.tran.tran_cust_name
        /\ refused.tran_operator_num = done.tran.tran_operator_num
    BY <1>3, FieldUpdates
  <2> HIDE DEF refused
  <2>. QED
    BY <1>3, <1>4, <2>1
<1>7. ready => /\ done.good
               /\ \A k \in DOMAIN Forms[form] : v[form][k] # <<>>
  <2>1. v[form] = [k \in DOMAIN Forms[form] |-> v[form][k]]
    BY <1>3, <1>5 DEF Shaped
  <2>. QED
    BY <2>1 DEF all_field_entered, ToSet
<1>8. ready => \A k \in DOMAIN Forms[form] :
                 Link(Forms[form][k], v[form][k], done.tran)
  BY <1>3, <1>7
<1> HIDE DEF ready
<1>9. ShapeInv'
  BY <1>1, <1>3, <1>4, <1>5, <1>6 DEF FrontInv, ShapeInv, ready
<1>10. FormCode'
  BY <1>1, <1>6 DEF FrontInv, FormCode
<1>11. Linked'
  <2>1. \A k \in DOMAIN Forms[form] :
           ready \/ (k # at /\ v[form][k] # <<>>) =>
             Link(Forms[form][k], v[form][k], done.tran)
    BY <1>3, <1>8
  <2>. QED
    BY <1>1, <1>4, <1>6, <2>1 DEF Linked, Link
<1>12. form # "loginf" => /\ operator_num = v["loginf"][1]
                          /\ Len(operator_num) = L_OPERID
  BY <1>3, <1>5 DEF FrontInv, LoggedIn, FormNames
<1>13. LoggedIn'
  BY <1>1, <1>4, <1>5, <1>12 DEF LoggedIn
<1>14. NothingLeft'
  BY <1>1, <1>3, <1>4, <1>6, FormFacts DEF FrontInv, NothingLeft
<1>15. waiting' => Matches(message', value', form')
  <2> SUFFICES ASSUME ready
               PROVE  Matches(message', v, form)
    BY <1>1, <1>4
  <2>1. Matches(build_request(done.tran.tran_code, v, done.tran), v, form)
    BY <1>3, <1>5, <1>8, <1>12, RequestMatches DEF FrontInv
  <2>. QED
    BY <1>4, <2>1
<1>16. SentAsShown' /\ (waiting => form \in FormNames)'
  <2>1. SentAsShown' <=> (waiting' => Matches(message', value', form'))
    BY DEF SentAsShown, Matches
  <2>. QED
    BY <1>1, <1>5, <1>15, <2>1
<1>. QED
  BY <1>9, <1>10, <1>11, <1>13, <1>14, <1>16 DEF FrontInv

(* A form left for the menu leaves nothing.                                *)
LEMMA LeaveFormStep ==
  ASSUME FrontInv, form \in FormNames \ {"loginf"}, LeaveForm,
         waiting' = FALSE, UNCHANGED operator_num
  PROVE  FrontInv'
<1>1. /\ form' = "menu" /\ at' = 1 /\ current_tran' = 0
      /\ value' = clear_form(form) /\ transaction' = reset_transaction
  BY DEF LeaveForm
<1> DEFINE w == clear_form(form)
<1>2. /\ Shaped(w)
      /\ ToSet(w[form]) = {<<>>}
      /\ \A g \in FormNames \ {form} : w[g] = value[g]
  BY ClearedForm DEF FrontInv, ShapeInv
<1> HIDE DEF w
<1>3. /\ HasFields(reset_transaction)
      /\ reset_transaction.tran_amount = <<>>
      /\ reset_transaction.tran_cust_name = <<>>
  BY DEF reset_transaction, HasFields
<1>4. ShapeInv'
  BY <1>1, <1>2, <1>3 DEF ShapeInv, FormNames, w
<1>5. FormCode' /\ Linked'
  BY <1>1 DEF FormCode, Linked, FormNames
<1>6. LoggedIn'
  <2>1. operator_num = value["loginf"][1] /\ Len(operator_num) = L_OPERID
    BY DEF FrontInv, LoggedIn, FormNames
  <2>2. w["loginf"] = value["loginf"]
    BY <1>2 DEF FormNames
  <2>. QED
    BY <1>1, <2>1, <2>2 DEF LoggedIn, w
<1>7. NothingLeft'
  <2>1. \A f \in FormNames \ {"loginf"} : ToSet(w[f]) = {<<>>}
    BY <1>2, FormFacts DEF FrontInv, NothingLeft
  <2>. QED
    BY <1>1, <1>3, <2>1, FormFacts DEF NothingLeft, w
<1>. QED
  BY <1>4, <1>5, <1>6, <1>7 DEF FrontInv, SentAsShown

(* ESC in a form.                                                          *)
LEMMA EscapeStep == FrontInv /\ Escape => FrontInv'
<1> SUFFICES ASSUME FrontInv, Escape
             PROVE  FrontInv'
  OBVIOUS
<1>1. /\ form \in FormNames /\ waiting = FALSE
      /\ UNCHANGED <<waiting, operator_num>>
  BY FormFacts DEF Escape, Entering, FrontInv, ShapeInv
<1>2. CASE form = "loginf"
  <2>1. form' = "exit" /\ UNCHANGED <<at, value, transaction, current_tran>>
    BY <1>2 DEF Escape
  <2>2. ShapeInv' /\ FormCode' /\ Linked' /\ LoggedIn'
    BY <1>1, <2>1 DEF FrontInv, ShapeInv, FormCode, Linked, LoggedIn, FormNames
  <2>3. NothingLeft'
    BY <1>2, <2>1, FormFacts DEF FrontInv, NothingLeft
  <2>. QED
    BY <1>1, <2>2, <2>3 DEF FrontInv, SentAsShown
<1>3. CASE form # "loginf"
  <2>1. LeaveForm
    BY <1>3 DEF Escape
  <2>. QED
    BY <1>1, <1>3, <2>1, LeaveFormStep
<1>. QED
  BY <1>2, <1>3

(* An answer.                                                              *)
LEMMA AnsweredStep == FrontInv /\ Answered => FrontInv'
<1> SUFFICES ASSUME FrontInv, Answered
             PROVE  FrontInv'
  OBVIOUS
<1>1. /\ waiting /\ waiting' = FALSE /\ form \in FormNames
  BY DEF Answered, FrontInv
<1>2. PICK code \in ResponseCodes :
        CASE code # ACCEPT ->
               /\ transaction' = [transaction EXCEPT !.tran_state = code]
               /\ UNCHANGED <<form, at, value, current_tran, operator_num>>
          [] code = ACCEPT /\ current_tran = OPER ->
               /\ transaction' = [transaction EXCEPT !.tran_state = code]
               /\ operator_num' = transaction.tran_operator_num
               /\ form' = "menu" /\ at' = 1
               /\ UNCHANGED <<value, current_tran>>
          [] OTHER -> LeaveForm /\ UNCHANGED operator_num
  BY Zenon DEF Answered
<1> DEFINE t == [transaction EXCEPT !.tran_state = code]
<1>3. /\ HasFields(t)
      /\ t.tran_code = transaction.tran_code
      /\ t.tran_cust_name = transaction.tran_cust_name
      /\ t.tran_operator_num = transaction.tran_operator_num
      /\ t.tran_amount = transaction.tran_amount
  BY FieldUpdates DEF FrontInv, ShapeInv
<1>4. CASE code # ACCEPT
  <2>1. transaction' = t
        /\ UNCHANGED <<form, at, value, current_tran, operator_num>>
    BY <1>2, <1>4
  <2> HIDE DEF t
  <2>2. ShapeInv' /\ FormCode' /\ LoggedIn'
    BY <1>1, <1>3, <2>1 DEF FrontInv, ShapeInv, FormCode, LoggedIn
  <2>3. Linked'
    BY <1>1, <1>3, <2>1 DEF FrontInv, Linked, Link
  <2>4. NothingLeft'
    BY <1>3, <2>1 DEF FrontInv, NothingLeft
  <2>. QED
    BY <1>1, <2>1, <2>2, <2>3, <2>4 DEF FrontInv, SentAsShown
<1>5. CASE code = ACCEPT /\ current_tran = OPER
  <2>1. /\ transaction' = t
        /\ operator_num' = transaction.tran_operator_num
        /\ form' = "menu" /\ at' = 1
        /\ UNCHANGED <<value, current_tran>>
    BY <1>2, <1>5
  <2> HIDE DEF t
  <2>2. form = "loginf"
    BY <1>1, <1>5, Codes17, CodeOfForm DEF FrontInv
  <2>3. ShapeInv' /\ FormCode' /\ Linked'
    BY <1>1, <1>3, <2>1 DEF FrontInv, ShapeInv, FormCode, Linked, FormNames
  <2>4. LoggedIn'
    <3>1. Link("T_OPERID", value["loginf"][1], transaction)
      BY <1>1, <2>2, FormFacts DEF FrontInv, Linked
    <3>. QED
      BY <2>1, <3>1 DEF LoggedIn, Link
  <2>5. NothingLeft'
    BY <1>3, <2>1, <2>2, FormFacts DEF FrontInv, NothingLeft
  <2>. QED
    BY <1>1, <2>1, <2>3, <2>4, <2>5 DEF FrontInv, SentAsShown
<1>6. CASE code = ACCEPT /\ current_tran # OPER
  <2>1. LeaveForm /\ UNCHANGED operator_num
    BY <1>2, <1>6
  <2>2. form # "loginf"
    BY <1>1, <1>6, Codes17, CodeOfForm DEF FrontInv
  <2>. QED
    BY <1>1, <2>1, <2>2, LeaveFormStep
<1>. QED
  BY <1>4, <1>5, <1>6

(* An option of the menu.                                                  *)
LEMMA ChooseStep == FrontInv /\ Choose => FrontInv'
<1> SUFFICES ASSUME FrontInv, Choose
             PROVE  FrontInv'
  OBVIOUS
<1>1. /\ form = "menu" /\ at' = 1
      /\ UNCHANGED <<waiting, value, operator_num>>
  BY DEF Choose
<1>2. PICK code \in Transactions :
        /\ form' = FormOf[code]
        /\ transaction' = [transaction EXCEPT !.tran_code = code]
        /\ current_tran' = code
  BY Zenon DEF Choose
<1>3. code \in 2 .. 7 /\ code \in OPER .. CLOS
  BY Codes17 DEF Transactions
<1>4. ~ waiting
  BY <1>1 DEF FrontInv, FormNames
<1>5. form' \in FormNames \ {"loginf"}
  <2>1. code = 2 \/ code = 3 \/ code = 4 \/ code = 5 \/ code = 6 \/ code = 7
    BY <1>3
  <2>. QED
    BY <1>2, <2>1, FormOfFacts DEF FormNames
<1> DEFINE t == [transaction EXCEPT !.tran_code = code]
<1>6. /\ HasFields(t) /\ t.tran_code = code
      /\ t.tran_cust_name = transaction.tran_cust_name
      /\ t.tran_amount = transaction.tran_amount
  <2>1. HasFields(transaction)
    BY DEF FrontInv, ShapeInv
  <2>. QED
    BY <2>1, FieldUpdates
<1>7. transaction' = t
  BY <1>2
<1> HIDE DEF t
<1>8. 1 \in DOMAIN Forms[form']
  BY <1>5, FormFacts DEF FormNames
<1>9. ShapeInv'
  BY <1>1, <1>5, <1>6, <1>7, <1>8 DEF FrontInv, ShapeInv
<1>10. FormCode'
  BY <1>2, <1>3, <1>6, <1>7 DEF FormCode
<1>11. \A f \in FormNames \ {"loginf"} : ToSet(value[f]) = {<<>>}
  BY <1>1, FormFacts DEF FrontInv, NothingLeft, FormNames
<1>12. Linked'
  <2>1. ASSUME NEW k \in DOMAIN Forms[form']
        PROVE  value[form'][k] = <<>>
    <3>1. value[form'] = [j \in DOMAIN Forms[form'] |-> value[form'][j]]
      BY <1>5 DEF FrontInv, ShapeInv, Shaped
    <3>2. ToSet(value[form']) = {<<>>}
      BY <1>5, <1>11
    <3>. QED
      BY <3>1, <3>2 DEF ToSet
  <2>. QED
    BY <1>1, <1>4, <2>1 DEF Linked
<1>13. LoggedIn'
  BY <1>1 DEF FrontInv, LoggedIn
<1>14. NothingLeft'
  BY <1>1, <1>6, <1>7, <1>11, FormFacts DEF FrontInv, NothingLeft
<1>. QED
  BY <1>1, <1>4, <1>9, <1>10, <1>12, <1>13, <1>14 DEF FrontInv, SentAsShown

(* ESC in the menu.                                                        *)
LEMMA LeaveMenuStep == FrontInv /\ LeaveMenu => FrontInv'
<1> SUFFICES ASSUME FrontInv, LeaveMenu
             PROVE  FrontInv'
  OBVIOUS
<1>1. /\ form = "menu" /\ form' = "loginf" /\ at' = 1
      /\ value' = clear_form("loginf")
      /\ transaction' = [transaction EXCEPT !.tran_code = OPER]
      /\ current_tran' = OPER
      /\ UNCHANGED <<waiting, operator_num>>
  BY DEF LeaveMenu
<1>2. ~ waiting
  BY <1>1 DEF FrontInv, FormNames
<1> DEFINE w == clear_form("loginf")
           t == [transaction EXCEPT !.tran_code = OPER]
<1>3. /\ Shaped(w)
      /\ \A k \in DOMAIN Forms["loginf"] : w["loginf"][k] = <<>>
      /\ \A g \in FormNames \ {"loginf"} : w[g] = value[g]
  BY ClearedForm DEF FrontInv, ShapeInv, FormNames
<1>4. /\ HasFields(t) /\ t.tran_code = OPER
      /\ t.tran_cust_name = transaction.tran_cust_name
      /\ t.tran_amount = transaction.tran_amount
  <2>1. HasFields(transaction)
    BY DEF FrontInv, ShapeInv
  <2>. QED
    BY <2>1, FieldUpdates
<1>5. value' = w /\ transaction' = t
  BY <1>1
<1> HIDE DEF w, t
<1>6. ShapeInv'
  <2>1. 1 \in DOMAIN Forms["loginf"]
    BY FormFacts
  <2>2. Shaped(value)' /\ HasFields(transaction)'
    BY <1>3, <1>4, <1>5 DEF Shaped, HasFields
  <2>3. waiting' \in BOOLEAN
    BY <1>1 DEF FrontInv, ShapeInv
  <2>. QED
    BY <1>1, <2>1, <2>2, <2>3 DEF ShapeInv, FormNames
<1>7. FormCode'
  BY <1>1, <1>4, <1>5, Codes17, FormOfFacts DEF FormCode
<1>8. Linked' /\ LoggedIn'
  BY <1>1, <1>2, <1>3, <1>5 DEF Linked, LoggedIn
<1>9. NothingLeft'
  <2>1. /\ transaction.tran_amount = <<>> /\ transaction.tran_cust_name = <<>>
        /\ \A g \in FormNames \ {"loginf"} : ToSet(value[g]) = {<<>>}
    BY <1>1, FormFacts DEF FrontInv, NothingLeft, FormNames
  <2>2. \A g \in FormNames \ {"loginf"} : ToSet(w[g]) = {<<>>}
    BY <1>3, <2>1
  <2>. QED
    BY <1>1, <1>4, <1>5, <2>1, <2>2, FormFacts DEF NothingLeft
<1>. QED
  BY <1>1, <1>2, <1>6, <1>7, <1>8, <1>9 DEF FrontInv, SentAsShown

(* The program ends in the menu.                                           *)
LEMMA CloseMenuStep == FrontInv /\ closemenu => FrontInv'
<1> SUFFICES ASSUME FrontInv, closemenu
             PROVE  FrontInv'
  OBVIOUS
<1>1. /\ form = "menu" /\ form' = "exit"
      /\ UNCHANGED <<at, waiting, value, transaction, current_tran, operator_num>>
  BY DEF closemenu
<1>2. ~ waiting
  BY <1>1 DEF FrontInv, FormNames
<1>3. ShapeInv' /\ FormCode' /\ Linked' /\ LoggedIn'
  BY <1>1 DEF FrontInv, ShapeInv, Shaped, HasFields, FormCode, Linked, LoggedIn,
     FormNames
<1>4. NothingLeft'
  BY <1>1, FormFacts DEF FrontInv, NothingLeft, FormNames
<1>. QED
  BY <1>1, <1>2, <1>3, <1>4 DEF FrontInv, SentAsShown

(* The program starts with empty forms.                                    *)
LEMMA FrontInvInit == Init => FrontInv
<1> SUFFICES ASSUME Init
             PROVE  FrontInv
  OBVIOUS
<1> DEFINE e(f) == [k \in DOMAIN Forms[f] |-> <<>>]
<1>1. value = [f \in FormNames |-> e(f)]
  BY FormFacts DEF Init
<1>2. ASSUME NEW f \in FormNames
      PROVE  /\ value[f] = e(f)
             /\ e(f) = [k \in DOMAIN Forms[f] |-> e(f)[k]]
             /\ \A k \in DOMAIN Forms[f] : e(f)[k] = <<>>
             /\ ToSet(e(f)) = {<<>>}
  <2>1. 1 \in DOMAIN Forms[f]
    BY FormFacts DEF FormNames
  <2>. QED
    BY <1>1, <2>1 DEF ToSet
<1> HIDE DEF e
<1>3. Shaped(value)
  BY <1>1, <1>2 DEF Shaped
<1>4. ShapeInv
  <2>1. HasFields(transaction)
    BY DEF Init, HasFields
  <2>2. /\ form \in FormNames /\ at \in DOMAIN Forms[form]
        /\ waiting \in BOOLEAN
    <3>1. form = "loginf" /\ at = 1 /\ waiting = FALSE
      BY DEF Init
    <3>2. 1 \in DOMAIN Forms["loginf"] /\ "loginf" \in FormNames
      BY FormFacts DEF FormNames
    <3>. QED
      BY <3>1, <3>2
  <2>. QED
    BY <1>3, <2>1, <2>2 DEF ShapeInv
<1>5. FormCode
  BY FormOfFacts, Codes17 DEF Init, FormCode
<1>6. Linked /\ LoggedIn
  BY <1>2 DEF Init, Linked, LoggedIn
<1>7. NothingLeft
  BY <1>2, FormFacts DEF Init, NothingLeft
<1>. QED
  BY <1>4, <1>5, <1>6, <1>7 DEF Init, FrontInv, SentAsShown

(* Every step keeps the invariant.                                         *)
LEMMA FrontInvStep == FrontInv /\ [Next]_vars => FrontInv'
<1> SUFFICES ASSUME FrontInv, [Next]_vars
             PROVE  FrontInv'
  OBVIOUS
<1>1. CASE UNCHANGED vars
  BY <1>1 DEF vars, FrontInv, ShapeInv, Shaped, HasFields, FormCode, Linked,
     Link, LoggedIn, NothingLeft, SentAsShown
<1>. QED
  BY <1>1, EnterStep, ConfirmStep, EscapeStep, AnsweredStep, ChooseStep,
     LeaveMenuStep, CloseMenuStep DEF Next

-----------------------------------------------------------------------------
(* Amounts that are entered.                                               *)
LEMMA CheckedAmount ==
  ASSUME HasFields(transaction), NEW text, NEW a, a = check_amount_format(text, 9)
  PROVE  /\ Checked("T_AMOUNT", text).good <=> a.code = AMT_OK
         /\ Checked("T_AMOUNT", text).text = a.text
         /\ a.code = AMT_OK =>
              Checked("T_AMOUNT", text).tran.tran_amount = put_leading_zeros(a.text)
         /\ Checked("T_AMOUNT", text).tran.tran_cust_name = transaction.tran_cust_name
         /\ Checked("T_AMOUNT", text).tran.tran_state = transaction.tran_state
         /\ a.code # AMT_OK => Checked("T_AMOUNT", text).tran = transaction
<1> DEFINE priced == [transaction EXCEPT !.tran_amount = put_leading_zeros(a.text)]
           done == Checked("T_AMOUNT", text)
<1>1. done = [good |-> a.code = AMT_OK, text |-> a.text,
              tran |-> IF a.code = AMT_OK THEN priced ELSE transaction]
  BY AmountLength DEF Checked
<1>2. /\ priced.tran_amount = put_leading_zeros(a.text)
      /\ priced.tran_cust_name = transaction.tran_cust_name
      /\ priced.tran_state = transaction.tran_state
  BY DEF HasFields
<1> HIDE DEF priced, done
<1>3. /\ done.good = (a.code = AMT_OK) /\ done.text = a.text
      /\ done.tran = IF a.code = AMT_OK THEN priced ELSE transaction
  BY <1>1
<1>. QED
  BY <1>2, <1>3 DEF done

(* The text typed into an amount has up to nine characters.                *)
LEMMA AmountText ==
  ASSUME NEW text, IsText(text, Length["T_AMOUNT"])
  PROVE  text \in Seq(Chars) /\ Len(text) <= 9
<1>1. Length["T_AMOUNT"] = 9
  BY AmountLength DEF Length
<1>. QED
  BY <1>1 DEF IsText

(* The characters of a text over S.                                        *)
LEMMA SetOfText ==
  ASSUME NEW S, NEW q \in Seq(S)
  PROVE  ToSet(q) \subseteq S
<1>1. DOMAIN q = 1 .. Len(q)
  OBVIOUS
<1>. QED
  BY <1>1, InText DEF ToSet

(* The two ways to say that an amount is neither zero nor too large.       *)
LEMMA RangeIs ==
  ASSUME NEW c
  PROVE  c \in 1 .. Largest <=> InRange(c)
<1>1. PICK m \in Nat : m = Largest
  BY DEF Largest
<1>2. c \in 1 .. m <=> c \in Nat /\ c # 0 /\ c <= m
  OBVIOUS
<1>3. c <= m <=> c <= 99999995
  BY <1>1, SMT DEF Largest
<1>. QED
  BY <1>1, <1>2, <1>3, SMT DEF InRange

(* Going over an amount again changes nothing.                             *)
LEMMA RecheckHolds ==
  ASSUME HasFields(transaction)
  PROVE  RecheckKeeps
<1>1. ASSUME NEW text, IsText(text, Length["T_AMOUNT"]),
             Checked("T_AMOUNT", text).good
      PROVE  LET done  == Checked("T_AMOUNT", text)
                 again == Checked("T_AMOUNT", done.text)
             IN  /\ again.good
                 /\ again.text = done.text
                 /\ again.tran.tran_amount = done.tran.tran_amount
  <2>1. PICK done : done = Checked("T_AMOUNT", text)
    OBVIOUS
  <2>2. PICK a : a = check_amount_format(text, 9)
    OBVIOUS
  <2>3. /\ a.code = AMT_OK /\ done.text = a.text
        /\ done.tran.tran_amount = put_leading_zeros(a.text)
    BY <1>1, <2>1, <2>2, CheckedAmount
  <2>4. Settled(a.text)
    BY <1>1, <2>2, <2>3, AmountText, AcceptedAgain
  <2>5. PICK x : x = a.text
    OBVIOUS
  <2>6. PICK b : b = check_amount_format(x, 9)
    OBVIOUS
  <2>7. b.code = AMT_OK /\ b.text = x
    BY <2>4, <2>5, <2>6 DEF Settled
  <2>8. /\ Checked("T_AMOUNT", x).good /\ Checked("T_AMOUNT", x).text = x
        /\ Checked("T_AMOUNT", x).tran.tran_amount = put_leading_zeros(x)
    BY <2>6, <2>7, CheckedAmount
  <2>. QED
    BY <2>1, <2>3, <2>5, <2>8
<1>. QED
  BY <1>1 DEF RecheckKeeps, Entered, Input

(* An amount is taken for what it says.                                    *)
LEMMA TakenHolds ==
  ASSUME HasFields(transaction)
  PROVE  AmountTaken
<1>1. ASSUME NEW text, IsText(text, Length["T_AMOUNT"]), ~ HasInnerBlank(text)
      PROVE  LET done == Checked("T_AMOUNT", text)
                 sent == done.tran.tran_amount
             IN  /\ done.good <=> IsAmount(text) /\ Cents(text) \in 1 .. Largest
                 /\ done.good =>
                      /\ Cents(done.text) = Cents(text)
                      /\ Spelt(sent) = Cents(text)
                      /\ Len(sent) = L_AMOUNT /\ ToSet(sent) \subseteq Digits
  <2>1. PICK done : done = Checked("T_AMOUNT", text)
    OBVIOUS
  <2>2. PICK a : a = check_amount_format(text, 9)
    OBVIOUS
  <2>3. PICK w : w = WithDecimals(Kept(text))
    OBVIOUS
  <2>4. /\ text \in Seq(Chars) /\ Len(text) <= 9
        /\ Space \notin ToSet(Stripped(text))
    BY <1>1, AmountText DEF HasInnerBlank
  <2>5. /\ done.good <=> a.code = AMT_OK
        /\ done.text = a.text
        /\ a.code = AMT_OK =>
             done.tran.tran_amount = put_leading_zeros(a.text)
    BY <2>1, <2>2, CheckedAmount
  <2>6. a.code = AMT_OK <=> IsAmount(text) /\ InRange(Cents(text))
    BY <2>2, <2>3, <2>4, TakenAsMeant
  <2>7. done.good <=> IsAmount(text) /\ Cents(text) \in 1 .. Largest
    BY <2>5, <2>6, RangeIs
  <2>8. ASSUME a.code = AMT_OK, NEW sent, sent = done.tran.tran_amount
        PROVE  /\ Cents(done.text) = Cents(text)
               /\ Spelt(sent) = Cents(text)
               /\ Len(sent) = L_AMOUNT /\ ToSet(sent) \subseteq Digits
    <3>1. PICK x, q : x = a.text /\ q = put_leading_zeros(x)
      OBVIOUS
    <3>2. done.text = x /\ sent = q
      BY <2>5, <2>8, <3>1
    <3>3. /\ Cents(x) = Cents(text)
          /\ q \in Seq(Digits) /\ Len(q) = 9 /\ Spelt(q) = Cents(text)
      BY <2>2, <2>4, <2>8, <3>1, AmountKept
    <3>4. ToSet(q) \subseteq Digits
      BY <3>3, SetOfText
    <3>. QED
      BY <3>2, <3>3, <3>4, AmountLength
  <2>. QED
    BY <2>1, <2>5, <2>7, <2>8
<1>. QED
  BY <1>1 DEF AmountTaken, Entered, Input

(* A balance is shown for what it is.                                      *)
ShownInv ==
  \/ shown = Blank
  \/ \E b \in Balances : shown = [balance |-> b, text |-> display_balance(b)]

(* The text shown for a balance of an answer says the balance.             *)
LEMMA BalanceHolds ==
  ASSUME ShownInv
  PROVE  BalanceShown
<1> SUFFICES ASSUME NEW b \in Balances,
                    shown = [balance |-> b, text |-> display_balance(b)]
             PROVE  BalanceShown
  BY DEF ShownInv, BalanceShown
<1>1. b \in Seq(Digits) /\ Len(b) = 9
  BY BalanceAssumption, AmountLength
<1>2. PICK t : t = display_balance(b)
  OBVIOUS
<1>3. shown.text = t /\ shown.balance = b
  BY <1>2
<1>4. PICK n \in 0 .. 6 : Shows(b, t, n)
  BY <1>1, <1>2, DisplayShows
<1>5. /\ Spelt(t) = Spelt(b)
      /\ ToSet(From(t, n + 1)) \subseteq Digits \cup {"."}
      /\ Decimals(t) = 2
      /\ t[n + 1] = "0" => n = 6
      /\ First({k \in 1 .. Len(t) : t[k] # Space}, Len(t)) = n + 1
  BY <1>1, <1>4, BalanceText
<1>6. PICK lead : lead = n + 1
  OBVIOUS
<1>7. Min({k \in 1 .. Len(t) : t[k] # Space} \cup {Len(t) + 1}) = lead
  BY <1>5, <1>6 DEF First
<1>8. /\ Spelt(t) = Spelt(b)
      /\ ToSet(From(t, lead)) \subseteq Digits \cup {"."}
      /\ Decimals(t) = 2
      /\ lead <= 7
      /\ t[lead] = "0" => lead = 7
  BY <1>5, <1>6
<1>. QED
  BY <1>3, <1>7, <1>8 DEF BalanceShown, FirstOf


-----------------------------------------------------------------------------
(* The types: every text fits its entry, and the transaction holds what is *)
(* as long as its fields.                                                  *)
TextsIn(v) ==
  \A f \in FormNames : \A k \in DOMAIN Forms[f] :
    IsText(v[f][k], Length[Forms[f][k]])

Filled(t) ==
  /\ t.tran_code \in 0 .. CLOS
  /\ IsText(t.tran_cust_name, L_CUSTNAME)
  /\ t.tran_state \in ResponseCodes \cup {2}
  /\ Len(t.tran_amount) \in {0, L_AMOUNT}

TypeInv ==
  /\ TextsIn(value)
  /\ Filled(transaction)
  /\ current_tran \in 0 .. CLOS
  /\ ShownInv

(* No text fits every entry.                                               *)
LEMMA NoText ==
  ASSUME NEW type \in EntryTypes
  PROVE  IsText(<<>>, Length[type])
<1>1. Length[type] \in Nat
  BY LengthsAssumption, AmountLength DEF Length, EntryTypes
<1>. QED
  BY <1>1 DEF IsText

(* A state or a code may change.                                           *)
LEMMA FilledFields ==
  ASSUME NEW t, HasFields(t), Filled(t)
  PROVE  /\ \A c \in ResponseCodes : Filled([t EXCEPT !.tran_state = c])
         /\ \A c \in 0 .. CLOS : Filled([t EXCEPT !.tran_code = c])
<1>1. ASSUME NEW c \in ResponseCodes
      PROVE  Filled([t EXCEPT !.tran_state = c])
  <2>1. PICK u : u = [t EXCEPT !.tran_state = c]
    OBVIOUS
  <2>2. /\ u.tran_code = t.tran_code /\ u.tran_cust_name = t.tran_cust_name
        /\ u.tran_amount = t.tran_amount /\ u.tran_state = c
    BY <2>1 DEF HasFields
  <2>. QED
    BY <2>1, <2>2 DEF Filled
<1>2. ASSUME NEW c \in 0 .. CLOS
      PROVE  Filled([t EXCEPT !.tran_code = c])
  <2>1. PICK u : u = [t EXCEPT !.tran_code = c]
    OBVIOUS
  <2>2. /\ u.tran_state = t.tran_state /\ u.tran_cust_name = t.tran_cust_name
        /\ u.tran_amount = t.tran_amount /\ u.tran_code = c
    BY <2>1 DEF HasFields
  <2>. QED
    BY <2>1, <2>2 DEF Filled
<1>. QED
  BY <1>1, <1>2

(* reset_transaction leaves a transaction with nothing in it.              *)
LEMMA FilledReset == Filled(reset_transaction)
<1>1. IsText(<<>>, L_CUSTNAME)
  BY LengthsAssumption DEF IsText
<1>. QED
  BY <1>1, Codes17 DEF Filled, reset_transaction

(* Whatever is typed and checked fits.                                     *)
LEMMA CheckedFits ==
  ASSUME HasFields(transaction), Filled(transaction), NEW type \in EntryTypes,
         NEW text, IsText(text, Length[type])
  PROVE  /\ IsText(Checked(type, text).text, Length[type])
         /\ Filled(Checked(type, text).tran)
<1>1. CASE type = "T_CUSTNAME"
  <2>1. PICK n, u : n = L_CUSTNAME - Len(text) /\ u = Fill(Space, n)
    OBVIOUS
  <2>2. PICK padded : padded = text \o u
    OBVIOUS
  <2>3. PICK t : t = [transaction EXCEPT !.tran_cust_name = padded]
    OBVIOUS
  <2>4. Checked(type, text).text = text /\ Checked(type, text).tran = t
    BY <1>1, <2>1, <2>2, <2>3 DEF Checked
  <2>5. text \in Seq(Chars) /\ Len(text) <= L_CUSTNAME /\ L_CUSTNAME \in Nat
    BY <1>1, LengthsAssumption DEF IsText, Length
  <2>6. n \in Nat /\ Len(text) + n = L_CUSTNAME
    BY <2>1, <2>5
  <2>7. u \in Seq(Chars) /\ Len(u) = n
    <3>1. Space \in Chars
      BY Zenon DEF Chars
    <3>. QED
      BY <2>1, <2>6, <3>1, FillFacts
  <2>8. padded \in Seq(Chars) /\ Len(padded) = Len(text) + Len(u)
    <3>1. text \in Seq(Chars) /\ u \in Seq(Chars)
      BY <2>5, <2>7
    <3>. QED
      BY <2>2, <3>1, Concatenated
  <2>9. IsText(padded, L_CUSTNAME)
    BY <2>5, <2>6, <2>7, <2>8 DEF IsText
  <2>10. /\ t.tran_code = transaction.tran_code
         /\ t.tran_state = transaction.tran_state
         /\ t.tran_amount = transaction.tran_amount /\ t.tran_cust_name = padded
    BY <2>3 DEF HasFields
  <2>11. Filled(t)
    BY <2>9, <2>10 DEF Filled
  <2>. QED
    BY <2>4, <2>11
<1>2. CASE type = "T_AMOUNT"
  <2>1. PICK a : a = check_amount_format(text, 9)
    OBVIOUS
  <2>2. PICK done : done = Checked("T_AMOUNT", text)
    OBVIOUS
  <2>3. /\ done.text = a.text
        /\ a.code = AMT_OK => done.tran.tran_amount = put_leading_zeros(a.text)
        /\ done.tran.tran_cust_name = transaction.tran_cust_name
        /\ done.tran.tran_state = transaction.tran_state
        /\ a.code # AMT_OK => done.tran = transaction
    BY <2>1, <2>2, CheckedAmount
  <2>4. done.tran.tran_code = transaction.tran_code
    BY <1>2, <2>2, CheckedLinks
  <2>5. text \in Seq(Chars)
    BY <1>2, AmountText
  <2>6. a.code = AMT_OK => Settled(a.text)
    BY <2>1, <2>5, AcceptedAgain
  <2>7. a.code # AMT_OK => a.text = text
    BY <2>1, <2>5, Accepted
  <2>8. CASE a.code = AMT_OK
    <3>1. PICK x, q : x = a.text /\ q = put_leading_zeros(x)
      OBVIOUS
    <3>2. x \in Seq(Chars) /\ Len(x) = 9
      BY <2>6, <2>8, <3>1 DEF Settled
    <3>3. Len(q) = 9
      <4>1. PICK m \in Nat : m = Len(x)
        BY <3>2
      <4>2. Len(q) = m
        BY <3>1, <4>1 DEF put_leading_zeros
      <4>. QED
        BY <3>2, <4>1, <4>2
    <3>4. IsText(x, Length["T_AMOUNT"])
      BY <3>2, AmountLength DEF IsText, Length
    <3>5. Filled(done.tran)
      BY <2>3, <2>4, <2>8, <3>1, <3>3, AmountLength DEF Filled
    <3>. QED
      BY <1>2, <2>2, <2>3, <3>1, <3>4, <3>5
  <2>9. CASE a.code # AMT_OK
    BY <1>2, <2>2, <2>3, <2>7, <2>9
  <2>. QED
    BY <2>8, <2>9
<1>3. CASE type \notin {"T_CUSTNAME", "T_AMOUNT"}
  <2>1. PICK t : t = [transaction EXCEPT !.tran_operator_num = text]
    OBVIOUS
  <2>2. /\ Checked(type, text).text = text
        /\ Checked(type, text).tran \in {t, transaction}
    BY <1>3, <2>1 DEF Checked
  <2>3. /\ t.tran_code = transaction.tran_code
        /\ t.tran_state = transaction.tran_state
        /\ t.tran_amount = transaction.tran_amount
        /\ t.tran_cust_name = transaction.tran_cust_name
    BY <2>1 DEF HasFields
  <2>4. Filled(t)
    BY <2>3 DEF Filled
  <2>. QED
    BY <2>2, <2>4
<1>. QED
  BY <1>1, <1>2, <1>3

(* A form that is cleared fits.                                            *)
LEMMA ClearedFits ==
  ASSUME Shaped(value), TextsIn(value), NEW f \in FormNames
  PROVE  TextsIn(clear_form(f))
<1>1. PICK w : w = clear_form(f)
  OBVIOUS
<1>2. /\ \A k \in DOMAIN Forms[f] : w[f][k] = <<>>
      /\ \A g \in FormNames \ {f} : w[g] = value[g]
  BY <1>1, ClearedForm
<1>3. \A g \in FormNames : \A k \in DOMAIN Forms[g] :
        IsText(w[g][k], Length[Forms[g][k]])
  <2> TAKE g \in FormNames
  <2> TAKE k \in DOMAIN Forms[g]
  <2>1. CASE g = f
    <3>1. Forms[g][k] \in EntryTypes
      BY TypesIn
    <3>. QED
      BY <1>2, <2>1, <3>1, NoText
  <2>2. CASE g # f
    BY <1>2, <2>2 DEF TextsIn
  <2>. QED
    BY <2>1, <2>2
<1>. QED
  BY <1>1, <1>3 DEF TextsIn


(* A text that is entered.                                                 *)
LEMMA EnteredFits ==
  ASSUME FrontInv, TypeInv, Entering,
         NEW text \in Input(Forms[form][at], value[form][at]),
         NEW done, done = Checked(Forms[form][at], text)
  PROVE  /\ TextsIn([value EXCEPT ![form][at] = done.text])
         /\ Filled(done.tran) /\ HasFields(done.tran)
<1>1. /\ form \in FormNames /\ at \in DOMAIN Forms[form]
      /\ Shaped(value) /\ HasFields(transaction)
  BY FormFacts DEF FrontInv, ShapeInv, Entering
<1>2. PICK type : type = Forms[form][at]
  OBVIOUS
<1>3. type \in EntryTypes /\ IsText(text, Length[type])
  BY <1>1, <1>2, TypesIn DEF Input
<1>4. IsText(done.text, Length[type]) /\ Filled(done.tran)
  BY <1>1, <1>2, <1>3, CheckedFits DEF TypeInv
<1>5. HasFields(done.tran)
  BY <1>1, <1>2, <1>3, CheckedLinks
<1>6. PICK x, v : x = done.text /\ v = [value EXCEPT ![form][at] = x]
  OBVIOUS
<1>7. /\ v[form][at] = x
      /\ \A j \in DOMAIN Forms[form] \ {at} : v[form][j] = value[form][j]
      /\ \A g \in FormNames \ {form} : v[g] = value[g]
  BY <1>1, <1>6, EntryUpdate
<1>8. TextsIn(v)
  <2>1. ASSUME NEW g \in FormNames, NEW k \in DOMAIN Forms[g]
        PROVE  IsText(v[g][k], Length[Forms[g][k]])
    <3>1. CASE g = form /\ k = at
      BY <1>2, <1>4, <1>6, <1>7, <3>1
    <3>2. CASE ~ (g = form /\ k = at)
      <4>1. v[g][k] = value[g][k]
        BY <1>7, <3>2
      <4>. QED
        BY <4>1 DEF TypeInv, TextsIn
    <3>. QED
      BY <3>1, <3>2
  <2>. QED
    BY <2>1 DEF TextsIn
<1>. QED
  BY <1>4, <1>5, <1>6, <1>8

(* The types at the start.                                                 *)
LEMMA TypeInvInit == Init => TypeInv
<1> SUFFICES ASSUME Init
             PROVE  TypeInv
  OBVIOUS
<1>1. \A f \in FormNames : \A k \in DOMAIN Forms[f] : value[f][k] = <<>>
  BY FormFacts DEF Init
<1>2. \A f \in FormNames : \A k \in DOMAIN Forms[f] : Forms[f][k] \in EntryTypes
  BY TypesIn
<1>3. TextsIn(value)
  BY <1>1, <1>2, NoText DEF TextsIn
<1>4. IsText(<<>>, L_CUSTNAME)
  BY LengthsAssumption DEF IsText
<1>5. Filled(transaction)
  BY <1>4, Codes17 DEF Init, Filled, ResponseCodes
<1>6. ShownInv
  BY DEF Init, ShownInv
<1>. QED
  BY <1>3, <1>5, <1>6, Codes17 DEF Init, TypeInv

(* A form that is left, for the menu or for login.                         *)
LEMMA LeftFits ==
  ASSUME FrontInv, TypeInv, form \in FormNames, LeaveForm
  PROVE  /\ TextsIn(value') /\ Filled(transaction') /\ current_tran' \in 0 .. CLOS
<1>1. /\ value' = clear_form(form) /\ transaction' = reset_transaction
      /\ current_tran' = 0
  BY DEF LeaveForm
<1>2. TextsIn(clear_form(form))
  BY ClearedFits DEF FrontInv, ShapeInv, TypeInv
<1>. QED
  BY <1>1, <1>2, FilledReset, Codes17

(* Every step keeps the types.                                             *)
LEMMA TypeInvStep ==
  ASSUME FrontInv, TypeInv, [Next]_vars
  PROVE  TypeInv'
<1>1. /\ HasFields(transaction) /\ Filled(transaction) /\ TextsIn(value)
      /\ current_tran \in 0 .. CLOS /\ ShownInv
  BY DEF FrontInv, ShapeInv, TypeInv
<1>2. shown' = Blank => ShownInv'
  BY DEF ShownInv
<1>3. CASE Enter
  <2>1. Entering /\ UNCHANGED current_tran /\ shown' = Blank
    BY <1>3 DEF Enter
  <2>2. PICK text \in Input(Forms[form][at], value[form][at]) :
          LET done == Checked(Forms[form][at], text)
          IN  /\ value' = [value EXCEPT ![form][at] = done.text]
              /\ transaction' = done.tran
    BY <1>3, Zenon DEF Enter
  <2>3. PICK done : done = Checked(Forms[form][at], text)
    OBVIOUS
  <2>4. /\ value' = [value EXCEPT ![form][at] = done.text]
        /\ transaction' = done.tran
    BY <2>2, <2>3
  <2>5. TextsIn(value') /\ Filled(transaction')
    BY <2>1, <2>3, <2>4, EnteredFits
  <2>. QED
    BY <1>1, <1>2, <2>1, <2>5 DEF TypeInv, TextsIn, Filled
<1>4. CASE Confirm
  <2>1. Entering /\ UNCHANGED current_tran /\ shown' = Blank
    BY <1>4 DEF Confirm
  <2>2. PICK text \in Input(Forms[form][at], value[form][at]) :
          LET done == Checked(Forms[form][at], text)
          IN  /\ value' = [value EXCEPT ![form][at] = done.text]
              /\ \/ transaction' = done.tran
                 \/ transaction' = [done.tran EXCEPT !.tran_state = REJECT]
    BY <1>4 DEF Confirm
  <2>3. PICK done : done = Checked(Forms[form][at], text)
    OBVIOUS
  <2>4. /\ value' = [value EXCEPT ![form][at] = done.text]
        /\ \/ transaction' = done.tran
           \/ transaction' = [done.tran EXCEPT !.tran_state = REJECT]
    BY <2>2, <2>3
  <2>5. TextsIn(value') /\ Filled(done.tran) /\ HasFields(done.tran)
    BY <2>1, <2>3, <2>4, EnteredFits
  <2>6. REJECT \in ResponseCodes
    BY DEF ResponseCodes
  <2>7. Filled([done.tran EXCEPT !.tran_state = REJECT])
    BY <2>5, <2>6, FilledFields
  <2>8. Filled(transaction')
    BY <2>4, <2>5, <2>7
  <2>. QED
    BY <1>1, <1>2, <2>1, <2>5, <2>8 DEF TypeInv, TextsIn, Filled
<1>5. CASE Escape
  <2>1. shown' = Blank /\ form \in FormNames
    BY <1>5, FormFacts DEF Escape, Entering
  <2>2. CASE form = "loginf"
    <3>1. UNCHANGED <<value, transaction, current_tran>>
      BY <1>5, <2>2 DEF Escape
    <3>. QED
      BY <1>1, <1>2, <2>1, <3>1 DEF TypeInv, TextsIn, Filled
  <2>3. CASE form # "loginf"
    <3>1. LeaveForm
      BY <1>5, <2>3 DEF Escape
    <3>2. TextsIn(value') /\ Filled(transaction') /\ current_tran' \in 0 .. CLOS
      BY <2>1, <3>1, LeftFits
    <3>. QED
      BY <1>2, <2>1, <3>2 DEF TypeInv, TextsIn, Filled
  <2>. QED
    BY <2>2, <2>3
<1>6. CASE Answered
  <2>1. form \in FormNames
    BY <1>6 DEF Answered, FrontInv
  <2>2. PICK code \in ResponseCodes, b \in Balances :
          /\ \/ shown' = [balance |-> b, text |-> display_balance(b)]
             \/ shown' = Blank
          /\ \/ /\ transaction' = [transaction EXCEPT !.tran_state = code]
                /\ UNCHANGED <<value, current_tran>>
             \/ LeaveForm
    BY <1>6, Zenon DEF Answered
  <2>3. ShownInv'
    BY <2>2 DEF ShownInv
  <2>4. CASE /\ transaction' = [transaction EXCEPT !.tran_state = code]
             /\ UNCHANGED <<value, current_tran>>
    <3>1. Filled([transaction EXCEPT !.tran_state = code])
      BY <1>1, FilledFields
    <3>. QED
      BY <1>1, <2>3, <2>4, <3>1 DEF TypeInv, TextsIn, Filled
  <2>5. CASE LeaveForm
    <3>1. TextsIn(value') /\ Filled(transaction') /\ current_tran' \in 0 .. CLOS
      BY <2>1, <2>5, LeftFits
    <3>. QED
      BY <2>3, <3>1 DEF TypeInv, TextsIn, Filled
  <2>. QED
    BY <2>2, <2>4, <2>5
<1>7. CASE Choose
  <2>1. PICK code \in Transactions :
          /\ transaction' = [transaction EXCEPT !.tran_code = code]
          /\ current_tran' = code
    BY <1>7, Zenon DEF Choose
  <2>2. shown' = Blank /\ UNCHANGED value
    BY <1>7 DEF Choose
  <2>3. code \in 0 .. CLOS
    BY Codes17 DEF Transactions
  <2>4. Filled([transaction EXCEPT !.tran_code = code])
    BY <1>1, <2>3, FilledFields
  <2>. QED
    BY <1>1, <1>2, <2>1, <2>2, <2>3, <2>4 DEF TypeInv, TextsIn, Filled
<1>8. CASE LeaveMenu
  <2>1. /\ value' = clear_form("loginf")
        /\ transaction' = [transaction EXCEPT !.tran_code = OPER]
        /\ current_tran' = OPER /\ shown' = Blank
    BY <1>8 DEF LeaveMenu
  <2>2. OPER \in 0 .. CLOS
    BY Codes17
  <2>3. Filled([transaction EXCEPT !.tran_code = OPER])
    BY <1>1, <2>2, FilledFields
  <2>4. TextsIn(clear_form("loginf"))
    BY <1>1, ClearedFits DEF FrontInv, ShapeInv, FormNames
  <2>. QED
    BY <1>2, <2>1, <2>2, <2>3, <2>4 DEF TypeInv, TextsIn, Filled
<1>9. CASE closemenu
  BY <1>1, <1>2, <1>9 DEF closemenu, TypeInv, TextsIn, Filled
<1>10. CASE UNCHANGED vars
  BY <1>10 DEF vars, TypeInv, TextsIn, Filled, ShownInv
<1>. QED
  BY <1>3, <1>4, <1>5, <1>6, <1>7, <1>8, <1>9, <1>10 DEF Next


-----------------------------------------------------------------------------
(* The two invariants together, and what they come to.                     *)
LEMMA Invariants == Spec => [](FrontInv /\ TypeInv)
<1>1. FrontInv /\ TypeInv /\ [Next]_vars => (FrontInv /\ TypeInv)'
  BY FrontInvStep, TypeInvStep
<1>. QED
  BY <1>1, FrontInvInit, TypeInvInit, PTL DEF Spec

(* Every text fits its entry and the fields of the transaction, and the    *)
(* cursor is in an entry of the form on the screen.                        *)
THEOREM FrontTyped == Spec => []TypeOK
<1>1. FrontInv /\ TypeInv => TypeOK
  BY FormFacts DEF FrontInv, ShapeInv, TypeInv, TextsIn, Filled, TypeOK
<1>. QED
  BY <1>1, Invariants, PTL

(* Whatever is typed, refused and typed again, the request that is out     *)
(* says what the form on the screen says (FRONT.C:208-247).                *)
THEOREM RequestsSayWhatIsShown == Spec => []SentAsShown
<1>1. FrontInv => SentAsShown
  BY DEF FrontInv
<1>. QED
  BY <1>1, FrontInvInit, FrontInvStep, PTL DEF Spec

(* Nothing of a transaction outlives its form, however the form is left.   *)
THEOREM FormsLeaveNothing == Spec => []NothingLeft
<1>1. FrontInv => NothingLeft
  BY DEF FrontInv
<1>. QED
  BY <1>1, FrontInvInit, FrontInvStep, PTL DEF Spec

(* Whatever is typed into the amount without a blank inside is taken if    *)
(* and only if it is an amount, not zero and not too large, and what is    *)
(* left in the field and sent are that amount (FRONT.C:467-619).           *)
THEOREM AmountsAreTaken == Spec => []AmountTaken
<1>1. FrontInv => AmountTaken
  BY TakenHolds DEF FrontInv, ShapeInv
<1>. QED
  BY <1>1, Invariants, PTL

(* Going over an accepted amount once more changes nothing.                *)
THEOREM AmountsAreKept == Spec => []RecheckKeeps
<1>1. FrontInv => RecheckKeeps
  BY RecheckHolds DEF FrontInv, ShapeInv
<1>. QED
  BY <1>1, Invariants, PTL

(* The balance on the screen is the one in the answer, whatever its nine   *)
(* digits are.                                                             *)
THEOREM BalancesAreShown == Spec => []BalanceShown
<1>1. TypeInv => BalanceShown
  BY BalanceHolds DEF TypeInv
<1>. QED
  BY <1>1, Invariants, PTL
=============================================================================
