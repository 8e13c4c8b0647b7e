---------------------------- MODULE ScreenProofs ----------------------------
(***************************************************************************)
(* Lemmas about the decoder of Screen.tla for a screen of any size and for *)
(* any bytes: what a byte does to the cursor, the attributes and the       *)
(* pages; that a byte does the same to two decoders that differ in the     *)
(* mosaic held only; and what going through a page again comes to.         *)
(***************************************************************************)
EXTENDS Screen, TLAPS, LeastNumber

AtFields == {"hidden", "lastesc", "chinese_special", "row", "col",
             "screen_size", "screen_mode", "alpha_color", "mosaic_color",
             "curr_bkg", "mosaic_type", "lastdouble", "flash", "lastchin",
             "hold_mosaic", "hold_mosaic_char"}
ScrFields == {"at", "conceal", "last_conceal", "view_conceal", "drawing",
              "draw_para_rxd", "page", "textpage"}

HasScr(s) == DOMAIN s = ScrFields /\ DOMAIN s.at = AtFields

(* t differs from s in the fields F at most.                               *)
Keeps(s, t, F)   == \A f \in ScrFields \ F : t[f] = s[f]
AtKeeps(a, b, F) == \A f \in AtFields \ F : b[f] = a[f]

LEMMA HomeFields ==
  /\ DOMAIN Home = AtFields
  /\ Cleared = AtFields \ {"hidden", "lastesc", "chinese_special", "row", "col"}
BY DEF Home, Cleared, AtFields

(* Both stay on the screen.                                                *)
LEMMA Wraparound ==
  ASSUME NEW n \in Nat, n > 0, NEW x \in Nat
  PROVE  x % n \in 0 .. n - 1
OBVIOUS

LEMMA ClearFacts ==
  ASSUME NEW s, HasScr(s),
         NEW t, t = clear_attributes(s)
  PROVE  /\ HasScr(t) /\ Keeps(s, t, {"at", "conceal"}) /\ ~t.conceal
         /\ \A f \in AtFields : t.at[f] = IF f \in Cleared THEN Home[f]
                                          ELSE s.at[f]
<1> DEFINE a == [f \in DOMAIN Home |-> IF f \in Cleared THEN Home[f] ELSE s.at[f]]
<1>1. clear_attributes(s) = [s EXCEPT !.at = a, !.conceal = FALSE]
  BY DEF clear_attributes
<1>2. DOMAIN a = AtFields
      /\ \A f \in AtFields : a[f] = IF f \in Cleared THEN Home[f] ELSE s.at[f]
  BY HomeFields
<1> HIDE DEF a
<1>. QED
  BY <1>1, <1>2 DEF HasScr, Keeps, ScrFields

LEMMA TextedFacts ==
  ASSUME NEW s, HasScr(s), NEW text,
         NEW t, t = Texted(s, text)
  PROVE  /\ HasScr(t) /\ Keeps(s, t, {"textpage"})
         /\ t.textpage = IF s.view_conceal THEN s.textpage
                         ELSE s.textpage \o text
BY DEF Texted, HasScr, Keeps, ScrFields

LEMMA PaintedFacts ==
  ASSUME NEW s, HasScr(s), NEW c,
         NEW t, t = Painted(s, c)
  PROVE  /\ HasScr(t) /\ Keeps(s, t, {"at"})
         /\ AtKeeps(s.at, t.at, {"hold_mosaic_char"})
BY DEF Painted, HasScr, Keeps, AtKeeps, ScrFields, AtFields

LEMMA DownFacts ==
  ASSUME NEW s, HasScr(s), NEW double,
         NEW t, t = Down(s, double)
  PROVE  /\ HasScr(t) /\ Keeps(s, t, {"at", "conceal"}) /\ ~t.conceal
         /\ t.at.row = (s.at.row + 1) % ROWS /\ t.at.hidden = double
         /\ t.at.col = s.at.col /\ t.at.lastesc = s.at.lastesc
         /\ t.at.chinese_special = s.at.chinese_special
         /\ \A f \in Cleared : t.at[f] = Home[f]
<1> DEFINE u == [s EXCEPT !.at.row = (@ + 1) % ROWS, !.at.hidden = double]
<1>1. /\ HasScr(u) /\ Keeps(s, u, {"at"})
      /\ u.at.row = (s.at.row + 1) % ROWS /\ u.at.hidden = double
      /\ u.at.col = s.at.col /\ u.at.lastesc = s.at.lastesc
      /\ u.at.chinese_special = s.at.chinese_special
  BY DEF HasScr, Keeps, ScrFields, AtFields
<1>2. t = clear_attributes(u)
  BY DEF Down
<1> HIDE DEF u
<1>3. /\ HasScr(t) /\ Keeps(u, t, {"at", "conceal"}) /\ ~t.conceal
      /\ \A f \in AtFields : t.at[f] = IF f \in Cleared THEN Home[f] ELSE u.at[f]
  BY <1>1, <1>2, ClearFacts
<1>4. Keeps(s, t, {"at", "conceal"})
  BY <1>1, <1>3 DEF Keeps
<1>5. /\ t.at["row"] = u.at.row /\ t.at["hidden"] = u.at.hidden
      /\ t.at["col"] = u.at.col /\ t.at["lastesc"] = u.at.lastesc
      /\ t.at["chinese_special"] = u.at.chinese_special
      /\ \A f \in Cleared : t.at[f] = Home[f]
  BY <1>3, HomeFields DEF AtFields
<1>. QED
  BY <1>1, <1>3, <1>4, <1>5

-----------------------------------------------------------------------------
(* What outchar does.                                                      *)
Next_(s, c) ==
  (s.at.col + IF s.at.screen_mode = "CHINESE" /\ charsend(s, c) # " "
              THEN 2 ELSE 1) % COLS

Wraps(s, c) == \/ Next_(s, c) = 0
               \/ s.at.screen_mode = "CHINESE" /\ Next_(s, c) = COLS - 1

Outchared(s, c, t) ==
  /\ HasScr(t) /\ Keeps(s, t, {"at", "conceal", "textpage"})
  /\ t.conceal = s.conceal \/ ~t.conceal
  /\ t.textpage = IF Next_(s, c) = 0 /\ ~s.view_conceal
                  THEN s.textpage \o <<"APD", "APR">> ELSE s.textpage
  /\ t.at.chinese_special = FALSE /\ t.at.lastesc = s.at.lastesc
  /\ Wraps(s, c) =>
       /\ t.at.row = (s.at.row + 1) % ROWS /\ t.at.col = 0
       /\ t.at.hidden = (s.at.screen_size = "DOUBLE" \/ s.at.lastdouble)
       /\ \A f \in Cleared : t.at[f] = Home[f]
  /\ ~Wraps(s, c) =>
       /\ t.at.col = Next_(s, c)
       /\ AtKeeps(s.at, t.at, {"col", "chinese_special", "hold_mosaic_char"})

LEMMA OutcharFacts ==
  ASSUME NEW s, HasScr(s), NEW c
  PROVE  Outchared(s, c, outchar(s, c))
<1>0. PICK high : high = (s.at.screen_size = "DOUBLE" \/ s.at.lastdouble)
  OBVIOUS
<1> DEFINE next   == Next_(s, c)
           moved  == [Painted(s, c) EXCEPT !.at.col = next,
                                           !.at.chinese_special = FALSE]
           first  == Down(Texted(moved, <<"APD", "APR">>), high)
           second == [Down(moved, high) EXCEPT !.at.col = 0]
<1>1. outchar(s, c) = IF next = 0 THEN first
                      ELSE IF s.at.screen_mode = "CHINESE" /\ next = COLS - 1
                      THEN second ELSE moved
  <2>1. outchar(s, c) =
          IF next = 0
          THEN Down(Texted(moved, <<"APD", "APR">>),
                    s.at.screen_size = "DOUBLE" \/ s.at.lastdouble)
          ELSE IF s.at.screen_mode = "CHINESE" /\ next = COLS - 1
          THEN [Down(moved, s.at.screen_size = "DOUBLE" \/ s.at.lastdouble)
                  EXCEPT !.at.col = 0]
          ELSE moved
    BY Zenon DEF outchar, Next_
  <2> HIDE DEF next, moved
  <2>. QED
    BY <1>0, <2>1, Zenon
<1>2. Wraps(s, c) <=> next = 0 \/ (s.at.screen_mode = "CHINESE" /\ next = COLS - 1)
  BY DEF Wraps
<1> HIDE DEF next
<1>3. /\ HasScr(moved) /\ Keeps(s, moved, {"at"})
      /\ moved.at.col = next /\ moved.at.chinese_special = FALSE
      /\ AtKeeps(s.at, moved.at, {"col", "chinese_special", "hold_mosaic_char"})
  <2> DEFINE p == Painted(s, c)
  <2>1. /\ HasScr(p) /\ Keeps(s, p, {"at"})
        /\ AtKeeps(s.at, p.at, {"hold_mosaic_char"})
    BY PaintedFacts
  <2>2. moved = [p EXCEPT !.at.col = next, !.at.chinese_special = FALSE]
    OBVIOUS
  <2> HIDE DEF p, moved
  <2>3. /\ HasScr(moved) /\ Keeps(p, moved, {"at"})
        /\ moved.at.col = next /\ moved.at.chinese_special = FALSE
        /\ AtKeeps(p.at, moved.at, {"col", "chinese_special"})
    BY <2>1, <2>2 DEF HasScr, Keeps, AtKeeps, ScrFields, AtFields
  <2>. QED
    BY <2>1, <2>3 DEF Keeps, AtKeeps
<1> HIDE DEF moved
<1>4. /\ moved.at.row = s.at.row /\ moved.at.lastesc = s.at.lastesc
      /\ moved.textpage = s.textpage /\ moved.view_conceal = s.view_conceal
      /\ moved.conceal = s.conceal
  BY <1>3 DEF Keeps, AtKeeps, ScrFields, AtFields
<1>5. next = 0 =>
        /\ HasScr(first) /\ Keeps(s, first, {"at", "conceal", "textpage"})
        /\ ~first.conceal
        /\ first.textpage = IF s.view_conceal THEN s.textpage
                            ELSE s.textpage \o <<"APD", "APR">>
        /\ first.at.row = (s.at.row + 1) % ROWS /\ first.at.hidden = high
        /\ first.at.col = 0 /\ first.at.lastesc = s.at.lastesc
        /\ first.at.chinese_special = FALSE
        /\ \A f \in Cleared : first.at[f] = Home[f]
  <2> DEFINE u == Texted(moved, <<"APD", "APR">>)
  <2>1. /\ HasScr(u) /\ Keeps(moved, u, {"textpage"})
        /\ u.textpage = IF moved.view_conceal THEN moved.textpage
                        ELSE moved.textpage \o <<"APD", "APR">>
    BY <1>3, TextedFacts
  <2> HIDE DEF u
  <2>2. u.at = moved.at
    BY <2>1 DEF Keeps, ScrFields
  <2>3. first = Down(u, high)
    BY DEF u
  <2> HIDE DEF first
  <2>4. /\ HasScr(first) /\ Keeps(u, first, {"at", "conceal"})
        /\ ~first.conceal
        /\ first.at.row = (u.at.row + 1) % ROWS /\ first.at.hidden = high
        /\ first.at.col = u.at.col /\ first.at.lastesc = u.at.lastesc
        /\ first.at.chinese_special = u.at.chinese_special
        /\ \A f \in Cleared : first.at[f] = Home[f]
    BY <2>1, <2>3, DownFacts
  <2>5. Keeps(s, first, {"at", "conceal", "textpage"})
    BY <1>3, <2>1, <2>4 DEF Keeps
  <2>6. first.textpage = u.textpage
    BY <2>4 DEF Keeps, ScrFields
  <2>. QED
    BY <1>3, <1>4, <2>1, <2>2, <2>4, <2>5, <2>6
<1>6. /\ HasScr(second) /\ Keeps(s, second, {"at", "conceal"})
      /\ ~second.conceal
      /\ second.at.row = (s.at.row + 1) % ROWS /\ second.at.hidden = high
      /\ second.at.col = 0 /\ second.at.lastesc = s.at.lastesc
      /\ second.at.chinese_special = FALSE
      /\ \A f \in Cleared : second.at[f] = Home[f]
  <2> DEFINE u == Down(moved, high)
  <2>1. /\ HasScr(u) /\ Keeps(moved, u, {"at", "conceal"}) /\ ~u.conceal
        /\ u.at.row = (s.at.row + 1) % ROWS /\ u.at.hidden = high
        /\ u.at.lastesc = s.at.lastesc /\ u.at.chinese_special = FALSE
        /\ \A f \in Cleared : u.at[f] = Home[f]
    <3>1. /\ HasScr(u) /\ Keeps(moved, u, {"at", "conceal"}) /\ ~u.conceal
          /\ u.at.row = (moved.at.row + 1) % ROWS /\ u.at.hidden = high
          /\ u.at.lastesc = moved.at.lastesc
          /\ u.at.chinese_special = moved.at.chinese_special
          /\ \A f \in Cleared : u.at[f] = Home[f]
      BY <1>3, DownFacts
    <3>. QED
      BY <1>3, <1>4, <3>1
  <2>2. second = [u EXCEPT !.at.col = 0]
    OBVIOUS
  <2> HIDE DEF u, second
  <2>3. /\ HasScr(second) /\ Keeps(u, second, {"at"}) /\ second.at.col = 0
        /\ AtKeeps(u.at, second.at, {"col"})
    BY <2>1, <2>2 DEF HasScr, Keeps, AtKeeps, ScrFields, AtFields
  <2>4. Keeps(s, second, {"at", "conceal"}) /\ ~second.conceal
    BY <1>3, <2>1, <2>3 DEF Keeps, ScrFields
  <2>. QED
    BY <2>1, <2>3, <2>4, HomeFields DEF AtKeeps, AtFields
<1> HIDE DEF first, second
<1>7. Keeps(s, outchar(s, c), {"at", "conceal", "textpage"})
  BY <1>1, <1>3, <1>5, <1>6 DEF Keeps
<1>8. second.textpage = s.textpage
  BY <1>6 DEF Keeps, ScrFields
<1>. QED
  BY <1>0, <1>1, <1>2, <1>3, <1>4, <1>5, <1>6, <1>7, <1>8 DEF next, Outchared

(* Two records of attributes that differ in the mosaic held only.          *)
Alike(a, b) == AtKeeps(a, b, {"hold_mosaic_char"})

(* Places where the difference cannot be seen: the width of a Chinese      *)
(* character depends on its being concealed.                               *)
Hiding(s) == s.conceal /\ ~s.last_conceal

(* The text pages are the same, unless t is only shown.                    *)
Sim(s, t) ==
  /\ HasScr(s) /\ HasScr(t) /\ Alike(s.at, t.at)
  /\ s.drawing = t.drawing /\ s.draw_para_rxd = t.draw_para_rxd
  /\ ~s.view_conceal
  /\ ~t.view_conceal => s.textpage = t.textpage

LEMMA OutcharAlike ==
  ASSUME NEW s, NEW t, Sim(s, t), NEW c, NEW d,
         \/ s.at.screen_mode # "CHINESE"
         \/ charsend(s, c) = " " <=> charsend(t, d) = " ",
         NEW u, u = outchar(s, c), NEW v, v = outchar(t, d)
  PROVE  Sim(u, v)
<1>0. HasScr(s) /\ HasScr(t)
  BY DEF Sim
<1>1. /\ s.at.screen_mode = t.at.screen_mode /\ s.at.col = t.at.col
      /\ s.at.row = t.at.row /\ s.at.screen_size = t.at.screen_size
      /\ s.at.lastdouble = t.at.lastdouble /\ s.at.lastesc = t.at.lastesc
  BY DEF Sim, Alike, AtKeeps, AtFields
<1>2. Next_(s, c) = Next_(t, d) /\ (Wraps(s, c) <=> Wraps(t, d))
  BY <1>1 DEF Next_, Wraps
<1>3. Outchared(s, c, u)
  BY <1>0, OutcharFacts
<1>4. Outchared(t, d, v)
  BY <1>0, OutcharFacts
<1> USE DEF Outchared
<1>5. Alike(u.at, v.at)
  <2>1. CASE Wraps(s, c)
    <3>1. \A f \in Cleared : v.at[f] = u.at[f]
      BY <1>2, <1>3, <1>4, <2>1
    <3>2. \A f \in {"row", "col", "hidden", "lastesc", "chinese_special"} :
            v.at[f] = u.at[f]
      BY <1>1, <1>2, <1>3, <1>4, <2>1
    <3>. QED
      BY <3>1, <3>2, HomeFields DEF Alike, AtKeeps
  <2>2. CASE ~Wraps(s, c)
    <3>1. v.at.col = u.at.col /\ v.at.chinese_special = u.at.chinese_special
      BY <1>2, <1>3, <1>4, <2>2
    <3>2. /\ AtKeeps(s.at, u.at, {"col", "chinese_special", "hold_mosaic_char"})
          /\ AtKeeps(t.at, v.at, {"col", "chinese_special", "hold_mosaic_char"})
      BY <1>2, <1>3, <1>4, <2>2
    <3>. QED
      BY <3>1, <3>2 DEF Sim, Alike, AtKeeps
  <2>. QED
    BY <2>1, <2>2
<1>6. /\ u.drawing = s.drawing /\ v.drawing = t.drawing
      /\ u.draw_para_rxd = s.draw_para_rxd /\ v.draw_para_rxd = t.draw_para_rxd
      /\ u.view_conceal = s.view_conceal /\ v.view_conceal = t.view_conceal
  BY <1>3, <1>4 DEF Keeps, ScrFields
<1>. QED
  BY <1>2, <1>3, <1>4, <1>5, <1>6 DEF Sim

-----------------------------------------------------------------------------
(* What the program keeps as a flag is one.                                *)
Flags(a) == /\ a.hidden \in BOOLEAN /\ a.lastesc \in BOOLEAN
            /\ a.chinese_special \in BOOLEAN /\ a.lastdouble \in BOOLEAN

(* The codes after ESC.                                                    *)
LEMMA EscapedFacts ==
  ASSUME NEW a, DOMAIN a = AtFields, NEW c, NEW e, e = Escaped(a, c)
  PROVE  /\ DOMAIN e = AtFields
         /\ \A f \in {"row", "col", "hidden", "lastesc", "lastchin",
                      "hold_mosaic_char"} : e[f] = a[f]
         /\ Flags(a) => Flags(e)
<1>1. /\ DOMAIN e = AtFields
      /\ \A f \in {"row", "col", "hidden", "lastesc", "lastchin",
                   "hold_mosaic_char"} : e[f] = a[f]
  BY DEF Escaped, Coloured, Colours, AtFields
<1>2. /\ e.lastdouble = a.lastdouble \/ e.lastdouble = TRUE
      /\ e.chinese_special = a.chinese_special \/ e.chinese_special = TRUE
  BY DEF Escaped, Coloured, Colours, AtFields
<1>. QED
  BY <1>1, <1>2 DEF Flags

LEMMA ColourNames ==
  DOMAIN Colours = {"ALPHA_RED", "ALPHA_WHITE", "MOSAIC_RED", "MOSAIC_WHITE",
                    "CHINESE_RED", "CHINESE_WHITE"}
BY DEF Colours

LEMMA EscapedAlike ==
  ASSUME NEW a, DOMAIN a = AtFields, NEW b, DOMAIN b = AtFields, Alike(a, b),
         NEW c
  PROVE  Alike(Escaped(a, c), Escaped(b, c))
<1>1. \A f \in AtFields \ {"hold_mosaic_char"} : b[f] = a[f]
  BY DEF Alike, AtKeeps
<1>2. CASE c \in DOMAIN Colours
  <2>1. /\ Escaped(a, c) = Coloured(a, c) /\ Escaped(b, c) = Coloured(b, c)
    BY <1>2, ColourNames DEF Escaped
  <2>2. Alike(Coloured(a, c), Coloured(b, c))
    BY <1>1 DEF Coloured, Alike, AtKeeps, AtFields
  <2>. QED
    BY <2>1, <2>2
<1>3. CASE c \notin DOMAIN Colours
  <2> USE <1>1, <1>3, ColourNames DEF Escaped, InForce, Alike, AtKeeps, AtFields
  <2>1. CASE c = "FLASH"  BY <2>1
  <2>2. CASE c = "STEADY"  BY <2>2
  <2>3. CASE c = "DOUBLE_HEIGHT"  BY <2>3
  <2>4. CASE c = "NORMAL_HEIGHT"  BY <2>4
  <2>5. CASE c = "CHINESE_SPECIAL"  BY <2>5
  <2>6. CASE c = "NEW_BKG"  BY <2>6
  <2>7. CASE c = "BLACK_BKG"  BY <2>7
  <2>8. CASE c = "CONT_MOSAIC"  BY <2>8
  <2>9. CASE c = "SEPA_MOSAIC"  BY <2>9
  <2>10. CASE c = "HOLD_MOSAIC"  BY <2>10
  <2>11. CASE c = "RELEASE_MOSAIC"  BY <2>11
  <2>12. CASE c \notin {"FLASH", "STEADY", "DOUBLE_HEIGHT",
                         "NORMAL_HEIGHT", "CHINESE_SPECIAL", "NEW_BKG",
                         "BLACK_BKG", "CONT_MOSAIC", "SEPA_MOSAIC",
                         "HOLD_MOSAIC", "RELEASE_MOSAIC"}
    BY <2>12
  <2>. QED
    BY <2>1, <2>2, <2>3, <2>4, <2>5, <2>6, <2>7, <2>8, <2>9, <2>10, <2>11, <2>12
<1>. QED
  BY <1>2, <1>3


-----------------------------------------------------------------------------
(* The cursor is on the screen; a drawing waits for as many arguments as   *)
(* it takes.                                                               *)
Sited(a) == a.row \in 0 .. ROWS - 1 /\ a.col \in 0 .. COLS - 1 /\ Flags(a)

Pending(s) == IF s.drawing = "none" THEN s.draw_para_rxd = 0
              ELSE /\ s.drawing \in Primitives
                   /\ s.draw_para_rxd \in 0 .. Arguments[s.drawing] - 1

(* The bytes that empty the page, and those that begin a drawing.          *)
Empties(s, c) == s.drawing = "none" /\ ~s.at.lastesc /\ c = "CS"
Begins(s, c)  == s.drawing = "none" /\ s.at.lastesc /\ c \in Drawings

(* What a byte does to a decoder that has put it on the page.              *)
Decoded(s, c, t) ==
  /\ HasScr(t) /\ t.view_conceal = s.view_conceal
  /\ Sited(s.at) => Sited(t.at)
  /\ ~s.at.chinese_special => ~t.at.chinese_special
  /\ Pending(s) => Pending(t)
  /\ t.conceal => \/ s.conceal
                  \/ s.drawing = "none" /\ s.at.lastesc /\ c = "CONCEAL"
  /\ t.at.lastesc <=> IF s.drawing = "none" THEN ~s.at.lastesc /\ c = "ESC"
                      ELSE s.at.lastesc
  /\ s.drawing = "none" => (t.drawing # "none" <=> Begins(s, c))
  /\ IF Empties(s, c)
     THEN /\ t.page = <<>> /\ t.textpage = <<>>
          /\ ~t.conceal /\ ~t.last_conceal
     ELSE /\ t.page = s.page /\ t.last_conceal = s.last_conceal
          /\ s.view_conceal => t.textpage = s.textpage

Handled(s, c) ==
  IF s.drawing # "none" THEN Parameter(s, c)
  ELSE IF s.at.lastesc THEN AfterEscape(s, c)
  ELSE IF c \in Controls THEN Control(s, c)
  ELSE Display(s, c)

Code(b) == IF b \in {"HIGH", "FF"} THEN "DEL" ELSE b

LEMMA CharinHandles ==
  ASSUME NEW s, NEW b
  PROVE  charin(s, b) = Handled(IF s.view_conceal THEN s ELSE Kept(s, Code(b)),
                                Code(b))
BY DEF charin, Handled, Code

LEMMA HomeFlags ==
  Flags(Home) /\ "lastdouble" \in Cleared
BY HomeFields DEF Home, Flags, AtFields

LEMMA OutcharSited ==
  ASSUME NEW s, HasScr(s), Sited(s.at), NEW c, NEW t, t = outchar(s, c)
  PROVE  Sited(t.at)
<1>1. Outchared(s, c, t)
  BY OutcharFacts
<1>2. s.at.row \in Nat /\ s.at.col \in Nat
  BY DEF Sited
<1>3. /\ ROWS \in Nat /\ COLS \in Nat /\ ROWS > 0 /\ COLS > 0
      /\ s.at.row + 1 \in Nat /\ s.at.col + 1 \in Nat /\ s.at.col + 2 \in Nat
  BY <1>2, SizeAssumption
<1>4. /\ (s.at.row + 1) % ROWS \in 0 .. ROWS - 1 /\ 0 \in 0 .. COLS - 1
      /\ Next_(s, c) \in 0 .. COLS - 1
  <2>1. \/ Next_(s, c) = (s.at.col + 1) % COLS
        \/ Next_(s, c) = (s.at.col + 2) % COLS
    BY DEF Next_
  <2>. QED
    BY <1>3, <2>1, Wraparound
<1>5. CASE Wraps(s, c)
  <2>1. /\ t.at.row = (s.at.row + 1) % ROWS /\ t.at.col = 0
        /\ t.at.lastesc = s.at.lastesc /\ t.at.chinese_special = FALSE
        /\ t.at["lastdouble"] = Home["lastdouble"]
        /\ t.at.hidden = (s.at.screen_size = "DOUBLE" \/ s.at.lastdouble)
    BY <1>1, <1>5, HomeFlags DEF Outchared
  <2>2. Flags(t.at)
    BY <2>1, HomeFlags DEF Flags, Sited
  <2>. QED
    BY <1>4, <2>1, <2>2 DEF Sited
<1>6. CASE ~Wraps(s, c)
  <2>1. /\ t.at.col = Next_(s, c)
        /\ AtKeeps(s.at, t.at, {"col", "chinese_special", "hold_mosaic_char"})
    BY <1>1, <1>6 DEF Outchared
  <2>2. t.at.row = s.at.row /\ t.at.lastesc = s.at.lastesc
        /\ t.at.hidden = s.at.hidden /\ t.at.lastdouble = s.at.lastdouble
    BY <2>1 DEF AtKeeps, AtFields
  <2>3. t.at.chinese_special = FALSE
    BY <1>1 DEF Outchared
  <2>4. Flags(t.at)
    BY <2>2, <2>3 DEF Flags, Sited
  <2>. QED
    BY <1>4, <2>1, <2>2, <2>4 DEF Sited
<1>. QED
  BY <1>5, <1>6

LEMMA ParameterDecoded ==
  ASSUME NEW s, HasScr(s), s.drawing # "none", NEW c
  PROVE  Decoded(s, c, Parameter(s, c))
<1> DEFINE t == Parameter(s, c)
<1>1. HasScr(t) /\ Keeps(s, t, {"drawing", "draw_para_rxd"})
  BY DEF Parameter, HasScr, Keeps, ScrFields
<1>2. ASSUME Pending(s)
      PROVE  Pending(t)
  <2>1. /\ s.drawing \in Primitives /\ Arguments[s.drawing] \in Nat \ {0}
        /\ s.draw_para_rxd \in 0 .. Arguments[s.drawing] - 1
    BY <1>2, ArgumentsAssumption DEF Pending
  <2>2. \/ t.drawing = s.drawing /\ t.draw_para_rxd = 0
        \/ t.drawing = "none" /\ t.draw_para_rxd = 0
        \/ /\ t.drawing = s.drawing /\ t.draw_para_rxd = s.draw_para_rxd + 1
           /\ s.draw_para_rxd + 1 # Arguments[s.drawing]
    BY DEF Parameter, HasScr, ScrFields
  <2> HIDE DEF t
  <2>. QED
    BY <2>1, <2>2 DEF Pending
<1> HIDE DEF t
<1>3. /\ t.at = s.at /\ t.page = s.page /\ t.textpage = s.textpage
      /\ t.conceal = s.conceal /\ t.last_conceal = s.last_conceal
      /\ t.view_conceal = s.view_conceal
  BY <1>1 DEF Keeps, ScrFields
<1>4. Decoded(s, c, t)
  BY <1>1, <1>2, <1>3 DEF Decoded, Empties
<1>. QED
  BY <1>4 DEF t

LEMMA DrawingNames ==
  /\ Primitives = {"LINE", "RECTANGLE", "POINT", "CIRCLE", "FILL", "ARC",
                   "INC_SET", "INC_LINE", "INC_POINT", "INC_ARC"}
  /\ Drawings = {"DRAW_LINE", "DRAW_RECTANGLE", "DRAW_POINT", "DRAW_CIRCLE",
                 "DRAW_FILL", "DRAW_ARC", "INCREMENTAL_SET", "INCREMENTAL_LINE",
                 "INCREMENTAL_POINT", "INCREMENTAL_ARC"}
  /\ \A c \in Drawings : \E p \in Primitives : Commands[p] = c
  /\ "none" \notin Primitives
<1>1. Primitives = {"LINE", "RECTANGLE", "POINT", "CIRCLE", "FILL", "ARC",
                    "INC_SET", "INC_LINE", "INC_POINT", "INC_ARC"}
  BY DEF Primitives, Commands
<1>. QED
  BY <1>1 DEF Drawings, Commands

(* The code after ESC, before the blank it is shown as.                    *)
LEMMA EscapeFacts ==
  ASSUME NEW s, HasScr(s), NEW c, NEW t, t = do_escape_seq(s, c)
  PROVE  /\ HasScr(t) /\ Keeps(s, t, {"at", "conceal", "drawing"})
         /\ t.at.row = s.at.row /\ t.at.col = s.at.col /\ ~t.at.lastesc
         /\ Flags(s.at) => Flags(t.at)
         /\ t.conceal => s.conceal \/ c = "CONCEAL"
         /\ IF c \in Drawings THEN t.drawing \in Primitives
            ELSE t.drawing = s.drawing
<1> DEFINE u == [s EXCEPT !.at.lastesc = FALSE]
           e == Escaped(u.at, c)
<1>1. /\ HasScr(u) /\ Keeps(s, u, {"at"}) /\ ~u.at.lastesc
      /\ u.at.row = s.at.row /\ u.at.col = s.at.col
      /\ Flags(s.at) => Flags(u.at)
  BY DEF HasScr, Keeps, ScrFields, AtFields, Flags
<1>2. do_escape_seq(s, c) =
        IF c \in Drawings
        THEN [u EXCEPT !.drawing = CHOOSE p \in Primitives : Commands[p] = c]
        ELSE IF c \in Changing
        THEN [u EXCEPT !.at = Escaped(@, c), !.conceal = @ \/ c = "CONCEAL"]
        ELSE Painted(u, "DEL")
  BY DEF do_escape_seq
<1> HIDE DEF u
<1>3. CASE c \in Drawings
  <2>1. PICK p : /\ p = CHOOSE q \in Primitives : Commands[q] = c
                 /\ p \in Primitives
    BY <1>3, DrawingNames
  <2>2. t = [u EXCEPT !.drawing = p]
    BY <1>2, <1>3, <2>1
  <2>. QED
    BY <1>1, <1>3, <2>1, <2>2 DEF HasScr, Keeps, ScrFields
<1>4. CASE c \notin Drawings /\ c \in Changing
  <2>1. t = [u EXCEPT !.at = e, !.conceal = @ \/ c = "CONCEAL"]
    BY <1>1, <1>2, <1>4 DEF HasScr, ScrFields
  <2>2. /\ DOMAIN e = AtFields /\ e.row = u.at.row /\ e.col = u.at.col
        /\ e.lastesc = u.at.lastesc /\ (Flags(u.at) => Flags(e))
    BY <1>1, EscapedFacts DEF HasScr
  <2> HIDE DEF e
  <2>3. PICK k : k = (u.conceal \/ c = "CONCEAL")
    OBVIOUS
  <2>4. t = [u EXCEPT !.at = e, !.conceal = k]
    BY <1>1, <2>1, <2>3 DEF HasScr, ScrFields
  <2>5. /\ HasScr(t) /\ Keeps(u, t, {"at", "conceal"}) /\ t.at = e
        /\ t.conceal = k
    BY <1>1, <2>2, <2>4 DEF HasScr, Keeps, ScrFields
  <2>6. t.conceal => s.conceal \/ c = "CONCEAL"
    BY <1>1, <2>3, <2>5 DEF Keeps, ScrFields
  <2>. QED
    BY <1>1, <1>4, <2>2, <2>5, <2>6 DEF Keeps, ScrFields
<1>5. CASE c \notin Drawings /\ c \notin Changing
  <2>1. t = Painted(u, "DEL")
    BY <1>2, <1>5
  <2>2. /\ HasScr(t) /\ Keeps(u, t, {"at"})
        /\ AtKeeps(u.at, t.at, {"hold_mosaic_char"})
    BY <1>1, <2>1, PaintedFacts
  <2>3. Flags(u.at) => Flags(t.at)
    BY <2>2 DEF Flags, AtKeeps, AtFields
  <2>. QED
    BY <1>1, <1>5, <2>2, <2>3 DEF Keeps, AtKeeps, ScrFields, AtFields
<1>. QED
  BY <1>3, <1>4, <1>5


LEMMA AfterEscapeDecoded ==
  ASSUME NEW s, HasScr(s), s.drawing = "none", s.at.lastesc, NEW c,
         NEW t, t = AfterEscape(s, c)
  PROVE  Decoded(s, c, t)
<1> DEFINE e == do_escape_seq(s, c)
           u == Texted(e, <<" ">>)
           x == IF u.at.screen_mode = "MOSAIC" /\ u.at.hold_mosaic
                THEN u.at.hold_mosaic_char ELSE " "
<1>1. /\ HasScr(e) /\ Keeps(s, e, {"at", "conceal", "drawing"})
      /\ e.at.row = s.at.row /\ e.at.col = s.at.col /\ ~e.at.lastesc
      /\ Flags(s.at) => Flags(e.at)
      /\ e.conceal => s.conceal \/ c = "CONCEAL"
      /\ IF c \in Drawings THEN e.drawing \in Primitives
         ELSE e.drawing = s.drawing
  BY EscapeFacts
<1> HIDE DEF e
<1>2. /\ HasScr(u) /\ Keeps(e, u, {"textpage"})
      /\ u.textpage = IF e.view_conceal THEN e.textpage
                      ELSE e.textpage \o <<" ">>
  BY <1>1, TextedFacts
<1>3. t = outchar(u, x)
  BY DEF AfterEscape, e
<1> HIDE DEF u, x
<1>4. Outchared(u, x, t)
  BY <1>2, <1>3, OutcharFacts
<1>5. /\ HasScr(t) /\ Keeps(u, t, {"at", "conceal", "textpage"})
      /\ t.conceal = u.conceal \/ ~t.conceal
      /\ u.view_conceal => t.textpage = u.textpage
      /\ ~t.at.chinese_special /\ t.at.lastesc = u.at.lastesc
  BY <1>4 DEF Outchared
<1>6. /\ u.at = e.at /\ u.conceal = e.conceal /\ u.drawing = e.drawing
      /\ u.draw_para_rxd = e.draw_para_rxd /\ u.view_conceal = e.view_conceal
      /\ u.page = e.page /\ u.last_conceal = e.last_conceal
  BY <1>2 DEF Keeps, ScrFields
<1>7. /\ e.draw_para_rxd = s.draw_para_rxd /\ e.view_conceal = s.view_conceal
      /\ e.page = s.page /\ e.last_conceal = s.last_conceal
      /\ e.textpage = s.textpage
  BY <1>1 DEF Keeps, ScrFields
<1>8. /\ t.drawing = u.drawing /\ t.draw_para_rxd = u.draw_para_rxd
      /\ t.view_conceal = u.view_conceal
      /\ t.page = u.page /\ t.last_conceal = u.last_conceal
  BY <1>5 DEF Keeps, ScrFields
<1>9. Sited(s.at) => Sited(t.at)
  <2>1. Sited(s.at) => Sited(u.at)
    BY <1>1, <1>6 DEF Sited
  <2>. QED
    BY <1>2, <1>3, <2>1, OutcharSited
<1>10. Pending(s) => Pending(t)
  <2>1. CASE c \in Drawings
    <3>1. t.drawing \in Primitives /\ t.drawing # "none"
      BY <1>1, <1>6, <1>8, <2>1, DrawingNames
    <3>2. Arguments[t.drawing] \in Nat \ {0}
      BY <3>1, ArgumentsAssumption
    <3>3. Pending(s) => t.draw_para_rxd = 0
      BY <1>6, <1>7, <1>8 DEF Pending
    <3>. QED
      BY <3>1, <3>2, <3>3 DEF Pending
  <2>2. CASE c \notin Drawings
    BY <1>1, <1>6, <1>7, <1>8, <2>2 DEF Pending
  <2>. QED
    BY <2>1, <2>2
<1>11. t.drawing # "none" <=> Begins(s, c)
  BY <1>1, <1>6, <1>8, DrawingNames DEF Begins
<1>12. t.conceal => s.conceal \/ c = "CONCEAL"
  BY <1>1, <1>5, <1>6
<1>13. ~t.at.lastesc
  BY <1>1, <1>5, <1>6
<1>14. /\ t.view_conceal = s.view_conceal /\ t.page = s.page
       /\ t.last_conceal = s.last_conceal
       /\ s.view_conceal => t.textpage = s.textpage
  BY <1>2, <1>5, <1>6, <1>7, <1>8
<1>15. ~Empties(s, c)
  BY DEF Empties
<1>16. ~s.at.chinese_special => ~t.at.chinese_special
  BY <1>5
<1>. QED
  BY <1>5, <1>9, <1>10, <1>11, <1>12, <1>13, <1>14, <1>15, <1>16 DEF Decoded

(* What moves the cursor or paints, and does no more.                      *)
LEMMA MoveDecoded ==
  ASSUME NEW s, HasScr(s), s.drawing = "none", ~s.at.lastesc,
         NEW c, c # "CS",
         NEW t, HasScr(t), Keeps(s, t, {"at", "conceal", "textpage"}),
         t.conceal => s.conceal,
         s.view_conceal => t.textpage = s.textpage,
         t.at.chinese_special => s.at.chinese_special,
         t.at.lastesc <=> c = "ESC",
         Sited(s.at) => Sited(t.at)
  PROVE  Decoded(s, c, t)
<1>1. /\ t.drawing = s.drawing /\ t.draw_para_rxd = s.draw_para_rxd
      /\ t.view_conceal = s.view_conceal
      /\ t.page = s.page /\ t.last_conceal = s.last_conceal
  BY DEF Keeps, ScrFields
<1>2. Pending(s) => Pending(t)
  BY <1>1 DEF Pending
<1>. QED
  BY <1>1, <1>2 DEF Decoded, Empties, Begins

(* What does no more than move the cursor.                                 *)
LEMMA SetDecoded ==
  ASSUME NEW s, HasScr(s), s.drawing = "none", ~s.at.lastesc,
         NEW c, c # "CS", c # "ESC",
         NEW t, HasScr(t), Keeps(s, t, {"at"}),
         AtKeeps(s.at, t.at, {"row", "col"}),
         Sited(s.at) => Sited(t.at)
  PROVE  Decoded(s, c, t)
<1>1. /\ Keeps(s, t, {"at", "conceal", "textpage"})
      /\ t.conceal = s.conceal /\ t.textpage = s.textpage
      /\ t.at.lastesc = s.at.lastesc
      /\ t.at.chinese_special = s.at.chinese_special
  BY DEF Keeps, AtKeeps, ScrFields, AtFields
<1>. QED
  BY <1>1, MoveDecoded

LEMMA BackFacts ==
  ASSUME NEW s, HasScr(s), NEW t, t = Back(s)
  PROVE  /\ HasScr(t) /\ Keeps(s, t, {"at"}) /\ AtKeeps(s.at, t.at, {"row", "col"})
         /\ t.at.col = IF s.at.col = 0 /\ s.at.row = 0 THEN s.at.col
                       ELSE (s.at.col + COLS - 1) % COLS
         /\ t.at.row = IF s.at.col = 0 /\ s.at.row # 0 THEN s.at.row - 1
                       ELSE s.at.row
<1>1. CASE s.at.col = 0 /\ s.at.row = 0
  BY <1>1 DEF Back, Keeps, AtKeeps
<1>2. CASE ~(s.at.col = 0 /\ s.at.row = 0)
  <2>1. PICK w : w = [s EXCEPT !.at.col = (@ + COLS - 1) % COLS]
    OBVIOUS
  <2>2. /\ HasScr(w) /\ Keeps(s, w, {"at"})
        /\ w.at.col = (s.at.col + COLS - 1) % COLS /\ AtKeeps(s.at, w.at, {"col"})
    BY <2>1 DEF HasScr, Keeps, AtKeeps, ScrFields, AtFields
  <2>3. PICK x : x = IF s.at.col = 0 THEN s.at.row - 1 ELSE s.at.row
    OBVIOUS
  <2>4. t = [s EXCEPT !.at.col = (@ + COLS - 1) % COLS, !.at.row = x]
    BY <1>2, <2>3 DEF Back
  <2>5. t = [w EXCEPT !.at.row = x]
    BY <2>1, <2>4
  <2>6. /\ HasScr(t) /\ Keeps(w, t, {"at"}) /\ t.at.row = x
        /\ AtKeeps(w.at, t.at, {"row"})
    BY <2>2, <2>5 DEF HasScr, Keeps, AtKeeps, ScrFields, AtFields
  <2>. QED
    BY <1>2, <2>2, <2>3, <2>6 DEF Keeps, AtKeeps, ScrFields, AtFields
<1>. QED
  BY <1>1, <1>2

LEMMA ForwardFacts ==
  ASSUME NEW s, HasScr(s), NEW t, t = Control(s, "APF")
  PROVE  /\ HasScr(t) /\ Keeps(s, t, {"at"}) /\ AtKeeps(s.at, t.at, {"row", "col"})
         /\ t.at.col = (s.at.col + 1) % COLS
         /\ t.at.row = IF s.at.col = COLS - 1 THEN (s.at.row + 1) % ROWS
                       ELSE s.at.row
<1>1. t = [s EXCEPT !.at.col = (@ + 1) % COLS,
             !.at.row = IF s.at.col = COLS - 1 THEN (@ + 1) % ROWS ELSE @]
  BY DEF Control
<1>2. PICK w : w = [s EXCEPT !.at.col = (@ + 1) % COLS]
  OBVIOUS
<1>3. /\ HasScr(w) /\ Keeps(s, w, {"at"})
      /\ w.at.col = (s.at.col + 1) % COLS /\ AtKeeps(s.at, w.at, {"col"})
  BY <1>2 DEF HasScr, Keeps, AtKeeps, ScrFields, AtFields
<1>4. PICK x : x = IF s.at.col = COLS - 1 THEN (s.at.row + 1) % ROWS
                   ELSE s.at.row
  OBVIOUS
<1>5. t = [s EXCEPT !.at.col = (@ + 1) % COLS, !.at.row = x]
  BY <1>1, <1>4
<1>6. t = [w EXCEPT !.at.row = x]
  BY <1>2, <1>5
<1>7. /\ HasScr(t) /\ Keeps(w, t, {"at"}) /\ t.at.row = x
      /\ AtKeeps(w.at, t.at, {"row"})
  BY <1>3, <1>6 DEF HasScr, Keeps, AtKeeps, ScrFields, AtFields
<1>. QED
  BY <1>3, <1>4, <1>7 DEF Keeps, AtKeeps, ScrFields, AtFields

LEMMA ControlDecoded ==
  ASSUME NEW s, HasScr(s), s.drawing = "none", ~s.at.lastesc,
         NEW c \in Controls, NEW t, t = Control(s, c)
  PROVE  Decoded(s, c, t)
<1>0. /\ ROWS \in Nat /\ COLS \in Nat /\ ROWS > 0 /\ COLS > 0
  BY SizeAssumption
<1>1. CASE c = "ESC"
  <2>1. t = [s EXCEPT !.at.lastesc = TRUE]
    BY <1>1 DEF Control
  <2>2. /\ HasScr(t) /\ Keeps(s, t, {"at", "conceal", "textpage"})
        /\ t.conceal = s.conceal /\ t.textpage = s.textpage
        /\ t.at.chinese_special = s.at.chinese_special /\ t.at.lastesc = TRUE
        /\ t.at.row = s.at.row /\ t.at.col = s.at.col
        /\ t.at.hidden = s.at.hidden /\ t.at.lastdouble = s.at.lastdouble
    BY <2>1 DEF HasScr, Keeps, ScrFields, AtFields
  <2>3. Sited(s.at) => Sited(t.at)
    BY <2>2 DEF Sited, Flags
  <2>. QED
    BY <1>1, <2>2, <2>3, MoveDecoded
<1>2. CASE c = "APB"
  <2>1. t = Back(s)
    BY <1>2 DEF Control
  <2>2. /\ HasScr(t) /\ Keeps(s, t, {"at"}) /\ AtKeeps(s.at, t.at, {"row", "col"})
        /\ t.at.col = s.at.col \/ t.at.col = (s.at.col + COLS - 1) % COLS
        /\ \/ t.at.row = s.at.row
           \/ t.at.row = s.at.row - 1 /\ s.at.row # 0
    BY <2>1, BackFacts
  <2>3. ASSUME Sited(s.at)
        PROVE  Sited(t.at)
    <3>1. s.at.row \in 0 .. ROWS - 1 /\ s.at.col \in 0 .. COLS - 1
      BY <2>3 DEF Sited
    <3>2. s.at.col + COLS - 1 \in Nat
      BY <1>0, <3>1
    <3>3. (s.at.col + COLS - 1) % COLS \in 0 .. COLS - 1
      BY <1>0, <3>2, Wraparound
    <3>4. s.at.row # 0 => s.at.row - 1 \in 0 .. ROWS - 1
      BY <1>0, <3>1
    <3>5. Flags(t.at)
      BY <2>2, <2>3 DEF Sited, Flags, AtKeeps, AtFields
    <3>. QED
      BY <2>2, <3>1, <3>3, <3>4, <3>5 DEF Sited
  <2>. QED
    BY <1>2, <2>2, <2>3, SetDecoded
<1>3. CASE c = "APF"
  <2>2. /\ HasScr(t) /\ Keeps(s, t, {"at"}) /\ AtKeeps(s.at, t.at, {"row", "col"})
        /\ t.at.col = (s.at.col + 1) % COLS
        /\ t.at.row = (s.at.row + 1) % ROWS \/ t.at.row = s.at.row
    BY <1>3, ForwardFacts
  <2>3. ASSUME Sited(s.at)
        PROVE  Sited(t.at)
    <3>1. s.at.row + 1 \in Nat /\ s.at.col + 1 \in Nat
      BY <2>3 DEF Sited
    <3>2. /\ (s.at.col + 1) % COLS \in 0 .. COLS - 1
          /\ (s.at.row + 1) % ROWS \in 0 .. ROWS - 1
      BY <1>0, <3>1, Wraparound
    <3>3. Flags(t.at)
      BY <2>2, <2>3 DEF Sited, Flags, AtKeeps, AtFields
    <3>. QED
      BY <2>2, <2>3, <3>2, <3>3 DEF Sited
  <2>. QED
    BY <1>3, <2>2, <2>3, SetDecoded
<1>4. CASE c = "APD"
  <2> DEFINE u == Texted(s, <<c>>)
  <2>1. PICK double : double = s.at.lastdouble
    OBVIOUS
  <2>2. t = Down(u, double)
    BY <1>4, <2>1 DEF Control
  <2>3. /\ HasScr(u) /\ Keeps(s, u, {"textpage"})
        /\ s.view_conceal => u.textpage = s.textpage
    BY TextedFacts
  <2> HIDE DEF u
  <2>4. u.at = s.at /\ u.conceal = s.conceal
    BY <2>3 DEF Keeps, ScrFields
  <2>5. /\ HasScr(t) /\ Keeps(u, t, {"at", "conceal"}) /\ ~t.conceal
        /\ t.at.row = (u.at.row + 1) % ROWS /\ t.at.col = u.at.col
        /\ t.at.lastesc = u.at.lastesc /\ t.at.hidden = double
        /\ t.at.chinese_special = u.at.chinese_special
        /\ t.at["lastdouble"] = Home["lastdouble"]
    BY <2>2, <2>3, DownFacts, HomeFlags
  <2>6. /\ Keeps(s, t, {"at", "conceal", "textpage"})
        /\ t.textpage = u.textpage
    BY <2>3, <2>5 DEF Keeps, ScrFields
  <2>7. ASSUME Sited(s.at)
        PROVE  Sited(t.at)
    <3>1. s.at.row + 1 \in Nat
      BY <2>7 DEF Sited
    <3>2. (s.at.row + 1) % ROWS \in 0 .. ROWS - 1
      BY <1>0, <3>1, Wraparound
    <3>3. Flags(t.at)
      BY <2>1, <2>4, <2>5, <2>7, HomeFlags DEF Sited, Flags
    <3>. QED
      BY <2>4, <2>5, <2>7, <3>2, <3>3 DEF Sited
  <2>. QED
    BY <1>4, <2>3, <2>4, <2>5, <2>6, <2>7, MoveDecoded
<1>5. CASE c = "APU"
  <2>1. PICK u : u = [s EXCEPT !.at.row = (@ + ROWS - 1) % ROWS,
                               !.at.hidden = s.at.lastdouble]
    OBVIOUS
  <2>2. /\ HasScr(u) /\ Keeps(s, u, {"at"})
        /\ u.at.row = (s.at.row + ROWS - 1) % ROWS
        /\ u.at.hidden = s.at.lastdouble
        /\ AtKeeps(s.at, u.at, {"row", "hidden"})
    BY <2>1 DEF HasScr, Keeps, AtKeeps, ScrFields, AtFields
  <2>3. t = clear_attributes(u)
    BY <1>5, <2>1 DEF Control
  <2>4. /\ HasScr(t) /\ Keeps(u, t, {"at", "conceal"}) /\ ~t.conceal
        /\ \A f \in AtFields : t.at[f] = IF f \in Cleared THEN Home[f]
                                         ELSE u.at[f]
    BY <2>2, <2>3, ClearFacts
  <2>5. /\ t.at["row"] = u.at.row /\ t.at["col"] = s.at.col
        /\ t.at["lastesc"] = s.at.lastesc
        /\ t.at["chinese_special"] = s.at.chinese_special
        /\ t.at["hidden"] = s.at.lastdouble
        /\ t.at["lastdouble"] = Home["lastdouble"]
    BY <2>2, <2>4, HomeFields DEF AtFields, AtKeeps
  <2>6. /\ Keeps(s, t, {"at", "conceal", "textpage"})
        /\ t.textpage = s.textpage
    BY <2>2, <2>4 DEF Keeps, ScrFields
  <2>7. ASSUME Sited(s.at)
        PROVE  Sited(t.at)
    <3>1. s.at.row + ROWS - 1 \in Nat
      BY <1>0, <2>7 DEF Sited
    <3>2. (s.at.row + ROWS - 1) % ROWS \in 0 .. ROWS - 1
      BY <1>0, <3>1, Wraparound
    <3>3. Flags(t.at)
      BY <2>5, <2>7, HomeFlags DEF Sited, Flags
    <3>. QED
      BY <2>2, <2>5, <2>7, <3>2, <3>3 DEF Sited
  <2>. QED
    BY <1>5, <2>4, <2>5, <2>6, <2>7, MoveDecoded
<1>6. CASE c = "CS"
  <2>1. PICK u : u = clear_attributes(s)
    OBVIOUS
  <2>2. /\ HasScr(u) /\ Keeps(s, u, {"at", "conceal"}) /\ ~u.conceal
        /\ \A f \in AtFields : u.at[f] = IF f \in Cleared THEN Home[f]
                                         ELSE s.at[f]
    BY <2>1, ClearFacts
  <2>3. /\ u.at["lastesc"] = s.at.lastesc
        /\ u.at["chinese_special"] = s.at.chinese_special
        /\ u.at["hidden"] = s.at.hidden
        /\ u.at["lastdouble"] = Home["lastdouble"]
    BY <2>2, HomeFields DEF AtFields
  <2>4. t = [u EXCEPT !.at.row = 0, !.at.col = 0, !.last_conceal = FALSE,
                      !.page = <<>>, !.textpage = <<>>]
    BY <1>6, <2>1 DEF Control, ClearScreen
  <2>5. /\ HasScr(t) /\ t.conceal = u.conceal /\ ~t.last_conceal
        /\ t.page = <<>> /\ t.textpage = <<>> /\ t.drawing = u.drawing
        /\ t.draw_para_rxd = u.draw_para_rxd /\ t.view_conceal = u.view_conceal
        /\ t.at.row = 0 /\ t.at.col = 0 /\ t.at.lastesc = u.at.lastesc
        /\ t.at.chinese_special = u.at.chinese_special
        /\ t.at.hidden = u.at.hidden /\ t.at.lastdouble = u.at.lastdouble
    <3>1. PICK w : w = [u EXCEPT !.at.row = 0, !.at.col = 0]
      OBVIOUS
    <3>2. /\ HasScr(w) /\ Keeps(u, w, {"at"}) /\ w.at.row = 0 /\ w.at.col = 0
          /\ w.at.lastesc = u.at.lastesc
          /\ w.at.chinese_special = u.at.chinese_special
          /\ w.at.hidden = u.at.hidden /\ w.at.lastdouble = u.at.lastdouble
      BY <2>2, <3>1 DEF HasScr, Keeps, ScrFields, AtFields
    <3>3. t = [w EXCEPT !.last_conceal = FALSE, !.page = <<>>, !.textpage = <<>>]
      BY <2>4, <3>1
    <3>4. HasScr(t) /\ Keeps(w, t, {"last_conceal", "page", "textpage"})
          /\ t.at = w.at /\ ~t.last_conceal /\ t.page = <<>> /\ t.textpage = <<>>
      BY <3>2, <3>3 DEF HasScr, Keeps, ScrFields
    <3>. QED
      BY <3>2, <3>4 DEF Keeps, ScrFields
  <2>6. /\ u.drawing = s.drawing /\ u.draw_para_rxd = s.draw_para_rxd
        /\ u.view_conceal = s.view_conceal
    BY <2>2 DEF Keeps, ScrFields
  <2>7. (Sited(s.at) => Sited(t.at)) /\ (Pending(s) => Pending(t))
    BY <1>0, <2>3, <2>5, <2>6, HomeFlags DEF Sited, Pending, Flags
  <2>. QED
    BY <1>6, <2>2, <2>3, <2>5, <2>6, <2>7 DEF Decoded, Empties, Begins
<1>7. CASE c = "APR"
  <2>1. PICK u : u = Texted(s, <<c>>)
    OBVIOUS
  <2>2. /\ HasScr(u) /\ Keeps(s, u, {"textpage"})
        /\ s.view_conceal => u.textpage = s.textpage
    BY <2>1, TextedFacts
  <2>3. t = [u EXCEPT !.at.col = 0]
    BY <1>7, <2>1 DEF Control
  <2>4. /\ HasScr(t) /\ Keeps(u, t, {"at"}) /\ t.at.col = 0
        /\ AtKeeps(u.at, t.at, {"col"})
    BY <2>2, <2>3 DEF HasScr, Keeps, AtKeeps, ScrFields, AtFields
  <2>5. /\ Keeps(s, t, {"at", "conceal", "textpage"}) /\ u.at = s.at
        /\ t.textpage = u.textpage /\ t.conceal = s.conceal
    BY <2>2, <2>4 DEF Keeps, ScrFields
  <2>6. /\ t.at.row = s.at.row /\ t.at.lastesc = s.at.lastesc
        /\ t.at.chinese_special = s.at.chinese_special
    BY <2>4, <2>5 DEF AtKeeps, AtFields
  <2>7. Flags(s.at) => Flags(t.at)
    BY <2>4, <2>5 DEF Flags, AtKeeps, AtFields
  <2>8. Sited(s.at) => Sited(t.at)
    BY <1>0, <2>4, <2>6, <2>7 DEF Sited
  <2>. QED
    BY <1>7, <2>2, <2>4, <2>5, <2>6, <2>8, MoveDecoded
<1>8. CASE c = "APH"
  <2>1. PICK u : u = [s EXCEPT !.at.row = 0, !.at.col = 0]
    OBVIOUS
  <2>2. /\ HasScr(u) /\ Keeps(s, u, {"at"}) /\ u.at.row = 0 /\ u.at.col = 0
        /\ AtKeeps(s.at, u.at, {"row", "col"})
    BY <2>1 DEF HasScr, Keeps, AtKeeps, ScrFields, AtFields
  <2>3. t = clear_attributes(u)
    BY <1>8, <2>1 DEF Control
  <2>4. /\ HasScr(t) /\ Keeps(u, t, {"at", "conceal"}) /\ ~t.conceal
        /\ \A f \in AtFields : t.at[f] = IF f \in Cleared THEN Home[f]
                                         ELSE u.at[f]
    BY <2>2, <2>3, ClearFacts
  <2>5. /\ t.at["row"] = 0 /\ t.at["col"] = 0
        /\ t.at["lastesc"] = s.at.lastesc
        /\ t.at["chinese_special"] = s.at.chinese_special
        /\ t.at["hidden"] = s.at.hidden
        /\ t.at["lastdouble"] = Home["lastdouble"]
    BY <2>2, <2>4, HomeFields DEF AtFields, AtKeeps
  <2>6. /\ Keeps(s, t, {"at", "conceal", "textpage"})
        /\ t.textpage = s.textpage
    BY <2>2, <2>4 DEF Keeps, ScrFields
  <2>7. Sited(s.at) => Sited(t.at)
    BY <1>0, <2>5, HomeFlags DEF Sited, Flags
  <2>. QED
    BY <1>8, <2>4, <2>5, <2>6, <2>7, MoveDecoded
<1>9. CASE c \in {"DC_ON", "DC_OFF", "NUL", "ENQ"}
  <2>1. t = s
    BY <1>9 DEF Control
  <2>2. HasScr(t) /\ Keeps(s, t, {"at", "conceal", "textpage"})
    BY <2>1 DEF Keeps
  <2>. QED
    BY <1>9, <2>1, <2>2, MoveDecoded
<1>. QED
  BY <1>1, <1>2, <1>3, <1>4, <1>5, <1>6, <1>7, <1>8, <1>9 DEF Controls


LEMMA DisplayDecoded ==
  ASSUME NEW s, HasScr(s), s.drawing = "none", ~s.at.lastesc,
         NEW c, c \notin Controls, NEW t, t = Display(s, c)
  PROVE  Decoded(s, c, t)
<1>1. PICK u : u = Texted(s, <<IF s.at.screen_mode = "ALPHA" THEN c ELSE " ">>)
  OBVIOUS
<1>2. /\ HasScr(u) /\ Keeps(s, u, {"textpage"})
      /\ s.view_conceal => u.textpage = s.textpage
  BY <1>1, TextedFacts
<1>3. u.at = s.at /\ u.conceal = s.conceal /\ u.view_conceal = s.view_conceal
  BY <1>2 DEF Keeps, ScrFields
<1>4. PICK w : w = [u EXCEPT !.at.lastchin = @ /\ ~(u.at.screen_mode = "CHINESE"
                                                      /\ c # " ")]
  OBVIOUS
<1>5. PICK x : x = IF u.at.flash /\ ~(u.at.screen_mode = "CHINESE" /\ c # " ")
                   THEN " " ELSE c
  OBVIOUS
<1>6. \/ t = [u EXCEPT !.at.lastchin = TRUE]
      \/ t = outchar(Painted(w, c), x)
  BY <1>1, <1>4, <1>5, Zenon DEF Display
<1>7. /\ HasScr(t) /\ Keeps(u, t, {"at", "conceal", "textpage"})
      /\ t.conceal => u.conceal
      /\ u.view_conceal => t.textpage = u.textpage
      /\ t.at.chinese_special => u.at.chinese_special
      /\ t.at.lastesc = u.at.lastesc
      /\ Sited(u.at) => Sited(t.at)
  <2>1. CASE t = [u EXCEPT !.at.lastchin = TRUE]
    <3>1. /\ HasScr(t) /\ Keeps(u, t, {"at"}) /\ AtKeeps(u.at, t.at, {"lastchin"})
      BY <1>2, <2>1 DEF HasScr, Keeps, AtKeeps, ScrFields, AtFields
    <3>2. /\ t.conceal = u.conceal /\ t.textpage = u.textpage
          /\ t.at.chinese_special = u.at.chinese_special
          /\ t.at.lastesc = u.at.lastesc
          /\ t.at.row = u.at.row /\ t.at.col = u.at.col
      BY <3>1 DEF Keeps, AtKeeps, ScrFields, AtFields
    <3>3. Sited(u.at) => Sited(t.at)
      <4>1. Flags(u.at) => Flags(t.at)
        BY <3>1 DEF Flags, AtKeeps, AtFields
      <4>. QED
        BY <3>2, <4>1 DEF Sited
    <3>. QED
      BY <3>1, <3>2, <3>3 DEF Keeps
  <2>2. CASE t = outchar(Painted(w, c), x)
    <3>1. /\ HasScr(w) /\ Keeps(u, w, {"at"}) /\ AtKeeps(u.at, w.at, {"lastchin"})
      BY <1>2, <1>4 DEF HasScr, Keeps, AtKeeps, ScrFields, AtFields
    <3>2. PICK v : v = Painted(w, c)
      OBVIOUS
    <3>3. /\ HasScr(v) /\ Keeps(w, v, {"at"})
          /\ AtKeeps(w.at, v.at, {"hold_mosaic_char"})
      BY <3>1, <3>2, PaintedFacts
    <3>4. Keeps(u, v, {"at"}) /\ AtKeeps(u.at, v.at, {"lastchin", "hold_mosaic_char"})
      BY <3>1, <3>3 DEF Keeps, AtKeeps
    <3>5. /\ v.at.row = u.at.row /\ v.at.col = u.at.col
          /\ v.at.lastesc = u.at.lastesc /\ v.conceal = u.conceal
          /\ v.view_conceal = u.view_conceal /\ v.textpage = u.textpage
      BY <3>4 DEF Keeps, AtKeeps, ScrFields, AtFields
    <3>6. Outchared(v, x, t)
      BY <2>2, <3>2, <3>3, OutcharFacts
    <3>7. /\ HasScr(t) /\ Keeps(v, t, {"at", "conceal", "textpage"})
          /\ t.conceal = v.conceal \/ ~t.conceal
          /\ v.view_conceal => t.textpage = v.textpage
          /\ ~t.at.chinese_special /\ t.at.lastesc = v.at.lastesc
      BY <3>6 DEF Outchared
    <3>8. Sited(u.at) => Sited(t.at)
      <4>1. Flags(u.at) => Flags(v.at)
        BY <3>4 DEF Flags, AtKeeps, AtFields
      <4>2. Sited(u.at) => Sited(v.at)
        BY <3>5, <4>1 DEF Sited
      <4>. QED
        BY <2>2, <3>2, <3>3, <4>2, OutcharSited
    <3>9. Keeps(u, t, {"at", "conceal", "textpage"})
      BY <3>4, <3>7 DEF Keeps
    <3>. QED
      BY <3>5, <3>7, <3>8, <3>9
  <2>. QED
    BY <1>6, <2>1, <2>2
<1>8. Keeps(s, t, {"at", "conceal", "textpage"})
  BY <1>2, <1>7 DEF Keeps
<1>9. c # "CS" /\ c # "ESC"
  BY DEF Controls
<1>. QED
  BY <1>2, <1>3, <1>7, <1>8, <1>9, MoveDecoded

LEMMA HandledDecoded ==
  ASSUME NEW s, HasScr(s), NEW c
  PROVE  Decoded(s, c, Handled(s, c))
<1>1. CASE s.drawing # "none"
  BY <1>1, ParameterDecoded DEF Handled
<1>2. CASE s.drawing = "none" /\ s.at.lastesc
  BY <1>2, AfterEscapeDecoded DEF Handled
<1>3. CASE s.drawing = "none" /\ ~s.at.lastesc /\ c \in Controls
  BY <1>3, ControlDecoded DEF Handled
<1>4. CASE s.drawing = "none" /\ ~s.at.lastesc /\ c \notin Controls
  BY <1>4, DisplayDecoded DEF Handled
<1>. QED
  BY <1>1, <1>2, <1>3, <1>4

-----------------------------------------------------------------------------
(* An entry of the page: its attributes are those of a screen.             *)
Entry(e) == DOMAIN e = {"data", "at"} /\ DOMAIN e.at = AtFields /\ Sited(e.at)

Paged(page) == \E S : page \in Seq(S) /\ \A e \in S : Entry(e)

(* The states of the decoder.                                              *)
OnScreen(s) == /\ HasScr(s) /\ Sited(s.at) /\ Pending(s) /\ Paged(s.page)
               /\ s.view_conceal \in BOOLEAN

LEMMA EmptyPaged ==
  Paged(<<>>)
<1>1. \E S : S = {}
  OBVIOUS
<1>2. PICK S : S = {}
  BY <1>1
<1>3. <<>> \in Seq(S) /\ \A e \in S : Entry(e)
  BY <1>2
<1>. QED
  BY <1>3 DEF Paged

LEMMA FirstOnScreen ==
  OnScreen(FirstScreen) /\ ~FirstScreen.view_conceal
<1>1. HasScr(FirstScreen)
  BY HomeFields DEF FirstScreen, HasScr, ScrFields
<1>2. /\ FirstScreen.at = Home /\ FirstScreen.page = <<>>
      /\ FirstScreen.drawing = "none" /\ FirstScreen.draw_para_rxd = 0
      /\ FirstScreen.view_conceal = FALSE
  BY DEF FirstScreen
<1>3. Sited(Home)
  <2>1. Home.row = 0 /\ Home.col = 0
    BY DEF Home
  <2>2. 0 \in 0 .. ROWS - 1 /\ 0 \in 0 .. COLS - 1
    BY SizeAssumption
  <2>. QED
    BY <2>1, <2>2, HomeFlags DEF Sited
<1>. QED
  BY <1>1, <1>2, <1>3, EmptyPaged DEF OnScreen, Pending

LEMMA KeptFacts ==
  ASSUME NEW s, OnScreen(s), NEW c, NEW t, t = Kept(s, c)
  PROVE  /\ OnScreen(t) /\ Keeps(s, t, {"page"})
         /\ t.page = Append(s.page, [data |-> c, at |-> s.at])
<1> DEFINE e == [data |-> c, at |-> s.at]
<1>1. /\ HasScr(t) /\ Keeps(s, t, {"page"}) /\ t.page = Append(s.page, e)
  BY DEF Kept, OnScreen, HasScr, Keeps, ScrFields
<1>2. Entry(e)
  BY DEF OnScreen, HasScr, Entry
<1> HIDE DEF e
<1>3. PICK S : s.page \in Seq(S) /\ \A x \in S : Entry(x)
  BY DEF OnScreen, Paged
<1>4. t.page \in Seq(S \cup {e})
  <2>1. s.page \in Seq(S \cup {e})
    BY <1>3
  <2>. QED
    BY <1>1, <2>1
<1>5. Paged(t.page)
  BY <1>2, <1>3, <1>4 DEF Paged
<1>6. /\ t.at = s.at /\ t.drawing = s.drawing
      /\ t.draw_para_rxd = s.draw_para_rxd /\ t.view_conceal = s.view_conceal
  BY <1>1 DEF Keeps, ScrFields
<1>. QED
  BY <1>1, <1>5, <1>6 DEF OnScreen, Pending, e

(* What a byte c of the host does to the decoder s.                        *)
Received(s, c, t) ==
  /\ OnScreen(t) /\ t.view_conceal = s.view_conceal
  /\ t.conceal => \/ s.conceal
                  \/ s.drawing = "none" /\ s.at.lastesc /\ c = "CONCEAL"
  /\ ~s.at.chinese_special => ~t.at.chinese_special
  /\ t.at.lastesc <=> IF s.drawing = "none" THEN ~s.at.lastesc /\ c = "ESC"
                      ELSE s.at.lastesc
  /\ s.drawing = "none" => (t.drawing # "none" <=> Begins(s, c))
  /\ IF Empties(s, c)
     THEN /\ t.page = <<>> /\ t.textpage = <<>>
          /\ ~t.conceal /\ ~t.last_conceal
     ELSE /\ t.last_conceal = s.last_conceal
          /\ IF s.view_conceal
             THEN t.page = s.page /\ t.textpage = s.textpage
             ELSE t.page = Append(s.page, [data |-> c, at |-> s.at])

LEMMA CharinFacts ==
  ASSUME NEW s, OnScreen(s), NEW b, NEW t, t = charin(s, b)
  PROVE  Received(s, Code(b), t)
<1>1. PICK u : u = IF s.view_conceal THEN s ELSE Kept(s, Code(b))
  OBVIOUS
<1>2. /\ OnScreen(u) /\ Keeps(s, u, {"page"})
      /\ u.page = IF s.view_conceal THEN s.page
                  ELSE Append(s.page, [data |-> Code(b), at |-> s.at])
  <2>1. CASE s.view_conceal
    BY <1>1, <2>1 DEF Keeps
  <2>2. CASE ~s.view_conceal
    BY <1>1, <2>2, KeptFacts
  <2>. QED
    BY <2>1, <2>2
<1>3. Decoded(u, Code(b), t)
  BY <1>1, <1>2, CharinHandles, HandledDecoded DEF OnScreen
<1>4. /\ u.at = s.at /\ u.drawing = s.drawing /\ u.conceal = s.conceal
      /\ u.last_conceal = s.last_conceal /\ u.view_conceal = s.view_conceal
      /\ u.textpage = s.textpage
  BY <1>2 DEF Keeps, ScrFields
<1>5. /\ Empties(u, Code(b)) <=> Empties(s, Code(b))
      /\ Begins(u, Code(b)) <=> Begins(s, Code(b))
  BY <1>4 DEF Empties, Begins
<1>6. Paged(t.page)
  <2>1. CASE Empties(s, Code(b))
    BY <1>3, <1>5, <2>1, EmptyPaged DEF Decoded
  <2>2. CASE ~Empties(s, Code(b))
    BY <1>2, <1>3, <1>5, <2>2 DEF Decoded, OnScreen
  <2>. QED
    BY <2>1, <2>2
<1>7. OnScreen(t)
  BY <1>2, <1>3, <1>6 DEF OnScreen, Decoded
<1>. QED
  BY <1>2, <1>3, <1>4, <1>5, <1>7 DEF Decoded, Received


-----------------------------------------------------------------------------
(* Going through a page: f holds the decoder before and after every byte.  *)
Goes(x, c, kind) == IF kind = "replay" THEN Again(x, c) ELSE charin(x, c)

Walk(f, lo, hi, x, page, kind) ==
  f = [i \in lo .. hi |-> IF i = lo THEN x
                          ELSE Goes(f[i - 1], page[i].data, kind)]

LEMMA WalkExists ==
  ASSUME NEW lo \in Int, NEW hi \in Int, lo <= hi, NEW x, NEW page, NEW kind
  PROVE  \E f : Walk(f, lo, hi, x, page, kind)
<1> DEFINE G == {j \in lo .. hi : \E f : Walk(f, lo, j, x, page, kind)}
<1>1. lo \in G
  <2>1. PICK f : f = [i \in lo .. lo |-> x]
    OBVIOUS
  <2>2. \A i \in lo .. lo : i = lo
    OBVIOUS
  <2>3. Walk(f, lo, lo, x, page, kind)
    BY <2>1, <2>2 DEF Walk
  <2>. QED
    BY <2>3
<1>2. ASSUME NEW j \in lo + 1 .. hi, j - 1 \in G
      PROVE  j \in G
  <2>1. PICK f : Walk(f, lo, j - 1, x, page, kind)
    BY <1>2
  <2>2. /\ DOMAIN f = lo .. j - 1
        /\ \A i \in lo .. j - 1 : f[i] = IF i = lo THEN x
                                         ELSE Goes(f[i - 1], page[i].data, kind)
    BY <2>1 DEF Walk
  <2>3. PICK y : y = Goes(f[j - 1], page[j].data, kind)
    OBVIOUS
  <2>4. PICK g : g = [i \in lo .. j |-> IF i = j THEN y ELSE f[i]]
    OBVIOUS
  <2>5. DOMAIN g = lo .. j /\ g[j] = y /\ \A i \in lo .. j - 1 : g[i] = f[i]
    BY <2>4
  <2>6. ASSUME NEW i \in lo .. j
        PROVE  g[i] = IF i = lo THEN x ELSE Goes(g[i - 1], page[i].data, kind)
    <3>1. CASE i = j
      <4>1. i # lo /\ j - 1 \in lo .. j - 1
        BY <1>2, <3>1
      <4>. QED
        BY <2>3, <2>5, <3>1, <4>1
    <3>2. CASE i # j
      <4>1. i \in lo .. j - 1 /\ (i # lo => i - 1 \in lo .. j - 1)
        BY <3>2
      <4>. QED
        BY <2>2, <2>5, <4>1
    <3>. QED
      BY <3>1, <3>2
  <2>7. Walk(g, lo, j, x, page, kind)
    BY <2>4, <2>6 DEF Walk
  <2>. QED
    BY <1>2, <2>7
<1>3. lo .. hi \subseteq G
  <2> HIDE DEF G
  <2>. QED
    BY <1>1, <1>2, PassedOn
<1>4. hi \in lo .. hi
  OBVIOUS
<1>. QED
  BY <1>3, <1>4

LEMMA WalkSteps ==
  ASSUME NEW lo \in Int, NEW hi \in Int, lo <= hi, NEW x, NEW page, NEW kind,
         NEW f, Walk(f, lo, hi, x, page, kind)
  PROVE  /\ f[lo] = x
         /\ \A i \in lo + 1 .. hi : f[i] = Goes(f[i - 1], page[i].data, kind)
<1>1. \A i \in lo .. hi : f[i] = IF i = lo THEN x
                                 ELSE Goes(f[i - 1], page[i].data, kind)
  BY DEF Walk
<1>2. lo \in lo .. hi /\ \A i \in lo + 1 .. hi : i \in lo .. hi /\ i # lo
  OBVIOUS
<1>. QED
  BY <1>1, <1>2

(* The entry the replay begins with.                                       *)
LEMMA FirstConceals ==
  ASSUME NEW page, Paged(page), Concealing(page) # {},
         NEW k, k = FirstConcealed(page)
  PROVE  k \in 1 .. Len(page) - 1 /\ k \in Concealing(page)
<1>1. Len(page) \in Nat
  BY DEF Paged
<1>2. Concealing(page) \in SUBSET Nat
  BY <1>1 DEF Concealing
<1>3. \E i \in Concealing(page) : \A q \in Concealing(page) : i <= q
  <2> DEFINE C == Concealing(page)
  <2> HIDE DEF C
  <2>1. C \in SUBSET Nat /\ C # {} => \E i \in C : \A q \in C : i <= q
    BY LeastNatural
  <2>. QED
    BY <1>2, <2>1 DEF C
<1>4. k \in Concealing(page)
  BY <1>3 DEF FirstConcealed
<1>. QED
  BY <1>4 DEF Concealing

LEMMA ReplayedWalk ==
  ASSUME NEW s, NEW k \in Nat, NEW j \in Int, k - 1 <= j
  PROVE  \E f : /\ Walk(f, k - 1, j, [s EXCEPT !.at = s.page[k].at],
                        s.page, "replay")
                /\ f[j] = Replayed(s, k, j)
<1> DEFINE x == [s EXCEPT !.at = s.page[k].at]
           Found(f) == f = [i \in k - 1 .. j |-> IF i = k - 1 THEN x
                              ELSE Again(f[i - 1], s.page[i].data)]
<1>1. PICK f : Walk(f, k - 1, j, x, s.page, "replay")
  <2> HIDE DEF x
  <2>. QED
    BY WalkExists
<1>2. Found(f)
  BY <1>1 DEF Walk, Goes
<1>3. PICK g : g = CHOOSE h : Found(h)
  OBVIOUS
<1>4. Found(g)
  BY <1>2, <1>3
<1>5. Walk(g, k - 1, j, x, s.page, "replay")
  BY <1>4 DEF Walk, Goes
<1>6. Replayed(s, k, j) = g[j]
  BY <1>3 DEF Replayed
<1>. QED
  BY <1>5, <1>6


-----------------------------------------------------------------------------
(* What going through the page leaves of a decoder s that only shows it: a *)
(* CS on the way empties both pages and is the end.                        *)
Shown(s, u) ==
  /\ OnScreen(u) /\ u.view_conceal
  /\ \/ /\ u.page = s.page /\ u.textpage = s.textpage
        /\ u.last_conceal = s.last_conceal
     \/ u.page = <<>> /\ u.textpage = <<>> /\ u.drawing = "none"

LEMMA ShownFurther ==
  ASSUME NEW s, NEW u, Shown(s, u), NEW c, NEW t, t = Again(u, c)
  PROVE  Shown(s, t)
<1>1. CASE u.page = <<>>
  BY <1>1 DEF Again
<1>2. CASE u.page # <<>>
  <2>1. t = charin(u, c)
    BY <1>2 DEF Again
  <2>2. Received(u, Code(c), t)
    BY <2>1, CharinFacts DEF Shown
  <2>3. Empties(u, Code(c)) => u.drawing = "none" /\ ~Begins(u, Code(c))
    BY DEF Empties, Begins
  <2>. QED
    BY <1>2, <2>2, <2>3 DEF Shown, Received
<1>. QED
  BY <1>1, <1>2

LEMMA ReplayShows ==
  ASSUME NEW s, OnScreen(s), s.view_conceal, NEW k \in 1 .. Len(s.page),
         NEW j \in k - 1 .. Len(s.page)
  PROVE  Shown(s, Replayed(s, k, j))
<1>1. PICK S : s.page \in Seq(S) /\ \A e \in S : Entry(e)
  BY DEF OnScreen, Paged
<1>2. Len(s.page) \in Nat /\ s.page[k] \in S
  BY <1>1
<1>3. k \in Nat /\ k - 1 \in Int /\ j \in Int /\ k - 1 <= j
  BY <1>2
<1>4. PICK x : x = [s EXCEPT !.at = s.page[k].at]
  OBVIOUS
<1>5. PICK f : Walk(f, k - 1, j, x, s.page, "replay") /\ f[j] = Replayed(s, k, j)
  BY <1>3, <1>4, ReplayedWalk
<1>6. /\ f[k - 1] = x
      /\ \A i \in k - 1 + 1 .. j : f[i] = Goes(f[i - 1], s.page[i].data, "replay")
  BY <1>3, <1>5, WalkSteps
<1>7. Shown(s, x)
  <2>1. Entry(s.page[k])
    BY <1>1, <1>2
  <2>2. x.at = s.page[k].at /\ HasScr(x) /\ Keeps(s, x, {"at"})
    BY <1>4, <2>1 DEF OnScreen, HasScr, Keeps, ScrFields, Entry
  <2>3. /\ x.page = s.page /\ x.textpage = s.textpage
        /\ x.last_conceal = s.last_conceal /\ x.view_conceal = s.view_conceal
        /\ x.drawing = s.drawing /\ x.draw_para_rxd = s.draw_para_rxd
    BY <2>2 DEF Keeps, ScrFields
  <2>4. OnScreen(x)
    BY <2>1, <2>2, <2>3 DEF OnScreen, Pending, Entry
  <2>. QED
    BY <2>3, <2>4 DEF Shown
<1> DEFINE G == {i \in k - 1 .. j : Shown(s, f[i])}
<1>8. k - 1 \in G
  BY <1>3, <1>6, <1>7
<1>9. ASSUME NEW i \in k - 1 + 1 .. j, i - 1 \in G
      PROVE  i \in G
  <2>1. f[i] = Again(f[i - 1], s.page[i].data)
    BY <1>6 DEF Goes
  <2>2. Shown(s, f[i])
    BY <1>9, <2>1, ShownFurther
  <2>3. i \in k - 1 .. j
    BY <1>3
  <2>. QED
    BY <2>2, <2>3
<1>10. j \in G
  <2> HIDE DEF G
  <2>1. k - 1 .. j \subseteq G
    BY <1>3, <1>8, <1>9, PassedOn
  <2>. QED
    BY <1>3, <2>1
<1>. QED
  BY <1>5, <1>10

LEMMA RevealingFacts ==
  ASSUME NEW s, OnScreen(s), NEW t, t = Revealing(s)
  PROVE  /\ OnScreen(t) /\ Keeps(s, t, {"view_conceal", "last_conceal"})
         /\ t.view_conceal /\ (t.last_conceal <=> ~s.last_conceal)
<1>1. PICK x : x = ~s.last_conceal
  OBVIOUS
<1>2. t = [s EXCEPT !.view_conceal = TRUE, !.last_conceal = x]
  <2>1. t = [s EXCEPT !.view_conceal = TRUE, !.last_conceal = ~s.last_conceal]
    BY Zenon DEF Revealing
  <2>. QED
    BY <1>1, <2>1, Zenon
<1>3. /\ HasScr(t) /\ Keeps(s, t, {"view_conceal", "last_conceal"})
      /\ t.view_conceal /\ t.last_conceal = x
  BY <1>2 DEF OnScreen, HasScr, Keeps, ScrFields
<1>4. /\ t.at = s.at /\ t.page = s.page /\ t.drawing = s.drawing
      /\ t.draw_para_rxd = s.draw_para_rxd
  BY <1>3 DEF Keeps, ScrFields
<1>5. OnScreen(t)
  BY <1>3, <1>4 DEF OnScreen, Pending
<1>. QED
  BY <1>1, <1>3, <1>5

(* reveal leaves the pages alone, unless its search meets a CS.            *)
LEMMA RevealFacts ==
  ASSUME NEW s, OnScreen(s), NEW t, t = reveal(s)
  PROVE  /\ OnScreen(t) /\ ~t.view_conceal /\ ~t.conceal /\ t.at = s.at
         /\ \/ t.page = s.page /\ t.textpage = s.textpage
            \/ t.page = <<>> /\ t.textpage = <<>> /\ t.drawing = "none"
<1>1. PICK v : v = Revealing(s)
  OBVIOUS
<1>2. PICK u : u = IF Concealing(v.page) = {} THEN v
                   ELSE Replayed(v, FirstConcealed(v.page), Len(v.page))
  OBVIOUS
<1>3. t = [u EXCEPT !.at = s.at, !.view_conceal = FALSE, !.conceal = FALSE]
  BY <1>1, <1>2 DEF reveal
<1>4. /\ OnScreen(v) /\ Keeps(s, v, {"view_conceal", "last_conceal"})
      /\ v.view_conceal
  BY <1>1, RevealingFacts
<1>5. v.page = s.page /\ v.textpage = s.textpage
  BY <1>4 DEF Keeps, ScrFields
<1>6. Shown(v, u)
  <2>1. CASE Concealing(v.page) = {}
    BY <1>2, <1>4, <2>1 DEF Shown
  <2>2. CASE Concealing(v.page) # {}
    <3>1. PICK k : k = FirstConcealed(v.page)
      OBVIOUS
    <3>2. k \in 1 .. Len(v.page) - 1 /\ Len(v.page) \in Nat
      BY <1>4, <2>2, <3>1, FirstConceals DEF OnScreen, Paged
    <3>3. k \in 1 .. Len(v.page) /\ Len(v.page) \in k - 1 .. Len(v.page)
      BY <3>2
    <3>. QED
      BY <1>2, <1>4, <2>2, <3>1, <3>3, ReplayShows
  <2>. QED
    BY <2>1, <2>2
<1>7. /\ HasScr(t) /\ Keeps(u, t, {"at", "view_conceal", "conceal"})
      /\ t.at = s.at /\ t.view_conceal = FALSE /\ ~t.conceal
  BY <1>3, <1>6 DEF Shown, OnScreen, HasScr, Keeps, ScrFields
<1>8. /\ t.page = u.page /\ t.textpage = u.textpage /\ t.drawing = u.drawing
      /\ t.draw_para_rxd = u.draw_para_rxd
  BY <1>7 DEF Keeps, ScrFields
<1>9. OnScreen(t)
  BY <1>6, <1>7, <1>8 DEF Shown, OnScreen, Pending
<1>. QED
  BY <1>5, <1>6, <1>7, <1>8, <1>9 DEF Shown


-----------------------------------------------------------------------------
(* A byte does the same to two decoders that differ in the mosaic held.    *)
LEMMA AtAlike ==
  ASSUME NEW a, NEW b, Alike(a, b), NEW F, NEW x, NEW y,
         AtKeeps(a, x, F), AtKeeps(b, y, F), \A f \in F : x[f] = y[f]
  PROVE  Alike(x, y)
BY DEF Alike, AtKeeps

LEMMA SimKept ==
  ASSUME NEW s, NEW t, Sim(s, t), NEW u, HasScr(u), NEW v, HasScr(v),
         Alike(u.at, v.at),
         Keeps(s, u, {"at", "conceal", "last_conceal", "page", "textpage"}),
         Keeps(t, v, {"at", "conceal", "last_conceal", "page", "textpage"}),
         ~t.view_conceal => u.textpage = v.textpage
  PROVE  Sim(u, v)
<1>1. /\ u.drawing = s.drawing /\ u.draw_para_rxd = s.draw_para_rxd
      /\ u.view_conceal = s.view_conceal
      /\ v.drawing = t.drawing /\ v.draw_para_rxd = t.draw_para_rxd
      /\ v.view_conceal = t.view_conceal
  BY DEF Keeps, ScrFields
<1>. QED
  BY <1>1 DEF Sim

LEMMA SimFields ==
  ASSUME NEW s, NEW t, Sim(s, t)
  PROVE  /\ HasScr(s) /\ HasScr(t) /\ Alike(s.at, t.at)
         /\ s.at.row = t.at.row /\ s.at.col = t.at.col
         /\ s.at.hidden = t.at.hidden /\ s.at.lastesc = t.at.lastesc
         /\ s.at.chinese_special = t.at.chinese_special
         /\ s.at.lastdouble = t.at.lastdouble /\ s.at.flash = t.at.flash
         /\ s.at.screen_mode = t.at.screen_mode
         /\ s.at.hold_mosaic = t.at.hold_mosaic
         /\ s.at.lastchin = t.at.lastchin
BY DEF Sim, Alike, AtKeeps, AtFields

LEMMA TextedAlike ==
  ASSUME NEW s, NEW t, Sim(s, t), NEW text,
         NEW u, u = Texted(s, text), NEW v, v = Texted(t, text)
  PROVE  Sim(u, v)
<1>1. /\ HasScr(u) /\ Keeps(s, u, {"textpage"})
      /\ u.textpage = IF s.view_conceal THEN s.textpage ELSE s.textpage \o text
  BY SimFields, TextedFacts
<1>2. /\ HasScr(v) /\ Keeps(t, v, {"textpage"})
      /\ v.textpage = IF t.view_conceal THEN t.textpage ELSE t.textpage \o text
  BY SimFields, TextedFacts
<1>3. u.at = s.at /\ v.at = t.at
  BY <1>1, <1>2 DEF Keeps, ScrFields
<1>4. /\ Keeps(s, u, {"at", "conceal", "last_conceal", "page", "textpage"})
      /\ Keeps(t, v, {"at", "conceal", "last_conceal", "page", "textpage"})
  BY <1>1, <1>2 DEF Keeps
<1>5. ~t.view_conceal => u.textpage = v.textpage
  BY <1>1, <1>2 DEF Sim
<1>6. Alike(u.at, v.at)
  BY <1>3, SimFields
<1>. QED
  BY <1>1, <1>2, <1>4, <1>5, <1>6, SimKept

LEMMA PaintedAlike ==
  ASSUME NEW s, NEW t, Sim(s, t), NEW c, NEW d,
         NEW u, u = Painted(s, c), NEW v, v = Painted(t, d)
  PROVE  Sim(u, v)
<1>1. /\ HasScr(u) /\ Keeps(s, u, {"at"})
      /\ AtKeeps(s.at, u.at, {"hold_mosaic_char"})
  BY SimFields, PaintedFacts
<1>2. /\ HasScr(v) /\ Keeps(t, v, {"at"})
      /\ AtKeeps(t.at, v.at, {"hold_mosaic_char"})
  BY SimFields, PaintedFacts
<1>3. Alike(u.at, v.at)
  BY <1>1, <1>2, SimFields DEF Alike, AtKeeps
<1>4. /\ Keeps(s, u, {"at", "conceal", "last_conceal", "page", "textpage"})
      /\ Keeps(t, v, {"at", "conceal", "last_conceal", "page", "textpage"})
      /\ u.textpage = s.textpage /\ v.textpage = t.textpage
  BY <1>1, <1>2 DEF Keeps, ScrFields
<1>. QED
  BY <1>1, <1>2, <1>3, <1>4, SimKept DEF Sim

(* After clear_attributes nothing of them is left to differ.               *)
LEMMA ClearAlike ==
  ASSUME NEW s, NEW t, Sim(s, t),
         NEW u, u = clear_attributes(s), NEW v, v = clear_attributes(t)
  PROVE  Sim(u, v)
<1>1. /\ HasScr(u) /\ Keeps(s, u, {"at", "conceal"})
      /\ \A f \in AtFields : u.at[f] = IF f \in Cleared THEN Home[f]
                                       ELSE s.at[f]
  BY SimFields, ClearFacts
<1>2. /\ HasScr(v) /\ Keeps(t, v, {"at", "conceal"})
      /\ \A f \in AtFields : v.at[f] = IF f \in Cleared THEN Home[f]
                                       ELSE t.at[f]
  BY SimFields, ClearFacts
<1>3. Alike(s.at, t.at)
  BY SimFields
<1>4. Alike(u.at, v.at)
  BY <1>1, <1>2, <1>3 DEF Alike, AtKeeps
<1>5. /\ Keeps(s, u, {"at", "conceal", "last_conceal", "page", "textpage"})
      /\ Keeps(t, v, {"at", "conceal", "last_conceal", "page", "textpage"})
      /\ u.textpage = s.textpage /\ v.textpage = t.textpage
  BY <1>1, <1>2 DEF Keeps, ScrFields
<1>. QED
  BY <1>1, <1>2, <1>4, <1>5, SimKept DEF Sim

(* Two decoders whose attributes in F are set, to the same.                *)
LEMMA SetAlike ==
  ASSUME NEW s, NEW t, Sim(s, t), NEW F,
         NEW u, HasScr(u), Keeps(s, u, {"at"}), AtKeeps(s.at, u.at, F),
         NEW v, HasScr(v), Keeps(t, v, {"at"}), AtKeeps(t.at, v.at, F),
         \A f \in F : u.at[f] = v.at[f]
  PROVE  Sim(u, v)
<1>1. Alike(s.at, t.at)
  BY SimFields
<1>2. Alike(u.at, v.at)
  BY <1>1, AtAlike
<1>3. /\ Keeps(s, u, {"at", "conceal", "last_conceal", "page", "textpage"})
      /\ Keeps(t, v, {"at", "conceal", "last_conceal", "page", "textpage"})
      /\ u.textpage = s.textpage /\ v.textpage = t.textpage
  BY DEF Keeps, ScrFields
<1>. QED
  BY <1>2, <1>3, SimKept DEF Sim

LEMMA SetOneAlike ==
  ASSUME NEW s, NEW t, Sim(s, t), NEW f \in AtFields, NEW x,
         NEW u, u = [s EXCEPT !.at[f] = x], NEW v, v = [t EXCEPT !.at[f] = x]
  PROVE  Sim(u, v)
<1> DEFINE F == {f}
<1>1. HasScr(s) /\ HasScr(t)
  BY SimFields
<1>2. HasScr(u) /\ Keeps(s, u, {"at"}) /\ AtKeeps(s.at, u.at, F) /\ u.at[f] = x
  BY <1>1 DEF HasScr, Keeps, AtKeeps, ScrFields
<1>3. HasScr(v) /\ Keeps(t, v, {"at"}) /\ AtKeeps(t.at, v.at, F) /\ v.at[f] = x
  BY <1>1 DEF HasScr, Keeps, AtKeeps, ScrFields
<1>4. \A g \in F : u.at[g] = v.at[g]
  BY <1>2, <1>3
<1> HIDE DEF F
<1>. QED
  BY <1>2, <1>3, <1>4, SetAlike

LEMMA DownAlike ==
  ASSUME NEW s, NEW t, Sim(s, t), NEW double,
         NEW u, u = Down(s, double), NEW v, v = Down(t, double)
  PROVE  Sim(u, v)
<1>1. PICK x : x = [s EXCEPT !.at.row = (@ + 1) % ROWS, !.at.hidden = double]
  OBVIOUS
<1>2. PICK y : y = [t EXCEPT !.at.row = (@ + 1) % ROWS, !.at.hidden = double]
  OBVIOUS
<1>3. HasScr(s) /\ HasScr(t) /\ s.at.row = t.at.row
  BY SimFields
<1>4. /\ HasScr(x) /\ Keeps(s, x, {"at"}) /\ AtKeeps(s.at, x.at, {"row", "hidden"})
      /\ x.at.row = (s.at.row + 1) % ROWS /\ x.at.hidden = double
  BY <1>1, <1>3 DEF HasScr, Keeps, AtKeeps, ScrFields, AtFields
<1>5. /\ HasScr(y) /\ Keeps(t, y, {"at"}) /\ AtKeeps(t.at, y.at, {"row", "hidden"})
      /\ y.at.row = (t.at.row + 1) % ROWS /\ y.at.hidden = double
  BY <1>2, <1>3 DEF HasScr, Keeps, AtKeeps, ScrFields, AtFields
<1>6. \A f \in {"row", "hidden"} : x.at[f] = y.at[f]
  BY <1>3, <1>4, <1>5
<1>7. Sim(x, y)
  <2> DEFINE F == {"row", "hidden"}
  <2>1. /\ HasScr(x) /\ Keeps(s, x, {"at"}) /\ AtKeeps(s.at, x.at, F)
        /\ HasScr(y) /\ Keeps(t, y, {"at"}) /\ AtKeeps(t.at, y.at, F)
        /\ \A f \in F : x.at[f] = y.at[f]
    BY <1>4, <1>5, <1>6
  <2> HIDE DEF F
  <2>. QED
    BY <2>1, SetAlike
<1>8. u = clear_attributes(x) /\ v = clear_attributes(y)
  BY <1>1, <1>2 DEF Down
<1>. QED
  BY <1>7, <1>8, ClearAlike


LEMMA ControlAlike ==
  ASSUME NEW s, NEW t, Sim(s, t), NEW c \in Controls,
         NEW u, u = Control(s, c), NEW v, v = Control(t, c)
  PROVE  Sim(u, v)
<1> DEFINE F == {"row", "col", "lastesc", "hidden"}
<1>0. /\ HasScr(s) /\ HasScr(t)
      /\ s.at.row = t.at.row /\ s.at.col = t.at.col
      /\ s.at.lastesc = t.at.lastesc /\ s.at.lastdouble = t.at.lastdouble
      /\ s.at.hidden = t.at.hidden
  BY SimFields
<1>1. CASE c = "ESC"
  <2>0. PICK set : set = TRUE
    OBVIOUS
  <2>1. /\ u = [s EXCEPT !.at.lastesc = set]
        /\ v = [t EXCEPT !.at.lastesc = set]
    BY <1>1, <2>0 DEF Control
  <2>2. "lastesc" \in AtFields
    BY DEF AtFields
  <2>. QED
    BY <2>1, <2>2, SetOneAlike
<1>2. CASE c = "APB" \/ c = "APF"
  <2>1. /\ HasScr(u) /\ Keeps(s, u, {"at"}) /\ AtKeeps(s.at, u.at, {"row", "col"})
        /\ HasScr(v) /\ Keeps(t, v, {"at"}) /\ AtKeeps(t.at, v.at, {"row", "col"})
        /\ u.at.row = v.at.row /\ u.at.col = v.at.col
    <3>1. CASE c = "APB"
      <4>1. u = Back(s) /\ v = Back(t)
        BY <3>1 DEF Control
      <4>. QED
        BY <1>0, <4>1, BackFacts
    <3>2. CASE c = "APF"
      BY <1>0, <3>2, ForwardFacts
    <3>. QED
      BY <1>2, <3>1, <3>2
  <2> DEFINE P == {"row", "col"}
  <2>2. /\ HasScr(u) /\ Keeps(s, u, {"at"}) /\ AtKeeps(s.at, u.at, P)
        /\ HasScr(v) /\ Keeps(t, v, {"at"}) /\ AtKeeps(t.at, v.at, P)
        /\ \A f \in P : u.at[f] = v.at[f]
    BY <2>1
  <2> HIDE DEF P
  <2>. QED
    BY <2>2, SetAlike
<1>3. CASE c = "APD"
  <2>1. PICK double : double = s.at.lastdouble
    OBVIOUS
  <2>2. PICK x, y : x = Texted(s, <<c>>) /\ y = Texted(t, <<c>>)
    OBVIOUS
  <2>3. Sim(x, y)
    BY <2>2, TextedAlike
  <2>4. u = Down(x, double) /\ v = Down(y, double)
    BY <1>0, <1>3, <2>1, <2>2 DEF Control
  <2>. QED
    BY <2>3, <2>4, DownAlike
<1>4. CASE c = "APU" \/ c = "APH"
  <2>1. PICK x, y :
          /\ Sim(x, y) /\ u = clear_attributes(x) /\ v = clear_attributes(y)
    <3>1. CASE c = "APU"
      <4>0. PICK double : double = s.at.lastdouble
        OBVIOUS
      <4>1. PICK x, y :
              /\ x = [s EXCEPT !.at.row = (@ + ROWS - 1) % ROWS,
                               !.at.hidden = double]
              /\ y = [t EXCEPT !.at.row = (@ + ROWS - 1) % ROWS,
                               !.at.hidden = double]
        OBVIOUS
      <4> DEFINE P == {"row", "hidden"}
      <4>2. /\ HasScr(x) /\ Keeps(s, x, {"at"}) /\ AtKeeps(s.at, x.at, P)
            /\ HasScr(y) /\ Keeps(t, y, {"at"}) /\ AtKeeps(t.at, y.at, P)
            /\ x.at.row = (s.at.row + ROWS - 1) % ROWS /\ x.at.hidden = double
            /\ y.at.row = (t.at.row + ROWS - 1) % ROWS /\ y.at.hidden = double
        BY <1>0, <4>1 DEF HasScr, Keeps, AtKeeps, ScrFields, AtFields
      <4>3. \A f \in P : x.at[f] = y.at[f]
        BY <1>0, <4>2
      <4> HIDE DEF P
      <4>4. Sim(x, y)
        BY <4>2, <4>3, SetAlike
      <4>5. u = clear_attributes(x) /\ v = clear_attributes(y)
        BY <1>0, <3>1, <4>0, <4>1 DEF Control
      <4>. QED
        BY <4>4, <4>5
    <3>2. CASE c = "APH"
      <4>1. PICK x, y : /\ x = [s EXCEPT !.at.row = 0, !.at.col = 0]
                        /\ y = [t EXCEPT !.at.row = 0, !.at.col = 0]
        OBVIOUS
      <4> DEFINE P == {"row", "col"}
      <4>2. /\ HasScr(x) /\ Keeps(s, x, {"at"}) /\ AtKeeps(s.at, x.at, P)
            /\ HasScr(y) /\ Keeps(t, y, {"at"}) /\ AtKeeps(t.at, y.at, P)
            /\ \A f \in P : x.at[f] = y.at[f]
        BY <1>0, <4>1 DEF HasScr, Keeps, AtKeeps, ScrFields, AtFields
      <4> HIDE DEF P
      <4>3. Sim(x, y)
        BY <4>2, SetAlike
      <4>4. u = clear_attributes(x) /\ v = clear_attributes(y)
        BY <3>2, <4>1 DEF Control
      <4>. QED
        BY <4>3, <4>4
    <3>. QED
      BY <1>4, <3>1, <3>2
  <2>. QED
    BY <2>1, ClearAlike
<1>5. CASE c = "CS"
  <2>1. PICK x, y : x = clear_attributes(s) /\ y = clear_attributes(t)
    OBVIOUS
  <2>2. Sim(x, y)
    BY <2>1, ClearAlike
  <2>3. PICK m, n : m = [x EXCEPT !.at.row = 0] /\ n = [y EXCEPT !.at.row = 0]
    OBVIOUS
  <2>4. PICK p, q : p = [m EXCEPT !.at.col = 0] /\ q = [n EXCEPT !.at.col = 0]
    OBVIOUS
  <2>5. Sim(p, q)
    <3>1. "row" \in AtFields /\ "col" \in AtFields
      BY DEF AtFields
    <3>2. Sim(m, n)
      BY <2>2, <2>3, <3>1, SetOneAlike
    <3>. QED
      BY <2>4, <3>1, <3>2, SetOneAlike
  <2>6. /\ u = [p EXCEPT !.last_conceal = FALSE, !.page = <<>>, !.textpage = <<>>]
        /\ v = [q EXCEPT !.last_conceal = FALSE, !.page = <<>>, !.textpage = <<>>]
    BY <1>5, <2>1, <2>3, <2>4 DEF Control, ClearScreen
  <2>7. /\ HasScr(u) /\ Keeps(p, u, {"last_conceal", "page", "textpage"})
        /\ HasScr(v) /\ Keeps(q, v, {"last_conceal", "page", "textpage"})
        /\ u.textpage = v.textpage
    <3>1. HasScr(p) /\ HasScr(q)
      BY <2>5, SimFields
    <3>2. /\ HasScr(u) /\ Keeps(p, u, {"last_conceal", "page", "textpage"})
          /\ u.textpage = <<>>
      BY <2>6, <3>1 DEF HasScr, Keeps, ScrFields
    <3>3. /\ HasScr(v) /\ Keeps(q, v, {"last_conceal", "page", "textpage"})
          /\ v.textpage = <<>>
      BY <2>6, <3>1 DEF HasScr, Keeps, ScrFields
    <3>. QED
      BY <3>2, <3>3
  <2>8. /\ u.at = p.at /\ v.at = q.at
        /\ Keeps(p, u, {"at", "conceal", "last_conceal", "page", "textpage"})
        /\ Keeps(q, v, {"at", "conceal", "last_conceal", "page", "textpage"})
    BY <2>7 DEF Keeps, ScrFields
  <2>9. Alike(u.at, v.at)
    BY <2>5, <2>8, SimFields
  <2>. QED
    BY <2>5, <2>7, <2>8, <2>9, SimKept
<1>6. CASE c = "APR"
  <2>1. PICK x, y : x = Texted(s, <<c>>) /\ y = Texted(t, <<c>>)
    OBVIOUS
  <2>2. Sim(x, y)
    BY <2>1, TextedAlike
  <2>3. u = [x EXCEPT !.at.col = 0] /\ v = [y EXCEPT !.at.col = 0]
    BY <1>6, <2>1 DEF Control
  <2>4. "col" \in AtFields
    BY DEF AtFields
  <2>. QED
    BY <2>2, <2>3, <2>4, SetOneAlike
<1>7. CASE c \in {"DC_ON", "DC_OFF", "NUL", "ENQ"}
  BY <1>7 DEF Control
<1>. QED
  BY <1>1, <1>2, <1>3, <1>4, <1>5, <1>6, <1>7 DEF Controls

LEMMA AfterEscapeAlike ==
  ASSUME NEW s, NEW t, Sim(s, t), NEW c,
         NEW u, u = AfterEscape(s, c), NEW v, v = AfterEscape(t, c)
  PROVE  Sim(u, v)
<1>1. PICK x, y : /\ x = [s EXCEPT !.at.lastesc = FALSE]
                  /\ y = [t EXCEPT !.at.lastesc = FALSE]
  OBVIOUS
<1>2. Sim(x, y)
  <2>1. "lastesc" \in AtFields
    BY DEF AtFields
  <2>. QED
    BY <1>1, <2>1, SetOneAlike
<1>3. PICK e, d : e = do_escape_seq(s, c) /\ d = do_escape_seq(t, c)
  OBVIOUS
<1>4. Sim(e, d)
  <2>1. CASE c \in Drawings
    <3>1. PICK p : p = CHOOSE q \in Primitives : Commands[q] = c
      OBVIOUS
    <3>2. e = [x EXCEPT !.drawing = p] /\ d = [y EXCEPT !.drawing = p]
      BY <1>1, <1>3, <2>1, <3>1 DEF do_escape_seq
    <3>. QED
      BY <1>2, <3>2 DEF Sim, HasScr, ScrFields
  <2>2. CASE c \notin Drawings /\ c \in Changing
    <3>1. PICK h, i : h = (x.conceal \/ c = "CONCEAL")
                       /\ i = (y.conceal \/ c = "CONCEAL")
      OBVIOUS
    <3>2. PICK a, b : a = Escaped(x.at, c) /\ b = Escaped(y.at, c)
      OBVIOUS
    <3>3. e = [x EXCEPT !.at = a, !.conceal = h]
      <4>1. e = [x EXCEPT !.at = Escaped(@, c), !.conceal = @ \/ c = "CONCEAL"]
        BY <1>1, <1>3, <2>2 DEF do_escape_seq
      <4>. QED
        BY <3>1, <3>2, <4>1
    <3>4. d = [y EXCEPT !.at = b, !.conceal = i]
      <4>1. d = [y EXCEPT !.at = Escaped(@, c), !.conceal = @ \/ c = "CONCEAL"]
        BY <1>1, <1>3, <2>2 DEF do_escape_seq
      <4>. QED
        BY <3>1, <3>2, <4>1
    <3>5. DOMAIN x.at = AtFields /\ DOMAIN y.at = AtFields /\ Alike(x.at, y.at)
      BY <1>2 DEF Sim, HasScr
    <3>6. DOMAIN a = AtFields /\ DOMAIN b = AtFields /\ Alike(a, b)
      BY <3>2, <3>5, EscapedFacts, EscapedAlike
    <3>. QED
      BY <1>2, <3>3, <3>4, <3>6 DEF Sim, HasScr, ScrFields
  <2>3. CASE c \notin Drawings /\ c \notin Changing
    <3>1. e = Painted(x, "DEL") /\ d = Painted(y, "DEL")
      BY <1>1, <1>3, <2>3 DEF do_escape_seq
    <3>. QED
      BY <1>2, <3>1, PaintedAlike
  <2>. QED
    BY <2>1, <2>2, <2>3
<1>5. PICK f, g : f = Texted(e, <<" ">>) /\ g = Texted(d, <<" ">>)
  OBVIOUS
<1>6. Sim(f, g)
  BY <1>4, <1>5, TextedAlike
<1>7. PICK k, l : /\ k = IF f.at.screen_mode = "MOSAIC" /\ f.at.hold_mosaic
                         THEN f.at.hold_mosaic_char ELSE " "
                  /\ l = IF g.at.screen_mode = "MOSAIC" /\ g.at.hold_mosaic
                         THEN g.at.hold_mosaic_char ELSE " "
  OBVIOUS
<1>8. u = outchar(f, k) /\ v = outchar(g, l)
  BY <1>3, <1>5, <1>7 DEF AfterEscape
<1>9. f.at.screen_mode # "CHINESE" \/ (charsend(f, k) = " " <=> charsend(g, l) = " ")
  BY <1>6, <1>7, SimFields DEF charsend
<1>. QED
  BY <1>6, <1>8, <1>9, OutcharAlike

LEMMA DisplayAlike ==
  ASSUME NEW s, NEW t, Sim(s, t), NEW c,
         s.at.screen_mode # "CHINESE" \/ (Hiding(s) <=> Hiding(t)),
         NEW u, u = Display(s, c), NEW v, v = Display(t, c)
  PROVE  Sim(u, v)
<1>1. PICK text : text = <<IF s.at.screen_mode = "ALPHA" THEN c ELSE " ">>
  OBVIOUS
<1>2. PICK x, y : x = Texted(s, text) /\ y = Texted(t, text)
  OBVIOUS
<1>3. Sim(x, y)
  BY <1>2, TextedAlike
<1>4. /\ x.at = s.at /\ x.conceal = s.conceal /\ x.last_conceal = s.last_conceal
      /\ y.at = t.at /\ y.conceal = t.conceal /\ y.last_conceal = t.last_conceal
  <2>1. HasScr(s) /\ HasScr(t)
    BY SimFields
  <2>2. Keeps(s, x, {"textpage"}) /\ Keeps(t, y, {"textpage"})
    BY <1>2, <2>1, TextedFacts
  <2>. QED
    BY <2>2 DEF Keeps, ScrFields
<1>5. /\ x.at.screen_mode = y.at.screen_mode /\ x.at.lastchin = y.at.lastchin
      /\ x.at.flash = y.at.flash /\ s.at.screen_mode = t.at.screen_mode
  BY <1>3, SimFields
<1>6. PICK late : late \in BOOLEAN
                   /\ (late <=> x.at.screen_mode = "CHINESE" /\ c # " ")
  OBVIOUS
<1>7. x.at.screen_mode # "CHINESE" \/ (Hiding(x) <=> Hiding(y))
  BY <1>4 DEF Hiding
<1>8. u = IF late /\ ~x.at.lastchin /\ ~Hiding(x)
          THEN [x EXCEPT !.at.lastchin = TRUE]
          ELSE outchar(Painted([x EXCEPT !.at.lastchin = @ /\ ~late], c),
                       IF x.at.flash /\ ~late THEN " " ELSE c)
  <2>1. late = (x.at.screen_mode = "CHINESE" /\ c # " ")
    BY <1>6
  <2>. QED
    BY <1>1, <1>2, <2>1, Zenon DEF Display, Hiding
<1>9. v = IF late /\ ~y.at.lastchin /\ ~Hiding(y)
          THEN [y EXCEPT !.at.lastchin = TRUE]
          ELSE outchar(Painted([y EXCEPT !.at.lastchin = @ /\ ~late], c),
                       IF y.at.flash /\ ~late THEN " " ELSE c)
  <2>1. late = (y.at.screen_mode = "CHINESE" /\ c # " ")
    BY <1>5, <1>6
  <2>2. text = <<IF t.at.screen_mode = "ALPHA" THEN c ELSE " ">>
    BY <1>1, <1>5
  <2>. QED
    BY <1>2, <2>1, <2>2, Zenon DEF Display, Hiding
<1>10. CASE late /\ ~x.at.lastchin /\ ~Hiding(x)
  <2>0. PICK set : set = TRUE
    OBVIOUS
  <2>1. /\ u = [x EXCEPT !.at.lastchin = set]
        /\ v = [y EXCEPT !.at.lastchin = set]
    BY <1>5, <1>6, <1>7, <1>8, <1>9, <1>10, <2>0
  <2>2. "lastchin" \in AtFields
    BY DEF AtFields
  <2>. QED
    BY <1>3, <2>1, <2>2, SetOneAlike
<1>11. CASE ~(late /\ ~x.at.lastchin /\ ~Hiding(x))
  <2>1. PICK n : n = (x.at.lastchin /\ ~late)
    OBVIOUS
  <2>2. PICK p, q : p = [x EXCEPT !.at.lastchin = n] /\ q = [y EXCEPT !.at.lastchin = n]
    OBVIOUS
  <2>3. PICK ch : ch = IF x.at.flash /\ ~late THEN " " ELSE c
    OBVIOUS
  <2>4. u = outchar(Painted(p, c), ch)
    BY <1>8, <1>11, <2>1, <2>2, <2>3
  <2>5. v = outchar(Painted(q, c), ch)
    BY <1>5, <1>6, <1>7, <1>9, <1>11, <2>1, <2>2, <2>3
  <2>6. /\ HasScr(p) /\ Keeps(x, p, {"at"}) /\ AtKeeps(x.at, p.at, {"lastchin"})
        /\ HasScr(q) /\ Keeps(y, q, {"at"}) /\ AtKeeps(y.at, q.at, {"lastchin"})
    <3>1. HasScr(x) /\ HasScr(y)
      BY <1>3, SimFields
    <3>. QED
      BY <2>2, <3>1 DEF HasScr, Keeps, AtKeeps, ScrFields, AtFields
  <2>7. Sim(p, q)
    <3>1. "lastchin" \in AtFields
      BY DEF AtFields
    <3>. QED
      BY <1>3, <2>2, <3>1, SetOneAlike
  <2>8. PICK f, g : f = Painted(p, c) /\ g = Painted(q, c)
    OBVIOUS
  <2>9. Sim(f, g)
    BY <2>7, <2>8, PaintedAlike
  <2>10. /\ Keeps(p, f, {"at"}) /\ AtKeeps(p.at, f.at, {"hold_mosaic_char"})
         /\ Keeps(q, g, {"at"}) /\ AtKeeps(q.at, g.at, {"hold_mosaic_char"})
    BY <2>6, <2>8, PaintedFacts
  <2>11. /\ f.conceal = x.conceal /\ f.last_conceal = x.last_conceal
         /\ g.conceal = y.conceal /\ g.last_conceal = y.last_conceal
         /\ f.at.screen_mode = x.at.screen_mode
    BY <2>6, <2>10 DEF Keeps, AtKeeps, ScrFields, AtFields
  <2>12. f.at.hidden = g.at.hidden
    BY <2>9, SimFields
  <2>13. \/ f.at.screen_mode # "CHINESE"
         \/ charsend(f, ch) = " " <=> charsend(g, ch) = " "
    BY <1>7, <2>11, <2>12 DEF charsend, Hiding
  <2>. QED
    BY <2>4, <2>5, <2>8, <2>9, <2>13, OutcharAlike
<1>. QED
  BY <1>10, <1>11


LEMMA ParameterAlike ==
  ASSUME NEW s, NEW t, Sim(s, t), NEW c,
         NEW u, u = Parameter(s, c), NEW v, v = Parameter(t, c)
  PROVE  Sim(u, v)
<1>1. HasScr(s) /\ HasScr(t) /\ s.drawing = t.drawing
      /\ s.draw_para_rxd = t.draw_para_rxd
  BY DEF Sim
<1>2. /\ HasScr(u) /\ Keeps(s, u, {"drawing", "draw_para_rxd"})
      /\ HasScr(v) /\ Keeps(t, v, {"drawing", "draw_para_rxd"})
  BY <1>1 DEF Parameter, HasScr, Keeps, ScrFields
<1>3. u.drawing = v.drawing /\ u.draw_para_rxd = v.draw_para_rxd
  BY <1>1 DEF Parameter, HasScr, ScrFields
<1>4. /\ u.at = s.at /\ v.at = t.at /\ u.textpage = s.textpage
      /\ v.textpage = t.textpage /\ u.view_conceal = s.view_conceal
      /\ v.view_conceal = t.view_conceal
  BY <1>2 DEF Keeps, ScrFields
<1>. QED
  BY <1>2, <1>3, <1>4 DEF Sim

LEMMA HandledAlike ==
  ASSUME NEW s, NEW t, Sim(s, t), NEW c,
         s.at.screen_mode # "CHINESE" \/ (Hiding(s) <=> Hiding(t)),
         NEW u, u = Handled(s, c), NEW v, v = Handled(t, c)
  PROVE  Sim(u, v)
<1>1. s.drawing = t.drawing /\ s.at.lastesc = t.at.lastesc
  BY SimFields DEF Sim
<1>2. CASE s.drawing # "none"
  BY <1>1, <1>2, ParameterAlike DEF Handled
<1>3. CASE s.drawing = "none" /\ s.at.lastesc
  BY <1>1, <1>3, AfterEscapeAlike DEF Handled
<1>4. CASE s.drawing = "none" /\ ~s.at.lastesc /\ c \in Controls
  BY <1>1, <1>4, ControlAlike DEF Handled
<1>5. CASE s.drawing = "none" /\ ~s.at.lastesc /\ c \notin Controls
  BY <1>1, <1>5, DisplayAlike DEF Handled
<1>. QED
  BY <1>2, <1>3, <1>4, <1>5

LEMMA CharinAlike ==
  ASSUME NEW s, NEW t, Sim(s, t), NEW b,
         s.at.screen_mode # "CHINESE" \/ (Hiding(s) <=> Hiding(t)),
         NEW u, u = charin(s, b), NEW v, v = charin(t, b)
  PROVE  Sim(u, v)
<1>1. PICK x : x = IF s.view_conceal THEN s ELSE Kept(s, Code(b))
  OBVIOUS
<1>2. PICK y : y = IF t.view_conceal THEN t ELSE Kept(t, Code(b))
  OBVIOUS
<1>3. HasScr(s) /\ HasScr(t)
  BY SimFields
<1>4. HasScr(x) /\ Keeps(s, x, {"page"}) /\ HasScr(y) /\ Keeps(t, y, {"page"})
  BY <1>1, <1>2, <1>3 DEF Kept, HasScr, Keeps, ScrFields
<1>5. /\ x.at = s.at /\ x.textpage = s.textpage /\ x.conceal = s.conceal
      /\ x.last_conceal = s.last_conceal
      /\ y.at = t.at /\ y.textpage = t.textpage /\ y.conceal = t.conceal
      /\ y.last_conceal = t.last_conceal
      /\ Keeps(s, x, {"at", "conceal", "last_conceal", "page", "textpage"})
      /\ Keeps(t, y, {"at", "conceal", "last_conceal", "page", "textpage"})
  BY <1>4 DEF Keeps, ScrFields
<1>6. Alike(x.at, y.at)
  BY <1>5, SimFields
<1>7. ~t.view_conceal => x.textpage = y.textpage
  BY <1>5 DEF Sim
<1>8. Sim(x, y)
  BY <1>4, <1>5, <1>6, <1>7, SimKept
<1>9. x.at.screen_mode # "CHINESE" \/ (Hiding(x) <=> Hiding(y))
  BY <1>5 DEF Hiding
<1>10. u = Handled(x, Code(b)) /\ v = Handled(y, Code(b))
  BY <1>1, <1>2, CharinHandles
<1>. QED
  BY <1>8, <1>9, <1>10, HandledAlike

(* A CS makes the attributes those of the program start, but for what is   *)
(* left as it is.                                                          *)
LEMMA ClearedScreen ==
  ASSUME NEW s, OnScreen(s), s.drawing = "none", ~s.at.lastesc, ~s.at.hidden,
         ~s.at.chinese_special, NEW t, t = charin(s, "CS")
  PROVE  t.at = Home
<1>1. PICK x : x = IF s.view_conceal THEN s ELSE Kept(s, "CS")
  OBVIOUS
<1>2. HasScr(x) /\ Keeps(s, x, {"page"})
  BY <1>1 DEF OnScreen, Kept, HasScr, Keeps, ScrFields
<1>3. x.at = s.at /\ x.drawing = s.drawing
  BY <1>2 DEF Keeps, ScrFields
<1>4. t = ClearScreen(x)
  <2>1. Code("CS") = "CS" /\ "CS" \in Controls
    BY DEF Code, Controls
  <2>2. t = Handled(x, "CS")
    BY <1>1, <2>1, CharinHandles
  <2>. QED
    BY <1>3, <2>1, <2>2 DEF Handled, Control
<1>5. PICK u : u = clear_attributes(x)
  OBVIOUS
<1>6. PICK w : w = [u EXCEPT !.at.row = 0, !.at.col = 0]
  OBVIOUS
<1>7. t = [w EXCEPT !.last_conceal = FALSE, !.page = <<>>, !.textpage = <<>>]
  BY <1>4, <1>5, <1>6 DEF ClearScreen
<1>8. /\ HasScr(u)
      /\ \A f \in AtFields : u.at[f] = IF f \in Cleared THEN Home[f]
                                       ELSE x.at[f]
  BY <1>2, <1>5, ClearFacts
<1>9. /\ HasScr(w) /\ AtKeeps(u.at, w.at, {"row", "col"})
      /\ w.at = [u.at EXCEPT !.row = 0, !.col = 0]
  BY <1>6, <1>8 DEF HasScr, AtKeeps, ScrFields, AtFields
<1>10. t.at = w.at
  BY <1>7, <1>9 DEF HasScr, ScrFields
<1>11. /\ s.at.hidden = FALSE /\ s.at.lastesc = FALSE
       /\ s.at.chinese_special = FALSE
  BY DEF OnScreen, Sited, Flags
<1>12. /\ Home.hidden = FALSE /\ Home.lastesc = FALSE
       /\ Home.chinese_special = FALSE /\ Home.row = 0 /\ Home.col = 0
  BY DEF Home
<1>13. \A f \in Cleared : w.at[f] = Home[f]
  BY <1>8, <1>9, HomeFields DEF AtKeeps
<1>14. /\ w.at["hidden"] = Home["hidden"] /\ w.at["lastesc"] = Home["lastesc"]
       /\ w.at["chinese_special"] = Home["chinese_special"]
       /\ w.at["row"] = Home["row"] /\ w.at["col"] = Home["col"]
  <2>1. /\ u.at["hidden"] = s.at.hidden /\ u.at["lastesc"] = s.at.lastesc
        /\ u.at["chinese_special"] = s.at.chinese_special
    BY <1>3, <1>8, HomeFields DEF AtFields
  <2>2. /\ w.at["hidden"] = u.at["hidden"] /\ w.at["lastesc"] = u.at["lastesc"]
        /\ w.at["chinese_special"] = u.at["chinese_special"]
        /\ w.at["row"] = 0 /\ w.at["col"] = 0
    BY <1>8, <1>9 DEF HasScr, AtKeeps, AtFields
  <2>. QED
    BY <1>11, <1>12, <2>1, <2>2
<1>15. \A f \in AtFields : w.at[f] = Home[f]
  BY <1>13, <1>14, HomeFields
<1>16. w.at = [f \in AtFields |-> w.at[f]] /\ Home = [f \in AtFields |-> Home[f]]
  <2>1. w.at = [f \in AtFields |-> w.at[f]]
    BY <1>8, <1>9 DEF HasScr
  <2>2. Home = [f \in AtFields |-> Home[f]]
    BY DEF Home, AtFields
  <2>. QED
    BY <2>1, <2>2
<1>. QED
  BY <1>10, <1>15, <1>16


-----------------------------------------------------------------------------
(* The screens a page was recorded on: H holds the decoder before each of  *)
(* its bytes, the last one being s.  FK09 in between ends the concealing   *)
(* of the row, and so may change how the next one is shown.                *)
Live(x) == /\ OnScreen(x) /\ ~x.view_conceal
           /\ x.drawing # "none" => ~x.at.lastesc

Same(z, y) ==
  /\ y.at = z.at /\ y.drawing = z.drawing
  /\ y.draw_para_rxd = z.draw_para_rxd /\ y.textpage = z.textpage
  /\ y.conceal => z.conceal

Past(s, H) ==
  /\ DOMAIN H = 1 .. Len(s.page) + 1 /\ H[Len(s.page) + 1] = s
  /\ \A i \in 1 .. Len(s.page) + 1 : Live(H[i])
  /\ H[1].drawing = "none" /\ ~H[1].conceal /\ H[1].textpage = <<>>
  /\ \A i \in 1 .. Len(s.page) :
       /\ H[i].at = s.page[i].at /\ Code(s.page[i].data) = s.page[i].data
       /\ ~Empties(H[i], s.page[i].data)
       /\ Same(charin(H[i], s.page[i].data), H[i + 1])

Faithful(s) == \E H : Past(s, H)

LEMMA PageLength ==
  ASSUME NEW s, OnScreen(s)
  PROVE  Len(s.page) \in Nat
BY DEF OnScreen, Paged

LEMMA CodeOnce ==
  ASSUME NEW s, NEW b
  PROVE  charin(s, Code(b)) = charin(s, b) /\ Code(Code(b)) = Code(b)
<1>1. Code(Code(b)) = Code(b)
  BY DEF Code
<1>. QED
  BY <1>1, CharinHandles

LEMMA LiveOn ==
  ASSUME NEW s, Live(s), NEW b, NEW t, t = charin(s, b)
  PROVE  Live(t)
<1>1. Received(s, Code(b), t)
  BY CharinFacts DEF Live
<1>2. OnScreen(t) /\ ~t.view_conceal
  BY <1>1 DEF Received, Live
<1>3. t.drawing # "none" => ~t.at.lastesc
  BY <1>1 DEF Received, Live, Begins
<1>. QED
  BY <1>2, <1>3 DEF Live

LEMMA FaithfulAnew ==
  ASSUME NEW s, Live(s), s.page = <<>>, s.textpage = <<>>, s.drawing = "none",
         ~s.conceal
  PROVE  Faithful(s)
<1>1. PICK H : H = [i \in 1 .. 1 |-> s]
  OBVIOUS
<1>2. Len(s.page) = 0 /\ 0 + 1 = 1
  OBVIOUS
<1>3. DOMAIN H = 1 .. 1 /\ H[1] = s /\ \A i \in 1 .. 1 : H[i] = s
  BY <1>1
<1>4. \A i \in 1 .. 0 : FALSE
  OBVIOUS
<1>5. Past(s, H)
  BY <1>2, <1>3, <1>4 DEF Past
<1>. QED
  BY <1>5 DEF Faithful

LEMMA FaithfulOn ==
  ASSUME NEW s, Faithful(s), Live(s), NEW b, NEW t, t = charin(s, b)
  PROVE  Faithful(t)
<1> DEFINE c == Code(b)
           n == Len(s.page)
<1>1. Received(s, c, t) /\ Live(t)
  BY CharinFacts, LiveOn DEF Live
<1>2. CASE Empties(s, c)
  <2>1. t.drawing = "none"
    BY <1>1, <1>2 DEF Received, Empties, Begins
  <2>. QED
    BY <1>1, <1>2, <2>1, FaithfulAnew DEF Received
<1>3. CASE ~Empties(s, c)
  <2>1. PICK H : Past(s, H)
    BY DEF Faithful
  <2>2. n \in Nat
    BY PageLength DEF Live
  <2>3. t.page = Append(s.page, [data |-> c, at |-> s.at])
    BY <1>1, <1>3 DEF Received, Live
  <2>4. /\ Len(t.page) = n + 1 /\ t.page[n + 1] = [data |-> c, at |-> s.at]
        /\ \A i \in 1 .. n : t.page[i] = s.page[i]
    <3>1. PICK S : s.page \in Seq(S)
      BY DEF Live, OnScreen, Paged
    <3>. QED
      BY <2>3, <3>1
  <2>5. PICK K : K = [i \in 1 .. n + 2 |-> IF i = n + 2 THEN t ELSE H[i]]
    OBVIOUS
  <2> HIDE DEF c, n
  <2>6. /\ DOMAIN K = 1 .. n + 2 /\ K[n + 2] = t
        /\ \A i \in 1 .. n + 1 : K[i] = H[i]
    BY <2>2, <2>5
  <2>7. /\ H[n + 1] = s
        /\ \A i \in 1 .. n + 1 : Live(H[i])
        /\ H[1].drawing = "none" /\ ~H[1].conceal /\ H[1].textpage = <<>>
        /\ \A i \in 1 .. n :
             /\ H[i].at = s.page[i].at /\ Code(s.page[i].data) = s.page[i].data
             /\ ~Empties(H[i], s.page[i].data)
             /\ Same(charin(H[i], s.page[i].data), H[i + 1])
    BY <2>1 DEF Past, n
  <2>8. Len(t.page) + 1 = n + 2 /\ 1 \in 1 .. n + 1
    BY <2>2, <2>4
  <2>9. \A i \in 1 .. n + 2 : Live(K[i])
    <3> TAKE i \in 1 .. n + 2
    <3>1. i = n + 2 \/ i \in 1 .. n + 1
      BY <2>2
    <3>. QED
      BY <1>1, <2>6, <2>7, <3>1
  <2>10. ASSUME NEW i \in 1 .. n + 1
         PROVE  /\ K[i].at = t.page[i].at /\ Code(t.page[i].data) = t.page[i].data
                /\ ~Empties(K[i], t.page[i].data)
                /\ Same(charin(K[i], t.page[i].data), K[i + 1])
    <3>1. CASE i \in 1 .. n
      <4>1. i + 1 \in 1 .. n + 1
        BY <2>2, <3>1
      <4>. QED
        BY <2>4, <2>6, <2>7, <3>1, <4>1
    <3>2. CASE i = n + 1
      <4>1. K[i] = s /\ K[i + 1] = t /\ t.page[i].at = s.at /\ t.page[i].data = c
        BY <2>2, <2>4, <2>6, <2>7, <3>2
      <4>2. charin(s, c) = t /\ Code(c) = c
        BY CodeOnce DEF c
      <4>. QED
        BY <1>3, <4>1, <4>2 DEF Same
    <3>. QED
      BY <2>2, <3>1, <3>2
  <2>11. Past(t, K)
    BY <2>4, <2>6, <2>7, <2>8, <2>9, <2>10 DEF Past
  <2>. QED
    BY <2>11 DEF Faithful
<1>. QED
  BY <1>2, <1>3

(* FK09 leaves the page's past what it was, if it leaves the drawing.      *)
LEMMA LiveRevealed ==
  ASSUME NEW s, Live(s), NEW t, t = reveal(s), t.drawing = s.drawing
  PROVE  Live(t)
<1>1. OnScreen(t) /\ ~t.view_conceal /\ t.at = s.at
  BY RevealFacts DEF Live
<1>. QED
  BY <1>1 DEF Live

LEMMA FaithfulRevealed ==
  ASSUME NEW s, Faithful(s), Live(s), NEW t, t = reveal(s),
         t.drawing = s.drawing, t.draw_para_rxd = s.draw_para_rxd
  PROVE  Faithful(t)
<1>1. /\ OnScreen(t) /\ ~t.view_conceal /\ ~t.conceal /\ t.at = s.at
      /\ \/ t.page = s.page /\ t.textpage = s.textpage
         \/ t.page = <<>> /\ t.textpage = <<>> /\ t.drawing = "none"
  BY RevealFacts DEF Live
<1>2. Live(t)
  BY LiveRevealed
<1>3. CASE t.page = <<>> /\ t.textpage = <<>> /\ t.drawing = "none"
  BY <1>1, <1>2, <1>3, FaithfulAnew
<1>4. CASE t.page = s.page /\ t.textpage = s.textpage
  <2>1. PICK H : Past(s, H)
    BY DEF Faithful
  <2> DEFINE n == Len(s.page)
  <2>2. n \in Nat
    BY PageLength DEF Live
  <2>3. PICK K : K = [i \in 1 .. n + 1 |-> IF i = n + 1 THEN t ELSE H[i]]
    OBVIOUS
  <2>4. /\ H[n + 1] = s
        /\ \A i \in 1 .. n + 1 : Live(H[i])
        /\ H[1].drawing = "none" /\ ~H[1].conceal /\ H[1].textpage = <<>>
        /\ \A i \in 1 .. n :
             /\ H[i].at = s.page[i].at /\ Code(s.page[i].data) = s.page[i].data
             /\ ~Empties(H[i], s.page[i].data)
             /\ Same(charin(H[i], s.page[i].data), H[i + 1])
    BY <2>1 DEF Past
  <2> HIDE DEF n
  <2>5. /\ DOMAIN K = 1 .. n + 1 /\ K[n + 1] = t
        /\ \A i \in 1 .. n : K[i] = H[i]
    BY <2>2, <2>3
  <2>6. \A i \in 1 .. n + 1 : Live(K[i])
    <3> TAKE i \in 1 .. n + 1
    <3>1. i = n + 1 \/ i \in 1 .. n
      BY <2>2
    <3>. QED
      BY <1>2, <2>4, <2>5, <3>1
  <2>7. K[1].drawing = "none" /\ ~K[1].conceal /\ K[1].textpage = <<>>
    <3>1. CASE n = 0
      BY <1>1, <1>4, <2>4, <2>5, <3>1
    <3>2. CASE n # 0
      <4>1. 1 \in 1 .. n
        BY <2>2, <3>2
      <4>. QED
        BY <2>4, <2>5, <4>1
    <3>. QED
      BY <3>1, <3>2
  <2>8. ASSUME NEW i \in 1 .. n
        PROVE  /\ K[i].at = t.page[i].at /\ Code(t.page[i].data) = t.page[i].data
               /\ ~Empties(K[i], t.page[i].data)
               /\ Same(charin(K[i], t.page[i].data), K[i + 1])
    <3>1. CASE i + 1 \in 1 .. n
      BY <1>4, <2>4, <2>5, <3>1
    <3>2. CASE i = n
      <4>1. Same(charin(H[i], s.page[i].data), s)
        BY <2>4, <3>2
      <4>2. Same(charin(H[i], s.page[i].data), t)
        BY <1>1, <1>4, <4>1 DEF Same
      <4>. QED
        BY <1>4, <2>4, <2>5, <3>2, <4>2
    <3>. QED
      BY <2>2, <3>1, <3>2
  <2>9. Past(t, K)
    BY <1>4, <2>5, <2>6, <2>7, <2>8 DEF Past, n
  <2>. QED
    BY <2>9 DEF Faithful
<1>. QED
  BY <1>1, <1>3, <1>4

-----------------------------------------------------------------------------
(* What the past of a page tells of its entry i.                           *)
LEMMA PastStep ==
  ASSUME NEW s, NEW H, Past(s, H), NEW i \in 1 .. Len(s.page),
         NEW c, c = s.page[i].data, NEW z, z = charin(H[i], c)
  PROVE  /\ Live(H[i]) /\ H[i].at = s.page[i].at /\ ~Empties(H[i], c)
         /\ Code(c) = c /\ Received(H[i], c, z) /\ Same(z, H[i + 1])
<1>1. i \in 1 .. Len(s.page) + 1
  OBVIOUS
<1>2. /\ Live(H[i]) /\ H[i].at = s.page[i].at /\ ~Empties(H[i], c)
      /\ Code(c) = c /\ Same(z, H[i + 1])
  BY <1>1 DEF Past
<1>3. Received(H[i], Code(c), z)
  BY <1>2, CharinFacts DEF Live
<1>. QED
  BY <1>2, <1>3

LEMMA PastLive ==
  ASSUME NEW s, NEW H, Past(s, H)
  PROVE  Live(s) /\ Len(s.page) \in Nat /\ Paged(s.page)
         /\ H[Len(s.page) + 1] = s /\ Live(H[1]) /\ H[1].drawing = "none"
<1>1. 1 \in 1 .. Len(s.page) + 1
  <2>1. CASE Len(s.page) \in Nat
    BY <2>1
  <2>2. CASE Len(s.page) \notin Nat
    BY <2>2 DEF Past
  <2>. QED
    BY <2>1, <2>2
<1>. QED
  BY <1>1, PageLength DEF Past, Live, OnScreen

(* Where nothing draws, no drawing was in progress.                        *)
LEMMA PastPlain ==
  ASSUME NEW s, Live(s), NEW H, Past(s, H), NEW k \in 0 .. Len(s.page),
         \A i \in 1 .. k : ~(s.page[i].at.lastesc /\ s.page[i].data \in Drawings)
  PROVE  \A i \in 1 .. k + 1 : H[i].drawing = "none"
<1> DEFINE G == {i \in 1 .. k + 1 : H[i].drawing = "none"}
<1>0. Len(s.page) \in Nat /\ k \in Int
  BY PageLength DEF Live
<1>1. 1 \in G
  BY <1>0 DEF Past
<1>2. ASSUME NEW i \in 1 + 1 .. k + 1, i - 1 \in G
      PROVE  i \in G
  <2>1. PICK q : q = i - 1
    OBVIOUS
  <2>2. q \in 1 .. Len(s.page) /\ q \in 1 .. k /\ i = q + 1 /\ i \in 1 .. k + 1
    BY <1>0, <2>1
  <2>3. PICK c : c = s.page[q].data
    OBVIOUS
  <2>4. PICK z : z = charin(H[q], c)
    OBVIOUS
  <2>5. /\ H[q].at = s.page[q].at /\ Received(H[q], c, z) /\ Same(z, H[q + 1])
    BY <2>2, <2>3, <2>4, PastStep
  <2>6. H[q].drawing = "none" /\ ~Begins(H[q], c)
    BY <1>2, <2>1, <2>2, <2>3, <2>5 DEF Begins
  <2>7. z.drawing = "none"
    BY <2>5, <2>6 DEF Received
  <2>. QED
    BY <2>2, <2>5, <2>7 DEF Same
<1>3. 1 .. k + 1 \subseteq G
  <2> HIDE DEF G
  <2>1. PICK hi : hi = k + 1
    OBVIOUS
  <2>2. 1 \in Int /\ hi \in Int /\ \A i \in 1 + 1 .. hi : i - 1 \in G => i \in G
    BY <1>0, <1>2, <2>1
  <2>3. 1 .. hi \subseteq G
    BY <1>1, <2>2, PassedOn
  <2>. QED
    BY <2>1, <2>3
<1>. QED
  BY <1>3

(* What the replay begins with.                                            *)
ReplayFrom(s, v, k, x) ==
  /\ OnScreen(x) /\ x.view_conceal /\ x.at = s.page[k].at
  /\ x.page = s.page /\ x.textpage = s.textpage
  /\ x.last_conceal = v.last_conceal
  /\ x.drawing = s.drawing /\ x.draw_para_rxd = s.draw_para_rxd

LEMMA ReplayBegins ==
  ASSUME NEW s, Live(s), NEW v, v = Revealing(s), NEW k \in 1 .. Len(s.page),
         NEW x, x = [v EXCEPT !.at = v.page[k].at]
  PROVE  ReplayFrom(s, v, k, x)
<1>1. PICK S : s.page \in Seq(S) /\ \A e \in S : Entry(e)
  BY DEF Live, OnScreen, Paged
<1>2. Entry(s.page[k])
  BY <1>1
<1>3. /\ OnScreen(v) /\ Keeps(s, v, {"view_conceal", "last_conceal"})
      /\ v.view_conceal
  BY RevealingFacts DEF Live
<1>4. /\ v.page = s.page /\ v.textpage = s.textpage
      /\ v.drawing = s.drawing /\ v.draw_para_rxd = s.draw_para_rxd
  BY <1>3 DEF Keeps, ScrFields
<1>5. x.at = s.page[k].at /\ HasScr(x) /\ Keeps(v, x, {"at"})
  BY <1>2, <1>3, <1>4 DEF OnScreen, HasScr, Keeps, ScrFields, Entry
<1>6. /\ x.page = v.page /\ x.textpage = v.textpage
      /\ x.last_conceal = v.last_conceal /\ x.view_conceal = v.view_conceal
      /\ x.drawing = v.drawing /\ x.draw_para_rxd = v.draw_para_rxd
  BY <1>5 DEF Keeps, ScrFields
<1>7. OnScreen(x)
  BY <1>2, <1>3, <1>4, <1>5, <1>6 DEF OnScreen, Pending, Entry
<1>. QED
  BY <1>3, <1>4, <1>5, <1>6, <1>7 DEF ReplayFrom

(* A page that does not draw is replayed without a drawing, and so without *)
(* a CS: the decoder waits for a code after ESC where it did before.       *)
LEMMA PlainReplay ==
  ASSUME NEW s, NEW H, Past(s, H), NEW n, n = Len(s.page),
         \A i \in 1 .. n : ~(s.page[i].at.lastesc /\ s.page[i].data \in Drawings),
         NEW v, v = Revealing(s), NEW k \in 1 .. n
  PROVE  LET u == Replayed(v, k, n)
         IN  /\ OnScreen(u) /\ u.page = s.page /\ u.textpage = s.textpage
             /\ u.last_conceal = v.last_conceal /\ u.drawing = "none"
<1>0. Live(s) /\ n \in Nat /\ k \in Nat /\ k - 1 \in Int /\ k - 1 <= n
  BY PastLive
<1>1. PICK x : x = [v EXCEPT !.at = v.page[k].at]
  OBVIOUS
<1>2. v.page = s.page
  BY <1>0, RevealingFacts DEF Live, Keeps, ScrFields
<1>3. PICK f : Walk(f, k - 1, n, x, s.page, "replay") /\ f[n] = Replayed(v, k, n)
  <2>1. n \in Int
    BY <1>0
  <2>2. \E f : Walk(f, k - 1, n, x, v.page, "replay") /\ f[n] = Replayed(v, k, n)
    BY <1>0, <1>1, <2>1, ReplayedWalk
  <2>. QED
    BY <1>2, <2>2
<1>4. /\ f[k - 1] = x
      /\ \A i \in k - 1 + 1 .. n : f[i] = Goes(f[i - 1], s.page[i].data, "replay")
  BY <1>0, <1>3, WalkSteps
<1>5. \A i \in 1 .. n + 1 : H[i].drawing = "none"
  <2>1. n \in 0 .. Len(s.page)
    BY <1>0
  <2>. QED
    BY <1>0, <2>1, PastPlain
<1> DEFINE Going(i) == /\ OnScreen(f[i]) /\ f[i].view_conceal
                       /\ f[i].page = s.page /\ f[i].textpage = s.textpage
                       /\ f[i].last_conceal = v.last_conceal
                       /\ f[i].drawing = "none"
                       /\ f[i].at.lastesc <=> H[i + 1].at.lastesc
           G == {i \in k - 1 .. n : Going(i)}
<1>6. Going(k - 1)
  <2>1. /\ OnScreen(x) /\ x.view_conceal /\ x.at = s.page[k].at
        /\ x.page = s.page /\ x.textpage = s.textpage
        /\ x.last_conceal = v.last_conceal
        /\ x.drawing = s.drawing
    <3>1. k \in 1 .. Len(s.page)
      OBVIOUS
    <3>2. ReplayFrom(s, v, k, x)
      BY <1>0, <1>1, <3>1, ReplayBegins
    <3>. QED
      BY <3>2 DEF ReplayFrom
  <2>2. H[k].at = s.page[k].at /\ (k - 1) + 1 = k
    BY <1>0 DEF Past
  <2>3. s.drawing = "none"
    <3>1. H[n + 1] = s /\ n + 1 \in 1 .. n + 1
      BY <1>0 DEF Past
    <3>. QED
      BY <1>5, <3>1
  <2>. QED
    BY <1>4, <2>1, <2>2, <2>3
<1>7. ASSUME NEW i \in k - 1 + 1 .. n, i - 1 \in G
      PROVE  i \in G
  <2>1. i \in 1 .. n /\ (i - 1) + 1 = i /\ i \in k - 1 .. n
    BY <1>0
  <2>2. PICK c : c = s.page[i].data
    OBVIOUS
  <2>3. PICK z : z = charin(H[i], c)
    OBVIOUS
  <2>4. /\ H[i].at = s.page[i].at /\ Received(H[i], c, z) /\ Same(z, H[i + 1])
        /\ Code(c) = c /\ ~Empties(H[i], c) /\ H[i].drawing = "none"
        /\ s.page[i] = s.page[i]
    BY <1>5, <2>1, <2>2, <2>3, PastStep
  <2>5. PICK g : g = f[i - 1]
    OBVIOUS
  <2>6. /\ OnScreen(g) /\ g.view_conceal /\ g.page = s.page
        /\ g.textpage = s.textpage /\ g.last_conceal = v.last_conceal
        /\ g.drawing = "none" /\ (g.at.lastesc <=> H[i].at.lastesc)
    BY <1>7, <2>1, <2>5
  <2>7. s.page # <<>>
    BY <2>1
  <2>8. f[i] = charin(g, c)
    BY <1>4, <2>2, <2>5, <2>6, <2>7 DEF Goes, Again
  <2>9. Received(g, c, f[i])
    BY <2>4, <2>6, <2>8, CharinFacts
  <2>10. ~Empties(g, c) /\ ~Begins(g, c)
    BY <2>1, <2>2, <2>4, <2>6 DEF Empties, Begins
  <2>11. /\ OnScreen(f[i]) /\ f[i].view_conceal /\ f[i].page = s.page
         /\ f[i].textpage = s.textpage /\ f[i].last_conceal = v.last_conceal
         /\ f[i].drawing = "none"
         /\ f[i].at.lastesc <=> ~g.at.lastesc /\ c = "ESC"
    BY <2>6, <2>9, <2>10 DEF Received
  <2>12. z.at.lastesc <=> ~H[i].at.lastesc /\ c = "ESC"
    BY <2>4 DEF Received
  <2>13. H[i + 1].at = z.at
    BY <2>4 DEF Same
  <2>. QED
    BY <2>1, <2>6, <2>11, <2>12, <2>13
<1>8. Going(n)
  <2>1. k - 1 \in G
    BY <1>0, <1>6
  <2> HIDE DEF G
  <2>2. n \in G
    <3>1. PICK lo : lo = k - 1
      OBVIOUS
    <3>2. lo \in Int /\ n \in Int /\ n \in lo .. n
      BY <1>0, <3>1
    <3>3. lo \in G /\ \A i \in lo + 1 .. n : i - 1 \in G => i \in G
      BY <1>7, <2>1, <3>1
    <3>4. lo .. n \subseteq G
      BY <3>2, <3>3, PassedOn
    <3>. QED
      BY <3>2, <3>4
  <2>. QED
    BY <2>2 DEF G
<1>. QED
  BY <1>3, <1>8

(* reveal leaves all but the concealing where nothing draws.               *)
LEMMA PlainReveal ==
  ASSUME NEW s, NEW H, Past(s, H),
         \A i \in 1 .. Len(s.page) :
           ~(s.page[i].at.lastesc /\ s.page[i].data \in Drawings)
  PROVE  reveal(s) = [s EXCEPT !.last_conceal = ~@, !.conceal = FALSE]
<1>0. PICK n : n = Len(s.page)
  OBVIOUS
<1>1. Live(s) /\ n \in Nat /\ Paged(s.page)
  BY <1>0, PastLive
<1>2. PICK v : v = Revealing(s)
  OBVIOUS
<1>3. PICK u : u = IF Concealing(v.page) = {} THEN v
                   ELSE Replayed(v, FirstConcealed(v.page), Len(v.page))
  OBVIOUS
<1>4. PICK t : t = reveal(s)
  OBVIOUS
<1>5. t = [u EXCEPT !.at = s.at, !.view_conceal = FALSE, !.conceal = FALSE]
  BY <1>2, <1>3, <1>4 DEF reveal
<1>6. PICK x : x = ~s.last_conceal
  OBVIOUS
<1>7. v = [s EXCEPT !.view_conceal = TRUE, !.last_conceal = x]
  <2>1. v = [s EXCEPT !.view_conceal = TRUE, !.last_conceal = ~s.last_conceal]
    BY <1>2, Zenon DEF Revealing
  <2>. QED
    BY <1>6, <2>1, Zenon
<1>8. PICK w : w = [s EXCEPT !.last_conceal = x, !.conceal = FALSE]
  OBVIOUS
<1>9. [s EXCEPT !.last_conceal = ~@, !.conceal = FALSE] = w
  <2>1. [s EXCEPT !.last_conceal = ~@, !.conceal = FALSE]
          = [s EXCEPT !.last_conceal = ~s.last_conceal, !.conceal = FALSE]
    BY Zenon
  <2>. QED
    BY <1>6, <1>8, <2>1, Zenon
<1>10. /\ v.last_conceal = x /\ v.page = s.page /\ v.textpage = s.textpage
       /\ v.drawing = s.drawing /\ OnScreen(v)
  <2>1. HasScr(s)
    BY <1>1 DEF Live, OnScreen
  <2>2. OnScreen(v)
    BY <1>1, <1>2, RevealingFacts DEF Live
  <2>. QED
    BY <1>7, <2>1, <2>2 DEF HasScr, ScrFields
<1>11. s.drawing = "none"
  <2>1. n \in 0 .. Len(s.page) /\ n + 1 \in 1 .. n + 1 /\ H[n + 1] = s
    BY <1>0, <1>1, PastLive
  <2>2. \A i \in 1 .. n : ~(s.page[i].at.lastesc /\ s.page[i].data \in Drawings)
    BY <1>0
  <2>3. \A i \in 1 .. n + 1 : H[i].drawing = "none"
    BY <1>1, <2>1, <2>2, PastPlain
  <2>. QED
    BY <2>1, <2>3
<1>12. /\ OnScreen(u) /\ u.page = s.page /\ u.textpage = s.textpage
       /\ u.last_conceal = x /\ u.drawing = "none"
  <2>1. CASE Concealing(v.page) = {}
    BY <1>3, <1>10, <1>11, <2>1
  <2>2. CASE Concealing(v.page) # {}
    <3>1. PICK k : k = FirstConcealed(s.page)
      OBVIOUS
    <3>2. k \in 1 .. n
      <4>1. k \in 1 .. n - 1
        BY <1>0, <1>1, <1>10, <2>2, <3>1, FirstConceals
      <4>. QED
        BY <1>1, <4>1
    <3>3. u = Replayed(v, k, n)
      BY <1>0, <1>3, <1>10, <2>2, <3>1
    <3>4. LET y == Replayed(v, k, n)
          IN  /\ OnScreen(y) /\ y.page = s.page /\ y.textpage = s.textpage
              /\ y.last_conceal = v.last_conceal /\ y.drawing = "none"
      BY <1>0, <1>2, <3>2, PlainReplay
    <3>. QED
      BY <1>10, <3>3, <3>4
  <2>. QED
    BY <2>1, <2>2
<1>13. u.draw_para_rxd = 0 /\ s.draw_para_rxd = 0 /\ s.view_conceal = FALSE
  BY <1>1, <1>11, <1>12 DEF Live, OnScreen, Pending
<1>14. /\ DOMAIN t = ScrFields /\ DOMAIN w = ScrFields
       /\ t.at = w.at /\ t.conceal = w.conceal
       /\ t.last_conceal = w.last_conceal /\ t.view_conceal = w.view_conceal
       /\ t.drawing = w.drawing /\ t.draw_para_rxd = w.draw_para_rxd
       /\ t.page = w.page /\ t.textpage = w.textpage
  <2>1. DOMAIN u = ScrFields /\ DOMAIN s = ScrFields
    BY <1>1, <1>12 DEF Live, OnScreen, HasScr
  <2>. QED
    BY <1>5, <1>8, <1>11, <1>12, <1>13, <2>1 DEF ScrFields
<1>15. t = w
  <2>1. t = [f \in ScrFields |-> t[f]] /\ w = [f \in ScrFields |-> w[f]]
    <3>1. t = [f \in DOMAIN t |-> t[f]] /\ w = [f \in DOMAIN w |-> w[f]]
      BY <1>5, <1>8
    <3>. QED
      BY <1>14, <3>1
  <2>2. \A f \in ScrFields : t[f] = w[f]
    BY <1>14 DEF ScrFields
  <2>. QED
    BY <2>1, <2>2
<1>. QED
  BY <1>4, <1>9, <1>15

(* On its way reveal decodes every byte at the place it was received at.   *)
LEMMA RevealSees ==
  ASSUME NEW s, NEW H, Past(s, H), s.drawing = "none",
         NEW k \in 1 .. Len(s.page),
         \A i \in 1 .. k : ~(s.page[i].at.lastesc /\ s.page[i].data \in Drawings),
         \A i \in 1 .. Len(s.page) : s.page[i].at.screen_mode # "CHINESE",
         NEW v, v = Revealing(s), NEW j \in k .. Len(s.page) - 1
  PROVE  Alike(s.page[j + 1].at, Replayed(v, k, j).at)
<1>0. PICK n : n = Len(s.page)
  OBVIOUS
<1>1. /\ Live(s) /\ n \in Nat /\ k \in Nat /\ k - 1 \in Int /\ j \in Int
      /\ k - 1 <= j /\ k \in 0 .. n /\ k <= n /\ j < n
  BY <1>0, PastLive
<1>2. PICK x : x = [v EXCEPT !.at = v.page[k].at]
  OBVIOUS
<1>3. v.page = s.page
  BY <1>1, RevealingFacts DEF Live, Keeps, ScrFields
<1>4. PICK f : Walk(f, k - 1, j, x, s.page, "replay") /\ f[j] = Replayed(v, k, j)
  <2>1. \E f : Walk(f, k - 1, j, x, v.page, "replay") /\ f[j] = Replayed(v, k, j)
    BY <1>1, <1>2, ReplayedWalk
  <2>. QED
    BY <1>3, <2>1
<1>5. /\ f[k - 1] = x
      /\ \A i \in k - 1 + 1 .. j : f[i] = Goes(f[i - 1], s.page[i].data, "replay")
  BY <1>1, <1>4, WalkSteps
<1>6. \A i \in 1 .. k + 1 : H[i].drawing = "none"
  BY <1>0, <1>1, PastPlain
<1>7. \A i \in 1 .. n + 1 : Live(H[i])
  BY <1>0 DEF Past
<1> DEFINE Going(i) == /\ Sim(H[i + 1], f[i]) /\ OnScreen(f[i])
                       /\ f[i].view_conceal /\ f[i].page = s.page
           G == {i \in k - 1 .. j : Going(i)}
<1>8. Going(k - 1)
  <2>1. ReplayFrom(s, v, k, x)
    BY <1>1, <1>2, ReplayBegins
  <2>2. H[k].at = s.page[k].at /\ (k - 1) + 1 = k /\ k \in 1 .. n + 1
    BY <1>0, <1>1 DEF Past
  <2>3. H[k].drawing = "none" /\ Live(H[k])
    BY <1>1, <1>6, <1>7, <2>2
  <2>4. Sim(H[k], x)
    BY <2>1, <2>2, <2>3
       DEF ReplayFrom, Sim, Live, OnScreen, Pending, Alike, AtKeeps
  <2>. QED
    BY <1>5, <2>1, <2>2, <2>4 DEF ReplayFrom
<1>9. ASSUME NEW i \in k - 1 + 1 .. j, i - 1 \in G
      PROVE  i \in G
  <2>1. /\ i \in 1 .. Len(s.page) /\ (i - 1) + 1 = i /\ i \in k - 1 .. j
        /\ i + 1 \in 1 .. n + 1
    BY <1>0, <1>1
  <2>2. PICK c : c = s.page[i].data
    OBVIOUS
  <2>3. PICK z : z = charin(H[i], c)
    OBVIOUS
  <2>4. /\ H[i].at = s.page[i].at /\ Same(z, H[i + 1])
        /\ Code(c) = c /\ ~Empties(H[i], c) /\ Live(H[i])
    BY <2>1, <2>2, <2>3, PastStep
  <2>5. PICK g : g = f[i - 1]
    OBVIOUS
  <2>6. Sim(H[i], g) /\ OnScreen(g) /\ g.view_conceal /\ g.page = s.page
    BY <1>9, <2>1, <2>5
  <2>7. s.page # <<>>
    BY <2>1
  <2>8. f[i] = charin(g, c)
    BY <1>5, <2>2, <2>5, <2>6, <2>7 DEF Goes, Again
  <2>9. Received(g, c, f[i])
    BY <2>4, <2>6, <2>8, CharinFacts
  <2>10. H[i].at.screen_mode # "CHINESE"
    BY <2>1, <2>4
  <2>11. Sim(z, f[i])
    BY <2>3, <2>6, <2>8, <2>10, CharinAlike
  <2>12. ~Empties(g, c)
    <3>1. g.drawing = H[i].drawing /\ g.at.lastesc = H[i].at.lastesc
      BY <2>6, SimFields DEF Sim
    <3>. QED
      BY <2>4, <3>1 DEF Empties
  <2>13. OnScreen(f[i]) /\ f[i].view_conceal /\ f[i].page = s.page
    BY <2>6, <2>9, <2>12 DEF Received
  <2>14. Sim(H[i + 1], f[i])
    <3>1. Live(H[i + 1])
      BY <1>7, <2>1
    <3>. QED
      BY <2>4, <2>11, <2>13, <3>1 DEF Sim, Same, Live, OnScreen
  <2>. QED
    BY <2>1, <2>13, <2>14
<1>10. Going(j)
  <2>1. k - 1 \in G
    BY <1>1, <1>8
  <2> HIDE DEF G
  <2>2. j \in G
    <3>1. PICK lo : lo = k - 1
      OBVIOUS
    <3>2. lo \in Int /\ j \in Int /\ j \in lo .. j
      BY <1>1, <3>1
    <3>3. lo \in G /\ \A i \in lo + 1 .. j : i - 1 \in G => i \in G
      BY <1>9, <2>1, <3>1
    <3>4. lo .. j \subseteq G
      BY <3>2, <3>3, PassedOn
    <3>. QED
      BY <3>2, <3>4
  <2>. QED
    BY <2>2 DEF G
<1>11. H[j + 1].at = s.page[j + 1].at
  <2>1. j + 1 \in 1 .. Len(s.page)
    BY <1>0, <1>1
  <2>. QED
    BY <2>1 DEF Past
<1>. QED
  BY <1>4, <1>10, <1>11 DEF Sim

(* The two look the same, place by place.                                  *)
Looks(s, t) ==
  /\ OnScreen(t) /\ Len(t.page) = Len(s.page) /\ t.textpage = s.textpage
  /\ Alike(s.at, t.at)
  /\ \A q \in 1 .. Len(s.page) : /\ t.page[q].data = s.page[q].data
                                 /\ Alike(s.page[q].at, t.page[q].at)

(* The page decoded again up to its entry i: without a CONCEAL after ESC   *)
(* nothing is concealed, then or now.                                      *)
Bare(s, a, i) == a.lastesc => i >= 1 /\ s.page[i].data = "ESC"

Viewing(s, H, f, i) ==
  /\ Sim(H[i + 1], f[i]) /\ OnScreen(f[i]) /\ ~f[i].view_conceal
  /\ Len(f[i].page) = i
  /\ \A q \in 1 .. i : /\ f[i].page[q].data = s.page[q].data
                       /\ Alike(s.page[q].at, f[i].page[q].at)
  /\ Concealing(s.page) = {} =>
       ~H[i + 1].conceal /\ ~f[i].conceal /\ Bare(s, H[i + 1].at, i)

(* A page kept from a clean screen on, decoded again on a clean screen.    *)
LEMMA ViewShows ==
  ASSUME NEW s, NEW H, Past(s, H), s.page # <<>>, s.page[1].at = Home,
         s.drawing = "none", ~s.at.hidden, ~s.at.lastesc, ~s.at.chinese_special,
         \/ Concealing(s.page) = {}
         \/ \A i \in 1 .. Len(s.page) : s.page[i].at.screen_mode # "CHINESE",
         NEW n, n = Len(s.page),
         NEW f, Walk(f, 0, n, charin(s, "CS"), s.page, "view")
  PROVE  Looks(s, f[n])
<1>1. Live(s) /\ n \in Nat /\ n # 0 /\ H[n + 1] = s
  <2>1. Live(s) /\ n \in Nat /\ H[n + 1] = s
    BY PastLive
  <2>2. n # 0
    BY <2>1 DEF Live, OnScreen, Paged
  <2>. QED
    BY <2>1, <2>2
<1>2. PICK x : x = charin(s, "CS")
  OBVIOUS
<1>3. /\ f[0] = x
      /\ \A i \in 0 + 1 .. n : f[i] = Goes(f[i - 1], s.page[i].data, "view")
  BY <1>1, <1>2, WalkSteps
<1>4. \A i \in 1 .. n + 1 : Live(H[i])
  BY DEF Past
<1> DEFINE G == {i \in 0 .. n : Viewing(s, H, f, i)}
<1>5. Viewing(s, H, f, 0)
  <2>1. x.at = Home
    BY <1>1, <1>2, ClearedScreen DEF Live
  <2>2. Received(s, "CS", x)
    <3>1. Code("CS") = "CS"
      BY DEF Code
    <3>. QED
      BY <1>1, <1>2, <3>1, CharinFacts DEF Live
  <2>3. Empties(s, "CS") /\ ~Begins(s, "CS")
    BY DEF Empties, Begins
  <2>4. /\ OnScreen(x) /\ ~x.view_conceal /\ x.page = <<>> /\ x.textpage = <<>>
        /\ ~x.conceal /\ x.drawing = "none"
    BY <1>1, <2>2, <2>3 DEF Received, Live
  <2>5. /\ H[1].at = Home /\ H[1].drawing = "none" /\ ~H[1].conceal
        /\ H[1].textpage = <<>> /\ Live(H[1])
    <3>1. 1 \in 1 .. Len(s.page) /\ 1 \in 1 .. n + 1
      BY <1>1
    <3>. QED
      BY <1>4, <3>1 DEF Past
  <2>6. Sim(H[1], x)
    BY <2>1, <2>4, <2>5
       DEF Sim, Live, OnScreen, Pending, Alike, AtKeeps
  <2>7. ~Home.lastesc
    BY DEF Home
  <2>8. Len(x.page) = 0 /\ 0 + 1 = 1 /\ \A q \in 1 .. 0 : FALSE
    BY <2>4
  <2>. QED
    BY <1>3, <2>4, <2>5, <2>6, <2>7, <2>8 DEF Viewing, Bare
<1>6. ASSUME NEW i \in 0 + 1 .. n, i - 1 \in G
      PROVE  i \in G
  <2>1. /\ i \in 1 .. Len(s.page) /\ (i - 1) + 1 = i /\ i \in 0 .. n
        /\ i + 1 \in 1 .. n + 1 /\ i >= 1 /\ i - 1 \in Nat
    BY <1>1
  <2>2. PICK c : c = s.page[i].data
    OBVIOUS
  <2>3. PICK z : z = charin(H[i], c)
    OBVIOUS
  <2>4. /\ H[i].at = s.page[i].at /\ Same(z, H[i + 1]) /\ Received(H[i], c, z)
        /\ Code(c) = c /\ ~Empties(H[i], c) /\ Live(H[i])
    BY <2>1, <2>2, <2>3, PastStep
  <2>5. PICK g : g = f[i - 1]
    OBVIOUS
  <2>6. /\ Sim(H[i], g) /\ OnScreen(g) /\ ~g.view_conceal
        /\ Len(g.page) = i - 1
        /\ \A q \in 1 .. i - 1 : /\ g.page[q].data = s.page[q].data
                                 /\ Alike(s.page[q].at, g.page[q].at)
        /\ Concealing(s.page) = {} =>
             ~H[i].conceal /\ ~g.conceal /\ Bare(s, H[i].at, i - 1)
    BY <1>6, <2>1, <2>5 DEF Viewing
  <2>7. f[i] = charin(g, c)
    BY <1>3, <2>2, <2>5 DEF Goes
  <2>8. Received(g, c, f[i])
    BY <2>4, <2>6, <2>7, CharinFacts
  <2>9. H[i].at.screen_mode # "CHINESE" \/ (Hiding(H[i]) <=> Hiding(g))
    <3>1. CASE Concealing(s.page) = {}
      BY <2>6, <3>1 DEF Hiding
    <3>2. CASE Concealing(s.page) # {}
      BY <2>1, <2>4, <3>2
    <3>. QED
      BY <3>1, <3>2
  <2>10. Sim(z, f[i])
    BY <2>3, <2>6, <2>7, <2>9, CharinAlike
  <2>11. g.drawing = H[i].drawing /\ g.at.lastesc = H[i].at.lastesc
         /\ Alike(H[i].at, g.at)
    BY <2>6, SimFields DEF Sim
  <2>12. ~Empties(g, c)
    BY <2>4, <2>11 DEF Empties
  <2>13. /\ OnScreen(f[i]) /\ ~f[i].view_conceal
         /\ f[i].page = Append(g.page, [data |-> c, at |-> g.at])
    BY <2>6, <2>8, <2>12 DEF Received
  <2>14. Sim(H[i + 1], f[i])
    <3>1. Live(H[i + 1])
      BY <1>4, <2>1
    <3>. QED
      BY <2>4, <2>10, <2>13, <3>1 DEF Sim, Same, Live, OnScreen
  <2>15. /\ Len(f[i].page) = i
         /\ \A q \in 1 .. i : /\ f[i].page[q].data = s.page[q].data
                              /\ Alike(s.page[q].at, f[i].page[q].at)
    <3>1. PICK S : g.page \in Seq(S)
      BY <2>6 DEF OnScreen, Paged
    <3>2. PICK e : e = [data |-> c, at |-> g.at]
      OBVIOUS
    <3>3. /\ Len(f[i].page) = i /\ f[i].page[i] = e
          /\ \A q \in 1 .. i - 1 : f[i].page[q] = g.page[q]
      <4>1. f[i].page = Append(g.page, e) /\ g.page \in Seq(S) /\ Len(g.page) = i - 1
        BY <2>6, <2>13, <3>1, <3>2
      <4>. QED
        BY <2>1, <4>1
    <3>4. e.data = s.page[i].data /\ Alike(s.page[i].at, e.at)
      BY <2>2, <2>4, <2>11, <3>2
    <3>5. ASSUME NEW q \in 1 .. i
          PROVE  /\ f[i].page[q].data = s.page[q].data
                 /\ Alike(s.page[q].at, f[i].page[q].at)
      <4>1. CASE q = i
        BY <3>3, <3>4, <4>1
      <4>2. CASE q \in 1 .. i - 1
        BY <2>6, <3>3, <4>2
      <4>. QED
        BY <2>1, <4>1, <4>2
    <3>. QED
      BY <3>3, <3>5
  <2>16. ASSUME Concealing(s.page) = {}
         PROVE  ~H[i + 1].conceal /\ ~f[i].conceal /\ Bare(s, H[i + 1].at, i)
    <3>1. ~H[i].conceal /\ ~g.conceal /\ Bare(s, H[i].at, i - 1)
      BY <2>6, <2>16
    <3>2. ~(H[i].at.lastesc /\ c = "CONCEAL")
      <4>1. ASSUME H[i].at.lastesc, c = "CONCEAL"
            PROVE  i - 1 \in Concealing(s.page)
        <5>1. i - 1 >= 1 /\ s.page[i - 1].data = "ESC"
          BY <3>1, <4>1 DEF Bare
        <5>2. i - 1 \in 1 .. Len(s.page) - 1 /\ (i - 1) + 1 = i
          BY <1>1, <2>1, <5>1
        <5>. QED
          BY <2>2, <4>1, <5>1, <5>2 DEF Concealing
      <4>. QED
        BY <2>16, <4>1
    <3>3. ~z.conceal /\ ~f[i].conceal
      BY <2>4, <2>8, <2>11, <3>1, <3>2 DEF Received
    <3>4. z.at.lastesc => c = "ESC"
      BY <2>4 DEF Received, Live
    <3>. QED
      BY <2>1, <2>2, <2>4, <3>3, <3>4 DEF Same, Bare
  <2>17. Viewing(s, H, f, i)
    BY <2>13, <2>14, <2>15, <2>16 DEF Viewing
  <2>. QED
    BY <2>1, <2>17
<1>7. Viewing(s, H, f, n)
  <2>1. 0 \in G
    BY <1>1, <1>5
  <2> HIDE DEF G
  <2>2. 0 .. n \subseteq G
    <3>1. PICK lo : lo = 0
      OBVIOUS
    <3>2. /\ lo \in Int /\ n \in Int /\ lo \in G
          /\ \A i \in lo + 1 .. n : i - 1 \in G => i \in G
      BY <1>1, <1>6, <2>1, <3>1
    <3>3. lo .. n \subseteq G
      BY <3>2, PassedOn
    <3>. QED
      BY <3>1, <3>3
  <2>3. n \in G
    BY <1>1, <2>2
  <2>. QED
    BY <2>3 DEF G
<1>8. ~s.view_conceal /\ s.textpage = f[n].textpage /\ Alike(s.at, f[n].at)
  BY <1>1, <1>7 DEF Viewing, Sim
<1>. QED
  BY <1>7, <1>8 DEF Viewing, Looks
=============================================================================
