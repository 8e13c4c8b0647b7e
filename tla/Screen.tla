------------------------------- MODULE Screen -------------------------------
(***************************************************************************)
(* The presentation manager of the videotex emulator (PM.C): what every    *)
(* byte of the host does to the decoder, to the page kept for saving and   *)
(* revealing, and to the text page.  Operators on the decoder's state s.   *)
(*                                                                         *)
(* Bytes are named after PM.H; a byte that is not a control code is text,  *)
(* unless it follows ESC.  What a byte paints is a function of the byte    *)
(* and of the attributes, so pixels, fonts and bkg are left out; of the    *)
(* colours, red and white stand for all.                                   *)
(***************************************************************************)
EXTENDS Integers, Sequences

CONSTANTS COLS, ROWS,  \* 40 and 24 in the code
          Arguments    \* the bytes each drawing primitive takes (DRAW.H)

Commands == [LINE |-> "DRAW_LINE", RECTANGLE |-> "DRAW_RECTANGLE",
             POINT |-> "DRAW_POINT", CIRCLE |-> "DRAW_CIRCLE",
             FILL |-> "DRAW_FILL", ARC |-> "DRAW_ARC",
             INC_SET |-> "INCREMENTAL_SET", INC_LINE |-> "INCREMENTAL_LINE",
             INC_POINT |-> "INCREMENTAL_POINT", INC_ARC |-> "INCREMENTAL_ARC"]
Primitives  == DOMAIN Commands
Incremental == {"INC_LINE", "INC_POINT", "INC_ARC"}
Drawings    == {Commands[p] : p \in Primitives}

ASSUME SizeAssumption == /\ COLS \in Nat /\ COLS >= 4 /\ COLS % 2 = 0
                         /\ ROWS \in Nat /\ ROWS >= 2
ASSUME ArgumentsAssumption == Arguments \in [Primitives -> Nat \ {0}]

Colours == [ALPHA_RED     |-> <<"ALPHA", "RED">>,
            ALPHA_WHITE   |-> <<"ALPHA", "WHITE">>,
            MOSAIC_RED    |-> <<"MOSAIC", "RED">>,
            MOSAIC_WHITE  |-> <<"MOSAIC", "WHITE">>,
            CHINESE_RED   |-> <<"CHINESE", "RED">>,
            CHINESE_WHITE |-> <<"CHINESE", "WHITE">>]

(* The attributes an entry of page keeps, as they are at program start.    *)
Home == [hidden |-> FALSE, lastesc |-> FALSE, chinese_special |-> FALSE,
         row |-> 0, col |-> 0,
         screen_size |-> "NORMAL", screen_mode |-> "ALPHA",
         alpha_color |-> "WHITE", mosaic_color |-> "WHITE",
         curr_bkg |-> "BLACK", mosaic_type |-> "CONTIGUOUS",
         lastdouble |-> FALSE, flash |-> FALSE, lastchin |-> FALSE,
         hold_mosaic |-> FALSE, hold_mosaic_char |-> " "]

(* Those that clear_attributes sets back.                                  *)
Cleared == DOMAIN Home
             \ {"hidden", "lastesc", "chinese_special", "row", "col"}

FirstScreen == [at |-> Home, conceal |-> FALSE, last_conceal |-> FALSE,
                view_conceal |-> FALSE, drawing |-> "none", draw_para_rxd |-> 0,
                page |-> <<>>, textpage |-> <<>>]

clear_attributes(s) ==
  [s EXCEPT !.at = [f \in DOMAIN Home |-> IF f \in Cleared THEN Home[f]
                                          ELSE s.at[f]],
            !.conceal = FALSE]

Texted(s, text) == IF s.view_conceal THEN s
                   ELSE [s EXCEPT !.textpage = @ \o text]
-----------------------------------------------------------------------------
(* The row below, hidden under a double height one.                        *)
Down(s, double) ==
  clear_attributes([s EXCEPT !.at.row = (@ + 1) % ROWS, !.at.hidden = double])

(* outchar on the first page: concealed text is a blank, and the mosaic    *)
(* painted last is the one held.                                           *)
charsend(s, c) == IF ~s.at.hidden /\ s.conceal /\ ~s.last_conceal THEN " " ELSE c

Painted(s, c) ==
  IF /\ ~s.at.hidden /\ s.at.screen_mode = "MOSAIC" /\ s.at.hold_mosaic
     /\ charsend(s, c) # " "
  THEN [s EXCEPT !.at.hold_mosaic_char = c]
  ELSE s

(* outchar on the second page, which moves the cursor as well.             *)
outchar(s, c) ==
  LET chinese == s.at.screen_mode = "CHINESE"
      wide    == chinese /\ charsend(s, c) # " "
      next    == (s.at.col + IF wide THEN 2 ELSE 1) % COLS
      double  == s.at.screen_size = "DOUBLE" \/ s.at.lastdouble
      moved   == [Painted(s, c) EXCEPT !.at.col = next,
                                       !.at.chinese_special = FALSE]
  IN  IF next = 0
      THEN Down(Texted(moved, <<"APD", "APR">>), double)
      ELSE IF chinese /\ next = COLS - 1
      THEN [Down(moved, double) EXCEPT !.at.col = 0]
      ELSE moved
-----------------------------------------------------------------------------
(* What the code after ESC makes of the attributes.                        *)
Coloured(a, c) ==
  LET mode == Colours[c][1]  color == Colours[c][2]
  IN  IF mode = "MOSAIC"
      THEN [a EXCEPT !.screen_mode = mode, !.mosaic_color = color]
      ELSE [a EXCEPT !.screen_mode = mode, !.alpha_color = color]

InForce(a) == IF a.screen_mode = "MOSAIC" THEN a.mosaic_color ELSE a.alpha_color

Escaped(a, c) ==
  CASE c \in DOMAIN Colours -> Coloured(a, c)
    [] c = "FLASH"          -> [a EXCEPT !.flash = TRUE]
    [] c = "STEADY"         -> [a EXCEPT !.flash = FALSE]
    [] c = "DOUBLE_HEIGHT"  -> IF a.hidden THEN a
                               ELSE [a EXCEPT !.screen_size = "DOUBLE",
                                              !.lastdouble = TRUE]
    [] c = "NORMAL_HEIGHT"  -> [a EXCEPT !.screen_size = "NORMAL"]
    [] c = "CHINESE_SPECIAL" -> [a EXCEPT !.chinese_special = TRUE]
    [] c = "NEW_BKG"        -> IF a.hidden THEN a
                               ELSE [a EXCEPT !.curr_bkg = InForce(a)]
    [] c = "BLACK_BKG"      -> [a EXCEPT !.curr_bkg = "BLACK"]
    [] c = "CONT_MOSAIC"    -> IF a.hidden THEN a
                               ELSE [a EXCEPT !.mosaic_type = "CONTIGUOUS"]
    [] c = "SEPA_MOSAIC"    -> IF a.hidden THEN a
                               ELSE [a EXCEPT !.mosaic_type = "SEPARATED"]
    [] c = "HOLD_MOSAIC"    -> [a EXCEPT !.hold_mosaic = TRUE]
    [] c = "RELEASE_MOSAIC" -> [a EXCEPT !.hold_mosaic = FALSE]
    [] OTHER                -> a

Changing == DOMAIN Colours \cup
  {"FLASH", "STEADY", "DOUBLE_HEIGHT", "NORMAL_HEIGHT", "CHINESE_MODE",
   "CHINESE_SPECIAL", "CONCEAL", "NEW_BKG", "BLACK_BKG", "CONT_MOSAIC",
   "SEPA_MOSAIC", "HOLD_MOSAIC", "RELEASE_MOSAIC"}

(* An unknown code is painted as a block, which a held mosaic becomes.     *)
do_escape_seq(s, c) ==
  LET t == [s EXCEPT !.at.lastesc = FALSE]
  IN  IF c \in Drawings
      THEN [t EXCEPT !.drawing = CHOOSE p \in Primitives : Commands[p] = c]
      ELSE IF c \in Changing
      THEN [t EXCEPT !.at = Escaped(@, c), !.conceal = @ \/ c = "CONCEAL"]
      ELSE Painted(t, "DEL")

AfterEscape(s, c) ==
  LET t == Texted(do_escape_seq(s, c), <<" ">>)
  IN  outchar(t, IF t.at.screen_mode = "MOSAIC" /\ t.at.hold_mosaic
                 THEN t.at.hold_mosaic_char ELSE " ")

(* A byte of a primitive's arguments: the incremental ones start again     *)
(* when they are complete, and end when their own code comes before.       *)
Parameter(s, c) ==
  LET got   == s.draw_para_rxd + 1
      full  == got = Arguments[s.drawing]
      again == s.drawing \in Incremental
  IN  IF full /\ again THEN [s EXCEPT !.draw_para_rxd = 0]
      ELSE IF full \/ (again /\ c = Commands[s.drawing])
      THEN [s EXCEPT !.drawing = "none", !.draw_para_rxd = 0]
      ELSE [s EXCEPT !.draw_para_rxd = got]

ClearScreenOnly(s) ==
  [s EXCEPT !.at.row = 0, !.at.col = 0,
     !.last_conceal = FALSE, !.page = <<>>, !.textpage = <<>>]

(* CS: hidden, lastesc and chinese_special stay as they are.               *)
ClearScreen(s) ==
  [clear_attributes(s) EXCEPT !.at.row = 0, !.at.col = 0,
     !.last_conceal = FALSE, !.page = <<>>, !.textpage = <<>>]

BackAlways(s) == [s EXCEPT !.at.col = (@ + COLS - 1) % COLS,
                           !.at.row = IF s.at.col = 0 THEN @ - 1 ELSE @]

(* APB does not leave the home position.                                   *)
Back(s) == IF s.at.col = 0 /\ s.at.row = 0 THEN s
           ELSE [s EXCEPT !.at.col = (@ + COLS - 1) % COLS,
                          !.at.row = IF s.at.col = 0 THEN @ - 1 ELSE @]

Controls == {"ESC", "APB", "APF", "APD", "APU", "CS", "APR", "APH",
             "DC_ON", "DC_OFF", "NUL", "ENQ"}

Control(s, c) ==
  CASE c = "ESC" -> [s EXCEPT !.at.lastesc = TRUE]
    [] c = "APB" -> Back(s)
    [] c = "APF" -> [s EXCEPT !.at.col = (@ + 1) % COLS,
                       !.at.row = IF s.at.col = COLS - 1 THEN (@ + 1) % ROWS
                                  ELSE @]
    [] c = "APD" -> Down(Texted(s, <<c>>), s.at.lastdouble)
    [] c = "APU" -> clear_attributes(
                      [s EXCEPT !.at.row = (@ + ROWS - 1) % ROWS,
                                !.at.hidden = s.at.lastdouble])
    [] c = "CS"  -> ClearScreen(s)
    [] c = "APR" -> [Texted(s, <<c>>) EXCEPT !.at.col = 0]
    [] c = "APH" -> clear_attributes([s EXCEPT !.at.row = 0, !.at.col = 0])
    [] OTHER     -> s

(* Text.  The first byte of a Chinese character waits for the second one,  *)
(* unless it is concealed; anything else is painted on both pages.         *)
Display(s, c) ==
  LET t == Texted(s, <<IF s.at.screen_mode = "ALPHA" THEN c ELSE " ">>)
      chinese == t.at.screen_mode = "CHINESE" /\ c # " "
  IN  IF chinese /\ ~t.at.lastchin /\ ~(t.conceal /\ ~t.last_conceal)
      THEN [t EXCEPT !.at.lastchin = TRUE]
      ELSE outchar(Painted([t EXCEPT !.at.lastchin = @ /\ ~chinese], c),
                   IF t.at.flash /\ ~chinese THEN " " ELSE c)

Kept(s, c) == [s EXCEPT !.page = Append(@, [data |-> c, at |-> s.at])]

charin(s, b) ==
  LET c == IF b \in {"HIGH", "FF"} THEN "DEL" ELSE b
      t == IF s.view_conceal THEN s ELSE Kept(s, c)
  IN  IF t.drawing # "none" THEN Parameter(t, c)
      ELSE IF t.at.lastesc THEN AfterEscape(t, c)
      ELSE IF c \in Controls THEN Control(t, c)
      ELSE Display(t, c)
-----------------------------------------------------------------------------
(* The first ESC of the page that conceals.                                *)
Concealing(page) == {k \in 1 .. Len(page) - 1 : page[k].data = "ESC"
                                                 /\ page[k + 1].data = "CONCEAL"}
FirstConcealed(page) ==
  CHOOSE k \in Concealing(page) : \A i \in Concealing(page) : k <= i

(* A CS among the bytes replayed empties the page, and the replay is over. *)
Again(s, c) == IF s.page = <<>> THEN s ELSE charin(s, c)

(* The decoder having gone through the page from its entry k up to j.      *)
Replayed(s, k, j) ==
  LET walk[i \in k - 1 .. j] ==
        IF i = k - 1 THEN [s EXCEPT !.at = s.page[k].at]
        ELSE Again(walk[i - 1], s.page[i].data)
  IN  walk[j]

Revealing(s) == [s EXCEPT !.view_conceal = TRUE, !.last_conceal = ~@]

revealKeepsHalf(s) ==
  LET t == Revealing(s)
      u == IF Concealing(t.page) = {} THEN t
           ELSE Replayed(t, FirstConcealed(t.page), Len(t.page))
  IN  [u EXCEPT !.at = [s.at EXCEPT !.lastchin = u.at.lastchin],
                !.view_conceal = FALSE, !.conceal = FALSE]

reveal(s) ==
  LET t == Revealing(s)
      u == IF Concealing(t.page) = {} THEN t
           ELSE Replayed(t, FirstConcealed(t.page), Len(t.page))
  IN  [u EXCEPT !.at = s.at, !.view_conceal = FALSE, !.conceal = FALSE]
=============================================================================
