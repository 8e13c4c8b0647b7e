----------------------------- MODULE MCEmulator -----------------------------
(***************************************************************************)
(* A screen of four columns and three rows.  Each plan is a session with   *)
(* one question: what a page of any bytes of an alphabet does, what the    *)
(* menus do to the port, what scripts do.                                  *)
(***************************************************************************)
EXTENDS Emulator

MCArguments == [p \in Primitives |-> IF p \in Incremental THEN 2 ELSE 1]

MCSettings ==
  {[baudrate |-> 1200, wordlength |-> WordLength8, parity |-> NoParity,
    stopbit |-> TwoStopBits, localecho |-> TRUE],
   [baudrate |-> 9600, wordlength |-> WordLength7, parity |-> OddParity,
    stopbit |-> OneStopBit, localecho |-> FALSE]}

(* The lines of a script.                                                  *)
L(cmd)        == [cmd |-> cmd, n |-> 0, condition |-> "", needle |-> <<>>]
Ln(cmd, n)    == [L(cmd) EXCEPT !.n = n]
If(condition) == [L("IF") EXCEPT !.condition = condition]
WaitFor(s)    == [L("WAIT") EXCEPT !.needle = s]

Session == [keys |-> 2, use |-> {}, script |-> <<>>, image |-> <<>>,
            line |-> <<>>, noise |-> FALSE]

Exactly(bytes) == [i \in 1 .. Len(bytes) |-> {bytes[i]}]

(* Any page of up to n bytes of an alphabet behind some given ones, viewed. *)
PageBehind(bytes, alphabet, n) ==
  [Session EXCEPT !.use = {"view"},
     !.image = Exactly(bytes) \o [i \in 1 .. n |-> alphabet]]
Page(alphabet, n) == PageBehind(<<>>, alphabet, n)

Pages ==
  {Page({"ESC", "CONCEAL", "a", "APD", "APB"}, 6),
   Page({"ESC", "DOUBLE_HEIGHT", "CONCEAL", "a", "APR"}, 6),
   Page({"ESC", "MOSAIC_RED", "HOLD_MOSAIC", "CONCEAL", "a"}, 6),
   Page({"ESC", "DRAW_LINE", "INCREMENTAL_POINT", "CS", "CONCEAL"}, 6),
   PageBehind(<<"ESC", "MOSAIC_RED", "ESC", "HOLD_MOSAIC", "ESC", "CONCEAL",
                "APR">>, {"ESC", "a", "APR", "ALPHA_RED"}, 4),
   PageBehind(<<"ESC", "CHINESE_RED", "APR", "ESC", "CONCEAL">>,
              {"ESC", "a", "APR", "CHINESE_RED", "CS"}, 5),
   PageBehind(<<"ESC", "INCREMENTAL_POINT">>,
              {"ESC", "INCREMENTAL_POINT", "CONCEAL", "a"}, 5),
   PageBehind(<<"ESC", "DOUBLE_HEIGHT", "APD", "CS">>,
              {"ESC", "a", "APD", "NEW_BKG", "CONCEAL"}, 5)}

Codes ==
  {Page({"ESC", "NEW_BKG", "BLACK_BKG", "ALPHA_RED", "CONT_MOSAIC",
         "SEPA_MOSAIC", "RELEASE_MOSAIC", "FLASH", "STEADY", "NORMAL_HEIGHT",
         "CHINESE_SPECIAL", "CHINESE_MODE"}, 4),
   Page({"APF", "APU", "APH", "HIGH", "FF", "NUL", "a", "APB"}, 4)}

(* FK09 between the bytes of the line, and a page cut off by FK10.         *)
Revealed ==
  [Session EXCEPT !.keys = 3, !.use = {"FK09", "view", "FK10", "save"},
     !.image = Exactly(<<"ESC", "CONCEAL", "a">>),
     !.line = <<{"ESC"}, {"CONCEAL"}, {"a"}>>]

(* FK09 while a drawing waits for its arguments.                           *)
RevealedInDrawing ==
  [Session EXCEPT !.use = {"FK09"},
     !.line = Exactly(<<"ESC", "CONCEAL", "ESC", "INCREMENTAL_POINT", "a", "a", "a">>)]

(* Concealed Chinese, or a held mosaic, that arrives after FK09.           *)
RevealedLate ==
  {[Session EXCEPT !.use = {"FK09"}, !.line = Exactly(bytes)] : bytes \in
     {<<"ESC", "CHINESE_RED", "APR", "ESC", "CONCEAL", "a", "a">>,
      <<"ESC", "MOSAIC_RED", "ESC", "HOLD_MOSAIC", "APR", "ESC", "CONCEAL", "a",
        "APR">>}}

Menus ==
  {[Session EXCEPT !.keys = 5, !.use = {"com", "exit"}],
   [Session EXCEPT !.keys = 4, !.use = {"term", "com", "exit", "type"},
      !.line = <<{"a"}>>],
   [Session EXCEPT !.keys = 3, !.use = {"edit", "directory", "term", "exit", "FK10"},
      !.line = <<{"a"}>>, !.noise = TRUE],
   [Session EXCEPT !.keys = 3, !.use = {"dial", "ESC"},
      !.line = <<{"a", "BUSY"}, {"a", "CONNECT"}>>]}

Scripted(lines) == [Session EXCEPT !.use = {"script"}, !.script = lines]

Statements == {Ln("LOOP", 0), Ln("LOOP", 2), L("ENDLOOP"), L("EXITLOOP"),
               If("CONNECT"), L("ELSE"), L("ENDIF")}

Scripts ==
  {Scripted(lines) : lines \in UNION {[1 .. n -> Statements] : n \in 1 .. 4}}
  \cup {Scripted(<<Ln("LOOP", 3), If("CONNECT"), L("SEND"), L("ELSE"),
                   L("SEND"), L("ENDIF"), L("ENDLOOP"), Ln("LOOP", 2),
                   L("ENDLOOP")>>),
        Scripted(<<Ln("ALARM", 1), Ln("LOOP", 2), If("ALARMRING"), L("EXITLOOP"),
                   L("ENDIF"), Ln("SLEEP", 1), L("ENDLOOP")>>),
        Scripted(<<Ln("CAPTURE", 0), Ln("CAPTURE", 1), L("SHOW"),
                   L("BADCOMMAND")>>),
        [Scripted(<<Ln("DIAL", 2), If("CONNECT"), L("SEND"), L("ENDIF")>>)
           EXCEPT !.line = <<{"a", "BUSY", "CONNECT"}>>, !.use = @ \cup {"ESC"},
                  !.keys = 3],
        [Scripted(<<WaitFor(<<"b">>), WaitFor(<<"a">>)>>)
           EXCEPT !.line = <<{"a"}, {"b", "a"}, {"a"}>>, !.keys = 3,
                  !.use = @ \cup {"ESC", "FK10"}],
        [Scripted(<<Ln("LOOP", 2), WaitFor(<<"a">>), L("ENDLOOP")>>)
           EXCEPT !.line = <<{"a"}, {"a", "b"}, {"a"}>>],
        [Scripted(<<WaitFor(<<"a">>), WaitFor(<<"a", "b">>)>>)
           EXCEPT !.line = <<{"a"}, {"a", "b"}, {"b"}>>, !.noise = TRUE]}

MCPlans == Pages \cup Codes \cup {Revealed, RevealedInDrawing} \cup RevealedLate \cup Menus \cup Scripts

MCByte == {"a", "b", "ESC", "CONCEAL", "CHINESE_RED", "MOSAIC_RED",
           "HOLD_MOSAIC", "APR", "INCREMENTAL_POINT", "BUSY", "CONNECT"}
MCBauds == {1200, 2400, 9600}
MCConnect == <<"CONNECT">>
MCBusy == <<"BUSY">>
=============================================================================
