------------------------------ MODULE Emulator ------------------------------
(***************************************************************************)
(* The videotex emulator (VIDEOTEX.C, KEYBOARD.C, COMMNGR.C, SCRIPT.C,     *)
(* PM.C) in one session or several: the main loop that decodes what the    *)
(* host sends, the menus, dialling, viewing and saving pages, scripts, and *)
(* the settings kept from one session to the next.                         *)
(*                                                                         *)
(* A menu is one step up to its last effect: nobody else reads what it     *)
(* changes.  mode says which loop of the program is running.  What a plan  *)
(* lets the user and the host do bounds the behaviours; seen holds what    *)
(* the properties tell of the past, and nothing the program does reads it. *)
(***************************************************************************)
EXTENDS CommManager, Screen, Script

CONSTANTS Plans,      \* [keys, use, script, image, line, noise]
          Settings,   \* the settings a user picks in the menus
          DialTime,   \* dialtime, in ticks
          DAY,        \* the ticks from midnight to midnight
          modemconnect, modembusy,  \* the replies of the modem
          RMax        \* bound: the bytes WAIT and dial collect

(* A line of a script as it is parsed.                                     *)
Lines == [cmd : STRING, n : Int, condition : STRING, needle : Seq(Byte)]

ASSUME PlansAssumption == \A p \in Plans : /\ p.script \in Seq(Lines)
                                           /\ p.line \in Seq(SUBSET Byte)
ASSUME BoundAssumption == RMax \in Nat \ {0}
ASSUME ClockAssumption == DAY \in Nat \ {0} /\ DialTime \in Nat
ASSUME SettingsAssumption == \A s \in Settings : s.baudrate \in Bauds

VARIABLES scr,        \* the decoder (PM.C)
          mode,       \* "off", "port", "keys", "dial", "view", "script", "wait"
          entry,      \* the entry of the dialing directory
          config,     \* the configuration file
          image,      \* the image file: the bytes each place may hold
          infile,     \* what view_screen has still to read of it
          call,       \* dial: [times, tries, endtime, result, r]
          job,        \* execute_script's state, and r of WAIT
          r,
          script_CONNECT, script_running,
          clock,      \* biostime
          keyboard,   \* the key bioskey finds, or "none"
          plan, keys, line,  \* the user's plan, keys left, bytes to come
          seen        \* history, see above

vars == <<comm, scr, mode, entry, config, image, infile, call, job, r,
          script_CONNECT, script_running, clock, keyboard, plan, keys, line, seen>>

files == <<entry, config, image>>
tasks == <<infile, call, job, r, script_CONNECT, script_running>>
world == <<clock, keyboard, plan, keys, line>>

NUL == "NUL"
NoCall == [times |-> 0, tries |-> 0, endtime |-> 0, result |-> "UNKNOWN",
           r |-> <<>>]
Fields == {"baudrate", "wordlength", "parity", "stopbit"}
NewSeen == [edited |-> FALSE, rehooked |-> FALSE, body |-> 0, rounds |-> 0,
            exact |-> FALSE, drifted |-> FALSE, heard |-> <<>>, rung |-> FALSE,
            redrawn |-> FALSE]

(* init_config's entries of the dialing directory.                         *)
FactoryEntry == [baudrate |-> 2400, wordlength |-> WordLength8,
                 parity |-> NoParity, stopbit |-> OneStopBit]

InitWith(p) ==
  /\ plan = p /\ keys = p.keys /\ line = p.line /\ image = p.image
  /\ noise = p.noise

NoText == [i \in 0 .. RMax |-> NUL]

Init ==
  /\ CommInit
  /\ \E p \in Plans : InitWith(p)
  /\ scr = FirstScreen /\ mode = "off" /\ config = <<>>
  /\ entry = FactoryEntry
  /\ infile = <<>> /\ call = NoCall /\ job = NewJob /\ r = NoText
  /\ script_CONNECT = FALSE /\ script_running = FALSE
  /\ clock = 0 /\ keyboard = "none" /\ seen = NewSeen
-----------------------------------------------------------------------------
(* The configuration file: numbers as two bytes, the low one first.        *)
ToFile(t) == [t EXCEPT !.baudrate = <<@ % 256, @ \div 256>>]
FromFile(t) == [t EXCEPT !.baudrate = @[2] * 256 + @[1]]

load_config == IF config = <<>> THEN <<Factory, FactoryEntry>>
               ELSE <<FromFile(config[1]), FromFile(config[2])>>
save_config == <<ToFile(term), ToFile(entry)>>

(* main up to its loop: the settings, then the port, then the keys.        *)
Start == /\ mode = "off" /\ keys > 0 /\ keys' = keys - 1
         /\ term' = load_config[1] /\ entry' = load_config[2]
         /\ scr' = FirstScreen /\ infile' = <<>> /\ call' = NoCall
         /\ job' = NewJob /\ r' = NoText
         /\ script_CONNECT' = FALSE /\ script_running' = FALSE
         /\ mode' = "port" /\ todo' = setup8250
         /\ seen' = [seen EXCEPT !.edited = FALSE, !.redrawn = FALSE]
         /\ UNCHANGED <<chip, rx, iq, ri, noise, config, image, clock, keyboard,
                        plan, line>>

(* A write to the port; the last one brings back the keys, or a call.      *)
Port == /\ mode = "port" /\ PortStep
        /\ mode' = IF Len(todo) > 1 THEN "port"
                   ELSE IF call.result = "DIAL" THEN "dial" ELSE "keys"
        /\ seen' = [seen EXCEPT
             !.rehooked = @ \/ (Head(todo) = "hook" /\ vec[term.com] = "ours")]
        /\ UNCHANGED <<scr, files, tasks, world>>

(* inkey while no key is pressed.                                          *)
Receive == /\ mode = "keys" /\ keyboard = "none"
           /\ receivechar /\ scr' = charin(scr, Head(iq))
           /\ UNCHANGED <<mode, files, tasks, world, seen, ri>>

(* With local echo every key is decoded too; a function key is NUL then.   *)
Echoed(b) == IF term.localecho THEN charin(scr, b) ELSE scr

(* A key of the main loop that the plan has left.                          *)
Key(use) == /\ mode = "keys" /\ keyboard = "none"
            /\ use \in plan.use /\ keys > 0 /\ keys' = keys - 1
            /\ UNCHANGED <<clock, keyboard, plan, line>>

(* A key left over by a script: it is sent, or FK10's question answered no. *)
LateKey == /\ mode = "keys" /\ keyboard # "none" /\ keyboard' = "none"
           /\ scr' = Echoed(IF keyboard = "ESC" THEN "ESC" ELSE NUL)
           /\ UNCHANGED <<comm, mode, files, tasks, clock, plan, keys, line,
                          seen>>

(* What of a drawing is still to come.                                     *)
Pen(s) == <<s.drawing, s.draw_para_rxd>>

Reveal == /\ Key("FK09") /\ scr' = reveal(Echoed(NUL))
          /\ seen' = [seen EXCEPT !.redrawn = @ \/ Pen(scr') # Pen(Echoed(NUL))]
          /\ UNCHANGED <<comm, mode, files, tasks>>

(* A key sent to the host.                                                 *)
Type(b) == /\ Key("type") /\ scr' = Echoed(b)
           /\ UNCHANGED <<comm, mode, files, tasks, seen>>

(* termf: a setting is chosen, or none (ESC); the port is set up again.    *)
TermMenu ==
  /\ Key("term") /\ scr' = Echoed(NUL)
  /\ \E s \in Settings, f \in Fields \cup {"localecho"} :
       term' \in {[term EXCEPT ![f] = s[f]], term}
  /\ mode' = "port" /\ todo' = setup8250
  /\ seen' = [seen EXCEPT !.edited = FALSE]
  /\ UNCHANGED <<chip, rx, iq, ri, noise, files, tasks>>

SerialMenu ==
  /\ Key("com") /\ scr' = Echoed(NUL)
  /\ \E p \in Ports : serialpf(p)
  /\ mode' = "port" /\ todo' = setup8250
  /\ seen' = [seen EXCEPT !.edited = FALSE]
  /\ UNCHANGED <<lcr, divisor, ier, OldAsynVector, rx, iq, ri, noise, files,
                 tasks>>

(* FK09 in the dialing directory: every menu it shows sets the terminal as *)
(* well; one left with ESC does not, but the baud rate pointed at is kept. *)
DirectoryEdit ==
  /\ Key("edit") /\ scr' = Echoed(NUL)
  /\ \E s \in Settings, taken \in SUBSET Fields :
       /\ term' = [f \in DOMAIN term |-> IF f \in taken THEN s[f] ELSE term[f]]
       /\ entry' = [f \in Fields |-> IF f \in taken \cup {"baudrate"}
                                     THEN s[f] ELSE entry[f]]
  /\ seen' = [seen EXCEPT !.edited = TRUE]
  /\ UNCHANGED <<chip, todo, rx, iq, ri, noise, mode, config, image, tasks>>

(* RETURN in the directory: the port gets the entry's settings, then dial. *)
DirectoryDial ==
  /\ Key("directory") /\ scr' = Echoed(NUL)
  /\ term' = [f \in DOMAIN term |-> IF f \in Fields THEN entry[f] ELSE term[f]]
  /\ mode' = "port" /\ todo' = Reprogram
  /\ call' = [NoCall EXCEPT !.result = "DIAL"]
  /\ seen' = [seen EXCEPT !.edited = FALSE]
  /\ script_CONNECT' = FALSE
  /\ UNCHANGED <<chip, rx, iq, ri, noise, files, infile, job, r,
                 script_running>>

(* dial(..., 0): it redials until it is connected or a key is pressed.     *)
ManualDial == /\ Key("dial") /\ scr' = Echoed(NUL) /\ mode' = "dial"
              /\ call' = [NoCall EXCEPT !.result = "DIAL"]
              /\ script_CONNECT' = FALSE
              /\ UNCHANGED <<comm, files, infile, job, r, script_running, seen>>

(* save_screen: over the old file (mode 1) or behind it (mode 0).          *)
Saved(page, overwrite) ==
  (IF overwrite THEN <<>> ELSE image) \o
    [i \in 1 .. Len(page) |-> {page[i].data}]

SaveMenu == /\ Key("save") /\ scr' = Echoed(NUL)
            /\ \E overwrite \in BOOLEAN : image' = Saved(scr'.page, overwrite)
            /\ UNCHANGED <<comm, mode, entry, config, tasks, seen>>

(* view_screen clears the page first, whatever the decoder waits for.      *)
view_screen(s) == /\ scr' = charin(s, "CS") /\ infile' = image /\ mode' = "view"

ViewMenu == /\ Key("view") /\ view_screen(Echoed(NUL))
            /\ UNCHANGED <<comm, files, call, job, r, script_CONNECT,
                           script_running, seen>>

ScriptMenu == /\ Key("script") /\ plan.script # <<>> /\ scr' = Echoed(NUL)
              /\ mode' = "script" /\ script_running' = TRUE /\ job' = Begun(job)
              /\ seen' = [seen EXCEPT !.drifted = FALSE]
              /\ UNCHANGED <<comm, files, infile, call, r, script_CONNECT>>

(* FK10 twice: the old vector is put back and the settings are saved.      *)
Exit == /\ Key("exit") /\ scr' = Echoed(NUL) /\ mode' = "off"
        /\ reset8250int /\ config' = save_config
        /\ UNCHANGED <<term, lcr, divisor, ier, OldAsynVector, todo, rx, iq, ri,
                       noise, entry, image, tasks, seen>>
-----------------------------------------------------------------------------
Caller == IF script_running THEN "script" ELSE "keys"

(* view_screen's loop.  FK10 leaves it, any other key is thrown away; the  *)
(* byte 255 is taken for the end of the file.                              *)
View ==
  /\ mode = "view" /\ infile # <<>>
  /\ \E b \in Head(infile) :
       IF b = "FF" THEN /\ infile' = <<>> /\ UNCHANGED <<scr, keyboard>>
       ELSE /\ keyboard # "FK10" /\ keyboard' = "none"
            /\ infile' = Tail(infile) /\ scr' = charin(scr, b)
  /\ UNCHANGED <<comm, mode, files, call, job, r, script_CONNECT, script_running,
                 clock, plan, keys, line, seen>>

ViewEnd == /\ mode = "view"
           /\ \/ infile = <<>> /\ UNCHANGED keyboard
              \/ /\ infile # <<>> /\ Head(infile) # {"FF"}
                 /\ keyboard = "FK10" /\ keyboard' = "none"
           /\ mode' = Caller /\ infile' = <<>>
           /\ UNCHANGED <<comm, scr, files, call, job, r, script_CONNECT,
                          script_running, clock, plan, keys, line, seen>>
-----------------------------------------------------------------------------
Holds(s, needle) ==
  \E i \in 0 .. Len(s) - Len(needle) : SubSeq(s, i + 1, i + Len(needle)) = needle

(* dial: a number is dialled; what was received until then is forgotten.   *)
Dial == /\ mode = "dial" /\ call.result \in {"DIAL", "BUSY", "TIMEOUT"}
        /\ call' = [call EXCEPT !.endtime = clock + DialTime, !.r = <<>>,
                                !.result = "UNKNOWN"]
        /\ iq' = <<>>
        /\ UNCHANGED <<term, chip, todo, rx, ri, noise, scr, mode, files, infile,
                       job, r, script_CONNECT, script_running, world, seen>>

Waiting == /\ mode = "dial" /\ call.result = "UNKNOWN"
           /\ keyboard = "none" /\ clock < call.endtime

(* A byte of the reply; busy counts after connect.                         *)
DialHear ==
  /\ Waiting /\ receivechar /\ Len(call.r) < RMax
  /\ LET heard == Append(call.r, Head(iq))
     IN  call' = [call EXCEPT !.r = heard, !.result =
                    IF Holds(heard, modembusy) THEN "BUSY!"
                    ELSE IF Holds(heard, modemconnect) THEN "CONNECT" ELSE @]
  /\ UNCHANGED <<ri, scr, mode, files, infile, job, r, script_CONNECT,
                 script_running, world, seen>>

Result == IF keyboard # "none" THEN "ABORT"
          ELSE CASE call.result = "CONNECT" -> "CONNECT"
                 [] call.result = "BUSY!"   -> "BUSY"
                 [] OTHER                   -> "TIMEOUT"

TriedOutIfEndless(tries) == call.times = 0 /\ tries >= call.times
TriedOut(tries) == call.times # 0 /\ tries >= call.times

(* A call is over: again, or back to where dial was called from.  The key  *)
(* that aborts is gone; the clock and the reply are looked at no more.     *)
Gives(tries) == Result \in {"CONNECT", "ABORT"} \/ TriedOut(tries)

DialOver ==
  /\ mode = "dial" /\ call.result \notin {"DIAL", "BUSY", "TIMEOUT"} /\ ~Waiting
  /\ call' = IF Gives(call.tries + 1) THEN NoCall
             ELSE [call EXCEPT !.result = Result,
                     !.tries = IF @ < call.times THEN @ + 1 ELSE @]
  /\ mode' = IF Gives(call.tries + 1) THEN Caller ELSE mode
  /\ script_CONNECT' = (Result = "CONNECT")
  /\ keyboard' = "none"
  /\ UNCHANGED <<comm, scr, files, infile, job, r, script_running, clock, plan,
                 keys, line, seen>>
-----------------------------------------------------------------------------
script == plan.script
AtLine == mode = "script" /\ job.pos < Len(script) /\ keyboard # "FK10"
Reads(command) == AtLine /\ parse_command_line(script, job).cmd = command
Line  == parse_command_line(script, job)
Moved == /\ job' = Turn(script, job, clock, script_CONNECT) /\ keyboard' = "none"

(* How often the first line of the last LOOP's body was read.              *)
Rounds == IF Line.cmd = "LOOP" THEN 0
          ELSE IF job.pos = seen.body THEN seen.rounds + 1
          ELSE seen.rounds

Jumps  == Line.cmd = "ENDLOOP" /\ (job.loopcountmax = 0 \/ job'.loopbegin # -1)
Skips  == Line.cmd \in {"IF", "ELSE"} /\ job'.pos # job.pos + 1

Told == [seen EXCEPT
  !.body = IF Line.cmd = "LOOP" THEN job.pos + 1 ELSE @,
  !.exact = IF Line.cmd = "LOOP" THEN job'.loopbegin = job.pos ELSE @,
  !.rounds = IF job.loopcountmax = 0 THEN 0 ELSE Rounds,
  !.drifted = @ \/ Jumps \/ Skips]

Noted == seen' = Told

(* The statements without an effect on anything but the script.            *)
Statement ==
  /\ AtLine /\ Line.cmd \notin {"SLEEP", "DIAL", "SHOW", "CAPTURE", "WAIT"}
  /\ Moved /\ Noted
  /\ UNCHANGED <<comm, scr, mode, files, infile, call, r, script_CONNECT,
                 script_running, clock, plan, keys, line>>

Sleep == /\ Reads("SLEEP") /\ Moved /\ Noted
         /\ clock' = (clock + Line.n) % DAY
         /\ UNCHANGED <<comm, scr, mode, files, infile, call, r, script_CONNECT,
                        script_running, plan, keys, line>>

ScriptDial == /\ Reads("DIAL") /\ Moved /\ Noted
              /\ mode' = "dial" /\ script_CONNECT' = FALSE
              /\ call' = [NoCall EXCEPT !.times = Line.n, !.result = "DIAL"]
              /\ UNCHANGED <<comm, scr, files, infile, r, script_running, clock,
                             plan, keys, line>>

Show == /\ Reads("SHOW") /\ Moved /\ Noted /\ view_screen(scr)
        /\ UNCHANGED <<comm, files, call, r, script_CONNECT, script_running,
                       clock, plan, keys, line>>

Capture == /\ Reads("CAPTURE") /\ Moved /\ Noted /\ image' = Saved(scr.page, Line.n = 1)
           /\ UNCHANGED <<comm, scr, mode, entry, config, infile, call, r,
                          script_CONNECT, script_running, clock, plan, keys, line>>

(* WAIT collects from the start of r, where the last one's bytes are left. *)
WaitKeeping ==
  /\ Reads("WAIT") /\ Moved /\ mode' = "wait"
  /\ seen' = [Told EXCEPT !.heard = <<>>, !.rung = FALSE]
  /\ UNCHANGED <<comm, scr, files, infile, call, r, script_CONNECT,
                 script_running, clock, plan, keys, line>>

Wait == /\ Reads("WAIT") /\ Moved /\ mode' = "wait" /\ ri' = 0
        /\ seen' = [Told EXCEPT !.heard = <<>>, !.rung = FALSE]
        /\ UNCHANGED <<term, chip, todo, rx, iq, noise, scr, files, infile, call,
                       r, script_CONNECT, script_running, clock, plan, keys, line>>

(* The string in r: up to its first NUL.                                   *)
Text(a) == LET end == Min({i \in 0 .. RMax : a[i] = NUL})
           IN  [i \in 1 .. end |-> a[i - 1]]

(* The line being executed is the one before pos.                          *)
Needle == script[job.pos].needle

WaitHear ==
  /\ mode = "wait" /\ keyboard = "none" /\ ri < RMax /\ receivechar
  /\ r' = [r EXCEPT ![ri] = Head(iq), ![ri + 1] = NUL]
  /\ LET found == Holds(Text(r'), Needle)
     IN  /\ mode' = IF found THEN "script" ELSE "wait"
         /\ ri' = IF found THEN 0 ELSE ri + 1
  /\ seen' = [seen EXCEPT !.heard = Append(@, Head(iq))]
  /\ UNCHANGED <<scr, files, infile, call, job, script_CONNECT, script_running,
                 world>>

(* A key ends the waiting; it is left for the next line to find.           *)
WaitKey == /\ mode = "wait" /\ keyboard # "none" /\ mode' = "script"
           /\ UNCHANGED <<comm, scr, files, tasks, world, seen>>

ScriptEnd == /\ mode = "script" /\ ~AtLine
             /\ mode' = "keys" /\ script_running' = FALSE
             /\ keyboard' = IF job.pos < Len(script) THEN "none" ELSE keyboard
             /\ UNCHANGED <<comm, scr, files, infile, call, job, r,
                            script_CONNECT, clock, plan, keys, line, seen>>
-----------------------------------------------------------------------------
(* The host's next byte, one of those the plan has there.                  *)
Host == /\ mode # "off" /\ line # <<>> /\ line' = Tail(line)
        /\ \E b \in Head(line) : Arrive(b)
        /\ UNCHANGED <<scr, mode, files, tasks, clock, keyboard, plan, keys, seen>>

Interrupt == /\ mode # "off"
             /\ DataReadyInterrupt \/ LineStatusInterrupt \/ ModemStatusInterrupt
             /\ seen' = [seen EXCEPT !.rung = @ \/ ri' # ri]
             /\ UNCHANGED <<scr, mode, files, tasks, world>>

(* A tick: the loops look at the clock many times in one.                  *)
Tick == /\ mode \in {"script", "wait"} \/ (Waiting /\ iq = <<>>)
        /\ clock' = (clock + 1) % DAY
        /\ UNCHANGED <<comm, scr, mode, files, tasks, keyboard, plan, keys, line,
                       seen>>

(* A key pressed while a script, a call or a view is running.              *)
Press == /\ mode \in {"view", "dial", "script", "wait"}
         /\ keyboard = "none" /\ keys > 0 /\ keys' = keys - 1
         /\ keyboard' \in plan.use \cap {"FK10", "ESC"}
         /\ UNCHANGED <<comm, scr, mode, files, tasks, clock, plan, line, seen>>

User == \/ Start \/ Reveal \/ \E b \in {"a"} : Type(b)
        \/ TermMenu \/ SerialMenu
        \/ DirectoryEdit \/ DirectoryDial \/ ManualDial
        \/ SaveMenu \/ ViewMenu \/ ScriptMenu \/ Exit \/ Press
Emulate == \/ Port \/ Receive \/ LateKey \/ View \/ ViewEnd
           \/ Dial \/ DialHear \/ DialOver
           \/ Statement \/ Sleep \/ ScriptDial \/ Show \/ Capture
           \/ Wait \/ WaitHear \/ WaitKey \/ ScriptEnd

Next == User \/ Emulate \/ Host \/ Interrupt \/ Tick

Spec == Init /\ [][Next]_vars

(* The program goes on by itself, and time does.                           *)
FairSpec == Spec /\ WF_vars(Emulate) /\ WF_vars(Tick)
-----------------------------------------------------------------------------
(* The values the variables take.  The cursor stays on the screen, and     *)
(* arguments are collected for one primitive at a time, never too many.    *)
Decoding ==
  /\ scr.at.row \in 0 .. ROWS - 1 /\ scr.at.col \in 0 .. COLS - 1
  /\ IF scr.drawing = "none" THEN scr.draw_para_rxd = 0
     ELSE scr.draw_para_rxd \in 0 .. Arguments[scr.drawing] - 1
  /\ ~scr.view_conceal

TypeOK ==
  /\ Decoding
  /\ mode \in {"off", "port", "keys", "dial", "view", "script", "wait"}
  /\ term.baudrate \in Bauds /\ term.com \in Ports
  /\ vec \in [Ports -> {"dos", "ours"}]
  /\ rx \in Byte \cup {NoByte} /\ iq \in Seq(Byte \cup {Latched})
  /\ job.pos \in 0 .. Len(script) /\ job.loopbegin \in -1 .. Len(script) - 1
  /\ ri \in 0 .. RMax /\ clock \in 0 .. DAY - 1
  /\ script_running => mode \in {"script", "dial", "view", "wait"}

(* A drawing begins on the page.                                           *)
Drawn(page, before) ==
  \E i \in 1 .. before : page[i].at.lastesc /\ page[i].data \in Drawings

ChineseConcealed(page) ==
  Concealing(page) # {} /\ \E j \in 1 .. Len(page) :
                             page[j].at.screen_mode = "CHINESE"

(* What is left of an attribute record without the mosaic held, which a    *)
(* concealed mosaic does not become.                                       *)
Seen(a) == [a EXCEPT !.hold_mosaic_char = ""]

(* FK09 was pressed in a drawing, whose arguments were counted anew: the    *)
(* page no longer tells which bytes of it are arguments.                    *)
Recorded == ~seen.redrawn \/ ~Drawn(scr.page, Len(scr.page))

(* Whenever FK09 may be pressed, reveal leaves the decoder, the page and   *)
(* the text page as they were, with the concealing of the rest of the row  *)
(* ended, unless the page draws: the search may then begin in arguments.   *)
(* On its way it decodes every byte at the place and with the attributes   *)
(* it was received with, but for Chinese, two columns wide or concealed    *)
(* one.                                                                    *)
RevealInPlace ==
  LET first == FirstConcealed(scr.page)
  IN  /\ ~Drawn(scr.page, Len(scr.page)) =>
           reveal(scr) = [scr EXCEPT !.last_conceal = ~@, !.conceal = FALSE]
      /\ /\ scr.drawing = "none" /\ Concealing(scr.page) # {}
         /\ ~Drawn(scr.page, first) /\ ~ChineseConcealed(scr.page) /\ Recorded
         => \A j \in first .. Len(scr.page) - 1 :
              Seen(Replayed(Revealing(scr), first, j).at) = Seen(scr.page[j + 1].at)

(* A page that began on a clean screen looks the same when its image is    *)
(* viewed, provided the decoder is not in the middle of anything when      *)
(* view_screen clears it.                                                  *)
Viewed(s, page) ==
  LET decoded[i \in 0 .. Len(page)] ==
        IF i = 0 THEN charin(s, "CS") ELSE charin(decoded[i - 1], page[i].data)
  IN  decoded[Len(page)]

Places(page) == [i \in 1 .. Len(page) |-> [page[i] EXCEPT !.at = Seen(@)]]

SavedScreenViews ==
  /\ scr.page # <<>> /\ scr.page[1].at = Home /\ ~ChineseConcealed(scr.page)
  /\ scr.drawing = "none" /\ ~scr.at.hidden /\ ~scr.at.lastesc /\ Recorded
  => LET t == Viewed(scr, scr.page)
     IN  /\ Places(t.page) = Places(scr.page) /\ t.textpage = scr.textpage
         /\ Seen(t.at) = Seen(scr.at)

(* Once a function that programs the port is done the port works as the    *)
(* settings say, whatever it was set to before: no bit of an older format  *)
(* is left and the divisor is the baud rate's.  An edit of the dialing     *)
(* directory, which changes the settings behind the port's back, waits for *)
(* the next one.                                                           *)
PortMatchesSettings ==
  mode \notin {"off", "port"} /\ ~seen.edited =>
    /\ lcr[term.com] = term.wordlength \cup term.parity \cup term.stopbit
    /\ divisor[term.com] = BaudFactor \div term.baudrate

(* After the program both vectors are DOS's again, through any changes of  *)
(* the port, if no setting was changed without choosing the port: setup8250 *)
(* then takes its own handler for the old one.                             *)
VectorsRestored ==
  mode = "off" /\ ~seen.rehooked => \A p \in Ports : vec[p] = "dos"

(* WAIT goes on when the host has sent its string since WAIT began, and    *)
(* not on what an earlier WAIT left, unless the telephone rang meanwhile.  *)
WaitHeard ==
  [][mode = "wait" /\ mode' = "script" /\ keyboard = "none" /\ ~seen.rung
       => Holds(seen'.heard, Needle)]_vars

(* A LOOP recorded at its own line that ends at an ENDLOOP has run its     *)
(* body as often as it says, with whatever IFs and EXITLOOPs in it; and    *)
(* LOOPs are recorded so until an IF, an ELSE or an ENDLOOP moves the file. *)
LoopsCount ==
  [][AtLine /\ job' # job =>
       /\ ~seen'.drifted => job'.linenumber = job'.pos
       /\ Line.cmd = "ENDLOOP" /\ job.loopbegin # -1 /\ job'.loopbegin = -1
            /\ seen.exact /\ job.loopcountmax > 0
            => seen'.rounds = job.loopcountmax]_vars

(* A script with no WAIT, no endless call and at most one loop, which is   *)
(* counted and comes before any IF, ends: its calls give up after the      *)
(* tries they are given, unless one of them is to end after midnight,      *)
(* which the clock that is compared with its end never reaches.            *)
Finite(lines) ==
  /\ \A i \in 1 .. Len(lines) :
       /\ lines[i].cmd # "WAIT"
       /\ lines[i].cmd \in {"LOOP", "DIAL"} => lines[i].n > 0
       /\ lines[i].cmd = "LOOP" => \A j \in 1 .. i - 1 :
            lines[j].cmd \notin {"LOOP", "IF", "ELSE", "ENDLOOP"}

ScriptEnds ==
  script_running /\ Finite(script)
    ~> ~script_running \/ (call.endtime >= DAY /\ call.tries < call.times)
=============================================================================
