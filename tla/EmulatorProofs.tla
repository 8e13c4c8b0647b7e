--------------------------- MODULE EmulatorProofs ---------------------------
(***************************************************************************)
(* Theorems about Emulator.tla for any plans of user and host, any bytes,  *)
(* screens and scripts and any settings a user may pick: the port and the  *)
(* vectors, counted loops, WAIT, what reveal and view_screen decode, and   *)
(* the types.                                                              *)
(***************************************************************************)
EXTENDS Emulator, ScreenProofs, TLAPS, LeastNumber

(* What setup8250 and change_dialdir leave to do, step by step.            *)
Setup5 == <<"latch", "divisor", "unlatch", "format", "enable">>
Setup4 == <<"divisor", "unlatch", "format", "enable">>
Setup3 == <<"unlatch", "format", "enable">>
Setup2 == <<"format", "enable">>
Setup1 == <<"enable">>
Again3 == <<"divisor", "unlatch", "format">>
Again2 == <<"unlatch", "format">>
Again1 == <<"format">>

Left == {setup8250, Setup5, Setup4, Setup3, Setup2, Setup1,
         Reprogram, Again3, Again2, Again1}

LEMMA Tails ==
  /\ Tail(setup8250) = Setup5 /\ Tail(Setup5) = Setup4 /\ Tail(Setup4) = Setup3
  /\ Tail(Setup3) = Setup2 /\ Tail(Setup2) = Setup1
  /\ Tail(Reprogram) = Again3 /\ Tail(Again3) = Again2 /\ Tail(Again2) = Again1
  BY DEF setup8250, Reprogram, Setup5, Setup4, Setup3, Setup2, Setup1,
         Again3, Again2, Again1
-----------------------------------------------------------------------------
Modes == {"off", "port", "keys", "dial", "view", "script", "wait"}

Terminal(t)  == /\ DOMAIN t = Fields \cup {"localecho", "com"}
                /\ t.baudrate \in Bauds /\ t.com \in Ports
Directory(e) == DOMAIN e = Fields /\ e.baudrate \in Bauds

(* What the settings, the directory and the configuration file hold.       *)
SettingsOK ==
  /\ mode \in Modes
  /\ Terminal(term) /\ Directory(entry)
  /\ config = <<>> \/ \E t, e : /\ Terminal(t) /\ Directory(e)
                               /\ config = <<ToFile(t), ToFile(e)>>
  /\ DOMAIN lcr = Ports /\ DOMAIN divisor = Ports /\ DOMAIN vec = Ports
  /\ {"edited", "rehooked"} \subseteq DOMAIN seen
  /\ seen.edited \in BOOLEAN /\ seen.rehooked \in BOOLEAN
  /\ mode = "port" => todo \in Left /\ ~seen.edited

FormatRight  == lcr[term.com] = term.wordlength \cup term.parity \cup term.stopbit
DivisorRight == divisor[term.com] = BaudFactor \div term.baudrate

(* The port is brought to the settings write by write: the divisor first,  *)
(* and the format from a register without a bit.                           *)
Programming ==
  /\ todo \in {Setup3, Again2} => DivisorRight
  /\ todo \in {Setup2, Again1} => DivisorRight /\ lcr[term.com] = {}
  /\ todo = Setup1 => DivisorRight /\ FormatRight

PortInv ==
  /\ SettingsOK
  /\ mode = "port" => Programming
  /\ PortMatchesSettings

(* A vector that is not DOS's is the one of the port in use, and DOS's own *)
(* is kept for it.                                                         *)
Hooked   == /\ vec[term.com] = "ours" /\ OldAsynVector = "dos"
            /\ \A p \in Ports \ {term.com} : vec[p] = "dos"
Unhooked == \A p \in Ports : vec[p] = "dos"

VectorInv ==
  ~seen.rehooked =>
    CASE mode = "off"                         -> Unhooked
      [] mode = "port" /\ todo = setup8250    -> Hooked \/ Unhooked
      [] OTHER                                -> Hooked

EmulatorInv == PortInv /\ VectorInv

LEMMA FileKeeps ==
  ASSUME NEW t, Terminal(t)
  PROVE  Terminal(FromFile(ToFile(t)))
  BY BaudAssumption DEF Terminal, FromFile, ToFile, Fields

LEMMA FileKeepsEntry ==
  ASSUME NEW e, Directory(e)
  PROVE  Directory(FromFile(ToFile(e)))
  BY BaudAssumption DEF Directory, FromFile, ToFile, Fields

LEMMA FactorySettings == Terminal(Factory) /\ Directory(FactoryEntry)
  BY BaudAssumption
  DEF Terminal, Directory, Factory, FactoryEntry, Fields, Ports, COM1, COM2

(* The divisors of the menu are below 128.                                 *)
LEMMA DivisorOfMenu ==
  ASSUME NEW b \in Bauds
  PROVE  Divisor(b) = BaudFactor \div b
  BY BaudAssumption DEF Divisor, BaudFactor

LEMMA EmulatorInit == Init => EmulatorInv
<1> SUFFICES ASSUME Init
             PROVE  EmulatorInv
  OBVIOUS
<1>1. SettingsOK
  BY FactorySettings DEF Init, CommInit, SettingsOK, Modes, NewSeen
<1>2. PortInv
  BY <1>1 DEF Init, PortInv, PortMatchesSettings
<1>3. VectorInv
  BY DEF Init, CommInit, VectorInv, Unhooked, NewSeen
<1>. QED
  BY <1>2, <1>3 DEF EmulatorInv
-----------------------------------------------------------------------------
(* A step that leaves settings, port and vectors alone, and neither starts *)
(* nor ends programming or the program, changes nothing of the invariant.  *)
Marks == seen'.edited = seen.edited /\ seen'.rehooked = seen.rehooked
           /\ DOMAIN seen' = DOMAIN seen

LEMMA QuietStep ==
  ASSUME EmulatorInv, UNCHANGED <<term, lcr, divisor, vec, OldAsynVector, todo>>,
         UNCHANGED <<entry, config>>, Marks,
         mode' = mode \/ (mode' \in Modes \ {"off", "port"}
                            /\ mode \notin {"off", "port"})
  PROVE  EmulatorInv'
<1> USE DEF EmulatorInv, PortInv, Marks
<1>1. SettingsOK'
  BY DEF SettingsOK, Terminal, Directory, ToFile
<1>2. mode' = "port" => Programming'
  BY DEF Programming, DivisorRight, FormatRight
<1>3. PortMatchesSettings'
  BY DEF PortMatchesSettings
<1>4. VectorInv'
  BY DEF VectorInv, Hooked, Unhooked
<1>. QED
  BY <1>1, <1>2, <1>3, <1>4

LEMMA MarksKept ==
  ASSUME EmulatorInv
  PROVE  /\ UNCHANGED seen => Marks
         /\ \A x, y : seen' = [seen EXCEPT !.heard = x, !.rung = y] => Marks
         /\ \A x : seen' = [seen EXCEPT !.redrawn = x] => Marks
         /\ \A x, y, z, u : seen' = [seen EXCEPT !.body = x, !.exact = y,
                                     !.rounds = z, !.drifted = u] => Marks
  BY DEF Marks, EmulatorInv, PortInv, SettingsOK

LEMMA MarkKept ==
  ASSUME EmulatorInv, NEW f \in {"drifted", "heard", "rung"}, NEW x,
         seen' = [seen EXCEPT ![f] = x]
  PROVE  Marks
  BY DEF Marks, EmulatorInv, PortInv, SettingsOK

LEMMA MarksTold ==
  ASSUME EmulatorInv,
         seen' = Told \/ seen' = [Told EXCEPT !.heard = <<>>, !.rung = FALSE]
  PROVE  Marks
<1>1. {"edited", "rehooked"} \subseteq DOMAIN seen
  BY DEF EmulatorInv, PortInv, SettingsOK
<1>2. /\ DOMAIN Told = DOMAIN seen
      /\ Told.edited = seen.edited /\ Told.rehooked = seen.rehooked
  BY <1>1 DEF Told
<1>. HIDE DEF Told
<1>. QED
  BY <1>1, <1>2 DEF Marks

(* What the user does without touching a setting.                          *)
LEMMA QuietUser ==
  ASSUME EmulatorInv,
         \/ Reveal \/ \E b \in {"a"} : Type(b) \/ ManualDial \/ SaveMenu \/ ViewMenu
         \/ ScriptMenu \/ Press
  PROVE  EmulatorInv'
<1> USE QuietStep, MarksKept DEF Modes, comm, chip, files, Key
<1>1. CASE Reveal  BY <1>1 DEF Reveal
<1>2. CASE \E b \in {"a"} : Type(b)
  <2>1. PICK b \in {"a"} : Type(b)
    BY <1>2
  <2>. QED
    BY <2>1 DEF Type
<1>3. CASE ManualDial  BY <1>3 DEF ManualDial
<1>4. CASE SaveMenu  BY <1>4 DEF SaveMenu
<1>5. CASE ViewMenu  BY <1>5 DEF ViewMenu, view_screen
<1>6. CASE ScriptMenu
  <2>1. Marks
    BY <1>6, MarkKept DEF ScriptMenu
  <2>. QED
    BY <1>6, <2>1 DEF ScriptMenu
<1>7. CASE Press  BY <1>7 DEF Press
<1>. QED
  BY <1>1, <1>2, <1>3, <1>4, <1>5, <1>6, <1>7

(* What the loops of the program do.                                       *)
LEMMA QuietProgram ==
  ASSUME EmulatorInv,
         \/ Receive \/ LateKey \/ View \/ ViewEnd \/ Dial \/ DialHear \/ DialOver
         \/ Statement \/ Sleep \/ ScriptDial \/ Show \/ Capture
         \/ Wait \/ WaitHear \/ WaitKey \/ ScriptEnd
  PROVE  EmulatorInv'
<1> USE QuietStep, MarksKept DEF Modes, comm, chip, files, receivechar, AtLine, Reads
<1>1. CASE Receive  BY <1>1 DEF Receive
<1>2. CASE LateKey  BY <1>2 DEF LateKey
<1>3. CASE View  BY <1>3 DEF View
<1>4. CASE ViewEnd  BY <1>4 DEF ViewEnd, Caller
<1>5. CASE Dial  BY <1>5 DEF Dial
<1>6. CASE DialHear  BY <1>6 DEF DialHear, Waiting
<1>7. CASE DialOver  BY <1>7 DEF DialOver, Caller
<1>8. CASE Statement  BY <1>8, MarksTold DEF Statement, Noted
<1>9. CASE Sleep  BY <1>9, MarksTold DEF Sleep, Noted
<1>10. CASE ScriptDial  BY <1>10, MarksTold DEF ScriptDial, Noted
<1>11. CASE Show  BY <1>11, MarksTold DEF Show, Noted, view_screen
<1>12. CASE Capture  BY <1>12, MarksTold DEF Capture, Noted
<1>13. CASE Wait  BY <1>13, MarksTold DEF Wait
<1>14. CASE WaitHear
  <2>1. /\ UNCHANGED <<term, chip, todo, entry, config>>
        /\ mode = "wait" /\ mode' \in {"script", "wait"}
    BY <1>14 DEF WaitHear
  <2>2. PICK heard : seen' = [seen EXCEPT !.heard = heard]
    BY <1>14 DEF WaitHear
  <2>3. Marks
    BY <2>2, MarkKept
  <2>. QED
    BY <2>1, <2>3
<1>15. CASE WaitKey  BY <1>15 DEF WaitKey
<1>16. CASE ScriptEnd  BY <1>16 DEF ScriptEnd
<1>. QED
  BY <1>1, <1>2, <1>3, <1>4, <1>5, <1>6, <1>7, <1>8, <1>9, <1>10, <1>11, <1>12,
     <1>13, <1>14, <1>15, <1>16

(* What happens to the program: a byte, an interrupt, a tick.              *)
LEMMA QuietWorld ==
  ASSUME EmulatorInv, Host \/ Interrupt \/ Tick \/ UNCHANGED vars
  PROVE  EmulatorInv'
<1> USE QuietStep, MarksKept DEF Modes, comm, chip, files
<1>1. CASE Host  BY <1>1 DEF Host, Arrive
<1>2. CASE Interrupt
  <2>1. UNCHANGED <<term, chip, todo, mode, entry, config>>
    BY <1>2 DEF Interrupt, DataReadyInterrupt, LineStatusInterrupt,
                ModemStatusInterrupt
  <2>2. PICK rung : seen' = [seen EXCEPT !.rung = rung]
    BY <1>2 DEF Interrupt
  <2>3. Marks
    BY <2>2, MarkKept
  <2>. QED
    BY <2>1, <2>3
<1>3. CASE Tick  BY <1>3 DEF Tick
<1>4. CASE UNCHANGED vars  BY <1>4 DEF vars
<1>. QED
  BY <1>1, <1>2, <1>3, <1>4
-----------------------------------------------------------------------------
(* A function that programs the port begins with the settings in place.    *)
LEMMA ProgrammingBegins ==
  ASSUME NEW todo_ \in {setup8250, Reprogram}
  PROVE  /\ todo_ \in Left
         /\ todo_ \notin {Setup3, Setup2, Setup1, Again2, Again1}
<1>1. /\ Len(setup8250) = 6 /\ Len(Reprogram) = 4
      /\ Len(Setup3) = 3 /\ Len(Setup2) = 2 /\ Len(Setup1) = 1
      /\ Len(Again2) = 2 /\ Len(Again1) = 1
  BY DEF setup8250, Reprogram, Setup3, Setup2, Setup1, Again2, Again1
<1>. QED
  BY <1>1 DEF Left

LEMMA Starts ==
  ASSUME EmulatorInv, Start
  PROVE  EmulatorInv'
<1> USE DEF EmulatorInv, PortInv
<1>1. Terminal(load_config[1]) /\ Directory(load_config[2])
  <2>1. CASE config = <<>>
    BY <2>1, FactorySettings DEF load_config
  <2>2. CASE config # <<>>
    <3>1. PICK t, e : /\ Terminal(t) /\ Directory(e)
                      /\ config = <<ToFile(t), ToFile(e)>>
      BY <2>2 DEF SettingsOK
    <3>2. load_config = <<FromFile(ToFile(t)), FromFile(ToFile(e))>>
      BY <2>2, <3>1 DEF load_config
    <3>. QED
      BY <3>1, <3>2, FileKeeps, FileKeepsEntry
  <2>. QED
    BY <2>1, <2>2
<1>2. /\ Terminal(term') /\ Directory(entry') /\ mode' = "port"
      /\ todo' = setup8250
      /\ seen' = [seen EXCEPT !.edited = FALSE, !.redrawn = FALSE]
      /\ UNCHANGED <<lcr, divisor, vec, OldAsynVector, config>>
  BY <1>1 DEF Start, chip
<1>3. SettingsOK'
  BY <1>2, ProgrammingBegins DEF SettingsOK, Modes, Terminal, Directory
<1>4. Programming' /\ PortMatchesSettings'
  BY <1>2, ProgrammingBegins DEF Programming, PortMatchesSettings
<1>5. VectorInv'
  BY <1>2 DEF VectorInv, Unhooked, Start, SettingsOK
<1>. QED
  BY <1>3, <1>4, <1>5

LEMMA TermMenus ==
  ASSUME EmulatorInv, TermMenu
  PROVE  EmulatorInv'
<1> USE DEF EmulatorInv, PortInv
<1>1. /\ mode = "keys" /\ mode' = "port" /\ todo' = setup8250
      /\ seen' = [seen EXCEPT !.edited = FALSE]
      /\ UNCHANGED <<lcr, divisor, vec, OldAsynVector, entry, config>>
  BY DEF TermMenu, Key, chip, files
<1>2. PICK s \in Settings, f \in Fields \cup {"localecho"} :
        term' \in {[term EXCEPT ![f] = s[f]], term}
  BY DEF TermMenu
<1>3. Terminal(term') /\ term'.com = term.com
  BY <1>2, SettingsAssumption DEF SettingsOK, Terminal, Fields
<1>4. SettingsOK'
  BY <1>1, <1>3, ProgrammingBegins DEF SettingsOK, Modes, Terminal, Directory
<1>5. Programming' /\ PortMatchesSettings'
  BY <1>1, ProgrammingBegins DEF Programming, PortMatchesSettings
<1>6. VectorInv'
  BY <1>1, <1>3 DEF VectorInv, Hooked, Unhooked, SettingsOK
<1>. QED
  BY <1>4, <1>5, <1>6

LEMMA SerialMenus ==
  ASSUME EmulatorInv, SerialMenu
  PROVE  EmulatorInv'
<1> USE DEF EmulatorInv, PortInv
<1>1. /\ mode = "keys" /\ mode' = "port" /\ todo' = setup8250
      /\ seen' = [seen EXCEPT !.edited = FALSE]
      /\ UNCHANGED <<lcr, divisor, OldAsynVector, entry, config>>
  BY DEF SerialMenu, Key, files
<1>2. PICK p \in Ports : serialpf(p)
  BY DEF SerialMenu
<1>3. Terminal(term')
  BY <1>2 DEF serialpf, SettingsOK, Terminal, Fields
<1>4. SettingsOK'
  BY <1>1, <1>2, <1>3, ProgrammingBegins
  DEF SettingsOK, Modes, Terminal, Directory, serialpf
<1>5. Programming' /\ PortMatchesSettings'
  BY <1>1, ProgrammingBegins DEF Programming, PortMatchesSettings
<1>6. VectorInv'
  <2>1. ~seen.rehooked => Hooked
    BY <1>1 DEF VectorInv
  <2>2. ~seen.rehooked => Unhooked'
    BY <1>2, <2>1 DEF Hooked, Unhooked, serialpf, SettingsOK, Terminal
  <2>. QED
    BY <1>1, <2>2 DEF VectorInv, SettingsOK
<1>. QED
  BY <1>4, <1>5, <1>6

LEMMA DirectoryEdits ==
  ASSUME EmulatorInv, DirectoryEdit
  PROVE  EmulatorInv'
<1> USE DEF EmulatorInv, PortInv
<1>1. /\ mode = "keys" /\ mode' = "keys"
      /\ seen' = [seen EXCEPT !.edited = TRUE]
      /\ UNCHANGED <<lcr, divisor, vec, OldAsynVector, todo, config>>
  BY DEF DirectoryEdit, Key, chip
<1>2. PICK s \in Settings, taken \in SUBSET Fields :
        /\ term' = [f \in DOMAIN term |-> IF f \in taken THEN s[f] ELSE term[f]]
        /\ entry' = [f \in Fields |-> IF f \in taken \cup {"baudrate"}
                                      THEN s[f] ELSE entry[f]]
  BY DEF DirectoryEdit
<1>3. Terminal(term') /\ term'.com = term.com
  BY <1>2, SettingsAssumption DEF SettingsOK, Terminal, Fields
<1>4. Directory(entry')
  BY <1>2, SettingsAssumption DEF SettingsOK, Directory, Fields
<1>5. SettingsOK'
  BY <1>1, <1>3, <1>4 DEF SettingsOK, Modes
<1>6. PortMatchesSettings' /\ VectorInv'
  BY <1>1, <1>3 DEF PortMatchesSettings, VectorInv, Hooked, SettingsOK
<1>. QED
  BY <1>1, <1>5, <1>6

LEMMA DirectoryDials ==
  ASSUME EmulatorInv, DirectoryDial
  PROVE  EmulatorInv'
<1> USE DEF EmulatorInv, PortInv
<1>1. /\ mode = "keys" /\ mode' = "port" /\ todo' = Reprogram
      /\ seen' = [seen EXCEPT !.edited = FALSE]
      /\ UNCHANGED <<lcr, divisor, vec, OldAsynVector, entry, config>>
  BY DEF DirectoryDial, Key, chip, files
<1>2. term' = [f \in DOMAIN term |-> IF f \in Fields THEN entry[f] ELSE term[f]]
  BY DEF DirectoryDial
<1>3. Terminal(term') /\ term'.com = term.com
  BY <1>2 DEF SettingsOK, Terminal, Directory, Fields
<1>4. SettingsOK'
  BY <1>1, <1>3, ProgrammingBegins DEF SettingsOK, Modes
<1>5. Programming' /\ PortMatchesSettings'
  BY <1>1, ProgrammingBegins DEF Programming, PortMatchesSettings
<1>6. VectorInv'
  BY <1>1, <1>3 DEF VectorInv, Hooked, SettingsOK
<1>. QED
  BY <1>4, <1>5, <1>6

LEMMA Exits ==
  ASSUME EmulatorInv, Exit
  PROVE  EmulatorInv'
<1> USE DEF EmulatorInv, PortInv
<1>1. /\ mode = "keys" /\ mode' = "off" /\ config' = <<ToFile(term), ToFile(entry)>>
      /\ vec' = [vec EXCEPT ![term.com] = OldAsynVector]
      /\ UNCHANGED <<term, lcr, divisor, OldAsynVector, todo, entry, seen>>
  BY DEF Exit, Key, reset8250int, save_config
<1>2. SettingsOK'
  BY <1>1 DEF SettingsOK, Modes
<1>3. PortMatchesSettings'
  BY <1>1 DEF PortMatchesSettings
<1>4. VectorInv'
  BY <1>1 DEF VectorInv, Hooked, Unhooked, SettingsOK, Terminal
<1>. QED
  BY <1>1, <1>2, <1>3, <1>4
-----------------------------------------------------------------------------
(* No two of the lists begin alike and are as long.                        *)
LEMMA Heads ==
  /\ Head(setup8250) = "hook" /\ Len(setup8250) = 6
  /\ Head(Setup5) = "latch"   /\ Len(Setup5) = 5
  /\ Head(Setup4) = "divisor" /\ Len(Setup4) = 4
  /\ Head(Setup3) = "unlatch" /\ Len(Setup3) = 3
  /\ Head(Setup2) = "format"  /\ Len(Setup2) = 2
  /\ Head(Setup1) = "enable"  /\ Len(Setup1) = 1
  /\ Head(Reprogram) = "latch" /\ Len(Reprogram) = 4
  /\ Head(Again3) = "divisor" /\ Len(Again3) = 3
  /\ Head(Again2) = "unlatch" /\ Len(Again2) = 2
  /\ Head(Again1) = "format"  /\ Len(Again1) = 1
  BY DEF setup8250, Reprogram, Setup5, Setup4, Setup3, Setup2, Setup1,
         Again3, Again2, Again1

(* The latch is closed with every bit of the register off, so that the     *)
(* format, written last, is all there is in it.                            *)
LEMMA Writes ==
  ASSUME EmulatorInv, Port
  PROVE  EmulatorInv'
<1> USE DEF EmulatorInv, PortInv
<1>1. /\ mode = "port" /\ mode' \in Modes \ {"off"} /\ todo \in Left
      /\ todo # <<>> /\ todo' = Tail(todo) /\ ~seen.edited
      /\ UNCHANGED <<term, entry, config>>
  BY DEF Port, PortStep, SettingsOK, files, Modes
<1>2. /\ seen' = [seen EXCEPT !.rehooked =
                    @ \/ (Head(todo) = "hook" /\ vec[term.com] = "ours")]
      /\ mode' = "port" <=> Len(todo) > 1
  BY DEF Port
<1>3. /\ seen'.edited = FALSE /\ DOMAIN seen' = DOMAIN seen
      /\ seen'.rehooked = (seen.rehooked \/ (Head(todo) = "hook" /\ vec[term.com] = "ours"))
  BY <1>1, <1>2 DEF SettingsOK
<1>4. \/ Head(todo) = "hook" /\ Hook
      \/ Program(Head(todo))
      \/ Head(todo) = "enable" /\ Enable
  BY DEF Port, PortStep
<1>5. DOMAIN lcr' = Ports /\ DOMAIN divisor' = Ports /\ DOMAIN vec' = Ports
  BY <1>4 DEF Hook, Program, Enable, SettingsOK
<1>6. term.com \in Ports /\ term.baudrate \in Bauds
  BY DEF SettingsOK, Terminal
<1>7. mode' = "port" => todo' \in Left
  BY <1>1, <1>2, Tails DEF Left, Setup1, Again1
<1>8. SettingsOK'
  BY <1>1, <1>3, <1>5, <1>7 DEF SettingsOK, Terminal, Directory, ToFile
<1>9. VectorInv'
  <2>1. CASE Head(todo) = "hook"
    <3>1. Hook
      BY <1>4, <2>1 DEF Program
    <3>2. todo = setup8250 /\ todo' = Setup5 /\ mode' = "port"
      BY <1>1, <1>2, <2>1, Heads, Tails DEF Left
    <3>3. ~seen'.rehooked => ~seen.rehooked /\ vec[term.com] # "ours"
      BY <1>3, <2>1
    <3>4. ~seen'.rehooked => Unhooked
      BY <1>1, <1>6, <3>2, <3>3 DEF VectorInv, Hooked
    <3>5. ~seen'.rehooked => Hooked'
      BY <1>1, <1>6, <3>1, <3>4 DEF Hook, Hooked, Unhooked, SettingsOK
    <3>. QED
      BY <3>2, <3>5, Heads DEF VectorInv
  <2>2. CASE Head(todo) # "hook"
    <3>1. todo # setup8250 /\ (mode' = "port" => todo' # setup8250)
      BY <1>1, <1>2, <2>2, Heads, Tails DEF Left
    <3>2. UNCHANGED <<vec, OldAsynVector, term>>
      BY <1>1, <1>4, <2>2 DEF Program, Enable
    <3>3. ~seen'.rehooked => ~seen.rehooked
      BY <1>3
    <3>4. ~seen.rehooked => Hooked
      BY <1>1, <3>1 DEF VectorInv
    <3>. QED
      BY <1>1, <3>1, <3>2, <3>3, <3>4 DEF VectorInv, Hooked
  <2>. QED
    BY <2>1, <2>2
<1>10. /\ mode' = "port" => Programming'
       /\ mode' # "port" => (DivisorRight /\ FormatRight)'
  <2>1. CASE todo \in {setup8250, Setup5, Reprogram}
    <3>1. todo' \in {Setup5, Setup4, Again3}
      BY <1>1, <2>1, Tails
    <3>2. Len(todo) \in {6, 5, 4}
      BY <2>1, Heads
    <3>3. todo' \notin {Setup3, Setup2, Setup1, Again2, Again1}
      BY <3>1, Heads
    <3>. QED
      BY <1>2, <3>2, <3>3 DEF Programming
  <2>2. CASE todo \in {Setup4, Again3}
    <3>1. mode' = "port" /\ todo' \in {Setup3, Again2} /\ Program("divisor")
      BY <1>1, <1>2, <1>4, <2>2, Heads, Tails
    <3>2. DivisorRight'
      BY <1>1, <1>6, <3>1, DivisorOfMenu DEF Program, DivisorRight, SettingsOK
    <3>. QED
      BY <3>1, <3>2, Heads DEF Programming
  <2>3. CASE todo \in {Setup3, Again2}
    <3>1. mode' = "port" /\ todo' \in {Setup2, Again1} /\ Program("unlatch")
      BY <1>1, <1>2, <1>4, <2>3, Heads, Tails
    <3>2. DivisorRight' /\ lcr'[term'.com] = {}
      BY <1>1, <1>6, <2>3, <3>1
      DEF Program, Written, Programming, DivisorRight, SettingsOK
    <3>. QED
      BY <3>1, <3>2, Heads DEF Programming
  <2>4. CASE todo \in {Setup2, Again1}
    <3>1. /\ Program("format")
          /\ mode' = "port" => todo' = Setup1
      BY <1>1, <1>2, <1>4, <2>4, Heads, Tails
    <3>2. lcr[term.com] = {} /\ DivisorRight
      BY <1>1, <2>4 DEF Programming
    <3>3. DivisorRight' /\ FormatRight'
      BY <1>1, <1>6, <3>1, <3>2
      DEF Program, Written, DivisorRight, FormatRight, SettingsOK
    <3>. QED
      BY <3>1, <3>3, Heads DEF Programming
  <2>5. CASE todo = Setup1
    <3>1. mode' # "port" /\ Enable
      BY <1>1, <1>2, <1>4, <2>5, Heads DEF Program
    <3>. QED
      BY <1>1, <2>5, <3>1 DEF Enable, Programming, DivisorRight, FormatRight
  <2>. QED
    BY <1>1, <2>1, <2>2, <2>3, <2>4, <2>5 DEF Left
<1>11. PortMatchesSettings'
  BY <1>10 DEF PortMatchesSettings, DivisorRight, FormatRight
<1>. QED
  BY <1>8, <1>9, <1>10, <1>11

LEMMA EmulatorStep == EmulatorInv /\ [Next]_vars => EmulatorInv'
<1> SUFFICES ASSUME EmulatorInv, [Next]_vars
             PROVE  EmulatorInv'
  OBVIOUS
<1>1. CASE User
  BY <1>1, Starts, TermMenus, SerialMenus, DirectoryEdits, DirectoryDials, Exits,
     QuietUser DEF User
<1>2. CASE Emulate
  BY <1>2, Writes, QuietProgram DEF Emulate
<1>3. CASE Host \/ Interrupt \/ Tick \/ UNCHANGED vars
  BY <1>3, QuietWorld
<1>. QED
  BY <1>1, <1>2, <1>3 DEF Next

LEMMA EmulatorInvariant == Spec => []EmulatorInv
  BY EmulatorInit, EmulatorStep, PTL DEF Spec

(* Whatever the settings, the menus and the entries of the directory, and  *)
(* whatever arrives or interrupts between two writes: a function that      *)
(* programs the port leaves it as the settings say.                        *)
THEOREM PortProgrammed == Spec => []PortMatchesSettings
<1>1. EmulatorInv => PortMatchesSettings
  BY DEF EmulatorInv, PortInv
<1>. QED
  BY <1>1, EmulatorInvariant, PTL

(* After any number of sessions, ports and changes of the settings the     *)
(* vectors are DOS's once the program is over, unless a port was hooked    *)
(* over the program's own handler.                                         *)
THEOREM VectorsComeBack == Spec => []VectorsRestored
<1>1. EmulatorInv => VectorsRestored
  BY DEF EmulatorInv, VectorInv, VectorsRestored, Unhooked
<1>. QED
  BY <1>1, EmulatorInvariant, PTL

-----------------------------------------------------------------------------
(* Scripts.  What a statement does to the position in a script.            *)
JobFields == {"pos", "linenumber", "loopbegin", "loopcount", "loopcountmax",
              "iffail", "alarminterval", "starttime"}

HasJob(j) == DOMAIN j = JobFields

(* Lines are counted up to the one read next or fall behind.  A loop that  *)
(* is pending was found by its number; one that is not has had its rounds. *)
JobOK(sc, j) ==
  /\ HasJob(j)
  /\ j.pos \in 0 .. Len(sc)
  /\ j.linenumber \in -1 .. j.pos
  /\ j.linenumber = -1 => j.pos = Len(sc)
  /\ j.loopbegin \in -1 .. Len(sc) - 1
  /\ j.loopcount \in Nat /\ j.loopcountmax \in Int
  /\ j.loopbegin = -1 => j.loopcountmax = 0 \/ j.loopcount >= j.loopcountmax

(* The next line with one of the commands is ahead.                        *)
LEMMA AheadFacts ==
  ASSUME NEW sc, Len(sc) \in Nat, NEW j, j.pos \in 0 .. Len(sc), NEW commands
  PROVE  Ahead(sc, j, commands) \in j.pos .. Len(sc)
<1> DEFINE S == {i \in j.pos .. Len(sc) - 1 : sc[i + 1].cmd \in commands}
                  \cup {Len(sc)}
<1>1. S \in SUBSET Nat /\ S # {} /\ S \subseteq j.pos .. Len(sc)
  OBVIOUS
<1> HIDE DEF S
<1>2. \E m \in S : \A q \in S : m <= q
  BY <1>1, LeastNatural
<1>3. Min(S) \in S
  BY <1>2, Zenon DEF Min
<1>4. Ahead(sc, j, commands) = Min(S)
  BY DEF Ahead, S
<1>. QED
  BY <1>1, <1>3, <1>4

LEMMA AfterFacts ==
  ASSUME NEW sc, Len(sc) \in Nat, NEW i \in 0 .. Len(sc)
  PROVE  /\ After(sc, i) \in i .. Len(sc)
         /\ After(sc, i) = i => i = Len(sc)
         /\ After(sc, i) <= i + 1
BY DEF After

(* A job with its position, or its line number, moved.                     *)
LEMMA JobUpdates ==
  ASSUME NEW j, HasJob(j), NEW x, NEW y
  PROVE  LET t == [j EXCEPT !.pos = x, !.linenumber = y]
         IN  /\ HasJob(t) /\ t.pos = x /\ t.linenumber = y
             /\ t.loopbegin = j.loopbegin /\ t.loopcount = j.loopcount
             /\ t.loopcountmax = j.loopcountmax
BY DEF HasJob, JobFields

(* The loop pending is the same one, after as many rounds.                 *)
SameLoop(j, t) ==
  /\ t.loopbegin = j.loopbegin /\ t.loopcount = j.loopcount
  /\ t.loopcountmax = j.loopcountmax

(* The position and the line number of the statements that search.         *)
LEMMA SkipFacts ==
  ASSUME NEW sc, Len(sc) \in Nat, NEW j, JobOK(sc, j), j.pos < Len(sc), NEW j1,
         HasJob(j1), j1.pos = j.pos + 1, j1.linenumber = j.linenumber, NEW commands
  PROVE  LET t == Skip(sc, j1, commands)
         IN  /\ HasJob(t) /\ SameLoop(j1, t)
             /\ t.pos \in j.pos + 1 .. Len(sc)
             /\ t.linenumber \in Int /\ t.linenumber + 1 \in 0 .. t.pos
             /\ t.pos = j.pos + 1 => t.linenumber = j.linenumber
<1> DEFINE i == Ahead(sc, j1, commands)
           t == [j1 EXCEPT !.pos = After(sc, i), !.linenumber = @ + i - j1.pos]
<1>1. i \in j.pos + 1 .. Len(sc)
  BY AheadFacts DEF JobOK
<1>2. Skip(sc, j1, commands) = t
  BY DEF Skip
<1> HIDE DEF i
<1>3. /\ HasJob(t) /\ SameLoop(j1, t)
      /\ t.pos = After(sc, i) /\ t.linenumber = j.linenumber + i - (j.pos + 1)
  BY DEF HasJob, JobFields, SameLoop
<1> HIDE DEF t
<1>4. /\ After(sc, i) \in i .. Len(sc)
      /\ After(sc, i) = i => i = Len(sc)
  BY <1>1, AfterFacts DEF JobOK
<1>5. j.linenumber \in 0 .. j.pos /\ j.pos \in Nat
  BY DEF JobOK
<1>. QED
  BY <1>1, <1>2, <1>3, <1>4, <1>5

LEMMA ExitLoopFacts ==
  ASSUME NEW sc, Len(sc) \in Nat, NEW j, JobOK(sc, j), j.pos < Len(sc), NEW j1,
         HasJob(j1), j1.pos = j.pos + 1, j1.linenumber = j.linenumber
  PROVE  LET t == EXITLOOP(sc, j1)
         IN  /\ HasJob(t) /\ SameLoop(j1, t)
             /\ t.pos \in j.pos + 1 .. Len(sc)
             /\ t.linenumber \in Int /\ t.linenumber + 1 \in 0 .. t.pos
             /\ t.linenumber - j.linenumber = t.pos - j1.pos
<1> DEFINE i == Ahead(sc, j1, {"ENDLOOP"})
           end == After(sc, i)
           t == [j1 EXCEPT !.pos = end, !.linenumber = @ + end - j1.pos]
<1>1. i \in j.pos + 1 .. Len(sc)
  BY AheadFacts DEF JobOK
<1>2. EXITLOOP(sc, j1) = IF j1.loopbegin = -1 THEN j1 ELSE t
  BY DEF EXITLOOP
<1> HIDE DEF i
<1>3. end \in j.pos + 1 .. Len(sc)
  BY <1>1, AfterFacts DEF JobOK
<1> HIDE DEF end
<1>4. /\ HasJob(t) /\ SameLoop(j1, t)
      /\ t.pos = end /\ t.linenumber = j.linenumber + end - (j.pos + 1)
  BY DEF HasJob, JobFields, SameLoop
<1> HIDE DEF t
<1>5. j.linenumber \in 0 .. j.pos /\ j.pos \in Nat
  BY DEF JobOK
<1>6. CASE j1.loopbegin = -1
  BY <1>2, <1>5, <1>6 DEF SameLoop, JobOK
<1>7. CASE j1.loopbegin # -1
  BY <1>2, <1>3, <1>4, <1>5, <1>7
<1>. QED
  BY <1>6, <1>7

(* One turn of the loop over the lines of a script.                        *)
Turned(sc, j, ln, t) ==
  /\ JobOK(sc, t)
  /\ ln.cmd # "ENDLOOP" => t.pos \in j.pos + 1 .. Len(sc)
  /\ ln.cmd \notin {"LOOP", "ENDLOOP"} => SameLoop(j, t)
  /\ \/ ln.cmd \notin {"IF", "ELSE", "ENDLOOP"}
     \/ ln.cmd \in {"IF", "ELSE"} /\ t.pos = j.pos + 1
     => t.linenumber - j.linenumber = t.pos - j.pos
  /\ ln.cmd = "LOOP" => /\ t.loopbegin = j.linenumber /\ t.loopcount = 0
                          /\ t.loopcountmax = ln.n /\ t.pos = j.pos + 1
  /\ ln.cmd = "ENDLOOP" =>
       /\ t.loopcountmax = j.loopcountmax
       /\ j.loopcountmax = 0 => SameLoop(j, t)
       /\ j.loopcountmax # 0 => t.loopcount = j.loopcount + 1
       /\ j.loopcountmax = 0 \/ t.loopcount < j.loopcountmax
          => /\ t.loopbegin = j.loopbegin
             /\ t.loopbegin # -1 => t.pos = t.loopbegin + 1
       /\ ~ (j.loopcountmax = 0 \/ t.loopcount < j.loopcountmax)
          => /\ t.loopbegin = -1
             /\ t.pos = j.pos + 1 /\ t.linenumber = j.linenumber + 1

(* A statement that does not touch the loop and goes on, or searches.      *)
LEMMA PlainTurn ==
  ASSUME NEW sc, Len(sc) \in Nat, NEW j, JobOK(sc, j), j.pos < Len(sc), NEW ln,
         ln.cmd \notin {"LOOP", "ENDLOOP"},
         NEW e, HasJob(e), SameLoop(j, e),
         e.pos \in j.pos + 1 .. Len(sc),
         e.linenumber \in Int, e.linenumber + 1 \in 0 .. e.pos,
         \/ e.linenumber - j.linenumber = e.pos - (j.pos + 1)
         \/ /\ ln.cmd \in {"IF", "ELSE"}
            /\ e.pos = j.pos + 1 => e.linenumber = j.linenumber
  PROVE  Turned(sc, j, ln, [e EXCEPT !.linenumber = @ + 1])
<1> DEFINE t == [e EXCEPT !.linenumber = @ + 1]
<1>1. /\ HasJob(t) /\ SameLoop(j, t) /\ t.pos = e.pos
      /\ t.linenumber = e.linenumber + 1
  BY DEF HasJob, JobFields, SameLoop
<1> HIDE DEF t
<1>2. /\ j.linenumber \in 0 .. j.pos /\ j.pos \in Nat
      /\ e.pos \in Nat /\ e.linenumber \in Int
  BY DEF JobOK
<1>3. JobOK(sc, t)
  BY <1>1, <1>2 DEF JobOK, SameLoop
<1>4. \/ t.linenumber - j.linenumber = t.pos - j.pos
      \/ /\ ln.cmd \in {"IF", "ELSE"}
         /\ t.pos = j.pos + 1 => t.linenumber - j.linenumber = t.pos - j.pos
  <2>1. CASE e.linenumber - j.linenumber = e.pos - (j.pos + 1)
    <3>1. (e.linenumber + 1) - j.linenumber = e.pos - j.pos
      <4> DEFINE el == e.linenumber
                 jl == j.linenumber
                 ep == e.pos
                 jp == j.pos
      <4>1. el \in Int /\ jl \in Int /\ ep \in Int /\ jp \in Int
        BY <1>2
      <4>2. el - jl = ep - (jp + 1)
        BY <2>1
      <4> HIDE DEF el, jl, ep, jp
      <4>3. (el + 1) - jl = ep - jp
        BY <4>1, <4>2
      <4>. QED
        BY <4>3 DEF el, jl, ep, jp
    <3>. QED
      BY <1>1, <3>1
  <2>2. CASE /\ ln.cmd \in {"IF", "ELSE"}
             /\ e.pos = j.pos + 1 => e.linenumber = j.linenumber
    BY <1>1, <1>2, <2>2
  <2>. QED
    BY <2>1, <2>2
<1>5. Turned(sc, j, ln, t)
  <2>1. t.pos \in j.pos + 1 .. Len(sc)
    BY <1>1
  <2>2. \/ ln.cmd \notin {"IF", "ELSE", "ENDLOOP"}
        \/ ln.cmd \in {"IF", "ELSE"} /\ t.pos = j.pos + 1
        => t.linenumber - j.linenumber = t.pos - j.pos
    BY <1>4
  <2>3. ln.cmd # "LOOP" /\ ln.cmd # "ENDLOOP"
    OBVIOUS
  <2>. QED
    BY <1>1, <1>3, <2>1, <2>2, <2>3, Zenon DEF Turned
<1>. QED
  BY <1>5 DEF t

LEMMA TurnFacts ==
  ASSUME NEW sc, Len(sc) \in Nat, NEW j, JobOK(sc, j), j.pos < Len(sc),
         parse_command_line(sc, j).n \in Int, NEW now, NEW connected
  PROVE  Turned(sc, j, parse_command_line(sc, j), Turn(sc, j, now, connected))
<1> DEFINE ln == parse_command_line(sc, j)
           j1 == [j EXCEPT !.pos = @ + 1]
           e  == Executed(sc, j1, ln, now, connected)
           t  == [e EXCEPT !.linenumber = @ + 1]
<1>1. Turn(sc, j, now, connected) = t
  BY DEF Turn
<1>2. /\ HasJob(j1) /\ SameLoop(j, j1)
      /\ j1.pos = j.pos + 1 /\ j1.linenumber = j.linenumber
  BY DEF JobOK, HasJob, JobFields, SameLoop
<1>3. /\ j.pos \in Nat /\ j.pos + 1 \in j.pos + 1 .. Len(sc)
      /\ j.linenumber \in 0 .. j.pos
      /\ j.loopbegin \in -1 .. Len(sc) - 1
      /\ j.loopcount \in Nat /\ j.loopcountmax \in Int
      /\ j.loopbegin = -1 => j.loopcountmax = 0 \/ j.loopcount >= j.loopcountmax
  BY DEF JobOK
<1> HIDE DEF ln, j1
<1>4. CASE ln.cmd = "LOOP"
  <2>1. e = LOOP(j1, ln.n)
    BY <1>4 DEF Executed
  <2>2. /\ HasJob(t) /\ t.pos = j1.pos /\ t.linenumber = j1.linenumber + 1
        /\ t.loopbegin = j1.linenumber /\ t.loopcount = 0 /\ t.loopcountmax = ln.n
    BY <1>2, <2>1 DEF LOOP, HasJob, JobFields
  <2> HIDE DEF t
  <2>3. JobOK(sc, t)
    BY <1>2, <1>3, <2>2 DEF JobOK, ln
  <2>4. t.linenumber - j.linenumber = t.pos - j.pos
    BY <1>2, <1>3, <2>2
  <2>5. t.pos \in j.pos + 1 .. Len(sc) /\ t.pos = j.pos + 1
    BY <1>2, <1>3, <2>2
  <2>. QED
    BY <1>1, <1>2, <1>4, <2>2, <2>3, <2>4, <2>5 DEF Turned, ln
<1>5. CASE ln.cmd = "ENDLOOP"
  <2> DEFINE j2 == [j1 EXCEPT !.loopcount = @ + 1]
  <2>1. e = ENDLOOP(sc, j1)
    BY <1>5 DEF Executed
  <2>2. /\ HasJob(j2) /\ j2.pos = j1.pos /\ j2.linenumber = j1.linenumber
        /\ j2.loopbegin = j1.loopbegin /\ j2.loopcount = j1.loopcount + 1
        /\ j2.loopcountmax = j1.loopcountmax
    BY <1>2 DEF HasJob, JobFields
  <2>3. e = IF j1.loopcountmax = 0 THEN Jump(sc, j1)
            ELSE IF j2.loopcount < j1.loopcountmax THEN Jump(sc, j2)
            ELSE [j2 EXCEPT !.loopbegin = -1]
    BY <2>1 DEF ENDLOOP
  <2> HIDE DEF j2
  <2>4. ASSUME NEW i, HasJob(i), i.loopbegin = j.loopbegin
        PROVE  LET u == [Jump(sc, i) EXCEPT !.linenumber = @ + 1]
               IN  /\ HasJob(u) /\ SameLoop(i, u)
                   /\ u.pos = IF i.loopbegin = -1 THEN Len(sc) ELSE i.loopbegin + 1
                   /\ u.linenumber = i.loopbegin
    <3> DEFINE d == [i EXCEPT !.pos = IF i.loopbegin = -1 THEN Len(sc)
                                      ELSE i.loopbegin + 1,
                              !.linenumber = i.loopbegin - 1]
               u == [d EXCEPT !.linenumber = @ + 1]
    <3>1. Jump(sc, i) = d
      BY DEF Jump
    <3>2. /\ HasJob(d) /\ SameLoop(i, d)
          /\ d.pos = IF i.loopbegin = -1 THEN Len(sc) ELSE i.loopbegin + 1
          /\ d.linenumber = i.loopbegin - 1
      BY <2>4 DEF HasJob, JobFields, SameLoop
    <3> HIDE DEF d
    <3>3. /\ HasJob(u) /\ SameLoop(i, u)
          /\ u.pos = d.pos /\ u.linenumber = (i.loopbegin - 1) + 1
      BY <3>2 DEF HasJob, JobFields, SameLoop
    <3>4. (i.loopbegin - 1) + 1 = i.loopbegin
      BY <1>3, <2>4
    <3>. QED
      BY <3>1, <3>2, <3>3, <3>4
  <2>5. CASE j.loopcountmax = 0
    <3>1. t = [Jump(sc, j1) EXCEPT !.linenumber = @ + 1]
      BY <1>2, <2>3, <2>5 DEF SameLoop
    <3> HIDE DEF t
    <3>2. /\ HasJob(t) /\ SameLoop(j, t)
          /\ t.pos = IF j.loopbegin = -1 THEN Len(sc) ELSE j.loopbegin + 1
          /\ t.linenumber = j.loopbegin
      <4>1. HasJob(j1) /\ j1.loopbegin = j.loopbegin
        BY <1>2 DEF SameLoop
      <4>. QED
        BY <1>2, <2>4, <3>1, <4>1 DEF SameLoop
    <3>3. JobOK(sc, t)
      BY <1>3, <2>5, <3>2 DEF JobOK, SameLoop
    <3>. QED
      BY <1>1, <1>5, <2>5, <3>2, <3>3 DEF Turned, SameLoop, ln
  <2>6. CASE j.loopcountmax # 0 /\ j.loopcount + 1 < j.loopcountmax
    <3>1. t = [Jump(sc, j2) EXCEPT !.linenumber = @ + 1]
      BY <1>2, <2>2, <2>3, <2>6 DEF SameLoop
    <3> HIDE DEF t
    <3>2. /\ HasJob(t) /\ SameLoop(j2, t)
          /\ t.pos = IF j.loopbegin = -1 THEN Len(sc) ELSE j.loopbegin + 1
          /\ t.linenumber = j.loopbegin
      <4>1. HasJob(j2) /\ j2.loopbegin = j.loopbegin
        BY <1>2, <2>2 DEF SameLoop
      <4>. QED
        BY <2>4, <3>1, <4>1
    <3>3. /\ t.loopbegin = j.loopbegin /\ t.loopcount = j.loopcount + 1
          /\ t.loopcountmax = j.loopcountmax
      BY <1>2, <2>2, <3>2 DEF SameLoop
    <3>4. j.loopbegin # -1
      BY <1>3, <2>6
    <3>5. JobOK(sc, t)
      BY <1>3, <3>2, <3>3, <3>4 DEF JobOK
    <3>. QED
      BY <1>1, <1>5, <2>6, <3>2, <3>3, <3>4, <3>5 DEF Turned, ln
  <2>7. CASE j.loopcountmax # 0 /\ ~ (j.loopcount + 1 < j.loopcountmax)
    <3>1. e = [j2 EXCEPT !.loopbegin = -1]
      BY <1>2, <2>2, <2>3, <2>7 DEF SameLoop
    <3>2. /\ HasJob(t) /\ t.pos = j2.pos /\ t.linenumber = j2.linenumber + 1
          /\ t.loopbegin = -1 /\ t.loopcount = j2.loopcount
          /\ t.loopcountmax = j2.loopcountmax
      BY <2>2, <3>1 DEF HasJob, JobFields
    <3> HIDE DEF t
    <3>3. /\ t.pos = j.pos + 1 /\ t.linenumber = j.linenumber + 1
          /\ t.loopcount = j.loopcount + 1 /\ t.loopcountmax = j.loopcountmax
      BY <1>2, <2>2, <3>2 DEF SameLoop
    <3>4. JobOK(sc, t)
      BY <1>3, <2>7, <3>2, <3>3 DEF JobOK
    <3>. QED
      BY <1>1, <1>5, <2>7, <3>2, <3>3, <3>4 DEF Turned, ln
  <2>. QED
    BY <2>5, <2>6, <2>7
<1>6. CASE ln.cmd = "EXITLOOP"
  <2>1. e = EXITLOOP(sc, j1)
    BY <1>6 DEF Executed
  <2>2. /\ HasJob(e) /\ SameLoop(j1, e)
        /\ e.pos \in j.pos + 1 .. Len(sc)
        /\ e.linenumber \in Int /\ e.linenumber + 1 \in 0 .. e.pos
        /\ e.linenumber - j.linenumber = e.pos - j1.pos
    BY <1>2, <2>1, ExitLoopFacts
  <2> HIDE DEF e
  <2>7. SameLoop(j, e)
    BY <1>2, <2>2 DEF SameLoop
  <2>8. Turned(sc, j, ln, [e EXCEPT !.linenumber = @ + 1])
    BY <1>2, <1>6, <2>2, <2>7, PlainTurn
  <2>. QED
    BY <1>1, <2>8 DEF ln
<1>7. CASE ln.cmd = "IF"
  <2> DEFINE fails == Fails(j1, ln.condition, now, connected)
             j2 == [j1 EXCEPT !.iffail = fails,
                      !.starttime = IF ln.condition = "ALARMRING" /\ ~fails
                                    THEN now ELSE @]
  <2>1. e = IF fails THEN Skip(sc, j2, {"ELSE", "ENDIF"}) ELSE j2
    BY <1>7 DEF Executed, IF_
  <2> HIDE DEF fails
  <2>2. /\ HasJob(j2) /\ SameLoop(j1, j2)
        /\ j2.pos = j1.pos /\ j2.linenumber = j1.linenumber
    BY <1>2 DEF HasJob, JobFields, SameLoop
  <2> HIDE DEF j2
  <2>3. /\ HasJob(e) /\ SameLoop(j2, e)
        /\ e.pos \in j.pos + 1 .. Len(sc)
        /\ e.linenumber \in Int /\ e.linenumber + 1 \in 0 .. e.pos
        /\ e.pos = j.pos + 1 => e.linenumber = j.linenumber
    <3>1. CASE fails
      BY <1>2, <2>1, <2>2, <3>1, SkipFacts
    <3>2. CASE ~fails
      BY <1>2, <1>3, <2>1, <2>2, <3>2 DEF SameLoop
    <3>. QED
      BY <3>1, <3>2
  <2> HIDE DEF e
  <2>7. SameLoop(j, e)
    BY <1>2, <2>2, <2>3 DEF SameLoop
  <2>8. Turned(sc, j, ln, [e EXCEPT !.linenumber = @ + 1])
    BY <1>2, <1>7, <2>2, <2>3, <2>7, PlainTurn
  <2>. QED
    BY <1>1, <2>8 DEF ln
<1>8. CASE ln.cmd = "ELSE"
  <2>1. e = IF j1.iffail THEN j1 ELSE Skip(sc, j1, {"ENDIF"})
    BY <1>8 DEF Executed, ELSE_
  <2>2. /\ HasJob(e) /\ SameLoop(j1, e)
        /\ e.pos \in j.pos + 1 .. Len(sc)
        /\ e.linenumber \in Int /\ e.linenumber + 1 \in 0 .. e.pos
        /\ e.pos = j.pos + 1 => e.linenumber = j.linenumber
    <3>1. CASE j1.iffail
      BY <1>2, <1>3, <2>1, <3>1 DEF SameLoop
    <3>2. CASE ~j1.iffail
      BY <1>2, <2>1, <3>2, SkipFacts
    <3>. QED
      BY <3>1, <3>2
  <2> HIDE DEF e
  <2>7. SameLoop(j, e)
    BY <1>2, <2>2 DEF SameLoop
  <2>8. Turned(sc, j, ln, [e EXCEPT !.linenumber = @ + 1])
    BY <1>2, <1>8, <2>2, <2>7, PlainTurn
  <2>. QED
    BY <1>1, <2>8 DEF ln
<1>9. CASE ln.cmd \notin {"LOOP", "ENDLOOP", "EXITLOOP", "IF", "ELSE"}
  <2>1. /\ HasJob(e) /\ SameLoop(j1, e)
        /\ e.pos = j1.pos /\ e.linenumber = j1.linenumber
    <3>1. CASE ln.cmd = "ALARM"
      BY <1>2, <3>1 DEF Executed, ALARM, HasJob, JobFields, SameLoop
    <3>2. CASE ln.cmd # "ALARM"
      BY <1>2, <1>9, <3>2 DEF Executed, SameLoop
    <3>. QED
      BY <3>1, <3>2
  <2> HIDE DEF e
  <2>2. /\ e.pos \in j.pos + 1 .. Len(sc)
        /\ e.linenumber \in Int /\ e.linenumber + 1 \in 0 .. e.pos
        /\ e.linenumber - j.linenumber = e.pos - (j.pos + 1)
    BY <1>2, <1>3, <2>1
  <2>7. SameLoop(j, e)
    BY <1>2, <2>1, <2>2 DEF SameLoop
  <2>8. Turned(sc, j, ln, [e EXCEPT !.linenumber = @ + 1])
    BY <1>2, <1>9, <2>1, <2>2, <2>7, PlainTurn
  <2>. QED
    BY <1>1, <2>8 DEF ln
<1>. QED
  BY <1>4, <1>5, <1>6, <1>7, <1>8, <1>9

-----------------------------------------------------------------------------
(* The script that runs.  While the loop pending was recorded at its own   *)
(* line, its body was begun once more than it was jumped back to, but for  *)
(* the moment of the jump.                                                 *)
InLoop == job.loopbegin # -1 /\ seen.exact /\ job.loopcountmax > 0

RoundsRight ==
  /\ seen.body = job.loopbegin + 1 /\ job.pos >= seen.body
  /\ job.loopcount < job.loopcountmax
  /\ seen.rounds = IF job.pos = seen.body THEN job.loopcount
                   ELSE job.loopcount + 1

ScriptInv ==
  /\ plan \in Plans
  /\ DOMAIN seen = DOMAIN NewSeen
  /\ seen.exact \in BOOLEAN /\ seen.drifted \in BOOLEAN
  /\ JobOK(script, job)
  /\ ~seen.drifted => job.linenumber = job.pos
  /\ InLoop => RoundsRight

LEMMA ScriptFacts ==
  ASSUME ScriptInv
  PROVE  /\ Len(script) \in Nat
         /\ \A i \in 1 .. Len(script) : script[i].n \in Int
<1>1. script \in Seq(Lines)
  BY PlansAssumption DEF ScriptInv, script
<1>2. Len(script) \in Nat /\ \A i \in 1 .. Len(script) : script[i] \in Lines
  BY <1>1
<1>3. \A l \in Lines : l.n \in Int
  BY DEF Lines
<1>. QED
  BY <1>2, <1>3

(* What the history tells of the loops.                                    *)
LoopMarks == /\ DOMAIN seen' = DOMAIN seen
             /\ seen'.body = seen.body /\ seen'.rounds = seen.rounds
             /\ seen'.exact = seen.exact /\ seen'.drifted = seen.drifted

LEMMA SameJob ==
  ASSUME ScriptInv, UNCHANGED <<job, plan>>, LoopMarks
  PROVE  ScriptInv'
BY DEF ScriptInv, LoopMarks, InLoop, RoundsRight, script

(* A statement is executed.                                                *)
LEMMA StatementStep ==
  ASSUME ScriptInv, AtLine, Moved, UNCHANGED plan,
         DOMAIN seen' = DOMAIN seen,
         seen'.body = Told.body, seen'.rounds = Told.rounds,
         seen'.exact = Told.exact, seen'.drifted = Told.drifted
  PROVE  /\ ScriptInv'
         /\ Line.cmd = "ENDLOOP" /\ job'.loopbegin = -1 /\ InLoop
              => seen'.rounds = job.loopcountmax
<1>1. /\ job.pos \in 0 .. Len(script) /\ job.pos < Len(script)
      /\ Len(script) \in Nat /\ JobOK(script, job)
  BY ScriptFacts DEF AtLine, ScriptInv, JobOK
<1>2. Line.n \in Int
  BY <1>1, ScriptFacts DEF Line, parse_command_line
<1>3. Turned(script, job, Line, job')
  BY <1>1, <1>2, TurnFacts DEF Moved, Line
<1>4. /\ seen'.body = IF Line.cmd = "LOOP" THEN job.pos + 1 ELSE seen.body
      /\ seen'.exact = IF Line.cmd = "LOOP" THEN job'.loopbegin = job.pos
                       ELSE seen.exact
      /\ seen'.rounds = IF job.loopcountmax = 0 THEN 0 ELSE Rounds
      /\ seen'.drifted = (seen.drifted \/ Jumps \/ Skips)
  BY DEF Told, ScriptInv, NewSeen
<1>5. seen'.exact \in BOOLEAN /\ seen'.drifted \in BOOLEAN
  BY <1>4 DEF ScriptInv
<1>6. JobOK(script, job') /\ script' = script
  BY <1>3 DEF Turned, script
<1>7. ~seen'.drifted => job'.linenumber = job'.pos
  <2> SUFFICES ASSUME ~seen'.drifted
               PROVE  job'.linenumber = job'.pos
    OBVIOUS
  <2>1. ~seen.drifted /\ ~Jumps /\ ~Skips
    BY <1>4
  <2>2. job.linenumber = job.pos
    BY <2>1 DEF ScriptInv
  <2>3. CASE Line.cmd = "ENDLOOP"
    <3>1. job.loopcountmax # 0 /\ job'.loopbegin = -1
      BY <2>1, <2>3 DEF Jumps
    <3>2. job'.loopcount = job.loopcount + 1
      BY <1>3, <2>3, <3>1 DEF Turned
    <3>3. CASE job'.loopcount < job.loopcountmax
      <4>1. job.loopbegin = -1
        BY <1>3, <2>3, <3>1, <3>3 DEF Turned
      <4>2. job.loopcount >= job.loopcountmax /\ job.loopcount \in Nat
            /\ job.loopcountmax \in Int
        BY <1>1, <3>1, <4>1 DEF JobOK
      <4>. QED
        BY <3>2, <3>3, <4>2
    <3>4. CASE ~ (job'.loopcount < job.loopcountmax)
      <4>1. job'.pos = job.pos + 1 /\ job'.linenumber = job.linenumber + 1
        BY <1>3, <2>3, <3>1, <3>4 DEF Turned
      <4>. QED
        BY <2>2, <4>1
    <3>. QED
      BY <3>3, <3>4
  <2>4. CASE Line.cmd # "ENDLOOP"
    <3>1. Line.cmd \in {"IF", "ELSE"} => job'.pos = job.pos + 1
      BY <2>1 DEF Skips
    <3>2. job'.linenumber - job.linenumber = job'.pos - job.pos
      BY <1>3, <2>4, <3>1 DEF Turned
    <3>3. /\ job'.linenumber \in Int /\ job'.pos \in Int
          /\ job.linenumber \in Int /\ job.pos \in Int
      BY <1>1, <1>6 DEF JobOK
    <3>. QED
      BY <2>2, <3>2, <3>3
  <2>. QED
    BY <2>3, <2>4
<1>8. InLoop' => RoundsRight'
  <2> SUFFICES ASSUME InLoop'
               PROVE  RoundsRight'
    OBVIOUS
  <2>1. job'.loopbegin # -1 /\ seen'.exact /\ job'.loopcountmax > 0
    BY DEF InLoop
  <2>2. CASE Line.cmd = "LOOP"
    <3>1. /\ job'.loopbegin = job.pos /\ seen'.body = job.pos + 1
          /\ job'.pos = job.pos + 1 /\ job'.loopcount = 0
      BY <1>3, <1>4, <2>1, <2>2 DEF Turned
    <3>2. seen'.rounds = 0
      BY <1>4, <2>2 DEF Rounds
    <3>. QED
      BY <1>1, <2>1, <3>1, <3>2 DEF RoundsRight
  <2>3. CASE Line.cmd = "ENDLOOP"
    <3>1. job'.loopcountmax = job.loopcountmax
      BY <1>3, <2>3 DEF Turned
    <3>2. job.loopcountmax \in Int /\ job.loopcountmax > 0
      BY <1>1, <2>1, <3>1 DEF JobOK
    <3>3. job'.loopcount = job.loopcount + 1 /\ job'.loopcount < job.loopcountmax
      BY <1>3, <2>1, <2>3, <3>2 DEF Turned
    <3>4. job'.loopbegin = job.loopbegin /\ job'.pos = job.loopbegin + 1
      BY <1>3, <2>1, <2>3, <3>3 DEF Turned
    <3>5. InLoop /\ seen'.body = seen.body
      BY <1>4, <2>1, <2>3, <3>2, <3>4 DEF InLoop
    <3>6. RoundsRight
      BY <3>5 DEF ScriptInv
    <3>7. seen'.rounds = job.loopcount + 1
      BY <1>4, <2>3, <3>2, <3>6 DEF Rounds, RoundsRight
    <3>8. job'.pos = seen'.body /\ job'.pos >= seen'.body
      BY <1>1, <3>4, <3>5, <3>6 DEF RoundsRight, JobOK
    <3>. QED
      BY <3>1, <3>3, <3>4, <3>5, <3>6, <3>7, <3>8 DEF RoundsRight
  <2>4. CASE Line.cmd \notin {"LOOP", "ENDLOOP"}
    <3>1. SameLoop(job, job') /\ job'.pos \in job.pos + 1 .. Len(script)
      BY <1>3, <2>4 DEF Turned
    <3>2. InLoop /\ seen'.body = seen.body
      BY <1>4, <2>1, <2>4, <3>1 DEF InLoop, SameLoop
    <3>3. RoundsRight
      BY <3>2 DEF ScriptInv
    <3>4. job'.pos > seen.body
      BY <1>1, <3>1, <3>3 DEF RoundsRight, JobOK
    <3>5. job.loopcountmax # 0
      BY <1>1, <2>1, <3>1 DEF SameLoop, JobOK
    <3>6. seen'.rounds = job.loopcount + 1
      BY <1>4, <2>4, <3>3, <3>5 DEF Rounds, RoundsRight
    <3>7. seen.body \in Int /\ job'.pos \in Int
      BY <1>1, <3>1, <3>3 DEF RoundsRight, JobOK
    <3>8. job'.pos # seen.body /\ job'.pos >= seen.body
      BY <3>4, <3>7
    <3>. QED
      BY <3>1, <3>2, <3>3, <3>6, <3>8 DEF RoundsRight, SameLoop
  <2>. QED
    BY <2>2, <2>3, <2>4
<1>9. ScriptInv'
  BY <1>5, <1>6, <1>7, <1>8 DEF ScriptInv
<1>10. Line.cmd = "ENDLOOP" /\ job'.loopbegin = -1 /\ InLoop
         => seen'.rounds = job.loopcountmax
  <2> SUFFICES ASSUME Line.cmd = "ENDLOOP", job'.loopbegin = -1, InLoop
               PROVE  seen'.rounds = job.loopcountmax
    OBVIOUS
  <2>1. /\ RoundsRight /\ job.loopcountmax > 0 /\ job.loopbegin # -1
        /\ job.loopcount \in Nat /\ job.loopcountmax \in Int
    BY <1>1 DEF ScriptInv, InLoop, JobOK
  <2>2. job'.loopcount = job.loopcount + 1 /\ ~ (job'.loopcount < job.loopcountmax)
    BY <1>3, <2>1 DEF Turned
  <2>3. job.loopcount + 1 = job.loopcountmax
    BY <2>1, <2>2 DEF RoundsRight
  <2>. QED
    BY <1>4, <2>1, <2>3 DEF Rounds, RoundsRight
<1>. QED
  BY <1>9, <1>10

(* The lines that leave the job and the script alone.                      *)
LEMMA SameJobSteps ==
  ASSUME ScriptInv,
         \/ Reveal \/ \E b \in {"a"} : Type(b) \/ TermMenu \/ SerialMenu
         \/ DirectoryEdit \/ DirectoryDial \/ ManualDial \/ SaveMenu \/ ViewMenu
         \/ Exit \/ Press \/ Port \/ Receive \/ LateKey \/ View \/ ViewEnd
         \/ Dial \/ DialHear \/ DialOver \/ WaitHear \/ WaitKey \/ ScriptEnd
         \/ Host \/ Interrupt \/ Tick \/ UNCHANGED vars
  PROVE  UNCHANGED <<job, plan>> /\ LoopMarks
<1>1. /\ UNCHANGED seen => LoopMarks
      /\ \A f \in {"edited", "rehooked", "heard", "rung", "redrawn"} : \A x :
           seen' = [seen EXCEPT ![f] = x] => LoopMarks
  BY DEF LoopMarks, ScriptInv, NewSeen
<1>2. \A x : /\ seen' = [seen EXCEPT !.edited = x] => LoopMarks
             /\ seen' = [seen EXCEPT !.rehooked = x] => LoopMarks
             /\ seen' = [seen EXCEPT !.heard = x] => LoopMarks
             /\ seen' = [seen EXCEPT !.rung = x] => LoopMarks
             /\ seen' = [seen EXCEPT !.redrawn = x] => LoopMarks
  BY <1>1
<1>. HIDE DEF LoopMarks
<1> USE DEF Key, tasks, world
<1>3. CASE Reveal  BY <1>2, <1>3 DEF Reveal
<1>4. CASE \E b \in {"a"} : Type(b)
  <2>1. PICK b \in {"a"} : Type(b)
    BY <1>4
  <2>. QED
    BY <1>1, <2>1 DEF Type
<1>5. CASE TermMenu  BY <1>2, <1>5 DEF TermMenu
<1>6. CASE SerialMenu  BY <1>2, <1>6 DEF SerialMenu
<1>7. CASE DirectoryEdit  BY <1>2, <1>7 DEF DirectoryEdit
<1>8. CASE DirectoryDial  BY <1>2, <1>8 DEF DirectoryDial
<1>9. CASE ManualDial  BY <1>1, <1>9 DEF ManualDial
<1>10. CASE SaveMenu  BY <1>1, <1>10 DEF SaveMenu
<1>11. CASE ViewMenu  BY <1>1, <1>11 DEF ViewMenu
<1>12. CASE Exit  BY <1>1, <1>12 DEF Exit
<1>13. CASE Press  BY <1>1, <1>13 DEF Press
<1>14. CASE Port  BY <1>2, <1>14 DEF Port
<1>15. CASE Receive  BY <1>1, <1>15 DEF Receive
<1>16. CASE LateKey  BY <1>1, <1>16 DEF LateKey
<1>17. CASE View  BY <1>1, <1>17 DEF View
<1>18. CASE ViewEnd  BY <1>1, <1>18 DEF ViewEnd
<1>19. CASE Dial  BY <1>1, <1>19 DEF Dial
<1>20. CASE DialHear  BY <1>1, <1>20 DEF DialHear
<1>21. CASE DialOver  BY <1>1, <1>21 DEF DialOver
<1>22. CASE WaitHear  BY <1>2, <1>22 DEF WaitHear
<1>23. CASE WaitKey  BY <1>1, <1>23 DEF WaitKey
<1>24. CASE ScriptEnd  BY <1>1, <1>24 DEF ScriptEnd
<1>25. CASE Host  BY <1>1, <1>25 DEF Host
<1>26. CASE Interrupt  BY <1>2, <1>26 DEF Interrupt
<1>27. CASE Tick  BY <1>1, <1>27 DEF Tick
<1>28. CASE UNCHANGED vars  BY <1>1, <1>28 DEF vars
<1>. QED
  BY <1>3, <1>4, <1>5, <1>6, <1>7, <1>8, <1>9, <1>10, <1>11, <1>12, <1>13,
     <1>14, <1>15, <1>16, <1>17, <1>18, <1>19, <1>20, <1>21, <1>22, <1>23,
     <1>24, <1>25, <1>26, <1>27, <1>28

(* A line is executed, and what is told of it.                             *)
LEMMA ScriptSteps ==
  ASSUME ScriptInv,
         Statement \/ Sleep \/ ScriptDial \/ Show \/ Capture \/ Wait
  PROVE  /\ AtLine /\ ScriptInv'
         /\ Line.cmd = "ENDLOOP" /\ job'.loopbegin = -1 /\ InLoop
              => seen'.rounds = job.loopcountmax
<1>1. AtLine /\ Moved /\ UNCHANGED plan
  BY DEF Statement, Sleep, ScriptDial, Show, Capture, Wait, Reads
<1>2. seen' = Told \/ seen' = [Told EXCEPT !.heard = <<>>, !.rung = FALSE]
  BY DEF Statement, Sleep, ScriptDial, Show, Capture, Wait, Noted
<1>3. /\ DOMAIN Told = DOMAIN seen
      /\ {"heard", "rung", "body", "rounds", "exact", "drifted"} \subseteq DOMAIN seen
  BY DEF Told, ScriptInv, NewSeen
<1>4. /\ DOMAIN seen' = DOMAIN seen
      /\ seen'.body = Told.body /\ seen'.rounds = Told.rounds
      /\ seen'.exact = Told.exact /\ seen'.drifted = Told.drifted
  <2>. HIDE DEF Told
  <2>. QED
    BY <1>2, <1>3
<1>. QED
  BY <1>1, <1>4, StatementStep

(* A script is started, or the program.                                    *)
LEMMA ScriptBegins ==
  ASSUME ScriptInv, Start \/ ScriptMenu
  PROVE  ScriptInv'
<1>1. Len(script) \in Nat
  BY ScriptFacts
<1>2. CASE Start
  <2>1. /\ job' = NewJob /\ plan' = plan
        /\ seen' = [seen EXCEPT !.edited = FALSE, !.redrawn = FALSE]
    BY <1>2 DEF Start
  <2>2. /\ DOMAIN seen' = DOMAIN seen /\ seen'.exact = seen.exact
        /\ seen'.drifted = seen.drifted
    BY <2>1 DEF ScriptInv, NewSeen
  <2>3. /\ JobOK(script, job') /\ script' = script
        /\ job'.linenumber = job'.pos /\ job'.loopbegin = -1
    BY <1>1, <2>1 DEF JobOK, HasJob, JobFields, NewJob, script
  <2>. QED
    BY <2>1, <2>2, <2>3 DEF ScriptInv, InLoop
<1>3. CASE ScriptMenu
  <2>1. /\ job' = Begun(job) /\ plan' = plan
        /\ seen' = [seen EXCEPT !.drifted = FALSE]
    BY <1>3 DEF ScriptMenu, Key
  <2>2. /\ DOMAIN seen' = DOMAIN seen /\ seen'.exact = seen.exact
        /\ seen'.drifted = FALSE
    BY <2>1 DEF ScriptInv, NewSeen
  <2>3. /\ JobOK(script, job') /\ script' = script
        /\ job'.linenumber = job'.pos /\ job'.loopbegin = -1
    BY <1>1, <2>1 DEF ScriptInv, JobOK, HasJob, JobFields, Begun, script
  <2>. QED
    BY <2>1, <2>2, <2>3 DEF ScriptInv, InLoop
<1>. QED
  BY <1>2, <1>3

LEMMA ScriptInit == Init => ScriptInv
<1> SUFFICES ASSUME Init
             PROVE  ScriptInv
  OBVIOUS
<1>1. /\ plan \in Plans /\ job = NewJob /\ seen = NewSeen
  BY DEF Init, InitWith
<1>2. Len(script) \in Nat
  BY <1>1, PlansAssumption DEF script
<1>. QED
  BY <1>1, <1>2
  DEF ScriptInv, JobOK, HasJob, JobFields, NewJob, InLoop, NewSeen

LEMMA ScriptStep ==
  ASSUME ScriptInv, [Next]_vars
  PROVE  /\ ScriptInv'
         /\ AtLine /\ job' # job =>
              /\ ~seen'.drifted => job'.linenumber = job'.pos
              /\ Line.cmd = "ENDLOOP" /\ job.loopbegin # -1
                   /\ job'.loopbegin = -1 /\ seen.exact /\ job.loopcountmax > 0
                   => seen'.rounds = job.loopcountmax
<1>1. CASE Statement \/ Sleep \/ ScriptDial \/ Show \/ Capture \/ Wait
  BY <1>1, ScriptSteps DEF ScriptInv, InLoop
<1>2. CASE Start \/ ScriptMenu
  BY <1>2, ScriptBegins DEF Start, ScriptMenu, Key, AtLine
<1>3. CASE ~ \/ Statement \/ Sleep \/ ScriptDial \/ Show \/ Capture \/ Wait
             \/ Start \/ ScriptMenu
  <2>1. \/ Reveal \/ \E b \in {"a"} : Type(b) \/ TermMenu \/ SerialMenu
        \/ DirectoryEdit \/ DirectoryDial \/ ManualDial \/ SaveMenu \/ ViewMenu
        \/ Exit \/ Press \/ Port \/ Receive \/ LateKey \/ View \/ ViewEnd
        \/ Dial \/ DialHear \/ DialOver \/ WaitHear \/ WaitKey \/ ScriptEnd
        \/ Host \/ Interrupt \/ Tick \/ UNCHANGED vars
    BY <1>3 DEF Next, User, Emulate
  <2>2. UNCHANGED <<job, plan>> /\ LoopMarks
    BY <2>1, SameJobSteps
  <2>. QED
    BY <2>2, SameJob
<1>. QED
  BY <1>1, <1>2, <1>3

(* LOOP and ENDLOOP run the lines between them as often as LOOP says, when *)
(* the LOOP was recorded at its own line; and the line that is counted is  *)
(* the one that is read until an IF, an ELSE or an ENDLOOP moves the file  *)
(* (execute_script).                                                       *)
THEOREM LoopsAlwaysCount == Spec => LoopsCount
<1>1. Init => ScriptInv
  BY ScriptInit
<1>2. ScriptInv /\ [Next]_vars => ScriptInv'
  BY ScriptStep
<1>3. ScriptInv /\ [Next]_vars =>
        [AtLine /\ job' # job =>
           /\ ~seen'.drifted => job'.linenumber = job'.pos
           /\ Line.cmd = "ENDLOOP" /\ job.loopbegin # -1 /\ job'.loopbegin = -1
                /\ seen.exact /\ job.loopcountmax > 0
                => seen'.rounds = job.loopcountmax]_vars
  BY ScriptStep
<1>. QED
  BY <1>1, <1>2, <1>3, PTL DEF Spec, LoopsCount

-----------------------------------------------------------------------------
(* What comes from the line, and the bytes WAIT collects.                  *)
RingBytes == Byte \cup {Latched}

RingInv ==
  /\ line \in Seq(SUBSET Byte) /\ rx \in Byte \cup {NoByte}
  /\ iq \in Seq(RingBytes)
  /\ ri \in 0 .. RMax /\ DOMAIN r = 0 .. RMax

(* While the telephone has not rung, the bytes in r up to ri are those     *)
(* received since WAIT began.                                              *)
Collected ==
  /\ seen.heard \in Seq(RingBytes) /\ Len(seen.heard) = ri
  /\ \A i \in 1 .. ri : r[i - 1] = seen.heard[i]

WaitInv ==
  /\ RingInv /\ ScriptInv /\ seen.rung \in BOOLEAN
  /\ mode = "wait" => job.pos \in 1 .. Len(script)
  /\ mode = "wait" /\ ~seen.rung => Collected

LEMMA RingInit == Init => RingInv
BY PlansAssumption, BoundAssumption
DEF Init, CommInit, InitWith, RingInv, RingBytes, NoText

(* The steps that leave what was received alone.                           *)
LEMMA RingQuiet ==
  ASSUME RingInv,
         \/ Reveal \/ \E b \in {"a"} : Type(b) \/ TermMenu \/ SerialMenu
         \/ DirectoryEdit \/ DirectoryDial \/ ManualDial \/ SaveMenu \/ ViewMenu
         \/ ScriptMenu \/ Exit \/ Press \/ LateKey \/ View \/ ViewEnd \/ DialOver
         \/ Statement \/ Sleep \/ ScriptDial \/ Show \/ Capture
         \/ WaitKey \/ ScriptEnd \/ Tick \/ UNCHANGED vars
  PROVE  RingInv'
<1>1. UNCHANGED <<line, rx, iq, ri, r>> => RingInv'
  BY DEF RingInv
<1> USE DEF Key, tasks, world, comm
<1>2. CASE Reveal  BY <1>1, <1>2 DEF Reveal
<1>3. CASE \E b \in {"a"} : Type(b)  BY <1>1, <1>3 DEF Type
<1>4. CASE TermMenu  BY <1>1, <1>4 DEF TermMenu
<1>5. CASE SerialMenu  BY <1>1, <1>5 DEF SerialMenu
<1>6. CASE DirectoryEdit  BY <1>1, <1>6 DEF DirectoryEdit
<1>7. CASE DirectoryDial  BY <1>1, <1>7 DEF DirectoryDial
<1>8. CASE ManualDial  BY <1>1, <1>8 DEF ManualDial
<1>9. CASE SaveMenu  BY <1>1, <1>9 DEF SaveMenu
<1>10. CASE ViewMenu  BY <1>1, <1>10 DEF ViewMenu
<1>11. CASE ScriptMenu  BY <1>1, <1>11 DEF ScriptMenu
<1>12. CASE Exit  BY <1>1, <1>12 DEF Exit
<1>13. CASE Press  BY <1>1, <1>13 DEF Press
<1>14. CASE LateKey  BY <1>1, <1>14 DEF LateKey
<1>15. CASE View  BY <1>1, <1>15 DEF View
<1>16. CASE ViewEnd  BY <1>1, <1>16 DEF ViewEnd
<1>17. CASE DialOver  BY <1>1, <1>17 DEF DialOver
<1>18. CASE Statement  BY <1>1, <1>18 DEF Statement
<1>19. CASE Sleep  BY <1>1, <1>19 DEF Sleep
<1>20. CASE ScriptDial  BY <1>1, <1>20 DEF ScriptDial
<1>21. CASE Show  BY <1>1, <1>21 DEF Show
<1>22. CASE Capture  BY <1>1, <1>22 DEF Capture
<1>23. CASE WaitKey  BY <1>1, <1>23 DEF WaitKey
<1>24. CASE ScriptEnd  BY <1>1, <1>24 DEF ScriptEnd
<1>25. CASE Tick  BY <1>1, <1>25 DEF Tick
<1>26. CASE UNCHANGED vars  BY <1>1, <1>26 DEF vars
<1>. QED
  BY <1>2, <1>3, <1>4, <1>5, <1>6, <1>7, <1>8, <1>9, <1>10, <1>11, <1>12, <1>13,
     <1>14, <1>15, <1>16, <1>17, <1>18, <1>19, <1>20, <1>21, <1>22, <1>23,
     <1>24, <1>25, <1>26

(* The steps that receive, or empty the ring.                              *)
LEMMA RingBusy ==
  ASSUME RingInv, \/ Start \/ Port \/ Receive \/ Dial \/ DialHear \/ Wait
                  \/ WaitHear \/ Host \/ Interrupt
  PROVE  RingInv'
<1>1. iq # <<>> => Tail(iq) \in Seq(RingBytes)
  BY DEF RingInv
<1> USE DEF RingInv
<1>2. CASE Start  BY <1>2 DEF Start, NoText
<1>3. CASE Port
  <2>1. PortStep /\ UNCHANGED <<line, r>>
    BY <1>3 DEF Port, tasks, world
  <2>2. CASE Hook  BY <2>1, <2>2 DEF Hook
  <2>3. CASE Program(Head(todo))  BY <2>1, <2>3 DEF Program
  <2>4. CASE Enable
    <3>1. ri' \in {0, 1} /\ rx' \in {NoByte, rx} /\ UNCHANGED iq
      BY <2>4 DEF Enable
    <3>. QED
      BY <2>1, <3>1, BoundAssumption
  <2>. QED
    BY <2>1, <2>2, <2>3, <2>4 DEF PortStep
<1>4. CASE Receive  BY <1>1, <1>4 DEF Receive, receivechar, tasks, world
<1>5. CASE Dial  BY <1>5 DEF Dial, world
<1>6. CASE DialHear  BY <1>1, <1>6 DEF DialHear, receivechar, world
<1>7. CASE Wait  BY <1>7, BoundAssumption DEF Wait
<1>8. CASE WaitHear
  <2>1. /\ iq' = Tail(iq) /\ iq # <<>> /\ UNCHANGED <<line, rx>>
        /\ ri < RMax /\ ri' \in {0, ri + 1}
        /\ r' = [r EXCEPT ![ri] = Head(iq), ![ri + 1] = NUL]
    BY <1>8 DEF WaitHear, receivechar, world
  <2>2. DOMAIN r' = DOMAIN r
    BY <2>1
  <2>3. ri' \in 0 .. RMax
    BY <2>1, BoundAssumption
  <2>. QED
    BY <1>1, <2>1, <2>2, <2>3
<1>9. CASE Host
  <2>1. PICK b \in Head(line) : Arrive(b)
    BY <1>9 DEF Host
  <2>2. /\ line # <<>> /\ line' = Tail(line) /\ rx' = b
        /\ UNCHANGED <<iq, ri, r>>
    BY <1>9, <2>1 DEF Host, Arrive, tasks
  <2>3. Head(line) \in SUBSET Byte /\ Tail(line) \in Seq(SUBSET Byte)
    BY <2>2
  <2>. QED
    BY <2>1, <2>2, <2>3
<1>10. CASE Interrupt
  <2>1. UNCHANGED <<line, r>>
    BY <1>10 DEF Interrupt, tasks, world
  <2>2. CASE DataReadyInterrupt
    <3>1. /\ rx # NoByte /\ UNCHANGED ri
          /\ \/ iq' = Append(iq, Latched) /\ UNCHANGED rx
             \/ iq' = Append(iq, rx) /\ rx' = NoByte
      BY <2>2 DEF DataReadyInterrupt
    <3>2. Latched \in RingBytes /\ rx \in RingBytes
      BY <3>1 DEF RingBytes
    <3>3. Append(iq, Latched) \in Seq(RingBytes) /\ Append(iq, rx) \in Seq(RingBytes)
      BY <3>2
    <3>4. iq' \in Seq(RingBytes) /\ rx' \in Byte \cup {NoByte}
      BY <3>1, <3>3
    <3>. QED
      BY <2>1, <3>1, <3>4
  <2>3. CASE LineStatusInterrupt  BY <2>1, <2>3 DEF LineStatusInterrupt
  <2>4. CASE ModemStatusInterrupt
    BY <2>1, <2>4, BoundAssumption DEF ModemStatusInterrupt
  <2>. QED
    BY <1>10, <2>2, <2>3, <2>4 DEF Interrupt
<1>. QED
  BY <1>2, <1>3, <1>4, <1>5, <1>6, <1>7, <1>8, <1>9, <1>10

LEMMA RingStep ==
  ASSUME RingInv, [Next]_vars
  PROVE  RingInv'
BY RingQuiet, RingBusy DEF Next, User, Emulate

(* What a beginning holds the whole holds.                                 *)
LEMMA HoldsMore ==
  ASSUME NEW S, NEW s \in Seq(S), NEW t, NEW end \in 0 .. Len(s),
         t = [i \in 1 .. end |-> s[i]], NEW needle \in Seq(Byte), Holds(t, needle)
  PROVE  Holds(s, needle)
<1> DEFINE L == Len(needle)
<1>1. t \in Seq(S) /\ Len(t) = end
  <2>1. t \in [1 .. end -> S]
    OBVIOUS
  <2>2. end \in Nat
    OBVIOUS
  <2>. QED
    BY <2>1, <2>2
<1>2. L \in Nat
  OBVIOUS
<1>3. PICK i \in 0 .. Len(t) - L : SubSeq(t, i + 1, i + L) = needle
  BY DEF Holds
<1>4. i \in 0 .. Len(s) - L /\ i + L <= end /\ i \in Nat
  BY <1>1, <1>2, <1>3
<1>5. SubSeq(s, i + 1, i + L) = [k \in 1 .. L |-> s[i + k]]
  BY <1>2, <1>4
<1>6. SubSeq(t, i + 1, i + L) = [k \in 1 .. L |-> t[i + k]]
  BY <1>1, <1>2, <1>4
<1>7. \A k \in 1 .. L : t[i + k] = s[i + k]
  BY <1>2, <1>4
<1>8. [k \in 1 .. L |-> t[i + k]] = [k \in 1 .. L |-> s[i + k]]
  BY <1>7
<1>9. SubSeq(s, i + 1, i + L) = needle
  BY <1>3, <1>5, <1>6, <1>8, Zenon
<1>. QED
  BY <1>4, <1>9 DEF Holds

(* The string in r is what was heard, or a beginning of it.                *)
LEMMA TextHeard ==
  ASSUME NEW a, DOMAIN a = 0 .. RMax, NEW heard \in Seq(RingBytes),
         Len(heard) <= RMax, a[Len(heard)] = NUL,
         \A i \in 1 .. Len(heard) : a[i - 1] = heard[i]
  PROVE  \E end \in 0 .. Len(heard) : Text(a) = [i \in 1 .. end |-> heard[i]]
<1> DEFINE S == {i \in 0 .. RMax : a[i] = NUL}
           end == Min(S)
<1>1. S \in SUBSET Nat /\ Len(heard) \in S
  BY BoundAssumption
<1>2. Text(a) = [i \in 1 .. end |-> a[i - 1]]
  BY DEF Text
<1> HIDE DEF S
<1>3. \E m \in S : \A q \in S : m <= q
  BY <1>1, LeastNatural
<1>4. end \in S /\ \A q \in S : end <= q
  BY <1>3, Zenon DEF Min
<1> HIDE DEF end
<1>5. end \in 0 .. Len(heard)
  <2>1. Len(heard) \in Nat /\ end \in Nat /\ end <= Len(heard)
    BY <1>1, <1>4
  <2>. QED
    BY <2>1
<1>6. \A i \in 1 .. end : a[i - 1] = heard[i]
  BY <1>5
<1>7. Text(a) = [i \in 1 .. end |-> heard[i]]
  BY <1>2, <1>6
<1>. QED
  BY <1>5, <1>7

(* A byte is collected, and what was collected holds the string.           *)
LEMMA WaitHears ==
  ASSUME WaitInv, WaitHear
  PROVE  /\ mode' = "wait" /\ ~seen'.rung => Collected'
         /\ mode' = "script" /\ ~seen.rung => Holds(seen'.heard, Needle)
<1> DEFINE b == Head(iq)
<1>1. /\ mode = "wait" /\ ri < RMax /\ iq # <<>>
      /\ r' = [r EXCEPT ![ri] = b, ![ri + 1] = NUL]
      /\ seen' = [seen EXCEPT !.heard = Append(@, b)]
      /\ mode' = IF Holds(Text(r'), Needle) THEN "script" ELSE "wait"
      /\ ri' = IF Holds(Text(r'), Needle) THEN 0 ELSE ri + 1
  BY DEF WaitHear, receivechar
<1>2. b \in RingBytes
  BY <1>1 DEF WaitInv, RingInv
<1> HIDE DEF b
<1>3. /\ ri \in Nat /\ RMax \in Nat /\ DOMAIN r = 0 .. RMax /\ ri \in 0 .. RMax
  BY BoundAssumption DEF WaitInv, RingInv
<1>4. /\ DOMAIN r' = 0 .. RMax /\ r'[ri] = b /\ r'[ri + 1] = NUL
      /\ \A i \in 0 .. RMax : i # ri /\ i # ri + 1 => r'[i] = r[i]
  BY <1>1, <1>3
<1>5. seen'.rung = seen.rung /\ seen'.heard = Append(seen.heard, b)
  BY <1>1 DEF WaitInv, ScriptInv, NewSeen
<1> SUFFICES ASSUME ~seen.rung
             PROVE  /\ mode' = "wait" => Collected'
                    /\ mode' = "script" => Holds(seen'.heard, Needle)
  BY <1>5
<1> DEFINE h == seen.heard
           g == seen'.heard
<1>6. /\ h \in Seq(RingBytes) /\ Len(h) = ri
      /\ \A i \in 1 .. ri : r[i - 1] = h[i]
  BY <1>1 DEF WaitInv, Collected
<1>7. g = Append(h, b)
  BY <1>5
<1> HIDE DEF h, g
<1>8. /\ g \in Seq(RingBytes) /\ Len(g) = ri + 1 /\ g[ri + 1] = b
      /\ \A i \in 1 .. ri : g[i] = h[i]
  BY <1>2, <1>6, <1>7
<1>9. \A i \in 1 .. ri + 1 : r'[i - 1] = g[i]
  <2> SUFFICES ASSUME NEW i \in 1 .. ri + 1
               PROVE  r'[i - 1] = g[i]
    OBVIOUS
  <2>1. CASE i = ri + 1
    BY <1>3, <1>4, <1>8, <2>1
  <2>2. CASE i # ri + 1
    <3>1. i \in 1 .. ri /\ i - 1 \in 0 .. RMax /\ i - 1 # ri /\ i - 1 # ri + 1
      BY <1>3, <2>2
    <3>. QED
      BY <1>4, <1>6, <1>8, <3>1
  <2>. QED
    BY <2>1, <2>2
<1>10. ASSUME mode' = "wait"
       PROVE  Collected'
  BY <1>1, <1>8, <1>9, <1>10 DEF Collected, g
<1>11. ASSUME mode' = "script"
       PROVE  Holds(g, Needle)
  <2>1. Holds(Text(r'), Needle)
    BY <1>1, <1>11
  <2>2. Len(g) <= RMax /\ r'[Len(g)] = NUL
    BY <1>1, <1>3, <1>4, <1>8
  <2>5. DOMAIN r' = 0 .. RMax /\ \A i \in 1 .. Len(g) : r'[i - 1] = g[i]
    BY <1>4, <1>8, <1>9
  <2>3. PICK end \in 0 .. Len(g) : Text(r') = [i \in 1 .. end |-> g[i]]
    BY <1>8, <2>2, <2>5, TextHeard
  <2>4. Needle \in Seq(Byte)
    <3>1. job.pos \in 1 .. Len(script) /\ script \in Seq(Lines)
      BY <1>1, PlansAssumption DEF WaitInv, ScriptInv, script
    <3>2. script[job.pos] \in Lines
      BY <3>1
    <3>. QED
      BY <3>2 DEF Needle, Lines
  <2>. QED
    BY <1>8, <2>1, <2>3, <2>4, HoldsMore
<1>. QED
  BY <1>10, <1>11 DEF g

(* A WAIT begins with nothing collected.                                   *)
LEMMA WaitBegins ==
  ASSUME WaitInv, Wait
  PROVE  /\ job'.pos \in 1 .. Len(script') /\ seen'.rung \in BOOLEAN
         /\ Collected'
<1>1. /\ Line.cmd = "WAIT" /\ AtLine /\ Moved /\ plan' = plan /\ ri' = 0
      /\ seen' = [Told EXCEPT !.heard = <<>>, !.rung = FALSE]
  BY DEF Wait, Reads, Line
<1>2. DOMAIN Told = DOMAIN NewSeen
  BY DEF Told, WaitInv, ScriptInv
<1>3. seen'.heard = <<>> /\ seen'.rung = FALSE
  <2> HIDE DEF Told
  <2>. QED
    BY <1>1, <1>2 DEF NewSeen
<1>4. Collected'
  BY <1>1, <1>3 DEF Collected
<1>5. /\ job.pos \in 0 .. Len(script) /\ job.pos < Len(script)
      /\ Len(script) \in Nat /\ JobOK(script, job)
  BY <1>1, ScriptFacts DEF AtLine, WaitInv, ScriptInv, JobOK
<1>6. Line.n \in Int
  BY <1>5, ScriptFacts DEF Line, parse_command_line, WaitInv
<1>7. Turned(script, job, Line, job')
  BY <1>1, <1>5, <1>6, TurnFacts DEF Moved, Line
<1>8. job'.pos \in job.pos + 1 .. Len(script) /\ script' = script
  BY <1>1, <1>7 DEF Turned, script
<1>9. job'.pos \in 1 .. Len(script)
  BY <1>5, <1>8
<1>. QED
  BY <1>3, <1>4, <1>8, <1>9


(* The steps during a WAIT that collect nothing.                           *)
LEMMA WaitQuiet ==
  ASSUME WaitInv, mode = "wait", ~Wait, ~WaitHear, [Next]_vars
  PROVE  /\ UNCHANGED <<job, plan>> /\ seen'.rung \in BOOLEAN
         /\ seen.rung => seen'.rung
         /\ ~seen'.rung => UNCHANGED <<ri, r>> /\ seen'.heard = seen.heard
         /\ mode' = "wait" \/ keyboard # "none"
<1>1. /\ DOMAIN seen = DOMAIN NewSeen /\ seen.rung \in BOOLEAN
  BY DEF WaitInv, ScriptInv
<1>2. WaitKey \/ Host \/ Interrupt \/ Tick \/ Press \/ UNCHANGED vars
  BY DEF Next, User, Emulate, Start, Reveal, Type, TermMenu, SerialMenu,
         DirectoryEdit, DirectoryDial, ManualDial, SaveMenu, ViewMenu,
         ScriptMenu, Exit, Key, Port, Receive, LateKey, View, ViewEnd, Dial,
         DialHear, Waiting, DialOver, Statement, Sleep, ScriptDial, Show,
         Capture, Reads, AtLine, ScriptEnd
<1> USE DEF tasks, world, comm
<1>3. CASE WaitKey  BY <1>1, <1>3 DEF WaitKey
<1>4. CASE Host  BY <1>1, <1>4 DEF Host, Arrive
<1>5. CASE Interrupt
  <2>1. /\ UNCHANGED <<job, plan, r, mode>>
        /\ seen' = [seen EXCEPT !.rung = @ \/ ri' # ri]
    BY <1>5 DEF Interrupt
  <2>2. seen'.rung = (seen.rung \/ ri' # ri) /\ seen'.heard = seen.heard
    BY <1>1, <2>1 DEF NewSeen
  <2>. QED
    BY <1>1, <2>1, <2>2
<1>6. CASE Tick  BY <1>1, <1>6 DEF Tick
<1>7. CASE Press  BY <1>1, <1>7 DEF Press
<1>8. CASE UNCHANGED vars  BY <1>1, <1>8 DEF vars
<1>. QED
  BY <1>2, <1>3, <1>4, <1>5, <1>6, <1>7, <1>8

(* Only WAIT begins one, and the telephone is told of in any case.         *)
LEMMA WaitElsewhere ==
  ASSUME WaitInv, mode # "wait", ~Wait, [Next]_vars
  PROVE  mode' # "wait" /\ seen'.rung \in BOOLEAN
<1>1. DOMAIN seen = DOMAIN NewSeen /\ seen.rung \in BOOLEAN
  BY DEF WaitInv, ScriptInv
<1>2. mode' # "wait"
  BY DEF Next, vars, User, Emulate, Start, Reveal, Type, TermMenu, SerialMenu,
         DirectoryEdit, DirectoryDial, ManualDial, SaveMenu, ViewMenu, view_screen,
         ScriptMenu, Exit, Key, Port, Receive, LateKey, View, ViewEnd, Caller,
         Dial, DialHear, DialOver, Statement, Sleep, ScriptDial, Show, Capture,
         WaitHear, WaitKey, ScriptEnd, Host, Interrupt, Tick, Press
<1>3. seen'.rung \in BOOLEAN
  <2>1. \/ UNCHANGED seen
        \/ \E x : \/ seen' = [seen EXCEPT !.edited = x]
                  \/ seen' = [seen EXCEPT !.edited = FALSE, !.redrawn = x]
                  \/ seen' = [seen EXCEPT !.redrawn = x]
                  \/ seen' = [seen EXCEPT !.rehooked = x]
                  \/ seen' = [seen EXCEPT !.drifted = x]
        \/ seen' = Told
        \/ seen' = [seen EXCEPT !.rung = @ \/ ri' # ri]
    BY DEF Next, vars, User, Emulate, Start, Reveal, Type, TermMenu, SerialMenu,
           DirectoryEdit, DirectoryDial, ManualDial, SaveMenu, ViewMenu,
           ScriptMenu, Exit, Key, Port, Receive, LateKey, View, ViewEnd,
           Dial, DialHear, DialOver, Statement, Sleep, ScriptDial, Show, Capture,
           Noted, WaitHear, WaitKey, ScriptEnd, Host, Interrupt, Tick, Press
  <2>2. Told.rung = seen.rung
    BY <1>1 DEF Told, NewSeen
  <2>. QED
    BY <1>1, <2>1, <2>2 DEF NewSeen
<1>. QED
  BY <1>2, <1>3

LEMMA WaitStep ==
  ASSUME WaitInv, [Next]_vars
  PROVE  /\ WaitInv'
         /\ mode = "wait" /\ mode' = "script" /\ keyboard = "none" /\ ~seen.rung
              => Holds(seen'.heard, Needle)
<1>1. RingInv' /\ ScriptInv'
  BY RingStep, ScriptStep DEF WaitInv
<1>2. CASE Wait
  BY <1>1, <1>2, WaitBegins DEF Wait, Reads, AtLine, WaitInv
<1>3. CASE WaitHear
  <2>1. /\ mode = "wait" /\ UNCHANGED <<job, plan>>
        /\ seen' = [seen EXCEPT !.heard = Append(@, Head(iq))]
    BY <1>3 DEF WaitHear, world
  <2>2. seen'.rung = seen.rung
    BY <2>1 DEF WaitInv, ScriptInv, NewSeen
  <2>3. script' = script
    BY <2>1 DEF script
  <2>. QED
    BY <1>1, <1>3, <2>1, <2>2, <2>3, WaitHears DEF WaitInv
<1>4. CASE mode = "wait" /\ ~Wait /\ ~WaitHear
  <2>1. /\ UNCHANGED <<job, plan>> /\ seen'.rung \in BOOLEAN
        /\ seen.rung => seen'.rung
        /\ ~seen'.rung => UNCHANGED <<ri, r>> /\ seen'.heard = seen.heard
        /\ mode' = "wait" \/ keyboard # "none"
    BY <1>4, WaitQuiet
  <2>2. script' = script
    BY <2>1 DEF script
  <2>3. ~seen'.rung => Collected'
    BY <1>4, <2>1 DEF WaitInv, Collected
  <2>. QED
    BY <1>1, <1>4, <2>1, <2>2, <2>3 DEF WaitInv
<1>5. CASE mode # "wait" /\ ~Wait
  BY <1>1, <1>5, WaitElsewhere DEF WaitInv
<1>. QED
  BY <1>2, <1>3, <1>4, <1>5 DEF WaitHear

(* WAIT "string" goes on after the string came, if no key was pressed and  *)
(* the telephone, whose interrupt sets the index of the string, was silent *)
(* (execute_script, init_8250_int's handler).                              *)
THEOREM WaitsAreHeard == Spec => WaitHeard
<1>1. Init => WaitInv
  BY RingInit, ScriptInit DEF Init, WaitInv, NewSeen
<1>2. WaitInv /\ [Next]_vars => WaitInv'
  BY WaitStep
<1>3. WaitInv /\ [Next]_vars =>
        [mode = "wait" /\ mode' = "script" /\ keyboard = "none" /\ ~seen.rung
           => Holds(seen'.heard, Needle)]_vars
  BY WaitStep
<1>. QED
  BY <1>1, <1>2, <1>3, PTL DEF Spec, WaitHeard


-----------------------------------------------------------------------------
(* The decoder in the session: its page is the record of the bytes since   *)
(* the last CS, unless FK09 was pressed while it drew; m says so.          *)
Tracked(s, m) ==
  /\ OnScreen(s) /\ ~s.view_conceal /\ ~s.at.chinese_special
  /\ \/ Live(s) /\ Faithful(s)
     \/ m /\ Drawn(s.page, Len(s.page))

LEMMA TrackedFirst ==
  ASSUME NEW m
  PROVE  Tracked(FirstScreen, m)
<1>1. OnScreen(FirstScreen) /\ ~FirstScreen.view_conceal
  BY FirstOnScreen
<1>2. /\ FirstScreen.page = <<>> /\ FirstScreen.textpage = <<>>
      /\ FirstScreen.drawing = "none" /\ ~FirstScreen.conceal
      /\ FirstScreen.at = Home
  BY DEF FirstScreen
<1>3. ~Home.chinese_special
  BY DEF Home
<1>4. Live(FirstScreen)
  BY <1>1, <1>2 DEF Live
<1>5. Faithful(FirstScreen)
  BY <1>2, <1>4, FaithfulAnew
<1>. QED
  BY <1>1, <1>2, <1>3, <1>4, <1>5 DEF Tracked

(* An empty page is a record of what was received since.                   *)
LEMMA TrackedAnew ==
  ASSUME NEW s, OnScreen(s), ~s.view_conceal, ~s.at.chinese_special,
         s.page = <<>>, s.textpage = <<>>, s.drawing = "none", ~s.conceal, NEW m
  PROVE  Tracked(s, m)
<1>1. Live(s)
  BY DEF Live
<1>2. Faithful(s)
  BY <1>1, FaithfulAnew
<1>. QED
  BY <1>1, <1>2 DEF Tracked

LEMMA TrackedOn ==
  ASSUME NEW m, NEW s, Tracked(s, m), NEW b
  PROVE  Tracked(charin(s, b), m)
<1>1. PICK t : t = charin(s, b)
  OBVIOUS
<1>2. PICK c : c = Code(b)
  OBVIOUS
<1>3. Received(s, c, t)
  BY <1>1, <1>2, CharinFacts DEF Tracked
<1>4. OnScreen(t) /\ ~t.view_conceal /\ ~t.at.chinese_special
  BY <1>3 DEF Received, Tracked
<1>5. CASE Live(s) /\ Faithful(s)
  BY <1>1, <1>4, <1>5, LiveOn, FaithfulOn DEF Tracked
<1>6. CASE m /\ Drawn(s.page, Len(s.page))
  <2>1. CASE Empties(s, c)
    <3>1. ~Begins(s, c) /\ s.drawing = "none"
      BY <2>1 DEF Empties, Begins
    <3>2. /\ t.page = <<>> /\ t.textpage = <<>> /\ ~t.conceal
          /\ t.drawing = "none"
      BY <1>3, <2>1, <3>1 DEF Received
    <3>. QED
      BY <1>1, <1>4, <3>2, TrackedAnew
  <2>2. CASE ~Empties(s, c)
    <3>1. PICK e : e = [data |-> c, at |-> s.at]
      OBVIOUS
    <3>2. t.page = Append(s.page, e)
      BY <1>3, <2>2, <3>1 DEF Received, Tracked
    <3>3. PICK S : s.page \in Seq(S)
      BY DEF Tracked, OnScreen, Paged
    <3>4. PICK n : n = Len(s.page)
      OBVIOUS
    <3>5. /\ n \in Nat /\ Len(t.page) = n + 1
          /\ \A i \in 1 .. n : t.page[i] = s.page[i]
      BY <3>2, <3>3, <3>4
    <3>6. PICK i \in 1 .. n : s.page[i].at.lastesc /\ s.page[i].data \in Drawings
      BY <1>6, <3>4 DEF Drawn
    <3>7. /\ i \in 1 .. Len(t.page)
          /\ t.page[i].at.lastesc /\ t.page[i].data \in Drawings
      BY <3>5, <3>6
    <3>8. Drawn(t.page, Len(t.page))
      BY <3>7 DEF Drawn
    <3>. QED
      BY <1>1, <1>4, <1>6, <3>8 DEF Tracked
  <2>. QED
    BY <2>1, <2>2
<1>. QED
  BY <1>5, <1>6 DEF Tracked

LEMMA PlainPage ==
  ASSUME NEW page, ~Drawn(page, Len(page))
  PROVE  \A i \in 1 .. Len(page) : ~(page[i].at.lastesc /\ page[i].data \in Drawings)
BY DEF Drawn

(* Where nothing draws reveal changes nothing but the concealing; where    *)
(* something does and the drawing's state is changed, FK09 is told of.     *)
LEMMA TrackedReveal ==
  ASSUME NEW m, NEW s, Tracked(s, m), NEW t, t = reveal(s), NEW k,
         k = (m \/ Pen(t) # Pen(s))
  PROVE  Tracked(t, k)
<1>1. /\ OnScreen(t) /\ ~t.view_conceal /\ ~t.conceal /\ t.at = s.at
      /\ \/ t.page = s.page /\ t.textpage = s.textpage
         \/ t.page = <<>> /\ t.textpage = <<>> /\ t.drawing = "none"
  BY RevealFacts DEF Tracked
<1>2. ~t.at.chinese_special
  BY <1>1 DEF Tracked
<1>3. CASE t.page = <<>> /\ t.textpage = <<>> /\ t.drawing = "none"
  BY <1>1, <1>2, <1>3, TrackedAnew
<1>4. CASE t.page = s.page /\ k /\ Drawn(s.page, Len(s.page))
  BY <1>1, <1>2, <1>4 DEF Tracked
<1>5. CASE t.page = s.page /\ ~(k /\ Drawn(s.page, Len(s.page)))
  <2>1. Live(s) /\ Faithful(s)
    BY <1>5 DEF Tracked
  <2>2. Pen(t) = Pen(s)
    <3>1. CASE ~k
      BY <3>1
    <3>2. CASE ~Drawn(s.page, Len(s.page))
      <4>1. PICK H : Past(s, H)
        BY <2>1 DEF Faithful
      <4>2. t = [s EXCEPT !.last_conceal = ~@, !.conceal = FALSE]
        BY <3>2, <4>1, PlainPage, PlainReveal
      <4>3. PICK x : x = ~s.last_conceal
        OBVIOUS
      <4>4. t = [s EXCEPT !.last_conceal = x, !.conceal = FALSE]
        <5>1. t = [s EXCEPT !.last_conceal = ~s.last_conceal, !.conceal = FALSE]
          BY <4>2, Zenon
        <5>. QED
          BY <4>3, <5>1, Zenon
      <4>5. DOMAIN s = ScrFields
        BY DEF Tracked, OnScreen, HasScr
      <4>. QED
        BY <4>4, <4>5 DEF Pen, ScrFields
    <3>. QED
      BY <1>5, <3>1, <3>2
  <2>3. t.drawing = s.drawing /\ t.draw_para_rxd = s.draw_para_rxd
    BY <2>2 DEF Pen
  <2>4. Live(t) /\ Faithful(t)
    BY <2>1, <2>3, LiveRevealed, FaithfulRevealed
  <2>. QED
    BY <1>1, <1>2, <2>4 DEF Tracked
<1>. QED
  BY <1>1, <1>3, <1>4, <1>5

-----------------------------------------------------------------------------
(* The decoder and what the history tells of FK09.                         *)
ScreenInv == /\ "redrawn" \in DOMAIN seen /\ seen.redrawn \in BOOLEAN
             /\ Tracked(scr, seen.redrawn)

(* Bytes decoded, from the line, the keyboard or a file.                   *)
Further(s, t) == \/ t = s \/ \E b : t = charin(s, b)
                 \/ \E b, c : t = charin(charin(s, b), c)

Unmarked == DOMAIN seen' = DOMAIN seen /\ seen'.redrawn = seen.redrawn

LEMMA ScreenFurther ==
  ASSUME ScreenInv, Further(scr, scr'), Unmarked
  PROVE  ScreenInv'
<1>1. PICK m : m = seen.redrawn
  OBVIOUS
<1>2. Tracked(scr', m)
  BY <1>1, TrackedOn DEF ScreenInv, Further
<1>. QED
  BY <1>1, <1>2 DEF ScreenInv, Unmarked

LEMMA EchoFurther ==
  ASSUME NEW b
  PROVE  /\ Further(scr, Echoed(b))
         /\ \A c : Further(scr, charin(Echoed(b), c))
BY DEF Echoed, Further

LEMMA ScreenReveal ==
  ASSUME ScreenInv, Reveal
  PROVE  ScreenInv'
<1>1. PICK s : s = Echoed(NUL)
  OBVIOUS
<1>2. /\ scr' = reveal(s)
      /\ seen' = [seen EXCEPT !.redrawn = @ \/ Pen(scr') # Pen(s)]
  BY <1>1 DEF Reveal
<1>3. PICK m : m = seen.redrawn
  OBVIOUS
<1>4. PICK k : k = (m \/ Pen(scr') # Pen(s))
  OBVIOUS
<1>5. Tracked(s, m)
  BY <1>1, <1>3, TrackedOn DEF ScreenInv, Echoed
<1>6. Tracked(scr', k)
  BY <1>2, <1>4, <1>5, TrackedReveal
<1>7. seen' = [seen EXCEPT !.redrawn = k]
  <2>1. seen' = [seen EXCEPT !.redrawn = seen.redrawn \/ Pen(scr') # Pen(s)]
    BY <1>2, Zenon
  <2>. QED
    BY <1>3, <1>4, <2>1, Zenon
<1>8. "redrawn" \in DOMAIN seen' /\ seen'.redrawn = k
  BY <1>7 DEF ScreenInv
<1>9. k \in BOOLEAN
  BY <1>4
<1>. QED
  BY <1>6, <1>8, <1>9 DEF ScreenInv

LEMMA ScreenStarts ==
  ASSUME ScreenInv, Start
  PROVE  ScreenInv'
<1>1. /\ scr' = FirstScreen
      /\ seen' = [seen EXCEPT !.edited = FALSE, !.redrawn = FALSE]
  BY DEF Start
<1>2. "redrawn" \in DOMAIN seen' /\ seen'.redrawn = FALSE
  BY <1>1 DEF ScreenInv
<1>. QED
  BY <1>1, <1>2, TrackedFirst DEF ScreenInv

(* What is told of other things leaves redrawn alone.                      *)
LEMMA UnmarkedSteps ==
  ASSUME ScreenInv, [Next]_vars, ~Start, ~Reveal
  PROVE  Unmarked
<1>1. PICK Fs : Fs = DOMAIN seen
  OBVIOUS
<1>2. /\ UNCHANGED seen => Unmarked
      /\ \A x : /\ seen' = [seen EXCEPT !.edited = x] => Unmarked
                /\ seen' = [seen EXCEPT !.rehooked = x] => Unmarked
                /\ seen' = [seen EXCEPT !.drifted = x] => Unmarked
                /\ seen' = [seen EXCEPT !.heard = x] => Unmarked
                /\ seen' = [seen EXCEPT !.rung = x] => Unmarked
  BY DEF Unmarked, ScreenInv
<1>3. DOMAIN Told = DOMAIN seen /\ Told.redrawn = seen.redrawn
  BY DEF Told, ScreenInv
<1>4. /\ seen' = Told => Unmarked
      /\ seen' = [Told EXCEPT !.heard = <<>>, !.rung = FALSE] => Unmarked
  <2> HIDE DEF Told
  <2>. QED
    BY <1>3 DEF Unmarked, ScreenInv
<1>5. \/ UNCHANGED seen
      \/ \E x : \/ seen' = [seen EXCEPT !.edited = x]
                \/ seen' = [seen EXCEPT !.rehooked = x]
                \/ seen' = [seen EXCEPT !.drifted = x]
                \/ seen' = [seen EXCEPT !.heard = x]
                \/ seen' = [seen EXCEPT !.rung = x]
      \/ seen' = Told \/ seen' = [Told EXCEPT !.heard = <<>>, !.rung = FALSE]
  BY DEF Next, vars, User, Emulate, Type, TermMenu, SerialMenu,
         DirectoryEdit, DirectoryDial, ManualDial, SaveMenu, ViewMenu,
         ScriptMenu, Exit, Key, Port, Receive, LateKey, View, ViewEnd,
         Dial, DialHear, DialOver, Statement, Sleep, ScriptDial, Show, Capture,
         Noted, Wait, WaitHear, WaitKey, ScriptEnd, Host, Interrupt, Tick, Press
<1>. HIDE DEF Unmarked
<1>. QED
  BY <1>2, <1>4, <1>5

(* Only bytes that are decoded and FK09 change the screen.                 *)
Decodes == Further(scr, scr')

LEMMA FurtherSteps ==
  ASSUME [Next]_vars, ~Start, ~Reveal
  PROVE  Decodes
<1>1. /\ UNCHANGED scr => Decodes
      /\ \A b : scr' = charin(scr, b) => Decodes
      /\ \A b : scr' = Echoed(b) => Decodes
      /\ \A b, c : scr' = charin(Echoed(b), c) => Decodes
  BY EchoFurther DEF Further, Decodes
<1>2. CASE \E b \in {"a"} : Type(b)
  BY <1>1, <1>2 DEF Type
<1>3. CASE \/ TermMenu \/ SerialMenu \/ DirectoryEdit \/ DirectoryDial
           \/ ManualDial \/ SaveMenu \/ ScriptMenu \/ Exit
  BY <1>1, <1>3 DEF TermMenu, SerialMenu, DirectoryEdit, DirectoryDial,
                    ManualDial, SaveMenu, ScriptMenu, Exit
<1>4. CASE ViewMenu  BY <1>1, <1>4 DEF ViewMenu, view_screen
<1>5. CASE Receive  BY <1>1, <1>5 DEF Receive
<1>6. CASE LateKey  BY <1>1, <1>6 DEF LateKey
<1>7. CASE View
  <2>1. UNCHANGED scr \/ \E b : scr' = charin(scr, b)
    BY <1>7 DEF View
  <2>. QED
    BY <1>1, <2>1
<1>8. CASE Show  BY <1>1, <1>8 DEF Show, view_screen
<1>9. CASE \/ Press \/ Port \/ ViewEnd \/ Dial \/ DialHear \/ DialOver
           \/ Statement \/ Sleep \/ ScriptDial \/ Capture
           \/ Wait \/ WaitHear \/ WaitKey \/ ScriptEnd \/ Host \/ Interrupt
           \/ Tick \/ UNCHANGED vars
  <2>1. UNCHANGED scr
    BY <1>9 DEF Press, Port, ViewEnd, Dial, DialHear, DialOver, Statement,
                Sleep, ScriptDial, Capture, Wait, WaitHear, WaitKey, ScriptEnd,
                Host, Interrupt, Tick, vars
  <2>. QED
    BY <1>1, <2>1
<1>10. CASE User
  BY <1>2, <1>3, <1>4, <1>9, <1>10 DEF User
<1>11. CASE Emulate
  BY <1>5, <1>6, <1>7, <1>8, <1>9, <1>11 DEF Emulate
<1>12. CASE Host \/ Interrupt \/ Tick \/ UNCHANGED vars
  BY <1>9, <1>12
<1>. QED
  BY <1>10, <1>11, <1>12 DEF Next

LEMMA ScreenInvariant == Spec => []ScreenInv
<1>1. ASSUME Init
      PROVE  ScreenInv
  <2>1. /\ "redrawn" \in DOMAIN NewSeen /\ NewSeen.redrawn \in BOOLEAN
        /\ scr = FirstScreen /\ seen = NewSeen
    BY <1>1 DEF Init, NewSeen
  <2>2. PICK m : m = NewSeen.redrawn
    OBVIOUS
  <2>3. Tracked(FirstScreen, m)
    BY TrackedFirst
  <2>. QED
    BY <2>1, <2>2, <2>3 DEF ScreenInv
<1>2. ScreenInv /\ [Next]_vars => ScreenInv'
  BY ScreenStarts, ScreenReveal, UnmarkedSteps, FurtherSteps, ScreenFurther DEF Decodes
<1>. QED
  BY <1>1, <1>2, PTL DEF Spec

-----------------------------------------------------------------------------
LEMMA SeenAlike ==
  ASSUME NEW a, DOMAIN a = AtFields, NEW b, DOMAIN b = AtFields, Alike(a, b)
  PROVE  Seen(a) = Seen(b)
<1>1. PICK x : x = Seen(a)
  OBVIOUS
<1>2. PICK y : y = Seen(b)
  OBVIOUS
<1>3. /\ DOMAIN x = AtFields /\ DOMAIN y = AtFields
      /\ x = [f \in AtFields |-> x[f]] /\ y = [f \in AtFields |-> y[f]]
  BY <1>1, <1>2 DEF Seen
<1>4. \A f \in AtFields : x[f] = y[f]
  BY <1>1, <1>2 DEF Seen, Alike, AtKeeps
<1>. QED
  BY <1>1, <1>2, <1>3, <1>4

LEMMA EntryOf ==
  ASSUME NEW s, OnScreen(s), NEW i \in 1 .. Len(s.page)
  PROVE  Entry(s.page[i])
<1>1. PICK S : s.page \in Seq(S) /\ \A e \in S : Entry(e)
  BY DEF OnScreen, Paged
<1>2. s.page[i] \in S
  BY <1>1
<1>. QED
  BY <1>1, <1>2

(* Whenever FK09 may be pressed, reveal leaves the decoder, both pages and *)
(* the cursor in place, and decodes every byte where and how it was first  *)
(* decoded (reveal, which replays the page through charin).                *)
THEOREM RevealLeavesInPlace == Spec => []RevealInPlace
<1>1. ASSUME ScreenInv
      PROVE  RevealInPlace
  <2>1. PICK first : first = FirstConcealed(scr.page)
    OBVIOUS
  <2>2. ASSUME ~Drawn(scr.page, Len(scr.page))
        PROVE  reveal(scr) = [scr EXCEPT !.last_conceal = ~@, !.conceal = FALSE]
    <3>1. Faithful(scr)
      BY <1>1, <2>2 DEF ScreenInv, Tracked
    <3>2. PICK H : Past(scr, H)
      BY <3>1 DEF Faithful
    <3>. QED
      BY <2>2, <3>2, PlainPage, PlainReveal
  <2>3. ASSUME scr.drawing = "none", Concealing(scr.page) # {},
               ~Drawn(scr.page, first), ~ChineseConcealed(scr.page), Recorded,
               NEW j \in first .. Len(scr.page) - 1
        PROVE  Seen(Replayed(Revealing(scr), first, j).at)
                 = Seen(scr.page[j + 1].at)
    <3>1. Live(scr) /\ Faithful(scr)
      BY <1>1, <2>3 DEF ScreenInv, Tracked, Recorded
    <3>2. PICK H : Past(scr, H)
      BY <3>1 DEF Faithful
    <3>3. OnScreen(scr) /\ Len(scr.page) \in Nat
      BY <3>1, PageLength DEF Live
    <3>4. first \in 1 .. Len(scr.page) - 1
      BY <2>1, <2>3, <3>3, FirstConceals DEF OnScreen
    <3>5. /\ first \in 1 .. Len(scr.page) /\ j + 1 \in 1 .. Len(scr.page)
          /\ j \in first - 1 .. Len(scr.page)
      BY <3>3, <3>4
    <3>6. \A i \in 1 .. first :
            ~(scr.page[i].at.lastesc /\ scr.page[i].data \in Drawings)
      BY <2>3 DEF Drawn
    <3>7. \A i \in 1 .. Len(scr.page) : scr.page[i].at.screen_mode # "CHINESE"
      BY <2>3 DEF ChineseConcealed
    <3>8. PICK v : v = Revealing(scr)
      OBVIOUS
    <3>9. Alike(scr.page[j + 1].at, Replayed(v, first, j).at)
      BY <2>3, <3>2, <3>5, <3>6, <3>7, <3>8, RevealSees
    <3>10. OnScreen(v) /\ v.view_conceal /\ v.page = scr.page
      BY <3>3, <3>8, RevealingFacts DEF Keeps, ScrFields
    <3>11. Shown(v, Replayed(v, first, j))
      BY <3>5, <3>10, ReplayShows
    <3>12. DOMAIN Replayed(v, first, j).at = AtFields
      BY <3>11 DEF Shown, OnScreen, HasScr
    <3>13. DOMAIN scr.page[j + 1].at = AtFields
      BY <3>3, <3>5, EntryOf DEF Entry
    <3>. QED
      BY <3>8, <3>9, <3>12, <3>13, SeenAlike
  <2>. QED
    BY <2>1, <2>2, <2>3 DEF RevealInPlace
<1>. QED
  BY <1>1, ScreenInvariant, PTL

(* Viewing a page is a walk through it.                                    *)
LEMMA ViewedWalk ==
  ASSUME NEW s, NEW page, NEW n \in Nat, n = Len(page)
  PROVE  \E f : Walk(f, 0, n, charin(s, "CS"), page, "view") /\ f[n] = Viewed(s, page)
<1> DEFINE Found(f) == f = [i \in 0 .. Len(page) |->
                              IF i = 0 THEN charin(s, "CS")
                              ELSE charin(f[i - 1], page[i].data)]
<1>1. PICK f : Walk(f, 0, n, charin(s, "CS"), page, "view")
  BY WalkExists
<1>2. Found(f)
  BY <1>1 DEF Walk, Goes
<1>3. PICK g : g = CHOOSE h : Found(h)
  OBVIOUS
<1>4. Found(g)
  BY <1>2, <1>3
<1>5. Walk(g, 0, n, charin(s, "CS"), page, "view")
  BY <1>4 DEF Walk, Goes
<1>6. Viewed(s, page) = g[n]
  BY <1>3 DEF Viewed
<1>. QED
  BY <1>5, <1>6

(* Screens that look alike are the same to the eye.                        *)
LEMMA LooksTheSame ==
  ASSUME NEW s, OnScreen(s), NEW t, Looks(s, t)
  PROVE  /\ Places(t.page) = Places(s.page) /\ t.textpage = s.textpage
         /\ Seen(t.at) = Seen(s.at)
<1>1. /\ OnScreen(t) /\ Len(t.page) = Len(s.page) /\ t.textpage = s.textpage
      /\ Alike(s.at, t.at)
      /\ \A q \in 1 .. Len(s.page) : /\ t.page[q].data = s.page[q].data
                                     /\ Alike(s.page[q].at, t.page[q].at)
  BY DEF Looks
<1>2. Seen(t.at) = Seen(s.at)
  BY <1>1, SeenAlike DEF OnScreen, HasScr
<1>3. ASSUME NEW q \in 1 .. Len(s.page)
      PROVE  [t.page[q] EXCEPT !.at = Seen(@)] = [s.page[q] EXCEPT !.at = Seen(@)]
  <2>1. PICK d : d = s.page[q]
    OBVIOUS
  <2>2. PICK e : e = t.page[q]
    OBVIOUS
  <2>3. Entry(d) /\ Entry(e)
    BY <1>1, <2>1, <2>2, EntryOf
  <2>4. d.data = e.data /\ Seen(d.at) = Seen(e.at)
    BY <1>1, <2>1, <2>2, <2>3, SeenAlike DEF Entry
  <2>5. PICK x : x = Seen(d.at)
    OBVIOUS
  <2>6. [e EXCEPT !.at = x] = [d EXCEPT !.at = x]
    BY <2>3, <2>4 DEF Entry
  <2>7. /\ [e EXCEPT !.at = Seen(@)] = [e EXCEPT !.at = x]
        /\ [d EXCEPT !.at = Seen(@)] = [d EXCEPT !.at = x]
    <3>1. Seen(e.at) = x /\ Seen(d.at) = x
      BY <2>4, <2>5
    <3> HIDE DEF Seen
    <3>. QED
      BY <3>1
  <2>. QED
    BY <2>1, <2>2, <2>6, <2>7
<1>4. Places(t.page) = Places(s.page)
  BY <1>1, <1>3 DEF Places
<1>. QED
  BY <1>1, <1>2, <1>4

(* A page that was saved when the decoder was in the middle of nothing is  *)
(* decoded by view_screen to what was on the screen (save_screen and       *)
(* view_screen, whose charin first gets a CS).                             *)
THEOREM SavedPagesView == Spec => []SavedScreenViews
<1>1. ASSUME ScreenInv
      PROVE  SavedScreenViews
  <2>1. ASSUME scr.page # <<>>, scr.page[1].at = Home, ~ChineseConcealed(scr.page),
               scr.drawing = "none", ~scr.at.hidden, ~scr.at.lastesc, Recorded
        PROVE  Looks(scr, Viewed(scr, scr.page))
    <3>1. Live(scr) /\ Faithful(scr) /\ ~scr.at.chinese_special
      BY <1>1, <2>1 DEF ScreenInv, Tracked, Recorded
    <3>2. PICK H : Past(scr, H)
      BY <3>1 DEF Faithful
    <3>3. PICK n : n = Len(scr.page)
      OBVIOUS
    <3>4. n \in Nat
      BY <3>1, <3>3, PageLength DEF Live
    <3>5. \/ Concealing(scr.page) = {}
          \/ \A i \in 1 .. Len(scr.page) : scr.page[i].at.screen_mode # "CHINESE"
      BY <2>1 DEF ChineseConcealed
    <3>6. PICK f : /\ Walk(f, 0, n, charin(scr, "CS"), scr.page, "view")
                   /\ f[n] = Viewed(scr, scr.page)
      BY <3>3, <3>4, ViewedWalk
    <3>7. Looks(scr, f[n])
      BY <2>1, <3>1, <3>2, <3>3, <3>5, <3>6, ViewShows
    <3>. QED
      BY <3>6, <3>7
  <2>2. OnScreen(scr)
    BY <1>1 DEF ScreenInv, Tracked
  <2>. QED
    BY <2>1, <2>2, LooksTheSame DEF SavedScreenViews
<1>. QED
  BY <1>1, ScreenInvariant, PTL

-----------------------------------------------------------------------------
(* The vectors, the clock and the script that runs.                        *)
Restful == /\ vec \in [Ports -> {"dos", "ours"}]
           /\ OldAsynVector \in {"dos", "ours"}
           /\ clock \in 0 .. DAY - 1
           /\ mode \in Modes
           /\ script_running => mode \in {"script", "dial", "view", "wait"}

LEMMA VectorSteps ==
  ASSUME vec \in [Ports -> {"dos", "ours"}], OldAsynVector \in {"dos", "ours"},
         term.com \in Ports, [Next]_vars
  PROVE  vec' \in [Ports -> {"dos", "ours"}] /\ OldAsynVector' \in {"dos", "ours"}
<1>1. CASE UNCHANGED <<vec, OldAsynVector>>
  BY <1>1
<1>2. CASE Port
  <2>1. CASE Hook  BY <2>1 DEF Hook
  <2>2. CASE Program(Head(todo))  BY <2>2 DEF Program
  <2>3. CASE Enable  BY <2>3 DEF Enable
  <2>. QED
    BY <1>2, <2>1, <2>2, <2>3 DEF Port, PortStep
<1>3. CASE SerialMenu
  BY <1>3 DEF SerialMenu, serialpf
<1>4. CASE Exit
  BY <1>4 DEF Exit, reset8250int
<1>5. CASE ~Port /\ ~SerialMenu /\ ~Exit
  <2>1. UNCHANGED <<vec, OldAsynVector>>
    BY <1>5 DEF Next, User, Emulate, Start, Reveal, Type, TermMenu,
       DirectoryEdit, DirectoryDial, ManualDial, SaveMenu, ViewMenu,
       ScriptMenu, Press, Receive, receivechar, LateKey, View, ViewEnd, Dial,
       DialHear, DialOver, Statement, Sleep, ScriptDial, Show, Capture, Wait,
       WaitHear, WaitKey, ScriptEnd, Host, Arrive, Interrupt,
       DataReadyInterrupt, LineStatusInterrupt, ModemStatusInterrupt, Tick,
       vars, comm, chip
  <2>. QED
    BY <1>1, <2>1
<1>. QED
  BY <1>2, <1>3, <1>4, <1>5

LEMMA ClockSteps ==
  ASSUME ScriptInv, clock \in 0 .. DAY - 1, [Next]_vars
  PROVE  clock' \in 0 .. DAY - 1
<1>1. CASE Sleep
  <2>1. /\ clock' = (clock + Line.n) % DAY /\ AtLine
    BY <1>1 DEF Sleep, Reads
  <2>2. Line.n \in Int
    <3>1. job.pos \in 0 .. Len(script) /\ job.pos < Len(script)
      BY <2>1 DEF AtLine, ScriptInv, JobOK
    <3>2. job.pos + 1 \in 1 .. Len(script)
      BY <3>1, ScriptFacts
    <3>. QED
      BY <3>2, ScriptFacts DEF Line, parse_command_line
  <2>3. PICK x \in Int : x = clock + Line.n
    BY <2>2
  <2>. QED
    BY <2>1, <2>3, ClockAssumption
<1>2. CASE Tick
  BY <1>2, ClockAssumption DEF Tick
<1>3. CASE ~Sleep /\ ~Tick
  <2>1. UNCHANGED clock
    BY <1>3 DEF Next, User, Emulate, Start, Reveal, Type, TermMenu, SerialMenu,
       DirectoryEdit, DirectoryDial, ManualDial, SaveMenu, ViewMenu,
       ScriptMenu, Exit, Key, Press, Port, Receive, LateKey, View, ViewEnd, Dial,
       DialHear, DialOver, Statement, ScriptDial, Show, Capture, Wait,
       WaitHear, WaitKey, ScriptEnd, Host, Interrupt, vars, world
  <2>. QED
    BY <2>1
<1>. QED
  BY <1>1, <1>2, <1>3

LEMMA ModeSteps ==
  ASSUME mode \in Modes, [Next]_vars,
         script_running => mode \in {"script", "dial", "view", "wait"}
  PROVE  script_running' => mode' \in {"script", "dial", "view", "wait"}
<1> USE DEF Modes, tasks
<1>1. CASE UNCHANGED <<mode, script_running>>
  BY <1>1
<1>2. CASE Start  BY <1>2 DEF Start
<1>3. CASE Port  BY <1>3 DEF Port
<1>4. CASE TermMenu \/ SerialMenu \/ DirectoryDial
  BY <1>4 DEF TermMenu, SerialMenu, DirectoryDial, Key
<1>5. CASE ManualDial \/ ViewMenu \/ ScriptMenu \/ Exit
  BY <1>5 DEF ManualDial, ViewMenu, view_screen, ScriptMenu, Exit, Key
<1>6. CASE ViewEnd \/ DialOver
  BY <1>6 DEF ViewEnd, DialOver, Caller
<1>7. CASE ScriptDial \/ Show \/ Wait \/ WaitHear \/ WaitKey \/ ScriptEnd
  BY <1>7 DEF ScriptDial, Show, view_screen, Wait, WaitHear, WaitKey, ScriptEnd
<1>8. CASE ~ \/ Start \/ Port \/ TermMenu \/ SerialMenu \/ DirectoryDial
             \/ ManualDial \/ ViewMenu \/ ScriptMenu \/ Exit \/ ViewEnd \/ DialOver
             \/ ScriptDial \/ Show \/ Wait \/ WaitHear \/ WaitKey \/ ScriptEnd
  <2>1. UNCHANGED <<mode, script_running>>
    BY <1>8 DEF Next, User, Emulate, Reveal, Type, DirectoryEdit, SaveMenu,
       Key, Press, Receive, LateKey, View, Dial, DialHear, Statement, Sleep,
       Capture, Host, Interrupt, Tick, vars
  <2>. QED
    BY <1>1, <2>1
<1>. QED
  BY <1>2, <1>3, <1>4, <1>5, <1>6, <1>7, <1>8

(* The types, with the ranges that matter: the cursor stays on the screen, *)
(* a drawing never waits for more arguments than it takes, a script is     *)
(* read inside its lines (charin, execute_script, setup8250).              *)
THEOREM EmulatorTypes == Spec => []TypeOK
<1> DEFINE TypeInv == EmulatorInv /\ WaitInv /\ ScreenInv /\ Restful
<1>1. ASSUME Init
      PROVE  TypeInv
  <2>1. Restful
    BY <1>1, ClockAssumption DEF Init, CommInit, Restful, Modes
  <2>2. WaitInv
    BY <1>1, RingInit, ScriptInit DEF Init, WaitInv, NewSeen
  <2>3. "redrawn" \in DOMAIN NewSeen /\ NewSeen.redrawn = FALSE
    BY DEF NewSeen
  <2>4. ScreenInv
    BY <1>1, <2>3, TrackedFirst DEF Init, ScreenInv
  <2>. QED
    BY <1>1, <2>1, <2>2, <2>4, EmulatorInit
<1>2. ASSUME TypeInv, [Next]_vars
      PROVE  TypeInv'
  <2>1. EmulatorInv' /\ WaitInv'
    BY <1>2, EmulatorStep, WaitStep
  <2>2. ScreenInv'
    BY <1>2, ScreenStarts, ScreenReveal, UnmarkedSteps, FurtherSteps,
       ScreenFurther DEF Decodes
  <2>3. term.com \in Ports /\ mode \in Modes /\ mode' \in Modes /\ ScriptInv
    BY <1>2, <2>1 DEF EmulatorInv, PortInv, SettingsOK, Terminal, WaitInv
  <2>4. /\ vec' \in [Ports -> {"dos", "ours"}] /\ OldAsynVector' \in {"dos", "ours"}
        /\ clock' \in 0 .. DAY - 1
        /\ script_running' => mode' \in {"script", "dial", "view", "wait"}
    BY <1>2, <2>3, VectorSteps, ClockSteps, ModeSteps DEF Restful
  <2>. QED
    BY <2>1, <2>2, <2>3, <2>4 DEF Restful
<1>3. ASSUME TypeInv
      PROVE  TypeOK
  <2>1. Decoding
    BY <1>3 DEF ScreenInv, Tracked, OnScreen, Sited, Pending, Decoding
  <2>2. /\ mode \in {"off", "port", "keys", "dial", "view", "script", "wait"}
        /\ term.baudrate \in Bauds /\ term.com \in Ports
    BY <1>3 DEF EmulatorInv, PortInv, SettingsOK, Terminal, Modes
  <2>3. /\ rx \in Byte \cup {NoByte} /\ iq \in Seq(Byte \cup {Latched})
        /\ job.pos \in 0 .. Len(script) /\ job.loopbegin \in -1 .. Len(script) - 1
        /\ ri \in 0 .. RMax
    BY <1>3 DEF WaitInv, RingInv, RingBytes, ScriptInv, JobOK
  <2>. QED
    BY <1>3, <2>1, <2>2, <2>3 DEF Restful, TypeOK
<1> HIDE DEF TypeInv
<1>. QED
  BY <1>1, <1>2, <1>3, PTL DEF Spec
=============================================================================
