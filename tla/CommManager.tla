----------------------------- MODULE CommManager -----------------------------
(***************************************************************************)
(* The communication manager of the emulator (COMMNGR.C) and the 8250 it   *)
(* programs: settings, registers, the vectors of the two ports and the     *)
(* ring of received bytes.  The interrupt handler runs between any two     *)
(* steps of the program.  The modem is on COM1: the handler finds nothing  *)
(* to do when termcom is another port, as portaddress is then.             *)
(*                                                                         *)
(* The line control register is the set of its bits; a register is written *)
(* by a step of its own where an interrupt can tell.                       *)
(***************************************************************************)
EXTENDS Naturals, Sequences

CONSTANTS Byte, NoByte,
          Bauds,        \* the baud rates offered by the menu
          QMax          \* bound: the bytes the ring holds

COM1 == "COM1"
COM2 == "COM2"
Ports == {COM1, COM2}

WordLength7 == {"WLS1"}
WordLength8 == {"WLS0", "WLS1"}
OneStopBit  == {}
TwoStopBits == {"STB"}
NoParity    == {}
EvenParity  == {"EPS", "PEN"}
OddParity   == {"PEN"}
DLAB        == {"DLAB"}
BaudFactor  == 115200

(* The factory's settings are among the menu's.                            *)
ASSUME BaudAssumption == /\ Bauds \subseteq {1200, 2400, 4800, 9600}
                         /\ {1200, 2400} \subseteq Bauds

(* The divisor's low byte, which the handler reads for a received one.     *)
Latched == "DIVISOR"

VARIABLES term,           \* the settings: baudrate, wordlength, parity,
                          \* stopbit, localecho and com
          lcr, divisor,   \* the registers of each port
          ier,            \* the ports whose interrupts are enabled
          vec,            \* whose handler each port's vector holds
          OldAsynVector,
          todo,           \* the register writes a function has still to do
          rx,             \* the byte the 8250 has received, or NoByte
          iq,             \* the ring of received bytes
          ri,             \* the ring indicator, and the index of WAIT
          noise           \* whether the line has errors and rings

chip == <<lcr, divisor, ier, vec, OldAsynVector>>
comm == <<term, chip, todo, rx, iq, ri, noise>>

Factory == [baudrate |-> 1200, wordlength |-> WordLength7,
            parity |-> EvenParity, stopbit |-> OneStopBit,
            localecho |-> FALSE, com |-> COM1]

CommInit == /\ term = Factory
            /\ lcr = [p \in Ports |-> {}] /\ divisor = [p \in Ports |-> 0]
            /\ ier = {} /\ vec = [p \in Ports |-> "dos"]
            /\ OldAsynVector = "dos"
            /\ todo = <<>> /\ rx = NoByte /\ iq = <<>> /\ ri = 0
-----------------------------------------------------------------------------
(* The divisor setcombaud writes: t is cut to a signed char before its     *)
(* high byte is taken, which is then 0 or 255.                             *)
Divisor(br) ==
  LET t  == BaudFactor \div br
      lo == t % 256
      hi == IF lo < 128 THEN 0 ELSE 255
  IN  hi * 256 + lo

(* setcombaud is three writes; the three functions for the format are one, *)
(* as no interrupt can tell them apart.  change_dialdir's way to program   *)
(* the port, and setup8250's.                                              *)
Reprogram == <<"latch", "divisor", "unlatch", "format">>
setup8250 == <<"hook", "latch", "divisor", "unlatch", "format", "enable">>

WrittenOver(step) ==
  CASE step = "latch"   -> lcr[term.com] \cup DLAB
    [] step = "unlatch" -> lcr[term.com] \ DLAB
    [] step = "format"  -> lcr[term.com] \cup term.wordlength
                             \cup term.parity \cup term.stopbit
    [] OTHER            -> lcr[term.com]

(* The latch is closed with all bits off, so no older format is left.      *)
Written(step) ==
  CASE step = "latch"   -> DLAB
    [] step = "unlatch" -> {}
    [] step = "format"  -> lcr[term.com] \cup term.wordlength
                             \cup term.parity \cup term.stopbit
    [] OTHER            -> lcr[term.com]

(* A port is not unhooked before it is hooked again.                       *)
Hook == /\ iq' = <<>>
        /\ OldAsynVector' = vec[term.com]
        /\ vec' = [vec EXCEPT ![term.com] = "ours"]
        /\ UNCHANGED <<lcr, divisor, ier, rx, ri>>

Program(step) ==
  /\ step \in {"latch", "divisor", "unlatch", "format"}
  /\ lcr' = [lcr EXCEPT ![term.com] = Written(step)]
  /\ divisor' = IF step = "divisor"
                THEN [divisor EXCEPT ![term.com] = Divisor(term.baudrate)]
                ELSE divisor
  /\ UNCHANGED <<ier, vec, OldAsynVector, rx, iq, ri>>

(* init_MCR, the byte in RX thrown away, init_8250_int and the flags.      *)
Enable == /\ ier' = ier \cup {term.com}
          /\ rx' = IF term.com = COM1 THEN NoByte ELSE rx
          /\ ri' \in IF noise THEN {0, 1} ELSE {0}
          /\ UNCHANGED <<lcr, divisor, vec, OldAsynVector, iq>>

(* The next write of setup8250 or of change_dialdir.                       *)
PortStep == /\ todo # <<>> /\ todo' = Tail(todo)
            /\ \/ Head(todo) = "hook" /\ Hook
               \/ Program(Head(todo))
               \/ Head(todo) = "enable" /\ Enable
            /\ UNCHANGED <<term, noise>>

(* serialpf: the port's old vector comes back before the port changes.     *)
serialpfLate(p) ==
  /\ term' = [term EXCEPT !.com = p]
  /\ vec' = [vec EXCEPT ![p] = OldAsynVector]

serialpf(p) ==
  /\ vec' = [vec EXCEPT ![term.com] = OldAsynVector]
  /\ term' = [term EXCEPT !.com = p]

reset8250int == vec' = [vec EXCEPT ![term.com] = OldAsynVector]
-----------------------------------------------------------------------------
(* The interrupts, while the handler is the one called.  As long as the    *)
(* divisor latch is on, port RX is the divisor's low byte.                 *)
Interrupts == vec[COM1] = "ours" /\ COM1 \in ier /\ term.com = COM1

DataReadyInterrupt ==
  /\ Interrupts /\ rx # NoByte /\ Len(iq) < QMax
  /\ IF "DLAB" \in lcr[COM1]
     THEN iq' = Append(iq, Latched) /\ UNCHANGED rx
     ELSE iq' = Append(iq, rx) /\ rx' = NoByte
  /\ UNCHANGED <<term, chip, todo, ri, noise>>

(* A parity, framing or overrun error: the byte is thrown away.            *)
LineStatusInterrupt ==
  /\ noise /\ Interrupts /\ rx # NoByte /\ "DLAB" \notin lcr[COM1]
  /\ rx' = NoByte
  /\ UNCHANGED <<term, chip, todo, iq, ri, noise>>

(* The end of a ring: ri is what WAIT counts its bytes with.               *)
ModemStatusInterrupt ==
  /\ noise /\ Interrupts /\ ri' \in {0, 1} /\ ri' # ri
  /\ UNCHANGED <<term, chip, todo, rx, iq, noise>>

(* The host's next byte.                                                   *)
Arrive(b) == /\ rx = NoByte /\ rx' = b
             /\ UNCHANGED <<term, chip, todo, iq, ri, noise>>

receivechar == /\ iq # <<>> /\ iq' = Tail(iq)
               /\ UNCHANGED <<term, chip, todo, rx, noise>>
=============================================================================
