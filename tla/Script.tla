------------------------------- MODULE Script -------------------------------
(***************************************************************************)
(* The control statements of the emulator's scripts (SCRIPT.C).  A script  *)
(* is a sequence of parsed lines; j is what execute_script keeps: the line *)
(* fgets reads next (pos, from 0), linenumber, which is meant to be the    *)
(* same, the loop pending and the result of the last IF.  The operators    *)
(* are the cases of its switch, after fgets and parse_command_line.        *)
(***************************************************************************)
EXTENDS Integers, Sequences, FiniteSetsExt

(* A line that is not understood has the command BADCOMMAND.               *)
parse_command_line(script, j) == script[j.pos + 1]

NewJob == [pos |-> 0, linenumber |-> 0, loopbegin |-> -1, loopcount |-> 0,
           loopcountmax |-> 0, iffail |-> FALSE, alarminterval |-> 0,
           starttime |-> 0]

(* iffail, loopcount and the alarm outlive a script.                       *)
Begun(j) == [j EXCEPT !.pos = 0, !.linenumber = 0, !.loopbegin = -1,
                      !.loopcountmax = 0]

(* The next line with one of the commands, or the end of the file.         *)
Ahead(script, j, commands) ==
  Min({i \in j.pos .. Len(script) - 1 : script[i + 1].cmd \in commands}
        \cup {Len(script)})

After(script, i) == IF i < Len(script) THEN i + 1 ELSE i

(* IF and ELSE do not count the line they stop at.                         *)
Skip(script, j, commands) ==
  LET i == Ahead(script, j, commands)
  IN  [j EXCEPT !.pos = After(script, i), !.linenumber = @ + i - j.pos]

LOOP(j, times) ==
  [j EXCEPT !.loopbegin = j.linenumber, !.loopcount = 0, !.loopcountmax = times]

EXITLOOP(script, j) ==
  LET end == After(script, Ahead(script, j, {"ENDLOOP"}))
  IN  IF j.loopbegin = -1 THEN j
      ELSE [j EXCEPT !.pos = end, !.linenumber = @ + end - j.pos]

(* The file is read again up to the line loopbegin; without a loop the     *)
(* search wraps around and meets the end of the file.                      *)
Jump(script, j) ==
  [j EXCEPT !.pos = IF j.loopbegin = -1 THEN Len(script) ELSE j.loopbegin + 1,
            !.linenumber = j.loopbegin - 1]

(* Written the way a count that begins at one would be.                    *)
ENDLOOPonce(script, j) ==
  LET t == [j EXCEPT !.loopcount = @ + 1]
  IN  IF j.loopcountmax = 0 THEN Jump(script, j)
      ELSE IF t.loopcount <= j.loopcountmax THEN Jump(script, t)
      ELSE [t EXCEPT !.loopbegin = -1]

ENDLOOP(script, j) ==
  LET t == [j EXCEPT !.loopcount = @ + 1]
  IN  IF j.loopcountmax = 0 THEN Jump(script, j)
      ELSE IF t.loopcount < j.loopcountmax THEN Jump(script, t)
      ELSE [t EXCEPT !.loopbegin = -1]

Distance(a, b) == IF a < b THEN b - a ELSE a - b

Fails(j, condition, now, connected) ==
  CASE condition = "ALARMRING" -> Distance(j.starttime, now) < j.alarminterval
    [] condition = "CONNECT"   -> ~connected
    [] OTHER                   -> j.iffail

IF_(script, j, condition, now, connected) ==
  LET fails == Fails(j, condition, now, connected)
      t == [j EXCEPT !.iffail = fails,
                     !.starttime = IF condition = "ALARMRING" /\ ~fails
                                   THEN now ELSE @]
  IN  IF fails THEN Skip(script, t, {"ELSE", "ENDIF"}) ELSE t

ELSE_(script, j) == IF j.iffail THEN j ELSE Skip(script, j, {"ENDIF"})

ALARM(j, ticks, now) == [j EXCEPT !.alarminterval = ticks, !.starttime = now]

(* The statements that only move j; the others leave it where it is.       *)
Executed(script, j, line, now, connected) ==
  CASE line.cmd = "LOOP"     -> LOOP(j, line.n)
    [] line.cmd = "EXITLOOP" -> EXITLOOP(script, j)
    [] line.cmd = "ENDLOOP"  -> ENDLOOP(script, j)
    [] line.cmd = "IF"       -> IF_(script, j, line.condition, now, connected)
    [] line.cmd = "ELSE"     -> ELSE_(script, j)
    [] line.cmd = "ALARM"    -> ALARM(j, line.n, now)
    [] OTHER                 -> j

(* One turn of the loop over the lines.                                    *)
Turn(script, j, now, connected) ==
  LET line == parse_command_line(script, j)
      t == Executed(script, [j EXCEPT !.pos = @ + 1], line, now, connected)
  IN  [t EXCEPT !.linenumber = @ + 1]
=============================================================================
