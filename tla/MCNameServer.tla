---------------------------- MODULE MCNameServer ----------------------------
(***************************************************************************)
(* Three names, the least that has a middle, and one node more: reg is     *)
(* given a node before it refuses.  Two clients run at a time: one that    *)
(* registers, deletes and enquires any name, one that modifies name 2 or   *)
(* gives a command the server does not know.                               *)
(***************************************************************************)
EXTENDS NameServer

MCNames     == 1 .. 3
MCAddresses == {"here", "there"}
MCNodes     == 1 .. 4
MCClients   == 1 .. 2

Message(command, name, address) ==
  [command |-> command, name |-> name, address |-> address]

MCMessages ==
  <<{m \in Request : m.command \in {"REGISTER", "ENQUIRE", "DELETE"}
                       /\ m.address \in {Empty, "here"}},
    {Message("MODIFY", 2, "there"), Message("OTHER", 1, Empty)}>>
=============================================================================
