----------------------------- MODULE MCKernelIo -----------------------------
(***************************************************************************)
(* One run for the kernel's devices and what sits on them: the message     *)
(* ring, the keyboard with the line editor, the text screen, the shell's   *)
(* commands, and the network card with its stack.  Their states are        *)
(* disjoint, so a behaviour is one of a single part; the others stay as    *)
(* they start.                                                             *)
(*                                                                         *)
(* Console: a ring of three codes and lines of one character.  The view    *)
(* shows the ring from its head, since where in the array it starts does   *)
(* not matter; exploration stops where the handler has lapped the reader.  *)
(* Shell: the view leaves out the last output, which no step reads.        *)
(* Network: the view shows the rings of the card from their heads, and     *)
(* what was heard of a host only while the cache has it.                   *)
(***************************************************************************)
EXTENDS KMsg, KConsole, KScreen, KShell, KNet

VARIABLE part
vars == <<part, kmsgVars, consoleVars, screenVars, ksVars, netVars>>

Pending == [k \in 0 .. Len(queue) - 1 |-> scancode_buffer[(scancode_head + k) % RING]]

NetView == <<
  arrived, [k \in RxIndex |-> rx_ring[(rx_head + k) % RX_RING]],
  (rdh - rx_head) % RX_RING, (rdt - rx_head) % RX_RING, (tx_tail - tdh) % TX_RING,
  arp_cache, udp_sockets, ping_reply_received, ping,
  [h \in Hosts |-> IF \E i \in ArpIndex : arp_cache[i].ip = h THEN learned[h] ELSE NoHost]>>

View == <<part,
          CASE part = "kmsg" -> kmsgVars
            [] part = "console" -> <<Pending, (scancode_tail - scancode_head) % RING,
                 extended_prefix, shift_pressed, ctrl_pressed, sc, lineVars, queue, overrun>>
            [] part = "screen" -> screenVars
            [] part = "shell" -> <<current_dir, ks_tmp, ks_hung>>
            [] part = "net" -> NetView >>

Sound == ~overrun

\* One host changes its address, and there are more hosts than entries.
MCArpFrames ==
  { [type |-> "arp_request", ip |-> "h1", mac |-> "m1"],
    [type |-> "arp_reply",   ip |-> "h1", mac |-> "m2"],
    [type |-> "arp_reply",   ip |-> "h2", mac |-> "m1"],
    [type |-> "arp_reply",   ip |-> "h3", mac |-> "m1"] }

\* The shell: relative and absolute paths with "." and "..", every command, and
\* pipes with and without a blank before the '|'.
PathOf(a, c) == [abs |-> a, comps |-> c]
CmdOf(c, p, n, t, sp) == [c |-> c, p |-> p, n |-> n, text |-> t, space |-> sp]
FileX == PathOf(FALSE, <<"x">>)
FileY == PathOf(TRUE, <<"tmp", "y">>)
NullDev == PathOf(TRUE, <<"tmp", "..", "dev", ".", "null">>)
ProcSelf == PathOf(TRUE, <<"proc", "self">>)
Sideways == PathOf(FALSE, <<"x", "..", "y">>)
MCKsCd == {PathOf(FALSE, <<"..">>), PathOf(FALSE, <<"tmp">>), PathOf(FALSE, <<"x", ".">>), KsNoPath, ProcSelf}
MCKsPaths == MCKsCd \cup {FileX, FileY, NullDev, Sideways, PathOf(FALSE, <<"..", "x">>)}
MCKsLines ==
  {<<CmdOf("cd", p, 0, <<>>, FALSE)>> : p \in MCKsCd} \cup
  {<<CmdOf(c, p, 0, <<>>, FALSE)>> : c \in {"touch", "mkdir", "rm"}, p \in {FileX, FileY, KsNoPath}} \cup
  {<<CmdOf("write", p, 0, t, FALSE)>> : p \in {FileX, FileY}, t \in {<<>>, <<"a">>, <<"a", "nl", "b">>} } \cup
  {<<CmdOf(c, p, 1, <<"a">>, FALSE)>> : c \in {"pwd", "ls", "cat", "grep", "head", "tail", "wc"}, p \in {FileX, ProcSelf}} \cup
  {<<CmdOf("cat", NullDev, 0, <<>>, FALSE)>>, <<CmdOf("echo", KsNoPath, 0, <<"a">>, TRUE)>>, <<CmdOf("stat", Sideways, 0, <<>>, FALSE)>>} \cup
  {<<CmdOf(c, FileX, 0, <<"a">>, sp), CmdOf(d, KsNoPath, 1, <<"a">>, FALSE)>> : c \in {"cat", "pwd"}, d \in {"grep", "wc"}, sp \in BOOLEAN}

Init ==
  /\ part \in {"kmsg", "console", "screen", "shell", "net"}
  /\ KmsgInit /\ ConsoleInit /\ ScreenInit /\ KSInit /\ NetInit

Next ==
  /\ UNCHANGED part
  /\ \/ part = "kmsg" /\ KmsgNext /\ UNCHANGED <<consoleVars, screenVars, ksVars, netVars>>
     \/ part = "console" /\ ConsoleNext /\ UNCHANGED <<kmsgVars, screenVars, ksVars, netVars>>
     \/ part = "screen" /\ ScreenNext /\ UNCHANGED <<kmsgVars, consoleVars, ksVars, netVars>>
     \/ part = "shell" /\ KSNext /\ UNCHANGED <<kmsgVars, consoleVars, screenVars, netVars>>
     \/ part = "net" /\ NetNext /\ UNCHANGED <<kmsgVars, consoleVars, screenVars, ksVars>>

Spec == Init /\ [][Next]_vars

-----------------------------------------------------------------------------
(* The variables of kmsg.c, keyboard.c and the shell's editor keep their    *)
(* types; every index is inside its array.                                  *)
IoTypeOK ==
  /\ part = "kmsg" => KmsgTypeOK
  /\ part = "console" => ConsoleTypeOK

\* The shell's view of the files: where its paths lead, and what its filters
\* make of their texts (shell.c).
ShellSound == part = "shell" => PathsAgree /\ FiltersAgree
=============================================================================
