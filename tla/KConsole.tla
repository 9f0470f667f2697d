------------------------------ MODULE KConsole ------------------------------
(***************************************************************************)
(* Keyboard input: the interrupt handler and its ring of key codes         *)
(* (kernel/keyboard.c), and the line editor and command history of the     *)
(* shell that drains the ring (kernel/shell.c, shell_main).                *)
(*                                                                         *)
(* The handler runs between any two steps of the shell.  keyboard_getchar  *)
(* is two steps: the load of the code, and the advance of the head with    *)
(* the translation, which looks at the modifier keys as they are then.     *)
(* Characters are their ASCII codes, scan codes those of set 1; a few keys *)
(* stand for all.  The screen is left out.                                 *)
(*                                                                         *)
(* History variables: queue is the codes put in and not yet taken, until   *)
(* overrun records that the handler has lapped the reader; commands is     *)
(* every line that history_push stored.                                    *)
(***************************************************************************)
EXTENDS Integers, Sequences, SequencesExt

CONSTANTS RING,           \* size of scancode_buffer (the mask 0xFF, plus one)
          LINE_MAX,       \* last index of line_buffer
          HISTORY_SIZE,
          Keys,           \* make codes the user types
          ExtendedKeys,   \* make codes typed with the prefix
          MaxCommands     \* bound on the lines stored

ASSUME ConsoleAssumption ==
  RING \in Nat \ {0} /\ LINE_MAX \in Nat \ {0} /\ HISTORY_SIZE \in Nat \ {0}

KEY_BACKSPACE == 14
KEY_E         == 18
KEY_U         == 22
KEY_ENTER     == 28
KEY_LCTRL     == 29
KEY_A         == 30
KEY_H         == 35
KEY_K         == 37
KEY_LSHIFT    == 42
KEY_UP        == 72
KEY_DOWN      == 80
NUL == 0

\* The keys getchar returns untranslated.
Mapped == {KEY_UP, KEY_DOWN}

\* sc1_no_shift and sc1_shift
sc1_no_shift == [k \in {KEY_BACKSPACE, KEY_ENTER, KEY_LCTRL, KEY_LSHIFT,
                        KEY_A, KEY_E, KEY_H, KEY_K, KEY_U} |->
  CASE k = KEY_BACKSPACE -> 8 [] k = KEY_ENTER -> 10
    [] k = KEY_A -> 97 [] k = KEY_E -> 101 [] k = KEY_H -> 104
    [] k = KEY_K -> 107 [] k = KEY_U -> 117 [] OTHER -> NUL]
sc1_shift == [k \in DOMAIN sc1_no_shift |->
  IF sc1_no_shift[k] \in 97 .. 122 THEN sc1_no_shift[k] - 32 ELSE sc1_no_shift[k]]

Index == 0 .. RING - 1

VARIABLES scancode_buffer, scancode_head, scancode_tail,
          extended_prefix, shift_pressed, ctrl_pressed,
          sc,             \* the code getchar has loaded, or -1
          line_buffer, line_pos,
          history_buf, history_len, history_idx,
          queue, overrun, commands

keyVars  == <<scancode_buffer, scancode_tail, extended_prefix, shift_pressed, ctrl_pressed>>
lineVars == <<line_buffer, line_pos, history_buf, history_len, history_idx, commands>>
consoleVars == <<keyVars, scancode_head, sc, lineVars, queue, overrun>>

ConsoleInit ==
  /\ scancode_buffer = [i \in Index |-> 0]
  /\ scancode_head = 0 /\ scancode_tail = 0
  /\ extended_prefix = FALSE /\ shift_pressed = FALSE /\ ctrl_pressed = FALSE
  /\ sc = -1
  /\ line_buffer = [i \in 0 .. LINE_MAX |-> NUL] /\ line_pos = 0
  /\ history_buf = [i \in 0 .. HISTORY_SIZE - 1 |-> <<>>]
  /\ history_len = 0 /\ history_idx = 0
  /\ queue = <<>> /\ overrun = FALSE /\ commands = <<>>

-----------------------------------------------------------------------------
(* keyboard_handler *)
Wrap(i) == IF i = RING - 1 THEN 0 ELSE i + 1

\* The code is stored without a test for a full ring.
Put(code) ==
  /\ scancode_buffer' = [scancode_buffer EXCEPT ![scancode_tail] = code]
  /\ scancode_tail' = Wrap(scancode_tail)
  /\ overrun' = (overrun \/ Wrap(scancode_tail) = scancode_head)
  /\ queue' = IF overrun' THEN <<>> ELSE Append(queue, code)

EditorVars == <<scancode_head, sc, lineVars>>

handler_prefix ==
  /\ ~extended_prefix
  /\ extended_prefix' = TRUE
  /\ UNCHANGED <<scancode_buffer, scancode_tail, shift_pressed, ctrl_pressed, queue, overrun, EditorVars>>

\* The code after the prefix: a release is dropped, a press is mapped.
handler_extended(key) ==
  /\ extended_prefix
  /\ extended_prefix' = FALSE
  /\ \/ Put(key)
     \/ UNCHANGED <<scancode_buffer, scancode_tail, queue, overrun>>
  /\ UNCHANGED <<shift_pressed, ctrl_pressed, EditorVars>>

handler_press(key) ==
  /\ ~extended_prefix
  /\ shift_pressed' = (shift_pressed \/ key = KEY_LSHIFT)
  /\ ctrl_pressed' = (ctrl_pressed \/ key = KEY_LCTRL)
  /\ Put(key)
  /\ UNCHANGED <<extended_prefix, EditorVars>>

handler_release(key) ==
  /\ ~extended_prefix
  /\ shift_pressed' = (shift_pressed /\ key # KEY_LSHIFT)
  /\ ctrl_pressed' = (ctrl_pressed /\ key # KEY_LCTRL)
  /\ UNCHANGED <<scancode_buffer, scancode_tail, extended_prefix, queue, overrun, EditorVars>>

keyboard_handler ==
  \/ handler_prefix
  \/ \E key \in ExtendedKeys : handler_extended(key)
  \/ \E key \in Keys : handler_press(key) \/ handler_release(key)

-----------------------------------------------------------------------------
(* keyboard_getchar *)
getchar_load ==
  /\ sc = -1 /\ scancode_head # scancode_tail
  /\ sc' = scancode_buffer[scancode_head]
  /\ UNCHANGED <<keyVars, scancode_head, lineVars, queue, overrun>>

Translate(code) ==
  LET c == IF shift_pressed THEN sc1_shift[code] ELSE sc1_no_shift[code]
  IN  IF code \in Mapped THEN code
      ELSE IF ctrl_pressed /\ c \in 97 .. 122 THEN c - 97 + 1 ELSE c

-----------------------------------------------------------------------------
(* The line editor.  strlen and strcpy on line_buffer: *)
StrLen(buf) == CHOOSE n \in 0 .. LINE_MAX : buf[n] = NUL /\ \A i \in 0 .. n - 1 : buf[i] # NUL
String(buf) == [i \in 1 .. StrLen(buf) |-> buf[i - 1]]
StrCpy(s) == [i \in 0 .. LINE_MAX |-> IF i < Len(s) THEN s[i + 1]
                                      ELSE IF i = Len(s) THEN NUL ELSE line_buffer[i]]

SameLine == UNCHANGED <<history_buf, history_len, history_idx, commands>>

\* Mutant: every line goes to the same place of the ring.
history_push_first(line) ==
  IF line = <<>> THEN UNCHANGED <<history_buf, history_len, commands>>
  ELSE /\ history_buf' = [history_buf EXCEPT ![0] = line]
       /\ history_len' = history_len + 1
       /\ commands' = Append(commands, line)

\* history_push: empty lines and repetitions of the last line are not stored.
history_push(line) ==
  IF line = <<>> \/ (history_len > 0 /\ history_buf[(history_len - 1) % HISTORY_SIZE] = line)
  THEN UNCHANGED <<history_buf, history_len, commands>>
  ELSE /\ history_buf' = [history_buf EXCEPT ![history_len % HISTORY_SIZE] = line]
       /\ history_len' = history_len + 1
       /\ commands' = Append(commands, line)

\* Enter: the line ends at the cursor, is stored and executed, and a new one
\* begins.
enter ==
  LET cut == [line_buffer EXCEPT ![line_pos] = NUL]
  IN /\ history_len < MaxCommands
     /\ history_push(String(cut))
     /\ line_buffer' = [cut EXCEPT ![0] = NUL]
     /\ line_pos' = 0
     /\ history_idx' = history_len'

backspace ==
  /\ line_pos' = IF line_pos > 0 THEN line_pos - 1 ELSE 0
  /\ line_buffer' = IF line_pos > 0 THEN [line_buffer EXCEPT ![line_pos - 1] = NUL] ELSE line_buffer
  /\ SameLine

\* Ctrl+A moves to the start and leaves the text.
ctrl_a == line_pos' = 0 /\ UNCHANGED line_buffer /\ SameLine

\* Ctrl+E moves to the terminator.
ctrl_e == line_pos' = StrLen(line_buffer) /\ UNCHANGED line_buffer /\ SameLine

\* Ctrl+U overwrites the text before the cursor and empties the line.
ctrl_u ==
  /\ line_buffer' = [i \in 0 .. LINE_MAX |-> IF i = 0 THEN NUL
                                             ELSE IF i < line_pos THEN 32 ELSE line_buffer[i]]
  /\ line_pos' = 0
  /\ SameLine

\* Ctrl+K ends the line at the cursor.
ctrl_k == line_buffer' = [line_buffer EXCEPT ![line_pos] = NUL] /\ UNCHANGED line_pos /\ SameLine

\* history_up steps back, history_down forward or past the newest entry.
history_up == history_idx' = IF history_idx > 0 THEN history_idx - 1 ELSE 0
history_down == history_idx' = IF history_idx < history_len - 1 THEN history_idx + 1 ELSE history_len
\* The line becomes the entry.
Recalled ==
  /\ line_buffer' = StrCpy(history_buf[history_idx' % HISTORY_SIZE])
  /\ line_pos' = Len(history_buf[history_idx' % HISTORY_SIZE])

\* Up: nothing happens without an entry.
up ==
  IF history_len = 0 THEN UNCHANGED lineVars
  ELSE history_up /\ Recalled /\ UNCHANGED <<history_buf, history_len, commands>>

\* Down: the next entry, or an empty line after the newest.
down ==
  /\ history_down
  /\ \/ history_idx < history_len - 1 /\ Recalled
     \/ /\ history_idx >= history_len - 1
        /\ line_buffer' = [line_buffer EXCEPT ![0] = NUL]
        /\ line_pos' = 0
  /\ UNCHANGED <<history_buf, history_len, commands>>

\* Mutant: the limit is the size of the buffer.
insert_overflow(c) ==
  /\ IF line_pos > LINE_MAX THEN UNCHANGED <<line_buffer, line_pos>>
     ELSE /\ line_buffer' = [i \in 0 .. LINE_MAX |-> IF i = line_pos THEN c
                                                     ELSE IF i = line_pos + 1 THEN NUL
                                                     ELSE line_buffer[i]]
          /\ line_pos' = line_pos + 1
  /\ SameLine

\* A printable character replaces the rest of the line.
insert(c) ==
  /\ IF line_pos >= LINE_MAX THEN UNCHANGED <<line_buffer, line_pos>>
     ELSE /\ line_buffer' = [line_buffer EXCEPT ![line_pos] = c, ![line_pos + 1] = NUL]
          /\ line_pos' = line_pos + 1
  /\ SameLine

\* shell_main's dispatch on the character; other control characters do nothing.
Edit(c) ==
  \/ c = 10 /\ enter
  \/ c = 8 /\ backspace
  \/ c = 1 /\ ctrl_a
  \/ c = 5 /\ ctrl_e
  \/ c = 11 /\ ctrl_k
  \/ c = 21 /\ ctrl_u
  \/ c = KEY_UP /\ up
  \/ c = KEY_DOWN /\ down
  \/ c \in 32 .. 126 \ {KEY_UP, KEY_DOWN} /\ insert(c)
  \/ c \notin {1, 5, 8, 10, 11, 21} \cup 32 .. 126 /\ UNCHANGED lineVars

\* Mutant: the head is advanced twice when a modifier is down.
getchar_skips ==
  /\ sc # -1
  /\ scancode_head' = IF ctrl_pressed THEN Wrap(Wrap(scancode_head)) ELSE Wrap(scancode_head)
  /\ sc' = -1
  /\ Edit(Translate(sc))
  /\ queue' = IF queue = <<>> THEN <<>> ELSE Tail(queue)
  /\ UNCHANGED <<keyVars, overrun>>

\* The rest of getchar, and what the shell does with the character.
getchar_deliver ==
  /\ sc # -1
  /\ scancode_head' = Wrap(scancode_head)
  /\ sc' = -1
  /\ Edit(Translate(sc))
  /\ queue' = IF queue = <<>> THEN <<>> ELSE Tail(queue)
  /\ UNCHANGED <<keyVars, overrun>>

ConsoleNext == keyboard_handler \/ getchar_load \/ getchar_deliver

ConsoleSpec == ConsoleInit /\ [][ConsoleNext]_consoleVars

-----------------------------------------------------------------------------
ConsoleTypeOK ==
  /\ scancode_head \in Index /\ scancode_tail \in Index
  /\ line_pos \in 0 .. LINE_MAX
  /\ history_idx \in 0 .. history_len

(***************************************************************************)
(* Until the handler laps the reader, the ring from head to tail is the    *)
(* queue of keys typed and not read, in order, and the code getchar has    *)
(* loaded is the oldest: nothing is lost, repeated or overwritten by       *)
(* interrupts inside getchar.                                              *)
(***************************************************************************)
RingIsQueue ==
  ~overrun =>
    /\ Len(queue) < RING
    /\ scancode_tail = (scancode_head + Len(queue)) % RING
    /\ \A i \in 1 .. Len(queue) : scancode_buffer[(scancode_head + i - 1) % RING] = queue[i]
    /\ sc # -1 => queue # <<>> /\ sc = queue[1]

(***************************************************************************)
(* The cursor never stands behind the terminating zero of line_buffer, so  *)
(* the editing keys never make text appear that was deleted or recalled    *)
(* before, and the buffer always has a terminator.                         *)
(***************************************************************************)
CursorInLine ==
  /\ \E n \in 0 .. LINE_MAX : line_buffer[n] = NUL
  /\ \A n \in 0 .. line_pos - 1 : line_buffer[n] # NUL

(***************************************************************************)
(* The history keeps the last HISTORY_SIZE commands in order: the entry    *)
(* Up and Down show for an index in that range is the command of that      *)
(* number.                                                                 *)
(***************************************************************************)
HistoryNewest ==
  \A i \in 1 .. history_len : i > history_len - HISTORY_SIZE =>
    history_buf[(i - 1) % HISTORY_SIZE] = commands[i]

(***************************************************************************)
(* The line editor keeps its cursor inside the line and its history on the *)
(* newest commands under any sequence of keys.                             *)
(***************************************************************************)
LineEditorSound == CursorInLine /\ HistoryNewest
=============================================================================
