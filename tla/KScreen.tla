------------------------------- MODULE KScreen ------------------------------
(***************************************************************************)
(* The text screen of the kernel (kernel/console.c) and the hook that      *)
(* takes its output away: a pipe of the shell, which drops what does not   *)
(* fit.  A character is the glyph "a" or a control character.              *)
(*                                                                         *)
(* History variable: page, every row written since the screen was cleared. *)
(***************************************************************************)
EXTENDS Integers, Sequences, SequencesExt

CONSTANTS VGA_WIDTH, VGA_HEIGHT,
          TAB_WIDTH,       \* 8 in the code
          PIPE_BUF_SIZE,   \* of the shell
          MaxRows          \* bound on the rows written

ASSUME ScreenAssumption ==
  /\ VGA_WIDTH \in Nat \ {0} /\ VGA_HEIGHT \in Nat \ {0}
  /\ TAB_WIDTH \in Nat \ {0} /\ PIPE_BUF_SIZE \in Nat \ {0}

VARIABLES video_mem,       \* rows of glyphs, from the top
          cursor_x, cursor_y,
          redirect_hook,   \* is the pipe's writer installed
          pipe_buffer_len,
          page
screenVars == <<video_mem, cursor_x, cursor_y, redirect_hook, pipe_buffer_len, page>>

Blank == [x \in 0 .. VGA_WIDTH - 1 |-> " "]
Cleared == [y \in 0 .. VGA_HEIGHT - 1 |-> Blank]

ScreenInit ==
  /\ video_mem = Cleared /\ cursor_x = 0 /\ cursor_y = 0
  /\ redirect_hook = FALSE /\ pipe_buffer_len = 0
  /\ page = <<Blank>>

----------------------------------------------------------------------------
(* s = [mem, x, y] is the screen between the steps of a call.               *)

\* Mutant: the last row keeps what it held.
scroll_copies(s) ==
  IF s.y < VGA_HEIGHT THEN s
  ELSE [s EXCEPT !.mem = [y \in DOMAIN s.mem |-> IF y + 1 < VGA_HEIGHT THEN s.mem[y + 1] ELSE s.mem[y]], !.y = VGA_HEIGHT - 1]

\* scroll: up by the rows that the cursor is too low.
scroll(s) ==
  LET lines == s.y - VGA_HEIGHT + 1
  IN  IF s.y < VGA_HEIGHT THEN s
      ELSE [s EXCEPT !.mem = [y \in DOMAIN s.mem |-> IF y + lines < VGA_HEIGHT THEN s.mem[y + lines] ELSE Blank],
                     !.y = VGA_HEIGHT - 1]

\* What a character does before the cursor is brought back into the screen.
Written(s, c) ==
  CASE c = "nl" -> [s EXCEPT !.x = 0, !.y = @ + 1]
    [] c = "cr" -> [s EXCEPT !.x = 0]
    [] c = "tab" -> [s EXCEPT !.x = ((@ + TAB_WIDTH) \div TAB_WIDTH) * TAB_WIDTH]
    [] c = "bs" -> IF s.x = 0 THEN s ELSE [s EXCEPT !.x = @ - 1, !.mem[s.y][s.x - 1] = " "]
    [] OTHER -> [s EXCEPT !.mem[s.y][s.x] = c, !.x = @ + 1]

Wrapped(s) == IF s.x >= VGA_WIDTH THEN [s EXCEPT !.x = 0, !.y = @ + 1] ELSE s

\* shell_pipe_writer: takes every character, keeps what fits.
shell_pipe_writer(n) == IF n < PIPE_BUF_SIZE - 1 THEN n + 1 ELSE n

\* console_putc: the hook has the character, or the screen and the page have it.
console_putc(c) ==
  LET screen == scroll(Wrapped(Written([mem |-> video_mem, x |-> cursor_x, y |-> cursor_y], c)))
      paper  == Wrapped(Written([mem |-> page, x |-> cursor_x, y |-> Len(page)], c))
  IN  /\ IF redirect_hook
         THEN /\ pipe_buffer_len' = shell_pipe_writer(pipe_buffer_len)
              /\ UNCHANGED <<video_mem, cursor_x, cursor_y, page>>
         ELSE /\ paper.y <= MaxRows
              /\ video_mem' = screen.mem /\ cursor_x' = screen.x /\ cursor_y' = screen.y
              /\ page' = IF paper.y > Len(page) THEN Append(paper.mem, Blank) ELSE paper.mem
              /\ UNCHANGED pipe_buffer_len
      /\ UNCHANGED redirect_hook

\* console_clear does not ask the hook.
console_clear ==
  /\ video_mem' = Cleared /\ cursor_x' = 0 /\ cursor_y' = 0 /\ page' = <<Blank>>
  /\ UNCHANGED <<redirect_hook, pipe_buffer_len>>

\* process_command, around the command before the '|'.
pipe_begin ==
  /\ ~redirect_hook /\ redirect_hook' = TRUE /\ pipe_buffer_len' = 0
  /\ UNCHANGED <<video_mem, cursor_x, cursor_y, page>>
pipe_end ==
  /\ redirect_hook /\ redirect_hook' = FALSE
  /\ UNCHANGED <<video_mem, cursor_x, cursor_y, pipe_buffer_len, page>>

ScreenNext ==
  \/ \E c \in {"a", "nl", "cr", "tab", "bs"} : console_putc(c)
  \/ console_clear \/ pipe_begin \/ pipe_end

ScreenSpec == ScreenInit /\ [][ScreenNext]_screenVars

----------------------------------------------------------------------------
(***************************************************************************)
(* The screen shows the last rows that were written, and the cursor is in  *)
(* the last of them: no character at a margin wraps, scrolls or wipes in a *)
(* way that loses or doubles a row (console.c), and none goes to the       *)
(* screen while a pipe takes the output.                                   *)
(***************************************************************************)
ScreenShowsNewest ==
  /\ cursor_x \in 0 .. VGA_WIDTH - 1 /\ pipe_buffer_len < PIPE_BUF_SIZE
  /\ LET hidden == IF Len(page) > VGA_HEIGHT THEN Len(page) - VGA_HEIGHT ELSE 0
     IN /\ cursor_y = Len(page) - hidden - 1
        /\ \A y \in 0 .. VGA_HEIGHT - 1 :
             video_mem[y] = IF y + hidden < Len(page) THEN page[y + hidden + 1] ELSE Blank
=============================================================================
