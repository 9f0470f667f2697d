---------------------------- MODULE SFishLine ----------------------------
(***************************************************************************)
(* The line editor of the fish shell (stage2/shell/fish_shell.c): the      *)
(* buffer fish_readline fills, its kill ring, the incremental search, tab  *)
(* completion and the history the arrow keys walk through.  A line is a    *)
(* sequence of characters, of which only the space is told apart.          *)
(*                                                                         *)
(* Two keys can leave the arrays: a completion is inserted without looking *)
(* at the size of the buffer, and KEY_DOWN on an empty history compares    *)
(* with 0 - 1.  What happens behind an array is not modelled: fl_overrun   *)
(* becomes TRUE and the editor takes no further step.                      *)
(***************************************************************************)
EXTENDS Integers, Sequences, SequencesExt

CONSTANTS FL_MAX,        \* FISH_MAX_CMD: the buffer, its final 0 included
          FL_KILL_MAX,   \* 255: what the kill ring holds
          FL_SEARCH_MAX, \* 63: what history_search_buf holds
          FL_SLOTS,      \* FISH_HISTORY_SLOTS
          FLChars,       \* the characters that are typed; " " is the space
          FLCommands,    \* fish_commands and the functions, in table order
          FLFiles,       \* the current directory: names, each with is_dir
          FL_COMPS       \* FISH_MAX_COMPLETIONS

Space == " "
ASSUME FLSizes ==
  /\ FL_MAX \in Nat \ {0, 1} /\ FL_KILL_MAX \in Nat /\ FL_SEARCH_MAX \in Nat
  /\ FL_SLOTS \in Nat \ {0} /\ FL_COMPS \in Nat
ASSUME FLWords ==
  /\ Space \in FLChars /\ FLCommands \in Seq(Seq(FLChars))
  /\ FLFiles \in Seq([name : Seq(FLChars), is_dir : BOOLEAN])

VARIABLES fl_buf,      \* buf[0 .. pos-1]
          fl_cursor,
          fl_kill,     \* kill_ring, or FLNone while kill_ring_valid = 0
          fl_search,   \* history_search_buf, or FLNone outside the mode
          fl_hist,     \* fish.history: every slot, the stale ones too
          fl_count,    \* fish.history_count
          fl_idx,      \* fish.history_idx
          fl_overrun,  \* a key has used memory behind an array
          fl_before    \* the line before the last kill, FLNone after any other edit

flVars == <<fl_buf, fl_cursor, fl_kill, fl_search, fl_hist, fl_count, fl_idx, fl_overrun, fl_before>>

FLNone == <<"none">>
FLSlots == 0 .. FL_SLOTS - 1

FLInit ==
  /\ fl_buf = <<>> /\ fl_cursor = 0 /\ fl_kill = FLNone /\ fl_search = FLNone
  /\ fl_hist = [s \in FLSlots |-> <<>>] /\ fl_count = 0 /\ fl_idx = 0
  /\ fl_overrun = FALSE /\ fl_before = FLNone

Left(n) == SubSeq(fl_buf, 1, n)
Right(n) == SubSeq(fl_buf, n + 1, Len(fl_buf))
Fitting(s, n) == SubSeq(s, 1, IF Len(s) < n THEN Len(s) ELSE n)

\* Where a walk to the left from the cursor stops: over spaces, then over a word.
Gaps(from, to) == {k \in from .. to : fl_buf[k] = Space}
Solids(from, to) == {k \in from .. to : fl_buf[k] # Space}
WordLeft == Max({0} \cup Gaps(1, Max({0} \cup Solids(1, fl_cursor))))

\* Over the rest of a word, then over spaces.
WordRight == LET end == {Len(fl_buf) + 1}
                 gap == Min(end \cup Gaps(fl_cursor + 1, Len(fl_buf)))
             IN  Min(end \cup Solids(gap, Len(fl_buf))) - 1

Edit(buf, cursor) == fl_buf' = buf /\ fl_cursor' = cursor /\ fl_before' = FLNone

\* The text from..to goes to the kill ring, as much as that holds, and leaves the line.
Kill(from, to) ==
  /\ fl_kill' = Fitting(SubSeq(fl_buf, from + 1, to), FL_KILL_MAX)
  /\ fl_buf' = Left(from) \o Right(to) /\ fl_cursor' = from
  /\ fl_before' = IF to - from <= FL_KILL_MAX THEN fl_buf ELSE FLNone
KeepHistory == UNCHANGED <<fl_hist, fl_count, fl_idx>>
KeepRing == UNCHANGED <<fl_kill, fl_search>>

----------------------------------------------------------------------------
\* fish_history_search: the newest entry that begins with the text.
Newest(prefix) ==
  LET hits == {i \in 0 .. fl_count - 1 : IsPrefix(prefix, fl_hist[i])}
  IN  IF hits = {} THEN FLNone ELSE fl_hist[CHOOSE i \in hits : \A j \in hits : j <= i]

\* A printable key: inserted when there is room, and in the search mode it also
\* goes to the search text while that has room.
typed(c) ==
  /\ IF Len(fl_buf) < FL_MAX - 1
     THEN Edit(Left(fl_cursor) \o <<c>> \o Right(fl_cursor), fl_cursor + 1)
     ELSE UNCHANGED <<fl_buf, fl_cursor, fl_before>>
  /\ fl_search' = IF fl_search # FLNone /\ Len(fl_search) < FL_SEARCH_MAX THEN Append(fl_search, c) ELSE fl_search
  /\ KeepHistory /\ UNCHANGED <<fl_kill, fl_overrun>>

key_backspace ==
  /\ fl_cursor > 0
  /\ Edit(Left(fl_cursor - 1) \o Right(fl_cursor), fl_cursor - 1)
  /\ KeepHistory /\ KeepRing /\ UNCHANGED fl_overrun

\* KEY_DELETE, and KEY_CTRL_D on a line that is not empty.
key_delete ==
  /\ fl_cursor < Len(fl_buf)
  /\ Edit(Left(fl_cursor) \o Right(fl_cursor + 1), fl_cursor)
  /\ KeepHistory /\ KeepRing /\ UNCHANGED fl_overrun

\* Home, End, the arrows and the word moves change the cursor only.
key_move ==
  /\ fl_cursor' \in ({0, Len(fl_buf), fl_cursor - 1, fl_cursor + 1, WordLeft, WordRight} \cap 0 .. Len(fl_buf))
  /\ fl_before' = IF fl_cursor' = fl_cursor THEN fl_before ELSE FLNone
  /\ KeepHistory /\ KeepRing /\ UNCHANGED <<fl_buf, fl_overrun>>

\* KEY_CTRL_U tests the length, not the cursor: at the start of a line it
\* empties the kill ring.
key_ctrl_u == Len(fl_buf) > 0 /\ Kill(0, fl_cursor) /\ KeepHistory /\ UNCHANGED <<fl_search, fl_overrun>>
key_ctrl_k == fl_cursor < Len(fl_buf) /\ Kill(fl_cursor, Len(fl_buf)) /\ KeepHistory /\ UNCHANGED <<fl_search, fl_overrun>>
key_ctrl_w == fl_cursor > 0 /\ Kill(WordLeft, fl_cursor) /\ KeepHistory /\ UNCHANGED <<fl_search, fl_overrun>>

key_ctrl_y ==
  /\ fl_kill \notin {FLNone, <<>>}
  /\ LET paste == Fitting(fl_kill, FL_MAX - 1 - Len(fl_buf))
     IN  Edit(Left(fl_cursor) \o paste \o Right(fl_cursor), fl_cursor + Len(paste))
  /\ KeepHistory /\ KeepRing /\ UNCHANGED fl_overrun

----------------------------------------------------------------------------
(***************************************************************************)
(* Completion.  The word starts after the last space before the cursor,    *)
(* but the text that is completed runs to the end of the line.             *)
(***************************************************************************)
WordStart == Max({0} \cup Gaps(1, fl_cursor))

FirstWord(line) == SubSeq(line, 1, Min({Len(line) + 1} \cup {k \in 1 .. Len(line) : line[k] = Space}) - 1)

\* What fish_complete looks through: commands and functions, then the words of
\* the history, then files, which get the directory in front of their names.
Offers ==
  [i \in DOMAIN FLCommands |-> [from |-> "command", name |-> FLCommands[i], word |-> FLCommands[i],
                                text |-> FLCommands[i], is_dir |-> FALSE]]
  \o [i \in 1 .. fl_count |-> [from |-> "history", name |-> fl_hist[i - 1], word |-> FirstWord(fl_hist[i - 1]),
                               text |-> FirstWord(fl_hist[i - 1]), is_dir |-> FALSE]]
  \o [i \in DOMAIN FLFiles |-> [from |-> "file", name |-> FLFiles[i].name, word |-> FLFiles[i].name, is_dir |-> FLFiles[i].is_dir,
                                text |-> <<"/">> \o FLFiles[i].name \o (IF FLFiles[i].is_dir THEN <<"/">> ELSE <<>>)]]

\* One round of its loops: a word of the history differs from the text; a line or
\* a name that is already there is skipped; the list ends at max_comps.
Complete(partial, cs, o) ==
  IF /\ Len(cs) < FL_COMPS /\ IsPrefix(partial, o.word)
     /\ o.from = "history" => o.word \notin {<<>>, partial}
     /\ o.from # "command" => \A i \in DOMAIN cs : cs[i].text # o.name
  THEN Append(cs, [text |-> o.text, is_dir |-> o.is_dir]) ELSE cs
fish_complete(partial) ==
  LET offers == Offers
      comps[k \in 0 .. Len(offers)] == IF k = 0 THEN <<>> ELSE Complete(partial, comps[k - 1], offers[k])
  IN  comps[Len(offers)]

\* As much of the first text as all the others begin with.
CommonPrefix(comps) ==
  LET text == comps[1].text
  IN  SubSeq(text, 1, Max({n \in 0 .. Len(text) : \A i \in DOMAIN comps : IsPrefix(SubSeq(text, 1, n), comps[i].text)}))

\* The text replaces the word up to the cursor.  A space follows the only
\* completion when the line has room; it is put at the end of the line while
\* the cursor moves by one.
Completed(text) == Left(WordStart) \o text \o Right(fl_cursor)
key_tab ==
  LET comps  == fish_complete(Right(WordStart))
      common == CommonPrefix(comps)
      line   == IF Len(comps) = 1 THEN Completed(comps[1].text) ELSE Completed(common)
      space  == Len(comps) = 1 /\ ~ comps[1].is_dir /\ Len(line) < FL_MAX - 1
  IN  /\ comps # <<>>
      /\ Len(comps) = 1 \/ Len(common) > fl_cursor - WordStart
      /\ IF Len(line) > FL_MAX - 1
         THEN fl_overrun' = TRUE /\ UNCHANGED <<fl_buf, fl_cursor, fl_before>>
         ELSE /\ Edit(IF space THEN Append(line, Space) ELSE line,
                      Len(line) - Len(Right(fl_cursor)) + (IF space THEN 1 ELSE 0))
              /\ UNCHANGED fl_overrun
      /\ KeepHistory /\ KeepRing

----------------------------------------------------------------------------
\* An entry is copied into the line; a slot that was never written is empty.
Recall(i) ==
  /\ fl_idx' = i
  /\ IF i \in FLSlots
     THEN LET line == Fitting(fl_hist[i], FL_MAX - 1) IN Edit(line, Len(line)) /\ UNCHANGED fl_overrun
     ELSE fl_overrun' = TRUE /\ UNCHANGED <<fl_buf, fl_cursor, fl_before>>

key_up == fl_idx > 0 /\ Recall(fl_idx - 1) /\ KeepRing /\ UNCHANGED <<fl_hist, fl_count>>

\* history_count is unsigned: with an empty history history_count - 1 is the
\* largest number and every index is below it.
key_down ==
  /\ IF fl_count = 0 \/ fl_idx < fl_count - 1
     THEN Recall(fl_idx + 1)
     ELSE fl_idx = fl_count - 1 /\ fl_idx' = fl_count /\ Edit(<<>>, 0) /\ UNCHANGED fl_overrun
  /\ KeepRing /\ UNCHANGED <<fl_hist, fl_count>>

\* KEY_CTRL_R enters the search mode, and leaves it with the newest match.
key_ctrl_r ==
  /\ fl_search' = IF fl_search = FLNone THEN <<>> ELSE FLNone
  /\ IF fl_search \in {FLNone, <<>>} \/ Newest(fl_search) = FLNone
     THEN UNCHANGED <<fl_buf, fl_cursor, fl_before>>
     ELSE LET line == Fitting(Newest(fl_search), FL_MAX - 1) IN Edit(line, Len(line))
  /\ KeepHistory /\ UNCHANGED <<fl_kill, fl_overrun>>

\* A new call of fish_readline starts with an empty line, no kill ring, no search.
NewLine == fl_buf' = <<>> /\ fl_cursor' = 0 /\ fl_kill' = FLNone /\ fl_search' = FLNone /\ fl_before' = FLNone

\* KEY_ENTER and the end of fish_run's loop: the line is remembered unless it is
\* empty, equals the last one or the table is full.
key_enter ==
  /\ IF fl_buf = <<>>
     THEN KeepHistory
     ELSE LET keep == fl_count < FL_SLOTS /\ (fl_count = 0 \/ fl_hist[fl_count - 1] # fl_buf)
          IN  /\ fl_hist' = IF keep THEN [fl_hist EXCEPT ![fl_count] = fl_buf] ELSE fl_hist
              /\ fl_count' = IF keep THEN fl_count + 1 ELSE fl_count
              /\ fl_idx' = fl_count'
  /\ NewLine /\ UNCHANGED fl_overrun

\* KEY_CTRL_C gives the line up; fish_run goes on without touching the history.
key_ctrl_c == fl_buf # <<>> /\ NewLine /\ KeepHistory /\ UNCHANGED fl_overrun

\* The commands history --clear and history --delete <index>, each a line of its
\* own that fish_run remembers afterwards when there is room.
Remember(count, hist, line) ==
  LET keep == count < FL_SLOTS /\ (count = 0 \/ hist[count - 1] # line)
  IN  /\ fl_hist' = IF keep THEN [hist EXCEPT ![count] = line] ELSE hist
      /\ fl_count' = IF keep THEN count + 1 ELSE count
      /\ fl_idx' = fl_count'
fish_history_clear == fl_buf = <<>> /\ Remember(0, fl_hist, <<"c">>) /\ NewLine /\ UNCHANGED fl_overrun
fish_history_delete(i) ==
  /\ fl_buf = <<>> /\ i < fl_count
  /\ Remember(fl_count - 1, [s \in FLSlots |-> IF s >= i /\ s + 1 < fl_count THEN fl_hist[s + 1] ELSE fl_hist[s]], <<"d">>)
  /\ NewLine /\ UNCHANGED fl_overrun

FLNext ==
  /\ ~ fl_overrun
  /\ \/ \E c \in FLChars : typed(c)
     \/ key_backspace \/ key_delete \/ key_move
     \/ key_ctrl_u \/ key_ctrl_k \/ key_ctrl_w \/ key_ctrl_y
     \/ key_tab \/ key_up \/ key_down \/ key_ctrl_r
     \/ key_enter \/ key_ctrl_c
     \/ fish_history_clear \/ \E i \in FLSlots : fish_history_delete(i)
FLSpec == FLInit /\ [][FLNext]_flVars

----------------------------------------------------------------------------
FLTypeOK ==
  /\ fl_buf \in Seq(FLChars \cup {"/", "c", "d"}) /\ Len(fl_buf) < FL_MAX
  /\ fl_cursor \in 0 .. Len(fl_buf)
  /\ fl_count \in 0 .. FL_SLOTS /\ fl_idx \in Nat /\ fl_overrun \in BOOLEAN

\* After Ctrl-U, Ctrl-K or Ctrl-W and nothing but that, the kill ring put back
\* at the cursor gives the line of before, when the ring was large enough.
YankRestores ==
  fl_before # FLNone => Left(fl_cursor) \o fl_kill \o Right(fl_cursor) = fl_before

\* The arrow keys never stand behind the entries that were written: an index
\* past history_count shows slots that hold nothing or what was cleared.
HistoryInside == fl_idx <= fl_count /\ ~ fl_overrun
=============================================================================
