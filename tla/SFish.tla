------------------------------ MODULE SFish ------------------------------
(***************************************************************************)
(* The session of the fish shell (stage2/shell/fish_shell.c): the tables   *)
(* of variables, abbreviations, functions and events, the dispatcher that  *)
(* runs a command and calls itself for conditions, functions, sourced      *)
(* files and substitutions, and the loop of fish_run around it.            *)
(*                                                                         *)
(* A word is an atom.  FSVarOf gives the variable a word "$x" names, and   *)
(* FSSubOf the command a word "$(...)" holds.  A line is a sequence of     *)
(* pipe segments, each a sequence of words.  The C stack is fs_stack, one  *)
(* frame for each call of fish_dispatch that waits for another one.        *)
(***************************************************************************)
EXTENDS SFishLine, FiniteSets, TLC

CONSTANTS FS_MAX_VARS, FS_MAX_ABBREVS, FS_MAX_FUNCS, FS_MAX_EVENTS,
          FS_PATH_DEPTH,   \* 16: the components fish_normalize_path keeps
          FS_DIR_STACK,    \* FISH_DIR_STACK_SIZE
          FSLines,         \* the lines typed at the prompt
          FSAnswers,       \* the lines typed for read
          FSVarOf, FSSubOf, \* words that are expanded
          FSStored,        \* what a table keeps of a name: names are cut at the field
          FSFile,          \* the commands in the files that are sourced
          FSPath,          \* the components of the words used as paths
          FSDirs,          \* the directories of the file system, as components
          FSBodies         \* what fish_func_add can find as a body, see Garbage

\* The tables hold at least what fish_init puts into them.
ASSUME FSBounds ==
  /\ {FS_MAX_VARS, FS_MAX_ABBREVS} \subseteq Nat \ {0}
  /\ {FS_MAX_FUNCS, FS_MAX_EVENTS, FS_PATH_DEPTH, FS_DIR_STACK} \subseteq Nat
ASSUME FSPlaces ==
  /\ \A text \in DOMAIN FSPath : FSPath[text] \in [abs : BOOLEAN, comps : Seq(STRING)]
  /\ FSDirs \subseteq Seq(STRING)

VARIABLES fs_vars, fs_abbrevs, fs_funcs, fs_events,
          fs_last_status, fs_break,     \* break_requested or continue_requested
          fs_current_func, fs_cwd, fs_dirs,
          fs_running,
          fs_stack, fs_ret              \* the waiting calls; the status being returned

fsTables == <<fs_vars, fs_abbrevs, fs_funcs, fs_events>>
fsVars == <<fsTables, fs_last_status, fs_break, fs_current_func, fs_cwd, fs_dirs, fs_running, fs_stack, fs_ret>>

NoRet == -999   \* no status is being returned
NoText == ""
Stored(name) == IF name \in DOMAIN FSStored THEN FSStored[name] ELSE name
Find(table, name) == SelectInSeq(table, LAMBDA e : e.name = name)
Without(table, name) == IF Find(table, name) = 0 THEN table ELSE RemoveAt(table, Find(table, name))
fish_func_erase(name) == Without(fs_funcs, name)
fish_func_find(name) == Find(fs_funcs, name)

\* fish_init: the default variables and abbreviations (one of each).
FSInit ==
  /\ fs_vars = <<[name |-> "status", value |-> ToString(0), exported |-> FALSE, scope |-> "GLOBAL"]>>
  /\ fs_abbrevs = <<[name |-> "c", expansion |-> "cat"]>>
  /\ fs_funcs = <<>> /\ fs_events = <<>>
  /\ fs_last_status = 0 /\ fs_break = FALSE /\ fs_current_func = NoText
  /\ fs_cwd = <<>> /\ fs_dirs = <<>>
  /\ fs_running = TRUE /\ fs_stack = <<>> /\ fs_ret = NoRet

----------------------------------------------------------------------------
(***************************************************************************)
(* The tables.  Every change searches the full name but stores a cut one.  *)
(***************************************************************************)
fish_var_set(vars, name, value) ==
  LET i == Find(vars, name)
  IN  IF i # 0 THEN [vars EXCEPT ![i].value = value]
      ELSE IF Len(vars) >= FS_MAX_VARS THEN vars
      ELSE Append(vars, [name |-> Stored(name), value |-> value, exported |-> FALSE, scope |-> "GLOBAL"])

fish_var_set_scope(vars, name, value, scope) ==
  LET i == Find(vars, name)
  IN  IF i # 0 THEN [vars EXCEPT ![i].value = value, ![i].scope = scope,
                                 ![i].exported = @ \/ scope = "EXPORT"]
      ELSE IF Len(vars) >= FS_MAX_VARS THEN vars
      ELSE Append(vars, [name |-> Stored(name), value |-> value, exported |-> scope = "EXPORT", scope |-> scope])

fish_var_get(name) == IF Find(fs_vars, name) = 0 THEN NoText ELSE fs_vars[Find(fs_vars, name)].value

\* export NAME=value, and export NAME, which keeps the scope.
fish_cmd_export(vars, name, value) ==
  LET set == IF value = NoText THEN vars ELSE fish_var_set(vars, name, value)
      i   == Find(set, name)
  IN  IF i = 0 THEN set
      ELSE [set EXCEPT ![i].exported = TRUE, ![i].scope = IF value = NoText THEN @ ELSE "EXPORT"]

\* The limit is tested before the search: a full table refuses updates too.
fish_abbrev_add(name, expansion) ==
  LET i == Find(fs_abbrevs, name)
  IN  IF Len(fs_abbrevs) >= FS_MAX_ABBREVS THEN fs_abbrevs
      ELSE IF i # 0 THEN [fs_abbrevs EXCEPT ![i].expansion = expansion]
      ELSE Append(fs_abbrevs, [name |-> Stored(name), expansion |-> expansion])

fish_func_add(name, lines) ==
  LET i == fish_func_find(name)
  IN  IF Len(fs_funcs) >= FS_MAX_FUNCS THEN fs_funcs
      ELSE IF i # 0 THEN [fs_funcs EXCEPT ![i].lines = lines]
      ELSE Append(fs_funcs, [name |-> Stored(name), lines |-> lines])

----------------------------------------------------------------------------
(***************************************************************************)
(* fish_normalize_path leaves its loop only when it has stored 16          *)
(* components: at the end of the path the index no longer moves.           *)
(***************************************************************************)
Deeper(stack, c) == IF c = "." \/ Len(stack) >= FS_PATH_DEPTH THEN stack
                    ELSE IF c = ".." THEN (IF stack = <<>> THEN stack ELSE Front(stack))
                    ELSE Append(stack, c)
Depths(path) == LET stack[k \in 0 .. Len(path)] == IF k = 0 THEN <<>> ELSE Deeper(stack[k - 1], path[k])
                IN  stack[Len(path)]
NormalizeEnds(path) == \E n \in 0 .. Len(path) : Len(Depths(SubSeq(path, 1, n))) >= FS_PATH_DEPTH
\* cd and realpath put a relative path behind the current directory with no
\* slash between them: the last component and the first one become one.
FullPath(p) ==
  IF p.abs \/ fs_cwd = <<>> THEN p.comps
  ELSE IF p.comps = <<>> THEN fs_cwd
  ELSE Front(fs_cwd) \o <<Last(fs_cwd) \o Head(p.comps)>> \o Tail(p.comps)

----------------------------------------------------------------------------
Frame(kind, args, n) == [kind |-> kind, args |-> args, n |-> n, prev |-> fs_current_func, status |-> 0]
Top == Last(fs_stack)
Below == Front(fs_stack)
Return(status) == fs_stack' = Below /\ fs_ret' = status
Call(frame, args) == fs_stack' = Below \o <<frame, Frame("cmd", args, 1)>> /\ fs_ret' = NoRet
Becomes(args) == fs_stack' = Append(Below, Frame("cmd", args, 1)) /\ fs_ret' = NoRet
Hang == fs_stack' = Append(Below, Frame("hang", <<>>, 0)) /\ fs_ret' = NoRet

KeepTables == UNCHANGED fsTables
KeepSession == UNCHANGED <<fs_last_status, fs_current_func, fs_running>>
KeepPlace == UNCHANGED <<fs_cwd, fs_dirs>>

\* fish_expand_vars on the words, one after the other: "$status" is the status
\* of the last line, other names are looked up, and a substitution runs its
\* command first and then stands for the variable status, not for its output.
fish_expand_vars ==
  /\ Top.kind = "cmd" /\ Top.n <= Len(Top.args)
  /\ LET w == Top.args[Top.n]
         value == IF w \notin DOMAIN FSVarOf THEN w
                  ELSE IF FSVarOf[w] = "status" THEN ToString(fs_last_status) ELSE fish_var_get(FSVarOf[w])
     IN  IF w \in DOMAIN FSSubOf
         THEN Call([Top EXCEPT !.kind = "subst"], FSSubOf[w])
         ELSE fs_stack' = Append(Below, [Top EXCEPT !.args[Top.n] = value, !.n = @ + 1]) /\ fs_ret' = NoRet
  /\ KeepTables /\ KeepSession /\ KeepPlace /\ UNCHANGED fs_break

\* Words are expanded: the first one may be an abbreviation, whose whole text
\* becomes the name of the command.
Ready == Top.kind = "cmd" /\ Top.n > Len(Top.args)
Expanded == LET i == Find(fs_abbrevs, Top.args[1])
            IN  IF i = 0 THEN Top.args ELSE [Top.args EXCEPT ![1] = fs_abbrevs[i].expansion]
Name == Expanded[1]
Arg(i) == IF i <= Len(Expanded) THEN Expanded[i] ELSE NoText
Argc == Len(Expanded)
Atoi(w) == IF \E n \in 0 .. 255 : w = ToString(n) THEN CHOOSE n \in 0 .. 255 : w = ToString(n) ELSE 0
Rest == SubSeq(Expanded, 2, Argc)

----------------------------------------------------------------------------
(***************************************************************************)
(* Control flow.  Blocks are not collected: if and while run their         *)
(* condition, for assigns its first value, and else, case, begin and end   *)
(* do nothing.                                                             *)
(***************************************************************************)
UpTo(words, stops) == SubSeq(words, 1, SelectInSeq(Append(words, "end of line"), LAMBDA w : w \in stops \cup {"end of line"}) - 1)
\* The words of a condition: a line of nothing but "then" is one itself.
Words == IF Name = "while" THEN UpTo(Rest, {"do", ";"})
         ELSE IF Name = "if" /\ UpTo(Rest, {"then"}) # <<>> THEN UpTo(Rest, {"then"}) ELSE Rest
dispatch_control ==
  /\ Name \in {"if", "while", "not", "for", "switch", "break", "continue", "else", "case", "begin", "end"}
  /\ \/ /\ Name \in {"if", "while", "not"}
        /\ IF Argc < 2 THEN Return(1) ELSE IF Words = <<>> THEN Return(0) ELSE Call(Frame(Name, <<>>, 0), Words)
        /\ UNCHANGED <<fs_vars, fs_break>>
     \/ /\ Name \in {"for", "switch"}
        /\ fs_vars' = IF Name = "for" /\ Argc >= 4 /\ Arg(3) = "in" THEN fish_var_set(fs_vars, Arg(2), Arg(4))
                      ELSE IF Name = "switch" /\ Argc >= 2 THEN fish_var_set(fs_vars, "__switch_value__", Arg(2))
                      ELSE fs_vars
        /\ Return(IF (Name = "for" /\ (Argc < 4 \/ Arg(3) # "in")) \/ Argc < 2 THEN 1 ELSE 0)
        /\ UNCHANGED fs_break
     \/ /\ Name \in {"break", "continue", "else", "case", "begin", "end"}
        /\ fs_break' = (fs_break \/ Name \in {"break", "continue"})
        /\ Return(0) /\ UNCHANGED fs_vars
  /\ KeepSession /\ KeepPlace /\ UNCHANGED <<fs_abbrevs, fs_funcs, fs_events>>

(***************************************************************************)
(* function NAME BODY: the lines are an array of characters that is handed *)
(* over as an array of pointers, so what is copied as the body is whatever *)
(* lies at addresses made of the text.                                     *)
(***************************************************************************)
dispatch_function ==
  /\ Name = "function"
  /\ IF Argc < 2 THEN Return(1) /\ UNCHANGED fs_funcs
     ELSE /\ \E body \in (IF Argc = 2 THEN {<<>>} ELSE FSBodies) : fs_funcs' = fish_func_add(Arg(2), body)
          /\ Return(0)
  /\ KeepSession /\ KeepPlace /\ UNCHANGED <<fs_vars, fs_abbrevs, fs_events, fs_break>>

\* set [flag] NAME [value]: the value of the last flag's scope, and -1 from a full table.
fish_cmd_set ==
  /\ Name = "set"
  /\ LET flag  == Arg(2) \in {"-x", "-l", "-U", "-e", "-q"}
         at    == IF flag THEN 3 ELSE 2
         known == Find(fs_vars, Arg(at)) # 0
         scope == CASE Arg(2) = "-x" -> "EXPORT" [] Arg(2) = "-l" -> "LOCAL" [] Arg(2) = "-U" -> "UNIV" [] OTHER -> "GLOBAL"
     IN  IF Arg(2) = "-e" THEN fs_vars' = Without(fs_vars, Arg(at)) /\ Return(IF Argc >= at /\ known THEN 0 ELSE 1)
         ELSE IF Arg(2) = "-q" THEN UNCHANGED fs_vars /\ Return(IF known \/ (Argc < at /\ fs_vars # <<>>) THEN 0 ELSE 1)
         ELSE IF Argc < at THEN UNCHANGED fs_vars /\ Return(0)
         ELSE IF Argc = at THEN fs_vars' = fish_var_set(fs_vars, Arg(at), NoText) /\ Return(0)
         ELSE /\ fs_vars' = fish_var_set_scope(fs_vars, Arg(at), Arg(at + 1), scope)
              /\ Return(IF known \/ Len(fs_vars) < FS_MAX_VARS THEN 0 ELSE -1)
  /\ KeepSession /\ KeepPlace /\ UNCHANGED <<fs_abbrevs, fs_funcs, fs_events, fs_break>>

dispatch_export ==
  /\ Name \in {"export", "setenv"}
  /\ fs_vars' = IF Argc < 2 THEN fs_vars ELSE fish_cmd_export(fs_vars, Arg(2), Arg(3))
  /\ Return(0)
  /\ KeepSession /\ KeepPlace /\ UNCHANGED <<fs_abbrevs, fs_funcs, fs_events, fs_break>>

fish_cmd_abbrev ==
  /\ Name = "abbr"
  /\ LET erase == Arg(2) = "-e"
     IN  /\ fs_abbrevs' = IF Argc < 3 THEN fs_abbrevs
                          ELSE IF erase THEN Without(fs_abbrevs, Arg(3)) ELSE fish_abbrev_add(Arg(2), Arg(3))
         /\ Return(IF erase THEN (IF Argc < 3 \/ Find(fs_abbrevs, Arg(3)) = 0 THEN 1 ELSE 0)
                   ELSE IF Argc >= 3 /\ Len(fs_abbrevs) >= FS_MAX_ABBREVS THEN 1 ELSE 0)
  /\ KeepSession /\ KeepPlace /\ UNCHANGED <<fs_vars, fs_funcs, fs_events, fs_break>>

fish_cmd_functions ==
  /\ Name = "functions"
  /\ LET erase == Arg(2) = "-e" /\ Argc >= 3
     IN  /\ fs_funcs' = IF erase THEN fish_func_erase(Arg(3)) ELSE fs_funcs
         /\ Return(IF Argc >= 2 /\ fish_func_find(IF erase THEN Arg(3) ELSE Arg(2)) = 0 THEN 1 ELSE 0)
  /\ KeepSession /\ KeepPlace /\ UNCHANGED <<fs_vars, fs_abbrevs, fs_events, fs_break>>

\* read NAME: the words of one more line, as many as there are names, or the
\* whole line; Ctrl-C gives 130.
fish_cmd_read ==
  /\ Name = "read"
  /\ IF Argc < 2 THEN Return(1) /\ UNCHANGED fs_vars
     ELSE \/ \E answer \in FSAnswers : fs_vars' = fish_var_set(fs_vars, Arg(2), answer) /\ Return(0)
          \/ Return(130) /\ UNCHANGED fs_vars
  /\ KeepSession /\ KeepPlace /\ UNCHANGED <<fs_abbrevs, fs_funcs, fs_events, fs_break>>

\* builtin, command, and, or: the rest of the words is a command again.
dispatch_prefix ==
  /\ Name \in {"builtin", "command", "and", "or"}
  /\ IF Argc < 2 THEN Return(IF Name \in {"and", "or"} THEN fs_last_status ELSE 0)
     ELSE IF Name = "and" /\ fs_last_status # 0 THEN Return(1)
     ELSE IF Name = "or" /\ fs_last_status = 0 THEN Return(0)
     ELSE Becomes(Rest) 
  /\ KeepTables /\ KeepSession /\ KeepPlace /\ UNCHANGED fs_break

----------------------------------------------------------------------------
(***************************************************************************)
(* cd, pushd and popd.  The current directory is "~" for the root, and a   *)
(* text that starts with ~ is a relative path.  popd takes the entry off   *)
(* before it knows whether cd works.                                       *)
(***************************************************************************)
PathText(comps) == IF comps = <<>> THEN "~" ELSE FoldLeft(LAMBDA text, c : text \o "/" \o c, NoText, comps)
PathOf(text) ==
  IF text \in DOMAIN FSPath THEN FSPath[text]
  ELSE IF \E d \in FSDirs \ {<<>>} : PathText(d) = text
  THEN [abs |-> TRUE, comps |-> CHOOSE d \in FSDirs \ {<<>>} : PathText(d) = text]
  ELSE [abs |-> FALSE, comps |-> <<text>>]

fish_cmd_cd(arg, dirs, dirs_failed) ==
  LET target == IF arg \in {NoText, "~"} THEN fish_var_get("HOME") ELSE IF arg = "-" THEN fish_var_get("OLDPWD") ELSE arg
      full   == FullPath(PathOf(target))
      fails  == Return(1) /\ fs_dirs' = dirs_failed /\ UNCHANGED <<fs_cwd, fs_vars>>
  IN  IF arg = "-" /\ Find(fs_vars, "OLDPWD") = 0 THEN fails
      ELSE IF ~ NormalizeEnds(full) THEN Hang /\ fs_dirs' = dirs /\ UNCHANGED <<fs_cwd, fs_vars>>
      ELSE IF Depths(full) \notin FSDirs THEN fails
      ELSE /\ fs_cwd' = Depths(full) /\ fs_dirs' = dirs
           /\ fs_vars' = fish_var_set(fish_var_set(fs_vars, "OLDPWD", PathText(fs_cwd)), "PWD", PathText(fs_cwd'))
           /\ Return(0)

\* pushd with no word exchanges the top of the stack with the current directory.
dispatch_dirs ==
  /\ Name \in {"cd", "pushd", "popd", "realpath"}
  /\ \/ /\ Name = "cd" /\ fish_cmd_cd(Arg(2), fs_dirs, fs_dirs)
     \/ /\ Name = "realpath"
        /\ IF Argc < 2 \/ NormalizeEnds(FullPath(PathOf(Arg(2)))) THEN Return(0) ELSE Hang
        /\ UNCHANGED <<fs_cwd, fs_dirs, fs_vars>>
     \/ /\ Name = "pushd"
        /\ LET swapped == Append(Front(fs_dirs), PathText(fs_cwd))
           IN  IF (Argc < 2 /\ fs_dirs = <<>>) \/ (Argc >= 2 /\ Len(fs_dirs) >= FS_DIR_STACK)
               THEN Return(1) /\ UNCHANGED <<fs_cwd, fs_dirs, fs_vars>>
               ELSE IF Argc < 2 THEN fish_cmd_cd(Last(fs_dirs), swapped, swapped)
               ELSE fish_cmd_cd(Arg(2), Append(fs_dirs, PathText(fs_cwd)), fs_dirs)
     \/ /\ Name = "popd"
        /\ IF fs_dirs = <<>> THEN Return(1) /\ UNCHANGED <<fs_cwd, fs_dirs, fs_vars>>
           ELSE fish_cmd_cd(Last(fs_dirs), Front(fs_dirs), Front(fs_dirs))
  /\ KeepSession /\ UNCHANGED <<fs_abbrevs, fs_funcs, fs_events, fs_break>>

----------------------------------------------------------------------------
(***************************************************************************)
(* Calls of other lines: source, a function, an event.                     *)
(***************************************************************************)
fish_cmd_source ==
  /\ Name = "source"
  /\ IF Arg(2) \notin DOMAIN FSFile THEN Return(1)
     ELSE fs_stack' = Append(Below, Frame("source", FSFile[Arg(2)], 1)) /\ fs_ret' = 0
  /\ KeepTables /\ KeepSession /\ KeepPlace /\ UNCHANGED fs_break

\* fish_func_run keeps a pointer to the entry and the name to restore.
EnterFunction(f, below, args) ==
  /\ fs_stack' = Append(below, Frame("func", <<f>>, 1)) /\ fs_ret' = 0
  /\ fs_current_func' = fs_funcs[f].name
  /\ fs_vars' = fish_var_set(fish_var_set(fs_vars, "argcount", ToString(Len(args))), "argv",
                               FoldLeft(LAMBDA text, w : IF text = NoText THEN w ELSE text \o " " \o w, NoText, args))

Handled == {"if", "while", "not", "for", "switch", "break", "continue", "else", "case", "begin", "end", "function",
            "set", "export", "setenv", "abbr", "functions", "read", "builtin", "command", "and", "or",
            "cd", "pushd", "popd", "realpath", "source", "emit", "exit", "logout"}
BeforeFunctions == {"echo", "count", "set_color", "dirs", "pwd", "clear", "return", "string", "random", "math",
                    "history", "type", "which", "where", "commandline", "argparse", "gui"}
dispatch_user_function ==
  /\ Name \notin Handled \cup BeforeFunctions
  /\ fish_func_find(Name) # 0
  /\ EnterFunction(fish_func_find(Name), Below, Rest)
  /\ KeepPlace /\ UNCHANGED <<fs_abbrevs, fs_funcs, fs_events, fs_last_status, fs_running, fs_break>>

\* An event that is registered runs the function of its name, whose status is dropped.
fish_emit_event(events, event) ==
  LET f == fish_func_find("fish_event_" \o event)
  IN  IF event \in ToSet(events) /\ f # 0 THEN EnterFunction(f, Append(Below, Frame("emit", <<>>, 0)), <<>>)
      ELSE Return(0) /\ UNCHANGED <<fs_current_func, fs_vars>>

\* emit NAME registers the event while there is room, and emits it.
fish_cmd_emit ==
  /\ Name = "emit"
  /\ LET known  == Arg(2) \in ToSet(fs_events) \/ Len(fs_events) >= FS_MAX_EVENTS
         events == IF known THEN fs_events ELSE Append(fs_events, Arg(2))
     IN  IF Argc < 2 THEN Return(1) /\ UNCHANGED <<fs_events, fs_current_func, fs_vars>>
         ELSE fs_events' = events /\ fish_emit_event(events, Arg(2))
  /\ KeepPlace /\ UNCHANGED <<fs_abbrevs, fs_funcs, fs_last_status, fs_running, fs_break>>

\* exit blanks the values; the loop of fish_run ends after this line.
dispatch_exit ==
  /\ Name \in {"exit", "logout"}
  /\ fs_running' = FALSE
  /\ fs_vars' = [i \in DOMAIN fs_vars |-> [fs_vars[i] EXCEPT !.value = NoText]]
  /\ Return(0)
  /\ KeepPlace /\ UNCHANGED <<fs_abbrevs, fs_funcs, fs_events, fs_last_status, fs_current_func, fs_break>>

----------------------------------------------------------------------------
(***************************************************************************)
(* The commands that change nothing of the session, each with the statuses *)
(* it can return: what they print is left out, and whether the file system *)
(* or the network does its part is open.                                   *)
(***************************************************************************)
Needs(n, then) == IF Argc < n THEN {1} ELSE then
fish_cmd_string == IF Argc < 2 THEN {0} ELSE {0, 1}
fish_cmd_random == IF Argc < 2 THEN {0} ELSE {0, 1}
fish_cmd_math == Needs(2, {0})
fish_cmd_history == IF Argc < 2 THEN {0} ELSE {0, 1}
fish_cmd_type == IF Argc < 2 THEN {0} ELSE {0, 1}
fish_cmd_commandline == IF Arg(2) = "--is-valid" THEN {0, 1} ELSE {0}
StatusStatus == IF Argc < 2 THEN {0} ELSE {0, 1}
NetworkStatus == IF Name = "connect" THEN {0, 1} ELSE {0}
ReadFileStatus == IF Name = "cat" THEN Needs(2, {0, 1}) ELSE {0}
FormatStatus == IF Name = "mkfs" THEN Needs(2, {0, 1}) ELSE {0}
FileStatus == IF Name = "chmod" THEN Needs(3, {0, 1}) ELSE Needs(2, {0, 1})
TestStatus ==
  IF Argc = 2 THEN {IF Arg(2) # NoText THEN 0 ELSE 1}
  ELSE IF Argc = 3 /\ Arg(2) \in {"-n", "-z"} THEN {IF (Arg(3) # NoText) = (Arg(2) = "-n") THEN 0 ELSE 1}
  ELSE IF Argc = 4 /\ Arg(3) \in {"=", "!="} THEN {IF (Arg(2) = Arg(4)) = (Arg(3) = "=") THEN 0 ELSE 1}
  ELSE IF Argc < 2 THEN {1} ELSE {0, 1}
TextStatus == IF Name \in {"grep", "diff"} THEN Needs(3, {0, 1})
              ELSE IF Name = "tr" THEN Needs(4, {0}) ELSE IF Name = "head" THEN Needs(3, {0, 1}) ELSE Needs(2, {0})
ToolStatus == IF Name \in {"sleep", "hexdump"} THEN Needs(2, {0}) ELSE {0}
PgpStatus == IF Argc < 2 THEN {0} ELSE {0, 1}
CopyStatus == Needs(3, {0, 1})

Statuses ==
  CASE Name \in {"echo", "count", "set_color", "dirs", "pwd", "clear", "help", "argparse", "gui"} -> {0}
    [] Name = "status" -> StatusStatus
    [] Name = "math" -> fish_cmd_math
    [] Name = "history" -> fish_cmd_history
    [] Name \in {"type", "which", "where"} -> fish_cmd_type
    [] Name = "commandline" -> fish_cmd_commandline
    [] Name = "return" -> {IF Argc >= 2 THEN Atoi(Arg(2)) ELSE 0}
    [] Name = "string" -> fish_cmd_string
    [] Name = "random" -> fish_cmd_random
    [] Name \in {"tor", "onion", "net", "wifi", "connect"} -> NetworkStatus
    [] Name \in {"cat", "dmesg", "uptime", "ls"} -> ReadFileStatus
    [] Name \in {"mount", "mkfs", "fs", "id"} -> FormatStatus
    [] Name \in {"touch", "rm", "mkdir", "rmdir", "chmod"} -> FileStatus
    [] Name = "test" -> TestStatus
    [] Name \in {"grep", "sort", "uniq", "wc", "head", "tr", "diff", "base64", "tee"} -> TextStatus
    [] Name \in {"date", "sleep", "seq", "env", "man", "hexdump", "cal", "uname", "df", "free"} -> ToolStatus
    [] Name = "pgp" -> PgpStatus
    [] Name \in {"cp", "mv"} -> CopyStatus
    [] OTHER -> {1}   \* unknown command

\* A function hides the commands that are looked up after the functions.
dispatch_other ==
  /\ Name \notin Handled /\ (Name \in BeforeFunctions \/ fish_func_find(Name) = 0)
  /\ \E status \in Statuses : Return(status)
  /\ KeepTables /\ KeepSession /\ KeepPlace /\ UNCHANGED fs_break

Dispatch ==
  /\ Ready
  /\ \/ dispatch_control \/ dispatch_function \/ fish_cmd_set \/ dispatch_export
     \/ fish_cmd_abbrev \/ fish_cmd_functions \/ fish_cmd_read \/ dispatch_prefix
     \/ dispatch_dirs \/ fish_cmd_source \/ dispatch_user_function \/ fish_cmd_emit \/ dispatch_exit
     \/ dispatch_other

----------------------------------------------------------------------------
\* A status arrives at the call that waits for it.
Condition ==
  /\ Top.kind \in {"if", "while", "not", "emit"}
  /\ Return(IF Top.kind = "emit" THEN 0 ELSE IF Top.kind = "while" THEN fs_ret
            ELSE IF (fs_ret = 0) = (Top.kind = "if") THEN 0 ELSE 1)
  /\ KeepTables /\ KeepSession /\ KeepPlace /\ UNCHANGED fs_break

Substituted ==
  /\ Top.kind = "subst"
  /\ fs_stack' = Append(Below, [Top EXCEPT !.kind = "cmd", !.args[Top.n] = fish_var_get("status"), !.n = @ + 1])
  /\ fs_ret' = NoRet
  /\ KeepTables /\ KeepSession /\ KeepPlace /\ UNCHANGED fs_break

\* The next line of a sourced file; break has no meaning there.
SourceNext ==
  /\ Top.kind = "source"
  /\ IF Top.n > Len(Top.args) THEN Return(fs_ret)
     ELSE Call([Top EXCEPT !.n = @ + 1], Top.args[Top.n])
  /\ KeepTables /\ KeepSession /\ KeepPlace /\ UNCHANGED fs_break

\* Mutant: the loop over the lines is left by return, so the name is not restored.
FunctionNext_noRestore ==
  /\ Top.kind = "func"
  /\ LET lines == fs_funcs[Top.args[1]].lines
     IN  IF fs_break THEN Return(fs_ret) /\ UNCHANGED fs_current_func
         ELSE IF Top.n > Len(lines) THEN Return(fs_ret) /\ fs_current_func' = Top.prev
         ELSE Call([Top EXCEPT !.n = @ + 1], lines[Top.n]) /\ UNCHANGED fs_current_func
  /\ KeepTables /\ KeepPlace /\ UNCHANGED <<fs_last_status, fs_running, fs_break>>
\* The next line of the function the pointer shows, until the last one or break.
FunctionNext ==
  /\ Top.kind = "func"
  /\ LET lines == fs_funcs[Top.args[1]].lines
     IN  IF fs_break \/ Top.n > Len(lines) THEN Return(fs_ret) /\ fs_current_func' = Top.prev
         ELSE Call([Top EXCEPT !.n = @ + 1], lines[Top.n]) /\ UNCHANGED fs_current_func
  /\ KeepTables /\ KeepPlace /\ UNCHANGED <<fs_last_status, fs_running, fs_break>>

\* fish_run: the segments of a pipe run one after the other until one fails;
\* then the status is stored in both places.
PipeNext ==
  /\ Top.kind = "run"
  /\ IF Top.n <= Len(Top.args) /\ (Top.n = 1 \/ fs_ret = 0)
     THEN Call([Top EXCEPT !.n = @ + 1], Top.args[Top.n]) /\ UNCHANGED <<fs_last_status, fs_vars>>
     ELSE /\ fs_stack' = <<>> /\ fs_ret' = NoRet
          /\ fs_last_status' = fs_ret /\ fs_vars' = fish_var_set(fs_vars, "status", ToString(fs_ret))
  /\ KeepPlace /\ UNCHANGED <<fs_abbrevs, fs_funcs, fs_events, fs_current_func, fs_running, fs_break>>

Resume == fs_ret # NoRet /\ (Condition \/ Substituted \/ SourceNext \/ FunctionNext \/ PipeNext)

\* The prompt: a line is read, the flags of the loops are cleared.
fish_run ==
  /\ fs_stack = <<>> /\ fs_running
  /\ \E line \in FSLines : fs_stack' = <<Frame("run", line, 1)>>
  /\ fs_ret' = 0 /\ fs_break' = FALSE
  /\ KeepTables /\ KeepSession /\ KeepPlace

FSStep == fs_stack # <<>> /\ ((fs_ret = NoRet /\ (fish_expand_vars \/ Dispatch)) \/ Resume)
FSNext == fish_run \/ FSStep
FSSpec == FSInit /\ [][FSNext]_fsVars
\* The shell is one loop: it goes on with a command whenever it can.
FSFairSpec == FSSpec /\ WF_fsVars(FSStep)

----------------------------------------------------------------------------
FSTypeOK ==
  /\ Len(fs_vars) <= FS_MAX_VARS /\ Len(fs_abbrevs) <= FS_MAX_ABBREVS
  /\ Len(fs_funcs) <= FS_MAX_FUNCS /\ Len(fs_events) <= FS_MAX_EVENTS
  /\ Len(fs_dirs) <= FS_DIR_STACK /\ Len(fs_cwd) <= FS_PATH_DEPTH
  /\ fs_break \in BOOLEAN /\ fs_running \in BOOLEAN

\* At the prompt nothing of a function is left: the prompt shows no function
\* name, and $status and ${status} agree unless the variable was removed and
\* the table is full.
PromptClean ==
  fs_stack = <<>> =>
    /\ fs_current_func = NoText
    /\ Find(fs_vars, "status") # 0 => fish_var_get("status") = ToString(fs_last_status)

\* fish: a kill and a yank give the line back; the shell comes back to a clean
\* prompt through nested functions, events, files and conditions; the tables
\* of variables, functions, events, directories and the history keep their
\* sizes.  A completion that writes behind the line buffer is outside the
\* claim: it ends the behaviour (fl_overrun).
FishSound == FLTypeOK /\ FSTypeOK /\ YankRestores /\ PromptClean

\* Every line typed at the prompt comes back to the prompt.
PromptReturns == fs_stack # <<>> ~> fs_stack = <<>>
=============================================================================
