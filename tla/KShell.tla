------------------------------- MODULE KShell -------------------------------
(***************************************************************************)
(* The commands of the kernel shell and the tree of nodes they name        *)
(* (kernel/shell.c, kernel/vfs.c).  Descriptors, redirection into a     *)
(* file and the data buffers of files are in KFiles.                       *)
(*                                                                         *)
(* A node is named by its path from the root, a sequence of names.  /dev   *)
(* and /proc never change; /tmp is a sequence of children, whose own       *)
(* directories stay empty: they get the operations that refuse everything. *)
(* A text is a sequence of characters, "nl" ends a line; an error message  *)
(* is one line "err".  ks_hung is a cat of a character device, whose reads  *)
(* never come to an end.  Not among the inputs: cat of the raw disk, and a *)
(* write to /tmp itself, which the code stores in the directory's node.    *)
(***************************************************************************)
EXTENDS Integers, Sequences, FiniteSets, SequencesExt, TLC

CONSTANTS KS_PARTS,      \* components a path can have (32)
          KS_CHILDREN,   \* VFS_MAX_CHILDREN
          KS_LINE,       \* length of grep's line buffer (511)
          KS_PIPE,       \* length of the pipe's buffer
          KS_PATHS,      \* paths used, [abs, comps]
          KS_LINES,      \* command lines, sequences of one or two commands
          KS_MAX         \* bound on the length of a file

\* A path has 32 components, the tree two levels.
ASSUME KSAssumption ==
  /\ KS_PARTS \in Nat /\ KS_PARTS >= 2 /\ KS_CHILDREN \in Nat
  /\ KS_PATHS \subseteq [abs : BOOLEAN, comps : Seq(STRING)]
  /\ KS_LINES \subseteq Seq([c : STRING, p : [abs : BOOLEAN, comps : Seq(STRING)], n : Nat, text : Seq(STRING), space : BOOLEAN])
  /\ <<>> \notin KS_LINES

VARIABLES current_dir, ks_tmp, ks_screen, ks_hung
ksVars == <<current_dir, ks_tmp, ks_screen, ks_hung>>

NoSuchNode == <<"?">>
Err == <<"err", "nl">>

\* vfs_init, devfs_init, procfs_init, tmpfs_init
DevNodes == ("null" :> "char") @@ ("zero" :> "char") @@ ("console" :> "char") @@ ("tty" :> "char") @@ ("sda" :> "block") @@ ("nvme0" :> "block")
ProcNodes == {"meminfo", "cpuinfo", "self"}
KSInit ==
  /\ current_dir = <<>> /\ ks_tmp = <<>> /\ ks_screen = <<>> /\ ks_hung = FALSE

----------------------------------------------------------------------------
(* Paths *)

\* vfs_find_child in /tmp: the place of the first child of that name, or 0.
KsFind(tmp, name) == LET hits == {i \in DOMAIN tmp : tmp[i].name = name}
                     IN  IF hits = {} THEN 0 ELSE CHOOSE i \in hits : \A j \in hits : i <= j

\* The type of a node that exists, or "none".
KsType(tmp, n) ==
  CASE n \in {<<>>, <<"dev">>, <<"proc">>, <<"tmp">>} -> "dir"
    [] Len(n) = 2 /\ n[1] = "dev" /\ n[2] \in DOMAIN DevNodes -> DevNodes[n[2]]
    [] Len(n) = 2 /\ n[1] = "proc" /\ n[2] \in ProcNodes -> "file"
    [] Len(n) = 2 /\ n[1] = "tmp" /\ KsFind(tmp, n[2]) # 0 -> tmp[KsFind(tmp, n[2])].type
    [] OTHER -> "none"

KsStep(tmp, n, c) ==
  CASE n = NoSuchNode \/ c = "." -> n
    [] n # NoSuchNode /\ c = ".." -> IF n = <<>> THEN n ELSE Front(n)
    [] OTHER -> IF KsType(tmp, n) = "dir" /\ KsType(tmp, Append(n, c)) # "none" THEN Append(n, c) ELSE NoSuchNode

\* From a node along the components, node by node; vfs_resolve starts at the root.
KsWalk(tmp, start, comps) ==
  LET at[k \in 0 .. Len(comps)] == IF k = 0 THEN start ELSE KsStep(tmp, at[k - 1], comps[k])
  IN  at[Len(comps)]
vfs_resolve(tmp, comps) == KsWalk(tmp, <<>>, comps)

\* The loop of resolve_path: on the names alone; what is too long is dropped.
KsName(parts, c) ==
  CASE c = "." -> parts
    [] c = ".." -> IF parts = <<>> THEN parts ELSE Front(parts)
    [] OTHER -> IF Len(parts) < KS_PARTS THEN Append(parts, c) ELSE parts
KsNames(comps) ==
  LET parts[k \in 0 .. Len(comps)] == IF k = 0 THEN <<>> ELSE KsName(parts[k - 1], comps[k])
  IN  parts[Len(comps)]

\* Mutant: ".." takes away what the path itself added, never the directory it starts from.
resolve_path_below(cwd, p) == cwd \o KsNames(p.comps)

\* resolve_path
resolve_path(cwd, p) == KsNames(IF p.abs THEN p.comps ELSE cwd \o p.comps)

----------------------------------------------------------------------------
(* Changing the tree.  Only /tmp has operations that do something.          *)
KsParentIsTmp(path) == Len(path) > 0 /\ Front(path) = <<"tmp">>
KsAttach(tmp, child) == IF Len(tmp) < KS_CHILDREN THEN Append(tmp, child) ELSE tmp

\* vfs_create, through vfs_open with O_CREAT: a node of any type will do.
vfs_create(tmp, path) ==
  IF vfs_resolve(tmp, path) # NoSuchNode \/ ~KsParentIsTmp(path) THEN tmp
  ELSE KsAttach(tmp, [name |-> path[Len(path)], type |-> "file", text |-> <<>>])

\* vfs_mkdir does not ask whether the name is taken.
vfs_mkdir(tmp, path) ==
  IF KsParentIsTmp(path) THEN KsAttach(tmp, [name |-> path[Len(path)], type |-> "dir", text |-> <<>>]) ELSE tmp

\* tmpfs_unlink: the first child of that name, directories too.
tmpfs_unlink(tmp, name) == IF KsFind(tmp, name) = 0 THEN tmp ELSE RemoveAt(tmp, KsFind(tmp, name))
vfs_unlink(tmp, path) ==
  IF KsParentIsTmp(path) /\ vfs_resolve(tmp, path) # NoSuchNode THEN tmpfs_unlink(tmp, path[Len(path)]) ELSE tmp

----------------------------------------------------------------------------
(* Text *)
\* The lines with their "nl", if they have one: from one end to the next.
KsLineStart(ends, i) == LET before == {j \in ends : j < i} IN IF before = {} THEN 1 ELSE Max(before) + 1
KsLineEnd(ends, k) == CHOOSE i \in ends : Cardinality({j \in ends : j <= i}) = k
KsLinesTo(text, ends) ==
  [k \in 1 .. Cardinality(ends) |-> SubSeq(text, KsLineStart(ends, KsLineEnd(ends, k)), KsLineEnd(ends, k))]
KsLines(text) == KsLinesTo(text, {i \in DOMAIN text : text[i] = "nl" \/ i = Len(text)})
KsCount(text, S) == Cardinality({i \in DOMAIN text : text[i] \in S})
KsBare(line) == IF line # <<>> /\ line[Len(line)] = "nl" THEN Front(line) ELSE line
KsCut(s, n) == SubSeq(s, 1, IF Len(s) < n THEN Len(s) ELSE n)
KsEnded(text) == IF text # <<>> /\ text[Len(text)] # "nl" THEN Append(text, "nl") ELSE text

\* strstr_simple
strstr_simple(line, pat) == \E i \in 0 .. Len(line) - Len(pat) : SubSeq(line, i + 1, i + Len(pat)) = pat

\* The loop of cmd_grep: each line in a buffer of its own.
GrepText(text, pat) ==
  FlattenSeq([k \in DOMAIN KsLines(text) |->
    LET line == KsCut(KsBare(KsLines(text)[k]), KS_LINE)
    IN  IF strstr_simple(line, pat) THEN Append(line, "nl") ELSE <<>>])

\* The loop of cmd_head: characters, until enough ends of lines went by.
HeadText(text, n) == LET kept == {i \in 1 .. Len(text) : KsCount(SubSeq(text, 1, i - 1), {"nl"}) < n}
                     IN  KsEnded(SubSeq(text, 1, Cardinality(kept)))

\* The loops of cmd_tail: counts ends of lines, skips, prints the rest.
TailText(text, n) ==
  LET total == KsCount(text, {"nl"})
      skip  == IF total > n THEN total - n ELSE 0
      at    == CHOOSE i \in 0 .. Len(text) : /\ KsCount(SubSeq(text, 1, i), {"nl"}) = skip
                                             /\ i = 0 \/ KsCount(SubSeq(text, 1, i - 1), {"nl"}) < skip
  IN  KsEnded(SubSeq(text, at + 1, Len(text)))

\* cmd_wc
WcText(text, label) ==
  LET space == {"nl", "sp"}
      words == {i \in DOMAIN text : text[i] \notin space /\ (i = 1 \/ text[i - 1] \in space)}
  IN  <<ToString(KsCount(text, {"nl"})), ToString(Cardinality(words)), ToString(Len(text)), label, "nl">>

----------------------------------------------------------------------------
(* Commands.  cmd = [c, p, n, text, space]: space tells that a blank stands *)
(* between the command and the '|'.  s = [cwd, tmp, out, hung] is the shell *)
(* between two commands.                                                    *)
KsNoPath == [abs |-> FALSE, comps |-> <<>>]

\* The argument of a command that is not trimmed: the blank is part of the name.
KsArg(cmd, trimmed) ==
  IF cmd.space /\ ~trimmed /\ cmd.p # KsNoPath THEN [cmd.p EXCEPT !.comps[Len(cmd.p.comps)] = @ \o " "] ELSE cmd.p

\* What grep, head, tail and wc read: as many bytes as the node's length says,
\* which is 0 for /dev and /proc and more than the heap for the disk.
KsSource(s, cmd, path, pipe) ==
  LET n == vfs_resolve(s.tmp, path)
      missing == [ok |-> FALSE, text |-> <<>>, label |-> ""]
  IN  IF cmd.p = KsNoPath THEN IF pipe = <<>> THEN missing ELSE [ok |-> TRUE, text |-> pipe, label |-> "stream"]
      ELSE IF n \in {NoSuchNode, <<"dev", "sda">>} THEN missing
      ELSE [ok |-> TRUE, label |-> IF n = <<>> THEN "/" ELSE n[Len(n)],
            text |-> IF KsParentIsTmp(n) THEN s.tmp[KsFind(s.tmp, n[2])].text ELSE <<>>]

\* cmd_write: the text and an "nl" over what the file has; O_TRUNC does nothing.
KsOverwrite(old, new) == new \o SubSeq(old, Len(new) + 1, Len(old))
cmd_write(s, path, text) ==
  LET tmp == vfs_create(s.tmp, path)
      n == vfs_resolve(tmp, path)
  IN  IF n = NoSuchNode THEN [s EXCEPT !.out = @ \o Err, !.tmp = tmp]
      ELSE IF KsType(tmp, n) # "file" \/ ~KsParentIsTmp(n) THEN [s EXCEPT !.tmp = tmp]
      ELSE [s EXCEPT !.tmp = [tmp EXCEPT ![KsFind(tmp, n[2])].text = KsOverwrite(@, Append(text, "nl"))]]

cmd_cat(s, path) ==
  LET n == vfs_resolve(s.tmp, path)
      type == KsType(s.tmp, n)
  IN  CASE n = NoSuchNode \/ type = "dir" -> [s EXCEPT !.out = @ \o Err]
        [] n # NoSuchNode /\ type = "char" -> [s EXCEPT !.hung = TRUE]
        [] type = "file" /\ KsParentIsTmp(n) -> [s EXCEPT !.out = @ \o s.tmp[KsFind(s.tmp, n[2])].text]
        [] type = "file" /\ n[1] = "proc" -> [s EXCEPT !.out = @ \o <<n[2], "nl">>]
        [] OTHER -> s

\* cmd_ls: every directory refuses to be read, so only its title is printed.
cmd_ls(s, path) ==
  LET n == vfs_resolve(s.tmp, path)
  IN  [s EXCEPT !.out = @ \o (IF n = NoSuchNode THEN Err ELSE <<KsType(s.tmp, n), "nl">>)]

\* cmd_stat: name, length and number of children; the disk's length is fixed.
cmd_stat(s, path) ==
  LET n == vfs_resolve(s.tmp, path)
      length == IF KsParentIsTmp(n) THEN ToString(Len(s.tmp[KsFind(s.tmp, n[2])].text)) ELSE IF n = <<"dev", "sda">> THEN "1G" ELSE "0"
      children == CASE n = <<>> -> 3
                    [] n = <<"dev">> -> Cardinality(DOMAIN DevNodes)
                    [] n = <<"proc">> -> Cardinality(ProcNodes)
                    [] n = <<"tmp">> -> Len(s.tmp)
                    [] OTHER -> 0
  IN  [s EXCEPT !.out = @ \o (IF n = NoSuchNode THEN Err
                              ELSE <<IF n = <<>> THEN "/" ELSE n[Len(n)], length, KsType(s.tmp, n), ToString(children), "nl">>)]

\* cmd_pwd and cmd_echo print what they have; echo keeps the blank before a '|'.
cmd_pwd(s) == [s EXCEPT !.out = @ \o Append(s.cwd, "nl")]
cmd_echo(s, text, blank) == [s EXCEPT !.out = @ \o text \o (IF blank THEN <<"sp", "nl">> ELSE <<"nl">>)]

cmd_cd(s, p, path) ==
  IF p = KsNoPath THEN [s EXCEPT !.cwd = <<>>]
  ELSE IF KsType(s.tmp, vfs_resolve(s.tmp, path)) = "dir" THEN [s EXCEPT !.cwd = path]
  ELSE [s EXCEPT !.out = @ \o Err]

\* touch, mkdir, rm: an error when the tree did not take the change (touch: when
\* the node is not there afterwards).
KsChange(s, tmp, done) == [s EXCEPT !.tmp = tmp, !.out = IF done THEN @ ELSE @ \o Err]

\* The filters print an error without a source.
cmd_grep(src, pat) == IF src.ok THEN GrepText(src.text, pat) ELSE Err
cmd_head(src, n) == IF src.ok THEN HeadText(src.text, n) ELSE Err
cmd_tail(src, n) == IF src.ok THEN TailText(src.text, n) ELSE Err
cmd_wc(src) == IF src.ok THEN WcText(src.text, src.label) ELSE Err
KsFilter(s, cmd, src) ==
  [s EXCEPT !.out = @ \o (CASE cmd.c = "grep" -> cmd_grep(src, cmd.text)
                            [] cmd.c = "head" -> cmd_head(src, cmd.n)
                            [] cmd.c = "tail" -> cmd_tail(src, cmd.n)
                            [] cmd.c = "wc" -> cmd_wc(src))]

\* dispatch_single_cmd: the commands without an argument must match to the end.
dispatch_single_cmd(s, cmd, pipe, trimmed) ==
  LET p == KsArg(cmd, trimmed)
      path == resolve_path(s.cwd, p)
      usage == p = KsNoPath /\ cmd.c \in {"cat", "touch", "mkdir", "rm", "write", "stat"}
  IN  IF usage THEN [s EXCEPT !.out = @ \o Err] ELSE
      CASE cmd.c = "pwd" -> IF cmd.space /\ ~trimmed THEN [s EXCEPT !.out = @ \o Err] ELSE cmd_pwd(s)
        [] cmd.c = "cd" -> cmd_cd(s, p, path)
        [] cmd.c = "ls" -> cmd_ls(s, path)
        [] cmd.c = "stat" -> cmd_stat(s, path)
        [] cmd.c = "cat" -> cmd_cat(s, path)
        [] cmd.c = "touch" -> KsChange(s, vfs_create(s.tmp, path), vfs_resolve(vfs_create(s.tmp, path), path) # NoSuchNode)
        [] cmd.c = "mkdir" -> KsChange(s, vfs_mkdir(s.tmp, path), vfs_mkdir(s.tmp, path) # s.tmp)
        [] cmd.c = "rm" -> KsChange(s, vfs_unlink(s.tmp, path), vfs_unlink(s.tmp, path) # s.tmp)
        [] cmd.c = "write" -> cmd_write(s, path, cmd.text)
        [] cmd.c = "echo" -> cmd_echo(s, cmd.text, cmd.space /\ ~trimmed)
        [] OTHER -> KsFilter(s, cmd, KsSource(s, cmd, path, pipe))

\* process_command: a line, or two commands with a pipe; only a line without a
\* pipe loses the blanks at its end.
process_command(line) ==
  LET s0 == [cwd |-> current_dir, tmp |-> ks_tmp, out |-> <<>>, hung |-> FALSE]
      s1 == dispatch_single_cmd(s0, line[1], <<>>, Len(line) = 1)
      s2 == IF Len(line) = 1 \/ s1.hung THEN s1
            ELSE dispatch_single_cmd([s1 EXCEPT !.out = <<>>], line[2], KsCut(s1.out, KS_PIPE), FALSE)
  IN  /\ ~ks_hung
      /\ \A i \in DOMAIN s2.tmp : Len(s2.tmp[i].text) <= KS_MAX
      /\ current_dir' = s2.cwd /\ ks_tmp' = s2.tmp /\ ks_screen' = s2.out /\ ks_hung' = s2.hung

KSNext == \E line \in KS_LINES : process_command(line)
KSSpec == KSInit /\ [][KSNext]_ksVars

----------------------------------------------------------------------------
\* The names a path is reduced to lead where walking the path node by node from
\* the current directory leads, as long as that directory is still there.
PathsAgree ==
  vfs_resolve(ks_tmp, current_dir) # NoSuchNode =>
    \A p \in KS_PATHS :
      LET start == IF p.abs THEN <<>> ELSE current_dir
          walked == KsWalk(ks_tmp, start, p.comps)
      IN  walked # NoSuchNode => vfs_resolve(ks_tmp, resolve_path(current_dir, p)) = walked

\* Of a file of whole lines, head shows the first lines, and what head leaves
\* out is what tail shows, also after shorter texts were written over longer ones.
FiltersAgree ==
  \A i \in DOMAIN ks_tmp :
    LET text == ks_tmp[i].text
        lines == KsLines(text)
    IN  text # <<>> /\ text[Len(text)] = "nl" =>
          \A n \in 0 .. Len(lines) :
            /\ HeadText(text, n) \o TailText(text, Len(lines) - n) = text
            /\ KsLines(HeadText(text, n)) = SubSeq(lines, 1, n)
=============================================================================
