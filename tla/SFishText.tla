----------------------------- MODULE SFishText ------------------------------
(***************************************************************************)
(* The text functions of the fish shell (shell/fish_shell.c): how a line   *)
(* is cut at bars and into arguments, how patterns are expanded, and what  *)
(* echo, math and printf make of their arguments.  A character is its      *)
(* ASCII code.  Each function is written as the loop of the code; a state  *)
(* is one input of one function and the answer.                            *)
(***************************************************************************)
EXTENDS Integers, Sequences, FiniteSets, SequencesExt, FiniteSetsExt

CONSTANTS
  TxArgs, TxArg,      \* FISH_MAX_ARGS, and the bytes of an argument
  TxPipes, TxFile,    \* FISH_MAX_PIPES, and the characters of a file's name
  TxMatches,          \* most matches of one pattern
  TxWords,            \* argument lists
  TxLines,            \* lines
  TxDirs,             \* directory -> sequence of [name, dir], what the file system lists
  TxPatterns,         \* lists of arguments with patterns
  TxExprs,            \* expressions: see Value
  TxBits,             \* width of an integer
  TxFormats           \* [items, args]: see Shown

VARIABLES tx_job, tx_in, tx_out
txVars == <<tx_job, tx_in, tx_out>>

Nl == 10
Blank == 32
Tick == 39
Quote == 34
Star == 42
Query == 63
Slash == 47
BackSlash == 92
BarSign == 124
Gt == 62
Lt == 60
Amp == 38
Minus == 45
PercentSign == 37
Code(s) == CASE s = "n" -> 110 [] s = "e" -> 101 [] s = "s" -> 115 [] s = "d" -> 100 [] s = "u" -> 117
             [] s = "x" -> 120 [] s = "t" -> 116 [] s = "r" -> 114
DigitCode(c) == c \in 48 .. 57
CutTo(s, n) == SubSeq(s, 1, Min({Len(s), n}))
\* The longest run from position i of characters that satisfy the test.
RECURSIVE EndOf(_, _, _)
EndOf(s, i, T) == IF i <= Len(s) /\ s[i] \in T THEN EndOf(s, i + 1, T) ELSE i
Others(s, T) == {s[i] : i \in DOMAIN s} \ T

----------------------------------------------------------------------------
(* fish_parse_args: blanks part arguments, quotes keep them together.        *)

fish_parse_args(cmd) ==
  LET Put(a, c) == IF Len(a.cur) < TxArg - 1 THEN [a EXCEPT !.cur = Append(@, c)] ELSE a
      End(a) == IF a.open THEN [a EXCEPT !.args = Append(@, a.cur), !.cur = <<>>, !.open = FALSE] ELSE a
      Step(a, c) ==
        IF Len(a.args) >= TxArgs THEN a
        ELSE IF a.quote # 0 THEN (IF c = a.quote THEN [a EXCEPT !.quote = 0] ELSE Put(a, c))
        ELSE IF c \in {Tick, Quote} THEN [a EXCEPT !.quote = c, !.open = TRUE]
        ELSE IF c = Blank THEN End(a)
        ELSE Put([a EXCEPT !.open = TRUE], c)
  IN End(FoldLeft(Step, [args |-> <<>>, cur |-> <<>>, open |-> FALSE, quote |-> 0], cmd)).args

----------------------------------------------------------------------------
(* fish_expand_wildcard_args: a pattern is replaced by the names it matches. *)

fish_has_wildcard(s) == \E i \in DOMAIN s : s[i] \in {Star, Query, 91}
\* A star that is reached never lets the pattern end: the pattern matches nothing.
Matches(glob, name) ==
  /\ Len(glob) = Len(name)
  /\ \A i \in DOMAIN glob : glob[i] # Star /\ glob[i] \in {Query, name[i]}
\* The directory is what stands before the last slash, or the root.
fish_expand_wildcard(pattern) ==
  LET cut == Max({0} \cup {i \in DOMAIN pattern : pattern[i] = Slash})
      dir == IF cut = 0 THEN <<Slash>> ELSE SubSeq(pattern, 1, cut)
      glob == SubSeq(pattern, cut + 1, Len(pattern))
      entries == IF dir \in DOMAIN TxDirs THEN TxDirs[dir] ELSE <<>>
      found == SelectSeq(entries, LAMBDA e : Matches(glob, e.name))
  IN [k \in 1 .. Min({Len(found), TxMatches}) |->
        CutTo(CutTo(dir \o found[k].name, TxArg - 1) \o (IF found[k].dir THEN <<Slash>> ELSE <<>>), TxArg - 1)]
fish_expand_wildcard_args(args) ==
  LET Step(out, a) == LET names == IF fish_has_wildcard(a) THEN fish_expand_wildcard(a) ELSE <<>>
                      IN CutTo(out \o (IF names = <<>> THEN <<a>> ELSE names), TxArgs)
  IN FoldLeft(Step, <<>>, args)

----------------------------------------------------------------------------
(* fish_parse_pipes: pieces between bars, each with its first redirection.   *)

Trim(s) == LET T == {i \in DOMAIN s : s[i] # Blank} IN IF T = {} THEN <<>> ELSE SubSeq(s, Min(T), Max(T))
CharAt(s, i) == IF i <= Len(s) THEN s[i] ELSE 0
\* The operator at position i, with its length.
Operator(s, i) ==
  LET two == CharAt(s, i) = 50 /\ CharAt(s, i + 1) = Gt IN
  CASE two /\ CharAt(s, i + 2) = Amp                 -> <<"err-out", 3>>
    [] two /\ CharAt(s, i + 2) = Gt                  -> <<"err-append", 3>>
    [] two /\ CharAt(s, i + 2) \notin {Amp, Gt}      -> <<"err", 2>>
    [] CharAt(s, i) = Gt /\ CharAt(s, i + 1) = Gt        -> <<"append", 2>>
    [] CharAt(s, i) = Gt /\ CharAt(s, i + 1) # Gt        -> <<"out", 1>>
    [] CharAt(s, i) = Lt                             -> <<"in", 1>>
    [] OTHER                                     -> <<"none", 0>>
\* 2>& ends the command; 2>> ends it three characters before the file's name; the
\* other operators and their files stay in the command.
Redirected(s) ==
  LET ops == {i \in DOMAIN s : Operator(s, i)[1] # "none"}
      i == Min(ops)
      op == Operator(s, i)
      from == EndOf(s, i + op[2], {Blank})
      file == CutTo(SubSeq(s, from, EndOf(s, from, Others(s, {Blank})) - 1), TxFile)
      RTrim(c) == SubSeq(c, 1, Max({0} \cup {k \in DOMAIN c : c[k] # Blank}))
  IN IF ops = {} THEN [cmd |-> s, redir |-> "none", file |-> <<>>]
     ELSE [cmd |-> RTrim(CASE op[1] = "err-out" -> SubSeq(s, 1, i - 1)
                           [] op[1] = "err-append" -> SubSeq(s, 1, from - 4)
                           [] OTHER -> s),
           redir |-> op[1], file |-> IF op[1] = "err-out" THEN <<>> ELSE file]
PiecesOf(line) ==
  LET bars == SetToSortSeq({0, Len(line) + 1} \cup {i \in DOMAIN line : line[i] = BarSign}, <)
  IN [k \in 1 .. Len(bars) - 1 |-> Trim(SubSeq(line, bars[k] + 1, bars[k + 1] - 1))]
fish_parse_pipes(line) ==
  LET kept == CutTo(SelectSeq(PiecesOf(line), LAMBDA p : p # <<>>), TxPipes)
  IN [k \in DOMAIN kept |-> Redirected(kept[k])]

----------------------------------------------------------------------------
(* Numbers: integers of TxBits bits as text and back.                        *)

Wrap(x) == ((x + 2 ^ (TxBits - 1)) % 2 ^ TxBits) - 2 ^ (TxBits - 1)
Least == -(2 ^ (TxBits - 1))
Abs(x) == IF x < 0 THEN -x ELSE x
\* Division rounds towards zero.
Quot(a, b) == IF (a < 0) = (b < 0) THEN Abs(a) \div Abs(b) ELSE -(Abs(a) \div Abs(b))
Rem(a, b) == a - b * Quot(a, b)
RECURSIVE Digits(_, _)
Digits(val, base) == LET d == Rem(val, base) IN
  IF val = 0 THEN <<>> ELSE Append(Digits(Quot(val, base), base), IF d < 10 THEN 48 + d ELSE 87 + d)
fish_uint_to_str(val) == IF val = 0 THEN <<48>> ELSE Digits(val, 10)
\* The least integer has no opposite: its digits come out below "0".
fish_int_to_str(val) == IF val < 0 THEN <<Minus>> \o Digits(Wrap(-val), 10) ELSE fish_uint_to_str(val)
LeadingDigits(s) == SubSeq(s, 1, EndOf(s, 1, 48 .. 57) - 1)
fish_atou(s) == FoldLeft(LAMBDA n, c : (10 * n + c - 48) % 2 ^ TxBits, 0, LeadingDigits(s))
fish_atoi(s) == IF CharAt(s, 1) = Minus THEN Wrap(-fish_atou(Tail(s))) ELSE Wrap(fish_atou(s))

----------------------------------------------------------------------------
(* math: expressions by recursive descent.  p is the next position, v the    *)
(* value, trap a division the processor refuses.                             *)

Skip(s, p) == EndOf(s, p, {Blank})
RECURSIVE math_parse_factor(_, _), TermRest(_, _), ExprRest(_, _)
math_parse_term(s, p) == TermRest(s, math_parse_factor(s, p))
math_parse_expr(s, p) == ExprRest(s, math_parse_term(s, p))
math_parse_factor(s, p0) ==
  LET p == Skip(s, p0)  c == CharAt(s, p) IN
  CASE p > Len(s) -> [v |-> 0, p |-> p, trap |-> FALSE]
    [] c = 40 -> LET r == math_parse_expr(s, p + 1)  q == Skip(s, r.p)
                 IN [r EXCEPT !.p = IF CharAt(s, q) = 41 THEN q + 1 ELSE q]
    [] c = Minus -> [math_parse_factor(s, p + 1) EXCEPT !.v = Wrap(-@)]
    [] c = 43 -> math_parse_factor(s, p + 1)
    [] c = 33 -> [math_parse_factor(s, p + 1) EXCEPT !.v = IF @ = 0 THEN 1 ELSE 0]
    [] DigitCode(c) -> [v |-> Wrap(fish_atou(SubSeq(s, p, Len(s)))), p |-> EndOf(s, p, 48 .. 57), trap |-> FALSE]
    [] OTHER -> [v |-> 0, p |-> p + 1, trap |-> FALSE]
TermRest(s, left) ==
  LET p == Skip(s, left.p)  op == CharAt(s, p)
      right == math_parse_factor(s, p + 1)
      divides == op # Star /\ right.v # 0
  IN IF op \notin {Star, Slash, PercentSign} THEN [left EXCEPT !.p = p]
     ELSE TermRest(s, [p |-> right.p,
            trap |-> left.trap \/ right.trap \/ (divides /\ left.v = Least /\ right.v = -1),
            v |-> IF op = Star THEN Wrap(left.v * right.v) ELSE IF right.v = 0 THEN 0
                  ELSE IF op = Slash THEN Wrap(Quot(left.v, right.v)) ELSE Rem(left.v, right.v)])
ExprRest(s, left) ==
  LET p == Skip(s, left.p)  op == CharAt(s, p)
      right == math_parse_term(s, p + 1)
  IN IF op \notin {43, Minus} THEN [left EXCEPT !.p = p]
     ELSE ExprRest(s, [p |-> right.p, trap |-> left.trap \/ right.trap,
            v |-> Wrap(IF op = 43 THEN left.v + right.v ELSE left.v - right.v)])
MathOf(text) == math_parse_expr(text, 1)

----------------------------------------------------------------------------
(* What the dispatcher does to an argument without a dollar sign, and what   *)
(* echo and printf print.                                                    *)

RECURSIVE Unslash(_)
Unslash(s) == IF s = <<>> THEN <<>>
              ELSE IF s[1] = BackSlash /\ Len(s) > 1 THEN <<s[2]>> \o Unslash(SubSeq(s, 3, Len(s)))
              ELSE <<s[1]>> \o Unslash(Tail(s))
Expand(s) == CutTo(Unslash(s), TxArg - 1)

RECURSIVE Escapes(_)
Escapes(s) == IF s = <<>> THEN <<>>
  ELSE IF s[1] = BackSlash /\ Len(s) > 1
  THEN <<CASE s[2] = Code("n") -> Nl [] s[2] = Code("t") -> 9 [] s[2] = Code("r") -> 13 [] s[2] = 48 -> 0
           [] OTHER -> s[2]>> \o Escapes(SubSeq(s, 3, Len(s)))
  ELSE <<s[1]>> \o Escapes(Tail(s))
\* Words of a dash, n and e are options up to the first other word, whose leading
\* letters count as well if it begins with a dash.  Variables are expanded once
\* more than the dispatcher did.
fish_cmd_echo(args) ==
  LET isOption(a) == CharAt(a, 1) = Minus /\ \A i \in 2 .. Len(a) : a[i] \in {Code("n"), Code("e")}
      first == Min({Len(args) + 1} \cup {i \in DOMAIN args : ~isOption(args[i])})
      letters == {Code("n"), Code("e")}
      Seen(a) == IF CharAt(a, 1) = Minus THEN {a[i] : i \in 2 .. EndOf(a, 2, letters) - 1} ELSE {}
      seen == UNION {Seen(args[i]) : i \in 1 .. Min({first, Len(args)})}
      Word(a) == IF Code("e") \in seen THEN Escapes(Unslash(a)) ELSE Unslash(a)
      Step(out, i) == out \o (IF i > first THEN <<Blank>> ELSE <<>>) \o Word(args[i])
  IN FoldLeft(Step, <<>>, [k \in 1 .. Len(args) + 1 - first |-> first + k - 1])
     \o (IF Code("n") \in seen THEN <<>> ELSE <<Nl>>)

HexValue(c) == IF DigitCode(c) THEN c - 48 ELSE IF c \in 97 .. 102 THEN c - 87 ELSE IF c \in 65 .. 70 THEN c - 55 ELSE -1
HexOf(s) == FoldLeft(LAMBDA n, c : IF HexValue(c) < 0 THEN n ELSE (16 * n + HexValue(c)) % 2 ^ TxBits, 0, s)
\* What stands in the row of an argument once it was expanded in place: its text, the
\* end mark, and what is left of the longer text before.
Row(orig) == Expand(orig) \o <<0>> \o SubSeq(orig, Len(Expand(orig)) + 2, Len(orig))
RECURSIVE Format(_, _, _)
Format(row, i, args) ==
  LET c == CharAt(row, i)  d == CharAt(row, i + 1)
      takes == c = PercentSign /\ d \in {Code("s"), Code("d"), Code("u"), 99, Code("x")}
      a == args[1]
      text == CASE c = PercentSign /\ takes /\ args = <<>>  -> <<>>
                [] takes /\ args # <<>> /\ d = Code("s") -> a
                [] takes /\ args # <<>> /\ d = Code("d") -> fish_int_to_str(fish_atoi(a))
                [] takes /\ args # <<>> /\ d = Code("u") -> fish_uint_to_str(fish_atou(a))
                [] takes /\ args # <<>> /\ d = Code("x") -> IF HexOf(a) = 0 THEN <<48>> ELSE Digits(HexOf(a), 16)
                [] takes /\ args # <<>> /\ d = 99        -> <<CharAt(a, 1)>>
                [] c = PercentSign /\ d = PercentSign            -> <<PercentSign>>
                [] c = PercentSign /\ ~takes /\ d # PercentSign  -> <<PercentSign, d>>
                [] c = BackSlash -> (CASE d = Code("n") -> <<Nl>> [] d = Code("t") -> <<9>> [] d = BackSlash -> <<BackSlash>>
                                       [] d = 48 -> <<0>> [] OTHER -> <<BackSlash, d>>)
                [] OTHER -> <<c>>
  IN IF c = 0 THEN <<>>
     ELSE text \o Format(row, i + (IF c \in {PercentSign, BackSlash} THEN 2 ELSE 1),
                         IF takes /\ args # <<>> THEN Tail(args) ELSE args)
dispatch_printf(orig, args) == Format(Row(orig), 1, [i \in DOMAIN args |-> Expand(args[i])])

----------------------------------------------------------------------------
(* Words as a user types them to have them kept.                             *)

\* A word in quotes it does not hold.
Quoted(a) == LET q == IF \E i \in DOMAIN a : a[i] = Tick THEN Quote ELSE Tick IN <<q>> \o a \o <<q>>
Joined(words) == FoldLeft(LAMBDA out, i : out \o (IF i > 1 THEN <<Blank>> ELSE <<>>) \o words[i], <<>>, [i \in DOMAIN words |-> i])
RECURSIVE Slashed(_)
Slashed(s) == IF s = <<>> THEN <<>> ELSE (IF s[1] = BackSlash THEN <<BackSlash, BackSlash>> ELSE <<s[1]>>) \o Slashed(Tail(s))
RECURSIVE Escaped(_)
Escaped(s) == IF s = <<>> THEN <<>>
  ELSE (CASE s[1] = Nl -> <<BackSlash, Code("n")>> [] s[1] = BackSlash -> <<BackSlash, BackSlash>> [] OTHER -> <<s[1]>>) \o Escaped(Tail(s))

\* An expression is <<"num", n>>, <<"neg", e>>, <<"not", e>> or <<operator, e, f>>.
OpChar(op) == CASE op = "+" -> 43 [] op = "-" -> Minus [] op = "*" -> Star [] op = "/" -> Slash [] op = "%" -> PercentSign
Strength(op) == IF op \in {"+", "-"} THEN 1 ELSE IF op \in {"*", "/", "%"} THEN 2 ELSE 3
RECURSIVE Written(_, _), Value(_)
Written(e, least) ==
  LET bare == CASE e[1] = "num" -> fish_uint_to_str(e[2])
                [] e[1] = "neg" -> <<Minus>> \o Written(e[2], 3)
                [] e[1] = "not" -> <<33>> \o Written(e[2], 3)
                [] OTHER -> Written(e[2], Strength(e[1])) \o <<Blank, OpChar(e[1]), Blank>> \o Written(e[3], Strength(e[1]) + 1)
  IN IF Strength(e[1]) < least THEN <<40>> \o bare \o <<41>> ELSE bare
\* The value as TLA+ arithmetic has it, a quotient by 0 being 0; NoValue where the
\* machine's division overflows or a part has no value.
NoValue == 2 ^ TxBits
Value(e) ==
  LET a == Value(e[2])  b == Value(e[3]) IN
  CASE e[1] = "num" -> e[2]
    [] e[1] \in {"neg", "not"} /\ a = NoValue -> NoValue
    [] e[1] = "neg" /\ a # NoValue -> Wrap(-a)
    [] e[1] = "not" /\ a # NoValue -> IF a = 0 THEN 1 ELSE 0
    [] e[1] \in {"+", "-", "*", "/", "%"} ->
         IF NoValue \in {a, b} \/ (e[1] \in {"/", "%"} /\ a = Least /\ b = -1) THEN NoValue
         ELSE CASE e[1] = "+" -> Wrap(a + b)
                [] e[1] = "-" -> Wrap(a - b)
                [] e[1] = "*" -> Wrap(a * b)
                [] e[1] = "/" -> IF b = 0 THEN 0 ELSE CHOOSE q \in -Abs(a) .. Abs(a) : Abs(a - q * b) < Abs(b) /\ (a - q * b) * a >= 0
                [] e[1] = "%" -> IF b = 0 THEN 0 ELSE CHOOSE r \in -Abs(a) .. Abs(a) : Abs(r) < Abs(b) /\ r * a >= 0 /\ \E q \in -Abs(a) .. Abs(a) : a = q * b + r

\* An item is <<"text", s>>, or a directive with its argument.
ItemFormat(it) == IF it[1] = "text" THEN FoldLeft(LAMBDA o, c : o \o (IF c = PercentSign THEN <<PercentSign, PercentSign>>
                    ELSE IF c = Nl THEN <<BackSlash, Code("n")>> ELSE <<c>>), <<>>, it[2]) ELSE <<PercentSign, Code(it[1])>>
Shown(it, given) == IF it[1] = "text" \/ given THEN it[2] ELSE <<>>

----------------------------------------------------------------------------
TXInit == tx_job = "none" /\ tx_in = <<>> /\ tx_out = <<>>
TXNext ==
  /\ tx_job = "none"
  /\ \/ /\ tx_job' = "quoted" /\ \E w \in TxWords : tx_in' = w
        /\ tx_out' = fish_parse_args(Joined([i \in DOMAIN tx_in' |-> Quoted(tx_in'[i])]))
     \/ /\ tx_job' = "glob" /\ \E w \in TxPatterns : tx_in' = w
        /\ tx_out' = fish_expand_wildcard_args(tx_in')
     \/ /\ tx_job' = "pipes" /\ \E l \in TxLines : tx_in' = l
        /\ tx_out' = fish_parse_pipes(tx_in')
     \/ /\ tx_job' = "math" /\ \E e \in TxExprs : tx_in' = e
        /\ tx_out' = MathOf(Written(tx_in', 1))
     \/ /\ tx_job' = "number" /\ \E n \in Least .. -Least - 1 : tx_in' = n
        /\ tx_out' = fish_int_to_str(tx_in')
     \/ /\ tx_job' = "echo" /\ \E w \in TxWords : tx_in' = w
        /\ tx_out' = fish_cmd_echo([i \in DOMAIN tx_in' |-> Expand(tx_in'[i])])
     \/ /\ tx_job' = "escapes" /\ \E w \in TxWords : tx_in' = w
        /\ tx_out' = fish_cmd_echo(<< <<Minus, Code("e"), Code("n")>> >> \o
                       [i \in DOMAIN tx_in' |-> Expand(Slashed(Slashed(Escaped(tx_in'[i]))))])
     \/ /\ tx_job' = "printf" /\ \E f \in TxFormats : tx_in' = f
        /\ tx_out' = dispatch_printf(Slashed(FoldLeft(LAMBDA o, it : o \o ItemFormat(it), <<>>, tx_in'.items)), tx_in'.args)

----------------------------------------------------------------------------
\* What a piece of a line asks for: the first sign that redirects.
FirstSign(p) == Min({i \in DOMAIN p : p[i] \in {Gt, Lt}})
\* Words in quotes come back as they were, empty ones included, up to the limits of
\* the shell; a pattern without a star gives exactly the names it matches, in the
\* order of the directory, at its place among the other arguments; every piece of a
\* line that is not blank becomes a command, in order, with no bar in it, and its
\* first sign decides where it is redirected; an expression is worth what precedence
\* and brackets say, read to its end, unless the machine cannot divide; every number
\* but the least can be read back; echo and printf print their words, with escapes
\* undone once for the shell, once for echo and once for the option, and nothing of
\* what an argument's row held before.
TextsAgree ==
  /\ tx_job = "quoted" /\ (\A i \in DOMAIN tx_in : {Tick, Quote} \ ToSet(tx_in[i]) # {}) =>
       tx_out = CutTo([i \in DOMAIN tx_in |-> CutTo(tx_in[i], TxArg - 1)], TxArgs)
  /\ tx_job = "glob" =>
       LET Names(a) == LET d == Max({0} \cup {i \in DOMAIN a : a[i] = Slash})
                           dir == IF d = 0 THEN <<Slash>> ELSE SubSeq(a, 1, d)
                           ns == IF dir \in DOMAIN TxDirs THEN SelectSeq(TxDirs[dir], LAMBDA e : Len(e.name) = Len(a) - d
                                   /\ \A k \in DOMAIN e.name : a[d + k] = Query \/ a[d + k] = e.name[k]) ELSE <<>>
                       IN [k \in DOMAIN ns |-> CutTo(dir \o ns[k].name \o (IF ns[k].dir THEN <<Slash>> ELSE <<>>), TxArg - 1)]
           Due(a) == IF Query \notin ToSet(a) \/ Names(a) = <<>> THEN <<a>> ELSE CutTo(Names(a), TxMatches)
       IN (\A i \in DOMAIN tx_in : Star \notin ToSet(tx_in[i])) =>
            tx_out = CutTo(FoldLeft(LAMBDA o, a : o \o Due(a), <<>>, tx_in), TxArgs)
  /\ tx_job = "pipes" =>
       LET pieces == SelectSeq(PiecesOf(tx_in), LAMBDA p : p # <<>>) IN
       /\ Len(tx_out) = Min({Len(pieces), TxPipes})
       /\ \A k \in DOMAIN tx_out :
            LET p == pieces[k]  r == tx_out[k]  i == FirstSign(p) IN
            /\ BarSign \notin ToSet(r.cmd) /\ IsPrefix(r.cmd, p)
            /\ (r.redir = "none") = (ToSet(p) \cap {Gt, Lt} = {})
            /\ r.redir = "in" => p[i] = Lt
            /\ r.redir \in {"err", "err-append", "err-out"} => i > 1 /\ p[i] = Gt /\ p[i - 1] = 50
            /\ r.redir \in {"out", "append"} => p[i] = Gt /\ (i = 1 \/ p[i - 1] # 50)
            /\ r.redir # "none" => Blank \notin ToSet(r.file)
  /\ tx_job = "math" => /\ tx_out.p = Len(Written(tx_in, 1)) + 1
                        /\ tx_out.trap = (Value(tx_in) = NoValue)
                        /\ ~tx_out.trap => tx_out.v = Value(tx_in)
  /\ tx_job = "number" /\ tx_in # Least => fish_atoi(tx_out) = tx_in /\ Cardinality({i \in DOMAIN tx_out : ~DigitCode(tx_out[i])}) = (IF tx_in < 0 THEN 1 ELSE 0)
  /\ tx_job = "echo" /\ (\A i \in DOMAIN tx_in : BackSlash \notin ToSet(tx_in[i]) /\ CharAt(tx_in[i], 1) # Minus) =>
       tx_out = Append(Joined([i \in DOMAIN tx_in |-> CutTo(tx_in[i], TxArg - 1)]), Nl)
  /\ tx_job = "escapes" /\ (\A i \in DOMAIN tx_in : Len(Slashed(Slashed(Escaped(tx_in[i])))) < TxArg /\ CharAt(tx_in[i], 1) # Minus) =>
       tx_out = Joined(tx_in)
  /\ tx_job = "printf" =>
       LET its == tx_in.items
           Nth(i) == Cardinality({j \in 1 .. i : its[j][1] # "text"})
       IN tx_out = FoldLeft(LAMBDA o, i : o \o Shown(its[i], Nth(i) <= Len(tx_in.args)), <<>>, [i \in DOMAIN its |-> i])
=============================================================================
