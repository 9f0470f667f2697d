-------------------------------- MODULE SAwk --------------------------------
(***************************************************************************)
(* The awk of the fish shell (shell/awk.c): a program is parsed into rules *)
(* once, BEGIN rules run, every line of the text is cut into fields and    *)
(* given to the other rules, END rules run.  A text is a sequence of ASCII *)
(* codes.  A program is a sequence of tokens [w, n, s]: a word or one sign *)
(* in w, or "num", "str", "re" with the number or the characters.  Blanks  *)
(* between tokens are skipped wherever the parser looks, so they are left  *)
(* out; no word of a program begins with a keyword and goes on.            *)
(***************************************************************************)
EXTENDS Integers, Sequences, FiniteSets, SequencesExt, FiniteSetsExt

CONSTANTS
  AwFields,    \* AWK_MAX_FIELDS
  AwStmts,     \* AWK_MAX_STMTS
  AwVars,      \* AWK_MAX_VARS
  AwVarLen,    \* bytes of a variable's text
  AwBits,      \* width of a number
  AwFuel,      \* rounds of a loop after which a run counts as endless
  AwInputs     \* [job, text, fs]: a program with a known answer (JobRules, Promise), its input,
               \* and the separator: the default or what -F gives

VARIABLES aw_phase, aw_in, aw_at, aw_prog
awVars == <<aw_phase, aw_in, aw_at, aw_prog>>

AwNl == 10
AwCut(s, n) == SubSeq(s, 1, Min({Len(s), n}))
AwTail(s, i) == SubSeq(s, i, Len(s))
AwWrap(n) == ((n + 2 ^ (AwBits - 1)) % (2 ^ AwBits)) - 2 ^ (AwBits - 1)
AwDigit(c) == c \in 48 .. 57
AwDigits(s) == AwCut(s, Min({i \in 1 .. Len(s) + 1 : i = Len(s) + 1 \/ ~AwDigit(s[i])}) - 1)
awks_atoi(s) ==
  LET neg == s # <<>> /\ s[1] = 45
      n == FoldLeft(LAMBDA v, c : AwWrap(v * 10 + c - 48), 0, AwDigits(IF neg THEN Tail(s) ELSE s))
  IN IF neg THEN AwWrap(-n) ELSE n
RECURSIVE DigitsOf(_)
DigitsOf(n) == IF n < 10 THEN <<48 + n>> ELSE Append(DigitsOf(n \div 10), 48 + (n % 10))
awks_itoa(n) == IF n < 0 THEN <<45>> \o DigitsOf(-n) ELSE DigitsOf(n)
\* The sign of what strcmp returns.
awks_strcmp(a, b) ==
  LET d == {i \in 1 .. Min({Len(a), Len(b)}) : a[i] # b[i]} IN
  IF d # {} THEN (IF a[Min(d)] < b[Min(d)] THEN -1 ELSE 1)
  ELSE IF Len(a) = Len(b) THEN 0 ELSE IF Len(a) < Len(b) THEN -1 ELSE 1

----------------------------------------------------------------------------
(* Regular expressions: a pattern becomes a row of nodes [type, q, chars,   *)
(* neg], q the flag 0x80 that a quantifier sets on the node before it.      *)

RgxNode(t, cs, neg) == [type |-> t, q |-> FALSE, chars |-> cs, neg |-> neg]
RgxSign(c) == CASE c = 94 -> "start" [] c = 36 -> "end" [] c = 46 -> "dot" [] c = 42 -> "star" [] c = 43 -> "plus"
                [] c = 63 -> "question" [] c = 40 -> "open" [] c = 41 -> "close" [] c = 124 -> "alt" [] OTHER -> "literal"
Quantifiers == {"star", "plus", "question"}
\* The first bracket that closes the class opened at position i and is not its first character; 0: none.
rgx_find_class_end(p, i) == Min({k \in i + 2 .. Len(p) : p[k] = 93} \cup {Len(p) + 1}) % (Len(p) + 1)

RECURSIVE RgxNodes(_, _, _)
RgxNodes(p, i, nodes) ==
  IF i > Len(p) THEN nodes
  ELSE LET c == p[i]  end == rgx_find_class_end(p, i)  t == RgxSign(c) IN
  IF c = 92 THEN (IF i = Len(p) THEN nodes ELSE RgxNodes(p, i + 2, Append(nodes, RgxNode("literal", {p[i + 1]}, FALSE))))
  ELSE IF c = 91 /\ end > 0
    THEN LET neg == p[i + 1] = 94 IN
         RgxNodes(p, end + 1, Append(nodes, RgxNode("class", ToSet(SubSeq(p, IF neg THEN i + 2 ELSE i + 1, end - 1)), neg)))
  ELSE LET before == IF t \in Quantifiers /\ nodes # <<>> THEN [nodes EXCEPT ![Len(nodes)].q = TRUE] ELSE nodes
       IN RgxNodes(p, i + 1, Append(before, RgxNode(t, IF t = "literal" THEN {c} ELSE {}, FALSE)))
rgx_compile(p) == RgxNodes(p, 1, <<>>)

\* What a node that stands for one character accepts.
RgxAccepts(node, c) ==
  CASE node.type = "dot" -> c # AwNl
    [] node.type \in {"literal", "class"} -> (c \in node.chars) # node.neg
    [] OTHER -> FALSE
\* A quantifier looks at the node before it, whose type the flag hides: no character passes.
RgxRepeats(prev, c) == ~prev.q /\ RgxAccepts(prev, c)

\* Whether the nodes from k on match the text from position i (0: its beginning).
RECURSIVE rgx_match_at(_, _, _, _)
rgx_match_at(rx, k, s, i) ==
  IF k > Len(rx) THEN TRUE
  ELSE LET node == rx[k]
           run == Min({j \in i .. Len(s) : j = Len(s) \/ ~RgxRepeats(rx[k - 1], s[j + 1])}) IN
  IF node.type \in Quantifiers /\ ~node.q
  THEN /\ k > 1
       /\ \/ node.type = "star" /\ rgx_match_at(rx, k + 1, s, run)
          \/ node.type = "plus" /\ run > i /\ rgx_match_at(rx, k + 1, s, run)
          \/ node.type = "question" /\ run > i /\ rgx_match_at(rx, k + 1, s, i + 1)
          \/ node.type = "question" /\ rgx_match_at(rx, k + 1, s, i)
  ELSE /\ i < Len(s)
       /\ \/ node.type = "start" /\ i = 0 /\ rgx_match_at(rx, k + 1, s, i)
          \/ node.type = "end" /\ s[i + 1] = AwNl /\ rgx_match_at(rx, k + 1, s, i)
          \/ RgxAccepts(node, s[i + 1]) /\ rgx_match_at(rx, k + 1, s, i + 1)

rgx_match(rx, s) ==
  /\ rx # <<>>
  /\ IF rx[1].type = "start" /\ ~rx[1].q THEN rgx_match_at(rx, 2, s, 0)
     ELSE \E i \in 0 .. Len(s) : rgx_match_at(rx, 1, s, i)
\* The position of the first match, -1 if there is none.
Earliest(S) == IF S = {} THEN -1 ELSE Min(S)
rgx_find(rx, s) ==
  IF rx = <<>> THEN -1
  ELSE IF rx[1].type = "start" /\ ~rx[1].q THEN (IF rgx_match_at(rx, 2, s, 0) THEN 0 ELSE -1)
  ELSE Earliest({i \in 0 .. Len(s) - 1 : rgx_match_at(rx, 1, s, i)})

----------------------------------------------------------------------------
(* The parser.  Each function takes the tokens and a position and returns   *)
(* what it read and the position behind it.  Expressions are <<"num", n>>,  *)
(* <<"str", s>>, <<"field", k>>, <<"dollar0">>, <<"var", x>>, <<"length">>  *)
(* or <<"int">> with or without an argument, and <<operator, e, f>>.  The   *)
(* nodes come from pools of 16 to 64, which no program here uses up.        *)

awk_peek(in, i) == IF i > Len(in) THEN "" ELSE in[i].w
awk_skip(in, i, w) == IF awk_peek(in, i) = w THEN i + 1 ELSE i
awk_match_str(in, i, ws) == \A k \in DOMAIN ws : awk_peek(in, i + k - 1) = ws[k]
AwSigns == {"(", ")", "{", "}", ";", ",", "=", "!", "<", ">", "+", "-", "*", "/", "%", "$", "|"}
IsName(w) == w \notin AwSigns \cup {"", "num", "str", "re"}

\* What was read, with the sign w behind it skipped; a tree with one more branch.
Past(in, r, w) == <<r[1], awk_skip(in, r[2], w)>>
With(r, x) == <<Append(r[1], x[1]), x[2]>>
Tree(t, i) == <<t, i>>
Joined2(op, l, r) == << <<op, l[1], r[1]>>, r[2]>>

RECURSIVE MulRest(_, _), AddRest(_, _), awk_parse_expr(_, _)
Parenthesized(in, i) == Past(in, awk_parse_expr(in, i + 1), ")")
awk_parse_primary(in, i) ==
  LET w == awk_peek(in, i)  w2 == awk_peek(in, i + 1) IN
  CASE w = "num" -> Tree(<<"num", in[i].n>>, i + 1)
    [] w = "-" /\ w2 = "num" -> Tree(<<"num", -in[i + 1].n>>, i + 2)
    [] w = "str" -> Tree(<<"str", in[i].s>>, i + 1)
    [] w = "$" -> IF w2 # "num" THEN Tree(<<"field", 1>>, i + 1)
                  ELSE Tree(IF in[i + 1].n = 0 THEN <<"dollar0">> ELSE <<"field", in[i + 1].n>>, i + 2)
    [] w = "(" -> Parenthesized(in, i)
    [] w \in {"length", "int"} -> IF w2 = "(" THEN With(Tree(<<w>>, i), Parenthesized(in, i + 1)) ELSE Tree(<<w>>, i + 1)
    [] IsName(w) /\ w \notin {"length", "int"} -> Tree(<<"var", w>>, i + 1)
    [] OTHER -> Tree(<<"num", 0>>, i)
MulRest(in, l) ==
  IF awk_peek(in, l[2]) \notin {"*", "/", "%"} THEN l
  ELSE MulRest(in, Joined2(in[l[2]].w, l, awk_parse_primary(in, l[2] + 1)))
awk_parse_mul(in, i) == MulRest(in, awk_parse_primary(in, i))
AddRest(in, l) ==
  IF awk_peek(in, l[2]) \notin {"+", "-"} THEN l
  ELSE AddRest(in, Joined2(in[l[2]].w, l, awk_parse_mul(in, l[2] + 1)))
awk_parse_add(in, i) == AddRest(in, awk_parse_mul(in, i))
\* At most one comparison: it does not associate.
Comparisons == << <<"==", <<"=", "=">> >>, <<"!=", <<"!", "=">> >>, <<">=", <<">", "=">> >>, <<"<=", <<"<", "=">> >>, <<">", <<">">> >>, <<"<", <<"<">> >> >>
CmpRest(in, l) ==
  LET found == {k \in DOMAIN Comparisons : awk_match_str(in, l[2], Comparisons[k][2])}
      c == Comparisons[Min(found)]
  IN IF found = {} THEN l ELSE Joined2(c[1], l, awk_parse_add(in, l[2] + Len(c[2])))
awk_parse_cmp(in, i) == CmpRest(in, awk_parse_add(in, i))
awk_parse_expr(in, i) == awk_parse_cmp(in, i)

\* Statements are <<"print", es>>, <<"if", e, body, else>>, <<"while", e, body>>,
\* <<"for", init, e, incr, body>>, <<"break">>, <<"continue">>, <<"next">>,
\* <<"block", body>>, <<"assign", x, e>> and <<"expr", e>>; <<>> stands for no
\* statement.  "print" is tested before "printf", so that one is never a statement.
RECURSIVE PrintArgs(_, _), StmtList(_, _), awk_parse_stmt(_, _)
PrintArgs(in, r) ==
  IF awk_peek(in, r[2]) \in {"", ";", "}", ">", "|"} \/ Len(r[1]) >= AwFields THEN r
  ELSE PrintArgs(in, With(r, Past(in, awk_parse_expr(in, r[2]), ",")))
StmtList(in, r) ==
  IF awk_peek(in, r[2]) \in {"", "}"} \/ Len(r[1]) >= AwStmts THEN r
  ELSE StmtList(in, With(r, Past(in, awk_parse_stmt(in, r[2]), ";")))
awk_parse_stmt_list(in, i) == StmtList(in, Tree(<<>>, i))
\* A list in braces; without them one statement, or for a loop nothing.
Body(in, i, bare) ==
  IF awk_peek(in, i) = "{" THEN Past(in, awk_parse_stmt_list(in, i + 1), "}")
  ELSE IF bare THEN With(Tree(<<>>, i), awk_parse_stmt(in, i))
  ELSE Tree(<<>>, i)
AwCondition(in, i) == Past(in, awk_parse_expr(in, awk_skip(in, i, "(")), ")")
StmtUnless(in, i, w) == IF awk_peek(in, i) = w THEN Tree(<<>>, i) ELSE awk_parse_stmt(in, i)

IfBody(in, r) == With(r, Body(in, r[2], TRUE))
IfElse(in, r) == With(r, IF awk_peek(in, r[2]) = "else" THEN Body(in, r[2] + 1, TRUE) ELSE Tree(<<>>, r[2]))
LoopBody(in, r) == With(r, Body(in, r[2], FALSE))
ForInit(in, i) == With(Tree(<<"for">>, i), Past(in, StmtUnless(in, awk_skip(in, i + 1, "("), ";"), ";"))
ForCond(in, r) == With(r, Past(in, awk_parse_expr(in, r[2]), ";"))
ForIncr(in, r) == With(r, Past(in, StmtUnless(in, r[2], ")"), ")"))
awk_parse_stmt(in, i) ==
  LET w == awk_peek(in, i) IN
  CASE w = "print" -> With(Tree(<<w>>, i), PrintArgs(in, Tree(<<>>, i + 1)))
    [] w = "if" -> IfElse(in, IfBody(in, With(Tree(<<w>>, i), AwCondition(in, i + 1))))
    [] w = "while" -> LoopBody(in, With(Tree(<<w>>, i), AwCondition(in, i + 1)))
    [] w = "for" -> LoopBody(in, ForIncr(in, ForCond(in, ForInit(in, i))))
    [] w \in {"break", "continue", "next"} -> Tree(<<w>>, i + 1)
    [] w = "{" -> With(Tree(<<"block">>, i), Body(in, i, FALSE))
    [] OTHER ->
         IF IsName(w) /\ awk_peek(in, i + 1) = "=" THEN With(Tree(<<"assign", w>>, i), awk_parse_expr(in, i + 2))
         ELSE With(Tree(<<"expr">>, i), awk_parse_expr(in, i))

\* A rule is [pat, regex, has, action]; an expression before a block is skipped.
RECURSIVE RulesFrom(_, _)
RuleAt(in, i, pat) ==
  LET start == IF pat # "always" THEN i + 1 ELSE Min({k \in i .. Len(in) : in[k].w = "{"} \cup {Len(in) + 1})
      Rule(b) == Tree([pat |-> pat, regex |-> IF pat = "regex" THEN rgx_compile(in[i].s) ELSE <<>>,
                       has |-> awk_peek(in, start) = "{", action |-> b[1]], b[2])
  IN Rule(Body(in, start, FALSE))
RulesFrom(in, r) ==
  LET w == awk_peek(in, r[2])
      pat == CASE w = "BEGIN" -> "begin" [] w = "END" -> "end" [] w = "re" -> "regex" [] OTHER -> "always"
  IN IF r[2] > Len(in) THEN r[1] ELSE RulesFrom(in, With(r, RuleAt(in, r[2], pat)))
awk_parse(in) == RulesFrom(in, Tree(<<>>, 1))

----------------------------------------------------------------------------
(* Variables, fields and expressions.  A value is [s, n, num]: its text,    *)
(* its number, and whether it is a number.  The texts here are shorter than *)
(* the buffers they pass through, a variable's excepted.                    *)

AwNumber(n) == [s |-> awks_itoa(n), n |-> n, num |-> TRUE]
AwString(s) == [s |-> s, n |-> awks_atoi(s), num |-> FALSE]
\* awk_init, with the separator the shell was given.
awk_init(fs) ==
  [rules |-> <<>>, fs |-> fs, ofs |-> <<32>>, rs |-> <<AwNl>>, nr |-> 0, nf |-> 0, fields |-> [k \in 0 .. AwFields - 1 |-> <<>>],
   vars |-> <<>>, out |-> <<>>, next |-> FALSE, brk |-> FALSE, cont |-> FALSE, hung |-> FALSE]

VarSlot(p, x) == {i \in DOMAIN p.vars : p.vars[i].name = x}
awk_var_set(p, x, v) ==
  LET cut == AwCut(v.s, AwVarLen - 1)
      Entry(n) == IF v.num THEN [name |-> x, v |-> v] ELSE [name |-> x, v |-> [s |-> cut, n |-> n, num |-> FALSE]]
  IN IF VarSlot(p, x) # {} THEN [p EXCEPT !.vars[Min(VarSlot(p, x))] = Entry(awks_atoi(cut))]
     ELSE IF Len(p.vars) >= AwVars THEN p
     ELSE [p EXCEPT !.vars = Append(@, Entry(awks_atoi(v.s)))]
VarEntry(p, x) == IF VarSlot(p, x) = {} THEN [s |-> <<>>, n |-> 0, num |-> FALSE] ELSE p.vars[Min(VarSlot(p, x))].v
awk_var_get(p, x) ==
  CASE x = "NR" -> AwNumber(p.nr)
    [] x = "NF" -> AwNumber(p.nf)
    [] x = "FS" -> [s |-> p.fs, n |-> 0, num |-> FALSE]
    [] x = "OFS" -> [s |-> p.ofs, n |-> 0, num |-> FALSE]
    [] x = "FILENAME" -> [s |-> <<>>, n |-> 0, num |-> FALSE]
    [] x = "RS" -> [VarEntry(p, x) EXCEPT !.s = p.rs]
    [] x = "FNR" -> [VarEntry(p, x) EXCEPT !.n = p.nr]
    [] OTHER -> VarEntry(p, x)

\* The pieces a line is cut into: at every separator of one character, or behind the
\* first character of every match.  A blank is a separator like any other.
PiecesAt(cuts, line) ==
  LET at == SetToSortSeq(cuts, <) IN
  [k \in 1 .. Len(at) + 1 |-> SubSeq(line, IF k = 1 THEN 1 ELSE at[k - 1] + 1, IF k > Len(at) THEN Len(line) ELSE at[k] - 1)]
RECURSIVE PiecesByRegex(_, _)
CutAt(rx, line, at) == IF at < 0 THEN <<line>> ELSE <<AwCut(line, at)>> \o PiecesByRegex(rx, AwTail(line, at + 2))
PiecesByRegex(rx, line) == IF line = <<>> THEN <<>> ELSE CutAt(rx, line, rgx_find(rx, line))
\* The fields array is static: what the record does not fill keeps what it held.
FieldsFilled(p, line, pieces) ==
  LET nf == Min({Len(pieces), AwFields - 1})
  IN [p EXCEPT !.nf = nf, !.fields = [k \in DOMAIN @ |-> IF k = 0 THEN line ELSE IF k <= nf THEN pieces[k] ELSE @[k]]]
awk_split_fields(p, line) ==
  FieldsFilled(p, line, IF Len(p.fs) = 1 THEN PiecesAt({i \in DOMAIN line : line[i] = p.fs[1]}, line)
                  ELSE PiecesByRegex(rgx_compile(p.fs), line))
awk_get_field(p, k) == IF k < 0 \/ k > p.nf THEN <<>> ELSE p.fields[k]

AsNumber(v) == IF v.num THEN v.n ELSE awks_atoi(v.s)
\* Division as the machine has it: towards zero, and 0 where it is undefined.
Magnitude(n) == IF n < 0 THEN -n ELSE n
AwQuotient(a, b) ==
  IF b = 0 THEN 0 ELSE IF (a < 0) = (b < 0) THEN Magnitude(a) \div Magnitude(b) ELSE -(Magnitude(a) \div Magnitude(b))
Arithmetic(op, a, b) ==
  AwWrap(CASE op = "+" -> a + b [] op = "-" -> a - b [] op = "*" -> a * b
           [] op = "/" -> AwQuotient(a, b) [] op = "%" -> IF b = 0 THEN 0 ELSE a - b * AwQuotient(a, b))
Compares(op, a, b) ==
  CASE op = "==" -> a = b [] op = "!=" -> a # b [] op = ">" -> a > b [] op = ">=" -> a >= b [] op = "<" -> a < b [] op = "<=" -> a <= b
RECURSIVE awk_eval_expr(_, _)
awk_eval_expr(p, e) ==
  CASE e[1] = "num" -> AwNumber(e[2])
    [] e[1] = "str" -> AwString(e[2])
    [] e[1] = "field" -> AwString(awk_get_field(p, e[2]))
    [] e[1] = "dollar0" -> AwString(awk_get_field(p, 0))
    [] e[1] = "var" -> awk_var_get(p, e[2])
    [] e[1] = "length" -> IF Len(e) = 1 THEN AwNumber(Len(awk_get_field(p, 0)))
                          ELSE LET v == awk_eval_expr(p, e[2]) IN [s |-> v.s, n |-> Len(v.s), num |-> TRUE]
    [] e[1] = "int" -> AwNumber(IF Len(e) = 1 THEN 0 ELSE AsNumber(awk_eval_expr(p, e[2])))
    [] e[1] \in {"+", "-", "*", "/", "%"} ->
         AwNumber(Arithmetic(e[1], AsNumber(awk_eval_expr(p, e[2])), AsNumber(awk_eval_expr(p, e[3]))))
    [] OTHER ->
         LET a == awk_eval_expr(p, e[2])  b == awk_eval_expr(p, e[3])
             yes == IF ~a.num /\ ~b.num THEN Compares(e[1], awks_strcmp(a.s, b.s), 0) ELSE Compares(e[1], AsNumber(a), AsNumber(b))
         IN AwNumber(IF yes THEN 1 ELSE 0)
AwPrinted(v) == IF v.num THEN awks_itoa(v.n) ELSE v.s

----------------------------------------------------------------------------
(* Statements and records.                                                  *)

RECURSIVE awk_exec_stmt(_, _), ExecFrom(_, _, _), Rounds(_, _, _, _, _), AfterBody(_, _, _, _, _)
\* A list ends after a statement that leaves a flag up.
ExecFrom(p, list, i) ==
  IF i > Len(list) \/ (i > 1 /\ (p.next \/ p.brk \/ p.cont \/ p.hung)) THEN p
  ELSE ExecFrom(awk_exec_stmt(p, list[i]), list, i + 1)
awk_exec_stmt_list(p, list) == ExecFrom(p, list, 1)
\* A loop: the flags of break and continue are taken back by the loop they leave.
Rounds(p, cond, body, incr, fuel) ==
  IF p.hung \/ awk_eval_expr(p, cond).n = 0 THEN p
  ELSE IF fuel = 0 THEN [p EXCEPT !.hung = TRUE]
  ELSE AfterBody(awk_exec_stmt_list(p, body), cond, body, incr, fuel - 1)
AfterBody(p, cond, body, incr, fuel) ==
  IF p.brk THEN [p EXCEPT !.brk = FALSE]
  ELSE Rounds(IF incr = <<>> THEN [p EXCEPT !.cont = FALSE] ELSE awk_exec_stmt([p EXCEPT !.cont = FALSE], incr), cond, body, incr, fuel)
awk_exec_stmt(p, s) ==
  CASE s[1] = "print" ->
         LET texts == [i \in DOMAIN s[2] |-> (IF i > 1 THEN p.ofs ELSE <<>>) \o AwPrinted(awk_eval_expr(p, s[2][i]))]
         IN [p EXCEPT !.out = @ \o FlattenSeq(texts) \o <<AwNl>>]
    [] s[1] = "assign" -> awk_var_set(p, s[2], awk_eval_expr(p, s[3]))
    [] s[1] = "expr" -> p
    [] s[1] = "if" -> awk_exec_stmt_list(p, IF awk_eval_expr(p, s[2]).n # 0 THEN s[3] ELSE s[4])
    [] s[1] = "while" -> Rounds(p, s[2], s[3], <<>>, AwFuel)
    [] s[1] = "for" -> Rounds(IF s[2] = <<>> THEN p ELSE awk_exec_stmt(p, s[2]), s[3], s[5], s[4], AwFuel)
    [] s[1] = "break" -> [p EXCEPT !.brk = TRUE]
    [] s[1] = "continue" -> [p EXCEPT !.cont = TRUE]
    [] s[1] = "next" -> [p EXCEPT !.next = TRUE]
    [] s[1] = "block" -> awk_exec_stmt_list(p, s[2])

awk_pattern_matches(p, rule) ==
  CASE rule.pat = "always" -> TRUE
    [] rule.pat \in {"begin", "end"} -> FALSE
    [] rule.pat = "regex" -> rgx_match(rule.regex, p.fields[0])
awk_process_record(p, line) ==
  LET Run(q, rule) ==
        IF q.next \/ q.hung \/ ~awk_pattern_matches(q, rule) THEN q
        ELSE IF rule.has THEN awk_exec_stmt_list(q, rule.action)
        ELSE [q EXCEPT !.out = @ \o q.fields[0] \o <<AwNl>>]
  IN FoldLeft(Run, awk_split_fields([p EXCEPT !.nr = @ + 1, !.next = FALSE], line), p.rules)
\* The BEGIN or the END rules, one after the other.
RunRules(p, pat) ==
  FoldLeft(LAMBDA q, rule : IF rule.pat = pat /\ rule.has /\ ~q.hung THEN awk_exec_stmt_list(q, rule.action) ELSE q, p, p.rules)

----------------------------------------------------------------------------
(* Programs and what they are worth.  A job is a program given as a tree,   *)
(* so that its text is written from the tree and not the other way round.   *)

AwTok(w) == [w |-> w, n |-> 0, s |-> <<>>]
AwStrength(op) == CASE op \in {"==", "!=", ">", ">=", "<", "<="} -> 1 [] op \in {"+", "-"} -> 2 [] op \in {"*", "/", "%"} -> 3 [] OTHER -> 4
OpTokens(op) ==
  IF AwStrength(op) > 1 THEN <<AwTok(op)>>
  ELSE LET c == CHOOSE k \in DOMAIN Comparisons : Comparisons[k][1] = op IN [i \in DOMAIN Comparisons[c][2] |-> AwTok(Comparisons[c][2][i])]
RECURSIVE ExprTokens(_, _), StmtTokens(_)
ExprTokens(e, least) ==
  LET st == AwStrength(e[1])
      bare == CASE e[1] = "num" -> (IF e[2] < 0 THEN <<AwTok("-")>> ELSE <<>>) \o <<[AwTok("num") EXCEPT !.n = Magnitude(e[2])]>>
                [] e[1] = "str" -> <<[AwTok("str") EXCEPT !.s = e[2]]>>
                [] e[1] = "field" -> <<AwTok("$"), [AwTok("num") EXCEPT !.n = e[2]]>>
                [] e[1] = "dollar0" -> <<AwTok("$"), AwTok("num")>>
                [] e[1] = "var" -> <<AwTok(e[2])>>
                [] e[1] \in {"length", "int"} -> <<AwTok(e[1])>> \o (IF Len(e) = 1 THEN <<>> ELSE <<AwTok("(")>> \o ExprTokens(e[2], 1) \o <<AwTok(")")>>)
                [] OTHER -> ExprTokens(e[2], IF st = 1 THEN 2 ELSE st) \o OpTokens(e[1]) \o ExprTokens(e[3], st + 1)
  IN IF st < least THEN <<AwTok("(")>> \o bare \o <<AwTok(")")>> ELSE bare
Enclosed(a, ts, b) == <<AwTok(a)>> \o ts \o <<AwTok(b)>>
Listed(list) == Enclosed("{", FlattenSeq([i \in DOMAIN list |-> StmtTokens(list[i]) \o <<AwTok(";")>>]), "}")
StmtTokens(s) ==
  CASE s[1] = "print" -> <<AwTok("print")>> \o FlattenSeq([i \in DOMAIN s[2] |-> (IF i > 1 THEN <<AwTok(",")>> ELSE <<>>) \o ExprTokens(s[2][i], 1)])
    [] s[1] = "assign" -> <<AwTok(s[2]), AwTok("=")>> \o ExprTokens(s[3], 1)
    [] s[1] = "if" -> <<AwTok("if")>> \o Enclosed("(", ExprTokens(s[2], 1), ")") \o Listed(s[3])
                      \o (IF s[4] = <<>> THEN <<>> ELSE <<AwTok("else")>> \o Listed(s[4]))
    [] s[1] = "while" -> <<AwTok("while")>> \o Enclosed("(", ExprTokens(s[2], 1), ")") \o Listed(s[3])
    [] s[1] = "for" -> <<AwTok("for")>> \o Enclosed("(", StmtTokens(s[2]) \o <<AwTok(";")>> \o ExprTokens(s[3], 1) \o <<AwTok(";")>> \o StmtTokens(s[4]), ")") \o Listed(s[5])
    [] s[1] = "block" -> Listed(s[2])
    [] s[1] = "expr" -> ExprTokens(s[2], 1)
    [] OTHER -> <<AwTok(s[1])>>
\* A pattern is a row of <<"is", c>>, <<"any">>, <<"in", cs>>, <<"not", cs>>, the first perhaps <<"start">>.
PatternText(items) ==
  FlattenSeq([i \in DOMAIN items |->
    CASE items[i][1] = "is" -> IF RgxSign(items[i][2]) = "literal" THEN <<items[i][2]>> ELSE <<92, items[i][2]>>
      [] items[i][1] = "any" -> <<46>>
      [] items[i][1] = "in" -> <<91>> \o items[i][2] \o <<93>>
      [] items[i][1] = "not" -> <<91, 94>> \o items[i][2] \o <<93>>
      [] items[i][1] = "start" -> <<94>>])
OccursIn(items, line) ==
  LET anchored == items[1][1] = "start"
      row == IF anchored THEN Tail(items) ELSE items
      Fits(it, c) == CASE it[1] = "is" -> c = it[2] [] it[1] = "any" -> TRUE [] it[1] = "in" -> c \in ToSet(it[2]) [] it[1] = "not" -> c \notin ToSet(it[2])
  IN \E i \in (IF anchored THEN {0} ELSE 0 .. Len(line)) : Len(line) >= i + Len(row) /\ \A k \in DOMAIN row : Fits(row[k], line[i + k])

\* A rule of a job: [pat, items, has, action].
JobRule(pat, items, has, action) == [pat |-> pat, items |-> items, has |-> has, action |-> action]
VarE(x) == <<"var", x>>
NumE(n) == <<"num", n>>
CountUp(x) == <<"assign", x, <<"+", VarE(x), NumE(1)>> >>
JobRules(job) ==
  CASE job[1] = "sum" -> << JobRule("always", <<>>, TRUE, << <<"assign", "t", <<"+", VarE("t"), <<"field", 1>> >> >> >>),
                            JobRule("end", <<>>, TRUE, << <<"print", <<VarE("t"), VarE("NR")>> >> >>) >>
    [] job[1] = "greatest" -> << JobRule("always", <<>>, TRUE, << <<"if", <<">", <<"int", <<"field", 1>> >>, VarE("m")>>, << <<"assign", "m", <<"int", <<"field", 1>> >> >> >>, <<>> >> >>),
                                 JobRule("end", <<>>, TRUE, << <<"print", <<<<"int", VarE("m")>> >> >> >>) >>
    [] job[1] = "grep" -> << JobRule("regex", job[2], FALSE, <<>>) >>
    [] job[1] = "unless" -> << JobRule("regex", job[2], TRUE, << <<"block", << <<"next">>, <<"print", <<>> >> >> >> >>),
                               JobRule("always", <<>>, TRUE, << <<"expr", <<"field", 2>> >>, <<"print", << <<"field", 2>>, <<"field", 1>> >> >> >>) >>
    [] job[1] = "fields" -> << JobRule("always", <<>>, TRUE, << <<"print", <<VarE("NF"), <<"field", 1>>, <<"field", 2>>, <<"field", 3>> >> >> >>) >>
    [] job[1] = "copy" -> << JobRule("begin", <<>>, TRUE, << <<"assign", "a", <<"str", <<97>> >> >>, <<"assign", "b", NumE(5)>>, <<"assign", "d", NumE(6)>>, <<"assign", "c", NumE(7)>> >>),
                             JobRule("always", <<>>, TRUE, << <<"assign", "a", <<"dollar0">> >>, <<"print", <<VarE("a"), VarE("b"), VarE("c"), <<"length">> >> >> >>) >>
    [] job[1] = "sort" -> << JobRule("always", <<>>, TRUE,
           << <<"if", <<job[2], <<"field", 1>>, <<"field", 2>> >>, << <<"if", <<"==", <<"field", 1>>, <<"str", <<97>> >> >>, << <<"print", <<NumE(1)>> >> >>, << <<"print", <<NumE(2)>> >> >> >> >>,
                        << <<"print", <<NumE(3)>> >> >> >> >>) >>
    [] job[1] = "count" -> << JobRule("begin", <<>>, TRUE,
           << <<"for", <<"assign", "i", NumE(0)>>, <<"<", VarE("i"), NumE(job[2])>>, CountUp("i"),
                << <<"if", <<"==", VarE("i"), NumE(job[3])>>, << <<"continue">> >>, <<>> >>,
                   <<"if", <<"==", VarE("i"), NumE(job[4])>>, << <<"break">> >>, <<>> >>, <<"print", <<VarE("i")>> >> >> >> >>) >>
    [] job[1] = "nested" -> << JobRule("begin", <<>>, TRUE,
           << <<"assign", "i", NumE(0)>>,
              <<"while", <<"<", VarE("i"), NumE(job[2])>>,
                << <<"assign", "j", NumE(0)>>,
                   <<"while", <<"<", VarE("j"), NumE(job[3])>>, << CountUp("j"), <<"if", <<">", VarE("j"), VarE("i")>>, << <<"break">> >>, <<>> >>, CountUp("k") >> >>,
                   CountUp("i") >> >>,
              <<"print", << <<"+", VarE("k"), NumE(0)>> >> >> >>) >>
    [] job[1] = "value" -> << JobRule("begin", <<>>, TRUE, << <<"print", <<job[2]>> >> >>) >>
RuleTokens(rule) ==
  (CASE rule.pat = "begin" -> <<AwTok("BEGIN")>> [] rule.pat = "end" -> <<AwTok("END")>> [] rule.pat = "always" -> <<>>
     [] rule.pat = "regex" -> <<[AwTok("re") EXCEPT !.s = PatternText(rule.items)]>>)
  \o (IF rule.has THEN Listed(rule.action) ELSE <<>>)
RowTokens(rules) == FlattenSeq([i \in DOMAIN rules |-> RuleTokens(rules[i])])
JobTokens(job) == RowTokens(JobRules(job))

\* The value of an expression over numbers; comparisons are worth 0 or 1.
RECURSIVE WorthOf(_)
WorthOf(e) ==
  IF e[1] = "num" THEN e[2]
  ELSE LET a == WorthOf(e[2])  b == WorthOf(e[3])
           q == CHOOSE q \in -Magnitude(a) .. Magnitude(a) : Magnitude(a - q * b) < Magnitude(b) /\ (a - q * b) * a >= 0 IN
       CASE e[1] = "+" -> AwWrap(a + b) [] e[1] = "-" -> AwWrap(a - b) [] e[1] = "*" -> AwWrap(a * b)
         [] e[1] = "/" -> IF b = 0 THEN 0 ELSE q
         [] e[1] = "%" -> IF b = 0 THEN 0 ELSE a - q * b
         [] OTHER -> IF Compares(e[1], a, b) THEN 1 ELSE 0
AwLines(text) == PiecesAt({i \in DOMAIN text : text[i] = AwNl}, text)
\* What a job prints, a row of lines.
Promise(in) ==
  LET job == in.job
      lines == AwLines(in.text)
      Piece(l, k) == LET ps == PiecesAt({i \in DOMAIN l : l[i] = in.fs[1]}, l) IN IF k <= Min({Len(ps), AwFields - 1}) THEN ps[k] ELSE <<>>
      First(k) == awks_atoi(Piece(lines[k], 1))
      Show(n) == awks_itoa(n)
      Row(parts) == FlattenSeq([i \in DOMAIN parts |-> (IF i > 1 THEN <<32>> ELSE <<>>) \o parts[i]])
      Each(ls, Op(_)) == [k \in DOMAIN ls |-> Op(ls[k])]
  IN
  CASE job[1] = "sum" -> << Row(<<Show(AwWrap(FoldLeft(LAMBDA t, l : t + awks_atoi(Piece(l, 1)), 0, lines))), Show(Len(lines))>>) >>
    [] job[1] = "greatest" -> << Show(Max({0} \cup {First(k) : k \in DOMAIN lines})) >>
    [] job[1] = "grep" -> SelectSeq(lines, LAMBDA l : OccursIn(job[2], l))
    [] job[1] = "unless" -> Each(SelectSeq(lines, LAMBDA l : ~OccursIn(job[2], l)), LAMBDA l : Row(<<Piece(l, 2), Piece(l, 1)>>))
    [] job[1] = "fields" -> Each(lines, LAMBDA l : Row(<<Show(Min({1 + Cardinality({i \in DOMAIN l : l[i] = in.fs[1]}), AwFields - 1})), Piece(l, 1), Piece(l, 2), Piece(l, 3)>>))
    [] job[1] = "copy" -> Each(lines, LAMBDA l : Row(<<AwCut(l, AwVarLen - 1), Show(5), IF AwVars > 3 THEN Show(7) ELSE <<>>, Show(Len(l))>>))
    [] job[1] = "sort" -> Each(lines, LAMBDA l : Show(IF ~Compares(job[2], awks_strcmp(Piece(l, 1), Piece(l, 2)), 0) THEN 3 ELSE IF Piece(l, 1) = <<97>> THEN 1 ELSE 2))
    [] job[1] = "count" -> LET stop == IF job[4] < job[2] /\ job[4] # job[3] THEN job[4] ELSE job[2]
                           IN Each(SetToSortSeq(0 .. stop - 1 \ {job[3]}, <), LAMBDA n : Show(n))
    [] job[1] = "nested" -> << Show(FoldLeft(LAMBDA t, i : t + Min({i - 1, job[3]}), 0, [i \in 1 .. job[2] |-> i])) >>
    [] job[1] = "value" -> << Show(WorthOf(job[2])) >>

----------------------------------------------------------------------------
(* A run of the awk command.                                                *)

AWInit == aw_phase = "idle" /\ aw_in = <<>> /\ aw_at = 0 /\ aw_prog = <<>>
\* fish: the program is parsed after the separator is set.
awk_command(in) ==
  /\ aw_phase = "idle" /\ aw_phase' = "begin"
  /\ aw_in' = in /\ aw_at' = 0
  /\ aw_prog' = [awk_init(in.fs) EXCEPT !.rules = awk_parse(JobTokens(in.job))]
awk_begin ==
  /\ aw_phase = "begin" /\ aw_phase' = "lines"
  /\ aw_prog' = RunRules(aw_prog, "begin")
  /\ UNCHANGED <<aw_in, aw_at>>
\* Every piece between newlines is a record, the one behind the last newline too.
awk_record ==
  /\ aw_phase = "lines" /\ aw_at < Len(AwLines(aw_in.text))
  /\ aw_at' = aw_at + 1
  /\ aw_prog' = awk_process_record(aw_prog, AwLines(aw_in.text)[aw_at + 1])
  /\ UNCHANGED <<aw_phase, aw_in>>
awk_finish ==
  /\ aw_phase = "lines" /\ aw_at = Len(AwLines(aw_in.text)) /\ aw_phase' = "done"
  /\ aw_prog' = RunRules(aw_prog, "end")
  /\ UNCHANGED <<aw_in, aw_at>>
AWNext == \/ \E in \in AwInputs : awk_command(in)
          \/ awk_begin \/ awk_record \/ awk_finish

----------------------------------------------------------------------------
CompiledRules(rules) ==
  [i \in DOMAIN rules |-> [pat |-> rules[i].pat, regex |-> rgx_compile(PatternText(rules[i].items)), has |-> rules[i].has, action |-> rules[i].action]]
EndedLines(rows) == FlattenSeq([k \in DOMAIN rows |-> Append(rows[k], AwNl)])
\* awk.c: a program written from a tree is read as that tree, whatever its operators,
\* nested conditions and loops; the fields of a record, joined by the separator, are
\* the record, unless there are too many; and when the program ends it has printed what
\* the tree means: no field of an earlier record, no loop left or entered again by the
\* flags of another, no rule after "next".
AwkAgrees ==
  /\ aw_phase # "idle" =>
       /\ ~aw_prog.hung
       /\ aw_prog.rules = CompiledRules(JobRules(aw_in.job))
       /\ aw_at > 0 /\ aw_prog.nf < AwFields - 1 =>
            FlattenSeq([k \in 1 .. aw_prog.nf |-> (IF k > 1 THEN aw_prog.fs ELSE <<>>) \o aw_prog.fields[k]]) = AwLines(aw_in.text)[aw_at]
  /\ aw_phase = "done" => aw_prog.out = EndedLines(Promise(aw_in))
=============================================================================
