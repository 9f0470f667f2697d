------------------------------- MODULE S2Tools ------------------------------
(***************************************************************************)
(* The text tools of shell/gnu_tools.c.  Each is a pure function written   *)
(* as the loop of the code, with the limits of its buffers; a state is one *)
(* input and the answer of one tool.  A text is a sequence of characters,  *)
(* a line the sequence of its characters without the newline.              *)
(*                                                                         *)
(* The fish shell calls grep, sort, uniq, wc, head, tr, diff and base64's  *)
(* encoding with arguments of up to 63 characters; nothing calls cut, sed, *)
(* the other forms of tr and base64's decoding yet.  The functions are     *)
(* modelled for every input, also for those that reach the limits.         *)
(***************************************************************************)
EXTENDS Integers, Sequences, FiniteSets, SequencesExt, FiniteSetsExt

CONSTANTS
  TlChars,      \* characters of a text: numbers, so that they are ordered
  TlNl, TlSp,   \* newline and space; every other character is part of a word
  TlUpper, TlCase,  \* the capitals, and how far the small letters are from them
  TlLen,        \* longest text
  TlOut,        \* size of an output buffer, the terminator included
  TlLines,      \* lines the sort buffer holds
  TlBuf,        \* size of an array for a line, 256; sed's two arrays have twice that
  TlBytes       \* bytes given to base64

VARIABLES tl_tool, tl_in, tl_out
tlVars == <<tl_tool, tl_in, tl_out>>

TlTexts == UNION {[1..n -> TlChars] : n \in 0..TlLen}
Positions(s) == [i \in 1..Len(s) |-> i]
\* The numbers of S from the least on.
Ascending(S) == [j \in 1..Cardinality(S) |-> CHOOSE i \in S : Cardinality({k \in S : k <= i}) = j]
\* What fits of s behind out, with the terminator.
Put(out, s, max) == out \o SubSeq(s, 1, Min({Len(s), max - 1 - Len(out)}))

\* The lines the loops of the tools see: cut at newlines, no empty last line.
LinesOf(t) ==
  LET Step(acc, c) == IF c = TlNl THEN [done |-> Append(acc.done, acc.cur), cur |-> <<>>, open |-> FALSE]
                      ELSE [acc EXCEPT !.cur = Append(@, c), !.open = TRUE]
      r == FoldLeft(Step, [done |-> <<>>, cur |-> <<>>, open |-> FALSE], t)
  IN IF r.open THEN Append(r.done, r.cur) ELSE r.done

----------------------------------------------------------------------------
(* head and wc.                                                             *)

gnu_head(t, n) ==
  LET Step(acc, c) == IF acc.lines < n /\ Len(acc.out) < TlOut - 1
                      THEN [out |-> Append(acc.out, c), lines |-> acc.lines + (IF c = TlNl THEN 1 ELSE 0)] ELSE acc
  IN FoldLeft(Step, [out |-> <<>>, lines |-> 0], t).out

IsBlank(c) == c \in {TlSp, TlNl}

gnu_wc(t) ==
  LET Step(acc, i) ==
        [bytes |-> acc.bytes + 1,
         lines |-> acc.lines + (IF t[i] = TlNl THEN 1 ELSE 0),
         longest |-> IF t[i] = TlNl THEN Max({acc.longest, acc.cur}) ELSE acc.longest,
         cur |-> IF t[i] = TlNl THEN 0 ELSE acc.cur + 1,
         words |-> acc.words + (IF ~IsBlank(t[i]) /\ (i = 1 \/ IsBlank(t[i - 1])) THEN 1 ELSE 0)]
      r == FoldLeft(Step, [bytes |-> 0, lines |-> 0, longest |-> 0, cur |-> 0, words |-> 0], Positions(t))
  IN IF t # <<>> /\ Last(t) # TlNl
     THEN [r EXCEPT !.lines = @ + 1, !.longest = Max({@, r.cur})] ELSE r

----------------------------------------------------------------------------
(* cut by fields and by columns, tr in its three forms.                     *)

\* Fields are numbered from 1; a delimiter is written before every wanted field
\* but the first, as long as the buffer has room.
gnu_cut_delimited(line, delim, wanted) ==
  LET Step(acc, i) ==
        IF i <= Len(line) /\ line[i] # delim THEN acc
        ELSE LET field == SubSeq(line, acc.start, i - 1)
                 want == acc.num + 1 \in wanted
             IN [start |-> i + 1, num |-> acc.num + 1, first |-> acc.first /\ ~want,
                 out |-> IF ~want THEN acc.out
                         ELSE Put(IF acc.first THEN acc.out ELSE Put(acc.out, <<delim>>, TlOut), field, TlOut)]
  IN FoldLeft(Step, [start |-> 1, num |-> 0, first |-> TRUE, out |-> <<>>], [i \in 1..Len(line) + 1 |-> i]).out

\* A start of 0 is the first column, an end of 0 or past the line its end.
gnu_cut_chars(line, ranges) ==
  LET Step(out, r) ==
        LET from == IF r[1] = 0 THEN 1 ELSE r[1]
            to == IF r[2] = 0 \/ r[2] > Len(line) THEN Len(line) ELSE r[2]
        IN Put(out, SubSeq(line, from, to), TlOut)
  IN FoldLeft(Step, <<>>, ranges)

gnu_tr(t, from, to) ==
  LET Step(out, c) ==
        LET hits == {j \in 1..Len(from) : from[j] = c}
        IN IF Len(out) >= TlOut - 1 THEN out
           ELSE Append(out, IF hits = {} THEN c ELSE to[Min(hits)])
  IN FoldLeft(Step, <<>>, t)

gnu_tr_delete(t, chars) ==
  LET Step(out, c) == IF c \in chars \/ Len(out) >= TlOut - 1 THEN out ELSE Append(out, c)
  IN FoldLeft(Step, <<>>, t)

gnu_tr_squeeze(t, chars) ==
  LET Step(acc, c) == IF Len(acc.out) >= TlOut - 1 \/ (c \in chars /\ <<c>> = acc.prev) THEN acc
                      ELSE [out |-> Append(acc.out, c), prev |-> <<c>>]
  IN FoldLeft(Step, [out |-> <<>>, prev |-> <<>>], t).out

----------------------------------------------------------------------------
(* sort: a buffer of lines, insertion sort, duplicates removed on demand.   *)
(* The test for reverse order gives the same answers as without it; the     *)
(* orders by number and without regard to case are left out.                *)

gnu_sort_add(buf, line) == IF Len(buf) >= TlLines THEN buf ELSE Append(buf, Put(<<>>, line, TlBuf))

\* Characters up to the first difference, the terminator below all of them.
At(s, i) == IF i <= Len(s) THEN s[i] ELSE 0
gnu_sort_compare(a, b) ==
  LET diff == {i \in 1..Max({Len(a), Len(b)}) : At(a, i) # At(b, i)}
  IN IF diff = {} THEN 0
     ELSE IF At(a, Min(diff)) > At(b, Min(diff)) THEN 1 ELSE -1

Insert(buf, i) ==
  LET tmp == buf[i]
      larger == {j \in 1..i - 1 : \A k \in j..i - 1 : gnu_sort_compare(tmp, buf[k]) < 0}
      at == IF larger = {} THEN i ELSE Min(larger)
  IN [k \in DOMAIN buf |-> IF k = at THEN tmp ELSE IF k > at /\ k <= i THEN buf[k - 1] ELSE buf[k]]

gnu_sort_sort(buf, unique) ==
  LET sorted == FoldLeft(Insert, buf, [k \in 1..Len(buf) - 1 |-> k + 1])
      Keep(out, i) == IF i = 1 \/ sorted[i] # sorted[i - 1] THEN Append(out, sorted[i]) ELSE out
  IN IF unique THEN FoldLeft(Keep, <<>>, Positions(sorted)) ELSE sorted

(***************************************************************************)
(* uniq.  With count_repeats each run but the last one is written behind   *)
(* its length, in four characters, and a blank, for which there need not   *)
(* be room.  prev keeps the beginning of a line that is too long but the   *)
(* length of the whole, so such a line is never equal to the next, and it  *)
(* is written with what lies behind the array: one value stands for that.  *)
(***************************************************************************)
Nul == 0
Stray == -1
Number(n) == [k \in 1..4 |-> -(4 * n + k)]  \* the k-th character of n
Prev(line) == [k \in DOMAIN line |-> IF k < TlBuf THEN line[k] ELSE IF k = TlBuf THEN Nul ELSE Stray]

gnu_uniq_filter(lines, max, count_repeats) ==
  LET PutLine(out, prev) == Put(Put(out, prev, max), <<TlNl>>, max)
      Step(acc, l) ==
        IF ~acc.first /\ l = acc.prev THEN [acc EXCEPT !.repeat = @ + 1]
        ELSE [first |-> FALSE, prev |-> Prev(l), repeat |-> 0,
              out |-> IF acc.first THEN acc.out
                      ELSE IF ~count_repeats THEN PutLine(acc.out, acc.prev)
                      ELSE PutLine(Append(Put(acc.out, Number(acc.repeat + 1), max), TlSp), acc.prev)]
      r == FoldLeft(Step, [first |-> TRUE, prev |-> <<>>, repeat |-> 0, out |-> <<>>], lines)
  IN IF r.first THEN r.out ELSE PutLine(r.out, r.prev)

----------------------------------------------------------------------------
(* grep, sed, diff.                                                         *)

Occurs(t, pat, i) == i + Len(pat) - 1 <= Len(t) /\ SubSeq(t, i, i + Len(pat) - 1) = pat
gnu_strstr(t, pat) == \E i \in 1..Len(t) + 1 : Occurs(t, pat, i)

\* The search is not stopped at the end of the line: it runs to the end of the
\* text, so a line is also reported when only a later one holds the pattern.
\* The answer is the count of -c; without it the shell has no callback to give.
gnu_grep(t, pat) ==
  LET starts == Ascending({i \in 1..Len(t) : i = 1 \/ t[i - 1] = TlNl})
  IN Cardinality({k \in DOMAIN starts : gnu_strstr(SubSeq(t, starts[k], Len(t)), pat)})

TlSmall(c) == IF c \in TlUpper THEN c + TlCase ELSE c
Fold(s) == [i \in DOMAIN s |-> TlSmall(s[i])]
gnu_strncasecmp(s, pat, i) == i + Len(pat) - 1 <= Len(s) /\ Fold(SubSeq(s, i, i + Len(pat) - 1)) = Fold(pat)

\* The commands in order, the first d ends them; p and q do nothing.  A
\* substitution replaces one match, also with its global flag, whatever its
\* case; an empty pattern none.
gnu_sed_apply(line, cmds) ==
  LET Subst(work, c) ==
        FoldLeft(LAMBDA acc, i :
                   IF acc.skip > 0 THEN [acc EXCEPT !.skip = @ - 1]
                   ELSE IF ~acc.replaced /\ gnu_strncasecmp(work, c.pattern, i)
                   THEN [result |-> Put(acc.result, c.replacement, 2 * TlBuf), skip |-> Len(c.pattern) - 1, replaced |-> TRUE]
                   ELSE [acc EXCEPT !.result = Put(@, <<work[i]>>, 2 * TlBuf)],
                 [result |-> <<>>, skip |-> 0, replaced |-> FALSE], Positions(work)).result
      work == FoldLeft(LAMBDA w, c : IF c.cmd = "s" /\ c.pattern # <<>> THEN Subst(w, c) ELSE w,
                       Put(<<>>, line, 2 * TlBuf), cmds)
  IN IF \E i \in DOMAIN cmds : cmds[i].cmd = "d" THEN <<>> ELSE Put(<<>>, work, TlOut)

\* A line that fills its array is split there, and the next character is lost.
DiffLines(t) ==
  LET Step(acc, c) == IF c = TlNl \/ Len(acc.cur) = TlBuf - 1 THEN [done |-> Append(acc.done, acc.cur), cur |-> <<>>]
                      ELSE [acc EXCEPT !.cur = Append(@, c)]
      r == FoldLeft(Step, [done |-> <<>>, cur |-> <<>>], t)
  IN IF r.cur # <<>> THEN Append(r.done, r.cur) ELSE r.done

Line(s, k) == IF k <= Len(s) THEN s[k] ELSE <<>>
\* The k-th lines are compared; a text that has ended counts as empty lines.
gnu_diff(t, u, max_results) ==
  LET a == DiffLines(t)  b == DiffLines(u)
      Add(out, e) == IF Len(out) < max_results THEN Append(out, e) ELSE out
      Step(out, k) == IF Line(a, k) = Line(b, k) THEN out
                      ELSE Add(Add(out, <<k, "<", Line(a, k)>>), <<k, ">", Line(b, k)>>)
  IN FoldLeft(Step, <<>>, [k \in 1..Max({Len(a), Len(b)}) |-> k])

----------------------------------------------------------------------------
(* base64: three bytes make four digits, -1 stands for the padding.         *)

gnu_base64_encode(data, max) ==
  LET Byte(i) == IF i <= Len(data) THEN data[i] ELSE 0
      Group(out, i) ==
        LET n == 65536 * Byte(i) + 256 * Byte(i + 1) + Byte(i + 2)
            left == Len(data) - i + 1
            digits == <<n \div 262144, (n \div 4096) % 64,
                        IF left > 1 THEN (n \div 64) % 64 ELSE -1, IF left > 2 THEN n % 64 ELSE -1>>
        IN IF Len(out) + 4 >= max THEN out ELSE out \o digits
  IN FoldLeft(Group, <<>>, [k \in 1..((Len(data) + 2) \div 3) |-> 3 * k - 2])

gnu_base64_decode(digits, max) ==
  LET Step(acc, d) ==
        IF d < 0 THEN acc
        ELSE LET buf == (acc.buf * 64 + d) % 2 ^ 24   \* higher bits are never used
                 bits == acc.bits + 6
             IN IF bits < 8 THEN [acc EXCEPT !.buf = buf, !.bits = bits]
                ELSE [buf |-> buf, bits |-> bits - 8,
                      out |-> IF Len(acc.out) < max THEN Append(acc.out, (buf \div 2 ^ (bits - 8)) % 256) ELSE acc.out]
  IN FoldLeft(Step, [buf |-> 0, bits |-> 0, out |-> <<>>], digits).out

----------------------------------------------------------------------------
TLInit == tl_tool = "none" /\ tl_in = [t |-> <<>>, n |-> 0] /\ tl_out = <<>>

SedCmd(cmd, pattern, replacement) == [cmd |-> cmd, pattern |-> pattern, replacement |-> replacement]
Letters == TlChars \ {TlNl, TlSp}
Script(n) ==
  LET blank == SedCmd("s", <<TlSp>>, <<TlNl, TlSp>>)
  IN <<blank, SedCmd("p", <<>>, <<>>)>> \o
     (IF n = 0 THEN <<>> ELSE <<SedCmd("s", <<Max(Letters), Max(Letters)>>, <<>>), SedCmd("s", <<>>, <<TlSp>>)>>) \o
     (IF n = 2 THEN <<SedCmd("d", <<>>, <<>>), blank>> ELSE <<>>)

UniqSize(n) == IF n = 0 THEN 3 * TlOut ELSE TlOut
UniqCounts(n) == n # 1
Other(t) == Tail(Append(t, TlNl))

\* sort gets the lines of a text and each of its characters as a line; the shell
\* leaves out those that are empty.
Spread(t) == FoldLeft(LAMBDA s, c : s \o <<c, TlNl>>, t \o <<TlNl>>, t)
NotEmpty(lines) == SelectSeq(lines, LAMBDA l : l # <<>>)
Answer(tool, in) ==
  LET t == in.t  n == in.n
  IN CASE tool = "head" -> gnu_head(t, n)
       [] tool = "wc" -> gnu_wc(t)
       [] tool = "cut" -> gnu_cut_delimited(t, TlSp, {1, n})
       [] tool = "columns" -> gnu_cut_chars(t, << <<n, 2>>, <<2, 0>> >>)
       [] tool = "tr" -> gnu_tr(t, <<TlSp, TlSp>>, <<TlNl, TlSp>>)
       [] tool = "delete" -> gnu_tr_delete(t, {TlSp})
       [] tool = "squeeze" -> gnu_tr_squeeze(t, {TlSp})
       [] tool = "sort" -> gnu_sort_sort(FoldLeft(gnu_sort_add, <<>>, NotEmpty(LinesOf(Spread(t)))), n = 0)
       [] tool = "uniq" -> gnu_uniq_filter(LinesOf(t), UniqSize(n), UniqCounts(n))
       [] tool = "grep" -> gnu_grep(t, <<TlSp>>)
       [] tool = "sed" -> gnu_sed_apply(t, Script(n))
       [] tool = "diff" -> gnu_diff(t, Other(t), 2 * n)
       [] tool = "base64" -> gnu_base64_decode(gnu_base64_encode(TlBytes[n + 1], TlOut + Len(t)), Len(TlBytes[n + 1]))

Tools == {"head", "wc", "cut", "columns", "tr", "delete", "squeeze", "sort", "uniq", "grep", "sed", "diff", "base64"}

TLNext ==
  /\ tl_tool = "none"
  /\ \E tool \in Tools, in \in [t : TlTexts, n : 0..2] : tl_tool' = tool /\ tl_in' = in /\ tl_out' = Answer(tool, in)

----------------------------------------------------------------------------
Cut(s) == SubSeq(s, 1, Min({Len(s), TlOut - 1}))
Newlines(t, k) == Cardinality({i \in 1..k : t[i] = TlNl})
\* The elements of s at the places of S, in order.
Pick(s, S) == LET at == Ascending(S \cap DOMAIN s) IN [j \in DOMAIN at |-> s[at[j]]]
Short(lines) == \A l \in Range(lines) : Len(l) < TlBuf

\* uniq: the runs of equal lines, each but the last behind its length if that is
\* wanted.  What does not fit is cut, but a blank is written for every length.
UniqAgrees(ls, out, max, counts) ==
  LET starts == Ascending({i \in DOMAIN ls : i = 1 \/ ls[i] # ls[i - 1]})
      whole == FlattenSeq([j \in DOMAIN starts |->
                 (IF counts /\ j < Len(starts) THEN Number(starts[j + 1] - starts[j]) \o <<TlSp>> ELSE <<>>)
                   \o ls[starts[j]] \o <<TlNl>>])
      fits == Min({Len(whole), max - 1})
  IN /\ SubSeq(out, 1, fits) = SubSeq(whole, 1, fits)
     /\ Len(whole) < max \/ ~counts => Len(out) = fits
     /\ Len(out) < fits + Max({1, Len(starts)}) /\ \A i \in fits + 1 .. Len(out) : out[i] = TlSp

\* sed: each substitution replaces the first place where the pattern fits.
SedAgrees(t, out, cmds) ==
  LET First(x, pat) == Min({Len(x) + 1} \cup {i \in DOMAIN x : IsPrefix(Fold(pat), Fold(SubSeq(x, i, Len(x))))})
      One(x, c) == LET i == First(x, c.pattern)
                   IN IF c.pattern = <<>> \/ i > Len(x) THEN x
                      ELSE SubSeq(x, 1, i - 1) \o c.replacement \o SubSeq(x, i + Len(c.pattern), Len(x))
  IN out = IF \E c \in Range(cmds) : c.cmd = "d" THEN <<>>
           ELSE Cut(FoldLeft(One, t, SelectSeq(cmds, LAMBDA c : c.cmd = "s")))

\* diff: both lines of each pair that differs, in order, as many as were wanted.
DiffAgrees(a, b, out, max) ==
  LET pairs == Ascending({k \in 1..Max({Len(a), Len(b)}) : Line(a, k) # Line(b, k)})
  IN out = [j \in 1..Min({max, 2 * Len(pairs)}) |->
              LET k == pairs[(j + 1) \div 2]
              IN IF j % 2 = 1 THEN <<k, "<", Line(a, k)>> ELSE <<k, ">", Line(b, k)>>]

\* What each tool answers, stated without its loop and cut where its buffer ends:
\* head the longest prefix with at most n newlines before its last character, wc
\* the numbers of lines and words and the longest line, cut the selected fields
\* and columns, tr the changed, kept and squeezed characters, sort an ordered
\* rearrangement of the lines its buffer took (of the distinct ones with the
\* unique flag), uniq the runs with their lengths, grep the lines up to the last
\* that holds the character, sed the substitutions, diff the differing pairs, and
\* base64 decoding undoes encoding.  Of uniq and diff nothing is said when a line
\* does not fit their arrays.
ToolsAgree ==
  LET t == tl_in.t  n == tl_in.n
      ls == LinesOf(t)
      full == NotEmpty(LinesOf(Spread(t)))
      kept == [k \in 1..Min({Len(full), TlLines}) |-> SubSeq(full[k], 1, Min({Len(full[k]), TlBuf - 1}))]
      Ordered(s) == \A i \in 1..Len(s) - 1 : gnu_sort_compare(s[i], s[i + 1]) <= 0
      Times(s, x) == Cardinality({i \in DOMAIN s : s[i] = x})
  IN /\ tl_tool = "head" =>
          tl_out = SubSeq(t, 1, Max({0} \cup {k \in 1..Min({Len(t), TlOut - 1}) : Newlines(t, k - 1) < n}))
     /\ tl_tool = "wc" =>
          /\ tl_out.lines = Len(ls) /\ tl_out.bytes = Len(t)
          /\ tl_out.words = Cardinality({i \in DOMAIN t : ~IsBlank(t[i]) /\ (i = Len(t) \/ IsBlank(t[i + 1]))})
          /\ tl_out.longest = Max({0} \cup {Len(l) : l \in Range(ls)})
     /\ tl_tool = "cut" =>
          tl_out = Cut(SubSeq(t, 1, Max({0} \cup {k \in DOMAIN t : Cardinality({i \in 1..k : t[i] = TlSp}) < Max({1, n})})))
     /\ tl_tool = "columns" => tl_out = Cut(Pick(t, n .. 2) \o Pick(t, 2 .. Len(t)))
     /\ tl_tool = "delete" => tl_out = Cut(SelectSeq(t, LAMBDA c : c # TlSp))
     /\ tl_tool = "tr" => tl_out = Cut([i \in DOMAIN t |-> IF t[i] = TlSp THEN TlNl ELSE t[i]])
     /\ tl_tool = "squeeze" => tl_out = Cut(Pick(t, {i \in DOMAIN t : i = 1 \/ t[i] # TlSp \/ t[i - 1] # TlSp}))
     /\ tl_tool = "sort" =>
          /\ Ordered(tl_out) /\ Range(tl_out) = Range(kept)
          /\ \A x \in Range(kept) : Times(tl_out, x) = IF n = 0 THEN 1 ELSE Times(kept, x)
     /\ tl_tool = "uniq" /\ Short(ls) => UniqAgrees(ls, tl_out, UniqSize(n), UniqCounts(n))
     /\ tl_tool = "grep" => tl_out = Max({0} \cup {k \in DOMAIN ls : TlSp \in Range(ls[k])})
     /\ tl_tool = "sed" => SedAgrees(t, tl_out, Script(n))
     /\ tl_tool = "diff" /\ Short(ls \o LinesOf(Other(t))) => DiffAgrees(ls, LinesOf(Other(t)), tl_out, 2 * n)
     /\ tl_tool = "base64" =>
          /\ IsPrefix(tl_out, TlBytes[n + 1])
          /\ TlOut + Len(t) > 4 * ((Len(TlBytes[n + 1]) + 2) \div 3) => tl_out = TlBytes[n + 1]
=============================================================================
