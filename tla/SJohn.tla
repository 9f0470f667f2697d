-------------------------------- MODULE SJohn -------------------------------
(***************************************************************************)
(* The password auditor of stage 2 (security/john): the searches over      *)
(* words, over mutations of words and over every string of an alphabet,    *)
(* the table of hash chains, the sessions that start them, and the         *)
(* strength analyzer.  A password is a sequence of characters, a hash what *)
(* it depends on.  Rates and times are left out: a time limit may end a    *)
(* search wherever the code looks at the clock.                            *)
(***************************************************************************)
EXTENDS Integers, Sequences, FiniteSets, SequencesExt, FiniteSetsExt

CONSTANTS
  JNLower, JNUpper, JNDigits, JNSymbols, \* the characters of each class, as sequences
  JNBuiltin,         \* john_wordlist_common
  JNLists,           \* other lists that may be loaded
  JNTargets,         \* what john_set_target is called with
  JNConfigs,         \* what john_crack is called with
  JNPool,            \* the passwords of eight characters that chains are made of
  JNPasswords,       \* what john_analyze_password is called with
  JNCommon, JNPatterns,    \* common_words and patterns of the analyzer, in lower case
  JOHN_MAX_PASSWORD, \* limit on a word
  JN_RULE_BUF,       \* sizeof(rule_buf)
  JN_CLOCK,          \* candidates between two looks at the clock, 4096 in the code
  JN_MAX_CALLS       \* bound on calls of john_crack

VARIABLES
  jn_target,   \* state.target
  jn_stats,    \* state.stats: what was cracked and tested
  jn_brute,    \* position, current_len, candidates_tried of john_brute.c
  jn_wl,       \* wl_state
  jn_table,    \* stored_table; chain_count 0 when it is not valid
  jn_job,      \* the search that runs
  jn_result,   \* the caller's result; ghost in it: the search that ran out, or <<>>
  jn_calls
jnVars == <<jn_target, jn_stats, jn_brute, jn_wl, jn_table, jn_job, jn_result, jn_calls>>

----------------------------------------------------------------------------
(* Characters and hashes.                                                   *)

to_upper(c) == IF c \in Range(JNLower) THEN JNUpper[CHOOSE i \in DOMAIN JNLower : JNLower[i] = c] ELSE c
to_lower(c) == IF c \in Range(JNUpper) THEN JNLower[CHOOSE i \in DOMAIN JNUpper : JNUpper[i] = c] ELSE c
LowerWord(w) == [i \in DOMAIN w |-> to_lower(w[i])]

\* DES takes eight characters, LM two halves of seven without regard to case;
\* only bcrypt is salted.
john_hash_compute(type, w, salt) ==
  [type |-> type,
   text |-> CASE type = "des" -> SubSeq(w, 1, Min({8, Len(w)}))
              [] type = "lm" -> [i \in 1 .. Min({14, Len(w)}) |-> to_upper(w[i])]
              [] OTHER -> w,
   salt |-> IF type = "bcrypt" THEN salt ELSE "none"]

\* As many bytes are compared as the target has: none for the target that
\* john_init leaves.  A type without a length matches nothing.
NoTarget == [type |-> "md5", hash |-> [type |-> "zero", text |-> <<>>, salt |-> "none"], len |-> 0, salt |-> "none"]
JnMatches(target, w) ==
  /\ target.type # "unknown"
  /\ target.len > 0 => john_hash_compute(target.type, w, target.salt) = target.hash
john_hash_compare(w) == JnMatches(jn_target, w)

----------------------------------------------------------------------------
(* john_wordlist.c: the mutations of a word that fit, in the rules' order,  *)
(* until the buffer is full.                                                *)

Mutation(w, r) ==
  CASE r.type = "prefix" -> <<r.data \o w>>
    [] r.type = "suffix" -> <<w \o r.data>>
    [] r.type = "replace" -> <<IF r.position \in DOMAIN w /\ r.data # <<>> THEN [w EXCEPT ![r.position] = r.data[1]] ELSE w>>
    [] r.type = "duplicate" -> <<w \o w>>
    [] r.type = "toggle" -> <<IF r.position \notin DOMAIN w THEN w
                              ELSE [w EXCEPT ![r.position] = IF @ \in Range(JNUpper) THEN to_lower(@) ELSE to_upper(@)]>>
    [] r.type = "reject" -> IF r.data # <<>> /\ r.data = w THEN <<>> ELSE <<w>>
    [] OTHER -> <<>>

john_wordlist_apply_rules(w, rules) ==
  FoldLeft(LAMBDA out, r :
             LET made == SelectSeq(Mutation(w, r), LAMBDA x : Len(x) < JN_RULE_BUF)
             IN IF out.total >= JN_RULE_BUF THEN out
                ELSE [words |-> out.words \o made, total |-> out.total + IF made = <<>> THEN 0 ELSE Len(made[1]) + 1],
           [words |-> <<>>, total |-> 0], rules).words

----------------------------------------------------------------------------
(* The sessions.  A search is stepped through: word by word, or candidate   *)
(* by candidate.                                                            *)

Idle == [kind |-> "idle"]
NoResult == [found |-> FALSE, password |-> <<>>, tried |-> 0, over |-> <<>>]
Found(w, n) == [NoResult EXCEPT !.found = TRUE, !.password = w, !.tried = n]

john_brute_reset == [position |-> <<>>, tried |-> 0]
john_wordlist_init == [words |-> JNBuiltin, index |-> 0, tested |-> 0]
john_table_init == [chain_len |-> 0, entries |-> <<>>, type |-> "md5"]

\* The end of john_crack, when the search has ended with a result.
JohnReturn(r) ==
  /\ jn_result' = r /\ jn_job' = Idle
  /\ jn_stats' = [cracked |-> jn_stats.cracked + IF r.found THEN 1 ELSE 0, tested |-> jn_stats.tested + r.tried]

john_init ==
  /\ jn_job = Idle
  /\ jn_target' = NoTarget /\ jn_stats' = [cracked |-> 0, tested |-> 0]
  /\ jn_brute' = john_brute_reset /\ jn_wl' = john_wordlist_init /\ jn_table' = john_table_init
  /\ UNCHANGED <<jn_job, jn_result, jn_calls>>

\* The list stays, its index goes back.
john_reset ==
  /\ jn_job = Idle
  /\ jn_target' = NoTarget /\ jn_stats' = [cracked |-> 0, tested |-> 0]
  /\ jn_brute' = john_brute_reset /\ jn_table' = john_table_init
  /\ jn_wl' = [jn_wl EXCEPT !.index = 0, !.tested = 0]
  /\ UNCHANGED <<jn_job, jn_result, jn_calls>>

john_set_target(t) ==
  /\ jn_job = Idle /\ jn_target' = t
  /\ UNCHANGED <<jn_stats, jn_brute, jn_wl, jn_table, jn_job, jn_result, jn_calls>>

john_wordlist_load(words) ==
  /\ jn_job = Idle /\ words # <<>>
  /\ jn_wl' = [jn_wl EXCEPT !.words = words, !.index = 0]
  /\ UNCHANGED <<jn_target, jn_stats, jn_brute, jn_table, jn_job, jn_result, jn_calls>>

\* A table that searches of the words may stop in the middle of, and that only
\* john_wordlist_load and john_reset rewind.
StartWords(config) ==
  /\ jn_job' = [kind |-> "words", config |-> config]
  /\ jn_wl' = [jn_wl EXCEPT !.tested = 0]
  /\ UNCHANGED jn_brute
build_charset_table(config) ==
  (IF "lower" \in config.charset THEN JNLower ELSE <<>>) \o (IF "upper" \in config.charset THEN JNUpper ELSE <<>>)
    \o (IF "digits" \in config.charset THEN JNDigits ELSE <<>>) \o (IF "symbols" \in config.charset THEN JNSymbols ELSE <<>>)
StartBrute(config) ==
  /\ jn_job' = [kind |-> "brute", config |-> config, charset |-> build_charset_table(config), checked |-> 0]
  /\ jn_brute' = john_brute_reset

----------------------------------------------------------------------------
(* john_table.c.  The password kept with a chain is the one its last hash   *)
(* was made from.  A reduction adds the step to a number made of the hash   *)
(* and writes the sum in 62 digits: a password of the pool.                 *)

xor_fold(hash) == IF hash.text \in Range(JNPool) THEN CHOOSE i \in DOMAIN JNPool : JNPool[i] = hash.text ELSE 0
reduce_step(hash, step) == JNPool[((xor_fold(hash) + step) % Len(JNPool)) + 1]
Chain(type, salt, w, steps) ==
  FoldLeft(LAMBDA x, s : LET p == reduce_step(x.hash, s) IN [password |-> p, hash |-> john_hash_compute(type, p, salt)],
           [password |-> w, hash |-> john_hash_compute(type, w, salt)], steps)
Upto(n) == [i \in 1 .. n |-> i - 1]

john_table_generate(type, chain_len, w) ==
  /\ jn_job = Idle /\ chain_len > 0
  /\ jn_table' = [chain_len |-> chain_len, type |-> type,
                  entries |-> <<Chain(type, "none", w, Upto(chain_len))>>]
  /\ UNCHANGED <<jn_target, jn_stats, jn_brute, jn_wl, jn_job, jn_result, jn_calls>>

\* From the end of a chain on, backwards through the steps, for the target's
\* hash; then forwards again from the password that was kept.
john_table_lookup ==
  LET Walk(e, k) == FoldLeft(LAMBDA h, i : john_hash_compute(jn_table.type, reduce_step(h, jn_table.chain_len - i), jn_target.salt),
                             e.hash, [i \in 1 .. k |-> i])
      Again(e, n) == Chain(jn_table.type, jn_target.salt, e.password, Upto(n))
      Hits == {x \in UNION {{<<i, k, n>> : n \in 0 .. jn_table.chain_len - k + 1} :
                            i \in DOMAIN jn_table.entries, k \in 1 .. jn_table.chain_len} :
                 /\ Walk(jn_table.entries[x[1]], x[2]) = jn_target.hash
                 /\ Again(jn_table.entries[x[1]], x[3]).hash = jn_target.hash}
  IN IF Hits = {} THEN NoResult
     ELSE LET x == CHOOSE y \in Hits : \A z \in Hits : y[3] <= z[3]
          IN Found(Again(jn_table.entries[x[1]], x[3]).password, 0)

----------------------------------------------------------------------------
\* A mask without a wildcard is one candidate; with one, every string of the
\* alphabet is tried and the mask is not looked at again.
crack_mask(config) ==
  IF config.wild
  THEN StartBrute(config) /\ UNCHANGED <<jn_wl, jn_result, jn_stats>>
  ELSE /\ JohnReturn(IF john_hash_compare(config.mask) THEN Found(config.mask, 0) ELSE [NoResult EXCEPT !.tried = 1])
       /\ UNCHANGED <<jn_brute, jn_wl>>

john_crack(config) ==
  /\ jn_job = Idle /\ jn_calls < JN_MAX_CALLS /\ jn_calls' = jn_calls + 1
  /\ CASE config.mode \in {"wordlist", "rules", "hybrid"} -> StartWords(config) /\ jn_result' = NoResult /\ UNCHANGED jn_stats
       [] config.mode = "brute" /\ config.charset = {} -> JohnReturn(NoResult) /\ UNCHANGED <<jn_brute, jn_wl>>
       [] config.mode = "brute" /\ config.charset # {} -> StartBrute(config) /\ jn_result' = NoResult /\ UNCHANGED <<jn_wl, jn_stats>>
       [] config.mode = "mask" -> crack_mask(config)
       [] config.mode = "rainbow" -> JohnReturn(john_table_lookup) /\ UNCHANGED <<jn_brute, jn_wl>>
  /\ UNCHANGED <<jn_target, jn_table>>

\* One word with its mutations.  tested counts before a match; a clock that has
\* run out ends the search after any candidate that failed.
Candidates(config) ==
  LET w == jn_wl.words[jn_wl.index + 1]
  IN IF Len(w) >= JOHN_MAX_PASSWORD THEN <<>>
     ELSE <<w>> \o SelectSeq(john_wordlist_apply_rules(w, config.rules), LAMBDA x : Len(x) < JOHN_MAX_PASSWORD)

EndWords(tried) ==
  IF jn_job.config.mode = "hybrid" /\ jn_job.config.charset # {}
  THEN StartBrute(jn_job.config) /\ UNCHANGED <<jn_result, jn_stats>>
  ELSE JohnReturn([NoResult EXCEPT !.tried = IF jn_job.config.mode = "hybrid" THEN 0 ELSE tried]) /\ UNCHANGED jn_brute

john_wordlist_crack ==
  /\ jn_job.kind = "words"
  /\ IF jn_wl.index >= Len(jn_wl.words)
     THEN EndWords(jn_wl.tested) /\ UNCHANGED jn_wl
     ELSE LET cs == Candidates(jn_job.config)
              hits == {i \in DOMAIN cs : john_hash_compare(cs[i])}
              Tested(n) == jn_wl' = [jn_wl EXCEPT !.index = @ + 1, !.tested = @ + n]
          IN \/ /\ hits # {}
                /\ Tested(Min(hits) - 1)
                /\ JohnReturn(Found(cs[Min(hits)], jn_wl.tested + Min(hits))) /\ UNCHANGED jn_brute
             \/ /\ hits = {} /\ Tested(Len(cs)) /\ UNCHANGED <<jn_brute, jn_job, jn_result, jn_stats>>
             \/ /\ jn_job.config.timed
                /\ \E n \in 1 .. Len(cs) : (\A i \in hits : n < i) /\ Tested(n) /\ EndWords(jn_wl.tested + n)
  /\ UNCHANGED <<jn_target, jn_table, jn_calls>>

\* Mutant: the digits behind the one that is increased are not set back.
increment_odometer_keeps(position, size) ==
  LET free == {i \in DOMAIN position : position[i] < size - 1}
  IN IF free = {} THEN [more |-> FALSE, position |-> [i \in DOMAIN position |-> 0]]
     ELSE [more |-> TRUE, position |-> [position EXCEPT ![Max(free)] = @ + 1]]
\* john_brute.c: the next string, least significant character last.
increment_odometer(position, size) ==
  LET free == {i \in DOMAIN position : position[i] < size - 1}
  IN IF free = {} THEN [more |-> FALSE, position |-> [i \in DOMAIN position |-> 0]]
     ELSE [more |-> TRUE, position |-> [i \in DOMAIN position |-> IF i < Max(free) THEN position[i] ELSE IF i = Max(free) THEN position[i] + 1 ELSE 0]]
set_all_zero(len) == [i \in 1 .. len |-> 0]

\* The last string of the greatest length is made but reported as the overflow.
john_brute_next(config, size) ==
  LET at == IF Len(jn_brute.position) < config.min_len THEN set_all_zero(config.min_len) ELSE jn_brute.position
      next == increment_odometer(at, size)
      over == ~next.more /\ Len(at) >= config.max_len
  IN [at |-> at, over |-> over,
      brute |-> [position |-> IF next.more \/ over THEN next.position ELSE set_all_zero(Len(at) + 1),
                 tried |-> jn_brute.tried + IF over THEN 0 ELSE 1]]

john_brute_crack ==
  /\ jn_job.kind = "brute"
  /\ LET config == jn_job.config
         n == john_brute_next(config, Len(jn_job.charset))
         w == [i \in DOMAIN n.at |-> jn_job.charset[n.at[i] + 1]]
     IN /\ jn_brute' = n.brute
        /\ \/ n.over /\ JohnReturn([NoResult EXCEPT !.tried = n.brute.tried,
                                       !.over = <<[config |-> config, charset |-> jn_job.charset, target |-> jn_target]>>])
           \/ /\ ~n.over /\ config.max_candidates # 0 /\ jn_job.checked >= config.max_candidates
              /\ JohnReturn([NoResult EXCEPT !.tried = n.brute.tried])
           \/ /\ ~n.over /\ (config.max_candidates # 0 => jn_job.checked < config.max_candidates)
              /\ \/ john_hash_compare(w) /\ JohnReturn(Found(w, n.brute.tried))
                 \/ ~john_hash_compare(w) /\ jn_job' = [jn_job EXCEPT !.checked = @ + 1] /\ UNCHANGED <<jn_result, jn_stats>>
                 \/ /\ ~john_hash_compare(w) /\ config.timed /\ (jn_job.checked + 1) % JN_CLOCK = 0
                    /\ JohnReturn([NoResult EXCEPT !.tried = n.brute.tried])
  /\ UNCHANGED <<jn_target, jn_wl, jn_table, jn_calls>>

----------------------------------------------------------------------------
(* john_analyzer.c.                                                         *)

Classes(w) == {c \in {"lower", "upper", "digit", "symbol"} : \E i \in DOMAIN w :
                 CASE c = "lower" -> w[i] \in Range(JNLower) [] c = "upper" -> w[i] \in Range(JNUpper)
                   [] c = "digit" -> w[i] \in Range(JNDigits)
                   [] OTHER -> w[i] \notin Range(JNLower \o JNUpper \o JNDigits)}
word_match(w, word) == LowerWord(w) = word
pattern_match(w, p) == \E i \in 0 .. Len(w) - Len(p) : SubSeq(LowerWord(w), i + 1, i + Len(p)) = p
Triple(w) == \E i \in 3 .. Len(w) : w[i] = w[i - 1] /\ w[i - 1] = w[i - 2]

john_analyzer_score(w) ==
  LET raw == 15 * Cardinality(Classes(w)) + Min({80, 5 * Len(w)})
             - (IF \E i \in DOMAIN JNCommon : word_match(w, JNCommon[i]) THEN 30 ELSE 0)
             - 20 * Cardinality({i \in DOMAIN JNPatterns : pattern_match(w, JNPatterns[i])})
             - (IF Triple(w) THEN 25 ELSE 0)
             + (IF {"lower", "upper", "digit"} \subseteq Classes(w) THEN 10 ELSE 0)
             + (IF Len(w) >= 2 /\ Classes(<<w[Len(w) \div 2 + 1]>>) = {"symbol"} THEN 10 ELSE 0)
  IN Max({0, Min({100, raw})})

\* "found" says here that the password is weak.
john_analyze_password(w) ==
  /\ jn_job = Idle /\ Len(w) < JOHN_MAX_PASSWORD
  /\ jn_result' = [NoResult EXCEPT !.found = john_analyzer_score(w) < 50, !.password = w]
  /\ jn_job' = [kind |-> "analyzed"]
  /\ UNCHANGED <<jn_target, jn_stats, jn_brute, jn_wl, jn_table, jn_calls>>
Caller ==
  /\ jn_job.kind = "analyzed" /\ jn_job' = Idle /\ jn_result' = NoResult
  /\ UNCHANGED <<jn_target, jn_stats, jn_brute, jn_wl, jn_table, jn_calls>>

----------------------------------------------------------------------------
JNInit ==
  /\ jn_target = NoTarget /\ jn_stats = [cracked |-> 0, tested |-> 0] /\ jn_brute = john_brute_reset
  /\ jn_wl = john_wordlist_init /\ jn_table = john_table_init
  /\ jn_job = Idle /\ jn_result = NoResult /\ jn_calls = 0

JNNext ==
  \/ john_init \/ john_reset \/ john_wordlist_crack \/ john_brute_crack \/ Caller
  \/ \E t \in JNTargets : john_set_target(t)
  \/ \E l \in JNLists : john_wordlist_load(l)
  \/ \E t \in JNTargets, w \in Range(JNPool) : john_table_generate(t.type, 2, w)
  \/ \E c \in JNConfigs : john_crack(c)
  \/ \E w \in JNPasswords : john_analyze_password(w)

----------------------------------------------------------------------------
\* While strings are tried one after the other, none that was compared is the
\* target's, and those compared are all the shorter ones and the ones before the
\* next in the alphabet's order: none is left out where the length grows.  A search
\* that ran out has compared every string of its lengths but the very last one,
\* which john_brute_next reports as the overflow.  A common word is weak in
\* whatever case it is written.
Strings(charset, from, to) == UNION {[1 .. n -> Range(charset)] : n \in from .. to}
Tried(w, job, brute) ==
  LET rank == [c \in Range(job.charset) |-> CHOOSE i \in DOMAIN job.charset : job.charset[i] = c]
      first == {i \in DOMAIN w : rank[w[i]] - 1 # brute.position[i]}
  IN \/ Len(w) < Len(brute.position)
     \/ Len(w) = Len(brute.position) /\ first # {} /\ rank[w[Min(first)]] - 1 < brute.position[Min(first)]
SearchComplete ==
  /\ jn_job.kind = "brute" /\ jn_job.checked > 0 =>
       LET words == Strings(jn_job.charset, jn_job.config.min_len, Len(jn_brute.position))
           tried == {w \in words : Tried(w, jn_job, jn_brute)}
       IN (\A w \in tried : ~john_hash_compare(w)) /\ Cardinality(tried) = jn_job.checked
  /\ \A ended \in Range(jn_result.over) :
       LET longest == Max({ended.config.min_len, ended.config.max_len})
           words == Strings(ended.charset, ended.config.min_len, longest)
           last == [i \in 1 .. longest |-> Last(ended.charset)]
       IN (\A w \in words \ {last} : ~JnMatches(ended.target, w)) /\ jn_result.tried = Cardinality(words) - 1
  /\ jn_job.kind = "analyzed" /\ (\E i \in DOMAIN JNCommon : word_match(jn_result.password, JNCommon[i])) => jn_result.found
=============================================================================
