------------------------------ MODULE MCStage2 ------------------------------
(***************************************************************************)
(* One run for the programs of stage 2.  They are parts of one thread of   *)
(* control that share no state a property is about, so a behaviour is one  *)
(* of a single part; the others stay as they start.                        *)
(***************************************************************************)
EXTENDS SFish, S2Memory, S2Boot, S2Tools, SWifi, SJohn, SCipher, STor, SLink, SDisk, SIdent, SBrain, STape, SFishText, SAwk

VARIABLE part
vars == <<part, flVars, fsVars, smVars, sbVars, tlVars, wfVars, jnVars, cyVars, trVars, slVars, sdVars, siVars, svVars, tpVars, txVars, awVars>>

----------------------------------------------------------------------------
\* The line editor: one command and one directory begin with "a".
MCCommands == << <<"a", "a">> >>
MCFiles == << [name |-> <<"a">>, is_dir |-> TRUE] >>

\* The session: every kind of command once, words that are cut in a table, a
\* function and an event handler whose body may hold break.
MCVarOf == ("$x" :> "x") @@ ("$status" :> "status")
MCSubOf == "$(f)" :> <<"f">>
MCStored == "long" :> "lon"
MCFile == "file" :> << <<"f">>, <<"set", "x", "v">> >>
MCPath == ("a" :> [abs |-> FALSE, comps |-> <<"a">>]) @@ ("ab" :> [abs |-> TRUE, comps |-> <<"a", "..", "b", "b">>])
MCDirs == { <<>>, <<"b", "b">> }
MCBodies == { << <<"nothing">> >>, << <<"break">>, <<"nothing">> >> }
MCLines ==
  { << <<"and", "test", "">>, <<"or", "f">> >> } \cup
  { <<w>> : w \in {
      <<"set", "-e", "x">>, <<"set", "-x", "long", "v">>, <<"export", "long", "v">>,
      <<"abbr", "-e", "k">>, <<"abbr", "k", "f">>, <<"k">>, <<"function", "f", "body">>, <<"function", "fish_event_e", "body">>,
      <<"functions", "-e", "f">>, <<"emit", "e">>, <<"if", "test", "$x", "then">>, <<"not", "f">>, <<"for", "x", "in", "v">>,
      <<"read", "x">>, <<"echo", "$(f)">>, <<"test", "$status">>, <<"source", "file">>,
      <<"pushd", "ab">>, <<"popd">>, <<"cd", "a">>, <<"exit">>, <<"return", "1">> } }

\* The memory: usable and reserved regions, unaligned and overlapping ones.
Region(b, l, u) == [base |-> b, len |-> l, usable |-> u]
MCE820 == << Region(0, 9, TRUE), Region(9, 2, FALSE), Region(12, 25, TRUE), Region(21, 1, FALSE) >>
MCFixed == << <<0, 3>>, <<2, 5>> >>
MCKernel == <<2, 1, 0, 0>>
MCUser == { <<1, 1, 0, 0>> }

\* The boot chain: no boot.cfg, or one that turns the snapshot on.
MCConfigs == { <<>>, << <<"pair", "snapshot", 1>>, <<"section", "kernel">>, <<"comment">>, <<"pair", "snapshot", 1>> >> }
MCWidths == { <<0>>, <<3>>, <<1, 2, 9>> }

\* The tools: bytes of every length modulo 3.
MCBytes == << <<0, 255>>, <<77, 1, 128, 9>>, <<200>> >>

\* Wi-Fi: a controller with no exact driver before one that has it, devices of
\* several functions, and more functions than the table holds.
Fn(v, d, w, b) == [vendor |-> v, device |-> d, wireless |-> w, bar |-> b]
MCMachines == {
  << <<Fn(\h168C, \h002B, TRUE, 1)>>, <<Fn(\h8086, \h100E, FALSE, 2)>>, <<Fn(\h1260, \h3890, FALSE, 2), Fn(\h8086, \h2526, FALSE, 3)>>,
     <<Fn(\h168C, \h0030, TRUE, 4)>> >> }
MCRssi == {-128}

\* The auditor: two letters in two cases, every kind of search and of mutation.
MCJnTargets == { [type |-> "md5", hash |-> john_hash_compute("md5", <<"b", "a">>, "none"), len |-> 16, salt |-> "none"],
               [type |-> "lm", hash |-> john_hash_compute("lm", <<"a", "A">>, "none"), len |-> 16, salt |-> "none"] }
JnCfg(mode, charset, min, max, limit, timed, rules, mask, wild) ==
  [mode |-> mode, charset |-> charset, min_len |-> min, max_len |-> max, max_candidates |-> limit, timed |-> timed,
   rules |-> rules, mask |-> mask, wild |-> wild]
JnRule(t, p, d) == [type |-> t, position |-> p, data |-> d]
MCJnRules == <<JnRule("prefix", 0, <<"b">>), JnRule("toggle", 1, <<>>), JnRule("reject", 0, <<"a">>), JnRule("duplicate", 0, <<>>), JnRule("replace", 1, <<"a">>), JnRule("suffix", 0, <<"a">>)>>
MCJnConfigs == { JnCfg("wordlist", {}, 0, 0, 0, TRUE, <<>>, <<>>, FALSE), JnCfg("rules", {}, 0, 0, 0, FALSE, MCJnRules, <<>>, FALSE),
  JnCfg("hybrid", {"lower", "digits"}, 0, 2, 4, FALSE, <<>>, <<>>, FALSE), JnCfg("brute", {"lower"}, 1, 2, 0, TRUE, <<>>, <<>>, FALSE),
  JnCfg("mask", {"upper"}, 1, 1, 0, FALSE, <<>>, <<"a">>, FALSE), JnCfg("mask", {"symbols"}, 0, 1, 0, FALSE, <<>>, <<"a">>, TRUE), JnCfg("rainbow", {}, 0, 0, 0, FALSE, <<>>, <<>>, FALSE),
  JnCfg("brute", {}, 0, 0, 0, FALSE, <<>>, <<>>, FALSE) }
MCJnBuiltin == <<<<"a">>, <<"b", "b", "b", "b">> >>
MCJnLists == { << <<"B", "A">> >> }
MCJnCommon == << <<"a", "b", "a", "b", "a", "b", "a", "a">> >>
MCJnPw == { <<"a", "B", "a", "b", "a", "b", "a", "A">>, <<"a", "a", "a", "A", "1", "!", "b">> }
MCJnLower == <<"a", "b">>
MCJnUpper == <<"A", "B">>
MCJnDigits == <<"1">>
MCJnSymbols == <<"!">>
MCJnPat == << <<"1", "!">> >>
MCJnPool == << <<"b", "a">>, <<"a", "a">> >>

\* Tor: relays with all flags, with one, and a directory.
MCTrRelays == << {"guard", "exit", "hsdir"}, {"guard"}, {"hsdir"} >>

\* The links: urls with and without a port, names with labels of every length.
MCSlNames == UNION {[1 .. n -> {"p", "."}] : n \in 0 .. 5}
MCSlUrls == { [host |-> [i \in 1 .. n |-> "p"], port |-> port, path |-> path] :
              n \in 0 .. 3, port \in {<<>>, <<"7">>, <<"7", "0">>}, path \in {<<>>, <<"/", "p", ":">>} }
MCSlKeys == {<<9, 1>>, <<9, 2>>}

\* The disks: a key that meets a letter of a label, keys that make two disks show one
\* serial or label, a signature that differs from another by what tells the disks apart.
MCSdKeys == { << {<<"a", 0>>}, {<<"b", 0>>} >>, << {<<"k", 1>>}, {<<"k", 1>>, <<"a", 0>>, <<"b", 0>>, <<"mod", 1>>} >> }
MCSdStrings == { <<>>, << {<<"a", 0>>} >>, << {<<"b", 0>>} >>, << {<<"b", 0>>}, {<<"a", 0>>} >>, << {<<"b", 0>>, <<"mask", 1, 1>>}, {<<"a", 0>>, <<"mask", 1, 2>>} >> }
MCSdTypes == << <<"fat32">>, <<"ntfs">>, <<"ext4">> >>

\* The addresses: histories and tables that fill.
MCSiOuis == <<0, 1>>

\* The files: a mount below a mount and one with an equal beginning.
MCSvMounts == { <<"/">>, <<"/", "a">>, <<"/", "a", "/", "b">> }
MCSvPaths == { <<"/", "a", "b">>, <<"/", "a", "/", "b", "/", "c">>, <<"/", "a", "/", "c">> }

\* The disks: two drives on one channel, a packet device and nothing on the other.
MCTpDrives == (<<0, 0>> :> "lba28") @@ (<<0, 1>> :> "lba48") @@ (<<1, 0>> :> "atapi") @@ (<<1, 1>> :> "none")

\* The texts of the shell: words of up to two characters, three of other lengths;
\* lines of up to four characters; expressions of up to three operators.
MCTxWord == UNION {[1 .. n -> {97, 32, 39, 34, 92, 45, 110, 10}] : n \in 0 .. 2}
MCTxShort == {w \in MCTxWord : Len(w) < 2}
MCTxLong == {<<>>, <<97>>, [i \in 1 .. 13 |-> 98]}
MCTxWords == {<<v, w>> : v \in MCTxWord, w \in MCTxShort} \cup {<<v, w>> : v \in MCTxShort, w \in MCTxWord} \cup {<<w>> : w \in MCTxWord} \cup [1 .. 3 -> MCTxLong]
MCTxLines == UNION {[1 .. n -> {97, 32, 124, 62, 50}] : n \in 0 .. 4} \cup [1 .. 4 -> {97, 32, 60, 38, 62, 50}]
MCTxFile(name, dir) == [name |-> name, dir |-> dir]
MCTxDirs == (<<47>> :> <<MCTxFile(<<97>>, FALSE), MCTxFile(<<97, 98>>, TRUE), MCTxFile(<<98>>, FALSE), MCTxFile(<<98, 98>>, FALSE), MCTxFile(<<99>>, FALSE)>>)
            @@ (<<47, 97, 98, 47>> :> <<MCTxFile([i \in 1 .. 8 |-> 97], TRUE), MCTxFile(<<63>>, FALSE)>>)
MCTxPattern == UNION {[1 .. n -> {97, 98, 63, 42}] : n \in 1 .. 2} \cup {<<47, 97, 98, 47, 63>>, <<47, 97, 98, 47>> \o [i \in 1 .. 8 |-> 63], <<47, 98, 47, 63>>}
MCTxPatterns == [1 .. 2 -> MCTxPattern]
MCTxNum == {<<"num", n>> : n \in {0, 3, 16}}
MCTxUnary(E) == {<<op, e>> : op \in {"neg", "not"}, e \in E}
MCTxBinary(E, F) == {<<op, e, f>> : op \in {"+", "-", "*", "/", "%"}, e \in E, f \in F}
MCTxSmall == MCTxNum \cup MCTxUnary(MCTxNum) \cup MCTxBinary(MCTxNum, MCTxNum)
MCTxRight == {<<"num", 0>>, <<"num", 3>>} \cup MCTxUnary({<<"num", 1>>, <<"num", 16>>}) \cup MCTxBinary({<<"num", 1>>}, {<<"num", 3>>})
MCTxExprs == MCTxSmall \cup MCTxUnary(MCTxSmall) \cup MCTxBinary(MCTxSmall, MCTxRight)
MCTxItems == {<<"text", <<97>> >>, <<"text", <<37>> >>, <<"text", <<10>> >>, <<"s", <<98, 99>> >>, <<"d", <<45, 49>> >>, <<"u", <<49, 48>> >>, <<"x", <<49, 97>> >>}
MCTxGiven(its, n) == LET ds == SelectSeq(its, LAMBDA it : it[1] # "text") IN [i \in 1 .. (IF n < Len(ds) THEN n ELSE Len(ds)) |-> ds[i][2]]
MCTxFormats == { [items |-> its, args |-> MCTxGiven(its, n)] : its \in UNION {[1 .. k -> MCTxItems] : k \in 1 .. 3}, n \in 0 .. 3 }

\* awk: lines with more and fewer fields than the table holds, numbers before letters,
\* patterns of up to two items, loops of up to three rounds, all shapes of three operands.
MCAwLine == { <<>>, <<49, 32, 97>>, <<45, 53, 58, 50, 32>>, <<98, 97, 32, 97, 32, 49, 32, 32, 50>> }
MCAwJoin(ls) == FoldLeft(LAMBDA t, l : t \o <<10>> \o l, ls[1], Tail(ls))
MCAwTexts == {MCAwJoin(ls) : ls \in [1 .. 2 -> MCAwLine]}
MCAwItem == { <<"is", 97>>, <<"is", 46>>, <<"any">>, <<"in", <<97, 49>> >>, <<"not", <<97, 32>> >> }
MCAwRow == {<<i>> : i \in MCAwItem}
MCAwPattern == MCAwRow \cup {<<i, <<"is", 97>> >> : i \in MCAwItem} \cup {<< <<"in", <<49>> >>, i>> : i \in MCAwItem} \cup {<< <<"start">> >> \o r : r \in MCAwRow \cup {<<>>}}
MCAwNum == {<<"num", n>> : n \in {-3, 0, 7}}
MCAwBin(E, F) == {<<op, e, f>> : op \in {"+", "-", "*", "/", "%"}, e \in E, f \in F}
MCAwSum == MCAwBin({<<"num", 7>>}, {<<"num", -3>>})
MCAwExpr == MCAwBin(MCAwNum \cup MCAwSum, MCAwNum) \cup MCAwBin(MCAwNum, MCAwSum) \cup
  {<<op, e, f>> : op \in {"==", "!=", ">", ">=", "<", "<="}, e \in MCAwNum \cup MCAwSum, f \in MCAwNum}
MCAwInputs ==
  { [job |-> job, text |-> t, fs |-> fs] : job \in {<<"sum">>, <<"greatest">>, <<"fields">>, <<"copy">>, <<"sort", "<">>, <<"sort", ">=">>}, t \in MCAwTexts, fs \in {<<32>>, <<58>>} }
  \cup { [job |-> <<j, items>>, text |-> MCAwJoin(<<l, <<98>>, l>>), fs |-> <<32>>] : j \in {"grep", "unless"}, items \in MCAwPattern, l \in MCAwLine }
  \cup { [job |-> job, text |-> <<>>, fs |-> <<32>>] : job \in ({"count"} \X (0 .. 3) \X (0 .. 3) \X (0 .. 3)) \cup ({"nested"} \X (0 .. 3) \X (0 .. 3)) \cup ({"value"} \X MCAwExpr) }

----------------------------------------------------------------------------
\* A state is told apart by the part that runs.
View ==
  CASE part = "line" -> <<part, flVars>>
    [] part = "session" -> <<part, fsVars>>
    [] part = "memory" -> <<part, smVars>>
    [] part = "boot" -> <<part, sbVars>>
    [] part = "tools" -> <<part, tlVars>>
    [] part = "wifi" -> <<part, wfVars>>
    [] part = "john" -> <<part, jnVars>>
    [] part = "cipher" -> <<part, cyVars>>
    [] part = "tor" -> <<part, trVars>>
    [] part = "link" -> <<part, slVars>>
    [] part = "disk" -> <<part, sdVars>>
    [] part = "ident" -> <<part, siVars>>
    [] part = "brain" -> <<part, svVars>>
    [] part = "tape" -> <<part, tpVars>>
    [] part = "text" -> <<part, txVars>>
    [] part = "awk" -> <<part, awVars>>

Init ==
  /\ part \in {"line", "session", "memory", "boot", "tools", "wifi", "john", "cipher", "tor", "link", "disk", "ident", "brain", "tape", "text", "awk"}
  /\ FLInit /\ FSInit /\ SMInit /\ SBInit /\ TLInit /\ WFInit /\ JNInit /\ CYInit /\ TRInit /\ SLInit /\ SDInit /\ SIInit /\ SVInit /\ TPInit /\ TXInit /\ AWInit

Next ==
  /\ UNCHANGED part
  /\ \/ part = "line" /\ FLNext /\ UNCHANGED <<fsVars, smVars, sbVars, tlVars, wfVars, jnVars, cyVars, trVars, slVars, sdVars, siVars, svVars, tpVars, txVars, awVars>>
     \/ part = "session" /\ FSNext /\ UNCHANGED <<flVars, smVars, sbVars, tlVars, wfVars, jnVars, cyVars, trVars, slVars, sdVars, siVars, svVars, tpVars, txVars, awVars>>
     \/ part = "memory" /\ SMNext /\ UNCHANGED <<flVars, fsVars, sbVars, tlVars, wfVars, jnVars, cyVars, trVars, slVars, sdVars, siVars, svVars, tpVars, txVars, awVars>>
     \/ part = "boot" /\ SBNext /\ UNCHANGED <<flVars, fsVars, smVars, tlVars, wfVars, jnVars, cyVars, trVars, slVars, sdVars, siVars, svVars, tpVars, txVars, awVars>>
     \/ part = "tools" /\ TLNext /\ UNCHANGED <<flVars, fsVars, smVars, sbVars, wfVars, jnVars, cyVars, trVars, slVars, sdVars, siVars, svVars, tpVars, txVars, awVars>>
     \/ part = "wifi" /\ WFNext /\ UNCHANGED <<flVars, fsVars, smVars, sbVars, tlVars, jnVars, cyVars, trVars, slVars, sdVars, siVars, svVars, tpVars, txVars, awVars>>
     \/ part = "john" /\ JNNext /\ UNCHANGED <<flVars, fsVars, smVars, sbVars, tlVars, wfVars, cyVars, trVars, slVars, sdVars, siVars, svVars, tpVars, txVars, awVars>>
     \/ part = "cipher" /\ CYNext /\ UNCHANGED <<flVars, fsVars, smVars, sbVars, tlVars, wfVars, jnVars, trVars, slVars, sdVars, siVars, svVars, tpVars, txVars, awVars>>
     \/ part = "tor" /\ TRNext /\ UNCHANGED <<flVars, fsVars, smVars, sbVars, tlVars, wfVars, jnVars, cyVars, slVars, sdVars, siVars, svVars, tpVars, txVars, awVars>>
     \/ part = "link" /\ SLNext /\ UNCHANGED <<flVars, fsVars, smVars, sbVars, tlVars, wfVars, jnVars, cyVars, trVars, sdVars, siVars, svVars, tpVars, txVars, awVars>>
     \/ part = "disk" /\ SDNext /\ UNCHANGED <<flVars, fsVars, smVars, sbVars, tlVars, wfVars, jnVars, cyVars, trVars, slVars, siVars, svVars, tpVars, txVars, awVars>>
     \/ part = "ident" /\ SINext /\ UNCHANGED <<flVars, fsVars, smVars, sbVars, tlVars, wfVars, jnVars, cyVars, trVars, slVars, sdVars, svVars, tpVars, txVars, awVars>>
     \/ part = "brain" /\ SVNext /\ UNCHANGED <<flVars, fsVars, smVars, sbVars, tlVars, wfVars, jnVars, cyVars, trVars, slVars, sdVars, siVars, tpVars, txVars, awVars>>
     \/ part = "tape" /\ TPNext /\ UNCHANGED <<flVars, fsVars, smVars, sbVars, tlVars, wfVars, jnVars, cyVars, trVars, slVars, sdVars, siVars, svVars, txVars, awVars>>
     \/ part = "text" /\ TXNext /\ UNCHANGED <<flVars, fsVars, smVars, sbVars, tlVars, wfVars, jnVars, cyVars, trVars, slVars, sdVars, siVars, svVars, tpVars, awVars>>
     \/ part = "awk" /\ AWNext /\ UNCHANGED <<flVars, fsVars, smVars, sbVars, tlVars, wfVars, jnVars, cyVars, trVars, slVars, sdVars, siVars, svVars, tpVars, txVars>>

Spec == Init /\ [][Next]_vars

----------------------------------------------------------------------------
(* What the parts promise; each is evaluated in the states of its part.     *)

\* gnu_tools.c, awk.c, fish_shell.c: the text tools, awk and the shell's text functions agree with
\* their reference definitions; john_brute.c: a search that ran out has compared every string but the
\* last, none twice; sha256.c, hkdf.c, john_hash.c: digests depend on the message alone, whatever the calls; doh, dot,
\* dnscrypt: what is encoded can be read back.
ToolsSound ==
  /\ part = "tools" => ToolsAgree
  /\ part = "text" => TextsAgree
  /\ part = "awk" => AwkAgrees
  /\ part = "john" => SearchComplete
  /\ part = "cipher" => DigestsAgree
  /\ part = "link" => QueriesEncoded
=============================================================================
