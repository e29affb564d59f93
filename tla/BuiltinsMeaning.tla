-------------------------- MODULE BuiltinsMeaning --------------------------
(* What a user means by the words of a command line, and what the commands   *)
(* of Builtins promise: they act on what the words name and on nothing else, *)
(* and a command that says it succeeded has done it.                         *)
EXTENDS Builtins

-----------------------------------------------------------------------------
(* Braces.  Each that opens is closed by the one at which as many have been  *)
(* closed as opened.                                                         *)
Depth(w, i, j) ==
  Cardinality({k \in i .. j : w[k] = OpenBrace}) - Cardinality({k \in i .. j : w[k] = CloseBrace})

Closers(w, i) == {j \in i + 1 .. Len(w) : Depth(w, i, j) = 0}

Literal(w) == \E i \in DOMAIN w : w[i] = OpenBrace /\ Closers(w, i) = {}

(* What stands between the commas of no inner braces.                        *)
Alternatives(w) ==
  LET commas == {i \in DOMAIN w : w[i] = Comma /\ Depth(w, 1, i) = 0}
      bounds == SetToSortSeq(commas \cup {0, Len(w) + 1}, <)
  IN  [k \in 1 .. Len(bounds) - 1 |-> SubSeq(w, bounds[k] + 1, bounds[k + 1] - 1)]

(* The words that a word with braces stands for, in order.                   *)
RECURSIVE Expansions(_)
Expansions(w) ==
  LET i == SelectInSeq(w, LAMBDA c : c = OpenBrace)
      j == Min(Closers(w, i))
      inside == Alternatives(SubSeq(w, i + 1, j - 1))
      after  == Expansions(Behind(w, j))
      firsts == FlattenSeq([k \in DOMAIN inside |-> Expansions(inside[k])])
      Followed(x) == [k \in DOMAIN after |-> RestoreBraces(SubSeq(w, 1, i - 1)) \o x \o after[k]]
  IN  IF i = 0 \/ Literal(w) THEN <<RestoreBraces(w)>>
      ELSE FlattenSeq([k \in DOMAIN firsts |-> Followed(firsts[k])])

(* Wildcards: the places of the pattern that a name may have come to after   *)
(* each of its characters.                                                   *)
PastStars(p, places) ==
  {j \in 1 .. Len(p) + 1 : \E i \in places : i <= j /\ \A k \in i .. j - 1 : p[k] = Star}

Matches(n, p) ==
  LET Taking(places, c) ==
        PastStars(p, UNION {IF i > Len(p) THEN {} ELSE IF p[i] = Star THEN {i}
                            ELSE IF p[i] \in {Question, c} THEN {i + 1} ELSE {} : i \in places})
  IN  Len(p) + 1 \in FoldLeft(Taking, PastStars(p, {1}), n)

(* Paths: each ".." undoes the segment before it.                            *)
RECURSIVE Resolved(_)
Resolved(segments) ==
  LET i == SelectInSeq(segments, LAMBDA s : s = <<".", ".">>)
  IN  IF i = 0 THEN SelectSeq(segments, LAMBDA s : s # <<".">>)
      ELSE LET up == SelectSeq(SubSeq(segments, 1, i - 1), LAMBDA s : s # <<".">>)
           IN  Resolved((IF up = <<>> THEN up ELSE Front(up)) \o Behind(segments, i))

Meant(w) ==
  Resolved((IF w # <<>> /\ w[1] \in Slashes THEN <<>> ELSE Segments(before.cwd)) \o Segments(w))

(* What one word stands for when its braces are gone: the text and the path  *)
(* of its arguments.  A pattern that nothing matches stands for itself, its  *)
(* path being spelled with the special characters.                           *)
EntryNames(t, dir) ==
  CASE dir = <<>> -> {VolumeName}
    [] dir # <<>> -> {Last(p) : p \in {q \in DOMAIN t : q # <<>> /\ <<VolumeName>> \o Front(q) = dir}}

Hits(t, w) ==
  {n \in EntryNames(t, Front(Meant(w))) : n[1] # "." /\ Matches(n, Last(Meant(w)))}

Group(t, w) ==
  LET itself == [rel |-> RestoreGlobs(w), path |-> Meant(w)]
  IN  IF ~ IsGlob(w) \/ Hits(t, w) = {} THEN {itself}
      ELSE {[rel |-> SubSeq(w, 1, PathTail(w)) \o n, path |-> Append(Front(Meant(w)), n)] : n \in Hits(t, w)}

(* The words that are no options, and what they stand for.                   *)
Operands == SelectSeq(asked, LAMBDA w : w = <<>> \/ w[1] # "-")

Groups ==
  LET words == FlattenSeq([k \in DOMAIN Operands |-> Expansions(Operands[k])])
  IN  [k \in DOMAIN words |-> Group(before.tree, words[k])]

Named == {x.path : x \in UNION ToSet(Groups)}

-----------------------------------------------------------------------------
(* The arguments so far are those of the groups, one group after the other,  *)
(* each in any order.                                                        *)
RECURSIVE Fits(_, _)
Fits(args, groups) ==
  IF args = <<>> THEN TRUE
  ELSE IF groups = <<>> THEN FALSE
  ELSE LET n    == Cardinality(Head(groups))
           mine == SubSeq(args, 1, IF n < Len(args) THEN n ELSE Len(args))
       IN  ToSet(mine) \subseteq Head(groups) /\ IsInjective(mine)
           /\ Fits(Behind(args, Len(mine)), Tail(groups))

Changing == cmd \in {"rm", "rmdir", "mkdir", "touch"} \/ value.out # <<>>

(* The enumerator gives a command what its words mean: options taken out,    *)
(* braces expanded, wildcards matched, paths resolved, in the order of the   *)
(* line; and all of it when the command succeeds.  (hexdump stops when it    *)
(* has printed enough; ls that was given nothing lists the current directory *)
(* and forgets the error that ended its arguments; a command that changes    *)
(* the volume changes what its later words mean.  An entry of the root whose *)
(* path came without a slash, see ReadDir, counts as that with it.)          *)
ArgumentsAsWritten ==
  ~ Changing =>
    LET args == [k \in DOMAIN given |-> [rel |-> given[k].rel, path |-> Segments(given[k].abs)]]
    IN  /\ Fits(args, Groups)
        /\ at = "done" /\ status = "none" /\ e.err = "none" /\ cmd # "hexdump" /\ (cmd = "ls" => own.any) =>
             Len(args) = FoldLeft(LAMBDA n, g : n + Cardinality(g), 0, Groups)

(* A command changes only what its words name, whatever fails: mkdir -p the  *)
(* directories above as well, echo the file it writes to.                    *)
MayChange ==
  CASE cmd \in {"rm", "rmdir", "touch"} -> Named
    [] cmd = "mkdir" -> IF "p" \in opts THEN UNION {Prefixes(p) : p \in Named} ELSE Named
    [] cmd = "echo" -> {Segments(value.out)}
    [] cmd \in {"cat", "cd", "pwd", "ls", "hexdump", "sleep"} -> {}

OnlyNamedTouched ==
  \A p \in DOMAIN tree \cup DOMAIN before.tree :
    (p \in DOMAIN tree \cap DOMAIN before.tree /\ tree[p] = before.tree[p])
    \/ <<VolumeName>> \o p \in MayChange

-----------------------------------------------------------------------------
Given(kinds) == {x \in ToSet(given) : x.kind \in kinds}
There(x, kinds) == StatKind(tree, x.abs) \in kinds
DataGiven ==
  FlattenSeq([k \in DOMAIN given |-> IF given[k].kind = "file" THEN tree[InTree(given[k].abs)].data ELSE <<>>])

Line ==
  FlattenSeq([k \in DOMAIN given |-> (IF k = 1 THEN <<>> ELSE <<" ">>) \o given[k].rel])
  \o (IF "n" \in opts THEN <<>> ELSE <<"\n">>)

(* The bytes that hexdump is asked for.                                      *)
Range32 ==
  LET data == Behind(DataGiven, value.skip)
  IN  SubSeq(data, 1, IF value.length < Len(data) THEN value.length ELSE Len(data))

(* The milliseconds of 12.5m: 125 times those of a minute, by ten.  (A time  *)
(* in milliseconds is rounded, others are cut off.)                          *)
UnitOf(w) ==
  CASE IsSuffix(<<"m", "s">>, w) -> 1
    [] IsSuffix(<<"s">>, w) /\ ~ IsSuffix(<<"m", "s">>, w) -> 1000
    [] IsSuffix(<<"m">>, w) -> 60000
    [] IsSuffix(<<"h">>, w) -> 3600000
    [] IsSuffix(<<"d">>, w) -> 86400000
    [] w = <<>> \/ Last(w) \notin {"s", "m", "h", "d"} -> 1000

Ten(k) == FoldLeft(LAMBDA n, i : n * 10, 1, [i \in 1 .. k |-> i])

Numeral(w) ==
  LET digits == SelectSeq(w, LAMBDA c : Digit(c) \in 0 .. 9)
      point  == SelectInSeq(w, LAMBDA c : c = ".")
  IN  [n     |-> FoldLeft(LAMBDA m, c : m * 10 + Digit(c), 0, digits),
       scale |-> IF point = 0 THEN 1
                 ELSE Ten(Cardinality({i \in point + 1 .. Len(w) : Digit(w[i]) \in 0 .. 9}))]

Millis(w) ==
  LET x == Numeral(w)
  IN  (x.n * UnitOf(w) + IF UnitOf(w) = 1 THEN x.scale \div 2 ELSE 0) \div x.scale

FractionFits(w) ==
  LET x == Numeral(w)
  IN  (x.n % x.scale) * (1000000 \div x.scale) * (IF UnitOf(w) < 1000 THEN 1 ELSE UnitOf(w) \div 1000) < Word

Slept == FoldLeft(LAMBDA n, x : n + Millis(x.rel), 0, given)
SleepFits == Slept < Word /\ \A x \in ToSet(given) : FractionFits(x.rel)

(* A command that ends with 0 has done what it was asked to do with each of  *)
(* its arguments: an error of one of them is not lost in the rounds for the  *)
(* others, in the second pass of ls or on the way out of f_mkdir_r.          *)
(*   Nothing is claimed where the code ends with 0 and the documentation has *)
(* it otherwise (README.md, "Disagreements"): of a file given to rmdir, which *)
(* it removes; of a file that echo writes to and that was there before, for  *)
(* which -a is taken the wrong way round; of data with a NUL given to cat;   *)
(* of mkdir -p on a medium that fails, or of a path on no volume; of hexdump *)
(* to an end that wraps around; of sleep for a fraction or a sum that needs  *)
(* more than a word.                                                         *)
(*   Nor where the documentation does not say: what rm -f does not find or   *)
(* cannot remove; what cat and hexdump do not find or cannot read as a file  *)
(* (the message is all); a directory to be made of the name of a file; touch *)
(* and echo when the last writes fail; cd without an operand, to a path that *)
(* starts at no root, or to a name that only begins with a volume's, which   *)
(* StatKind takes for a directory; hexdump of several files; sleep for what  *)
(* is no time; ls that was given nothing.                                    *)
DoneAsAsked ==
  at = "done" /\ status = "none" =>
    /\ cmd = "rm" /\ "f" \notin opts => \A x \in ToSet(given) : ~ There(x, {"file", "dir"})
    /\ cmd = "rmdir" => \A x \in ToSet(given) : ~ There(x, {"dir"})
    /\ cmd = "mkdir" /\ "p" \notin opts => \A x \in Given({"none"}) : There(x, {"dir"})
    /\ cmd = "mkdir" /\ faults = 0 => \A x \in Given({"none"}) : OnVolume(x.abs) => There(x, {"dir"})
    /\ cmd = "touch" => \A x \in ToSet(given) : There(x, {"file", "dir"})
    /\ cmd = "cat" /\ End \notin ToSet(DataGiven) => out = DataGiven
    /\ cmd = "echo" /\ own.file = <<>> => out = Line
    /\ cmd = "echo" /\ own.file # <<>> /\ faults = 0 /\ StatKind(before.tree, own.file) = "none" =>
         DataOf(own.file) = Line
    /\ cmd = "cd" /\ given # <<>> /\ Rooted(given[1].abs) =>
         StatKind(tree, cwd) = "dir" /\ Segments(cwd) = Segments(given[1].abs)
    /\ cmd = "ls" /\ given # <<>> => Given({"none"}) = {}
    /\ cmd = "hexdump" /\ Len(given) = 1 /\ value.skip + value.length < Word => out = Range32
    /\ cmd = "sleep" /\ e.err = "none" /\ SleepFits => out = <<Slept>>

(* A command closes the files that it opens on every path out of its rounds, *)
(* the returns on an error included: what is open at its end is what a       *)
(* failing f_close left open.  Its listing is closed as well, except where   *)
(* echo returns from inside its loop (cmd_echo.c:70 has no end_enum_args),   *)
(* which leaves the listing of a pattern allocated.                          *)
AllClosed ==
  at = "done" =>
    /\ DOMAIN files = stuck
    /\ e.state = "readdir" => cmd = "echo" /\ status = "FR_DISK_ERR"

=============================================================================
