---------------------------- MODULE ShellMeaning ----------------------------
(* What a line means, read from left to right and without a tree: commands   *)
(* with their arguments, "&&" and "||" that look at the status of the        *)
(* command that ran last, ";" that does not, and parentheses that give the   *)
(* directory back at their end.                                              *)
EXTENDS Shell, FiniteSets

(* The syntax of a line: how much of it is a list of commands.               *)
SyntaxStart == [verdict |-> "reading", wants |-> TRUE, word |-> FALSE, depth |-> 0, used |-> 0]

SyntaxStep(s, tok) ==
  LET read(wants, word, depth) ==
        [s EXCEPT !.wants = wants, !.word = word, !.depth = depth, !.used = @ + 1]
      refuse == [s EXCEPT !.verdict = IF s.depth = 0 /\ ~ s.wants THEN "list" ELSE "error"]
  IN CASE s.verdict # "reading"                                        -> s
       [] s.verdict = "reading" /\ tok \in Words /\ (s.wants \/ s.word) -> read(FALSE, TRUE, s.depth)
       [] s.verdict = "reading" /\ tok = "(" /\ s.wants                 -> read(TRUE, FALSE, s.depth + 1)
       [] s.verdict = "reading" /\ tok \in Operators /\ ~ s.wants       -> read(TRUE, FALSE, s.depth)
       [] s.verdict = "reading" /\ tok = ")" /\ ~ s.wants /\ s.depth > 0 ->
            read(FALSE, FALSE, s.depth - 1)
       [] OTHER                                                         -> refuse

Syntax(l) == FoldLeft(SyntaxStep, SyntaxStart, l)

IsList(l) == LET s == Syntax(l)
             IN  s.verdict = "list" \/ (s.verdict = "reading" /\ ~ s.wants /\ s.depth = 0)

(* Running it: `open` holds, for each open parenthesis, what is restored.    *)
RunStart(dir) == [status |-> 0, skip |-> FALSE, words |-> <<>>, cwd |-> dir, open |-> <<>>,
                  ran |-> <<>>]

Run(r) ==
  IF r.words = <<>> THEN r
  ELSE IF r.skip THEN [r EXCEPT !.words = <<>>]
  ELSE [r EXCEPT !.words = <<>>,
                 !.status = Status(r.cwd, r.words),
                 !.cwd = DirAfter(r.cwd, r.words),
                 !.ran = Append(@, [args |-> r.words, cwd |-> r.cwd, depth |-> Len(r.open) + 1])]

(* Is everything skipped at this depth, because the parenthesis is?          *)
Enclosing(r) == r.open # <<>> /\ Last(r.open).skip

(* The operator after which a status keeps the next command from running.    *)
Refuses(s) == IF s = 0 THEN "||" ELSE "&&"

RunStep(r, tok) ==
  LET done == Run(r)
  IN CASE tok \in Words     -> [r EXCEPT !.words = Append(@, tok)]
       [] tok = "("         -> [r EXCEPT !.open = Append(@, [skip |-> r.skip, cwd |-> r.cwd])]
       [] tok \in Operators -> [done EXCEPT !.skip = Enclosing(r) \/ tok = Refuses(done.status)]
       [] tok = ")"         -> [done EXCEPT !.open = Front(@), !.cwd = Last(r.open).cwd,
                                            !.skip = Last(r.open).skip]

Meaning(l, dir) ==
  IF l # <<>> /\ ~ IsList(l)
    THEN [status |-> 127, cwd |-> dir, ran |-> <<>>]
    ELSE LET r == Run(FoldLeft(RunStep, RunStart(dir), SubSeq(l, 1, Syntax(l).used)))
         IN  [status |-> r.status, cwd |-> r.cwd, ran |-> r.ran]

-----------------------------------------------------------------------------
(* Properties.                                                               *)

(* The shape of the state.                                                   *)
TypeOK ==
  /\ at \in Places
  /\ rest \in Seq(Tokens)
  /\ \A i \in DOMAIN parsing : parsing[i].op \in Operators \cup {""}
  /\ \A i \in DOMAIN calls : calls[i].op \in Operators \cup {"subshell"}
  /\ \A i \in DOMAIN procs : procs[i].cwd \in Dirs /\ procs[i].did_exit \in BOOLEAN
  /\ status \in {0, 1, 127}
  /\ cwd \in Dirs

(* The tree that the parser builds, and the recursion over it, run exactly   *)
(* the commands that a left-to-right reading of the line runs, in the same   *)
(* order and directories and at the same depth of subshells, and return the  *)
(* same status; a line with a syntax error runs nothing at all.              *)
RunsAsRead ==
  at = "finish" =>
    [status |-> status, cwd |-> procs[1].cwd, ran |-> ran] = Meaning(line.tokens, line.cwd)

(* Every process that a subshell makes is closed: as many are alive as there *)
(* are subshells being evaluated, and none but the line's own at its end.    *)
SubshellsClosed ==
  procs # <<>> =>
    Len(procs) = 1 + Cardinality({i \in DOMAIN calls : calls[i].op = "subshell"})

(* The command loop leaves when `exit` was the last command that a line      *)
(* invoked outside parentheses, and only if one of them was: nothing that a  *)
(* subshell does, before or after, and no value that its process starts with *)
(* takes the flag back or sets it.                                           *)
OuterRuns == {i \in DOMAIN ran : ran[i].depth = 1}
Exits(i) == ran[i].args[1] = "exit"
LeavesForExit ==
  procs # <<>> /\ OuterRuns # {} =>
    /\ procs[1].did_exit => \E i \in OuterRuns : Exits(i)
    /\ (\E i \in OuterRuns : Exits(i) /\ \A j \in OuterRuns : j <= i) => procs[1].did_exit

(* process.h:37 says of did_exit "True if exit command invoked", and         *)
(* readme.md:230 has the loop detect by it that the user entered `exit`: the *)
(* loop ends after a line if and only if exit was invoked in it, outside     *)
(* parentheses.                                                              *)
DidExit ==
  at = "finish" => (procs[1].did_exit <=> \E i \in OuterRuns : Exits(i))

(* Every line that is typed comes to its end.                                *)
EveryLineEnds == at \notin {"prompt", "ended"} ~> at \in {"prompt", "ended"}

=============================================================================
