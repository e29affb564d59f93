-------------------------------- MODULE Shell --------------------------------
(* The shell: src/src/parser.c parses a line of tokens into a tree of nodes, *)
(* src/src/process.c evaluates the tree, and the command loop of the sandbox *)
(* (src/sandbox/main.c) does so for one line after the other, with a process *)
(* for each line and a process of its own for each subshell.  Both halves of *)
(* the C code are recursive: the active calls of parseBinary are the frames  *)
(* of `parsing`, those of process_eval_node the frames of `calls`.           *)
EXTENDS SequencesExt, Naturals

CONSTANTS
  Words,   \* what an argument can be
  Lines,   \* the lines that are typed, as sequences of tokens
  Dirs     \* the directories of the volume, as sequences of segments

Operators == {"&&", "||", ";"}
Tokens == Words \cup Operators \cup {"(", ")", "&", "|"}
Root == <<"/">>

ASSUME LinesAssumption == Lines \subseteq Seq(Tokens)
(* A token's type tells an argument from an operator, whatever its text is.  *)
ASSUME WordsAssumption == Words \cap (Operators \cup {"(", ")", "&", "|", "EOF"}) = {}
ASSUME DirsAssumption == Root \in Dirs

VARIABLES
  at,       \* what goes on: see Places
  rest,     \* the tokens that are not consumed yet
  parsing,  \* the active calls of parseBinary: [lhs, op] records
  node,     \* the node that was parsed last, then the one to evaluate next
  calls,    \* the active calls of process_eval_node that wait for another
  procs,    \* the processes: that of the line, and those of its subshells
  status,   \* what the evaluation that ended last returned
  cwd,      \* the directory the command loop starts the next line in
  line,     \* history: the line, and the directory it was started in
  ran       \* history: the commands that were invoked

vars == <<at, rest, parsing, node, calls, procs, status, cwd, line, ran>>

Places == {"prompt", "leaf", "parsed", "eval", "return", "finish", "ended"}

Nop == [type |-> "nop"]
Command(args) == [type |-> "command", args |-> args]
Binary(op, lhs, rhs) == [type |-> op, lhs |-> lhs, rhs |-> rhs]
Subshell(arg) == [type |-> "subshell", arg |-> arg]

NewCall == [lhs |-> Nop, op |-> ""]
NoLine == [tokens |-> <<>>, cwd |-> Root]

Init ==
  /\ at = "prompt"
  /\ rest = <<>> /\ parsing = <<>> /\ node = Nop /\ calls = <<>> /\ procs = <<>>
  /\ status = 0
  /\ cwd = Root
  /\ line = NoLine
  /\ ran = <<>>

-----------------------------------------------------------------------------
(* The command loop reads a line: process_init (which leaves did_exit as it  *)
(* finds it on the stack), process_shell, parse.                             *)
Prompt(l) ==
  /\ at = "prompt"
  /\ \E garbage \in BOOLEAN : procs' = <<[cwd |-> cwd, did_exit |-> garbage]>>
  /\ rest' = l
  /\ line' = [tokens |-> l, cwd |-> cwd]
  /\ ran' = <<>>
  /\ node' = Nop
  /\ IF l = <<>>
       THEN at' = "eval" /\ parsing' = <<>>
       ELSE at' = "leaf" /\ parsing' = <<NewCall>>
  /\ UNCHANGED <<calls, status, cwd>>

-----------------------------------------------------------------------------
(* The parser.                                                               *)

Next1 == IF rest = <<>> THEN "EOF" ELSE Head(rest)

(* "Collect all consecutive args together".                                  *)
ArgCount == CHOOSE n \in 0 .. Len(rest) :
              /\ \A i \in 1 .. n : rest[i] \in Words
              /\ n < Len(rest) => rest[n + 1] \notin Words

ParseCommand ==
  /\ at = "leaf"
  /\ Next1 \in Words
  /\ node' = Command(SubSeq(rest, 1, ArgCount))
  /\ rest' = SubSeq(rest, ArgCount + 1, Len(rest))
  /\ at' = "parsed"
  /\ UNCHANGED <<parsing, calls, procs, status, cwd, line, ran>>

OpenSubshell ==
  /\ at = "leaf"
  /\ Next1 = "("
  /\ rest' = Tail(rest)
  /\ parsing' = Append(parsing, NewCall)
  /\ UNCHANGED <<at, node, calls, procs, status, cwd, line, ran>>

(* NULL is returned through all the active calls; process_shell returns 127. *)
SyntaxError ==
  /\ parsing' = <<>> /\ node' = Nop
  /\ status' = 127
  /\ at' = "finish"
  /\ UNCHANGED <<rest, calls, procs, cwd, line, ran>>

NoCommand ==
  /\ at = "leaf"
  /\ Next1 \notin Words \cup {"("}
  /\ SyntaxError

(* The operands joined the wrong way round.                                  *)
JoinedBackwards == LET fr == Last(parsing) IN
                   IF fr.op = "" THEN node ELSE Binary(fr.op, node, fr.lhs)

(* The operand that was just parsed, joined to what is on its left.          *)
Joined == LET fr == Last(parsing) IN
          IF fr.op = "" THEN node ELSE Binary(fr.op, fr.lhs, node)

ParseOperator ==
  /\ at = "parsed"
  /\ Next1 \in Operators
  /\ parsing' = Append(Front(parsing), [lhs |-> Joined, op |-> Next1])
  /\ rest' = Tail(rest)
  /\ at' = "leaf"
  /\ UNCHANGED <<node, calls, procs, status, cwd, line, ran>>

CloseSubshell ==
  /\ at = "parsed"
  /\ Len(parsing) > 1
  /\ Next1 = ")"
  /\ node' = Subshell(Joined)
  /\ parsing' = Front(parsing)
  /\ rest' = Tail(rest)
  /\ UNCHANGED <<at, calls, procs, status, cwd, line, ran>>

(* The end of the line not taken for a missing parenthesis.                  *)
MissingCloseInLine ==
  /\ at = "parsed"
  /\ Len(parsing) > 1
  /\ Next1 \notin Operators \cup {")", "EOF"}
  /\ SyntaxError

MissingClose ==
  /\ at = "parsed"
  /\ Len(parsing) > 1
  /\ Next1 \notin Operators \cup {")"}
  /\ SyntaxError

(* The outermost parseBinary returns; what is left of the line is dropped.   *)
RootParsed ==
  /\ at = "parsed"
  /\ Len(parsing) = 1
  /\ Next1 \notin Operators
  /\ node' = Joined
  /\ parsing' = <<>>
  /\ at' = "eval"
  /\ UNCHANGED <<rest, calls, procs, status, cwd, line, ran>>

-----------------------------------------------------------------------------
(* The commands that the properties tell apart.                              *)

Resolve(dir, w) ==
  IF w # ".." THEN Append(dir, w) ELSE IF dir = Root THEN Root ELSE Front(dir)

(* cmd_cd: one argument, which is a directory.  (Without an argument it sets *)
(* an empty directory: no line of the instances does that.)                  *)
ValidCd(dir, args) == Len(args) = 2 /\ Resolve(dir, args[2]) \in Dirs

(* What a command returns, and where it leaves the process.                  *)
Status(dir, args) ==
  CASE args[1] \in {"true", "exit"}        -> 0
    [] args[1] = "false"                   -> 1
    [] args[1] = "cd"                      -> IF ValidCd(dir, args) THEN 0 ELSE 1
    [] args[1] \notin {"true", "exit", "false", "cd"} -> 127

DirAfter(dir, args) ==
  IF args[1] = "cd" /\ ValidCd(dir, args) THEN Resolve(dir, args[2]) ELSE dir

-----------------------------------------------------------------------------
(* The evaluator.                                                            *)

Proc == Last(procs)

EvalNop ==
  /\ at = "eval" /\ node.type = "nop"
  /\ status' = 0
  /\ at' = "return"
  /\ UNCHANGED <<rest, parsing, node, calls, procs, cwd, line, ran>>

(* process_invoke.                                                           *)
Invoke ==
  /\ at = "eval" /\ node.type = "command"
  /\ procs' = Append(Front(procs), [cwd      |-> DirAfter(Proc.cwd, node.args),
                                    did_exit |-> node.args[1] = "exit"])
  /\ ran' = Append(ran, [args |-> node.args, cwd |-> Proc.cwd, depth |-> Len(procs)])
  /\ status' = Status(Proc.cwd, node.args)
  /\ at' = "return"
  /\ UNCHANGED <<rest, parsing, node, calls, cwd, line>>

EvalLeft ==
  /\ at = "eval" /\ node.type \in Operators
  /\ calls' = Append(calls, [op |-> node.type, rhs |-> node.rhs])
  /\ node' = node.lhs
  /\ UNCHANGED <<at, rest, parsing, procs, status, cwd, line, ran>>

EnterSubshell ==
  /\ at = "eval" /\ node.type = "subshell"
  /\ \E garbage \in BOOLEAN :
       procs' = Append(procs, [cwd |-> Proc.cwd, did_exit |-> garbage])
  /\ calls' = Append(calls, [op |-> "subshell", rhs |-> Nop])
  /\ node' = node.arg
  /\ UNCHANGED <<at, rest, parsing, status, cwd, line, ran>>

Waits(op) == at = "return" /\ calls # <<>> /\ Last(calls).op = op

(* Does the left operand's status make the right one run?                    *)
RunsRight(op, s) == (op = "&&" => s = 0) /\ (op = "||" => s # 0)

EvalRight ==
  /\ \E op \in Operators : Waits(op) /\ RunsRight(op, status)
  /\ node' = Last(calls).rhs
  /\ calls' = Front(calls)
  /\ at' = "eval"
  /\ UNCHANGED <<rest, parsing, procs, status, cwd, line, ran>>

SkipRight ==
  /\ \E op \in Operators : Waits(op) /\ ~ RunsRight(op, status)
  /\ calls' = Front(calls)
  /\ UNCHANGED <<at, rest, parsing, node, procs, status, cwd, line, ran>>

(* The process of the subshell not closed: a mistake.                        *)
LeaveSubshellOpen ==
  /\ Waits("subshell")
  /\ calls' = Front(calls)
  /\ UNCHANGED <<at, rest, parsing, node, procs, status, cwd, line, ran>>

(* The flag of a subshell's process passed on to its parent: a mistake.      *)
LeaveSubshellExiting ==
  /\ Waits("subshell")
  /\ procs' = Append(Front(Front(procs)), [Last(Front(procs)) EXCEPT !.did_exit = Proc.did_exit])
  /\ calls' = Front(calls)
  /\ UNCHANGED <<at, rest, parsing, node, status, cwd, line, ran>>

LeaveSubshell ==
  /\ Waits("subshell")
  /\ procs' = Front(procs)
  /\ calls' = Front(calls)
  /\ UNCHANGED <<at, rest, parsing, node, status, cwd, line, ran>>

RootEvaluated ==
  /\ at = "return" /\ calls = <<>>
  /\ at' = "finish"
  /\ UNCHANGED <<rest, parsing, node, calls, procs, status, cwd, line, ran>>

(* The command loop: keep the directory, close the process, leave or go on.  *)
Finish ==
  /\ at = "finish"
  /\ cwd' = Proc.cwd
  /\ procs' = <<>>
  /\ at' = IF Proc.did_exit THEN "ended" ELSE "prompt"
  /\ rest' = <<>> /\ node' = Nop /\ status' = 0
  /\ line' = NoLine /\ ran' = <<>>
  /\ UNCHANGED <<parsing, calls>>

-----------------------------------------------------------------------------
Parse == ParseCommand \/ OpenSubshell \/ NoCommand \/ ParseOperator \/ CloseSubshell
         \/ MissingClose \/ RootParsed
Eval == EvalNop \/ Invoke \/ EvalLeft \/ EnterSubshell \/ EvalRight \/ SkipRight
        \/ LeaveSubshell \/ RootEvaluated
Step == Parse \/ Eval \/ Finish

Next == Step \/ \E l \in Lines : Prompt(l)

(* A line that was typed is worked through; nobody has to type another.      *)
Spec == Init /\ [][Next]_vars /\ WF_vars(Step)

=============================================================================
