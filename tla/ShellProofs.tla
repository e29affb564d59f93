----------------------------- MODULE ShellProofs -----------------------------
(* The shell's theorems, for every line over any words and directories,      *)
(* parentheses nested to any depth, well-formed or not: the processes of the *)
(* subshells and the exit flag, the types, and that the tree, the recursion  *)
(* over it and its processes run what reading the line runs.                 *)
EXTENDS ShellMeaning, FiniteSetTheorems, SequenceTheorems, WellFoundedInduction, TLAPS

-----------------------------------------------------------------------------
(* Sequences of whatever elements: the nodes of a line are no set.           *)
Listed(s) == \E S : s \in Seq(S)

LEMMA SeqGrows ==
  ASSUME NEW S, NEW T, S \subseteq T, NEW s \in Seq(S)
  PROVE  s \in Seq(T)
<1>1. s = [i \in 1 .. Len(s) |-> s[i]] /\ Len(s) \in Nat /\ \A i \in 1 .. Len(s) : s[i] \in S
  OBVIOUS
<1>2. \A i \in 1 .. Len(s) : s[i] \in T
  BY <1>1
<1> QED BY <1>1, <1>2, IsASeq

LEMMA ListedFacts ==
  ASSUME NEW s, Listed(s)
  PROVE  /\ Len(s) \in Nat /\ DOMAIN s = 1 .. Len(s)
         /\ s # <<>> => Len(s) >= 1 /\ Last(s) = s[Len(s)]
<1>1. PICK S : s \in Seq(S)
  BY DEF Listed
<1> QED BY <1>1, EmptySeq, LenProperties DEF Last

LEMMA ListedAppend ==
  ASSUME NEW s, Listed(s), NEW e
  PROVE  /\ Listed(Append(s, e)) /\ Append(s, e) # <<>> /\ Len(Append(s, e)) = Len(s) + 1
         /\ DOMAIN Append(s, e) = DOMAIN s \cup {Len(s) + 1}
         /\ \A i \in DOMAIN s : Append(s, e)[i] = s[i]
         /\ Append(s, e)[Len(s) + 1] = e
<1>1. PICK S : s \in Seq(S)
  BY DEF Listed
<1> DEFINE T == S \cup {e}
           u == Append(s, e)
<1>2. s \in Seq(T) /\ e \in T
  BY <1>1, SeqGrows
<1> HIDE DEF T
<1>3. /\ u \in Seq(T) /\ u # <<>> /\ Len(u) = Len(s) + 1
      /\ \A i \in 1 .. Len(s) : u[i] = s[i]
      /\ u[Len(s) + 1] = e
  BY <1>2, AppendProperties
<1>4. Len(s) \in Nat /\ DOMAIN s = 1 .. Len(s)
  BY ListedFacts
<1> HIDE DEF u
<1>5. DOMAIN u = 1 .. Len(s) + 1
  BY <1>3, LenProperties
<1>6. \A n \in Nat : 1 .. n + 1 = (1 .. n) \cup {n + 1}
  OBVIOUS
<1>7. DOMAIN u = DOMAIN s \cup {Len(s) + 1}
  BY <1>4, <1>5, <1>6
<1>8. Listed(u)
  BY <1>3 DEF Listed
<1> QED BY <1>3, <1>4, <1>7, <1>8 DEF u

LEMMA ListedFront ==
  ASSUME NEW s, Listed(s), s # <<>>
  PROVE  /\ Listed(Front(s)) /\ Len(Front(s)) = Len(s) - 1
         /\ DOMAIN Front(s) = DOMAIN s \ {Len(s)}
         /\ \A i \in DOMAIN Front(s) : Front(s)[i] = s[i]
<1>1. PICK S : s \in Seq(S)
  BY DEF Listed
<1>2. Len(s) \in Nat /\ DOMAIN s = 1 .. Len(s) /\ Len(s) >= 1
  BY ListedFacts
<1> DEFINE u == Front(s)
<1>3. \A i \in 1 .. Len(s) - 1 : s[i] \in S
  BY <1>1, <1>2
<1>4. /\ u \in Seq(S)
      /\ Len(u) = IF 1 <= Len(s) - 1 THEN Len(s) - 1 - 1 + 1 ELSE 0
      /\ \A i \in 1 .. Len(s) - 1 - 1 + 1 : u[i] = s[1 + i - 1]
  BY <1>2, <1>3, SubSeqProperties DEF Front
<1> HIDE DEF u
<1>a. \A n \in Nat : n >= 1 => (IF 1 <= n - 1 THEN n - 1 - 1 + 1 ELSE 0) = n - 1
  OBVIOUS
<1>b. \A n \in Nat : \A i \in 1 .. n - 1 : i \in 1 .. n - 1 - 1 + 1 /\ 1 + i - 1 = i
  OBVIOUS
<1>5. Len(u) = Len(s) - 1 /\ \A i \in 1 .. Len(s) - 1 : u[i] = s[i]
  <2>1. Len(u) = Len(s) - 1
    BY <1>2, <1>4, <1>a
  <2>2. ASSUME NEW i \in 1 .. Len(s) - 1 PROVE u[i] = s[i]
    <3>1. i \in 1 .. Len(s) - 1 - 1 + 1 /\ 1 + i - 1 = i
      BY <1>2, <1>b
    <3>2. u[i] = s[1 + i - 1]
      BY <1>4, <3>1
    <3> QED BY <3>1, <3>2
  <2> QED BY <2>1, <2>2
<1>6. DOMAIN u = 1 .. Len(s) - 1
  BY <1>4, <1>5, LenProperties
<1>7. \A n \in Nat : n >= 1 => 1 .. n - 1 = (1 .. n) \ {n}
  OBVIOUS
<1>8. DOMAIN u = DOMAIN s \ {Len(s)}
  BY <1>2, <1>6, <1>7
<1>9. Listed(u)
  BY <1>4 DEF Listed
<1> QED BY <1>5, <1>6, <1>8, <1>9 DEF u

-----------------------------------------------------------------------------
(* The calls of process_eval_node that wait for a subshell.                  *)
Waiting(st) == {i \in DOMAIN st : st[i].op = "subshell"}
Depth(st) == Cardinality(Waiting(st))

LEMMA DepthFacts ==
  ASSUME NEW st, Listed(st)
  PROVE  IsFiniteSet(Waiting(st)) /\ Depth(st) \in Nat
<1>1. Len(st) \in Nat /\ DOMAIN st = 1 .. Len(st)
  BY ListedFacts
<1>2. IsFiniteSet(DOMAIN st)
  BY <1>1, FS_Interval
<1>3. IsFiniteSet(Waiting(st))
  BY <1>2, FS_Subset DEF Waiting
<1> QED BY <1>3, FS_CardinalityType DEF Depth

LEMMA DepthCall ==
  ASSUME NEW st, Listed(st), NEW e
  PROVE  /\ e.op = "subshell" => Depth(Append(st, e)) = Depth(st) + 1
         /\ e.op # "subshell" => Depth(Append(st, e)) = Depth(st)
<1> DEFINE u == Append(st, e)
           n == Len(st) + 1
<1>1. /\ DOMAIN u = DOMAIN st \cup {n} /\ u[n] = e
      /\ \A i \in DOMAIN st : u[i] = st[i]
  BY ListedAppend
<1>2. n \notin DOMAIN st
  BY ListedFacts
<1> HIDE DEF u, n
<1>3. CASE e.op = "subshell"
  <2>1. Waiting(u) = Waiting(st) \cup {n}
    BY <1>1, <1>2, <1>3 DEF Waiting
  <2>2. n \notin Waiting(st)
    BY <1>2 DEF Waiting
  <2>3. Cardinality(Waiting(st) \cup {n}) = Cardinality(Waiting(st)) + 1
    BY <2>2, DepthFacts, FS_AddElement
  <2> QED BY <1>3, <2>1, <2>3 DEF Depth, u
<1>4. CASE e.op # "subshell"
  <2>1. Waiting(u) = Waiting(st)
    BY <1>1, <1>2, <1>4 DEF Waiting
  <2> QED BY <1>4, <2>1 DEF Depth, u
<1> QED BY <1>3, <1>4

LEMMA DepthReturn ==
  ASSUME NEW st, Listed(st), st # <<>>
  PROVE  /\ Last(st).op = "subshell" => Depth(Front(st)) = Depth(st) - 1 /\ Depth(st) >= 1
         /\ Last(st).op # "subshell" => Depth(Front(st)) = Depth(st)
<1> DEFINE u == Front(st)
           n == Len(st)
<1>1. DOMAIN u = DOMAIN st \ {n} /\ \A i \in DOMAIN u : u[i] = st[i]
  BY ListedFront
<1>2. n \in DOMAIN st /\ Last(st) = st[n]
  BY ListedFacts
<1> HIDE DEF u, n
<1>3. CASE Last(st).op = "subshell"
  <2>1. Waiting(u) = Waiting(st) \ {n} /\ n \in Waiting(st)
    BY <1>1, <1>2, <1>3 DEF Waiting
  <2>2. IsFiniteSet(Waiting(st)) /\ IsFiniteSet(Waiting(st) \ {n})
    BY DepthFacts, FS_RemoveElement
  <2>3. Cardinality(Waiting(st) \ {n}) = Cardinality(Waiting(st)) - 1
    BY <2>1, <2>2, FS_RemoveElement
  <2>4. Cardinality(Waiting(st)) \in Nat /\ Cardinality(Waiting(st) \ {n}) \in Nat
    BY <2>2, FS_CardinalityType
  <2>5. Cardinality(Waiting(st)) >= 1
    BY <2>3, <2>4
  <2> QED BY <1>3, <2>1, <2>3, <2>5 DEF Depth, u
<1>4. CASE Last(st).op # "subshell"
  <2>1. Waiting(u) = Waiting(st)
    BY <1>1, <1>2, <1>4 DEF Waiting
  <2> QED BY <1>4, <2>1 DEF Depth, u
<1> QED BY <1>3, <1>4

-----------------------------------------------------------------------------
(* The processes and the calls, for the two properties.                      *)
Balanced ==
  /\ Listed(calls) /\ Listed(procs) /\ Listed(ran)
  /\ at \notin {"eval", "return"} => calls = <<>>
  /\ at \notin {"prompt", "ended"} => procs # <<>>
  /\ procs # <<>> => Len(procs) = 1 + Depth(calls)

LEMMA ListedEmpty == Listed(<<>>) /\ \A e : Listed(<<e>>) /\ <<e>> # <<>> /\ Len(<<e>>) = 1
<1>1. <<>> \in Seq({})
  OBVIOUS
<1>2. ASSUME NEW e PROVE <<e>> \in Seq({e}) /\ <<e>> # <<>> /\ Len(<<e>>) = 1
  OBVIOUS
<1> QED BY <1>1, <1>2 DEF Listed

LEMMA DepthEmpty == Depth(<<>>) = 0
<1>1. Waiting(<<>>) = {}
  BY DEF Waiting
<1> QED BY <1>1, FS_EmptySet DEF Depth

LEMMA OperatorsAreNone == "subshell" \notin Operators
  BY DEF Operators

LEMMA BalancedInit == Init => Balanced
  BY ListedEmpty DEF Init, Balanced

LEMMA BalancedPrompt ==
  ASSUME Balanced, NEW l, Prompt(l)
  PROVE  Balanced'
<1>1. PICK g \in BOOLEAN : procs' = <<[cwd |-> cwd, did_exit |-> g]>>
  BY DEF Prompt
<1>2. Listed(procs') /\ procs' # <<>> /\ Len(procs') = 1
  BY <1>1, ListedEmpty
<1>3. calls' = calls /\ calls = <<>> /\ ran' = <<>>
  BY DEF Prompt, Balanced
<1>4. Depth(calls') = 0
  BY <1>3, DepthEmpty
<1> QED BY <1>2, <1>3, <1>4, ListedEmpty DEF Balanced

LEMMA BalancedParse ==
  ASSUME Balanced, Parse
  PROVE  Balanced'
<1>1. /\ UNCHANGED <<calls, procs, ran>> /\ at \in {"leaf", "parsed"}
      /\ at' \in {"leaf", "parsed", "eval", "finish"}
  BY DEF Parse, ParseCommand, OpenSubshell, NoCommand, ParseOperator, CloseSubshell,
         MissingClose, RootParsed, SyntaxError
<1>2. calls = <<>> /\ procs # <<>>
  BY <1>1 DEF Balanced
<1> QED BY <1>1, <1>2 DEF Balanced

LEMMA BalancedEval ==
  ASSUME Balanced, Eval
  PROVE  Balanced'
<1> USE DEF Balanced
<1>1. CASE EvalNop
  BY <1>1 DEF EvalNop
<1>2. CASE Invoke
  <2>1. /\ procs # <<>> /\ at = "eval" /\ at' = "return" /\ calls' = calls
        /\ \E e : procs' = Append(Front(procs), e)
        /\ \E e : ran' = Append(ran, e)
    BY <1>2 DEF Invoke
  <2>2. Listed(ran')
    BY <2>1, ListedAppend
  <2>3. Listed(Front(procs)) /\ Len(Front(procs)) = Len(procs) - 1 /\ Len(procs) \in Nat
    BY <2>1, ListedFront, ListedFacts
  <2>4. Listed(procs') /\ procs' # <<>> /\ Len(procs') = Len(procs)
    BY <2>1, <2>3, ListedAppend
  <2> QED BY <2>1, <2>2, <2>4
<1>3. CASE EvalLeft
  <2>1. /\ procs # <<>> /\ at = "eval" /\ at' = "eval" /\ procs' = procs /\ ran' = ran
        /\ calls' = Append(calls, [op |-> node.type, rhs |-> node.rhs])
        /\ node.type # "subshell"
    BY <1>3, OperatorsAreNone DEF EvalLeft
  <2>2. Listed(calls') /\ Depth(calls') = Depth(calls)
    BY <2>1, ListedAppend, DepthCall
  <2> QED BY <2>1, <2>2
<1>4. CASE EnterSubshell
  <2>1. /\ procs # <<>> /\ at = "eval" /\ at' = "eval" /\ ran' = ran
        /\ calls' = Append(calls, [op |-> "subshell", rhs |-> Nop])
        /\ \E e : procs' = Append(procs, e)
    BY <1>4 DEF EnterSubshell
  <2>2. Listed(calls') /\ Depth(calls') = Depth(calls) + 1
    BY <2>1, ListedAppend, DepthCall
  <2>3. Listed(procs') /\ procs' # <<>> /\ Len(procs') = Len(procs) + 1
    BY <2>1, ListedAppend
  <2>4. Depth(calls) \in Nat
    BY DepthFacts
  <2> QED BY <2>1, <2>2, <2>3, <2>4
<1>5. CASE EvalRight
  <2>1. /\ procs # <<>> /\ at' = "eval" /\ procs' = procs /\ ran' = ran
        /\ calls # <<>> /\ calls' = Front(calls) /\ Last(calls).op # "subshell"
    BY <1>5, OperatorsAreNone DEF EvalRight, Waits
  <2>2. Listed(calls') /\ Depth(calls') = Depth(calls)
    BY <2>1, ListedFront, DepthReturn
  <2> QED BY <2>1, <2>2
<1>6. CASE SkipRight
  <2>1. /\ procs # <<>> /\ at = "return" /\ at' = at /\ procs' = procs /\ ran' = ran
        /\ calls # <<>> /\ calls' = Front(calls) /\ Last(calls).op # "subshell"
    BY <1>6, OperatorsAreNone DEF SkipRight, Waits
  <2>2. Listed(calls') /\ Depth(calls') = Depth(calls)
    BY <2>1, ListedFront, DepthReturn
  <2> QED BY <2>1, <2>2
<1>7. CASE LeaveSubshell
  <2>1. /\ procs # <<>> /\ at = "return" /\ at' = at /\ procs' = Front(procs) /\ ran' = ran
        /\ calls # <<>> /\ calls' = Front(calls) /\ Last(calls).op = "subshell"
    BY <1>7 DEF LeaveSubshell, Waits
  <2>2. Listed(calls') /\ Depth(calls') = Depth(calls) - 1 /\ Depth(calls) >= 1
    BY <2>1, ListedFront, DepthReturn
  <2>3. Listed(procs') /\ Len(procs') = Len(procs) - 1
    BY <2>1, ListedFront
  <2>4. Depth(calls) \in Nat /\ Len(procs) = 1 + Depth(calls)
    BY <2>1, DepthFacts
  <2>5. Len(procs') >= 1 /\ Len(procs') = 1 + Depth(calls')
    BY <2>2, <2>3, <2>4
  <2>6. procs' # <<>>
    BY <2>5
  <2> QED BY <2>1, <2>2, <2>3, <2>5, <2>6
<1>8. CASE RootEvaluated
  BY <1>8 DEF RootEvaluated
<1> QED BY <1>1, <1>2, <1>3, <1>4, <1>5, <1>6, <1>7, <1>8 DEF Eval

LEMMA BalancedFinish ==
  ASSUME Balanced, Finish
  PROVE  Balanced'
<1>1. /\ procs' = <<>> /\ ran' = <<>> /\ calls' = calls /\ calls = <<>>
      /\ at' \in {"ended", "prompt"}
  BY DEF Finish, Balanced
<1> QED BY <1>1, ListedEmpty DEF Balanced

LEMMA BalancedNext == Balanced /\ [Next]_vars => Balanced'
<1>1. CASE UNCHANGED vars
  BY <1>1 DEF Balanced, vars
<1> QED BY <1>1, BalancedPrompt, BalancedParse, BalancedEval, BalancedFinish DEF Next, Step

(* Every process that a subshell made is closed when the subshell ends, and  *)
(* none while it is evaluated, however the parentheses nest.                 *)
THEOREM SubshellsAreClosed == Spec => []SubshellsClosed
<1>1. Balanced => SubshellsClosed
  BY DEF Balanced, SubshellsClosed, Depth, Waiting
<1> QED BY BalancedInit, BalancedNext, <1>1, PTL DEF Spec

-----------------------------------------------------------------------------
(* The flag that ends the command loop: did_exit of the line's process, as   *)
(* process_invoke leaves it, is that of the last command invoked outside     *)
(* parentheses.  (That is more than LeavesForExit says, and keeps itself.)   *)
FlagIsOfLastCommand ==
  procs # <<>> /\ OuterRuns # {} =>
    (procs[1].did_exit <=> \E i \in OuterRuns : Exits(i) /\ \A j \in OuterRuns : j <= i)

LEMMA FlagInit == Init => FlagIsOfLastCommand
  BY DEF Init, FlagIsOfLastCommand

(* What leaves the commands and the line's own process alone.                *)
LEMMA FlagUntouched ==
  ASSUME FlagIsOfLastCommand, ran' = ran,
         procs' # <<>> => procs # <<>> /\ procs'[1] = procs[1]
  PROVE  FlagIsOfLastCommand'
  BY DEF FlagIsOfLastCommand, OuterRuns, Exits

LEMMA FlagPrompt ==
  ASSUME NEW l, Prompt(l)
  PROVE  FlagIsOfLastCommand'
<1>1. ran' = <<>>
  BY DEF Prompt
<1>2. OuterRuns' = {}
  BY <1>1 DEF OuterRuns
<1> QED BY <1>2 DEF FlagIsOfLastCommand

LEMMA FlagInvoke ==
  ASSUME Balanced, FlagIsOfLastCommand, Invoke
  PROVE  FlagIsOfLastCommand'
<1> DEFINE proc == [cwd      |-> DirAfter(Proc.cwd, node.args),
                    did_exit |-> node.args[1] = "exit"]
           cmd == [args |-> node.args, cwd |-> Proc.cwd, depth |-> Len(procs)]
           n == Len(ran) + 1
<1>1. /\ procs # <<>> /\ Listed(procs) /\ Listed(ran)
      /\ procs' = Append(Front(procs), proc) /\ ran' = Append(ran, cmd)
  BY DEF Invoke, Balanced
<1>2. /\ proc.did_exit <=> node.args[1] = "exit"
      /\ cmd.args = node.args /\ cmd.depth = Len(procs)
  OBVIOUS
<1> HIDE DEF proc, cmd
<1>3. /\ DOMAIN ran' = DOMAIN ran \cup {n} /\ ran'[n] = cmd
      /\ \A i \in DOMAIN ran : ran'[i] = ran[i]
  BY <1>1, ListedAppend
<1>4. n \in Nat /\ \A i \in DOMAIN ran : i \in Nat /\ i < n
  BY <1>1, ListedFacts
<1> HIDE DEF n
<1>5. /\ Listed(Front(procs)) /\ Len(Front(procs)) = Len(procs) - 1
      /\ DOMAIN Front(procs) = DOMAIN procs \ {Len(procs)}
      /\ \A i \in DOMAIN Front(procs) : Front(procs)[i] = procs[i]
  BY <1>1, ListedFront
<1>6. Len(procs) \in Nat /\ DOMAIN procs = 1 .. Len(procs) /\ Len(procs) >= 1
  BY <1>1, ListedFacts
<1>7. /\ \A i \in DOMAIN Front(procs) : procs'[i] = Front(procs)[i]
      /\ procs'[Len(Front(procs)) + 1] = proc
  BY <1>1, <1>5, ListedAppend
<1>8. CASE Len(procs) = 1
  <2>1. procs'[1] = proc
    BY <1>5, <1>7, <1>8
  <2>2. OuterRuns' = OuterRuns \cup {n}
    BY <1>2, <1>3, <1>4, <1>8 DEF OuterRuns
  <2>3. OuterRuns \subseteq DOMAIN ran
    BY DEF OuterRuns
  <2>4. ASSUME NEW i \in OuterRuns', \A j \in OuterRuns' : j <= i
        PROVE  i = n
    BY <1>4, <2>2, <2>3, <2>4
  <2>5. n \in OuterRuns' /\ \A j \in OuterRuns' : j <= n
    BY <1>4, <2>2, <2>3
  <2>6. ran'[n].args[1] = "exit" <=> procs'[1].did_exit
    BY <1>2, <1>3, <2>1
  <2> QED BY <2>4, <2>5, <2>6 DEF FlagIsOfLastCommand, Exits
<1>9. CASE Len(procs) # 1
  <2>1. 1 \in DOMAIN Front(procs)
    BY <1>5, <1>6, <1>9
  <2>2. procs'[1] = procs[1]
    BY <1>5, <1>7, <2>1
  <2>3. OuterRuns' = OuterRuns
    BY <1>2, <1>3, <1>4, <1>9 DEF OuterRuns
  <2>4. \A i \in OuterRuns : ran'[i] = ran[i]
    BY <1>3 DEF OuterRuns
  <2> QED BY <1>1, <2>2, <2>3, <2>4 DEF FlagIsOfLastCommand, Exits
<1> QED BY <1>8, <1>9

LEMMA FlagNext == Balanced /\ FlagIsOfLastCommand /\ [Next]_vars => FlagIsOfLastCommand'
<1> SUFFICES ASSUME Balanced, FlagIsOfLastCommand, [Next]_vars
             PROVE  FlagIsOfLastCommand'
  OBVIOUS
<1>1. CASE UNCHANGED <<procs, ran>>
  BY <1>1, FlagUntouched
<1>2. CASE EnterSubshell
  <2>1. /\ procs # <<>> /\ ran' = ran /\ Listed(procs)
        /\ \E e : procs' = Append(procs, e)
    BY <1>2 DEF EnterSubshell, Balanced
  <2>2. 1 \in DOMAIN procs
    BY <2>1, ListedFacts
  <2>3. procs'[1] = procs[1]
    BY <2>1, <2>2, ListedAppend
  <2> QED BY <2>1, <2>3, FlagUntouched
<1>3. CASE LeaveSubshell
  <2>1. /\ procs # <<>> /\ procs' = Front(procs) /\ ran' = ran /\ Listed(procs)
    BY <1>3 DEF LeaveSubshell, Waits, Balanced
  <2>2. /\ Listed(procs') /\ \A i \in DOMAIN procs' : procs'[i] = procs[i]
    BY <2>1, ListedFront
  <2>3. procs' # <<>> => 1 \in DOMAIN procs'
    BY <2>2, ListedFacts
  <2> QED BY <2>1, <2>2, <2>3, FlagUntouched
<1>4. CASE Finish
  <2>1. procs' = <<>>
    BY <1>4 DEF Finish
  <2> QED BY <2>1 DEF FlagIsOfLastCommand
<1>5. CASE UNCHANGED vars
  BY <1>1, <1>5 DEF vars
<1>6. CASE Parse
  <2>1. UNCHANGED <<procs, ran>>
    BY <1>6 DEF Parse, ParseCommand, OpenSubshell, NoCommand, ParseOperator, CloseSubshell,
                MissingClose, RootParsed, SyntaxError
  <2> QED BY <1>1, <2>1
<1>7. CASE EvalNop \/ EvalLeft \/ EvalRight \/ SkipRight \/ RootEvaluated
  <2>1. UNCHANGED <<procs, ran>>
    BY <1>7 DEF EvalNop, EvalLeft, EvalRight, SkipRight, RootEvaluated
  <2> QED BY <1>1, <2>1
<1> QED BY <1>2, <1>3, <1>4, <1>5, <1>6, <1>7, FlagInvoke, FlagPrompt DEF Next, Step, Eval

(* Whatever the line: `exit` as the last command outside parentheses ends    *)
(* the command loop, and without one there the loop goes on, once a command  *)
(* has replaced the value that process_init found in the flag.               *)
THEOREM ExitEndsLoop == Spec => []LeavesForExit
<1>1. Init => Balanced /\ FlagIsOfLastCommand
  BY BalancedInit, FlagInit
<1>2. Balanced /\ FlagIsOfLastCommand /\ [Next]_vars => (Balanced /\ FlagIsOfLastCommand)'
  BY BalancedNext, FlagNext
<1>3. FlagIsOfLastCommand => LeavesForExit
  BY DEF FlagIsOfLastCommand, LeavesForExit
<1> QED BY <1>1, <1>2, <1>3, PTL DEF Spec

-----------------------------------------------------------------------------
(* Every set of natural numbers has a least one: the induction of the proofs *)
(* below, over the tokens of a line and over the nodes of its tree.          *)
LEMMA LeastNat ==
  ASSUME NEW T, T \subseteq Nat, T # {}
  PROVE  \E n \in T : \A m \in T : n <= m
<1>1. IsWellFoundedOn(OpToRel(<, Nat), Nat)
  BY NatLessThanWellFounded
<1>2. PICK n \in T : \A m \in T : ~ (<<m, n>> \in OpToRel(<, Nat))
  BY <1>1, WFMin
<1>3. \A m \in T : ~ (m < n)
  BY <1>2 DEF OpToRel
<1> QED BY <1>3

(* What is left of a line when n of its tokens are gone.                     *)
LEMMA Dropped ==
  ASSUME NEW S, NEW s \in Seq(S), NEW n \in 0 .. Len(s)
  PROVE  /\ SubSeq(s, n + 1, Len(s)) \in Seq(S) /\ Len(SubSeq(s, n + 1, Len(s))) = Len(s) - n
         /\ \A k \in 1 .. Len(s) - n : SubSeq(s, n + 1, Len(s))[k] = s[n + k]
<1>1. Len(s) \in Nat /\ \A k \in n + 1 .. Len(s) : s[k] \in S
  BY ElementOfSeq, LenProperties
<1> DEFINE u == SubSeq(s, n + 1, Len(s))
<1>2. /\ u \in Seq(S)
      /\ Len(u) = IF n + 1 <= Len(s) THEN Len(s) - (n + 1) + 1 ELSE 0
      /\ \A k \in 1 .. Len(s) - (n + 1) + 1 : u[k] = s[n + 1 + k - 1]
  BY <1>1, SubSeqProperties
<1> HIDE DEF u
<1>3. Len(u) = Len(s) - n
  BY <1>1, <1>2
<1>4. \A k \in 1 .. Len(s) - n : u[k] = s[n + k]
  <2> SUFFICES ASSUME NEW k \in 1 .. Len(s) - n PROVE u[k] = s[n + k]
    OBVIOUS
  <2>1. k \in 1 .. Len(s) - (n + 1) + 1 /\ n + 1 + k - 1 = n + k
    BY <1>1
  <2> QED BY <1>2, <2>1
<1> QED BY <1>2, <1>3, <1>4 DEF u

(* How many arguments are collected.                                         *)
LEMMA ArgCountFacts ==
  ASSUME rest \in Seq(Tokens)
  PROVE  /\ ArgCount \in 0 .. Len(rest)
         /\ \A i \in 1 .. ArgCount : rest[i] \in Words
         /\ ArgCount < Len(rest) => rest[ArgCount + 1] \notin Words
<1> DEFINE T == {n \in 0 .. Len(rest) : n = Len(rest) \/ rest[n + 1] \notin Words}
<1>1. Len(rest) \in Nat
  BY LenProperties
<1>2. T \subseteq Nat /\ Len(rest) \in T
  BY <1>1
<1>3. PICK n \in T : \A m \in T : n <= m
  BY <1>2, LeastNat
<1>4. ASSUME NEW i \in 1 .. n PROVE rest[i] \in Words
  <2>1. i - 1 \in 0 .. Len(rest) /\ i - 1 # Len(rest) /\ i - 1 + 1 = i /\ ~ (n <= i - 1)
    BY <1>1
  <2> QED BY <1>3, <2>1
<1>5. n < Len(rest) => rest[n + 1] \notin Words
  BY <1>1
<1>6. \E m \in 0 .. Len(rest) :
        /\ \A i \in 1 .. m : rest[i] \in Words
        /\ m < Len(rest) => rest[m + 1] \notin Words
  BY <1>4, <1>5
<1> QED BY <1>6 DEF ArgCount

-----------------------------------------------------------------------------
(* The shape of the state.                                                   *)
Shaped ==
  /\ Listed(parsing)
  /\ at \in {"leaf", "parsed"} => parsing # <<>>
  /\ TypeOK

LEMMA InitShaped == Init => Shaped
<1> SUFFICES ASSUME Init PROVE Shaped
  OBVIOUS
<1>1. /\ at = "prompt" /\ rest = <<>> /\ parsing = <<>> /\ calls = <<>> /\ procs = <<>>
      /\ status = 0 /\ cwd = Root
  BY DEF Init
<1>2. DOMAIN <<>> = {} /\ <<>> \in Seq(Tokens)
  BY EmptySeq
<1> QED BY <1>1, <1>2, ListedEmpty, DirsAssumption DEF Shaped, TypeOK, Places

LEMMA OpsAppend ==
  ASSUME NEW ops, NEW s, Listed(s), \A i \in DOMAIN s : s[i].op \in ops, NEW e, e.op \in ops
  PROVE  \A i \in DOMAIN Append(s, e) : Append(s, e)[i].op \in ops
<1>1. /\ DOMAIN Append(s, e) = DOMAIN s \cup {Len(s) + 1} /\ Append(s, e)[Len(s) + 1] = e
      /\ \A i \in DOMAIN s : Append(s, e)[i] = s[i]
  BY ListedAppend
<1> QED BY <1>1

(* The process that runs a command stays in a directory of the volume.       *)
LEMMA ProcTyped ==
  ASSUME Balanced, TypeOK, procs # <<>>
  PROVE  Proc.cwd \in Dirs /\ Proc.did_exit \in BOOLEAN
<1>1. Last(procs) = procs[Len(procs)] /\ Len(procs) \in DOMAIN procs
  BY ListedFacts DEF Balanced
<1> QED BY <1>1 DEF Proc, TypeOK

LEMMA DirAfterTyped ==
  ASSUME NEW dir \in Dirs, NEW args
  PROVE  DirAfter(dir, args) \in Dirs /\ Status(dir, args) \in {0, 1, 127}
<1>1. DirAfter(dir, args) \in Dirs
  BY DEF DirAfter, ValidCd
<1>2. Status(dir, args) \in {0, 1, 127}
  BY DEF Status
<1> QED BY <1>1, <1>2

LEMMA PromptShaped == ASSUME Balanced, Shaped, NEW l \in Lines, Prompt(l) PROVE Shaped'
<1>1. PICK g \in BOOLEAN : procs' = <<[cwd |-> cwd, did_exit |-> g]>>
  BY DEF Prompt
<1>2. Listed(parsing') /\ at' \in {"eval", "leaf"} /\ (at' = "leaf" => parsing' # <<>>)
      /\ \A i \in DOMAIN parsing' : parsing'[i].op = ""
  <2>1. CASE l = <<>>
    BY <2>1, ListedEmpty, EmptySeq DEF Prompt
  <2>2. CASE l # <<>>
    <3>1. at' = "leaf" /\ parsing' = <<NewCall>>
      BY <2>2 DEF Prompt
    <3>2. DOMAIN <<NewCall>> = {1} /\ <<NewCall>>[1] = NewCall /\ NewCall.op = ""
      BY DEF NewCall
    <3> QED BY <3>1, <3>2, ListedEmpty
  <2> QED BY <2>1, <2>2
<1>3. rest' \in Seq(Tokens) /\ UNCHANGED <<calls, status, cwd>>
  BY LinesAssumption DEF Prompt
<1>4. \A i \in DOMAIN procs' : procs'[i].cwd \in Dirs /\ procs'[i].did_exit \in BOOLEAN
  <2> DEFINE e == [cwd |-> cwd, did_exit |-> g]
  <2>1. e.cwd \in Dirs /\ e.did_exit \in BOOLEAN /\ procs' = <<e>>
    BY <1>1 DEF Shaped, TypeOK
  <2> HIDE DEF e
  <2>2. DOMAIN <<e>> = {1} /\ <<e>>[1] = e
    OBVIOUS
  <2> QED BY <2>1, <2>2
<1> QED BY <1>2, <1>3, <1>4 DEF Shaped, TypeOK, Places

LEMMA ParseShaped == ASSUME Shaped, Parse PROVE Shaped'
<1>1. /\ UNCHANGED <<calls, procs, cwd>> /\ at \in {"leaf", "parsed"} /\ parsing # <<>>
      /\ Listed(parsing) /\ rest \in Seq(Tokens)
  BY DEF Shaped, TypeOK, Parse, ParseCommand, OpenSubshell, NoCommand, ParseOperator,
         CloseSubshell, MissingClose, RootParsed, SyntaxError
<1>2. at' \in {"leaf", "parsed", "eval", "finish"} /\ status' \in {0, 1, 127}
  BY DEF Shaped, TypeOK, Parse, ParseCommand, OpenSubshell, NoCommand, ParseOperator,
         CloseSubshell, MissingClose, RootParsed, SyntaxError
<1>3. rest' \in Seq(Tokens)
  <2>1. CASE ParseCommand
    BY <1>1, <2>1, ArgCountFacts, Dropped DEF ParseCommand
  <2>2. CASE OpenSubshell \/ ParseOperator \/ CloseSubshell
    <3>1. rest # <<>> /\ rest' = Tail(rest)
      BY <2>2 DEF OpenSubshell, ParseOperator, CloseSubshell, Next1, Operators
    <3> QED BY <1>1, <3>1, HeadTailProperties
  <2>3. CASE NoCommand \/ MissingClose \/ RootParsed
    BY <1>1, <2>3 DEF NoCommand, MissingClose, RootParsed, SyntaxError
  <2> QED BY <2>1, <2>2, <2>3 DEF Parse
<1>4. /\ Listed(Front(parsing)) /\ DOMAIN Front(parsing) = DOMAIN parsing \ {Len(parsing)}
      /\ \A i \in DOMAIN Front(parsing) : Front(parsing)[i] = parsing[i]
      /\ Len(Front(parsing)) = Len(parsing) - 1 /\ Len(parsing) \in Nat
  BY <1>1, ListedFront, ListedFacts
<1>5. \A i \in DOMAIN parsing : parsing[i].op \in Operators \cup {""}
  BY DEF Shaped, TypeOK
<1>6. /\ Listed(parsing') /\ (at' \in {"leaf", "parsed"} => parsing' # <<>>)
      /\ \A i \in DOMAIN parsing' : parsing'[i].op \in Operators \cup {""}
  <2>1. CASE ParseCommand
    BY <1>1, <1>5, <2>1 DEF ParseCommand
  <2>2. CASE OpenSubshell
    <3>1. parsing' = Append(parsing, NewCall) /\ NewCall.op = ""
      BY <2>2 DEF OpenSubshell, NewCall
    <3>2. Listed(parsing') /\ parsing' # <<>>
      BY <1>1, <3>1, ListedAppend
    <3>3. NewCall.op \in Operators \cup {""}
      BY <3>1
    <3> QED BY <1>1, <1>5, <3>1, <3>2, <3>3, OpsAppend
  <2>3. CASE ParseOperator
    <3>1. PICK e : e.op \in Operators /\ parsing' = Append(Front(parsing), e)
      BY <2>3 DEF ParseOperator
    <3>2. Listed(parsing') /\ parsing' # <<>>
      BY <1>4, <3>1, ListedAppend
    <3>3. \A i \in DOMAIN Front(parsing) : Front(parsing)[i].op \in Operators \cup {""}
      BY <1>4, <1>5
    <3> QED BY <1>4, <3>1, <3>2, <3>3, OpsAppend
  <2>4. CASE CloseSubshell
    <3>1. parsing' = Front(parsing) /\ Len(parsing) > 1
      BY <2>4 DEF CloseSubshell
    <3>2. Front(parsing) # <<>>
      BY <1>4, <3>1, EmptySeq
    <3> QED BY <1>4, <1>5, <3>1, <3>2
  <2>5. CASE NoCommand \/ MissingClose \/ RootParsed
    <3>1. parsing' = <<>> /\ at' \in {"finish", "eval"}
      BY <2>5 DEF NoCommand, MissingClose, RootParsed, SyntaxError
    <3> QED BY <3>1, ListedEmpty, EmptySeq
  <2> QED BY <2>1, <2>2, <2>3, <2>4, <2>5 DEF Parse
<1> QED BY <1>1, <1>2, <1>3, <1>6 DEF Shaped, TypeOK, Places

LEMMA EvalShaped == ASSUME Balanced, Shaped, Eval PROVE Shaped'
<1>1. /\ UNCHANGED <<rest, parsing, cwd>> /\ at \in {"eval", "return"} /\ procs # <<>>
      /\ at' \in {"eval", "return", "finish"}
  BY DEF Balanced, Eval, EvalNop, Invoke, EvalLeft, EnterSubshell, EvalRight, SkipRight,
         LeaveSubshell, RootEvaluated, Waits
<1>2. Proc.cwd \in Dirs
  BY <1>1, ProcTyped DEF Shaped
<1>3. status' \in {0, 1, 127}
  BY <1>2, DirAfterTyped DEF Shaped, TypeOK, Eval, EvalNop, Invoke, EvalLeft, EnterSubshell,
     EvalRight, SkipRight, LeaveSubshell, RootEvaluated
<1>4. \A i \in DOMAIN calls' : calls'[i].op \in Operators \cup {"subshell"}
  <2>1. \A i \in DOMAIN calls : calls[i].op \in Operators \cup {"subshell"}
    BY DEF Shaped, TypeOK
  <2>2. CASE EvalLeft \/ EnterSubshell
    <3>1. PICK e : e.op \in Operators \cup {"subshell"} /\ calls' = Append(calls, e)
      BY <2>2 DEF EvalLeft, EnterSubshell
    <3> QED BY <2>1, <3>1, ListedAppend DEF Balanced
  <2>3. CASE EvalRight \/ SkipRight \/ LeaveSubshell
    <3>1. calls' = Front(calls) /\ calls # <<>>
      BY <2>3 DEF EvalRight, SkipRight, LeaveSubshell, Waits
    <3> QED BY <2>1, <3>1, ListedFront DEF Balanced
  <2>4. CASE EvalNop \/ Invoke \/ RootEvaluated
    BY <2>1, <2>4 DEF EvalNop, Invoke, RootEvaluated
  <2> QED BY <2>2, <2>3, <2>4 DEF Eval
<1>5. \A i \in DOMAIN procs' : procs'[i].cwd \in Dirs /\ procs'[i].did_exit \in BOOLEAN
  <2>1. \A i \in DOMAIN procs : procs[i].cwd \in Dirs /\ procs[i].did_exit \in BOOLEAN
    BY DEF Shaped, TypeOK
  <2>2. /\ Listed(Front(procs)) /\ DOMAIN Front(procs) \subseteq DOMAIN procs
        /\ \A i \in DOMAIN Front(procs) : Front(procs)[i] = procs[i]
    BY <1>1, ListedFront DEF Balanced
  <2>3. CASE Invoke
    <3> DEFINE e == [cwd |-> DirAfter(Proc.cwd, node.args), did_exit |-> node.args[1] = "exit"]
    <3>1. procs' = Append(Front(procs), e)
      BY <2>3 DEF Invoke
    <3>2. e.cwd \in Dirs /\ e.did_exit \in BOOLEAN
      BY <1>2, DirAfterTyped
    <3> HIDE DEF e
    <3> QED BY <2>1, <2>2, <3>1, <3>2, ListedAppend
  <2>4. CASE EnterSubshell
    <3>1. PICK g \in BOOLEAN : procs' = Append(procs, [cwd |-> Proc.cwd, did_exit |-> g])
      BY <2>4 DEF EnterSubshell
    <3> DEFINE e == [cwd |-> Proc.cwd, did_exit |-> g]
    <3>2. e.cwd \in Dirs /\ e.did_exit \in BOOLEAN /\ procs' = Append(procs, e)
      BY <1>2, <3>1
    <3> HIDE DEF e
    <3> QED BY <2>1, <3>2, ListedAppend DEF Balanced
  <2>5. CASE LeaveSubshell
    BY <2>1, <2>2, <2>5 DEF LeaveSubshell
  <2>6. CASE EvalNop \/ EvalLeft \/ EvalRight \/ SkipRight \/ RootEvaluated
    BY <2>1, <2>6 DEF EvalNop, EvalLeft, EvalRight, SkipRight, RootEvaluated
  <2> QED BY <2>3, <2>4, <2>5, <2>6 DEF Eval
<1> QED BY <1>1, <1>3, <1>4, <1>5 DEF Shaped, TypeOK, Places

LEMMA FinishShaped == ASSUME Balanced, Shaped, Finish PROVE Shaped'
<1>1. Proc.cwd \in Dirs
  BY ProcTyped DEF Finish, Balanced, Shaped
<1>2. /\ rest' = <<>> /\ procs' = <<>> /\ status' = 0 /\ cwd' = Proc.cwd
      /\ at' \in {"ended", "prompt"} /\ UNCHANGED <<parsing, calls>>
  BY DEF Finish
<1>3. \A i \in DOMAIN procs' : procs'[i].cwd \in Dirs /\ procs'[i].did_exit \in BOOLEAN
  BY <1>2, EmptySeq
<1>4. rest' \in Seq(Tokens) /\ cwd' \in Dirs /\ Listed(parsing') /\ at' \in Places
  BY <1>1, <1>2 DEF Shaped, Places
<1>5. /\ \A i \in DOMAIN parsing' : parsing'[i].op \in Operators \cup {""}
      /\ \A i \in DOMAIN calls' : calls'[i].op \in Operators \cup {"subshell"}
  BY <1>2 DEF Shaped, TypeOK
<1> QED BY <1>2, <1>3, <1>4, <1>5 DEF Shaped, TypeOK

LEMMA NextShaped == Balanced /\ Shaped /\ [Next]_vars => Shaped'
<1>1. CASE UNCHANGED vars
  BY <1>1 DEF Shaped, TypeOK, vars
<1> QED BY <1>1, PromptShaped, ParseShaped, EvalShaped, FinishShaped DEF Next, Step

(* The types of the shell's state: whatever the line, a process is always in *)
(* a directory of the volume, and a status is one that a command or the      *)
(* parser returned.                                                          *)
THEOREM ShellTyped == Spec => []TypeOK
<1>1. Shaped => TypeOK
  BY DEF Shaped
<1> QED BY <1>1, BalancedInit, BalancedNext, InitShaped, NextShaped, PTL DEF Spec

-----------------------------------------------------------------------------
(* A line folded from the left: its states after each token.                 *)

LEMMA MaxOfAll ==
  ASSUME NEW n \in Nat, NEW t, t \subseteq 1 .. n + 1, n + 1 \in t
  PROVE  Max(t) = n + 1
<1>1. \A y \in t : n + 1 >= y
  OBVIOUS
<1>2. \A x \in t : (\A y \in t : x >= y) => x = n + 1
  OBVIOUS
<1> QED BY <1>1, <1>2 DEF Max

(* A step of the syntax or of the run, and the function that a fold of it    *)
(* over a line is.                                                           *)
ReadStep(kind, x, tok) == IF kind = "run" THEN RunStep(x, tok) ELSE SyntaxStep(x, tok)

Iter(kind, f, base, s, n) ==
  f = [t \in SUBSET (1 .. n) |->
         IF t = {} THEN base ELSE ReadStep(kind, f[t \ {Max(t)}], s[Max(t)])]

LEMMA IterGrows ==
  ASSUME NEW kind, NEW base, NEW s, NEW n \in Nat, NEW f, Iter(kind, f, base, s, n)
  PROVE  \E g : Iter(kind, g, base, s, n + 1)
<1> DEFINE g == [t \in SUBSET (1 .. n + 1) |->
                   IF n + 1 \in t THEN ReadStep(kind, f[t \ {n + 1}], s[n + 1]) ELSE f[t]]
<1>0. 1 .. n + 1 = (1 .. n) \cup {n + 1} /\ n + 1 \notin 1 .. n
  OBVIOUS
<1>1. \A t \in SUBSET (1 .. n) : n + 1 \notin t /\ t \in SUBSET (1 .. n + 1) /\ g[t] = f[t]
  OBVIOUS
<1>2. ASSUME NEW t \in SUBSET (1 .. n + 1)
      PROVE  g[t] = IF t = {} THEN base ELSE ReadStep(kind, g[t \ {Max(t)}], s[Max(t)])
  <2>1. CASE n + 1 \in t
    <3>1. Max(t) = n + 1 /\ t \ {n + 1} \in SUBSET (1 .. n) /\ t # {}
      <4>1. Max(t) = n + 1
        BY <2>1, MaxOfAll
      <4> QED BY <1>0, <2>1, <4>1
    <3>2. g[t] = ReadStep(kind, f[t \ {n + 1}], s[n + 1])
      BY <2>1
    <3> QED BY <1>1, <3>1, <3>2
  <2>2. CASE n + 1 \notin t
    <3>1. t \in SUBSET (1 .. n) /\ t \ {Max(t)} \in SUBSET (1 .. n)
      BY <1>0, <2>2
    <3>2. f[t] = IF t = {} THEN base ELSE ReadStep(kind, f[t \ {Max(t)}], s[Max(t)])
      BY <3>1 DEF Iter
    <3>3. g[t] = f[t] /\ g[t \ {Max(t)}] = f[t \ {Max(t)}]
      BY <1>1, <3>1
    <3> QED BY <3>2, <3>3
  <2> QED BY <2>1, <2>2
<1>3. g = [t \in SUBSET (1 .. n + 1) |-> g[t]]
  OBVIOUS
<1> HIDE DEF g
<1>4. Iter(kind, g, base, s, n + 1)
  BY <1>2, <1>3 DEF Iter
<1> QED BY <1>4

LEMMA IterExists ==
  ASSUME NEW kind, NEW base, NEW s, NEW n \in Nat
  PROVE  \E f : Iter(kind, f, base, s, n)
<1> DEFINE T == {m \in Nat : ~ \E f : Iter(kind, f, base, s, m)}
<1> SUFFICES ASSUME T # {} PROVE FALSE
  OBVIOUS
<1>1. PICK m \in T : \A k \in T : m <= k
  BY LeastNat
<1>2. CASE m = 0
  <2> DEFINE f == [t \in SUBSET (1 .. 0) |-> base]
  <2>1. 1 .. 0 = {}
    OBVIOUS
  <2>2. f = [t \in SUBSET (1 .. 0) |->
               IF t = {} THEN base ELSE ReadStep(kind, f[t \ {Max(t)}], s[Max(t)])]
    BY <2>1
  <2> HIDE DEF f
  <2>3. Iter(kind, f, base, s, 0)
    BY <2>2 DEF Iter
  <2> QED BY <1>2, <2>3
<1>3. CASE m # 0
  <2>1. m - 1 \in Nat /\ ~ (m <= m - 1) /\ m - 1 + 1 = m
    BY <1>3
  <2>2. \E f : Iter(kind, f, base, s, m - 1)
    BY <1>1, <2>1
  <2>3. \E f : Iter(kind, f, base, s, m)
    BY <2>1, <2>2, IterGrows
  <2> QED BY <2>3
<1> QED BY <1>2, <1>3

(* What a fold returns is the last of the states along the line.             *)
Along(kind, r, base, s) == r[0] = base /\ \A n \in 1 .. Len(s) : r[n] = ReadStep(kind, r[n - 1], s[n])

LEMMA IterFold ==
  ASSUME NEW kind, NEW base, NEW s, Len(s) \in Nat
  PROVE  \E r : /\ Along(kind, r, base, s)
               /\ r[Len(s)] = (CHOOSE f : Iter(kind, f, base, s, Len(s)))[1 .. Len(s)]
<1> DEFINE f == CHOOSE g : Iter(kind, g, base, s, Len(s))
           r == [n \in 0 .. Len(s) |-> f[1 .. n]]
<1>2. Iter(kind, f, base, s, Len(s))
  BY IterExists
<1>3. ASSUME NEW n \in 1 .. Len(s)
      PROVE  f[1 .. n] = ReadStep(kind, f[1 .. n - 1], s[n])
  <2>1. n - 1 \in Nat /\ n - 1 + 1 = n
    OBVIOUS
  <2>2. 1 .. n # {} /\ 1 .. n \in SUBSET (1 .. Len(s)) /\ n \in 1 .. n
    <3>1. n \in 1 .. n
      OBVIOUS
    <3>2. \A k \in 1 .. n : k \in 1 .. Len(s)
      OBVIOUS
    <3> QED BY <3>1, <3>2
  <2>3. Max(1 .. n) = n
    BY <2>1, <2>2, MaxOfAll
  <2>4. (1 .. n) \ {n} = 1 .. n - 1
    OBVIOUS
  <2>5. f[1 .. n] = ReadStep(kind, f[(1 .. n) \ {Max(1 .. n)}], s[Max(1 .. n)])
    BY <1>2, <2>2 DEF Iter
  <2> QED BY <2>3, <2>4, <2>5
<1>4. f[1 .. 0] = base
  <2>1. 1 .. 0 = {}
    OBVIOUS
  <2> QED BY <1>2, <2>1 DEF Iter
<1> HIDE DEF f
<1>5. r[0] = base /\ r[Len(s)] = f[1 .. Len(s)]
  BY <1>4
<1>6. \A n \in 1 .. Len(s) : r[n] = ReadStep(kind, r[n - 1], s[n])
  <2> SUFFICES ASSUME NEW n \in 1 .. Len(s) PROVE r[n] = ReadStep(kind, r[n - 1], s[n])
    OBVIOUS
  <2>1. n \in 0 .. Len(s) /\ n - 1 \in 0 .. Len(s)
    OBVIOUS
  <2> QED BY <1>3, <2>1
<1> HIDE DEF r
<1> QED BY <1>5, <1>6 DEF Along, f

LEMMA RunFold ==
  ASSUME NEW base, NEW s, Len(s) \in Nat, DOMAIN s = 1 .. Len(s)
  PROVE  \E r : /\ r[0] = base /\ \A n \in 1 .. Len(s) : r[n] = RunStep(r[n - 1], s[n])
               /\ r[Len(s)] = FoldLeft(RunStep, base, s)
<1> DEFINE RunIter(f) == f = [t \in SUBSET (1 .. Len(s)) |->
                                IF t = {} THEN base ELSE RunStep(f[t \ {Max(t)}], s[Max(t)])]
<1>1. FoldLeft(RunStep, base, s) = (CHOOSE f : RunIter(f))[1 .. Len(s)]
  BY Zenon DEF FoldLeft, MapThenFoldSet
<1>2. \A x, tok : ReadStep("run", x, tok) = RunStep(x, tok)
  BY DEF ReadStep
<1>3. \A f : Iter("run", f, base, s, Len(s)) <=> RunIter(f)
  BY <1>2 DEF Iter
<1> HIDE DEF RunIter
<1>4. (CHOOSE f : Iter("run", f, base, s, Len(s))) = (CHOOSE f : RunIter(f))
  BY <1>3
<1>5. PICK r : /\ Along("run", r, base, s)
               /\ r[Len(s)] = (CHOOSE f : Iter("run", f, base, s, Len(s)))[1 .. Len(s)]
  BY IterFold
<1> QED BY <1>1, <1>2, <1>4, <1>5 DEF Along

LEMMA SyntaxFold ==
  ASSUME NEW base, NEW s, Len(s) \in Nat, DOMAIN s = 1 .. Len(s)
  PROVE  \E r : /\ r[0] = base /\ \A n \in 1 .. Len(s) : r[n] = SyntaxStep(r[n - 1], s[n])
               /\ r[Len(s)] = FoldLeft(SyntaxStep, base, s)
<1> DEFINE SynIter(f) == f = [t \in SUBSET (1 .. Len(s)) |->
                                IF t = {} THEN base ELSE SyntaxStep(f[t \ {Max(t)}], s[Max(t)])]
<1>1. FoldLeft(SyntaxStep, base, s) = (CHOOSE f : SynIter(f))[1 .. Len(s)]
  BY Zenon DEF FoldLeft, MapThenFoldSet
<1>2. \A x, tok : ReadStep("syntax", x, tok) = SyntaxStep(x, tok)
  BY DEF ReadStep
<1>3. \A f : Iter("syntax", f, base, s, Len(s)) <=> SynIter(f)
  BY <1>2 DEF Iter
<1> HIDE DEF SynIter
<1>4. (CHOOSE f : Iter("syntax", f, base, s, Len(s))) = (CHOOSE f : SynIter(f))
  BY <1>3
<1>5. PICK r : /\ Along("syntax", r, base, s)
               /\ r[Len(s)] = (CHOOSE f : Iter("syntax", f, base, s, Len(s)))[1 .. Len(s)]
  BY IterFold
<1> QED BY <1>1, <1>2, <1>4, <1>5 DEF Along

-----------------------------------------------------------------------------
(* The reading of a line, a token at a time.                                 *)
RunState(x) ==
  /\ x = [status |-> x.status, skip |-> x.skip, words |-> x.words, cwd |-> x.cwd,
          open |-> x.open, ran |-> x.ran]
  /\ x.skip \in BOOLEAN /\ Listed(x.words) /\ Listed(x.open) /\ Listed(x.ran)

(* Two states that differ in what is being read, not in what was run.        *)
SameRun(x, y) == x.status = y.status /\ x.cwd = y.cwd /\ x.ran = y.ran

LEMMA RunStarts ==
  ASSUME NEW dir
  PROVE  /\ RunState(RunStart(dir)) /\ RunStart(dir).skip = FALSE /\ RunStart(dir).words = <<>>
         /\ RunStart(dir).cwd = dir /\ RunStart(dir).open = <<>> /\ RunStart(dir).ran = <<>>
         /\ RunStart(dir).status = 0
BY ListedEmpty DEF RunStart, RunState

LEMMA RunDone ==
  ASSUME NEW x, RunState(x)
  PROVE  /\ RunState(Run(x)) /\ Run(x).words = <<>> /\ Run(x).skip = x.skip /\ Run(x).open = x.open
         /\ x.words = <<>> \/ x.skip = TRUE => SameRun(Run(x), x)
         /\ x.words # <<>> /\ x.skip = FALSE =>
              /\ Run(x).status = Status(x.cwd, x.words) /\ Run(x).cwd = DirAfter(x.cwd, x.words)
              /\ Run(x).ran = Append(x.ran, [args |-> x.words, cwd |-> x.cwd,
                                              depth |-> Len(x.open) + 1])
<1>1. PICK st, sk, ws, dir, op, rn :
        x = [status |-> st, skip |-> sk, words |-> ws, cwd |-> dir, open |-> op, ran |-> rn]
  BY DEF RunState
<1>2. /\ x.status = st /\ x.skip = sk /\ x.words = ws /\ x.cwd = dir /\ x.open = op /\ x.ran = rn
      /\ sk \in BOOLEAN /\ Listed(ws) /\ Listed(op) /\ Listed(rn)
  BY <1>1 DEF RunState
<1>3. CASE ws = <<>>
  BY <1>2, <1>3 DEF Run, SameRun
<1>4. CASE ws # <<>> /\ sk = TRUE
  <2>1. Run(x) = [status |-> st, skip |-> sk, words |-> <<>>, cwd |-> dir, open |-> op, ran |-> rn]
    BY <1>1, <1>2, <1>4 DEF Run
  <2> QED BY <1>2, <1>4, <2>1, ListedEmpty DEF RunState, SameRun
<1>5. CASE ws # <<>> /\ sk = FALSE
  <2> DEFINE c == [args |-> ws, cwd |-> dir, depth |-> Len(op) + 1]
             st2 == Status(dir, ws)
             dir2 == DirAfter(dir, ws)
  <2>1. Run(x) = [x EXCEPT !.words = <<>>, !.status = st2, !.cwd = dir2, !.ran = Append(@, c)]
    BY <1>2, <1>5 DEF Run
  <2> HIDE DEF st2, dir2, c
  <2>2. Run(x) = [status |-> st2, skip |-> sk, words |-> <<>>, cwd |-> dir2, open |-> op,
                  ran |-> Append(rn, c)]
    BY <1>1, <2>1
  <2>3. Listed(Append(rn, c))
    BY <1>2, ListedAppend
  <2> QED BY <1>2, <1>5, <2>2, <2>3, ListedEmpty DEF RunState, st2, dir2, c
<1> QED BY <1>2, <1>3, <1>4, <1>5

(* The kinds of tokens exclude each other.                                   *)
LEMMA TokenKinds ==
  /\ \A w \in Words : w \notin Operators /\ w \notin {"(", ")", "&", "|", "EOF"}
  /\ \A op \in Operators : op \notin {"(", ")", "&", "|", "EOF", "subshell", "command", "nop", ""}
BY WordsAssumption DEF Operators

LEMMA StepWord ==
  ASSUME NEW x, RunState(x), NEW tok \in Words
  PROVE  /\ RunState(RunStep(x, tok)) /\ SameRun(RunStep(x, tok), x)
         /\ RunStep(x, tok).skip = x.skip /\ RunStep(x, tok).open = x.open
         /\ RunStep(x, tok).words = Append(x.words, tok)
<1>1. PICK st, sk, ws, dir, op, rn :
        x = [status |-> st, skip |-> sk, words |-> ws, cwd |-> dir, open |-> op, ran |-> rn]
  BY DEF RunState
<1>2. RunStep(x, tok) = [x EXCEPT !.words = Append(@, tok)]
  BY TokenKinds DEF RunStep
<1>3. RunStep(x, tok) = [status |-> st, skip |-> sk, words |-> Append(ws, tok), cwd |-> dir,
                         open |-> op, ran |-> rn]
  BY <1>1, <1>2
<1>4. /\ x.status = st /\ x.skip = sk /\ x.words = ws /\ x.cwd = dir /\ x.open = op /\ x.ran = rn
      /\ sk \in BOOLEAN /\ Listed(ws) /\ Listed(op) /\ Listed(rn)
  BY <1>1 DEF RunState
<1>5. Listed(Append(ws, tok))
  BY <1>4, ListedAppend
<1> QED BY <1>3, <1>4, <1>5 DEF RunState, SameRun

LEMMA StepOpen ==
  ASSUME NEW x, RunState(x), x.words = <<>>
  PROVE  /\ RunState(RunStep(x, "(")) /\ SameRun(RunStep(x, "("), x)
         /\ RunStep(x, "(").skip = x.skip /\ RunStep(x, "(").words = <<>>
         /\ RunStep(x, "(").open = Append(x.open, [skip |-> x.skip, cwd |-> x.cwd])
<1>1. PICK st, sk, ws, dir, op, rn :
        x = [status |-> st, skip |-> sk, words |-> ws, cwd |-> dir, open |-> op, ran |-> rn]
  BY DEF RunState
<1>2. RunStep(x, "(") = [x EXCEPT !.open = Append(@, [skip |-> x.skip, cwd |-> x.cwd])]
  BY TokenKinds DEF RunStep
<1>4. /\ x.status = st /\ x.skip = sk /\ x.words = ws /\ x.cwd = dir /\ x.open = op /\ x.ran = rn
      /\ sk \in BOOLEAN /\ Listed(ws) /\ Listed(op) /\ Listed(rn)
  BY <1>1 DEF RunState
<1> DEFINE e == [skip |-> sk, cwd |-> dir]
<1>3. RunStep(x, "(") = [status |-> st, skip |-> sk, words |-> ws, cwd |-> dir,
                         open |-> Append(op, e), ran |-> rn]
  BY <1>1, <1>2, <1>4
<1>6. e = [skip |-> x.skip, cwd |-> x.cwd]
  BY <1>4
<1> HIDE DEF e
<1>5. Listed(Append(op, e))
  BY <1>4, ListedAppend
<1>7. /\ RunState(RunStep(x, "(")) /\ SameRun(RunStep(x, "("), x)
      /\ RunStep(x, "(").skip = x.skip /\ RunStep(x, "(").words = <<>>
      /\ RunStep(x, "(").open = Append(x.open, e)
  <2> DEFINE y == RunStep(x, "(")
             opened == Append(op, e)
  <2>1. ws = <<>> /\ opened = Append(x.open, e)
    BY <1>4
  <2>2. y = [status |-> st, skip |-> sk, words |-> ws, cwd |-> dir, open |-> opened, ran |-> rn]
    BY <1>3
  <2> HIDE DEF y, opened
  <2>3. /\ y.status = st /\ y.skip = sk /\ y.words = ws /\ y.cwd = dir /\ y.open = opened
        /\ y.ran = rn
    BY <2>2
  <2>4. RunState(y)
    BY <1>4, <1>5, <2>2, <2>3 DEF RunState, opened
  <2> QED BY <1>4, <2>1, <2>3, <2>4 DEF SameRun, y
<1> QED BY <1>6, <1>7

LEMMA StepOperator ==
  ASSUME NEW x, RunState(x), NEW tok \in Operators
  PROVE  /\ RunState(RunStep(x, tok)) /\ SameRun(RunStep(x, tok), Run(x))
         /\ RunStep(x, tok).words = <<>> /\ RunStep(x, tok).open = x.open
         /\ RunStep(x, tok).skip = (Enclosing(x) \/ tok = Refuses(Run(x).status))
<1> DEFINE d == Run(x)
           skip == Enclosing(x) \/ tok = Refuses(d.status)
<1>1. RunState(d) /\ d.words = <<>> /\ d.open = x.open
  BY RunDone
<1>2. RunStep(x, tok) = [d EXCEPT !.skip = skip]
  BY TokenKinds DEF RunStep
<1>3. skip \in BOOLEAN
  OBVIOUS
<1> HIDE DEF d, skip
<1>4. PICK st, sk, ws, dir, op, rn :
        d = [status |-> st, skip |-> sk, words |-> ws, cwd |-> dir, open |-> op, ran |-> rn]
  BY <1>1 DEF RunState
<1>5. RunStep(x, tok) = [status |-> st, skip |-> skip, words |-> ws, cwd |-> dir,
                         open |-> op, ran |-> rn]
  BY <1>2, <1>4
<1>6. /\ d.status = st /\ d.words = ws /\ d.cwd = dir /\ d.open = op /\ d.ran = rn
      /\ Listed(ws) /\ Listed(op) /\ Listed(rn)
  BY <1>1, <1>4 DEF RunState
<1>7. /\ RunState(RunStep(x, tok)) /\ SameRun(RunStep(x, tok), d)
      /\ RunStep(x, tok).words = <<>> /\ RunStep(x, tok).open = x.open
  BY <1>1, <1>3, <1>5, <1>6 DEF RunState, SameRun
<1>8. RunStep(x, tok).skip = skip
  BY <1>5
<1> QED BY <1>7, <1>8 DEF d, skip

LEMMA StepClose ==
  ASSUME NEW x, RunState(x), x.open # <<>>, Last(x.open).skip \in BOOLEAN
  PROVE  /\ RunState(RunStep(x, ")")) /\ RunStep(x, ")").words = <<>>
         /\ RunStep(x, ")").status = Run(x).status /\ RunStep(x, ")").ran = Run(x).ran
         /\ RunStep(x, ")").open = Front(x.open) /\ RunStep(x, ")").cwd = Last(x.open).cwd
         /\ RunStep(x, ")").skip = Last(x.open).skip
<1> DEFINE d == Run(x)
           top == Last(x.open)
<1>1. RunState(d) /\ d.words = <<>> /\ d.open = x.open
  BY RunDone
<1>2. RunStep(x, ")") = [d EXCEPT !.open = Front(@), !.cwd = top.cwd, !.skip = top.skip]
  BY TokenKinds DEF RunStep
<1> HIDE DEF d, top
<1>4. PICK st, sk, ws, dir, op, rn :
        d = [status |-> st, skip |-> sk, words |-> ws, cwd |-> dir, open |-> op, ran |-> rn]
  BY <1>1 DEF RunState
<1>5. RunStep(x, ")") = [status |-> st, skip |-> top.skip, words |-> ws, cwd |-> top.cwd,
                         open |-> Front(op), ran |-> rn]
  BY <1>2, <1>4
<1>6. /\ d.status = st /\ d.words = ws /\ d.cwd = dir /\ d.open = op /\ d.ran = rn
      /\ Listed(ws) /\ Listed(op) /\ Listed(rn)
  BY <1>1, <1>4 DEF RunState
<1>7. Listed(Front(op))
  BY <1>1, <1>6, ListedFront
<1> QED BY <1>1, <1>5, <1>6, <1>7 DEF RunState, d, top

-----------------------------------------------------------------------------
(* What a node stands for: the tokens i to j of the line.  A derivation is a *)
(* set of such facts, each justified by others of the set.                   *)
Operand(nd) == nd.type \in {"command", "subshell"}

StandsFor(nd, i, j, D, l) ==
  /\ i \in Nat /\ j \in Nat /\ 1 <= i /\ i <= j /\ j <= Len(l)
  /\ \/ /\ nd.type = "command"
        /\ nd.args = SubSeq(l, i, j)
        /\ \A k \in i .. j : l[k] \in Words
     \/ /\ nd.type = "subshell"
        /\ l[i] = "(" /\ l[j] = ")"
        /\ <<nd.arg, i + 1, j - 1>> \in D
     \/ /\ nd.type \in Operators
        /\ \E k \in i + 1 .. j - 1 : /\ l[k] = nd.type
                                     /\ <<nd.lhs, i, k - 1>> \in D
                                     /\ <<nd.rhs, k + 1, j>> \in D
                                     /\ Operand(nd.rhs)

Justified(D, l) == \A nd, i, j : <<nd, i, j>> \in D => StandsFor(nd, i, j, D, l)

Spans(nd, i, j, l) == \E D : Justified(D, l) /\ <<nd, i, j>> \in D

LEMMA MoreStandsFor ==
  ASSUME NEW l, NEW D, NEW E, D \subseteq E, NEW nd, NEW i, NEW j, StandsFor(nd, i, j, D, l)
  PROVE  StandsFor(nd, i, j, E, l)
<1>1. \A x : x \in D => x \in E
  OBVIOUS
<1>2. CASE nd.type = "command" /\ nd.args = SubSeq(l, i, j) /\ \A k \in i .. j : l[k] \in Words
  BY <1>2 DEF StandsFor
<1>3. CASE nd.type = "subshell" /\ l[i] = "(" /\ l[j] = ")" /\ <<nd.arg, i + 1, j - 1>> \in D
  BY <1>1, <1>3 DEF StandsFor
<1>4. CASE /\ nd.type \in Operators
           /\ \E k \in i + 1 .. j - 1 : /\ l[k] = nd.type
                                        /\ <<nd.lhs, i, k - 1>> \in D
                                        /\ <<nd.rhs, k + 1, j>> \in D
                                        /\ Operand(nd.rhs)
  BY <1>1, <1>4 DEF StandsFor
<1> QED BY <1>2, <1>3, <1>4 DEF StandsFor

LEMMA Justifies ==
  ASSUME NEW l, NEW D, Justified(D, l), NEW nd, NEW i, NEW j, StandsFor(nd, i, j, D, l)
  PROVE  Spans(nd, i, j, l)
<1> DEFINE E == D \cup {<<nd, i, j>>}
<1>1. D \subseteq E /\ <<nd, i, j>> \in E
  OBVIOUS
<1>2. ASSUME NEW md, NEW a, NEW b, <<md, a, b>> \in E
      PROVE  StandsFor(md, a, b, D, l)
  <2>1. CASE <<md, a, b>> \in D
    BY <2>1 DEF Justified
  <2>2. CASE <<md, a, b>> = <<nd, i, j>>
    <3>1. md = nd /\ a = i /\ b = j
      BY <2>2
    <3> QED BY <3>1
  <2> QED BY <1>2, <2>1, <2>2
<1> HIDE DEF E
<1>3. Justified(E, l)
  BY <1>1, <1>2, MoreStandsFor DEF Justified
<1> QED BY <1>1, <1>3 DEF Spans

LEMMA SpansCommand ==
  ASSUME NEW l, NEW i \in Nat, NEW j \in Nat, 1 <= i, i <= j, j <= Len(l),
         \A k \in i .. j : l[k] \in Words
  PROVE  Spans(Command(SubSeq(l, i, j)), i, j, l) /\ Operand(Command(SubSeq(l, i, j)))
<1> DEFINE args == SubSeq(l, i, j)
<1>1. Command(args).type = "command" /\ Command(args).args = args
  BY DEF Command
<1>2. StandsFor(Command(args), i, j, {}, l)
  BY <1>1 DEF StandsFor
<1>3. Justified({}, l)
  BY DEF Justified
<1> HIDE DEF args
<1>4. Spans(Command(args), i, j, l)
  BY <1>2, <1>3, Justifies
<1> QED BY <1>1, <1>4 DEF Operand, args

LEMMA SpansSubshell ==
  ASSUME NEW l, NEW nd, NEW i \in Nat, NEW j \in Nat, 1 <= i, i <= j, j <= Len(l),
         l[i] = "(", l[j] = ")", Spans(nd, i + 1, j - 1, l)
  PROVE  Spans(Subshell(nd), i, j, l) /\ Operand(Subshell(nd))
<1>1. PICK D : Justified(D, l) /\ <<nd, i + 1, j - 1>> \in D
  BY DEF Spans
<1>2. Subshell(nd).type = "subshell" /\ Subshell(nd).arg = nd
  BY DEF Subshell
<1>3. StandsFor(Subshell(nd), i, j, D, l)
  BY <1>1, <1>2 DEF StandsFor
<1> QED BY <1>1, <1>2, <1>3, Justifies DEF Operand

LEMMA SpansBinary ==
  ASSUME NEW l, NEW a, NEW b, NEW i \in Nat, NEW k \in Nat, NEW j \in Nat, k <= j,
         l[k] \in Operators, Operand(b),
         Spans(a, i, k - 1, l), Spans(b, k + 1, j, l)
  PROVE  Spans(Binary(l[k], a, b), i, j, l)
<1>1. PICK D : Justified(D, l) /\ <<a, i, k - 1>> \in D
  BY DEF Spans
<1>2. PICK E : Justified(E, l) /\ <<b, k + 1, j>> \in E
  BY DEF Spans
<1> DEFINE F == D \cup E
<1>3. D \subseteq F /\ E \subseteq F /\ <<a, i, k - 1>> \in F /\ <<b, k + 1, j>> \in F
  BY <1>1, <1>2
<1>4. ASSUME NEW md, NEW x, NEW y, <<md, x, y>> \in F
      PROVE  StandsFor(md, x, y, D, l) \/ StandsFor(md, x, y, E, l)
  BY <1>1, <1>2, <1>4 DEF Justified
<1> HIDE DEF F
<1>5. Justified(F, l)
  BY <1>3, <1>4, MoreStandsFor DEF Justified
<1>6. i <= k - 1 /\ 1 <= i /\ k + 1 <= j /\ j <= Len(l)
  BY <1>1, <1>2 DEF Justified, StandsFor
<1> DEFINE nd == Binary(l[k], a, b)
<1>7. nd.type = l[k] /\ nd.lhs = a /\ nd.rhs = b
  BY DEF Binary
<1> HIDE DEF nd
<1>8. k \in i + 1 .. j - 1 /\ i <= j
  BY <1>6
<1>9. nd.type \in Operators
  BY <1>7
<1>10. StandsFor(nd, i, j, F, l)
  BY <1>3, <1>6, <1>7, <1>8, <1>9 DEF StandsFor
<1> QED BY <1>5, <1>10, Justifies DEF nd

LEMMA SpansUnfold ==
  ASSUME NEW l, NEW nd, NEW i, NEW j, Spans(nd, i, j, l)
  PROVE  /\ i \in Nat /\ j \in Nat /\ 1 <= i /\ i <= j /\ j <= Len(l)
         /\ \/ /\ nd.type = "command"
               /\ nd.args = SubSeq(l, i, j)
               /\ \A k \in i .. j : l[k] \in Words
            \/ /\ nd.type = "subshell"
               /\ l[i] = "(" /\ l[j] = ")" /\ Spans(nd.arg, i + 1, j - 1, l)
            \/ /\ nd.type \in Operators
               /\ \E k \in i + 1 .. j - 1 : /\ l[k] = nd.type
                                            /\ Spans(nd.lhs, i, k - 1, l)
                                            /\ Spans(nd.rhs, k + 1, j, l)
                                            /\ Operand(nd.rhs)
<1>1. PICK D : Justified(D, l) /\ <<nd, i, j>> \in D
  BY DEF Spans
<1>2. StandsFor(nd, i, j, D, l)
  BY <1>1 DEF Justified
<1>3. \A md, a, b : <<md, a, b>> \in D => Spans(md, a, b, l)
  BY <1>1 DEF Spans
<1>4. CASE nd.type = "command" /\ nd.args = SubSeq(l, i, j) /\ \A k \in i .. j : l[k] \in Words
  BY <1>2, <1>4 DEF StandsFor
<1>5. CASE nd.type = "subshell" /\ l[i] = "(" /\ l[j] = ")" /\ <<nd.arg, i + 1, j - 1>> \in D
  BY <1>2, <1>3, <1>5 DEF StandsFor
<1>6. CASE /\ nd.type \in Operators
           /\ \E k \in i + 1 .. j - 1 : /\ l[k] = nd.type
                                        /\ <<nd.lhs, i, k - 1>> \in D
                                        /\ <<nd.rhs, k + 1, j>> \in D
                                        /\ Operand(nd.rhs)
  BY <1>2, <1>3, <1>6 DEF StandsFor
<1> QED BY <1>2, <1>4, <1>5, <1>6 DEF StandsFor

(* The same, one kind of node after the other.                               *)
LEMMA SpansCases ==
  ASSUME NEW l, NEW nd, NEW i, NEW j, Spans(nd, i, j, l)
  PROVE  /\ nd.type = "command" => /\ nd.args = SubSeq(l, i, j)
                                   /\ \A k \in i .. j : l[k] \in Words
         /\ nd.type = "subshell" =>
              l[i] = "(" /\ l[j] = ")" /\ Spans(nd.arg, i + 1, j - 1, l)
         /\ nd.type \in Operators =>
              \E k \in i + 1 .. j - 1 : /\ l[k] = nd.type
                                       /\ Spans(nd.lhs, i, k - 1, l)
                                       /\ Spans(nd.rhs, k + 1, j, l)
                                       /\ Operand(nd.rhs)
<1> DEFINE A == nd.args = SubSeq(l, i, j) /\ \A k \in i .. j : l[k] \in Words
           B == l[i] = "(" /\ l[j] = ")" /\ Spans(nd.arg, i + 1, j - 1, l)
           C == \E k \in i + 1 .. j - 1 : /\ l[k] = nd.type
                                         /\ Spans(nd.lhs, i, k - 1, l)
                                         /\ Spans(nd.rhs, k + 1, j, l)
                                         /\ Operand(nd.rhs)
<1>1. \/ nd.type = "command" /\ A
      \/ nd.type = "subshell" /\ B
      \/ nd.type \in Operators /\ C
  BY SpansUnfold
<1>2. "command" \notin Operators /\ "subshell" \notin Operators
  BY DEF Operators
<1> HIDE DEF A, B, C
<1>3. /\ nd.type = "command" => A
      /\ nd.type = "subshell" => B
      /\ nd.type \in Operators => C
  BY <1>1, <1>2
<1> QED BY <1>3 DEF A, B, C

-----------------------------------------------------------------------------
(* A run along the tokens of a line.                                         *)
Follows(r, l, n) == \A k \in 1 .. n : r[k] = RunStep(r[k - 1], l[k])

LEMMA SubSeqAppend ==
  ASSUME NEW S, NEW l \in Seq(S), NEW i \in 1 .. Len(l), NEW j \in i .. Len(l)
  PROVE  /\ SubSeq(l, i, j) = Append(SubSeq(l, i, j - 1), l[j])
         /\ SubSeq(l, i, j) # <<>>
<1>1. Len(l) \in Nat /\ \A k \in i .. j - 1 : l[k] \in S
  BY ElementOfSeq, LenProperties
<1>2. SubSeq(l, i, j - 1) \in Seq(S) /\ l[j] \in S
  BY <1>1, SubSeqProperties, ElementOfSeq
<1>3. SubSeq(l, i, j) = SubSeq(l, i, j - 1) \o <<l[j]>>
  BY SubSeqRecursiveSecond
<1>4. SubSeq(l, i, j) = Append(SubSeq(l, i, j - 1), l[j])
  BY <1>2, <1>3, AppendIsConcat
<1> QED BY <1>2, <1>4, AppendProperties

LEMMA WordsRead ==
  ASSUME NEW l \in Seq(Tokens), NEW i \in 1 .. Len(l), NEW j \in i .. Len(l),
         \A k \in i .. j : l[k] \in Words,
         NEW r, Follows(r, l, j), RunState(r[i - 1]), r[i - 1].words = <<>>
  PROVE  /\ RunState(r[j]) /\ SameRun(r[j], r[i - 1])
         /\ r[j].skip = r[i - 1].skip /\ r[j].open = r[i - 1].open
         /\ r[j].words = SubSeq(l, i, j)
<1> DEFINE Good(n) == /\ RunState(r[n]) /\ SameRun(r[n], r[i - 1])
                      /\ r[n].skip = r[i - 1].skip /\ r[n].open = r[i - 1].open
                      /\ r[n].words = SubSeq(l, i, n)
           T == {n \in Nat : n \in i - 1 .. j /\ ~ Good(n)}
<1>0. Len(l) \in Nat
  BY LenProperties
<1>1. Good(i - 1)
  <2>1. SubSeq(l, i, i - 1) = <<>>
    BY SubSeqEmpty
  <2> QED BY <2>1 DEF SameRun
<1>2. ASSUME NEW n \in i .. j, Good(n - 1) PROVE Good(n)
  <2>1. r[n] = RunStep(r[n - 1], l[n])
    BY <1>0 DEF Follows
  <2>2. l[n] \in Words
    OBVIOUS
  <2>3. /\ RunState(r[n]) /\ SameRun(r[n], r[n - 1]) /\ r[n].skip = r[n - 1].skip
        /\ r[n].open = r[n - 1].open /\ r[n].words = Append(r[n - 1].words, l[n])
    BY <1>2, <2>1, <2>2, StepWord
  <2>4. SubSeq(l, i, n) = Append(SubSeq(l, i, n - 1), l[n])
    BY <1>0, SubSeqAppend
  <2> QED BY <1>2, <2>3, <2>4 DEF SameRun
<1> HIDE DEF Good
<1>3. T = {}
  <2> SUFFICES ASSUME T # {} PROVE FALSE
    OBVIOUS
  <2>1. PICK n \in T : \A m \in T : n <= m
    BY LeastNat
  <2>2. n # i - 1
    BY <1>1, <2>1
  <2>3. n \in i .. j /\ n - 1 \in i - 1 .. j /\ n - 1 \in Nat /\ ~ (n <= n - 1)
    BY <2>2
  <2>4. Good(n - 1)
    BY <2>1, <2>3
  <2> QED BY <1>2, <2>3, <2>4
<1>4. j \in Nat /\ j \in i - 1 .. j
  BY <1>0
<1>5. Good(j)
  BY <1>3, <1>4
<1> QED BY <1>5 DEF Good

LEMMA AppendFront ==
  ASSUME NEW s, Listed(s), NEW e
  PROVE  Front(Append(s, e)) = s /\ Last(Append(s, e)) = e
<1>1. PICK S : s \in Seq(S)
  BY DEF Listed
<1> DEFINE u == Append(s, e)
           T == S \cup {e}
<1>2. s \in Seq(T) /\ e \in T
  BY <1>1, SeqGrows
<1> HIDE DEF T
<1>3. u \in Seq(T) /\ u # <<>> /\ Len(u) = Len(s) + 1
      /\ (\A i \in 1 .. Len(s) : u[i] = s[i]) /\ u[Len(s) + 1] = e
  BY <1>2, AppendProperties
<1> HIDE DEF u
<1>4. /\ Len(s) \in Nat /\ Len(Front(u)) = Len(u) - 1 /\ DOMAIN Front(u) = DOMAIN u \ {Len(u)}
      /\ \A i \in DOMAIN Front(u) : Front(u)[i] = u[i]
  BY <1>2, <1>3, ListedFront, LenProperties DEF Listed
<1>5. Front(u) \in Seq(T)
  <2>1. \A i \in 1 .. Len(u) - 1 : u[i] \in T
    BY <1>3, <1>4, ElementOfSeq
  <2> QED BY <1>3, <1>4, <2>1, SubSeqProperties DEF Front
<1>6. Len(Front(u)) = Len(s) /\ \A i \in 1 .. Len(s) : Front(u)[i] = s[i]
  <2>1. DOMAIN u = 1 .. Len(s) + 1
    BY <1>3, LenProperties
  <2> QED BY <1>3, <1>4, <2>1
<1>7. Front(u) = s
  BY <1>2, <1>5, <1>6, SeqEqual
<1> QED BY <1>3, <1>7 DEF u, Last

-----------------------------------------------------------------------------
(* What an operator keeps from running: the run goes over the whole node     *)
(* that stands right of it, and nothing changes.                             *)
SkipsFrom(x, nd) == /\ RunState(x) /\ x.skip = TRUE /\ x.words = <<>>
                    /\ Operand(nd) \/ Enclosing(x)

SkipsTo(x, y) == RunState(y) /\ SameRun(Run(y), x) /\ y.open = x.open /\ y.skip = TRUE

LEMMA SkipCommand ==
  ASSUME NEW l \in Seq(Tokens), NEW nd, NEW i, NEW j, Spans(nd, i, j, l), nd.type = "command",
         NEW r, Follows(r, l, j), SkipsFrom(r[i - 1], nd)
  PROVE  SkipsTo(r[i - 1], r[j])
<1>1. /\ i \in 1 .. Len(l) /\ j \in i .. Len(l) /\ \A k \in i .. j : l[k] \in Words
  <2>1. i \in Nat /\ j \in Nat /\ 1 <= i /\ i <= j /\ j <= Len(l) /\ Len(l) \in Nat
    BY SpansUnfold, LenProperties
  <2>2. \A k \in i .. j : l[k] \in Words
    BY SpansCases
  <2> QED BY <2>1, <2>2
<1>2. /\ RunState(r[j]) /\ SameRun(r[j], r[i - 1])
      /\ r[j].skip = r[i - 1].skip /\ r[j].open = r[i - 1].open
  BY <1>1, WordsRead DEF SkipsFrom
<1>3. SameRun(Run(r[j]), r[j])
  BY <1>2, RunDone DEF SkipsFrom
<1> QED BY <1>2, <1>3 DEF SkipsFrom, SkipsTo, SameRun

LEMMA SkipSubshell ==
  ASSUME NEW l \in Seq(Tokens), NEW nd, NEW i \in Nat, NEW j \in Nat, 1 <= i, i < j,
         l[i] = "(", l[j] = ")",
         NEW r, Follows(r, l, j), SkipsFrom(r[i - 1], nd),
         SkipsFrom(r[i], nd.arg) => SkipsTo(r[i], r[j - 1])
  PROVE  SkipsTo(r[i - 1], r[j])
<1> DEFINE x == r[i - 1]
           y == r[i]
           z == r[j - 1]
           e == [skip |-> x.skip, cwd |-> x.cwd]
<1>1. y = RunStep(x, "(") /\ r[j] = RunStep(z, ")")
  BY DEF Follows
<1>2. RunState(x) /\ x.skip = TRUE /\ x.words = <<>>
  BY DEF SkipsFrom
<1> HIDE DEF x, y, z
<1>3. /\ RunState(y) /\ SameRun(y, x) /\ y.skip = TRUE /\ y.words = <<>>
      /\ y.open = Append(x.open, e)
  BY <1>1, <1>2, StepOpen
<1>4. e.skip = TRUE /\ e.cwd = x.cwd
  BY <1>2
<1> HIDE DEF e
<1>5. Listed(x.open)
  BY <1>2 DEF RunState
<1>6. y.open # <<>> /\ Front(y.open) = x.open /\ Last(y.open) = e
  BY <1>3, <1>5, ListedAppend, AppendFront
<1>7. SkipsFrom(y, nd.arg)
  BY <1>3, <1>4, <1>6 DEF SkipsFrom, Enclosing
<1>8. SkipsTo(y, z)
  BY <1>7 DEF x, y, z
<1>9. RunState(z) /\ SameRun(Run(z), y) /\ z.open = y.open
  BY <1>8 DEF SkipsTo
<1>10. z.open # <<>> /\ Last(z.open).skip \in BOOLEAN
  BY <1>4, <1>6, <1>9
<1>11. /\ RunState(r[j]) /\ r[j].words = <<>> /\ r[j].status = Run(z).status
       /\ r[j].ran = Run(z).ran /\ r[j].open = x.open /\ r[j].cwd = x.cwd /\ r[j].skip = TRUE
  BY <1>1, <1>4, <1>6, <1>9, <1>10, StepClose
<1>12. SameRun(r[j], x)
  BY <1>3, <1>9, <1>11 DEF SameRun
<1>13. SameRun(Run(r[j]), r[j])
  BY <1>11, RunDone
<1> QED BY <1>11, <1>12, <1>13 DEF SkipsTo, SameRun, x

LEMMA SkipBinary ==
  ASSUME NEW l \in Seq(Tokens), NEW nd, NEW i \in Nat, NEW k \in Nat, NEW j \in Nat,
         1 <= k, k <= j, l[k] \in Operators, Operand(nd.rhs), ~ Operand(nd),
         NEW r, Follows(r, l, j), SkipsFrom(r[i - 1], nd),
         SkipsFrom(r[i - 1], nd.lhs) => SkipsTo(r[i - 1], r[k - 1]),
         SkipsFrom(r[k], nd.rhs) => SkipsTo(r[k], r[j])
  PROVE  SkipsTo(r[i - 1], r[j])
<1> DEFINE x == r[i - 1]
           y == r[k - 1]
           z == r[k]
<1>1. z = RunStep(y, l[k])
  BY DEF Follows
<1>2. SkipsTo(x, y) /\ Enclosing(x)
  BY DEF SkipsFrom
<1> HIDE DEF x, y, z
<1>3. /\ RunState(z) /\ SameRun(z, Run(y)) /\ z.words = <<>> /\ z.open = y.open
      /\ z.skip = (Enclosing(y) \/ l[k] = Refuses(Run(y).status))
  BY <1>1, <1>2, StepOperator DEF SkipsTo
<1>4. Enclosing(y)
  BY <1>2 DEF Enclosing, SkipsTo
<1>5. (Enclosing(y) \/ l[k] = Refuses(Run(y).status)) = TRUE
  BY <1>4
<1>6. SkipsFrom(z, nd.rhs)
  BY <1>3, <1>5 DEF SkipsFrom
<1>7. SkipsTo(z, r[j])
  BY <1>6 DEF z
<1> QED BY <1>2, <1>3, <1>7 DEF SkipsTo, SameRun, x

LEMMA Skipped ==
  ASSUME NEW l \in Seq(Tokens), NEW nd, NEW i, NEW j, Spans(nd, i, j, l),
         NEW r, Follows(r, l, j), SkipsFrom(r[i - 1], nd)
  PROVE  SkipsTo(r[i - 1], r[j])
<1> DEFINE Fails(md, a, b) == /\ Spans(md, a, b, l) /\ Follows(r, l, b)
                              /\ SkipsFrom(r[a - 1], md) /\ ~ SkipsTo(r[a - 1], r[b])
           T == {n \in Nat : \E md, a, b : n = b - a /\ Fails(md, a, b)}
<1>1. T = {}
  <2> SUFFICES ASSUME T # {} PROVE FALSE
    OBVIOUS
  <2>1. PICK n \in T : \A m \in T : n <= m
    BY LeastNat
  <2>2. PICK md, a, b : n = b - a /\ Fails(md, a, b)
    BY <2>1
  <2>3. a \in Nat /\ b \in Nat /\ 1 <= a /\ a <= b
    BY <2>2, SpansUnfold
  <2>4. ASSUME NEW kd, NEW c, NEW d, Spans(kd, c, d, l), d <= b, d - c < b - a,
               SkipsFrom(r[c - 1], kd)
        PROVE  SkipsTo(r[c - 1], r[d])
    <3>1. c \in Nat /\ d \in Nat /\ c <= d
      BY <2>4, SpansUnfold
    <3>2. Follows(r, l, d)
      BY <2>2, <2>3, <2>4, <3>1 DEF Follows
    <3>3. d - c \in Nat /\ ~ (n <= d - c)
      BY <2>2, <2>3, <2>4, <3>1
    <3>4. d - c \notin T
      BY <2>1, <3>3
    <3> QED BY <2>4, <3>2, <3>3, <3>4
  <2>5. CASE md.type = "command"
    BY <2>2, <2>5, SkipCommand
  <2>6. CASE md.type = "subshell"
    <3>1. l[a] = "(" /\ l[b] = ")" /\ Spans(md.arg, a + 1, b - 1, l)
      BY <2>2, <2>6, SpansCases
    <3>2. a + 1 <= b - 1
      BY <3>1, SpansUnfold
    <3>3. b - 1 <= b /\ (b - 1) - (a + 1) < b - a /\ a < b /\ a + 1 - 1 = a
      BY <2>3, <3>2
    <3>4. ASSUME SkipsFrom(r[a], md.arg) PROVE SkipsTo(r[a], r[b - 1])
      <4> DEFINE c == a + 1
                 d == b - 1
      <4>1. c - 1 = a /\ d <= b /\ d - c < b - a
        BY <2>3, <3>3
      <4>3. Spans(md.arg, c, d, l)
        BY <3>1
      <4> HIDE DEF c
      <4>2. SkipsTo(r[c - 1], r[d])
        BY <2>4, <3>4, <4>1, <4>3
      <4> QED BY <4>1, <4>2
    <3> QED BY <2>2, <2>3, <3>1, <3>3, <3>4, SkipSubshell
  <2>7. CASE md.type \in Operators
    <3>1. PICK k \in a + 1 .. b - 1 : /\ l[k] = md.type /\ Spans(md.lhs, a, k - 1, l)
                                      /\ Spans(md.rhs, k + 1, b, l) /\ Operand(md.rhs)
      BY <2>2, <2>7, SpansCases
    <3>2. /\ k \in Nat /\ 1 <= k /\ k <= b /\ k - 1 <= b /\ (k - 1) - a < b - a /\ b <= b
          /\ b - (k + 1) < b - a /\ k + 1 - 1 = k
      BY <2>3, <3>1
    <3>3. SkipsFrom(r[a - 1], md.lhs) => SkipsTo(r[a - 1], r[k - 1])
      BY <2>4, <3>1, <3>2
    <3>4. SkipsFrom(r[k], md.rhs) => SkipsTo(r[k], r[b])
      BY <2>4, <3>1, <3>2
    <3>5. ~ Operand(md) /\ l[k] \in Operators
      BY <2>7, <3>1, TokenKinds DEF Operand
    <3> QED BY <2>2, <2>3, <3>1, <3>2, <3>3, <3>4, <3>5, SkipBinary
  <2> QED BY <2>2, <2>5, <2>6, <2>7, SpansUnfold
<1>2. j - i \in Nat
  BY SpansUnfold
<1> QED BY <1>1, <1>2

-----------------------------------------------------------------------------
(* The syntax of a line, a token at a time.                                  *)
SyntaxAlong(y, l, n) == y[0] = SyntaxStart /\ \A k \in 1 .. n : y[k] = SyntaxStep(y[k - 1], l[k])

(* An operand is expected; or one has just been read, of words or closed.    *)
Expects(x, d, n) == x = [verdict |-> "reading", wants |-> TRUE, word |-> FALSE, depth |-> d, used |-> n]
Words1(x, d, n) == x = [verdict |-> "reading", wants |-> FALSE, word |-> TRUE, depth |-> d, used |-> n]
Closed(x, d, n) == x = [verdict |-> "reading", wants |-> FALSE, word |-> FALSE, depth |-> d, used |-> n]

LEMMA SynStart == Expects(SyntaxStart, 0, 0)
BY DEF Expects, SyntaxStart

LEMMA SynWord ==
  ASSUME NEW x, NEW d \in Nat, NEW n \in Nat, Expects(x, d, n) \/ Words1(x, d, n), NEW tok \in Words
  PROVE  Words1(SyntaxStep(x, tok), d, n + 1)
<1>1. x.verdict = "reading" /\ x.depth = d /\ (x.wants \/ x.word) /\ x.used = n
  BY DEF Expects, Words1
<1>2. SyntaxStep(x, tok) = [x EXCEPT !.wants = FALSE, !.word = TRUE, !.depth = d, !.used = n + 1]
  BY <1>1, TokenKinds DEF SyntaxStep
<1>3. PICK w, v : x = [verdict |-> "reading", wants |-> w, word |-> v, depth |-> d, used |-> n]
  BY DEF Expects, Words1
<1> QED BY <1>2, <1>3 DEF Words1

LEMMA SynOpen ==
  ASSUME NEW x, NEW d \in Nat, NEW n \in Nat, Expects(x, d, n)
  PROVE  Expects(SyntaxStep(x, "("), d + 1, n + 1)
<1>1. x.verdict = "reading" /\ x.depth = d /\ x.wants /\ x.used = n
  BY DEF Expects
<1>2. SyntaxStep(x, "(") = [x EXCEPT !.wants = TRUE, !.word = FALSE, !.depth = d + 1, !.used = n + 1]
  BY <1>1, TokenKinds DEF SyntaxStep
<1> QED BY <1>2 DEF Expects

LEMMA SynOperator ==
  ASSUME NEW x, NEW d \in Nat, NEW n \in Nat, Closed(x, d, n) \/ Words1(x, d, n), NEW tok \in Operators
  PROVE  Expects(SyntaxStep(x, tok), d, n + 1)
<1>1. x.verdict = "reading" /\ x.depth = d /\ ~ x.wants /\ x.used = n
  BY DEF Closed, Words1
<1>2. SyntaxStep(x, tok) = [x EXCEPT !.wants = TRUE, !.word = FALSE, !.depth = d, !.used = n + 1]
  BY <1>1, TokenKinds DEF SyntaxStep
<1>3. PICK w, v : x = [verdict |-> "reading", wants |-> w, word |-> v, depth |-> d, used |-> n]
  BY DEF Closed, Words1
<1> QED BY <1>2, <1>3 DEF Expects

LEMMA SynClose ==
  ASSUME NEW x, NEW d \in Nat, NEW n \in Nat, Closed(x, d, n) \/ Words1(x, d, n), d > 0
  PROVE  Closed(SyntaxStep(x, ")"), d - 1, n + 1)
<1>1. x.verdict = "reading" /\ x.depth = d /\ ~ x.wants /\ x.used = n
  BY DEF Closed, Words1
<1>2. SyntaxStep(x, ")") = [x EXCEPT !.wants = FALSE, !.word = FALSE, !.depth = d - 1, !.used = n + 1]
  BY <1>1, TokenKinds DEF SyntaxStep
<1>3. PICK w, v : x = [verdict |-> "reading", wants |-> w, word |-> v, depth |-> d, used |-> n]
  BY DEF Closed, Words1
<1> QED BY <1>2, <1>3 DEF Closed

LEMMA SynRefuseStart ==
  ASSUME NEW x, NEW d \in Nat, NEW n \in Nat, Expects(x, d, n), NEW tok, tok \notin Words \cup {"("}
  PROVE  SyntaxStep(x, tok).verdict = "error"
<1>1. x.verdict = "reading" /\ x.depth = d /\ x.wants /\ x.used = n
  BY DEF Expects
<1>2. SyntaxStep(x, tok) = [x EXCEPT !.verdict = "error"]
  BY <1>1, TokenKinds DEF SyntaxStep
<1> QED BY <1>2 DEF Expects

Refused(x, d, n) == x.used = n /\ x.verdict = IF d = 0 THEN "list" ELSE "error"

(* After an operand: nothing but an operator, what closes a parenthesis, or  *)
(* another word of the same command goes on.                                 *)
LEMMA SynRefuseMore ==
  ASSUME NEW x, NEW d \in Nat, NEW n \in Nat, Closed(x, d, n) \/ Words1(x, d, n), NEW tok,
         tok \notin Operators, tok \notin Words \/ Closed(x, d, n), tok # ")" \/ d = 0
  PROVE  Refused(SyntaxStep(x, tok), d, n)
<1>1. x.verdict = "reading" /\ x.depth = d /\ ~ x.wants /\ x.used = n
  BY DEF Closed, Words1
<1>2. tok \in Words => ~ x.word
  BY DEF Closed
<1>3. tok = ")" => ~ (d > 0)
  OBVIOUS
<1>4. CASE d = 0
  <2>1. SyntaxStep(x, tok) = [x EXCEPT !.verdict = "list"]
    BY <1>1, <1>2, <1>3, <1>4, TokenKinds DEF SyntaxStep
  <2> QED BY <1>4, <2>1 DEF Closed, Words1, Refused
<1>5. CASE d # 0
  <2>1. SyntaxStep(x, tok) = [x EXCEPT !.verdict = "error"]
    BY <1>1, <1>2, <1>3, <1>5, TokenKinds DEF SyntaxStep
  <2> QED BY <1>5, <2>1 DEF Closed, Words1, Refused
<1> QED BY <1>4, <1>5

(* A verdict is final.                                                       *)
LEMMA SynFinal ==
  ASSUME NEW y, NEW l, NEW m \in Nat, SyntaxAlong(y, l, m), NEW n \in 0 .. m,
         y[n].verdict # "reading"
  PROVE  y[m] = y[n]
<1> DEFINE T == {k \in Nat : k \in n .. m /\ y[k] # y[n]}
<1>1. T = {}
  <2> SUFFICES ASSUME T # {} PROVE FALSE
    OBVIOUS
  <2>1. PICK k \in T : \A j \in T : k <= j
    BY LeastNat
  <2>2. k \in n .. m /\ k # n /\ k - 1 \in n .. m /\ ~ (k <= k - 1) /\ k - 1 \in Nat /\ k \in 1 .. m
    BY <2>1
  <2>3. y[k - 1] = y[n]
    BY <2>1, <2>2
  <2>4. y[k] = SyntaxStep(y[k - 1], l[k])
    BY <2>2 DEF SyntaxAlong
  <2>5. y[k] = y[k - 1]
    BY <2>3, <2>4 DEF SyntaxStep
  <2> QED BY <2>1, <2>3, <2>5
<1> QED BY <1>1

LEMMA SynWords ==
  ASSUME NEW y, NEW l, NEW n \in Nat, NEW c \in Nat, c >= 1, SyntaxAlong(y, l, n + c),
         \A k \in n + 1 .. n + c : l[k] \in Words,
         NEW d \in Nat, Expects(y[n], d, n)
  PROVE  Words1(y[n + c], d, n + c)
<1> DEFINE T == {k \in Nat : k >= 1 /\ k <= c /\ ~ Words1(y[n + k], d, n + k)}
<1>1. ASSUME NEW k \in 1 .. c, Expects(y[n + k - 1], d, n + k - 1) \/ Words1(y[n + k - 1], d, n + k - 1)
      PROVE  Words1(y[n + k], d, n + k)
  <2> DEFINE m == n + k - 1
  <2>1. n + k \in 1 .. n + c /\ l[n + k] \in Words /\ m \in Nat /\ m + 1 = n + k
    OBVIOUS
  <2>2. y[n + k] = SyntaxStep(y[m], l[n + k])
    BY <2>1 DEF SyntaxAlong
  <2>3. Expects(y[m], d, m) \/ Words1(y[m], d, m)
    BY <1>1
  <2> HIDE DEF m
  <2> QED BY <2>1, <2>2, <2>3, SynWord
<1>2. T = {}
  <2> SUFFICES ASSUME T # {} PROVE FALSE
    OBVIOUS
  <2>1. PICK k \in T : \A j \in T : k <= j
    BY LeastNat
  <2>2. CASE k = 1
    <3>1. n + 1 - 1 = n
      OBVIOUS
    <3> QED BY <1>1, <2>1, <2>2, <3>1
  <2>3. CASE k # 1
    <3>1. k - 1 \in Nat /\ k - 1 >= 1 /\ k - 1 <= c /\ ~ (k <= k - 1) /\ n + (k - 1) = n + k - 1
          /\ k \in 1 .. c
      BY <2>1, <2>3
    <3>2. Words1(y[n + (k - 1)], d, n + (k - 1))
      BY <2>1, <3>1
    <3> QED BY <1>1, <2>1, <3>1, <3>2
  <2> QED BY <2>2, <2>3
<1> QED BY <1>2

(* The syntax of a whole line, by where a reading of it stands.              *)
LEMMA SyntaxOf ==
  ASSUME NEW l \in Seq(Tokens)
  PROVE  \E y : SyntaxAlong(y, l, Len(l)) /\ y[Len(l)] = Syntax(l)
<1>1. Len(l) \in Nat /\ DOMAIN l = 1 .. Len(l)
  BY LenProperties
<1> QED BY <1>1, SyntaxFold DEF SyntaxAlong, Syntax

SyntaxAt(l) == CHOOSE y : SyntaxAlong(y, l, Len(l)) /\ y[Len(l)] = Syntax(l)

LEMMA SyntaxAtFacts ==
  ASSUME NEW l \in Seq(Tokens)
  PROVE  SyntaxAlong(SyntaxAt(l), l, Len(l)) /\ SyntaxAt(l)[Len(l)] = Syntax(l)
BY SyntaxOf DEF SyntaxAt

LEMMA NoOperand ==
  ASSUME NEW l \in Seq(Tokens), NEW n \in 0 .. Len(l), NEW d \in Nat,
         Expects(SyntaxAt(l)[n], d, n), n < Len(l) => l[n + 1] \notin Words \cup {"("}
  PROVE  ~ IsList(l)
<1> DEFINE y == SyntaxAt(l)
<1>1. Len(l) \in Nat /\ SyntaxAlong(y, l, Len(l)) /\ y[Len(l)] = Syntax(l)
  BY SyntaxAtFacts, LenProperties
<1> HIDE DEF y
<1>2. CASE n < Len(l)
  <2>1. n + 1 \in 1 .. Len(l) /\ n + 1 - 1 = n /\ n + 1 \in 0 .. Len(l) /\ n \in Nat
    BY <1>1, <1>2
  <2>2. y[n + 1] = SyntaxStep(y[n], l[n + 1])
    BY <1>1, <2>1 DEF SyntaxAlong
  <2>3. y[n + 1].verdict = "error"
    BY <1>2, <2>1, <2>2, SynRefuseStart DEF y
  <2>4. y[n + 1].verdict # "reading"
    BY <2>3
  <2>5. Syntax(l) = y[n + 1]
    BY <1>1, <2>1, <2>4, SynFinal
  <2> QED BY <2>3, <2>5 DEF IsList
<1>3. CASE n = Len(l)
  BY <1>1, <1>3 DEF IsList, Expects, y
<1> QED BY <1>1, <1>2, <1>3

LEMMA AfterOperand ==
  ASSUME NEW l \in Seq(Tokens), NEW n \in 0 .. Len(l), NEW d \in Nat,
         Closed(SyntaxAt(l)[n], d, n) \/ Words1(SyntaxAt(l)[n], d, n),
         n < Len(l) => /\ l[n + 1] \notin Operators
                       /\ l[n + 1] \notin Words \/ Closed(SyntaxAt(l)[n], d, n)
                       /\ l[n + 1] # ")" \/ d = 0
  PROVE  IF d = 0 THEN IsList(l) /\ Syntax(l).used = n ELSE ~ IsList(l)
<1> DEFINE y == SyntaxAt(l)
<1>1. Len(l) \in Nat /\ SyntaxAlong(y, l, Len(l)) /\ y[Len(l)] = Syntax(l)
  BY SyntaxAtFacts, LenProperties
<1> HIDE DEF y
<1>2. CASE n < Len(l)
  <2>1. n + 1 \in 1 .. Len(l) /\ n + 1 - 1 = n /\ n + 1 \in 0 .. Len(l) /\ n \in Nat
    BY <1>1, <1>2
  <2>2. y[n + 1] = SyntaxStep(y[n], l[n + 1])
    BY <1>1, <2>1 DEF SyntaxAlong
  <2>3. /\ y[n + 1].used = n
        /\ d = 0 => y[n + 1].verdict = "list"
        /\ d # 0 => y[n + 1].verdict = "error"
    <3> DEFINE x == y[n]
               tok == l[n + 1]
    <3>1. Closed(x, d, n) \/ Words1(x, d, n)
      BY DEF y
    <3>2. tok \notin Operators /\ (tok \notin Words \/ Closed(x, d, n)) /\ (tok # ")" \/ d = 0)
      BY <1>2 DEF y
    <3>3. y[n + 1] = SyntaxStep(x, tok)
      BY <2>2
    <3>4. n \in Nat
      BY <2>1
    <3> HIDE DEF x, tok
    <3>5. Refused(SyntaxStep(x, tok), d, n)
      BY <3>1, <3>2, <3>4, SynRefuseMore
    <3> QED BY <3>3, <3>5 DEF Refused
  <2>4. y[n + 1].verdict # "reading"
    BY <2>3
  <2>5. Syntax(l) = y[n + 1]
    BY <1>1, <2>1, <2>4, SynFinal
  <2> QED BY <2>3, <2>5 DEF IsList
<1>3. CASE n = Len(l)
  <2>1. /\ Syntax(l).verdict = "reading" /\ ~ Syntax(l).wants /\ Syntax(l).depth = d
        /\ Syntax(l).used = n
    BY <1>1, <1>3 DEF Closed, Words1, y
  <2> QED BY <2>1 DEF IsList
<1> QED BY <1>1, <1>2, <1>3

-----------------------------------------------------------------------------
(* The parser: n tokens of the line are consumed, and every active call of   *)
(* parseBinary has what is left of its operator, from token a on, in its     *)
(* frame; its operand begins at b.                                           *)
ReadSoFar(l, rs, n) ==
  /\ l \in Seq(Tokens) /\ rs \in Seq(Tokens) /\ n \in 0 .. Len(l) /\ Len(rs) = Len(l) - n
  /\ \A k \in 1 .. Len(rs) : rs[k] = l[n + k]

FrameAt(l, fr, a, b) ==
  /\ a \in Nat /\ b \in Nat /\ 1 <= a /\ a <= b
  /\ fr.op = "" => b = a
  /\ fr.op # "" => fr.op \in Operators /\ l[b - 1] = fr.op /\ Spans(fr.lhs, a, b - 2, l)

Frames(l, p, s, o) ==
  /\ Listed(p) /\ p # <<>>
  /\ s[1] = 1
  /\ \A k \in 1 .. Len(p) : FrameAt(l, p[k], s[k], o[k])
  /\ \A k \in 1 .. Len(p) - 1 : l[o[k]] = "(" /\ s[k + 1] = o[k] + 1

AtLeaf(l, rs, p) ==
  \E n, s, o : /\ ReadSoFar(l, rs, n) /\ Frames(l, p, s, o)
               /\ o[Len(p)] = n + 1
               /\ Expects(SyntaxAt(l)[n], Len(p) - 1, n)

AtParsed(l, rs, p, nd) ==
  \E n, s, o : /\ ReadSoFar(l, rs, n) /\ Frames(l, p, s, o)
               /\ Spans(nd, o[Len(p)], n, l) /\ Operand(nd)
               /\ \/ Closed(SyntaxAt(l)[n], Len(p) - 1, n)
                  \/ Words1(SyntaxAt(l)[n], Len(p) - 1, n) /\ (n < Len(l) => l[n + 1] \notin Words)

LEMMA SpansJoined ==
  ASSUME NEW l, NEW fr, NEW a, NEW b, FrameAt(l, fr, a, b), NEW nd, NEW n, Spans(nd, b, n, l),
         Operand(nd)
  PROVE  Spans(IF fr.op = "" THEN nd ELSE Binary(fr.op, fr.lhs, nd), a, n, l)
<1>1. CASE fr.op = ""
  BY <1>1 DEF FrameAt
<1>2. CASE fr.op # ""
  <2> DEFINE k == b - 1
  <2>1. fr.op \in Operators /\ l[k] = fr.op /\ Spans(fr.lhs, a, b - 2, l) /\ a \in Nat /\ b \in Nat
    BY <1>2 DEF FrameAt
  <2>2. a <= b - 2 /\ b <= n /\ n \in Nat
    BY <2>1, SpansUnfold
  <2>3. k \in Nat /\ k - 1 = b - 2 /\ k + 1 = b /\ k <= n
    BY <2>1, <2>2
  <2>4. Spans(fr.lhs, a, k - 1, l) /\ Spans(nd, k + 1, n, l)
    BY <2>1, <2>3
  <2> HIDE DEF k
  <2>5. Spans(Binary(l[k], fr.lhs, nd), a, n, l)
    BY <2>1, <2>2, <2>3, <2>4, SpansBinary
  <2> QED BY <1>2, <2>1, <2>5
<1> QED BY <1>1, <1>2

LEMMA FramesOpened ==
  ASSUME NEW l, NEW p, NEW s, NEW o, Frames(l, p, s, o), l[o[Len(p)]] = "("
  PROVE  \E s2, o2 : Frames(l, Append(p, NewCall), s2, o2) /\ o2[Len(p) + 1] = o[Len(p)] + 1
<1> DEFINE m == Len(p)
           c == o[m] + 1
           s2 == [k \in Nat |-> IF k = m + 1 THEN c ELSE s[k]]
           o2 == [k \in Nat |-> IF k = m + 1 THEN c ELSE o[k]]
           q == Append(p, NewCall)
<1>1. m \in Nat /\ m >= 1 /\ DOMAIN p = 1 .. m
  BY ListedFacts DEF Frames
<1>2. /\ Listed(q) /\ q # <<>> /\ Len(q) = m + 1 /\ q[m + 1] = NewCall
      /\ \A k \in 1 .. m : q[k] = p[k]
  BY <1>1, ListedAppend DEF Frames
<1>3. FrameAt(l, p[m], s[m], o[m])
  BY <1>1 DEF Frames
<1>4. c \in Nat /\ 1 <= c
  <2>1. o[m] \in Nat
    BY <1>3 DEF FrameAt
  <2> QED BY <2>1
<1>5. FrameAt(l, NewCall, c, c)
  BY <1>4 DEF FrameAt, NewCall
<1>6. s2[m + 1] = c /\ o2[m + 1] = c /\ \A k \in 1 .. m : s2[k] = s[k] /\ o2[k] = o[k]
  BY <1>1
<1>7. c = o[m] + 1 /\ l[o[m]] = "("
  OBVIOUS
<1> HIDE DEF c, m, s2, o2, q
<1>8. Len(q) - 1 = m /\ 1 .. Len(q) = (1 .. m) \cup {m + 1} /\ 1 .. m = (1 .. m - 1) \cup {m}
  BY <1>1, <1>2
<1>9. ASSUME NEW k \in 1 .. Len(q) PROVE FrameAt(l, q[k], s2[k], o2[k])
  BY <1>2, <1>5, <1>6, <1>8 DEF Frames, m
<1>10. ASSUME NEW k \in 1 .. Len(q) - 1 PROVE l[o2[k]] = "(" /\ s2[k + 1] = o2[k] + 1
  <2>1. CASE k = m
    BY <1>1, <1>6, <1>7, <2>1
  <2>2. CASE k # m
    <3>1. k \in 1 .. m - 1 /\ k + 1 \in 1 .. m /\ k \in 1 .. m
      BY <1>1, <1>8, <2>2
    <3>2. l[o[k]] = "(" /\ s[k + 1] = o[k] + 1
      BY <3>1 DEF Frames, m
    <3> QED BY <1>6, <3>1, <3>2
  <2> QED BY <2>1, <2>2
<1>11. s2[1] = 1
  BY <1>1, <1>6 DEF Frames
<1>12. Frames(l, q, s2, o2)
  BY <1>2, <1>9, <1>10, <1>11 DEF Frames
<1> QED BY <1>6, <1>7, <1>12 DEF q, m

LEMMA FramesReplaced ==
  ASSUME NEW l, NEW p, NEW s, NEW o, Frames(l, p, s, o), NEW fr, NEW b, FrameAt(l, fr, s[Len(p)], b)
  PROVE  \E o2 : Frames(l, Append(Front(p), fr), s, o2) /\ o2[Len(p)] = b
<1> DEFINE m == Len(p)
           o2 == [k \in Nat |-> IF k = m THEN b ELSE o[k]]
           f == Front(p)
           q == Append(f, fr)
<1>1. m \in Nat /\ m >= 1 /\ DOMAIN p = 1 .. m /\ Listed(p) /\ p # <<>>
  BY ListedFacts DEF Frames
<1>2. Listed(f) /\ Len(f) = m - 1 /\ DOMAIN f = 1 .. m - 1 /\ \A k \in 1 .. m - 1 : f[k] = p[k]
  <2>1. /\ Listed(f) /\ Len(f) = m - 1 /\ DOMAIN f = DOMAIN p \ {m}
        /\ \A k \in DOMAIN f : f[k] = p[k]
    BY <1>1, ListedFront
  <2>2. (1 .. m) \ {m} = 1 .. m - 1
    BY <1>1
  <2> QED BY <1>1, <2>1, <2>2
<1> HIDE DEF f
<1>3. m - 1 + 1 = m
  BY <1>1
<1>4. /\ Listed(q) /\ q # <<>> /\ Len(q) = m /\ q[m] = fr
      /\ \A k \in 1 .. m - 1 : q[k] = p[k]
  BY <1>2, <1>3, ListedAppend
<1>5. o2[m] = b /\ \A k \in 1 .. m - 1 : o2[k] = o[k]
  <2>1. \A x \in Nat : \A k \in 1 .. x - 1 : k \in Nat /\ k # x
    OBVIOUS
  <2>2. m \in Nat /\ \A k \in 1 .. m - 1 : k \in Nat /\ k # m
    BY <1>1, <2>1
  <2> QED BY <2>2
<1> HIDE DEF m, o2, q
<1>6. 1 .. m = (1 .. m - 1) \cup {m}
  BY <1>1
<1>7. ASSUME NEW k \in 1 .. m PROVE FrameAt(l, q[k], s[k], o2[k])
  BY <1>4, <1>5, <1>6 DEF Frames, m
<1>8. ASSUME NEW k \in 1 .. m - 1 PROVE l[o2[k]] = "(" /\ s[k + 1] = o2[k] + 1
  BY <1>5 DEF Frames, m
<1>9. Frames(l, q, s, o2)
  BY <1>4, <1>7, <1>8 DEF Frames
<1> QED BY <1>5, <1>9 DEF q, f, m

LEMMA FramesClosed ==
  ASSUME NEW l, NEW p, NEW s, NEW o, Frames(l, p, s, o), Len(p) > 1
  PROVE  /\ Frames(l, Front(p), s, o) /\ Len(Front(p)) = Len(p) - 1
         /\ l[o[Len(p) - 1]] = "(" /\ s[Len(p)] = o[Len(p) - 1] + 1
<1> DEFINE m == Len(p)
           f == Front(p)
<1>1. m \in Nat /\ m > 1 /\ DOMAIN p = 1 .. m /\ Listed(p) /\ p # <<>>
  BY ListedFacts DEF Frames
<1>2. Listed(f) /\ Len(f) = m - 1 /\ \A k \in 1 .. m - 1 : f[k] = p[k]
  <2>1. /\ Listed(f) /\ Len(f) = m - 1 /\ DOMAIN f = DOMAIN p \ {m}
        /\ \A k \in DOMAIN f : f[k] = p[k]
    BY <1>1, ListedFront
  <2>2. (1 .. m) \ {m} = 1 .. m - 1
    BY <1>1
  <2> QED BY <1>1, <2>1, <2>2
<1> HIDE DEF f
<1>3. m - 1 \in 1 .. m - 1 /\ m - 1 + 1 = m /\ (\A k \in 1 .. m - 1 : k \in 1 .. m)
      /\ \A k \in 1 .. m - 1 - 1 : k \in 1 .. m - 1
  BY <1>1
<1>4. l[o[m - 1]] = "(" /\ s[m] = o[m - 1] + 1
  BY <1>3 DEF Frames
<1>5. f # <<>>
  BY <1>1, <1>2, EmptySeq
<1>6. \A k \in 1 .. Len(f) : FrameAt(l, f[k], s[k], o[k])
  BY <1>2, <1>3 DEF Frames
<1>7. \A k \in 1 .. Len(f) - 1 : l[o[k]] = "(" /\ s[k + 1] = o[k] + 1
  BY <1>2, <1>3 DEF Frames
<1>8. Frames(l, f, s, o)
  BY <1>2, <1>5, <1>6, <1>7 DEF Frames
<1> QED BY <1>2, <1>4, <1>8 DEF f

(* The next token.                                                           *)
LEMMA NextToken ==
  ASSUME NEW n, ReadSoFar(line.tokens, rest, n)
  PROVE  /\ n < Len(line.tokens) => /\ Next1 = line.tokens[n + 1] /\ rest # <<>>
                                    /\ ReadSoFar(line.tokens, Tail(rest), n + 1)
         /\ n = Len(line.tokens) => Next1 = "EOF"
<1> DEFINE l == line.tokens
<1>1. /\ Len(l) \in Nat /\ Len(rest) \in Nat /\ Len(rest) = Len(l) - n /\ rest \in Seq(Tokens)
      /\ n \in 0 .. Len(l) /\ l \in Seq(Tokens) /\ \A k \in 1 .. Len(rest) : rest[k] = l[n + k]
  BY LenProperties DEF ReadSoFar
<1> HIDE DEF l
<1>2. CASE n < Len(l)
  <2>1. rest # <<>> /\ 1 \in 1 .. Len(rest)
    BY <1>1, <1>2, EmptySeq
  <2>2. Head(rest) = rest[1]
    BY <2>1
  <2>3. Next1 = l[n + 1]
    BY <1>1, <2>1, <2>2 DEF Next1
  <2>4. /\ Tail(rest) \in Seq(Tokens) /\ Len(Tail(rest)) = Len(rest) - 1
        /\ \A k \in 1 .. Len(Tail(rest)) : Tail(rest)[k] = rest[k + 1]
    BY <1>1, <2>1, HeadTailProperties
  <2>5. \A k \in 1 .. Len(Tail(rest)) : Tail(rest)[k] = l[n + 1 + k]
    <3> SUFFICES ASSUME NEW k \in 1 .. Len(Tail(rest)) PROVE Tail(rest)[k] = l[n + 1 + k]
      OBVIOUS
    <3>1. k + 1 \in 1 .. Len(rest) /\ n + (k + 1) = n + 1 + k
      BY <1>1, <2>4
    <3> QED BY <1>1, <2>4, <3>1
  <2>6. n + 1 \in 0 .. Len(l) /\ Len(rest) - 1 = Len(l) - (n + 1)
    BY <1>1, <1>2
  <2>7. ReadSoFar(l, Tail(rest), n + 1)
    BY <1>1, <2>4, <2>5, <2>6 DEF ReadSoFar
  <2> QED BY <1>2, <2>1, <2>3, <2>7 DEF l
<1>3. CASE n = Len(l)
  <2>1. Len(rest) = 0
    BY <1>1, <1>3
  <2>2. rest = <<>>
    BY <1>1, <2>1, EmptySeq
  <2> QED BY <1>1, <1>3, <2>2 DEF Next1, l
<1> QED BY <1>1, <1>2, <1>3 DEF l

LEMMA SyntaxGoes ==
  ASSUME NEW l \in Seq(Tokens), NEW n \in 0 .. Len(l), n < Len(l)
  PROVE  SyntaxAt(l)[n + 1] = SyntaxStep(SyntaxAt(l)[n], l[n + 1])
<1> DEFINE k == n + 1
<1>1. k \in 1 .. Len(l) /\ k - 1 = n
  BY LenProperties
<1>2. SyntaxAlong(SyntaxAt(l), l, Len(l))
  BY SyntaxAtFacts
<1> HIDE DEF k
<1>3. SyntaxAt(l)[k] = SyntaxStep(SyntaxAt(l)[n], l[k])
  BY <1>1, <1>2 DEF SyntaxAlong
<1> QED BY <1>3 DEF k

LEMMA FrameBounds ==
  ASSUME NEW l, NEW fr, NEW a, NEW b, FrameAt(l, fr, a, b)
  PROVE  a \in Nat /\ b \in Nat /\ 1 <= a /\ a <= b /\ 1 <= b
<1>1. a \in Nat /\ b \in Nat /\ 1 <= a /\ a <= b
  BY DEF FrameAt
<1> QED BY <1>1

LEMMA FrameNew ==
  ASSUME NEW l, NEW a \in Nat, 1 <= a
  PROVE  FrameAt(l, NewCall, a, a)
BY DEF FrameAt, NewCall

LEMMA FrameOperator ==
  ASSUME NEW l, NEW fr, NEW a, NEW b, NEW n \in Nat, fr.op \in Operators, l[n + 1] = fr.op,
         Spans(fr.lhs, a, n, l), b = n + 2
  PROVE  FrameAt(l, fr, a, b)
<1>1. a \in Nat /\ 1 <= a /\ a <= n
  BY SpansUnfold
<1>2. b \in Nat /\ a <= b /\ b - 1 = n + 1 /\ b - 2 = n
  BY <1>1
<1>3. fr.op # ""
  BY TokenKinds
<1>4. l[b - 1] = fr.op /\ Spans(fr.lhs, a, b - 2, l)
  BY <1>2
<1> QED BY <1>1, <1>2, <1>3, <1>4 DEF FrameAt

LEMMA FrameAlone ==
  ASSUME NEW l, NEW p, Listed(p), p # <<>>, Len(p) = 1, p[1] = NewCall, NEW s, s[1] = 1
  PROVE  Frames(l, p, s, s) /\ s[Len(p)] = 0 + 1 /\ Len(p) - 1 = 0
<1>1. FrameAt(l, NewCall, 1, 1)
  BY FrameNew
<1>2. 1 .. 1 = {1} /\ 1 .. 1 - 1 = {}
  OBVIOUS
<1> QED BY <1>1, <1>2 DEF Frames

LEMMA LeafStarts ==
  ASSUME NEW l \in Seq(Tokens)
  PROVE  AtLeaf(l, l, <<NewCall>>)
<1> DEFINE s == [k \in {1} |-> 1]
           p == <<NewCall>>
<1>1. Listed(p) /\ p # <<>> /\ Len(p) = 1 /\ p[1] = NewCall
  BY ListedEmpty
<1>2. s[1] = 1
  OBVIOUS
<1> HIDE DEF s, p
<1>3. Frames(l, p, s, s) /\ s[Len(p)] = 0 + 1 /\ Len(p) - 1 = 0
  BY <1>1, <1>2, FrameAlone
<1>4. ReadSoFar(l, l, 0)
  <2>1. Len(l) \in Nat
    BY LenProperties
  <2>2. 0 \in 0 .. Len(l) /\ Len(l) = Len(l) - 0 /\ \A k \in 1 .. Len(l) : 0 + k = k
    BY <2>1
  <2> QED BY <2>2 DEF ReadSoFar
<1>5. Expects(SyntaxAt(l)[0], 0, 0)
  BY SyntaxAtFacts, SynStart DEF SyntaxAlong
<1>6. AtLeaf(l, l, p)
  BY <1>3, <1>4, <1>5 DEF AtLeaf
<1> QED BY <1>6 DEF p

LEMMA LeafCommand ==
  ASSUME ParseCommand, AtLeaf(line.tokens, rest, parsing)
  PROVE  AtParsed(line.tokens, rest', parsing', node')
<1> DEFINE l == line.tokens
           c == ArgCount
           d == Len(parsing) - 1
<1>1. PICK n, s, o : /\ ReadSoFar(l, rest, n) /\ Frames(l, parsing, s, o)
                     /\ o[Len(parsing)] = n + 1
                     /\ Expects(SyntaxAt(l)[n], d, n)
  BY DEF AtLeaf
<1>2. /\ l \in Seq(Tokens) /\ rest \in Seq(Tokens) /\ n \in Nat /\ n <= Len(l) /\ Len(l) \in Nat
      /\ Len(rest) = Len(l) - n /\ \A k \in 1 .. Len(rest) : rest[k] = l[n + k]
  BY <1>1, LenProperties DEF ReadSoFar
<1>3. /\ c \in 0 .. Len(rest) /\ \A k \in 1 .. c : rest[k] \in Words
      /\ c < Len(rest) => rest[c + 1] \notin Words
  BY <1>2, ArgCountFacts
<1>4. n < Len(l) /\ rest[1] \in Words
  <2>1. Next1 \in Words
    BY DEF ParseCommand
  <2>2. n # Len(l)
    BY <1>1, <2>1, NextToken, TokenKinds
  <2>3. rest # <<>> /\ Next1 = Head(rest) /\ Head(rest) = rest[1]
    BY <1>1, <1>2, <2>2, NextToken DEF Next1
  <2> QED BY <1>2, <2>1, <2>2, <2>3
<1>5. d \in Nat
  BY <1>1, ListedFacts DEF Frames
<1> HIDE DEF l, c, d
<1>6. c >= 1 /\ n + c \in 0 .. Len(l) /\ Len(rest) - c = Len(l) - (n + c)
  BY <1>2, <1>3, <1>4
<1>7. rest' = SubSeq(rest, c + 1, Len(rest)) /\ node' = Command(SubSeq(rest, 1, c)) /\ parsing' = parsing
  BY DEF ParseCommand, c
<1>8. /\ rest' \in Seq(Tokens) /\ Len(rest') = Len(rest) - c
      /\ \A k \in 1 .. Len(rest) - c : rest'[k] = rest[c + k]
  BY <1>2, <1>3, <1>7, Dropped
<1>9. ReadSoFar(l, rest', n + c)
  <2>1. \A k \in 1 .. Len(rest') : rest'[k] = l[n + c + k]
    <3> SUFFICES ASSUME NEW k \in 1 .. Len(rest') PROVE rest'[k] = l[n + c + k]
      OBVIOUS
    <3>1. c + k \in 1 .. Len(rest) /\ n + (c + k) = n + c + k
      BY <1>2, <1>3, <1>8
    <3> QED BY <1>2, <1>8, <3>1
  <2> QED BY <1>2, <1>6, <1>8, <2>1 DEF ReadSoFar
<1>10. \A k \in n + 1 .. n + c : l[k] \in Words
  <2> SUFFICES ASSUME NEW k \in n + 1 .. n + c PROVE l[k] \in Words
    OBVIOUS
  <2>1. k - n \in 1 .. c /\ k - n \in 1 .. Len(rest) /\ n + (k - n) = k
    BY <1>2, <1>3
  <2>2. rest[k - n] = l[n + (k - n)] /\ rest[k - n] \in Words
    BY <1>2, <1>3, <2>1
  <2> QED BY <2>1, <2>2
<1>11. SubSeq(rest, 1, c) = SubSeq(l, n + 1, n + c)
  <2> DEFINE u == SubSeq(rest, 1, c)
             v == SubSeq(l, n + 1, n + c)
  <2>1. \A k \in 1 .. c : rest[k] \in Tokens
    BY <1>3 DEF Tokens
  <2>2. \A k \in n + 1 .. n + c : l[k] \in Tokens
    BY <1>10 DEF Tokens
  <2>3. c \in Nat /\ 1 <= c /\ n + 1 \in Int /\ n + c \in Int /\ n + 1 <= n + c /\ c - 1 + 1 = c
        /\ n + c - (n + 1) + 1 = c
    BY <1>2, <1>3, <1>6
  <2>4. u \in Seq(Tokens) /\ Len(u) = c /\ \A k \in 1 .. c : u[k] = rest[1 + k - 1]
    BY <2>1, <2>3, SubSeqProperties
  <2>5. v \in Seq(Tokens) /\ Len(v) = c /\ \A k \in 1 .. c : v[k] = l[n + 1 + k - 1]
    <3> DEFINE x == n + 1
               z == n + c
    <3>3. x \in Int /\ z \in Int /\ x <= z /\ z - x + 1 = c
      <4>1. \A a, b \in Nat : 1 <= b => /\ a + 1 \in Int /\ a + b \in Int /\ a + 1 <= a + b
                                      /\ a + b - (a + 1) + 1 = b
        OBVIOUS
      <4> QED BY <1>2, <2>3, <4>1
    <3>4. \A k \in x .. z : l[k] \in Tokens
      BY <2>2
    <3>1. x \in Int /\ z \in Int /\ x <= z /\ z - x + 1 = c /\ \A k \in x .. z : l[k] \in Tokens
      BY <3>3, <3>4
    <3> HIDE DEF x, z
    <3>2. /\ SubSeq(l, x, z) \in Seq(Tokens) /\ Len(SubSeq(l, x, z)) = c
          /\ \A k \in 1 .. c : SubSeq(l, x, z)[k] = l[x + k - 1]
      BY <3>1, SubSeqProperties
    <3> QED BY <3>2 DEF x, z
  <2> HIDE DEF u, v
  <2>6. \A k \in 1 .. c : u[k] = v[k]
    <3> SUFFICES ASSUME NEW k \in 1 .. c PROVE u[k] = v[k]
      OBVIOUS
    <3>1. 1 + k - 1 = k /\ n + 1 + k - 1 = n + k /\ k \in 1 .. Len(rest)
      BY <1>2, <1>3, <2>3
    <3> QED BY <1>2, <2>4, <2>5, <3>1
  <2>7. u = v
    BY <2>4, <2>5, <2>6, SeqEqual
  <2> QED BY <2>7 DEF u, v
<1>12. Spans(node', n + 1, n + c, l) /\ Operand(node')
  <2>1. n + 1 \in Nat /\ n + c \in Nat /\ 1 <= n + 1 /\ n + 1 <= n + c /\ n + c <= Len(l)
    BY <1>2, <1>3, <1>6
  <2> QED BY <1>7, <1>10, <1>11, <2>1, SpansCommand
<1>13. Words1(SyntaxAt(l)[n + c], d, n + c)
  <2>1. SyntaxAlong(SyntaxAt(l), l, n + c)
    BY <1>2, <1>6, SyntaxAtFacts DEF SyntaxAlong
  <2>2. c \in Nat
    BY <1>2, <1>3
  <2> QED BY <1>1, <1>2, <1>5, <1>6, <1>10, <2>1, <2>2, SynWords DEF l, d
<1>14. n + c < Len(l) => l[n + c + 1] \notin Words
  <2> SUFFICES ASSUME n + c < Len(l) PROVE l[n + c + 1] \notin Words
    OBVIOUS
  <2>1. c < Len(rest) /\ c + 1 \in 1 .. Len(rest) /\ n + (c + 1) = n + c + 1
    BY <1>2, <1>3
  <2> QED BY <1>2, <1>3, <2>1
<1> QED BY <1>1, <1>7, <1>9, <1>12, <1>13, <1>14 DEF AtParsed, l, d

LEMMA LeafOpen ==
  ASSUME OpenSubshell, AtLeaf(line.tokens, rest, parsing)
  PROVE  AtLeaf(line.tokens, rest', parsing')
<1> DEFINE l == line.tokens
           m == Len(parsing)
<1>1. PICK n, s, o : /\ ReadSoFar(l, rest, n) /\ Frames(l, parsing, s, o)
                     /\ o[m] = n + 1
                     /\ Expects(SyntaxAt(l)[n], m - 1, n)
  BY DEF AtLeaf
<1>2. Next1 = "(" /\ rest' = Tail(rest) /\ parsing' = Append(parsing, NewCall)
  BY DEF OpenSubshell
<1>3. n \in 0 .. Len(l) /\ Len(l) \in Nat /\ l \in Seq(Tokens)
  BY <1>1, LenProperties DEF ReadSoFar
<1>4. n < Len(l)
  BY <1>1, <1>2, <1>3, NextToken
<1>5. l[n + 1] = "(" /\ ReadSoFar(l, rest', n + 1)
  BY <1>1, <1>2, <1>4, NextToken
<1>6. m \in Nat /\ m >= 1 /\ Listed(parsing)
  BY <1>1, ListedFacts DEF Frames
<1>7. Len(parsing') = m + 1
  BY <1>2, <1>6, ListedAppend
<1> HIDE DEF l, m
<1>8. PICK s2, o2 : Frames(l, parsing', s2, o2) /\ o2[m + 1] = o[m] + 1
  BY <1>1, <1>2, <1>5, FramesOpened DEF m
<1>9. Expects(SyntaxAt(l)[n + 1], m - 1 + 1, n + 1)
  <2>1. SyntaxAt(l)[n + 1] = SyntaxStep(SyntaxAt(l)[n], l[n + 1])
    BY <1>3, <1>4, SyntaxGoes
  <2>2. m - 1 \in Nat /\ n \in Nat
    BY <1>3, <1>6
  <2> QED BY <1>1, <1>5, <2>1, <2>2, SynOpen
<1>10. Len(parsing') - 1 = m - 1 + 1 /\ o2[Len(parsing')] = n + 1 + 1
  BY <1>1, <1>6, <1>7, <1>8
<1>11. Expects(SyntaxAt(l)[n + 1], Len(parsing') - 1, n + 1)
  BY <1>9, <1>10
<1>12. AtLeaf(l, rest', parsing')
  BY <1>5, <1>8, <1>10, <1>11 DEF AtLeaf
<1> QED BY <1>12 DEF l

(* The operand that was parsed and what is on its left.                      *)
LEMMA JoinedSpans ==
  ASSUME NEW l, NEW s, NEW o, Frames(l, parsing, s, o), NEW n, Spans(node, o[Len(parsing)], n, l),
         Operand(node)
  PROVE  Spans(Joined, s[Len(parsing)], n, l)
<1> DEFINE m == Len(parsing)
<1>1. /\ m \in Nat /\ m >= 1 /\ Last(parsing) = parsing[m]
  BY ListedFacts DEF Frames
<1>2. FrameAt(l, parsing[m], s[m], o[m])
  BY <1>1 DEF Frames
<1>3. Joined = IF parsing[m].op = "" THEN node ELSE Binary(parsing[m].op, parsing[m].lhs, node)
  BY <1>1 DEF Joined
<1> QED BY <1>2, <1>3, SpansJoined

LEMMA ParsedOperator ==
  ASSUME ParseOperator, AtParsed(line.tokens, rest, parsing, node)
  PROVE  AtLeaf(line.tokens, rest', parsing')
<1> DEFINE l == line.tokens
           m == Len(parsing)
           y == SyntaxAt(l)
           fr == [lhs |-> Joined, op |-> Next1]
<1>1. PICK n, s, o : /\ ReadSoFar(l, rest, n) /\ Frames(l, parsing, s, o)
                     /\ Spans(node, o[m], n, l) /\ Operand(node)
                     /\ Closed(y[n], m - 1, n) \/ Words1(y[n], m - 1, n)
  BY DEF AtParsed
<1>2. Next1 \in Operators /\ rest' = Tail(rest) /\ parsing' = Append(Front(parsing), fr)
  BY DEF ParseOperator
<1>3. n \in 0 .. Len(l) /\ Len(l) \in Nat /\ l \in Seq(Tokens)
  BY <1>1, LenProperties DEF ReadSoFar
<1>4. n < Len(l)
  <2>1. Next1 # "EOF"
    BY <1>2, TokenKinds
  <2>2. n # Len(l)
    BY <1>1, <2>1, NextToken
  <2> QED BY <1>3, <2>2
<1>5. l[n + 1] = Next1 /\ ReadSoFar(l, rest', n + 1)
  BY <1>1, <1>2, <1>4, NextToken
<1>6. m \in Nat /\ m >= 1 /\ Listed(parsing) /\ parsing # <<>>
  BY <1>1, ListedFacts DEF Frames
<1>7. Spans(fr.lhs, s[m], n, l) /\ fr.op = Next1
  BY <1>1, JoinedSpans
<1> HIDE DEF l, m, y, fr
<1>8. Len(parsing') = m
  <2>1. Listed(Front(parsing)) /\ Len(Front(parsing)) = m - 1
    BY <1>6, ListedFront DEF m
  <2>2. Len(parsing') = m - 1 + 1
    BY <1>2, <2>1, ListedAppend
  <2> QED BY <1>6, <2>2
<1>9. FrameAt(l, fr, s[m], n + 2)
  <2>1. n \in Nat /\ fr.op \in Operators /\ l[n + 1] = fr.op
    BY <1>2, <1>3, <1>5, <1>7
  <2> QED BY <1>7, <2>1, FrameOperator
<1>10. PICK o2 : Frames(l, parsing', s, o2) /\ o2[m] = n + 2
  BY <1>1, <1>2, <1>9, FramesReplaced DEF m
<1>11. Expects(y[n + 1], m - 1, n + 1)
  <2>1. y[n + 1] = SyntaxStep(y[n], l[n + 1])
    BY <1>3, <1>4, SyntaxGoes DEF y
  <2>2. m - 1 \in Nat /\ n \in Nat
    BY <1>3, <1>6
  <2> QED BY <1>1, <1>2, <1>5, <2>1, <2>2, SynOperator
<1>12. n + 2 = n + 1 + 1
  BY <1>3
<1> QED BY <1>5, <1>8, <1>10, <1>11, <1>12 DEF AtLeaf, l, y

LEMMA ParsedClose ==
  ASSUME CloseSubshell, AtParsed(line.tokens, rest, parsing, node)
  PROVE  AtParsed(line.tokens, rest', parsing', node')
<1> DEFINE l == line.tokens
           m == Len(parsing)
           y == SyntaxAt(l)
<1>1. PICK n, s, o : /\ ReadSoFar(l, rest, n) /\ Frames(l, parsing, s, o)
                     /\ Spans(node, o[m], n, l) /\ Operand(node)
                     /\ Closed(y[n], m - 1, n) \/ Words1(y[n], m - 1, n)
  BY DEF AtParsed
<1>2. /\ m > 1 /\ Next1 = ")" /\ rest' = Tail(rest) /\ parsing' = Front(parsing)
      /\ node' = Subshell(Joined)
  BY DEF CloseSubshell
<1>3. n \in 0 .. Len(l) /\ Len(l) \in Nat /\ l \in Seq(Tokens)
  BY <1>1, LenProperties DEF ReadSoFar
<1>4. n < Len(l)
  BY <1>1, <1>2, <1>3, NextToken
<1>5. l[n + 1] = ")" /\ ReadSoFar(l, rest', n + 1)
  BY <1>1, <1>2, <1>4, NextToken
<1>6. m \in Nat
  BY <1>1, ListedFacts DEF Frames
<1>7. Spans(Joined, s[m], n, l)
  BY <1>1, JoinedSpans
<1>8. /\ Frames(l, parsing', s, o) /\ Len(parsing') = m - 1
      /\ l[o[m - 1]] = "(" /\ s[m] = o[m - 1] + 1
  BY <1>1, <1>2, FramesClosed
<1> HIDE DEF l, m, y
<1>9. Spans(node', o[m - 1], n + 1, l) /\ Operand(node')
  <2>1. FrameAt(l, parsing'[m - 1], s[m - 1], o[m - 1])
    <3>1. m - 1 \in 1 .. Len(parsing')
      BY <1>2, <1>6, <1>8
    <3> QED BY <1>8, <3>1 DEF Frames
  <2>2. o[m - 1] \in Nat /\ 1 <= o[m - 1]
    BY <2>1, FrameBounds
  <2>3. s[m] \in Nat /\ s[m] <= n
    BY <1>7, SpansUnfold
  <2>4. n + 1 \in Nat /\ o[m - 1] <= n + 1 /\ n + 1 <= Len(l) /\ n + 1 - 1 = n
    BY <1>3, <1>4, <1>8, <2>2, <2>3
  <2> DEFINE i == o[m - 1]
             j == n + 1
  <2>8. i \in Nat /\ j \in Nat /\ 1 <= i /\ i <= j /\ j <= Len(l)
    BY <2>2, <2>4
  <2>9. l[i] = "(" /\ l[j] = ")"
    BY <1>5, <1>8
  <2>11. i + 1 = s[m] /\ j - 1 = n
    BY <1>3, <1>8
  <2> HIDE DEF i, j
  <2>10. Spans(Joined, i + 1, j - 1, l)
    BY <1>7, <2>11
  <2>6. i \in Nat /\ j \in Nat /\ 1 <= i /\ i <= j /\ j <= Len(l) /\ l[i] = "(" /\ l[j] = ")"
        /\ Spans(Joined, i + 1, j - 1, l)
    BY <2>8, <2>9, <2>10
  <2>7. Spans(Subshell(Joined), i, j, l) /\ Operand(Subshell(Joined))
    BY <2>6, SpansSubshell
  <2> QED BY <1>2, <2>7 DEF i, j
<1>10. Closed(y[n + 1], m - 1 - 1, n + 1)
  <2>1. y[n + 1] = SyntaxStep(y[n], l[n + 1])
    BY <1>3, <1>4, SyntaxGoes DEF y
  <2>2. m - 1 \in Nat /\ n \in Nat /\ m - 1 > 0
    BY <1>2, <1>3, <1>6
  <2> QED BY <1>1, <1>5, <2>1, <2>2, SynClose
<1> QED BY <1>5, <1>8, <1>9, <1>10 DEF AtParsed, l, y

LEMMA LeafError ==
  ASSUME NoCommand, AtLeaf(line.tokens, rest, parsing)
  PROVE  ~ IsList(line.tokens)
<1> DEFINE l == line.tokens
           d == Len(parsing) - 1
<1>1. PICK n, s, o : /\ ReadSoFar(l, rest, n) /\ Frames(l, parsing, s, o)
                     /\ Expects(SyntaxAt(l)[n], d, n)
  BY DEF AtLeaf
<1>2. n \in 0 .. Len(l) /\ l \in Seq(Tokens)
  BY <1>1 DEF ReadSoFar
<1>3. d \in Nat
  BY <1>1, ListedFacts DEF Frames
<1>4. n < Len(l) => l[n + 1] \notin Words \cup {"("}
  BY <1>1, NextToken DEF NoCommand
<1> HIDE DEF l, d
<1> QED BY <1>1, <1>2, <1>3, <1>4, NoOperand DEF l

LEMMA ParsedDone ==
  ASSUME MissingClose \/ RootParsed, AtParsed(line.tokens, rest, parsing, node)
  PROVE  /\ MissingClose => ~ IsList(line.tokens)
         /\ RootParsed => /\ IsList(line.tokens)
                          /\ Spans(node', 1, Syntax(line.tokens).used, line.tokens)
<1> DEFINE l == line.tokens
           d == Len(parsing) - 1
           y == SyntaxAt(l)
<1>1. PICK n, s, o : /\ ReadSoFar(l, rest, n) /\ Frames(l, parsing, s, o)
                     /\ Spans(node, o[Len(parsing)], n, l) /\ Operand(node)
                     /\ \/ Closed(y[n], d, n)
                        \/ Words1(y[n], d, n) /\ (n < Len(l) => l[n + 1] \notin Words)
  BY DEF AtParsed
<1>2. n \in 0 .. Len(l) /\ l \in Seq(Tokens)
  BY <1>1 DEF ReadSoFar
<1>3. d \in Nat /\ Len(parsing) \in Nat
  BY <1>1, ListedFacts DEF Frames
<1>4. /\ Next1 \notin Operators
      /\ MissingClose => d # 0 /\ Next1 # ")"
      /\ RootParsed => d = 0
  <2>1. MissingClose => d > 0 /\ Next1 # ")" /\ Next1 \notin Operators
    BY <1>3 DEF MissingClose
  <2>2. RootParsed => d = 0 /\ Next1 \notin Operators
    BY <1>3 DEF RootParsed
  <2>3. d > 0 => d # 0
    <3>1. \A x \in Nat : x > 0 => x # 0
      OBVIOUS
    <3> QED BY <1>3, <3>1
  <2> HIDE DEF d
  <2> QED BY <2>1, <2>2, <2>3
<1>11. RootParsed => node' = Joined /\ Len(parsing) = 1
  BY DEF RootParsed
<1>5. n < Len(l) => Next1 = l[n + 1]
  BY <1>1, NextToken
<1>6. Spans(Joined, s[Len(parsing)], n, l)
  BY <1>1, JoinedSpans
<1>7. s[1] = 1
  BY <1>1 DEF Frames
<1> HIDE DEF l, d, y
<1>8. Closed(y[n], d, n) \/ Words1(y[n], d, n)
  BY <1>1
<1>9. n < Len(l) => /\ l[n + 1] \notin Operators
                    /\ l[n + 1] \notin Words \/ Closed(y[n], d, n)
                    /\ l[n + 1] # ")" \/ d = 0
  BY <1>1, <1>4, <1>5
<1>10. IF d = 0 THEN IsList(l) /\ Syntax(l).used = n ELSE ~ IsList(l)
  BY <1>2, <1>3, <1>8, <1>9, AfterOperand DEF y
<1> QED BY <1>4, <1>6, <1>7, <1>10, <1>11 DEF l

-----------------------------------------------------------------------------
(* The evaluator: each active call of process_eval_node waits for a node     *)
(* that ends at token a, and is itself done at token b.                      *)
CallAt(l, c, a, b) ==
  /\ a < b
  /\ c.op \in Operators => l[a + 1] = c.op /\ Spans(c.rhs, a + 2, b, l) /\ Operand(c.rhs)
  /\ c.op = "subshell" => l[a + 1] = ")" /\ b = a + 1

Calls(l, cs, e, u) ==
  /\ Listed(cs)
  /\ e[1] = u
  /\ \A k \in 1 .. Len(cs) + 1 : e[k] \in 0 .. u
  /\ \A k \in 1 .. Len(cs) : CallAt(l, cs[k], e[k + 1], e[k])

(* A state of the run agrees with the processes: one for each parenthesis    *)
(* that is open, in the directory that its end gives back.                   *)
Matches(x, ps, rn) ==
  /\ RunState(x)
  /\ Listed(ps) /\ ps # <<>>
  /\ Len(x.open) = Len(ps) - 1
  /\ \A k \in 1 .. Len(ps) - 1 : x.open[k].skip = FALSE /\ x.open[k].cwd = ps[k].cwd
  /\ x.cwd = ps[Len(ps)].cwd
  /\ x.ran = rn

Ready(x, ps, rn) == Matches(x, ps, rn) /\ x.words = <<>> /\ x.skip = FALSE

Evaluates(l, r, nd, cs, ps, rn) ==
  \E e, i : /\ Calls(l, cs, e, Syntax(l).used)
            /\ Spans(nd, i, e[Len(cs) + 1], l)
            /\ Ready(r[i - 1], ps, rn)

Returned(l, r, cs, ps, rn, st) ==
  \E e : /\ Calls(l, cs, e, Syntax(l).used)
         /\ RunState(r[e[Len(cs) + 1]])
         /\ Matches(Run(r[e[Len(cs) + 1]]), ps, rn)
         /\ Run(r[e[Len(cs) + 1]]).status = st

LEMMA AppendItems ==
  ASSUME NEW s, Listed(s), NEW e, NEW n, Len(s) = n
  PROVE  /\ Listed(Append(s, e)) /\ Append(s, e) # <<>> /\ Len(Append(s, e)) = n + 1
         /\ Append(s, e)[n + 1] = e /\ n \in Nat
         /\ \A k \in 1 .. n : Append(s, e)[k] = s[k]
BY ListedAppend, ListedFacts

LEMMA FrontItems ==
  ASSUME NEW s, Listed(s), s # <<>>, NEW n, Len(s) = n
  PROVE  /\ n \in Nat /\ n >= 1 /\ Last(s) = s[n]
         /\ Listed(Front(s)) /\ Len(Front(s)) = n - 1
         /\ \A k \in 1 .. n - 1 : Front(s)[k] = s[k]
<1> DEFINE d == Front(s)
<1>1. n \in Nat /\ n >= 1 /\ DOMAIN s = 1 .. n /\ Last(s) = s[n]
  BY ListedFacts
<1>2. Listed(d) /\ Len(d) = n - 1 /\ DOMAIN d = DOMAIN s \ {n} /\ \A k \in DOMAIN d : d[k] = s[k]
  BY ListedFront
<1>3. (1 .. n) \ {n} = 1 .. n - 1
  BY <1>1
<1> QED BY <1>1, <1>2, <1>3

LEMMA CallsPush ==
  ASSUME NEW l, NEW cs, NEW e, NEW u \in Nat, Calls(l, cs, e, u), NEW c, NEW a \in Nat,
         CallAt(l, c, a, e[Len(cs) + 1])
  PROVE  \E e2 : Calls(l, Append(cs, c), e2, u) /\ e2[Len(Append(cs, c)) + 1] = a
<1> DEFINE m == Len(cs) + 1
           e2 == [k \in Nat |-> IF k = m + 1 THEN a ELSE e[k]]
           d == Append(cs, c)
<1>1. m \in Nat /\ m >= 1 /\ DOMAIN cs = 1 .. m - 1 /\ Len(cs) = m - 1
  <2>1. Len(cs) \in Nat /\ DOMAIN cs = 1 .. Len(cs)
    BY ListedFacts DEF Calls
  <2> QED BY <2>1
<1>2. Listed(d) /\ Len(d) = m /\ d[m] = c /\ \A k \in 1 .. m - 1 : d[k] = cs[k]
  BY <1>1, ListedAppend DEF Calls
<1>3. e2[m + 1] = a /\ \A k \in 1 .. m : e2[k] = e[k]
  <2>1. \A x \in Nat : x + 1 \in Nat /\ \A k \in 1 .. x : k \in Nat /\ k # x + 1
    OBVIOUS
  <2>2. m + 1 \in Nat /\ \A k \in 1 .. m : k \in Nat /\ k # m + 1
    BY <1>1, <2>1
  <2> QED BY <2>2
<1>4. CallAt(l, c, a, e[m])
  OBVIOUS
<1>5. e[1] = u /\ (\A k \in 1 .. m : e[k] \in 0 .. u) /\ \A k \in 1 .. m - 1 : CallAt(l, cs[k], e[k + 1], e[k])
  BY <1>1 DEF Calls
<1> HIDE DEF m, e2, d
<1>6. 1 .. m + 1 = (1 .. m) \cup {m + 1} /\ 1 .. m = (1 .. m - 1) \cup {m} /\ 1 \in 1 .. m
      /\ m \in 1 .. m /\ \A k \in 1 .. m - 1 : k + 1 \in 1 .. m /\ k \in 1 .. m
  BY <1>1
<1>7. a \in 0 .. u
  <2>1. a < e[m] /\ e[m] \in 0 .. u
    BY <1>4, <1>5, <1>6 DEF CallAt
  <2> QED BY <2>1
<1>8. \A k \in 1 .. m + 1 : e2[k] \in 0 .. u
  BY <1>3, <1>5, <1>6, <1>7
<1>9. \A k \in 1 .. m : CallAt(l, d[k], e2[k + 1], e2[k])
  <2> SUFFICES ASSUME NEW k \in 1 .. m PROVE CallAt(l, d[k], e2[k + 1], e2[k])
    OBVIOUS
  <2>1. CASE k = m
    BY <1>2, <1>3, <1>4, <1>6, <2>1
  <2>2. CASE k # m
    <3>1. k \in 1 .. m - 1
      BY <1>6, <2>2
    <3>2. e2[k + 1] = e[k + 1] /\ e2[k] = e[k] /\ d[k] = cs[k]
      BY <1>2, <1>3, <1>6, <3>1
    <3> QED BY <1>5, <3>1, <3>2
  <2> QED BY <2>1, <2>2
<1>10. e2[1] = u
  BY <1>3, <1>5, <1>6
<1>11. Calls(l, d, e2, u) /\ e2[Len(d) + 1] = a
  BY <1>2, <1>3, <1>8, <1>9, <1>10 DEF Calls
<1> QED BY <1>11 DEF d

LEMMA CallsPop ==
  ASSUME NEW l, NEW cs, NEW e, NEW u \in Nat, Calls(l, cs, e, u), cs # <<>>
  PROVE  /\ Calls(l, Front(cs), e, u) /\ Len(Front(cs)) + 1 = Len(cs)
         /\ CallAt(l, Last(cs), e[Len(cs) + 1], e[Len(cs)])
         /\ e[Len(cs)] \in 0 .. u /\ e[Len(cs) + 1] \in 0 .. u
<1> DEFINE m == Len(cs)
           d == Front(cs)
<1>1. m \in Nat /\ m >= 1 /\ DOMAIN cs = 1 .. m /\ Last(cs) = cs[m]
  BY ListedFacts DEF Calls
<1>2. Listed(d) /\ Len(d) = m - 1 /\ \A k \in 1 .. m - 1 : d[k] = cs[k]
  BY FrontItems DEF Calls
<1>3. /\ e[1] = u /\ \A k \in 1 .. m + 1 : e[k] \in 0 .. u
      /\ \A k \in 1 .. m : CallAt(l, cs[k], e[k + 1], e[k])
  BY DEF Calls
<1> HIDE DEF m, d
<1>4. m - 1 + 1 = m /\ m \in 1 .. m /\ m \in 1 .. m + 1 /\ m + 1 \in 1 .. m + 1
      /\ (\A k \in 1 .. m : k \in 1 .. m + 1) /\ \A k \in 1 .. m - 1 : k \in 1 .. m
  BY <1>1
<1>5. Calls(l, d, e, u)
  BY <1>2, <1>3, <1>4 DEF Calls
<1> QED BY <1>1, <1>2, <1>3, <1>4, <1>5 DEF m, d

-----------------------------------------------------------------------------
(* Runs that agree with the processes.                                       *)
LEMMA MatchesSame ==
  ASSUME NEW x, NEW y, NEW ps, NEW rn, Matches(x, ps, rn), RunState(y), SameRun(y, x),
         y.open = x.open
  PROVE  Matches(y, ps, rn)
BY DEF Matches, SameRun

LEMMA NotEnclosing ==
  ASSUME NEW x, NEW ps, NEW rn, Matches(x, ps, rn), NEW y, y.open = x.open
  PROVE  ~ Enclosing(y)
<1>1. Listed(x.open) /\ Len(x.open) = Len(ps) - 1 /\ Len(ps) \in Nat
  BY ListedFacts DEF Matches, RunState
<1>2. CASE x.open = <<>>
  BY <1>2 DEF Enclosing
<1>3. CASE x.open # <<>>
  <2>1. Len(x.open) >= 1 /\ Last(x.open) = x.open[Len(x.open)]
    BY <1>1, <1>3, ListedFacts
  <2>2. Len(ps) - 1 \in 1 .. Len(ps) - 1
    BY <1>1, <2>1
  <2>3. Last(x.open).skip = FALSE
    BY <1>1, <2>1, <2>2 DEF Matches
  <2> QED BY <2>3 DEF Enclosing
<1> QED BY <1>2, <1>3

LEMMA MatchesOpen ==
  ASSUME NEW x, NEW ps, NEW rn, Matches(x, ps, rn), NEW p, p.cwd = x.cwd,
         NEW y, RunState(y), SameRun(y, x), y.open = Append(x.open, [skip |-> FALSE, cwd |-> x.cwd])
  PROVE  Matches(y, Append(ps, p), rn)
<1> DEFINE n == Len(ps)
           qs == Append(ps, p)
           t == [skip |-> FALSE, cwd |-> x.cwd]
<1>0. y.open = Append(x.open, t) /\ t.skip = FALSE /\ t.cwd = x.cwd
  OBVIOUS
<1>1. n \in Nat /\ n >= 1 /\ Listed(ps) /\ ps # <<>> /\ Listed(x.open) /\ Len(x.open) = n - 1
      /\ DOMAIN ps = 1 .. n
  BY ListedFacts DEF Matches, RunState
<1>2. Listed(qs) /\ qs # <<>> /\ Len(qs) = n + 1 /\ qs[n + 1] = p /\ \A k \in 1 .. n : qs[k] = ps[k]
  <2>1. Listed(ps) /\ Len(ps) = n
    BY <1>1
  <2> HIDE DEF n
  <2> QED BY <2>1, AppendItems
<1> HIDE DEF t
<1>3. Len(y.open) = n - 1 + 1 /\ y.open[n - 1 + 1] = t /\ \A k \in 1 .. n - 1 : y.open[k] = x.open[k]
  <2> DEFINE xo == x.open
             m == n - 1
  <2>1. Listed(xo) /\ Len(xo) = m
    BY <1>1
  <2> HIDE DEF xo, m
  <2>2. Len(Append(xo, t)) = m + 1 /\ Append(xo, t)[m + 1] = t /\ \A k \in 1 .. m : Append(xo, t)[k] = xo[k]
    BY <2>1, AppendItems
  <2> QED BY <1>0, <2>2 DEF xo, m
<1>4. /\ \A k \in 1 .. n - 1 : x.open[k].skip = FALSE /\ x.open[k].cwd = ps[k].cwd
      /\ x.cwd = ps[n].cwd /\ x.ran = rn
  BY DEF Matches
<1> HIDE DEF n, qs
<1>5. n - 1 + 1 = n /\ n + 1 - 1 = n /\ 1 .. n = (1 .. n - 1) \cup {n} /\ n \in 1 .. n
  BY <1>1
<1>6. \A k \in 1 .. n : y.open[k].skip = FALSE /\ y.open[k].cwd = qs[k].cwd
  <2> SUFFICES ASSUME NEW k \in 1 .. n PROVE y.open[k].skip = FALSE /\ y.open[k].cwd = qs[k].cwd
    OBVIOUS
  <2>1. CASE k = n
    BY <1>0, <1>2, <1>3, <1>4, <1>5, <2>1
  <2>2. CASE k # n
    BY <1>2, <1>3, <1>4, <1>5, <2>2
  <2> QED BY <2>1, <2>2
<1>7. y.cwd = qs[n + 1].cwd /\ y.ran = rn
  BY <1>2, <1>4 DEF SameRun
<1>8. Matches(y, qs, rn)
  BY <1>2, <1>3, <1>5, <1>6, <1>7 DEF Matches
<1> QED BY <1>8 DEF qs

LEMMA MatchesClose ==
  ASSUME NEW x, NEW ps, NEW rn, Matches(x, ps, rn), Len(ps) > 1,
         NEW y, RunState(y), y.ran = x.ran, y.open = Front(x.open), y.cwd = Last(x.open).cwd
  PROVE  Matches(y, Front(ps), rn) /\ x.open # <<>> /\ Last(x.open).skip = FALSE
<1> DEFINE n == Len(ps)
           qs == Front(ps)
<1>1. n \in Nat /\ n > 1 /\ Listed(ps) /\ ps # <<>> /\ Listed(x.open) /\ Len(x.open) = n - 1
      /\ DOMAIN ps = 1 .. n
  BY ListedFacts DEF Matches, RunState
<1> DEFINE xo == x.open
           m == n - 1
<1>11. Listed(xo) /\ Len(xo) = m /\ y.open = Front(xo)
  BY <1>1
<1>12. xo # <<>>
  <2>1. Len(xo) # 0
    <3>1. \A a, b \in Nat : a > 1 /\ b = a - 1 => b # 0
      OBVIOUS
    <3>2. n \in Nat /\ n > 1 /\ Len(xo) = n - 1 /\ Len(xo) \in Nat
      BY <1>1, <1>11, ListedFacts
    <3> HIDE DEF n, xo
    <3> QED BY <3>1, <3>2
  <2> QED BY <2>1, EmptySeq
<1>2. x.open # <<>> /\ Last(x.open) = x.open[n - 1]
  <2> HIDE DEF xo, m
  <2>1. Last(xo) = xo[m]
    BY <1>11, <1>12, FrontItems
  <2> QED BY <1>12, <2>1 DEF xo, m
<1>3. Listed(qs) /\ Len(qs) = n - 1 /\ \A k \in 1 .. n - 1 : qs[k] = ps[k]
  BY <1>1, FrontItems
<1>4. Len(y.open) = n - 1 - 1 /\ \A k \in 1 .. n - 1 - 1 : y.open[k] = x.open[k]
  <2> HIDE DEF xo, m
  <2>1. Len(Front(xo)) = m - 1 /\ \A k \in 1 .. m - 1 : Front(xo)[k] = xo[k]
    BY <1>11, <1>12, FrontItems
  <2> QED BY <1>11, <2>1 DEF xo, m
<1>5. /\ \A k \in 1 .. n - 1 : x.open[k].skip = FALSE /\ x.open[k].cwd = ps[k].cwd
      /\ x.ran = rn
  BY DEF Matches
<1> HIDE DEF n, qs
<1>6. n - 1 \in 1 .. n - 1 /\ \A k \in 1 .. n - 1 - 1 : k \in 1 .. n - 1
  BY <1>1
<1>7. qs # <<>>
  BY <1>1, <1>3, EmptySeq
<1>8. y.cwd = qs[n - 1].cwd
  BY <1>2, <1>3, <1>5, <1>6
<1>9. \A k \in 1 .. n - 1 - 1 : y.open[k].skip = FALSE /\ y.open[k].cwd = qs[k].cwd
  BY <1>3, <1>4, <1>5, <1>6
<1>10. Matches(y, qs, rn)
  BY <1>3, <1>4, <1>5, <1>7, <1>8, <1>9 DEF Matches
<1> QED BY <1>2, <1>5, <1>6, <1>10 DEF qs

LEMMA MatchesInvoke ==
  ASSUME NEW x, NEW ps, NEW rn, Matches(x, ps, rn), NEW p, NEW c,
         NEW y, RunState(y), y.open = x.open, y.cwd = p.cwd, y.ran = Append(rn, c)
  PROVE  Matches(y, Append(Front(ps), p), Append(rn, c))
<1> DEFINE n == Len(ps)
           f == Front(ps)
           qs == Append(f, p)
<1>1. n \in Nat /\ n >= 1 /\ Listed(ps) /\ ps # <<>> /\ DOMAIN ps = 1 .. n
  BY ListedFacts DEF Matches
<1>2. Listed(f) /\ Len(f) = n - 1 /\ \A k \in 1 .. n - 1 : f[k] = ps[k]
  BY <1>1, FrontItems
<1> HIDE DEF f
<1>3. n - 1 + 1 = n
  BY <1>1
<1>4. Listed(qs) /\ qs # <<>> /\ Len(qs) = n /\ qs[n] = p /\ \A k \in 1 .. n - 1 : qs[k] = ps[k]
  BY <1>2, <1>3, AppendItems
<1> HIDE DEF qs
<1>5. Matches(y, qs, Append(rn, c))
  BY <1>4 DEF Matches
<1> QED BY <1>5 DEF qs, f

(* A line and a run along what is used of it.                                *)
RunsOver(r, l) ==
  l \in Seq(Tokens) /\ Syntax(l).used \in 0 .. Len(l) /\ Follows(r, l, Syntax(l).used)

LEMMA RunAfter ==
  ASSUME NEW r, NEW l, RunsOver(r, l), NEW n \in Nat, n < Syntax(l).used
  PROVE  r[n + 1] = RunStep(r[n], l[n + 1])
<1> DEFINE u == Syntax(l).used
           k == n + 1
<1>1. Len(l) \in Nat /\ u \in 0 .. Len(l)
  BY LenProperties DEF RunsOver
<1>2. \A j \in 1 .. u : r[j] = RunStep(r[j - 1], l[j])
  BY DEF RunsOver, Follows
<1>3. k \in 1 .. u /\ k - 1 = n
  BY <1>1
<1> HIDE DEF k, u
<1>4. r[k] = RunStep(r[n], l[k])
  BY <1>2, <1>3
<1> QED BY <1>4 DEF k

LEMMA EvalInvokes ==
  ASSUME NEW r, NEW l, RunsOver(r, l), Invoke, Evaluates(l, r, node, calls, procs, ran)
  PROVE  Returned(l, r, calls', procs', ran', status')
<1> DEFINE m == Len(calls) + 1
           u == Syntax(l).used
           args == node.args
           p == [cwd |-> DirAfter(Proc.cwd, args), did_exit |-> args[1] = "exit"]
           c == [args |-> args, cwd |-> Proc.cwd, depth |-> Len(procs)]
<1>1. PICK e, i : /\ Calls(l, calls, e, u) /\ Spans(node, i, e[m], l)
                  /\ Ready(r[i - 1], procs, ran)
  BY DEF Evaluates
<1>2. /\ node.type = "command" /\ procs' = Append(Front(procs), p) /\ ran' = Append(ran, c)
      /\ status' = Status(Proc.cwd, args) /\ calls' = calls
  BY DEF Invoke
<1> DEFINE j == e[m]
           x == r[i - 1]
           y == r[j]
<1>3. u \in Nat /\ u <= Len(l) /\ Len(l) \in Nat /\ l \in Seq(Tokens)
  BY LenProperties DEF RunsOver
<1>4. j \in 0 .. u
  <2>1. Len(calls) + 1 \in 1 .. Len(calls) + 1
    <3>1. Len(calls) \in Nat
      BY <1>1, ListedFacts DEF Calls
    <3> QED BY <3>1
  <2> QED BY <1>1, <2>1 DEF Calls
<1>5. args = SubSeq(l, i, j) /\ \A k \in i .. j : l[k] \in Words
  BY <1>1, <1>2, SpansCases
<1>6. i \in Nat /\ 1 <= i /\ i <= j
  BY <1>1, SpansUnfold
<1>7. Follows(r, l, j)
  BY <1>3, <1>4 DEF RunsOver, Follows
<1> HIDE DEF u, j, m, args, p, c
<1>8. i \in 1 .. Len(l) /\ j \in i .. Len(l)
  BY <1>3, <1>4, <1>6
<1>9. RunState(x) /\ x.words = <<>> /\ x.skip = FALSE /\ Matches(x, procs, ran)
  BY <1>1 DEF Ready, Matches
<1>10. /\ RunState(y) /\ SameRun(y, x) /\ y.skip = FALSE /\ y.open = x.open
       /\ y.words = args /\ args # <<>>
  BY <1>3, <1>5, <1>7, <1>8, <1>9, WordsRead, SubSeqAppend
<1> HIDE DEF x, y
<1>11. /\ RunState(Run(y)) /\ Run(y).open = x.open
       /\ Run(y).status = Status(x.cwd, args) /\ Run(y).cwd = DirAfter(x.cwd, args)
       /\ Run(y).ran = Append(x.ran, [args |-> args, cwd |-> x.cwd, depth |-> Len(x.open) + 1])
  BY <1>10, RunDone DEF SameRun
<1>12. Proc.cwd = x.cwd /\ ran = x.ran /\ Len(x.open) + 1 = Len(procs)
  <2>1. Last(procs) = procs[Len(procs)] /\ Len(procs) \in Nat
    BY <1>9, ListedFacts DEF Matches
  <2> QED BY <1>9, <2>1 DEF Matches, Proc
<1>13. Run(y).cwd = p.cwd /\ Run(y).ran = Append(ran, c)
  BY <1>11, <1>12 DEF p, c
<1>14. Matches(Run(y), procs', ran')
  BY <1>2, <1>9, <1>11, <1>13, MatchesInvoke
<1>15. Run(y).status = status'
  BY <1>2, <1>11, <1>12
<1> QED BY <1>1, <1>2, <1>10, <1>14, <1>15 DEF Returned, y, j, m, u

LEMMA EvalGoesLeft ==
  ASSUME NEW r, NEW l, RunsOver(r, l), EvalLeft, Evaluates(l, r, node, calls, procs, ran)
  PROVE  Evaluates(l, r, node', calls', procs', ran')
<1> DEFINE m == Len(calls) + 1
           u == Syntax(l).used
           c == [op |-> node.type, rhs |-> node.rhs]
<1>1. PICK e, i : /\ Calls(l, calls, e, u) /\ Spans(node, i, e[m], l)
                  /\ Ready(r[i - 1], procs, ran)
  BY DEF Evaluates
<1>2. /\ node.type \in Operators /\ calls' = Append(calls, c) /\ node' = node.lhs
      /\ procs' = procs /\ ran' = ran
  BY DEF EvalLeft
<1>3. PICK k \in i + 1 .. e[m] - 1 : /\ l[k] = node.type
                                     /\ Spans(node.lhs, i, k - 1, l)
                                     /\ Spans(node.rhs, k + 1, e[m], l)
                                     /\ Operand(node.rhs)
  BY <1>1, <1>2, SpansCases
<1>4. i \in Nat /\ e[m] \in Nat /\ 1 <= i
  BY <1>1, SpansUnfold
<1> DEFINE a == k - 1
           b == e[m]
<1>5. a \in Nat /\ a < b /\ a + 1 = k /\ a + 2 = k + 1
  BY <1>3, <1>4
<1>6. c.op = node.type /\ c.rhs = node.rhs /\ c.op # "subshell"
  BY <1>2, TokenKinds
<1>7. l[a + 1] = c.op /\ Spans(c.rhs, a + 2, b, l) /\ Operand(c.rhs) /\ Spans(node', i, a, l)
  BY <1>2, <1>3, <1>5, <1>6
<1>8. u \in Nat
  BY LenProperties DEF RunsOver
<1> HIDE DEF a, b, c, m, u
<1>9. CallAt(l, c, a, b)
  BY <1>5, <1>6, <1>7 DEF CallAt
<1>10. PICK e2 : Calls(l, calls', e2, u) /\ e2[Len(calls') + 1] = a
  BY <1>1, <1>2, <1>5, <1>8, <1>9, CallsPush DEF b, m
<1>11. Ready(r[i - 1], procs', ran')
  BY <1>1, <1>2
<1> QED BY <1>7, <1>10, <1>11 DEF Evaluates, u

LEMMA EvalEnters ==
  ASSUME NEW r, NEW l, RunsOver(r, l), EnterSubshell, Evaluates(l, r, node, calls, procs, ran)
  PROVE  Evaluates(l, r, node', calls', procs', ran')
<1> DEFINE m == Len(calls) + 1
           u == Syntax(l).used
           c == [op |-> "subshell", rhs |-> Nop]
<1>1. PICK e, i : /\ Calls(l, calls, e, u) /\ Spans(node, i, e[m], l)
                  /\ Ready(r[i - 1], procs, ran)
  BY DEF Evaluates
<1>2. PICK g : procs' = Append(procs, [cwd |-> Proc.cwd, did_exit |-> g])
  BY DEF EnterSubshell
<1>3. /\ node.type = "subshell" /\ calls' = Append(calls, c) /\ node' = node.arg /\ ran' = ran
  BY DEF EnterSubshell
<1> DEFINE b == e[m]
           a == b - 1
           p == [cwd |-> Proc.cwd, did_exit |-> g]
           x == r[i - 1]
           y == r[i]
<1>4. l[i] = "(" /\ l[b] = ")" /\ Spans(node.arg, i + 1, a, l)
  BY <1>1, <1>3, SpansCases
<1>5. i \in Nat /\ b \in Nat /\ 1 <= i /\ i <= b /\ b <= Len(l) /\ i + 1 <= a
  BY <1>1, <1>4, SpansUnfold
<1>6. c.op = "subshell" /\ c.op \notin Operators
  BY OperatorsAreNone
<1>7. u \in Nat /\ u <= Len(l) /\ Len(l) \in Nat
  BY LenProperties DEF RunsOver
<1>8. b \in 0 .. u
  <2>1. Len(calls) + 1 \in 1 .. Len(calls) + 1
    <3>1. Len(calls) \in Nat
      BY <1>1, ListedFacts DEF Calls
    <3> QED BY <3>1
  <2> QED BY <1>1, <2>1 DEF Calls
<1> HIDE DEF m, u, c, p
<1>9. a \in Nat /\ a < b /\ a + 1 = b /\ i - 1 \in Nat /\ i - 1 < u /\ i - 1 + 1 = i
  BY <1>5, <1>7, <1>8
<1> HIDE DEF b, a
<1>10. CallAt(l, c, a, b)
  BY <1>4, <1>6, <1>9 DEF CallAt
<1>11. PICK e2 : Calls(l, calls', e2, u) /\ e2[Len(calls') + 1] = a
  BY <1>1, <1>3, <1>7, <1>9, <1>10, CallsPush DEF b, m
<1>12. y = RunStep(x, "(")
  <2> DEFINE n == i - 1
  <2>1. r[n + 1] = RunStep(r[n], l[n + 1])
    BY <1>9, RunAfter DEF u
  <2>2. n + 1 = i
    BY <1>9
  <2> QED BY <1>4, <2>1, <2>2
<1>13. Matches(x, procs, ran) /\ x.words = <<>> /\ x.skip = FALSE /\ RunState(x)
  BY <1>1 DEF Ready, Matches
<1> HIDE DEF x, y
<1>14. /\ RunState(y) /\ SameRun(y, x) /\ y.skip = FALSE /\ y.words = <<>>
       /\ y.open = Append(x.open, [skip |-> FALSE, cwd |-> x.cwd])
  BY <1>12, <1>13, StepOpen
<1>15. p.cwd = x.cwd
  <2>1. Last(procs) = procs[Len(procs)]
    BY <1>13, ListedFacts DEF Matches
  <2> QED BY <1>13, <2>1 DEF Matches, Proc, p
<1>16. Matches(y, procs', ran')
  BY <1>2, <1>3, <1>13, <1>14, <1>15, MatchesOpen DEF p
<1>17. Ready(y, procs', ran')
  BY <1>14, <1>16 DEF Ready
<1> DEFINE i2 == i + 1
           b2 == e2[Len(calls') + 1]
<1>18. i2 - 1 = i /\ b2 = a
  BY <1>5, <1>11
<1>19. Spans(node', i2, a, l)
  BY <1>3, <1>4 DEF a
<1>20. Calls(l, calls', e2, u)
  BY <1>11
<1> HIDE DEF i2, b2
<1>21. Ready(r[i2 - 1], procs', ran')
  BY <1>17, <1>18 DEF y
<1>22. Spans(node', i2, b2, l)
  BY <1>18, <1>19
<1> QED BY <1>20, <1>21, <1>22 DEF Evaluates, u, b2

(* After an operator, where the status makes the right operand run or not.   *)
LEMMA AfterOperator ==
  ASSUME NEW r, NEW l, RunsOver(r, l), NEW a \in Nat, a < Syntax(l).used, NEW op \in Operators,
         l[a + 1] = op, RunState(r[a]), NEW ps, NEW rn, Matches(Run(r[a]), ps, rn),
         NEW st, Run(r[a]).status = st
  PROVE  /\ Matches(r[a + 1], ps, rn) /\ r[a + 1].words = <<>> /\ r[a + 1].status = st
         /\ RunsRight(op, st) => r[a + 1].skip = FALSE
         /\ ~ RunsRight(op, st) => r[a + 1].skip = TRUE
<1> DEFINE x == r[a]
           y == r[a + 1]
<1>1. y = RunStep(x, op)
  BY RunAfter
<1> HIDE DEF x, y
<1>2. Run(x).open = x.open /\ Run(x).status = st /\ Matches(Run(x), ps, rn) /\ RunState(x)
  BY RunDone DEF x
<1>3. ~ Enclosing(x)
  BY <1>2, NotEnclosing
<1>4. /\ RunState(y) /\ SameRun(y, Run(x)) /\ y.words = <<>> /\ y.open = x.open
      /\ y.skip = (Enclosing(x) \/ op = Refuses(Run(x).status))
  BY <1>1, <1>2, StepOperator
<1>5. Matches(y, ps, rn)
  BY <1>2, <1>4, MatchesSame
<1>6. RunsRight(op, st) <=> ~ (op = Refuses(st))
  BY DEF RunsRight, Refuses, Operators
<1>7. CASE RunsRight(op, st)
  <2>1. (Enclosing(x) \/ op = Refuses(Run(x).status)) = FALSE
    BY <1>2, <1>3, <1>6, <1>7
  <2> QED BY <1>2, <1>4, <1>5, <1>7, <2>1 DEF SameRun, y
<1>8. CASE ~ RunsRight(op, st)
  <2>1. (Enclosing(x) \/ op = Refuses(Run(x).status)) = TRUE
    BY <1>2, <1>6, <1>8
  <2> QED BY <1>2, <1>4, <1>5, <1>8, <2>1 DEF SameRun, y
<1> QED BY <1>7, <1>8

LEMMA EvalGoesRight ==
  ASSUME NEW r, NEW l, RunsOver(r, l), EvalRight, Returned(l, r, calls, procs, ran, status)
  PROVE  Evaluates(l, r, node', calls', procs', ran')
<1> DEFINE u == Syntax(l).used
           m == Len(calls)
<1>1. PICK e : /\ Calls(l, calls, e, u) /\ RunState(r[e[m + 1]])
               /\ Matches(Run(r[e[m + 1]]), procs, ran) /\ Run(r[e[m + 1]]).status = status
  BY DEF Returned
<1>2. PICK op \in Operators : calls # <<>> /\ Last(calls).op = op /\ RunsRight(op, status)
  BY DEF EvalRight, Waits
<1>3. node' = Last(calls).rhs /\ calls' = Front(calls) /\ procs' = procs /\ ran' = ran
  BY DEF EvalRight
<1> DEFINE a == e[m + 1]
           b == e[m]
           c == Last(calls)
<1>4. u \in Nat
  BY LenProperties DEF RunsOver
<1> HIDE DEF u
<1>5. /\ Calls(l, calls', e, u) /\ Len(calls') + 1 = m /\ CallAt(l, c, a, b)
      /\ a \in 0 .. u /\ b \in 0 .. u
  BY <1>1, <1>2, <1>3, <1>4, CallsPop
<1> HIDE DEF a, b, c, m
<1>6. a < b /\ l[a + 1] = op /\ Spans(node', a + 2, b, l)
  BY <1>2, <1>3, <1>5 DEF CallAt, c
<1>7. a \in Nat /\ a < u /\ a + 2 - 1 = a + 1
  BY <1>4, <1>5, <1>6
<1>71. /\ RunState(r[a]) /\ Matches(Run(r[a]), procs, ran) /\ Run(r[a]).status = status
       /\ a < Syntax(l).used
  BY <1>1, <1>7 DEF a, u
<1>8. Matches(r[a + 1], procs, ran) /\ r[a + 1].words = <<>> /\ r[a + 1].skip = FALSE
  <2>1. RunsRight(op, status) => r[a + 1].skip = FALSE
    BY <1>6, <1>7, <1>71, AfterOperator
  <2>2. Matches(r[a + 1], procs, ran) /\ r[a + 1].words = <<>>
    BY <1>6, <1>7, <1>71, AfterOperator
  <2> QED BY <1>2, <2>1, <2>2
<1> DEFINE i2 == a + 2
           b2 == e[Len(calls') + 1]
<1>9. i2 - 1 = a + 1 /\ b2 = b /\ Spans(node', i2, b, l)
  BY <1>5, <1>6, <1>7 DEF b
<1> HIDE DEF i2, b2
<1>10. Ready(r[i2 - 1], procs', ran')
  BY <1>3, <1>8, <1>9 DEF Ready
<1>11. Spans(node', i2, b2, l)
  BY <1>9
<1> QED BY <1>5, <1>10, <1>11 DEF Evaluates, u, b2

LEMMA EvalSkipsRight ==
  ASSUME NEW r, NEW l, RunsOver(r, l), SkipRight, Returned(l, r, calls, procs, ran, status)
  PROVE  Returned(l, r, calls', procs', ran', status')
<1> DEFINE u == Syntax(l).used
           m == Len(calls)
<1>1. PICK e : /\ Calls(l, calls, e, u) /\ RunState(r[e[m + 1]])
               /\ Matches(Run(r[e[m + 1]]), procs, ran) /\ Run(r[e[m + 1]]).status = status
  BY DEF Returned
<1>2. PICK op \in Operators : calls # <<>> /\ Last(calls).op = op /\ ~ RunsRight(op, status)
  BY DEF SkipRight, Waits
<1>3. calls' = Front(calls) /\ procs' = procs /\ ran' = ran /\ status' = status
  BY DEF SkipRight
<1> DEFINE a == e[m + 1]
           b == e[m]
           c == Last(calls)
<1>4. u \in Nat /\ u <= Len(l) /\ l \in Seq(Tokens) /\ Len(l) \in Nat
  BY LenProperties DEF RunsOver
<1> HIDE DEF u
<1>5. /\ Calls(l, calls', e, u) /\ Len(calls') + 1 = m /\ CallAt(l, c, a, b)
      /\ a \in 0 .. u /\ b \in 0 .. u
  BY <1>1, <1>2, <1>3, <1>4, CallsPop
<1> HIDE DEF a, b, c, m
<1>6. a < b /\ l[a + 1] = op /\ Spans(c.rhs, a + 2, b, l) /\ Operand(c.rhs)
  BY <1>2, <1>3, <1>5 DEF CallAt, c
<1>7. a \in Nat /\ a < u /\ a + 2 - 1 = a + 1 /\ a + 2 \in Nat
  BY <1>4, <1>5, <1>6
<1>71. /\ RunState(r[a]) /\ Matches(Run(r[a]), procs, ran) /\ Run(r[a]).status = status
       /\ a < Syntax(l).used
  BY <1>1, <1>7 DEF a, u
<1>8. Matches(r[a + 1], procs, ran) /\ r[a + 1].words = <<>> /\ r[a + 1].skip = TRUE
      /\ r[a + 1].status = status
  BY <1>2, <1>6, <1>7, <1>71, AfterOperator
<1>10. Follows(r, l, b)
  BY <1>4, <1>5 DEF RunsOver, Follows, u
<1> DEFINE i2 == a + 2
<1>9. i2 - 1 = a + 1 /\ Spans(c.rhs, i2, b, l)
  BY <1>6, <1>7
<1> HIDE DEF i2
<1>11. SkipsFrom(r[i2 - 1], c.rhs)
  BY <1>6, <1>8, <1>9 DEF SkipsFrom, Matches
<1>13. SkipsTo(r[i2 - 1], r[b])
  BY <1>4, <1>6, <1>9, <1>10, <1>11, Skipped
<1>12. SkipsTo(r[a + 1], r[b])
  BY <1>9, <1>13
<1> DEFINE x == r[a + 1]
           y == r[b]
<1>131. RunState(y) /\ SameRun(Run(y), x) /\ y.open = x.open
  BY <1>12 DEF SkipsTo
<1> HIDE DEF x, y
<1>14. RunState(Run(y)) /\ Run(y).open = x.open
  BY <1>131, RunDone
<1>15. Matches(Run(y), procs', ran') /\ Run(y).status = status'
  BY <1>3, <1>8, <1>131, <1>14, MatchesSame DEF SameRun, x
<1> QED BY <1>5, <1>131, <1>15 DEF Returned, y, b, u

LEMMA EvalLeaves ==
  ASSUME NEW r, NEW l, RunsOver(r, l), LeaveSubshell, Returned(l, r, calls, procs, ran, status),
         Len(procs) > 1
  PROVE  Returned(l, r, calls', procs', ran', status')
<1> DEFINE u == Syntax(l).used
           m == Len(calls)
<1>1. PICK e : /\ Calls(l, calls, e, u) /\ RunState(r[e[m + 1]])
               /\ Matches(Run(r[e[m + 1]]), procs, ran) /\ Run(r[e[m + 1]]).status = status
  BY DEF Returned
<1>2. calls # <<>> /\ Last(calls).op = "subshell"
  BY DEF LeaveSubshell, Waits
<1>3. calls' = Front(calls) /\ procs' = Front(procs) /\ ran' = ran /\ status' = status
  BY DEF LeaveSubshell
<1> DEFINE a == e[m + 1]
           b == e[m]
           c == Last(calls)
<1>4. u \in Nat
  BY LenProperties DEF RunsOver
<1> HIDE DEF u
<1>5. /\ Calls(l, calls', e, u) /\ Len(calls') + 1 = m /\ CallAt(l, c, a, b)
      /\ a \in 0 .. u /\ b \in 0 .. u
  BY <1>1, <1>2, <1>3, <1>4, CallsPop
<1> HIDE DEF a, b, c, m
<1>6. a < b /\ l[a + 1] = ")" /\ b = a + 1
  BY <1>2, <1>5 DEF CallAt, c
<1>7. a \in Nat /\ a < u
  BY <1>4, <1>5, <1>6
<1> DEFINE x == r[a]
           y == r[b]
<1>8. y = RunStep(x, ")")
  BY <1>6, <1>7, RunAfter DEF u
<1>9. RunState(x) /\ Matches(Run(x), procs, ran) /\ Run(x).status = status
  BY <1>1 DEF a
<1> HIDE DEF x, y
<1>10. Run(x).open = x.open
  BY <1>9, RunDone
<1>11. x.open # <<>> /\ Last(x.open).skip = FALSE
  <2> DEFINE o == x.open
             n == Len(procs)
  <2>1. /\ Listed(o) /\ Len(o) = n - 1 /\ n \in Nat /\ n > 1
        /\ \A k \in 1 .. n - 1 : o[k].skip = FALSE
    BY <1>9, <1>10, ListedFacts DEF Matches, RunState
  <2> HIDE DEF o, n
  <2>2. n - 1 \in 1 .. n - 1 /\ n - 1 # 0
    BY <2>1
  <2>3. o # <<>>
    BY <2>1, <2>2, EmptySeq
  <2>4. Last(o) = o[n - 1]
    BY <2>1, <2>3, ListedFacts
  <2> QED BY <2>1, <2>2, <2>3, <2>4 DEF o
<1>12. /\ RunState(y) /\ y.words = <<>> /\ y.status = status /\ y.ran = Run(x).ran
       /\ y.open = Front(Run(x).open) /\ y.cwd = Last(Run(x).open).cwd
  BY <1>8, <1>9, <1>10, <1>11, StepClose
<1>13. Matches(y, procs', ran')
  BY <1>3, <1>9, <1>12, MatchesClose
<1>14. RunState(Run(y)) /\ Run(y).open = y.open /\ SameRun(Run(y), y)
  BY <1>12, RunDone
<1>15. Matches(Run(y), procs', ran') /\ Run(y).status = status'
  BY <1>3, <1>12, <1>13, <1>14, MatchesSame DEF SameRun
<1> QED BY <1>5, <1>12, <1>15 DEF Returned, y, b, u

-----------------------------------------------------------------------------
(* The line as a whole: what holds at each place of the parser and of the    *)
(* evaluator.                                                                *)
RunsOf(r, l, dir) ==
  /\ RunsOver(r, l)
  /\ r[0] = RunStart(dir)
  /\ r[Syntax(l).used] = FoldLeft(RunStep, RunStart(dir), SubSeq(l, 1, Syntax(l).used))
  /\ l = <<>> \/ IsList(l)

Fresh(l, dir, cs, ps, rn) ==
  /\ l \in Seq(Tokens) /\ l # <<>>
  /\ cs = <<>> /\ rn = <<>>
  /\ Listed(ps) /\ ps # <<>> /\ Len(ps) = 1 /\ ps[1].cwd = dir

(* The empty line is a node that does nothing.                               *)
Idle(l, r, nd, cs, ps, rn) ==
  /\ l = <<>> /\ nd.type = "nop" /\ cs = <<>>
  /\ Syntax(l).used = 0
  /\ Ready(r[0], ps, rn) /\ r[0].status = 0

EvaluatesLine(l, dir, nd, cs, ps, rn) ==
  \E r : /\ RunsOf(r, l, dir)
         /\ Evaluates(l, r, nd, cs, ps, rn) \/ Idle(l, r, nd, cs, ps, rn)

ReturnsLine(l, dir, cs, ps, rn, st) ==
  \E r : RunsOf(r, l, dir) /\ Returned(l, r, cs, ps, rn, st)

Reads ==
  /\ at = "leaf" => /\ Fresh(line.tokens, line.cwd, calls, procs, ran)
                    /\ AtLeaf(line.tokens, rest, parsing)
  /\ at = "parsed" => /\ Fresh(line.tokens, line.cwd, calls, procs, ran)
                      /\ AtParsed(line.tokens, rest, parsing, node)
  /\ at = "eval" => EvaluatesLine(line.tokens, line.cwd, node, calls, procs, ran)
  /\ at = "return" => ReturnsLine(line.tokens, line.cwd, calls, procs, ran, status)
  /\ RunsAsRead

LEMMA RunsExist ==
  ASSUME NEW l \in Seq(Tokens), Syntax(l).used \in 0 .. Len(l), l = <<>> \/ IsList(l), NEW dir
  PROVE  \E r : RunsOf(r, l, dir)
<1> DEFINE u == Syntax(l).used
           s == SubSeq(l, 1, u)
<1>1. Len(l) \in Nat /\ u \in 0 .. Len(l) /\ \A k \in 1 .. u : l[k] \in Tokens
  BY LenProperties, ElementOfSeq
<1> HIDE DEF u
<1>2. s \in Seq(Tokens) /\ Len(s) = u /\ \A k \in 1 .. u : s[k] = l[k]
  <2>1. /\ s \in Seq(Tokens)
        /\ Len(s) = IF 1 <= u THEN u - 1 + 1 ELSE 0
        /\ \A k \in 1 .. u - 1 + 1 : s[k] = l[1 + k - 1]
    BY <1>1, SubSeqProperties
  <2> HIDE DEF s
  <2>2. Len(s) = u
    BY <1>1, <2>1
  <2>3. ASSUME NEW k \in 1 .. u PROVE s[k] = l[k]
    <3>1. k \in 1 .. u - 1 + 1 /\ 1 + k - 1 = k
      BY <1>1
    <3> QED BY <2>1, <3>1
  <2> QED BY <2>1, <2>2, <2>3
<1> HIDE DEF s
<1>3. PICK r : /\ r[0] = RunStart(dir)
               /\ \A n \in 1 .. Len(s) : r[n] = RunStep(r[n - 1], s[n])
               /\ r[Len(s)] = FoldLeft(RunStep, RunStart(dir), s)
  <2>1. Len(s) \in Nat /\ DOMAIN s = 1 .. Len(s)
    BY <1>2, LenProperties
  <2> QED BY <2>1, RunFold
<1>4. Follows(r, l, u)
  BY <1>2, <1>3 DEF Follows
<1>5. r[u] = FoldLeft(RunStep, RunStart(dir), s)
  BY <1>2, <1>3
<1>6. RunsOver(r, l)
  BY <1>1, <1>4 DEF RunsOver, u
<1> QED BY <1>3, <1>5, <1>6 DEF RunsOf, u, s

LEMMA FirstReady ==
  ASSUME NEW ps, Listed(ps), ps # <<>>, Len(ps) = 1, NEW dir, ps[1].cwd = dir, NEW x, x = RunStart(dir)
  PROVE  Ready(x, ps, <<>>) /\ x.status = 0
<1>1. /\ RunState(x) /\ x.skip = FALSE /\ x.words = <<>> /\ x.cwd = dir /\ x.open = <<>>
      /\ x.ran = <<>> /\ x.status = 0
  BY RunStarts
<1>2. Len(x.open) = Len(ps) - 1 /\ 1 .. Len(ps) - 1 = {}
  BY <1>1
<1> QED BY <1>1, <1>2 DEF Ready, Matches

LEMMA NoLineUsed == Syntax(<<>>).used = 0
<1>1. <<>> \in Seq(Tokens) /\ Len(<<>>) = 0
  BY EmptySeq
<1>2. SyntaxAt(<<>>)[0] = Syntax(<<>>) /\ SyntaxAt(<<>>)[0] = SyntaxStart
  BY <1>1, SyntaxAtFacts DEF SyntaxAlong
<1>3. Syntax(<<>>) = SyntaxStart
  BY <1>2
<1> QED BY <1>3 DEF SyntaxStart

LEMMA ReadsInit == Init => Reads
  BY DEF Init, Reads, RunsAsRead

LEMMA ReadsPrompt == ASSUME Balanced, NEW l \in Lines, Prompt(l) PROVE Reads'
<1>1. PICK g : procs' = <<[cwd |-> cwd, did_exit |-> g]>>
  BY DEF Prompt
<1> DEFINE p == [cwd |-> cwd, did_exit |-> g]
<1>2. procs' = <<p>> /\ p.cwd = cwd
  BY <1>1
<1> HIDE DEF p
<1>3. Listed(procs') /\ procs' # <<>> /\ Len(procs') = 1 /\ procs'[1].cwd = cwd
  BY <1>2, ListedEmpty
<1>4. l \in Seq(Tokens) /\ calls' = <<>> /\ ran' = <<>>
  BY LinesAssumption DEF Balanced, Prompt
<1>5. line'.tokens = l /\ line'.cwd = cwd
  BY DEF Prompt
<1>6. CASE l = <<>>
  <2>1. at' = "eval" /\ node' = Nop /\ Nop.type = "nop"
    BY <1>6 DEF Prompt, Nop
  <2>2. Syntax(l).used = 0 /\ 0 \in 0 .. Len(l)
    BY <1>6, NoLineUsed
  <2>3. PICK r : RunsOf(r, l, cwd)
    BY <1>4, <1>6, <2>2, RunsExist
  <2>4. Ready(r[0], procs', <<>>) /\ r[0].status = 0
    BY <1>3, <2>3, FirstReady DEF RunsOf
  <2>5. Idle(l, r, node', calls', procs', ran')
    BY <1>4, <1>6, <2>1, <2>2, <2>4 DEF Idle
  <2>6. EvaluatesLine(line'.tokens, line'.cwd, node', calls', procs', ran')
    BY <1>5, <2>3, <2>5 DEF EvaluatesLine
  <2> QED BY <2>1, <2>6 DEF Reads, RunsAsRead
<1>7. CASE l # <<>>
  <2>1. at' = "leaf" /\ parsing' = <<NewCall>> /\ rest' = l
    BY <1>7 DEF Prompt
  <2>2. AtLeaf(line'.tokens, rest', parsing')
    BY <1>4, <1>5, <2>1, LeafStarts
  <2>3. Fresh(line'.tokens, line'.cwd, calls', procs', ran')
    BY <1>3, <1>4, <1>5, <1>7 DEF Fresh
  <2> QED BY <2>1, <2>2, <2>3 DEF Reads, RunsAsRead
<1> QED BY <1>6, <1>7

(* A line with a syntax error runs nothing.                                  *)
LEMMA ReadsError ==
  ASSUME SyntaxError, Fresh(line.tokens, line.cwd, calls, procs, ran), ~ IsList(line.tokens)
  PROVE  Reads'
<1> DEFINE l == line.tokens
           dir == line.cwd
<1>1. /\ at' = "finish" /\ status' = 127 /\ procs'[1].cwd = dir /\ ran' = <<>> /\ line' = line
  BY DEF SyntaxError, Fresh
<1>2. Meaning(l, dir) = [status |-> 127, cwd |-> dir, ran |-> <<>>]
  BY DEF Fresh, Meaning
<1>3. [status |-> status', cwd |-> procs'[1].cwd, ran |-> ran'] = Meaning(line'.tokens, line'.cwd)
  BY <1>1, <1>2
<1> QED BY <1>1, <1>3 DEF Reads, RunsAsRead

LEMMA ReadsParse == ASSUME Reads, Parse PROVE Reads'
<1> DEFINE l == line.tokens
           dir == line.cwd
<1>1. CASE ParseCommand \/ OpenSubshell \/ ParseOperator \/ CloseSubshell
  <2>1. UNCHANGED <<calls, procs, line, ran>> /\ at \in {"leaf", "parsed"} /\ at' \in {"leaf", "parsed"}
    BY <1>1 DEF ParseCommand, OpenSubshell, ParseOperator, CloseSubshell
  <2>2. Fresh(line'.tokens, line'.cwd, calls', procs', ran')
    BY <2>1 DEF Reads
  <2>3. CASE ParseCommand
    <3>1. at = "leaf" /\ at' = "parsed"
      BY <2>3 DEF ParseCommand
    <3>2. AtParsed(l, rest', parsing', node')
      BY <2>3, <3>1, LeafCommand DEF Reads
    <3> QED BY <2>1, <2>2, <3>1, <3>2 DEF Reads, RunsAsRead
  <2>4. CASE OpenSubshell
    <3>1. at = "leaf" /\ at' = "leaf"
      BY <2>4 DEF OpenSubshell
    <3>2. AtLeaf(l, rest', parsing')
      BY <2>4, <3>1, LeafOpen DEF Reads
    <3> QED BY <2>1, <2>2, <3>1, <3>2 DEF Reads, RunsAsRead
  <2>5. CASE ParseOperator
    <3>1. at = "parsed" /\ at' = "leaf"
      BY <2>5 DEF ParseOperator
    <3>2. AtLeaf(l, rest', parsing')
      BY <2>5, <3>1, ParsedOperator DEF Reads
    <3> QED BY <2>1, <2>2, <3>1, <3>2 DEF Reads, RunsAsRead
  <2>6. CASE CloseSubshell
    <3>1. at = "parsed" /\ at' = "parsed"
      BY <2>6 DEF CloseSubshell
    <3>2. AtParsed(l, rest', parsing', node')
      BY <2>6, <3>1, ParsedClose DEF Reads
    <3> QED BY <2>1, <2>2, <3>1, <3>2 DEF Reads, RunsAsRead
  <2> QED BY <1>1, <2>3, <2>4, <2>5, <2>6
<1>2. CASE NoCommand
  <2>1. at = "leaf" /\ SyntaxError
    BY <1>2 DEF NoCommand
  <2> QED BY <1>2, <2>1, LeafError, ReadsError DEF Reads
<1>3. CASE MissingClose
  <2>1. at = "parsed" /\ SyntaxError
    BY <1>3 DEF MissingClose
  <2> QED BY <1>3, <2>1, ParsedDone, ReadsError DEF Reads
<1>4. CASE RootParsed
  <2> DEFINE u == Syntax(l).used
  <2>1. at = "parsed" /\ at' = "eval" /\ UNCHANGED <<calls, procs, line, ran>>
    BY <1>4 DEF RootParsed
  <2>2. Fresh(l, dir, calls, procs, ran) /\ IsList(l) /\ Spans(node', 1, u, l)
    BY <1>4, <2>1, ParsedDone DEF Reads
  <2>3. l \in Seq(Tokens) /\ u \in 0 .. Len(l)
    <3>1. u \in Nat /\ u <= Len(l) /\ l \in Seq(Tokens)
      BY <2>2, SpansUnfold DEF Fresh
    <3> QED BY <3>1, LenProperties
  <2>4. PICK r : RunsOf(r, l, dir)
    BY <2>2, <2>3, RunsExist
  <2>5. Ready(r[0], procs, ran)
    BY <2>2, <2>4, FirstReady DEF Fresh, RunsOf
  <2>6. Evaluates(l, r, node', calls, procs, ran)
    <3> DEFINE e == [k \in {1} |-> u]
               i == 1
    <3>1. e[1] = u /\ Len(calls) + 1 = 1 /\ calls = <<>> /\ i - 1 = 0
          /\ (\A k \in 1 .. Len(calls) + 1 : k = 1) /\ 1 .. Len(calls) = {} /\ Listed(calls)
      BY <2>2, ListedEmpty DEF Fresh
    <3>2. u \in 0 .. u
      BY <2>3, LenProperties
    <3> HIDE DEF e, u
    <3>3. Calls(l, calls, e, u)
      BY <3>1, <3>2 DEF Calls
    <3>4. Spans(node', i, e[Len(calls) + 1], l)
      BY <2>2, <3>1
    <3> HIDE DEF i
    <3>5. Ready(r[i - 1], procs, ran)
      BY <2>5, <3>1
    <3> QED BY <3>3, <3>4, <3>5 DEF Evaluates, u
  <2>7. EvaluatesLine(line'.tokens, line'.cwd, node', calls', procs', ran')
    BY <2>1, <2>4, <2>6 DEF EvaluatesLine
  <2> QED BY <2>1, <2>7 DEF Reads, RunsAsRead
<1> QED BY <1>1, <1>2, <1>3, <1>4 DEF Parse

LEMMA ReadsIdle ==
  ASSUME NEW r, NEW l, Idle(l, r, node, calls, procs, ran), EvalNop
  PROVE  Returned(l, r, calls', procs', ran', status')
<1> DEFINE e == [k \in {1} |-> 0]
<1>1. e[1] = 0 /\ Len(calls) + 1 = 1 /\ calls = <<>> /\ Syntax(l).used = 0 /\ 0 \in 0 .. 0
      /\ (\A k \in 1 .. Len(calls) + 1 : k = 1) /\ 1 .. Len(calls) = {} /\ Listed(calls)
  BY ListedEmpty DEF Idle
<1> HIDE DEF e
<1>2. Calls(l, calls, e, Syntax(l).used)
  BY <1>1 DEF Calls
<1> DEFINE x == r[0]
<1>3. RunState(x) /\ Matches(x, procs, ran) /\ x.words = <<>> /\ x.status = 0
  BY DEF Idle, Ready, Matches
<1> HIDE DEF x
<1>4. Run(x) = x
  BY <1>3 DEF Run
<1>5. UNCHANGED <<calls, procs, ran>> /\ status' = 0
  BY DEF EvalNop
<1>6. e[Len(calls) + 1] = 0
  BY <1>1
<1> QED BY <1>2, <1>3, <1>4, <1>5, <1>6 DEF Returned, x

LEMMA ReadsDone ==
  ASSUME Balanced, RootEvaluated, ReturnsLine(line.tokens, line.cwd, calls, procs, ran, status)
  PROVE  [status |-> status, cwd |-> procs[1].cwd, ran |-> ran] = Meaning(line.tokens, line.cwd)
<1> DEFINE l == line.tokens
           dir == line.cwd
           u == Syntax(l).used
<1>1. PICK r : RunsOf(r, l, dir) /\ Returned(l, r, calls, procs, ran, status)
  BY DEF ReturnsLine
<1>2. PICK e : /\ Calls(l, calls, e, u) /\ Matches(Run(r[e[Len(calls) + 1]]), procs, ran)
               /\ Run(r[e[Len(calls) + 1]]).status = status
  BY <1>1 DEF Returned
<1>3. calls = <<>> /\ Len(calls) + 1 = 1
  BY DEF RootEvaluated
<1>4. e[Len(calls) + 1] = u
  BY <1>2, <1>3 DEF Calls
<1> DEFINE x == Run(r[u])
<1>5. Matches(x, procs, ran) /\ x.status = status
  BY <1>2, <1>4
<1>6. Len(procs) = 1
  <2>1. Len(procs) = 1 + Depth(calls) /\ Depth(calls) = 0
    BY <1>3, DepthEmpty DEF Balanced, RootEvaluated
  <2> QED BY <2>1
<1>7. x.cwd = procs[1].cwd /\ x.ran = ran
  BY <1>5, <1>6 DEF Matches
<1>8. x = Run(FoldLeft(RunStep, RunStart(dir), SubSeq(l, 1, u))) /\ ~ (l # <<>> /\ ~ IsList(l))
  BY <1>1 DEF RunsOf
<1>9. Meaning(l, dir) = [status |-> x.status, cwd |-> x.cwd, ran |-> x.ran]
  <2> HIDE DEF l, dir
  <2> QED BY <1>8 DEF Meaning
<1> HIDE DEF x
<1> QED BY <1>5, <1>7, <1>9

LEMMA ReadsEval == ASSUME Balanced, Reads, Eval PROVE Reads'
<1> DEFINE l == line.tokens
           dir == line.cwd
<1>1. line' = line
  BY DEF Eval, EvalNop, Invoke, EvalLeft, EnterSubshell, EvalRight, SkipRight, LeaveSubshell,
         RootEvaluated
<1>2. CASE EvalNop \/ Invoke \/ EvalLeft \/ EnterSubshell
  <2>1. at = "eval"
    BY <1>2 DEF EvalNop, Invoke, EvalLeft, EnterSubshell
  <2>2. PICK r : /\ RunsOf(r, l, dir)
                 /\ Evaluates(l, r, node, calls, procs, ran) \/ Idle(l, r, node, calls, procs, ran)
    BY <2>1 DEF Reads, EvaluatesLine
  <2>3. RunsOver(r, l)
    BY <2>2 DEF RunsOf
  <2>4. CASE EvalNop
    <3>1. node.type = "nop" /\ at' = "return"
      BY <2>4 DEF EvalNop
    <3>2. ~ Evaluates(l, r, node, calls, procs, ran)
      <4> SUFFICES ASSUME NEW e, NEW i, Spans(node, i, e[Len(calls) + 1], l) PROVE FALSE
        BY DEF Evaluates
      <4> QED BY <3>1, SpansUnfold DEF Operators
    <3>3. Returned(l, r, calls', procs', ran', status')
      BY <2>2, <2>4, <3>2, ReadsIdle
    <3>4. ReturnsLine(line'.tokens, line'.cwd, calls', procs', ran', status')
      BY <1>1, <2>2, <3>3 DEF ReturnsLine
    <3> QED BY <3>1, <3>4 DEF Reads, RunsAsRead
  <2>5. CASE Invoke \/ EvalLeft \/ EnterSubshell
    <3>1. node.type # "nop"
      BY <2>5 DEF Invoke, EvalLeft, EnterSubshell, Operators
    <3>2. Evaluates(l, r, node, calls, procs, ran)
      BY <2>2, <3>1 DEF Idle
    <3>3. CASE Invoke
      <4>1. at' = "return"
        BY <3>3 DEF Invoke
      <4>2. Returned(l, r, calls', procs', ran', status')
        BY <2>3, <3>2, <3>3, EvalInvokes
      <4>3. ReturnsLine(line'.tokens, line'.cwd, calls', procs', ran', status')
        BY <1>1, <2>2, <4>2 DEF ReturnsLine
      <4> QED BY <4>1, <4>3 DEF Reads, RunsAsRead
    <3>4. CASE EvalLeft \/ EnterSubshell
      <4>1. at' = "eval"
        BY <3>4 DEF EvalLeft, EnterSubshell
      <4>2. Evaluates(l, r, node', calls', procs', ran')
        BY <2>3, <3>2, <3>4, EvalGoesLeft, EvalEnters
      <4>3. EvaluatesLine(line'.tokens, line'.cwd, node', calls', procs', ran')
        BY <1>1, <2>2, <4>2 DEF EvaluatesLine
      <4> QED BY <4>1, <4>3 DEF Reads, RunsAsRead
    <3> QED BY <2>5, <3>3, <3>4
  <2> QED BY <1>2, <2>4, <2>5
<1>3. CASE EvalRight \/ SkipRight \/ LeaveSubshell
  <2>1. at = "return"
    BY <1>3 DEF EvalRight, SkipRight, LeaveSubshell, Waits
  <2>2. PICK r : RunsOf(r, l, dir) /\ Returned(l, r, calls, procs, ran, status)
    BY <2>1 DEF Reads, ReturnsLine
  <2>3. RunsOver(r, l)
    BY <2>2 DEF RunsOf
  <2>4. CASE EvalRight
    <3>1. at' = "eval"
      BY <2>4 DEF EvalRight
    <3>2. Evaluates(l, r, node', calls', procs', ran')
      BY <2>2, <2>3, <2>4, EvalGoesRight
    <3>3. EvaluatesLine(line'.tokens, line'.cwd, node', calls', procs', ran')
      BY <1>1, <2>2, <3>2 DEF EvaluatesLine
    <3> QED BY <3>1, <3>3 DEF Reads, RunsAsRead
  <2>5. CASE SkipRight \/ LeaveSubshell
    <3>1. at' = "return"
      BY <2>1, <2>5 DEF SkipRight, LeaveSubshell
    <3>2. LeaveSubshell => Len(procs) > 1
      <4> SUFFICES ASSUME LeaveSubshell PROVE Len(procs) > 1
        OBVIOUS
      <4>1. calls # <<>> /\ Last(calls).op = "subshell"
        BY DEF LeaveSubshell, Waits
      <4>2. Depth(calls) >= 1 /\ Depth(calls) \in Nat
        BY <4>1, DepthReturn, DepthFacts DEF Balanced
      <4>3. Len(procs) = 1 + Depth(calls)
        BY <2>1 DEF Balanced
      <4> QED BY <4>2, <4>3
    <3>3. Returned(l, r, calls', procs', ran', status')
      BY <2>2, <2>3, <2>5, <3>2, EvalSkipsRight, EvalLeaves
    <3>4. ReturnsLine(line'.tokens, line'.cwd, calls', procs', ran', status')
      BY <1>1, <2>2, <3>3 DEF ReturnsLine
    <3> QED BY <3>1, <3>4 DEF Reads, RunsAsRead
  <2> QED BY <1>3, <2>4, <2>5
<1>4. CASE RootEvaluated
  <2>1. at = "return" /\ at' = "finish" /\ UNCHANGED <<procs, ran, status>>
    BY <1>4 DEF RootEvaluated
  <2>2. ReturnsLine(line.tokens, line.cwd, calls, procs, ran, status)
    BY <2>1 DEF Reads
  <2>3. [status |-> status, cwd |-> procs[1].cwd, ran |-> ran] = Meaning(l, dir)
    BY <1>4, <2>2, ReadsDone
  <2>4. [status |-> status', cwd |-> procs'[1].cwd, ran |-> ran'] = Meaning(line'.tokens, line'.cwd)
    BY <1>1, <2>1, <2>3
  <2> QED BY <2>1, <2>4 DEF Reads, RunsAsRead
<1> QED BY <1>2, <1>3, <1>4 DEF Eval

LEMMA ReadsNext == Balanced /\ Reads /\ [Next]_vars => Reads'
<1> SUFFICES ASSUME Balanced, Reads, [Next]_vars PROVE Reads'
  OBVIOUS
<1>1. CASE UNCHANGED vars
  <2>1. UNCHANGED <<at, rest, parsing, node, calls, procs, status, line, ran>>
    BY <1>1 DEF vars
  <2> QED BY <2>1 DEF Reads, RunsAsRead
<1>2. CASE Finish
  <2>1. at' \in {"ended", "prompt"}
    BY <1>2 DEF Finish
  <2> QED BY <2>1 DEF Reads, RunsAsRead
<1> QED BY <1>1, <1>2, ReadsPrompt, ReadsParse, ReadsEval DEF Next, Step

(* The tree that the parser builds, and the recursion over it, run exactly   *)
(* the commands that reading the line from left to right runs, in the same   *)
(* order, directories and depth of subshells, and return the same status;    *)
(* a line with a syntax error runs none: for every line, however long and    *)
(* however deep its parentheses.                                             *)
THEOREM LinesRunAsRead == Spec => []RunsAsRead
<1>1. Reads => RunsAsRead
  BY DEF Reads
<1> QED BY <1>1, BalancedInit, BalancedNext, ReadsInit, ReadsNext, PTL DEF Spec

=============================================================================
