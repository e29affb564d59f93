----------------------------- MODULE MoveProofs -----------------------------
(* What mv touches, for every volume, command line, failure and listing: its *)
(* targets and its arguments and nothing else; with -n no file is lost; the  *)
(* volume stays a tree; and on a sound medium a status of 0 tells the truth. *)
EXTENDS Move, FatFsFacts

-----------------------------------------------------------------------------
(* The inductive invariant: where the command is, it has a target and an     *)
(* argument that its line names.                                             *)
Known ==
  /\ cmd \in Commands /\ DOMAIN tree \subseteq Seq(Names)
  /\ From(enum, Names, Range(cmd.args), Named)
  /\ target \in Seq(Names)
  /\ at \notin {"start", "exit"} => target \in NamedBy(<<cmd.target>>)
  /\ at \in {"stat", "unlink", "rename"} => arg.path \in Named /\ arg.path \in Seq(Names)

LEMMA StartKnown ==
  ASSUME Known, Start
  PROVE  Known'
<1>1. cmd.args \in Seq(Word(Names)) /\ cmd.target \in Word(Names)
  BY MoveAssumption DEF Known
<1>2. PICK a \in TargetArg(tree, files, cmd.target, failing) :
        target' = a.path /\ at' = IF a.err THEN "exit" ELSE "next"
  BY DEF Start
<1> DEFINE e == Enumeration(<<cmd.target>>)
<1>3. <<cmd.target>> \in Seq(Word(Names)) /\ Range(<<cmd.target>>) = {cmd.target} /\ <<cmd.target>> # <<>>
  BY <1>1 DEF Range
<1>4. From(e, Names, {cmd.target}, OfWord(cmd.target)) /\ e.todo # <<>>
  BY <1>3, FreshEnumeration DEF Enumeration
<1>5. a \in NextArg(tree, files, e, failing)
  BY <1>2 DEF TargetArg
<1> HIDE DEF e
<1>6. DOMAIN tree \subseteq Seq(Names)
  BY DEF Known
<1>7. a.path \in OfWord(cmd.target) /\ a.path \in Seq(Names)
  BY <1>4, <1>5, <1>6, NextArgNames
<1>8. target' \in NamedBy(<<cmd.target>>) /\ target' \in Seq(Names)
  BY <1>2, <1>7, OneWord
<1>9. enum' = Enumeration(cmd.args) /\ cmd' = cmd /\ tree' = tree /\ at' \in {"exit", "next"}
  BY <1>2 DEF Start
<1>10. From(enum, Names, Range(cmd.args), Named)'
  BY <1>1, <1>9, FreshEnumeration
<1> QED BY <1>8, <1>9, <1>10 DEF Known

LEMMA Next1Known ==
  ASSUME Known, Next1
  PROVE  Known'
<1>1. PICK a \in NextArg(tree, files, enum, failing) :
        enum' = a.enum /\ arg' = [path |-> a.path, kind |-> a.kind]
  BY DEF Next1
<1>2. \A w \in Range(cmd.args) : OfWord(w) \subseteq Named
  BY WordNames DEF Named
<1>3. enum.todo # <<>> \/ enum.listing # {}
  BY DEF Next1, Done
<1>4. From(a.enum, Names, Range(cmd.args), Named) /\ a.path \in Named /\ a.path \in Seq(Names)
  BY <1>1, <1>2, <1>3, NextArgNames DEF Known
<1>5. /\ cmd' = cmd /\ tree' = tree /\ target' = target /\ Named' = Named
      /\ at = "next" /\ at' \in {"stat", "next"}
  BY DEF Next1, Named
<1>6. arg'.path = a.path
  BY <1>1
<1>7. target \in NamedBy(<<cmd.target>>)
  BY <1>5 DEF Known
<1>8. From(enum, Names, Range(cmd.args), Named)'
  BY <1>1, <1>4, <1>5
<1> QED BY <1>4, <1>5, <1>6, <1>7, <1>8 DEF Known

(* Where the argument is to go is one of the goals of the line.              *)
LEMMA TargetIsGoal ==
  ASSUME Known, at \in {"stat", "unlink", "rename"}
  PROVE  Target \in Goals /\ (arg.path # <<>> => Target \in Seq(Names))
<1>1. target \in NamedBy(<<cmd.target>>) /\ arg.path \in Named
      /\ target \in Seq(Names) /\ arg.path \in Seq(Names)
  BY DEF Known
<1>2. target \in Goals /\ Append(target, Last(arg.path)) \in Goals
  BY <1>1 DEF Goals
<1>3. arg.path # <<>> => Append(target, Last(arg.path)) \in Seq(Names)
  BY <1>1, FrontAndLast, AppendProperties
<1> QED BY <1>1, <1>2, <1>3 DEF Target

(* The steps on the volume.                                                  *)
LEMMA SameLine ==
  ASSUME Known, DOMAIN tree' \subseteq Seq(Names), UNCHANGED <<cmd, enum, target, arg>>,
         at \notin {"start", "exit"},
         at' \in {"stat", "unlink", "rename"} => at \in {"stat", "unlink", "rename"}
  PROVE  Known'
<1>1. Named' = Named
  BY DEF Named
<1>2. From(enum, Names, Range(cmd.args), Named)'
  BY <1>1 DEF Known
<1> QED BY <1>1, <1>2 DEF Known

LEMMA UnlinkEffect ==
  ASSUME UnlinkTarget
  PROVE  /\ DOMAIN tree' \subseteq DOMAIN tree
         /\ \A q \in DOMAIN tree : q # Target => q \in DOMAIN tree' /\ tree'[q] = tree[q]
<1>1. PICK o \in Unlink(tree, files, Target, failing) : tree' = o.tree
  BY DEF UnlinkTarget
<1>2. o.tree = tree \/ o.tree = Without(tree, Target)
  BY <1>1, UnlinkOutcome
<1>3. /\ DOMAIN Without(tree, Target) = DOMAIN tree \ {Target}
      /\ \A q \in DOMAIN tree \ {Target} : Without(tree, Target)[q] = tree[q]
  BY WithoutOne
<1> QED BY <1>1, <1>2, <1>3

(* A rename does nothing, or takes an argument to where nothing is.          *)
LEMMA RenameEffect ==
  ASSUME Known, RenameIt
  PROVE  \/ tree' = tree
         \/ /\ arg.path \in DOMAIN tree /\ arg.path # Target /\ arg.path # <<>>
            /\ Target \in Seq(Names) /\ Target \notin DOMAIN tree /\ IsDir(tree, Front(Target))
            /\ \/ tree' = Renamed(tree, arg.path, Target)
               \/ ~ IsPrefix(arg.path, Target) /\ tree' = Linked(tree, arg.path, Target)
<1>1. at = "rename" /\ arg.path \in Seq(Names)
  BY DEF RenameIt, Known
<1>2. PICK o \in Rename(tree, files, arg.path, Target, failing) : tree' = o.tree
  BY DEF RenameIt
<1>3. \/ o.tree = tree
      \/ /\ arg.path \in DOMAIN tree /\ arg.path # <<>> /\ arg.path # Target
         /\ Target \notin DOMAIN tree /\ IsDir(tree, Front(Target))
         /\ \/ o.tree = Renamed(tree, arg.path, Target)
            \/ ~ IsPrefix(arg.path, Target) /\ o.tree = Linked(tree, arg.path, Target)
  BY <1>1, <1>2, RenameOutcome
<1>4. arg.path # <<>> => Target \in Seq(Names)
  BY <1>1, TargetIsGoal
<1> QED BY <1>2, <1>3, <1>4

LEMMA VolumeNamesKept ==
  ASSUME Known, UnlinkTarget \/ RenameIt
  PROVE  DOMAIN tree' \subseteq Seq(Names)
<1>1. DOMAIN tree \subseteq Seq(Names)
  BY DEF Known
<1>2. CASE UnlinkTarget
  BY <1>1, <1>2, UnlinkEffect
<1>3. CASE RenameIt
  <2>1. CASE tree' = tree
    BY <1>1, <2>1
  <2>2. CASE tree' # tree
    <3>1. arg.path \in Seq(Names) /\ Target \in Seq(Names) /\ arg.path # Target
      BY <1>3, <2>2, RenameEffect DEF RenameIt, Known
    <3>2. DOMAIN Linked(tree, arg.path, Target) \subseteq Seq(Names)
      BY <1>1, <3>1, LinkedPaths
    <3>3. DOMAIN tree' \subseteq DOMAIN tree \cup DOMAIN Linked(tree, arg.path, Target)
      BY <1>3, <2>2, <3>1, RenameEffect, RenamedKeeps
    <3> QED BY <1>1, <3>2, <3>3
  <2> QED BY <2>1, <2>2
<1> QED BY <1>2, <1>3

LEMMA NextKnown == Known /\ [Next]_vars => Known'
<1> SUFFICES ASSUME Known, [Next]_vars PROVE Known'
  OBVIOUS
<1>1. CASE Start
  BY <1>1, StartKnown
<1>2. CASE Next1
  BY <1>2, Next1Known
<1>3. CASE NoMore
  BY <1>3, SameLine DEF NoMore, Known
<1>4. CASE StatTarget
  BY <1>4, SameLine DEF StatTarget, Known
<1>5. CASE UnlinkTarget
  BY <1>5, SameLine, VolumeNamesKept DEF UnlinkTarget
<1>6. CASE RenameIt
  BY <1>6, SameLine, VolumeNamesKept DEF RenameIt
<1>7. CASE UNCHANGED vars
  <2>1. Named' = Named
    BY <1>7 DEF vars, Named
  <2> QED BY <1>7, <2>1 DEF vars, Known
<1> QED BY <1>1, <1>2, <1>3, <1>4, <1>5, <1>6, <1>7 DEF Next

LEMMA InitKnown == Init => Known
<1> SUFFICES ASSUME Init PROVE Known
  OBVIOUS
<1>1. enum = Enumeration(<<>>) /\ target = <<>> /\ at = "start" /\ tree \in InitTrees /\ cmd \in Commands
  BY DEF Init
<1>2. <<>> \in Seq(Word(Names)) /\ Range(<<>>) = {} /\ <<>> \in Seq(Names)
  BY EmptySeq DEF Range
<1>3. From(enum, Names, Range(cmd.args), Named)
  BY <1>1, <1>2, FreshEnumeration
<1> QED BY <1>1, <1>2, <1>3, MoveAssumption DEF Known

-----------------------------------------------------------------------------
(* mv touches what its line names and nothing else, whatever the volume and  *)
(* the line, whatever fails, and however old a listing is by the time an     *)
(* entry of it is moved.                                                     *)
THEOREM MoveContained == Spec => []BystandersUntouched
<1>1. Init => BystandersUntouched
  BY DEF Init, BystandersUntouched
<1>2. Known /\ BystandersUntouched /\ [Next]_vars => BystandersUntouched'
  <2> SUFFICES ASSUME Known, BystandersUntouched, [Next]_vars PROVE BystandersUntouched'
    OBVIOUS
  <2>1. before' = before /\ cmd' = cmd /\ Named' = Named /\ Goals' = Goals
    BY DEF Next, Start, Next1, NoMore, StatTarget, UnlinkTarget, RenameIt, vars, Named, Goals
  <2>2. ASSUME NEW p \in DOMAIN tree, p \notin Goals, \A q \in Named : ~ IsPrefix(q, p)
        PROVE  p \in DOMAIN tree' /\ tree'[p] = tree[p]
    <3>1. CASE UnlinkTarget
      <4>1. p # Target
        BY <2>2, <3>1, TargetIsGoal DEF UnlinkTarget
      <4> QED BY <3>1, <4>1, UnlinkEffect
    <3>2. CASE RenameIt /\ tree' # tree
      <4>1. ~ IsPrefix(arg.path, p)
        BY <2>2, <3>2 DEF RenameIt, Known
      <4>2. arg.path # Target
            /\ \/ tree' = Renamed(tree, arg.path, Target)
               \/ ~ IsPrefix(arg.path, Target) /\ tree' = Linked(tree, arg.path, Target)
        BY <3>2, RenameEffect
      <4> QED BY <4>1, <4>2, RenamedKeeps
    <3>3. CASE tree' = tree
      BY <3>3
    <3> QED BY <3>1, <3>2, <3>3 DEF Next, Start, Next1, NoMore, StatTarget, vars
  <2> QED BY <2>1, <2>2 DEF BystandersUntouched
<1> QED BY <1>1, <1>2, InitKnown, NextKnown, PTL DEF Spec

-----------------------------------------------------------------------------
(* With -n and no directory among the arguments, as NoClobberLosesNothing    *)
(* supposes.  The volume stays a tree, so that a renamed file takes nothing  *)
(* with it; no directory is anywhere it was not before; and no file is lost. *)
Guarded == ~ overwrite /\ \A p \in Named : ~ IsDir(before, p)

Safe ==
  /\ IsTree(tree)
  /\ NoNewDir(before, tree)
  /\ AllFiles(before, tree)
  /\ at # "unlink"

Protected == Guarded => Safe

LEMMA RenameSafe ==
  ASSUME Known, Guarded, Safe, RenameIt, tree' # tree
  PROVE  IsTree(tree') /\ NoNewDir(before, tree') /\ AllFiles(before, tree')
<1>1. /\ arg.path \in DOMAIN tree /\ arg.path \in Seq(Names) /\ arg.path \in Named
      /\ Target \in Seq(Names) /\ Target \notin DOMAIN tree /\ IsDir(tree, Front(Target))
      /\ tree' = Renamed(tree, arg.path, Target) \/ tree' = Linked(tree, arg.path, Target)
  BY RenameEffect DEF RenameIt, Known
<1>2. ~ tree[arg.path].dir
  BY <1>1 DEF Guarded, Safe, NoNewDir
<1>3. IsTree(tree) /\ DOMAIN tree \subseteq Seq(Names)
  BY DEF Safe, Known
<1>4. IsTree(tree') /\ NoNewDir(tree, tree') /\ AllFiles(tree, tree')
  BY <1>1, <1>2, <1>3, FileRenamedTree
<1>5. AllFiles(before, tree')
  <2> SUFFICES ASSUME NEW q \in DOMAIN before, ~ before[q].dir
               PROVE  \E r \in DOMAIN tree' : ~ tree'[r].dir /\ tree'[r].data = before[q].data
    BY DEF AllFiles
  <2>1. PICK r \in DOMAIN tree : ~ tree[r].dir /\ tree[r].data = before[q].data
    BY DEF Safe, AllFiles
  <2> QED BY <2>1, <1>4 DEF AllFiles
<1>6. NoNewDir(before, tree')
  BY <1>4 DEF Safe, NoNewDir, IsDir
<1> QED BY <1>4, <1>5, <1>6

LEMMA NextProtected == Known /\ Protected /\ [Next]_vars => Protected'
<1> SUFFICES ASSUME Known, Protected, [Next]_vars, Guarded' PROVE Safe'
  BY DEF Protected
<1>1. before' = before /\ cmd' = cmd /\ overwrite' = overwrite
  BY DEF Next, Start, Next1, NoMore, StatTarget, UnlinkTarget, RenameIt, vars
<1>2. Guarded /\ Safe
  BY <1>1 DEF Guarded, Named, Protected
<1>3. at' # "unlink"
  BY <1>2 DEF Next, Start, Next1, NoMore, StatTarget, Fail, UnlinkTarget, RenameIt, vars, Guarded, Safe
<1>4. CASE tree' = tree
  BY <1>1, <1>2, <1>3, <1>4 DEF Safe
<1>5. CASE tree' # tree
  <2>1. RenameIt
    BY <1>2, <1>5 DEF Next, Start, Next1, NoMore, StatTarget, UnlinkTarget, vars, Safe
  <2> QED BY <1>1, <1>2, <1>3, <1>5, <2>1, RenameSafe DEF Safe
<1> QED BY <1>4, <1>5

(* mv -n loses no file as long as it moves no directory, whatever fails: it  *)
(* never removes anything, and a rename, even one that stops half-way, does  *)
(* not go to a name that is taken, nor below the file that is moved.         *)
THEOREM MoveProtects == Spec => []NoClobberLosesNothing
<1>1. Init => Protected
  <2> SUFFICES ASSUME Init PROVE Safe
    BY DEF Protected
  <2>1. before = tree /\ at = "start" /\ tree \in InitTrees
    BY DEF Init
  <2> QED BY <2>1, MoveAssumption DEF Safe, AllFiles, NoNewDir, IsDir
<1>2. Protected => NoClobberLosesNothing
  <2> SUFFICES ASSUME Protected, Guarded PROVE Contents(before) \subseteq Contents(tree)
    BY DEF NoClobberLosesNothing, Guarded
  <2>1. AllFiles(before, tree)
    BY DEF Protected, Safe
  <2> QED BY <2>1 DEF AllFiles, Contents
<1> QED BY <1>1, <1>2, InitKnown, NextKnown, NextProtected, PTL DEF Spec

-----------------------------------------------------------------------------
(* The types, and that the volume stays a tree, whatever is moved where.     *)
Shape ==
  /\ DOMAIN before \subseteq Seq(Names)
  /\ TypeOK

LEMMA TreeKept ==
  ASSUME Known, IsTree(tree), UnlinkTarget \/ RenameIt
  PROVE  IsTree(tree')
<1>1. DOMAIN tree \subseteq Seq(Names)
  BY DEF Known
<1>2. CASE UnlinkTarget
  BY <1>1, <1>2, UnlinkTree DEF UnlinkTarget
<1>3. CASE RenameIt
  <2>1. CASE tree' = tree
    BY <2>1
  <2>2. CASE tree' # tree
    <3>1. /\ arg.path \in Seq(Names) /\ Target \in Seq(Names) /\ arg.path # Target
          /\ Target \notin DOMAIN tree /\ IsDir(tree, Front(Target))
          /\ \/ tree' = Renamed(tree, arg.path, Target)
             \/ ~ IsPrefix(arg.path, Target) /\ tree' = Linked(tree, arg.path, Target)
      BY <1>3, <2>2, RenameEffect DEF RenameIt, Known
    <3>2. arg.path # <<>>
      BY <1>3, <2>2, RenameEffect
    <3> QED BY <1>1, <3>1, <3>2, RenamedTree
  <2> QED BY <2>1, <2>2
<1> QED BY <1>2, <1>3

LEMMA ShapeInit == Init => Shape
<1> SUFFICES ASSUME Init PROVE Shape
  OBVIOUS
<1>1. /\ tree \in InitTrees /\ before = tree /\ at = "start" /\ arg = NoArg
      /\ failing \in BOOLEAN /\ overwrite \in BOOLEAN /\ toDir = FALSE /\ err = FALSE
  BY DEF Init
<1>2. IsTree(tree) /\ DOMAIN tree \subseteq Seq(Names)
  BY <1>1, MoveAssumption
<1>3. arg.kind = "none"
  BY <1>1 DEF NoArg
<1>4. IsTree(before) /\ DOMAIN before \subseteq Seq(Names)
  BY <1>1, <1>2
<1> QED BY <1>1, <1>2, <1>3, <1>4 DEF Shape, TypeOK

LEMMA ShapeNext == Known /\ Shape /\ [Next]_vars => Shape'
<1> SUFFICES ASSUME Known, Shape, [Next]_vars PROVE Shape'
  OBVIOUS
<1>1. CASE Start
  <2>1. PICK a \in TargetArg(tree, files, cmd.target, failing) :
          /\ toDir' = (cmd.target.slash \/ a.kind = "dir")
          /\ at' = IF a.err THEN "exit" ELSE "next"
          /\ err' = a.err
    BY <1>1 DEF Start
  <2>2. a.err \in BOOLEAN
    BY NextArgError DEF TargetArg
  <2>3. toDir' \in BOOLEAN /\ err' \in BOOLEAN /\ at' \in {"exit", "next"}
    <3>1. cmd.target.slash \in BOOLEAN
      BY MoveAssumption DEF Known, Word
    <3> QED BY <2>1, <2>2, <3>1
  <2>4. UNCHANGED <<tree, failing, overwrite, arg, before>>
    BY <1>1 DEF Start
  <2> QED BY <2>3, <2>4 DEF Shape, TypeOK
<1>2. CASE Next1
  <2>1. PICK a \in NextArg(tree, files, enum, failing) :
          /\ arg' = [path |-> a.path, kind |-> a.kind]
          /\ err' = (err \/ a.err)
          /\ at' = IF Found(a) THEN "stat" ELSE "next"
    BY <1>2 DEF Next1
  <2>2. enum.todo # <<>> \/ enum.listing # {}
    BY <1>2 DEF Next1, Done
  <2>3. a.err \in BOOLEAN /\ a.kind \in {"none", "file", "dir"}
    BY <2>2, NextArgError, NextArgKind DEF Known
  <2>4. arg'.kind = a.kind /\ err' \in BOOLEAN /\ at' \in {"stat", "next"} /\ (at' = "stat" => a.kind # "none")
    BY <2>1, <2>3 DEF Found, Shape, TypeOK
  <2>5. UNCHANGED <<tree, failing, overwrite, toDir, before>>
    BY <1>2 DEF Next1
  <2> QED BY <2>3, <2>4, <2>5 DEF Shape, TypeOK
<1>3. CASE NoMore
  BY <1>3 DEF NoMore, Shape, TypeOK
<1>4. CASE StatTarget
  <2>1. /\ UNCHANGED <<tree, failing, overwrite, toDir, arg, before>> /\ at = "stat"
        /\ at' \in {"rename", "next", "unlink"} /\ err' \in BOOLEAN
    BY <1>4 DEF StatTarget, Fail, Shape, TypeOK
  <2> QED BY <2>1 DEF Shape, TypeOK
<1>5. CASE UnlinkTarget
  <2>1. /\ UNCHANGED <<failing, overwrite, toDir, arg, before>> /\ at = "unlink"
        /\ at' \in {"rename", "next"} /\ err' \in BOOLEAN
    BY <1>5 DEF UnlinkTarget, Fail, Shape, TypeOK
  <2> QED BY <1>5, <2>1, TreeKept DEF Shape, TypeOK
<1>6. CASE RenameIt
  <2>1. /\ UNCHANGED <<failing, overwrite, toDir, arg, before>> /\ at' = "next" /\ err' \in BOOLEAN
    BY <1>6 DEF RenameIt, Shape, TypeOK
  <2> QED BY <1>6, <2>1, TreeKept DEF Shape, TypeOK
<1>7. CASE UNCHANGED vars
  BY <1>7 DEF vars, Shape, TypeOK
<1> QED BY <1>1, <1>2, <1>3, <1>4, <1>5, <1>6, <1>7 DEF Next

(* The types of mv's state; and the volume is a tree after every step: after *)
(* a rename that stopped half-way, and after one that took a directory below *)
(* itself, which loses the directory but leaves nothing without a parent.    *)
THEOREM MoveTypes == Spec => []TypeOK
<1>1. Shape => TypeOK
  BY DEF Shape
<1> QED BY <1>1, InitKnown, NextKnown, ShapeInit, ShapeNext, PTL DEF Spec

-----------------------------------------------------------------------------
(* What the command has dealt with, on a sound medium and without an error.  *)
(* Home is the directory it moves to, and InHome says that p is a place it   *)
(* moves to.  An argument that is still there is still to come; so is one    *)
(* that is such a place, as long as Home is there: it would be moved to      *)
(* itself, which fails.  And as long as Home is there, so is whatever was    *)
(* there before in a place the command moves to, a directory as a directory, *)
(* but for the place that was made free for the argument at hand.            *)
Home(d, g) == IF d THEN g ELSE Front(g)
InHome(d, g, p) == IF d THEN p # <<>> /\ Front(p) = g ELSE p = g

Pending(e, where, p) == Awaits(e) \cup (IF where \in {"stat", "unlink", "rename"} THEN {p} ELSE {})
Free(where, p) == IF where = "rename" THEN {p} ELSE {}

Handled(named, b, t, d, g, pend) ==
  \A p \in named \cap DOMAIN b :
    p \in DOMAIN t \/ (InHome(d, g, p) /\ IsDir(t, Home(d, g))) => p \in pend

Standing(b, t, d, g, free) ==
  IsDir(t, Home(d, g)) =>
    \A p \in DOMAIN b : InHome(d, g, p) =>
      (p \in DOMAIN t \/ p \in free) /\ (b[p].dir => IsDir(t, p))

Sound == overwrite /\ ~ failing /\ ~ err

Accounted ==
  /\ at = "start" => tree = before
  /\ Sound /\ at # "start" =>
       /\ Handled(Named, before, tree, toDir, target, Pending(enum, at, arg.path))
       /\ Standing(before, tree, toDir, target, Free(at, Target))
       /\ at = "rename" => Target \notin DOMAIN tree
       /\ at = "unlink" => Target \in DOMAIN tree /\ ~ tree[Target].dir
       /\ at = "exit" => Done(enum)

LEMMA StartAccounted ==
  ASSUME Known, Shape, Accounted, Start
  PROVE  Accounted'
<1>1. /\ tree' = tree /\ before' = before /\ cmd' = cmd /\ enum' = Enumeration(cmd.args)
      /\ tree = before /\ at' \in {"exit", "next"} /\ Named' = Named
      /\ at' = "exit" => err'
  BY DEF Start, Accounted, Named
<1>2. Awaits(enum') = Named
  BY <1>1, AwaitsLine DEF Named
<1>3. Handled(Named, before, tree, toDir', target', Pending(enum', at', arg'.path))
  BY <1>2 DEF Handled, Pending
<1>4. Standing(before, tree, toDir', target', Free(at', Target'))
  BY <1>1 DEF Standing, IsDir
<1> QED BY <1>1, <1>3, <1>4 DEF Accounted, Sound

LEMMA Next1Accounted ==
  ASSUME Known, Shape, Accounted, Next1
  PROVE  Accounted'
<1>1. PICK a \in NextArg(tree, files, enum, failing) :
          /\ enum' = a.enum
          /\ arg' = [path |-> a.path, kind |-> a.kind]
          /\ err' = (err \/ a.err)
          /\ at' = IF Found(a) THEN "stat" ELSE "next"
  BY DEF Next1
<1>2. /\ UNCHANGED <<tree, before, failing, overwrite, toDir, target>> /\ Named' = Named
      /\ at = "next" /\ at' \in {"stat", "next"} /\ (enum.todo # <<>> \/ enum.listing # {})
  BY DEF Next1, Named, Done
<1> SUFFICES ASSUME Sound'
    PROVE  /\ Handled(Named, before, tree, toDir, target, Pending(enum', at', arg'.path))
           /\ Standing(before, tree, toDir, target, {})
  BY <1>2 DEF Accounted, Free
<1>3. Sound /\ failing = FALSE /\ a.err = FALSE
  <2>1. a.err \in BOOLEAN
    BY NextArgError
  <2> QED BY <1>1, <1>2, <2>1 DEF Sound, Shape, TypeOK
<1>4. /\ Handled(Named, before, tree, toDir, target, Awaits(enum))
      /\ Standing(before, tree, toDir, target, {})
  BY <1>2, <1>3 DEF Accounted, Pending, Free
<1>5. Outstanding(enum, a, tree)
  BY <1>2, <1>3, NextArgAwaits DEF Known
<1>6. arg'.path = a.path /\ (a.kind # "none" => at' = "stat")
  BY <1>1 DEF Found
<1>7. ASSUME NEW p \in Named \cap DOMAIN before,
             p \in DOMAIN tree \/ (InHome(toDir, target, p) /\ IsDir(tree, Home(toDir, target)))
      PROVE  p \in Pending(enum', at', arg'.path)
  <2>1. p \in Awaits(enum) /\ p \in DOMAIN tree
    BY <1>4, <1>7 DEF Handled, Standing
  <2>2. p \in Awaits(a.enum) \/ (p = a.path /\ a.kind # "none")
    BY <1>5, <2>1 DEF Outstanding
  <2> QED BY <1>1, <1>6, <2>2 DEF Pending
<1> QED BY <1>4, <1>7 DEF Handled

LEMMA NoMoreAccounted ==
  ASSUME Accounted, NoMore
  PROVE  Accounted'
<1>1. /\ UNCHANGED <<tree, before, failing, overwrite, err, toDir, target, arg, enum>>
      /\ at = "next" /\ at' = "exit" /\ Done(enum) /\ Named' = Named /\ Target' = Target
  BY DEF NoMore, Named, Target
<1>2. Pending(enum, "next", arg.path) = Pending(enum, "exit", arg.path) /\ Free("next", Target) = Free("exit", Target)
  BY DEF Pending, Free
<1> QED BY <1>1, <1>2 DEF Accounted, Sound, Done

LEMMA StatAccounted ==
  ASSUME Shape, Accounted, StatTarget
  PROVE  Accounted'
<1>1. /\ UNCHANGED <<tree, before, failing, overwrite, toDir, target, arg, enum>>
      /\ at = "stat" /\ at' \in {"rename", "next", "unlink"} /\ Named' = Named /\ Target' = Target
  BY DEF StatTarget, Fail, Named, Target
<1> SUFFICES ASSUME Sound'
    PROVE  /\ Handled(Named, before, tree, toDir, target, Pending(enum, at', arg.path))
           /\ Standing(before, tree, toDir, target, Free(at', Target))
           /\ at' = "rename" => Target \notin DOMAIN tree
           /\ at' = "unlink" => Target \in DOMAIN tree /\ ~ tree[Target].dir
  BY <1>1 DEF Accounted
<1>2. PICK res \in Stat(tree, Target, failing) :
        /\ at' \in {"rename", "unlink"} /\ UNCHANGED err
        /\ at' = "rename" => res = "FR_NO_FILE"
        /\ at' = "unlink" => res = "FR_OK" /\ ~ tree[Target].dir
  BY <1>1 DEF StatTarget, Fail, Sound
<1>3. Sound /\ failing = FALSE
  BY <1>1, <1>2 DEF Sound, Shape, TypeOK
<1>4. res = "FR_NO_FILE" => Target \notin DOMAIN tree
  BY <1>2, <1>3 DEF Stat, FollowPath
<1>5. res = "FR_OK" => Target \in DOMAIN tree
  BY <1>2, <1>3 DEF Stat, FollowPath
<1>6. Pending(enum, at', arg.path) = Pending(enum, at, arg.path) /\ Free(at, Target) \subseteq Free(at', Target)
  BY <1>1, <1>2 DEF Pending, Free
<1>7. /\ Handled(Named, before, tree, toDir, target, Pending(enum, at, arg.path))
      /\ Standing(before, tree, toDir, target, Free(at, Target))
  BY <1>1, <1>3 DEF Accounted
<1>8. Standing(before, tree, toDir, target, Free(at', Target))
  BY <1>6, <1>7 DEF Standing
<1> QED BY <1>2, <1>4, <1>5, <1>6, <1>7, <1>8

LEMMA UnlinkAccounted ==
  ASSUME Shape, Accounted, UnlinkTarget
  PROVE  Accounted'
<1>1. /\ UNCHANGED <<before, failing, overwrite, toDir, target, arg, enum>>
      /\ at = "unlink" /\ at' \in {"rename", "next"} /\ Named' = Named /\ Target' = Target
  BY DEF UnlinkTarget, Fail, Named, Target
<1> SUFFICES ASSUME Sound'
    PROVE  /\ Handled(Named, before, tree', toDir, target, Pending(enum, at', arg.path))
           /\ Standing(before, tree', toDir, target, Free(at', Target))
           /\ at' = "rename" /\ Target \notin DOMAIN tree'
  BY <1>1 DEF Accounted
<1>2. PICK o \in Unlink(tree, files, Target, failing) :
        tree' = o.tree /\ o.res = "FR_OK" /\ at' = "rename" /\ UNCHANGED err
  BY <1>1 DEF UnlinkTarget, Fail, Sound
<1>3. Sound /\ failing = FALSE
  BY <1>1, <1>2 DEF Sound, Shape, TypeOK
<1>4. tree' = Without(tree, Target)
  BY <1>2, <1>3 DEF Unlink
<1>5. /\ Handled(Named, before, tree, toDir, target, Pending(enum, at, arg.path))
      /\ Standing(before, tree, toDir, target, {})
      /\ Target \in DOMAIN tree /\ ~ tree[Target].dir
  BY <1>1, <1>3 DEF Accounted, Free
<1>6. DOMAIN tree' = DOMAIN tree \ {Target} /\ \A q \in DOMAIN tree \ {Target} : tree'[q] = tree[q]
  BY <1>4, WithoutOne
<1>7. \A q : IsDir(tree', q) <=> IsDir(tree, q)
  BY <1>5, <1>6 DEF IsDir
<1>8. Pending(enum, at', arg.path) = Pending(enum, at, arg.path) /\ Free(at', Target) = {Target}
  BY <1>1, <1>2 DEF Pending, Free
<1>9. Handled(Named, before, tree', toDir, target, Pending(enum, at', arg.path))
  BY <1>5, <1>6, <1>7, <1>8 DEF Handled
<1>10. Standing(before, tree', toDir, target, Free(at', Target))
  BY <1>5, <1>6, <1>7, <1>8 DEF Standing
<1> QED BY <1>2, <1>6, <1>9, <1>10

(* The place an argument is moved to is one of those in Home.                *)
LEMMA TargetInHome ==
  ASSUME Known, at \in {"stat", "unlink", "rename"}, arg.path # <<>>
  PROVE  /\ InHome(toDir, target, Target) /\ Front(Target) = Home(toDir, target)
         /\ InHome(toDir, target, arg.path) => arg.path = Target
<1>1. target \in Seq(Names) /\ arg.path \in Seq(Names)
  BY DEF Known
<1>2. Last(arg.path) \in Names /\ arg.path = Append(Front(arg.path), Last(arg.path))
  BY <1>1, FrontAndLast
<1>3. /\ Front(Append(target, Last(arg.path))) = target
      /\ Append(target, Last(arg.path)) # <<>>
  BY <1>1, <1>2, FrontOfAppend
<1> QED BY <1>2, <1>3 DEF InHome, Home, Target

LEMMA RenameAccounted ==
  ASSUME Known, Shape, Accounted, RenameIt
  PROVE  Accounted'
<1>1. /\ UNCHANGED <<before, failing, overwrite, toDir, target, arg, enum>>
      /\ at = "rename" /\ at' = "next" /\ Named' = Named
  BY DEF RenameIt, Named
<1> SUFFICES ASSUME Sound'
    PROVE  /\ Handled(Named, before, tree', toDir, target, Awaits(enum))
           /\ Standing(before, tree', toDir, target, {})
  BY <1>1 DEF Accounted, Pending, Free
<1>2. PICK o \in Rename(tree, files, arg.path, Target, failing) :
        tree' = o.tree /\ err' = (err \/ o.res # "FR_OK")
  BY DEF RenameIt
<1>3. Sound /\ failing = FALSE /\ o.res = "FR_OK"
  BY <1>1, <1>2 DEF Sound, Shape, TypeOK
<1> DEFINE old == arg.path
           new == Target
           home == Home(toDir, target)
<1>4. /\ Handled(Named, before, tree, toDir, target, Awaits(enum) \cup {old})
      /\ Standing(before, tree, toDir, target, {new})
      /\ new \notin DOMAIN tree
  BY <1>1, <1>3 DEF Accounted, Pending, Free
<1>5. old \in DOMAIN tree /\ old # new /\ IsDir(tree, Front(new)) /\ tree' = Renamed(tree, old, new) /\ old # <<>>
  <2> HIDE DEF new
  <2>1. RenameResult(tree, files, old, new) = "FR_OK" /\ o.tree = Renamed(tree, old, new)
    BY <1>2, <1>3 DEF Rename, new
  <2>2. FollowPath(tree, old) = "FR_OK" /\ old # <<>>
    BY <2>1 DEF RenameResult
  <2>3. old \in DOMAIN tree
    BY <2>2 DEF FollowPath
  <2>4. old # new
    BY <1>4, <2>3
  <2>5. FollowPath(tree, new) = "FR_NO_FILE"
    BY <2>1, <2>2, <2>4 DEF RenameResult
  <2>6. IsDir(tree, Front(new))
    BY <2>5 DEF FollowPath
  <2> QED BY <1>2, <2>1, <2>2, <2>3, <2>4, <2>6
<1>6. /\ IsTree(tree) /\ DOMAIN tree \subseteq Seq(Names) /\ IsTree(before) /\ DOMAIN before \subseteq Seq(Names)
      /\ old \in Seq(Names) /\ new \in Seq(Names)
  BY <1>1, <1>5, TargetIsGoal DEF Known, Shape, TypeOK
<1>7. InHome(toDir, target, new) /\ Front(new) = home /\ ~ InHome(toDir, target, old)
  BY <1>1, <1>5, TargetInHome DEF Known
<1>8. TakenAway(tree, old, new, tree')
  <2> HIDE DEF old, new
  <2>1. TakenAway(tree, old, new, Renamed(tree, old, new))
    BY <1>4, <1>5, <1>6, RenamedAway
  <2> QED BY <1>5, <2>1
<1>9. IsDir(tree, home)
  BY <1>5, <1>7
<1> HIDE DEF old, new, home
<1>10. ASSUME NEW p \in DOMAIN before, p \in DOMAIN tree', p \notin DOMAIN tree PROVE p = new
  <2>1. IsPrefix(new, p) /\ p \in Seq(Names)
    BY <1>6, <1>8, <1>10 DEF TakenAway
  <2> SUFFICES ASSUME p # new PROVE FALSE
    OBVIOUS
  <2>2. IsDir(before, new)
    BY <1>6, <2>1, AboveIsDir
  <2>3. IsDir(tree, new)
    BY <1>4, <1>7, <1>9, <2>2 DEF Standing, IsDir, home
  <2> QED BY <1>4, <2>3 DEF IsDir
<1>11. ASSUME IsDir(tree', home) PROVE ~ IsPrefix(old, home) /\ new \in DOMAIN tree'
  <2>1. ~ IsPrefix(old, home)
    BY <1>8, <1>9, <1>11 DEF TakenAway, IsDir
  <2>2. ~ IsPrefix(old, new)
    BY <1>5, <1>6, <1>7, <2>1, AboveParent
  <2> QED BY <1>8, <2>1, <2>2 DEF TakenAway
<1>12. ASSUME NEW p \in Named \cap DOMAIN before,
              p \in DOMAIN tree' \/ (InHome(toDir, target, p) /\ IsDir(tree', home))
       PROVE  p \in Awaits(enum)
  <2>1. p # old
    BY <1>7, <1>8, <1>12 DEF TakenAway
  <2>2. p \in DOMAIN tree \/ InHome(toDir, target, p)
    BY <1>7, <1>10, <1>12
  <2>3. p \in Awaits(enum) \cup {old}
    BY <1>4, <1>9, <2>2 DEF Handled, home
  <2> QED BY <2>1, <2>3
<1>13. ASSUME IsDir(tree', home), NEW p \in DOMAIN before, InHome(toDir, target, p)
       PROVE  p \in DOMAIN tree' /\ (before[p].dir => IsDir(tree', p))
  <2>1. (p \in DOMAIN tree \/ p = new) /\ (before[p].dir => IsDir(tree, p))
    BY <1>4, <1>9, <1>13 DEF Standing, home
  <2>2. CASE p = new
    BY <1>4, <1>11, <1>13, <2>1, <2>2 DEF IsDir
  <2>3. CASE p # new
    <3>1. ~ IsPrefix(old, p)
      <4> SUFFICES ASSUME IsPrefix(old, p) PROVE FALSE
        OBVIOUS
      <4>1. p # old /\ p \in Seq(Names)
        BY <1>6, <1>7, <1>13
      <4>2. p # <<>> /\ IsPrefix(old, Front(p))
        BY <1>6, <4>1, AboveParent
      <4>3. Front(p) = home
        BY <1>13 DEF InHome, Home, home
      <4> QED BY <1>11, <1>13, <4>2, <4>3
    <3> QED BY <1>8, <2>1, <2>3, <3>1 DEF TakenAway, IsDir
  <2> QED BY <2>2, <2>3
<1> QED BY <1>12, <1>13 DEF Handled, Standing, home

LEMMA NextAccounted == Known /\ Shape /\ Accounted /\ [Next]_vars => Accounted'
<1> SUFFICES ASSUME Known, Shape, Accounted, [Next]_vars PROVE Accounted'
  OBVIOUS
<1>1. CASE UNCHANGED vars
  <2>1. Named' = Named /\ Target' = Target
    BY <1>1 DEF vars, Named, Target
  <2> QED BY <1>1, <2>1 DEF vars, Accounted, Sound, Done
<1> QED BY <1>1, StartAccounted, Next1Accounted, NoMoreAccounted, StatAccounted, UnlinkAccounted,
           RenameAccounted DEF Next

(* A status of 0 tells the truth, on a sound medium and without -n: every    *)
(* argument that existed is gone from its old place, however the arguments   *)
(* collide, contain each other or have been moved with a directory, and even *)
(* when the directory they were going to was moved below itself and lost.    *)
THEOREM MoveTellsTruth == Spec => []SuccessMeansMoved
<1>1. Init => Accounted
  BY DEF Init, Accounted
<1>2. Accounted => SuccessMeansMoved
  <2> SUFFICES ASSUME Accounted, at = "exit", Sound, NEW p \in Named \cap DOMAIN before
               PROVE  p \notin DOMAIN tree
    BY DEF SuccessMeansMoved, Sound
  <2>1. Handled(Named, before, tree, toDir, target, Pending(enum, at, arg.path)) /\ Done(enum)
    BY DEF Accounted
  <2>2. Pending(enum, at, arg.path) = {}
    <3>1. Range(enum.todo) = {} /\ enum.listing = {}
      BY <2>1, EmptySeq DEF Done, Range
    <3> QED BY <3>1 DEF Pending, Awaits
  <2> QED BY <2>1, <2>2 DEF Handled
<1> QED BY <1>1, <1>2, InitKnown, NextKnown, ShapeInit, ShapeNext, NextAccounted, PTL DEF Spec

=============================================================================
