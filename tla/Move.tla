-------------------------------- MODULE Move --------------------------------
(* The mv command (src/src/cmd_mv.c).  For every argument it works out the   *)
(* target, looks at it, removes what is there (unless -n) and renames: three *)
(* calls on the volume, each of which may fail after the ones before it have *)
(* changed something.                                                        *)
EXTENDS Arguments

CONSTANTS
  Names,      \* the names an entry can have
  InitTrees,  \* the volumes mv may be run on
  Commands    \* the commands: [args, target] records

ASSUME MoveAssumption ==
  /\ \A t \in InitTrees : IsTree(t) /\ DOMAIN t \subseteq Seq(Names)
  /\ \A c \in Commands : c.args \in Seq(Word(Names)) /\ c.target \in Word(Names)

VARIABLES
  tree, files,  \* the volume and its open objects, all of them the host's
  failing,      \* TRUE: any access to the medium may fail
  at,           \* where the command is
  cmd,          \* the command line
  overwrite,    \* optOverwrite
  target, toDir,\* szTarget as first set, bTargetIsDir
  enum,         \* the enumeration of the arguments
  arg,          \* the argument being moved
  err,          \* TRUE: the exit status will not be 0
  before        \* history: the volume when the command started

vars == <<tree, files, failing, at, cmd, overwrite, target, toDir, enum, arg, err, before>>

NoArg == [path |-> <<>>, kind |-> "none"]

Init ==
  /\ tree \in InitTrees
  /\ \E p \in {q \in DOMAIN tree : ~ tree[q].dir} :
       files \in {[o \in {} |-> 0], [o \in {Entry(p)} |-> 1]}
  /\ failing \in BOOLEAN
  /\ at = "start"
  /\ cmd \in Commands
  /\ overwrite \in BOOLEAN
  /\ target = <<>> /\ toDir = FALSE
  /\ enum = Enumeration(<<>>)
  /\ arg = NoArg
  /\ err = FALSE
  /\ before = tree

(* The name of the argument, put where the command was started.              *)
TargetHere == IF toDir THEN <<Last(arg.path)>> ELSE target

(* szTarget: below the directory the target names, or the target itself.     *)
Target == IF toDir THEN Append(target, Last(arg.path)) ELSE target

(* The last argument is looked up first.                                     *)
Start ==
  /\ at = "start"
  /\ \E a \in TargetArg(tree, files, cmd.target, failing) :
       /\ target' = a.path
       /\ toDir' = (cmd.target.slash \/ a.kind = "dir")
       /\ at' = IF a.err THEN "exit" ELSE "next"
       /\ err' = a.err
  /\ enum' = Enumeration(cmd.args)
  /\ UNCHANGED <<tree, files, failing, cmd, overwrite, arg, before>>

(* Does the argument name something (pfi)?  A caller may forget to ask.       *)
FoundUnasked(a) == TRUE
Found(a) == a.kind # "none"

(* next_arg.  An argument that names nothing is reported, and forgotten.     *)
Next1 ==
  /\ at = "next"
  /\ ~ Done(enum)
  /\ \E a \in NextArg(tree, files, enum, failing) :
       /\ enum' = a.enum
       /\ arg' = [path |-> a.path, kind |-> a.kind]
       /\ err' = (err \/ a.err)
       /\ at' = IF Found(a) THEN "stat" ELSE "next"
  /\ UNCHANGED <<tree, files, failing, cmd, overwrite, target, toDir, before>>

NoMore ==
  /\ at = "next"
  /\ Done(enum)
  /\ at' = "exit"
  /\ UNCHANGED <<tree, files, failing, cmd, overwrite, target, toDir, enum, arg, err, before>>

Fail == at' = "next" /\ err' = TRUE

StatTarget ==
  /\ at = "stat"
  /\ \E res \in Stat(tree, Target, failing) :
       \/ /\ res = "FR_NO_FILE"
          /\ at' = "rename"
          /\ UNCHANGED err
       \/ /\ res \notin {"FR_OK", "FR_NO_FILE"}
          /\ Fail
       \/ /\ res = "FR_OK" /\ ~ overwrite
          /\ at' = "next"
          /\ UNCHANGED err
       \/ /\ res = "FR_OK" /\ overwrite /\ tree[Target].dir
          /\ Fail
       \/ /\ res = "FR_OK" /\ overwrite /\ ~ tree[Target].dir
          /\ at' = "unlink"
          /\ UNCHANGED err
  /\ UNCHANGED <<tree, files, failing, cmd, overwrite, target, toDir, enum, arg, before>>

UnlinkTarget ==
  /\ at = "unlink"
  /\ \E o \in Unlink(tree, files, Target, failing) :
       /\ tree' = o.tree
       /\ IF o.res = "FR_OK" THEN at' = "rename" /\ UNCHANGED err ELSE Fail
  /\ UNCHANGED <<files, failing, cmd, overwrite, target, toDir, enum, arg, before>>

(* A rename whose failure is not noted.                                      *)
RenameItQuietly ==
  /\ at = "rename"
  /\ \E o \in Rename(tree, files, arg.path, Target, failing) : tree' = o.tree
  /\ at' = "next"
  /\ UNCHANGED <<files, failing, cmd, overwrite, target, toDir, enum, arg, err, before>>

RenameIt ==
  /\ at = "rename"
  /\ \E o \in Rename(tree, files, arg.path, Target, failing) :
       /\ tree' = o.tree
       /\ at' = "next"
       /\ err' = (err \/ o.res # "FR_OK")
  /\ UNCHANGED <<files, failing, cmd, overwrite, target, toDir, enum, arg, before>>

Next == Start \/ Next1 \/ NoMore \/ StatTarget \/ UnlinkTarget \/ RenameIt

(* The command runs to its exit: one thread, and the medium answers.         *)
Spec == Init /\ [][Next]_vars /\ WF_vars(Next)

-----------------------------------------------------------------------------
(* Properties.                                                               *)

Contents(t) == {t[p].data : p \in {q \in DOMAIN t : ~ t[q].dir}}

(* The paths that the command line names, and where they are to go.          *)
Named == NamedBy(cmd.args)
Goals == LET tops == NamedBy(<<cmd.target>>)
         IN  tops \cup {Append(t, Last(p)) : t \in tops, p \in Named}

TypeOK ==
  /\ IsTree(tree) /\ IsTree(before)
  /\ at \in {"start", "next", "stat", "unlink", "rename", "exit"}
  /\ {overwrite, toDir, err, failing} \subseteq BOOLEAN
  /\ arg.kind \in {"none", "file", "dir"}
  /\ at \in {"stat", "unlink", "rename"} => arg.kind # "none"

(* -n protects what is there: as long as no directory is moved, no file of   *)
(* the volume is lost, whatever fails and in whatever order the arguments    *)
(* collide with each other or with what they leave behind.                   *)
NoClobberLosesNothing ==
  ~ overwrite /\ (\A p \in Named : ~ IsDir(before, p)) =>
    Contents(before) \subseteq Contents(tree)

(* mv touches what its command line names, and nothing else: a path that is  *)
(* neither a target nor inside an argument keeps its node.                   *)
BystandersUntouched ==
  \A p \in DOMAIN before :
    p \notin Goals /\ (\A q \in Named : ~ IsPrefix(q, p)) =>
      p \in DOMAIN tree /\ tree[p] = before[p]

(* Exit status 0, on a sound medium and without -n, means that every         *)
(* argument that existed was taken away from its old place, and that nothing *)
(* has been moved there since.                                               *)
SuccessMeansMoved ==
  at = "exit" /\ ~ err /\ overwrite /\ ~ failing =>
    \A p \in Named \cap DOMAIN before : p \notin DOMAIN tree

(* The target is unlinked before the rename, which can fail: then a file is  *)
(* gone and nothing is in its place, on a medium of any kind.  That never    *)
(* goes unreported: with exit status 0 every file whose contents are gone    *)
(* has a successor, in its own place or in one it could have been moved to.  *)
(* (Lines that name something above a target are left out: moved below       *)
(* itself, it is cut off with all that is in it, see LostOnlyToASuccessor.)  *)
GoalsOf(p) == LET tops == NamedBy(<<cmd.target>>) IN tops \cup {Append(t, Last(p)) : t \in tops}

LossIsReported ==
  at = "exit" /\ ~ err /\ (\A p \in Named, g \in Goals : ~ IsStrictPrefix(p, g)) =>
    \A p \in DOMAIN before :
      ~ before[p].dir /\ before[p].data \notin Contents(tree) =>
        \E q \in DOMAIN tree \cap ({p} \cup GoalsOf(p)) : ~ tree[q].dir

(* mv comes to its end: every listing and every list of arguments is used up. *)
Terminates == <>(at = "exit")

(* On a sound medium, with nothing held open, a file is lost only to another *)
(* one: something stands in its place, or in a place the command moves to    *)
(* under its name.                                                           *)
LostOnlyToASuccessor ==
  at = "exit" /\ ~ failing /\ DOMAIN files = {} =>
    \A p \in DOMAIN before :
      ~ before[p].dir /\ before[p].data \notin Contents(tree) =>
        \E q \in DOMAIN tree \cap ({p} \cup Goals) : ~ tree[q].dir /\ Last(q) = Last(p)

=============================================================================
