-------------------------------- MODULE Copy --------------------------------
(* The cp command (src/src/cmd_cp.c): its loop over the arguments, f_copydir *)
(* as a stack of frames, and f_copyfile (src/src/ffex.c) call by call.  The  *)
(* callback it runs now and then belongs to the host program, which may open *)
(* and close files of its own there.                                         *)
EXTENDS Arguments

CONSTANTS
  Names,      \* the names an entry can have
  InitTrees,  \* the volumes cp may be run on
  Commands,   \* the commands: [args, target, recursive] records
  HostMax     \* the most files the host holds open at a time (a bound)

(* Lines that name the root as an argument are left out: cp -r refuses to    *)
(* copy it into itself, and it has no last name to put on a target.          *)
ASSUME CopyAssumption ==
  /\ \A t \in InitTrees : IsTree(t) /\ DOMAIN t \subseteq Seq(Names) /\ IsFiniteSet(DOMAIN t)
  /\ \A c \in Commands :
       /\ c.args \in Seq(Word(Names)) /\ c.target \in Word(Names)
       /\ \A w \in Range(c.args) : w.path # <<>>
  /\ HostMax \in Nat

(* The contents of a file: one chunk per buffer of 16384 bytes; only the     *)
(* last may be a part of a buffer.                                           *)
Full == "full"
Part == "part"

VARIABLES
  tree, files, \* the volume and its table of open objects
  failing,     \* TRUE: any access to the medium may fail, and it may be full
  at,          \* where the command is
  cmd,         \* the command line
  overwrite,   \* optOverwrite
  target, found, toDir, \* the target as first set, bTargetExists, bTargetIsDir
  szTarget,    \* the target buffer: a name appended to it stays until trimmed
  enum, arg,   \* the enumeration, and the argument being copied
  stack,       \* the active calls of f_copydir
  cf,          \* the active call of f_copyfile
  err,         \* TRUE: the exit status will not be 0
  host,        \* the entries of the table that are the host's, open for reading
  called,      \* TRUE: the host is in its callback, PROCESS.progress
  starved,     \* history: how many the host had open when an open failed because
               \* the table was full
  stuck,       \* history: the files whose f_close failed
  before       \* history: the volume when the command started

vars == <<tree, files, failing, at, cmd, overwrite, target, found, toDir, szTarget, enum, arg,
          stack, cf, err, host, called, starved, stuck, before>>
command == <<failing, cmd, overwrite, target, found, toDir, before>>

(* A call of f_copydir: its directories, the names in the source when it was *)
(* opened, those it has read, and whether anything went wrong.               *)
Frame == [dst : Seq(Names), src : Seq(Names), listed : SUBSET Names, seen : SUBSET Names,
          errFlag : BOOLEAN]

NewFrame(dst, src) ==
  [dst |-> dst, src |-> src, listed |-> {}, seen |-> {}, errFlag |-> FALSE]

NoFile == [dst |-> <<>>, src |-> <<>>, pos |-> 1]

Init ==
  /\ tree \in InitTrees
  /\ \E p \in {q \in DOMAIN tree : ~ tree[q].dir} :
       files \in {[o \in {} |-> 0]} \cup (IF HostMax = 0 THEN {} ELSE {[o \in {Entry(p)} |-> 1]})
  /\ host = DOMAIN files
  /\ called = FALSE
  /\ failing \in BOOLEAN
  /\ at = "start"
  /\ cmd \in Commands
  /\ overwrite \in BOOLEAN
  /\ target = <<>> /\ found = FALSE /\ toDir = FALSE
  /\ szTarget = <<>>
  /\ enum = Enumeration(cmd.args)
  /\ arg = [path |-> <<>>, kind |-> "none"]
  /\ stack = <<>>
  /\ cf = NoFile
  /\ err = FALSE /\ starved = {} /\ stuck = {}
  /\ before = tree

Noting(res) ==
  starved' = IF res = "FR_TOO_MANY_OPEN_FILES" THEN starved \cup {Cardinality(host)} ELSE starved

-----------------------------------------------------------------------------
(* cmd_cp.  The target is looked up first.                                   *)
Start ==
  /\ at = "start"
  /\ \E a \in TargetArg(tree, files, cmd.target, failing) :
       /\ target' = a.path
       /\ szTarget' = a.path
       /\ found' = (a.kind # "none")
       /\ toDir' = (cmd.target.slash \/ a.kind = "dir")
       /\ at' = IF a.err THEN "exit" ELSE "next"
       /\ err' = a.err
  /\ UNCHANGED <<tree, files, failing, cmd, overwrite, enum, arg, stack, cf, starved, stuck,
                 before>>

(* The name of the argument goes on the buffer for a file when the target is *)
(* a directory, for a directory only when it also exists.                    *)
NextArgument ==
  /\ at = "next"
  /\ ~ Done(enum)
  /\ \E a \in NextArg(tree, files, enum, failing) :
       LET intoDir == toDir /\ (a.kind = "file" \/ found)
           dst     == IF intoDir THEN Append(target, Last(a.path)) ELSE szTarget
           ignored == a.kind = "none" \/ (a.kind = "dir" /\ ~ cmd.recursive)
       IN
       /\ enum' = a.enum
       /\ arg' = [path |-> a.path, kind |-> a.kind]
       /\ err' = (err \/ a.err)
       /\ IF ignored
            THEN at' = "next" /\ UNCHANGED <<szTarget, cf>>
          ELSE IF a.kind = "file"
            THEN /\ at' = "stat"
                 /\ szTarget' = dst
                 /\ cf' = [dst |-> dst, src |-> a.path, pos |-> 1]
          ELSE /\ szTarget' = dst
               /\ at' = IF found /\ ~ toDir
                          THEN IF overwrite THEN "clear" ELSE "next"
                          ELSE "contains"
               /\ UNCHANGED cf
  /\ UNCHANGED <<tree, files, stack, starved, stuck, command>>

(* A directory over a file that exists: the file is removed, whatever comes  *)
(* of it.                                                                    *)
ClearTarget ==
  /\ at = "clear"
  /\ \E o \in Unlink(tree, files, szTarget, failing) : tree' = o.tree
  /\ at' = "contains"
  /\ UNCHANGED <<files, szTarget, enum, arg, stack, cf, err, starved, stuck, command>>

(* pathcontains: a directory is not copied into itself.                      *)
CopyDirArgument ==
  /\ at = "contains"
  /\ IF IsPrefix(arg.path, szTarget)
       THEN at' = "next" /\ err' = TRUE /\ UNCHANGED stack
       ELSE /\ at' = "mkdir"
            /\ stack' = <<NewFrame(szTarget, arg.path)>>
            /\ UNCHANGED err
  /\ UNCHANGED <<tree, files, szTarget, enum, arg, cf, starved, stuck, command>>

NoMore ==
  /\ at = "next"
  /\ Done(enum)
  /\ at' = "exit"
  /\ UNCHANGED <<tree, files, szTarget, enum, arg, stack, cf, err, starved, stuck, command>>

-----------------------------------------------------------------------------
(* The innermost call returns to the directory that is being copied, or to   *)
(* the command.  `outer` is the stack without the call that returns.         *)
(* (ReturnToQuietly: f_copydir forgetting what went wrong with an entry.)    *)
ReturnToQuietly(outer, failed) ==
  /\ stack' = outer
  /\ IF outer = <<>> THEN at' = "next" /\ err' = (err \/ failed)
                     ELSE at' = "readdir" /\ UNCHANGED err

ReturnTo(outer, failed) ==
  IF outer = <<>>
    THEN /\ at' = "next"
         /\ stack' = outer
         /\ err' = (err \/ failed)
    ELSE /\ at' = "readdir"
         /\ stack' = [outer EXCEPT ![Len(outer)].errFlag = @ \/ failed]
         /\ UNCHANGED err

Top == Last(stack)
NamesIn(t, p) == {Last(q) : q \in Children(t, p)}

(* f_copydir.                                                                *)
MakeDir ==
  /\ at = "mkdir"
  /\ \E o \in Mkdir(tree, Top.dst, failing) :
       /\ tree' = o.tree
       /\ IF o.res \in {"FR_OK", "FR_EXIST"}
            THEN at' = "opendir" /\ UNCHANGED <<stack, err>>
            ELSE ReturnTo(Front(stack), TRUE)
  /\ UNCHANGED <<files, szTarget, enum, arg, cf, starved, stuck, command>>

OpenDir ==
  /\ at = "opendir"
  /\ \E o \in Opendir(tree, files, Top.src, failing) :
       /\ files' = o.files
       /\ Noting(o.res)
       /\ IF o.res = "FR_OK"
            THEN /\ at' = "readdir"
                 /\ stack' = [stack EXCEPT ![Len(stack)].listed = NamesIn(tree, Top.src)]
                 /\ UNCHANGED err
            ELSE ReturnTo(Front(stack), TRUE)
  /\ UNCHANGED <<tree, szTarget, enum, arg, cf, stuck, command>>

(* A directory that is read again and again from its start.                  *)
UnreadAgain == Children(tree, Top.src)

Unread == {p \in Children(tree, Top.src) : Last(p) \notin Top.seen}

(* The entries that are sure to come: those that were there from the start.  *)
(* One made since then comes or not, as its slot is ahead or behind.  (No    *)
(* name is removed and made again in a directory that is being read.)        *)
Awaited == {p \in Unread : Last(p) \in Top.listed}

(* The end of the directory, or a failure to read on.                        *)
LeaveDir ==
  /\ at = "readdir"
  /\ Awaited = {} \/ failing
  /\ \E readFailed \in {x \in BOOLEAN : (x => failing) /\ (~ x => Awaited = {})} :
       ReturnTo(Front(stack), readFailed \/ Top.errFlag)
  /\ files' = Closedir(files, Top.src)
  /\ UNCHANGED <<tree, szTarget, enum, arg, cf, starved, stuck, command>>

(* An entry, with what stands at its target.  With -n whatever exists there  *)
(* is left alone, a directory too; a file never replaces a directory.        *)
CopyEntry ==
  /\ at = "readdir"
  /\ \E p \in Unread :
       LET dst == Append(Top.dst, Last(p))
           seen == [stack EXCEPT ![Len(stack)].seen = @ \cup {Last(p)}]
       IN \E res \in Stat(tree, dst, failing) :
            \/ /\ res = "FR_OK" /\ ~ overwrite
               /\ stack' = seen
               /\ UNCHANGED <<at, cf>>
            \/ /\ res = "FR_OK" /\ overwrite /\ IsDir(tree, dst) /\ ~ IsDir(tree, p)
               /\ stack' = [seen EXCEPT ![Len(stack)].errFlag = TRUE]
               /\ UNCHANGED <<at, cf>>
            \/ /\ res # "FR_OK" \/ (overwrite /\ (IsDir(tree, dst) => IsDir(tree, p)))
               /\ IF tree[p].dir
                    THEN /\ stack' = Append(seen, NewFrame(dst, p))
                         /\ at' = "mkdir"
                         /\ UNCHANGED cf
                    ELSE /\ cf' = [dst |-> dst, src |-> p, pos |-> 1]
                         /\ at' = "stat"
                         /\ stack' = seen
  /\ UNCHANGED <<tree, files, szTarget, enum, arg, err, starved, stuck, command>>

-----------------------------------------------------------------------------
(* f_copyfile.                                                               *)
Leave(failed) == ReturnTo(stack, failed)

(* -n not looked at for a file that is an argument or an entry.              *)
StatDestClobbering ==
  /\ at = "stat"
  /\ \E res \in Stat(tree, cf.dst, failing) :
       IF res = "FR_OK" /\ IsDir(tree, cf.dst)
         THEN Leave(TRUE)
         ELSE at' = "source" /\ UNCHANGED <<stack, err>>
  /\ UNCHANGED <<tree, files, szTarget, enum, arg, cf, starved, stuck, command>>

StatDest ==
  /\ at = "stat"
  /\ \E res \in Stat(tree, cf.dst, failing) :
       \/ /\ res = "FR_OK" /\ ~ overwrite
          /\ Leave(FALSE)
       \/ /\ res = "FR_OK" /\ overwrite /\ IsDir(tree, cf.dst)
          /\ Leave(TRUE)
       \/ /\ res # "FR_OK" \/ (overwrite /\ ~ IsDir(tree, cf.dst))
          /\ at' = "source" /\ UNCHANGED <<stack, err>>
  /\ UNCHANGED <<tree, files, szTarget, enum, arg, cf, starved, stuck, command>>

OpenSource ==
  /\ at = "source"
  /\ \E o \in OpenRead(tree, files, cf.src, failing) :
       /\ files' = o.files
       /\ Noting(o.res)
       /\ IF o.res = "FR_OK" THEN at' = "dest" /\ UNCHANGED <<stack, err>> ELSE Leave(TRUE)
  /\ UNCHANGED <<tree, szTarget, enum, arg, cf, stuck, command>>

OpenDest ==
  /\ at = "dest"
  /\ \E o \in OpenCreate(tree, files, cf.dst, failing) :
       /\ tree' = o.tree
       /\ Noting(o.res)
       /\ IF o.res = "FR_OK"
            THEN files' = o.files /\ at' = "copy" /\ UNCHANGED <<stack, err>>
            ELSE files' = DecShare(o.files, Entry(cf.src)) /\ Leave(TRUE)
  /\ UNCHANGED <<szTarget, enum, arg, cf, stuck, command>>

(* One turn of the loop.  What was read is written; a full volume takes less *)
(* than it was given, which the code does not look at.  The loop ends with   *)
(* the first buffer that is not full.                                        *)
Chunk == IF cf.pos \in DOMAIN tree[cf.src].data THEN tree[cf.src].data[cf.pos] ELSE "none"

CopyChunk ==
  /\ at = "copy"
  /\ \/ /\ failing                       \* f_read or f_write fails
        /\ at' = "undo"
        /\ UNCHANGED <<tree, cf>>
     \/ /\ IF Chunk = "none" THEN UNCHANGED tree
           ELSE \/ tree' = [tree EXCEPT ![cf.dst].data = Append(@, Chunk)]
                \/ failing /\ UNCHANGED tree
        /\ at' = IF Chunk = Full THEN "copy" ELSE "close"
        /\ cf' = [cf EXCEPT !.pos = @ + 1]
  /\ UNCHANGED <<files, szTarget, enum, arg, stack, err, starved, stuck, command>>

(* Only the target closed.                                                   *)
CloseHalf ==
  /\ at \in {"close", "undo"}
  /\ \E f \in Close(files, cf.dst, failing) :
       /\ files' = f
       /\ stuck' = stuck \cup ({Entry(cf.dst)} \cap DOMAIN f)
  /\ at' = IF at = "close" THEN "restat" ELSE "discard"
  /\ UNCHANGED <<tree, szTarget, enum, arg, stack, cf, err, starved, command>>

(* Both ends are closed; nobody looks at whether that worked.                *)
CloseBoth ==
  /\ at \in {"close", "undo"}
  /\ \E f \in Close(DecShare(files, Entry(cf.src)), cf.dst, failing) :
       /\ files' = f
       /\ stuck' = stuck \cup ({Entry(cf.dst)} \cap DOMAIN f)
  /\ at' = IF at = "close" THEN "restat" ELSE "discard"
  /\ UNCHANGED <<tree, szTarget, enum, arg, stack, cf, err, starved, command>>

(* The source is looked up again; its time goes to the target, and then, in  *)
(* a block that no condition guards, the target is removed.                  *)
SetTime ==
  /\ at = "restat"
  /\ \E timeSet \in {TRUE} \cup (IF failing THEN {FALSE} ELSE {}) :
     \E o \in Unlink(tree, files, cf.dst, failing) :
       /\ tree' = o.tree
       /\ Leave(~ timeSet)
  /\ UNCHANGED <<files, szTarget, enum, arg, cf, starved, stuck, command>>

(* The wrong end of a failed copy removed.                                   *)
DiscardSource ==
  /\ at = "discard"
  /\ \E o \in Unlink(tree, files, cf.src, failing) : tree' = o.tree
  /\ Leave(TRUE)
  /\ UNCHANGED <<files, szTarget, enum, arg, cf, starved, stuck, command>>

Discard ==
  /\ at = "discard"
  /\ \E o \in Unlink(tree, files, cf.dst, failing) : tree' = o.tree
  /\ Leave(TRUE)
  /\ UNCHANGED <<files, szTarget, enum, arg, cf, starved, stuck, command>>

-----------------------------------------------------------------------------
(* A statement of the command.                                               *)
Step ==
  \/ Start \/ NextArgument \/ ClearTarget \/ CopyDirArgument \/ NoMore
  \/ MakeDir \/ OpenDir \/ LeaveDir \/ CopyEntry
  \/ StatDest \/ OpenSource \/ OpenDest \/ CopyChunk \/ CloseBoth \/ SetTime \/ Discard

(* The callback is run by f_copyfile after every full buffer, with both ends *)
(* open, and by f_copydir after the call for a directory in it.              *)
Calls ==
  \/ at = "copy" /\ at' = "copy"
  \/ stack' # <<>> /\ Len(stack') < Len(stack)

Command == Step /\ host' = host /\ called' = Calls

(* The host opens a file to read, or closes one, before it returns.          *)
HostOpens ==
  \E p \in DOMAIN tree :
    /\ Cardinality(host) < HostMax
    /\ Entry(p) \notin host
    /\ ~ tree[p].dir
    /\ ChkShare(files, Entry(p), 0) = "FR_OK"
    /\ host' = host \cup {Entry(p)}
    /\ files' = IncShare(files, Entry(p), 0)

HostCloses ==
  \E o \in host :
    /\ host' = host \ {o}
    /\ files' = DecShare(files, o)

Host ==
  /\ called
  /\ HostOpens \/ HostCloses
  /\ UNCHANGED <<tree, at, szTarget, enum, arg, stack, cf, err, called, starved, stuck, command>>

Next == Command \/ Host

(* The command runs to its exit: one thread, the medium answers, and the     *)
(* host returns from its callback, whatever it does in it.                   *)
Spec == Init /\ [][Next]_vars /\ WF_vars(Command)

-----------------------------------------------------------------------------
(* Properties.                                                               *)

Named == NamedBy(cmd.args)
Goals == LET tops == NamedBy(<<cmd.target>>)
         IN  tops \cup {Append(t, Last(p)) : t \in tops, p \in Named}

TypeOK ==
  /\ IsTree(tree)
  /\ at \in {"start", "next", "clear", "contains", "mkdir", "opendir", "readdir", "stat",
            "source", "dest", "copy", "close", "undo", "restat", "discard", "exit"}
  /\ {failing, overwrite, found, toDir, err, called} \subseteq BOOLEAN
  /\ stack \in Seq(Frame)
  /\ cf.pos \in Nat \ {0}
  /\ at \in {"next", "exit", "start"} => stack = <<>>

(* cp gives back every entry of the open-object table it takes, on every     *)
(* error path and at every depth: besides what the host has open there are   *)
(* exactly the directories on the stack, the two ends of the copy that is    *)
(* going on, and the files whose closing failed (for which nobody looks).    *)
OpenDirs == {Cluster(stack[i].src) : i \in {j \in DOMAIN stack :
               j < Len(stack) \/ at \notin {"mkdir", "opendir"}}} \ {Cluster(<<>>)}
OpenFiles == IF at = "dest" THEN {Entry(cf.src)}
             ELSE IF at \in {"copy", "close", "undo"} THEN {Entry(cf.src), Entry(cf.dst)} ELSE {}

TableExact ==
  DOMAIN files = host \cup OpenDirs \cup OpenFiles \cup stuck

(* cp touches its targets and nothing else: a path that is not below a       *)
(* target keeps its node, so the sources are intact, unless a target is one  *)
(* of them.                                                                  *)
BystandersUntouched ==
  \A p \in DOMAIN before :
    (\A g \in Goals : ~ IsPrefix(g, p)) => p \in DOMAIN tree /\ tree[p] = before[p]

(* -n on a sound medium: whatever existed before is still there, unchanged,  *)
(* although the decision to leave it alone is taken in three places.  (A     *)
(* failing f_stat counts as "nothing there", and then -n protects nothing.)  *)
NoClobberKeepsAll ==
  ~ overwrite /\ ~ failing =>
    \A p \in DOMAIN before : p \in DOMAIN tree /\ tree[p] = before[p]

(* readme.md: FF_FS_LOCK has to be large enough to open all nested           *)
(* directories plus 2.  It is: with one entry per level of the deepest       *)
(* argument, two more, and what the host has open at that moment, no open    *)
(* fails for want of an entry.                                               *)
Levels(p) == {Len(q) - Len(p) + 1 : q \in {r \in Subtree(before, p) : before[r].dir}}
Deepest == Max({0} \cup UNION {Levels(p) : p \in Named})

EnoughEntries ==
  ~ failing => \A n \in starved : FF_FS_LOCK < Deepest + 2 + n

(* cp -r that succeeds on a sound medium has made the directory: if the      *)
(* source has anything in it, the same directories exist below the target.   *)
(* (An empty one may be left out: over an existing file, f_mkdir's FR_EXIST  *)
(* is taken for a directory that is already there.)  A source below a target *)
(* is no subject: what was copied over it before its turn may have emptied   *)
(* it, because the target of a copied file is removed.                       *)
Mirrored(b, p, g, dirs) ==
  \A q \in Subtree(b, p) :
    IsDir(b, q) /\ Children(b, q) # {} => g \o SubSeq(q, Len(p) + 1, Len(q)) \in dirs

Dirs(t) == {p \in DOMAIN t : t[p].dir}

Wanted == {p \in Named \cap Dirs(before) : \A g \in Goals : ~ IsPrefix(g, p)}

Skeleton ==
  at = "exit" /\ ~ err /\ ~ failing /\ overwrite /\ cmd.recursive =>
    \A p \in Wanted : \E g \in Goals : Mirrored(before, p, g, Dirs(tree))

(* cp comes to its end, although it may write into directories it has still  *)
(* to read.                                                                  *)
Terminates == <>(at = "exit")

(* A copy that is reported as made is there: exit status 0 on a sound medium *)
(* means that a file that was named exists at a target, with its contents.   *)
CopyIsThere ==
  at = "exit" /\ ~ err /\ ~ failing /\ overwrite =>
    \A p \in Named \cap DOMAIN before : ~ before[p].dir =>
      \E g \in Goals \cap DOMAIN tree : tree[g].data = before[p].data

=============================================================================
