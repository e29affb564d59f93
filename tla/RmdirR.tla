------------------------------- MODULE RmdirR -------------------------------
(* f_rmdir_r of src/src/ffex.c: the removal of a directory and of all that   *)
(* is in it, with the table of open objects as its scarce resource.  The C   *)
(* recursion is a stack of frames, one per active call.  The callback that   *)
(* the function runs before every entry belongs to the host program, which   *)
(* may open and close files of its own there.                                *)
EXTENDS FatFs

CONSTANTS
  Names,      \* the names an entry can have
  InitTrees,  \* the trees the volume may hold at the start
  Faulty,     \* TRUE: any access to the medium may fail
  HostMax     \* the most files the host holds open at a time (a bound)

ASSUME RmdirAssumption ==
  /\ \A t \in InitTrees : IsTree(t) /\ DOMAIN t \subseteq Seq(Names)
  /\ Faulty \in BOOLEAN
  /\ HostMax \in Nat

VARIABLES
  tree,    \* the volume
  files,   \* the table of open objects
  host,    \* the files the host holds open for reading
  psz,     \* the path buffer, one for all the active calls
  stack,   \* the active calls of f_rmdir_r, the outermost first
  ret,     \* what the call that returned last returned, "" while none has
  call     \* history: the outermost call's argument, and the volume then

vars == <<tree, files, host, psz, stack, ret, call>>

Idle == stack = <<>>

(* A call: where it is, the directory its DIR object was opened on, whether  *)
(* the object is open (dirOpen), the entries it has read, and the length of  *)
(* its own path in the buffer (pszEnd).                                      *)
Frame == [at : {"open", "progress", "read", "unlink", "child", "retry", "rmdir"},
          dir : Seq(Names), dirOpen : BOOLEAN, seen : SUBSET Names, pszEnd : Nat]

NewFrame == [at |-> "open", dir |-> <<>>, dirOpen |-> FALSE, seen |-> {}, pszEnd |-> 0]

Top == Last(stack)
AtTop(where) == stack # <<>> /\ Top.at = where
(* Its next statement; its call of itself.                                   *)
SetTop(fr) == stack' = [stack EXCEPT ![Len(stack)] = fr]
Suspend(fr) == stack' = Append([stack EXCEPT ![Len(stack)] = fr], NewFrame) /\ ret' = ""

(* Mistakes in the two: nothing trimmed, one segment too many, not closed.   *)
Untrimmed == psz
TrimmedTooFar == SubSeq(psz, 1, Top.pszEnd - 1)
LeftOpen == files

Trimmed == SubSeq(psz, 1, Top.pszEnd)     \* *pszEnd = '\0'
Closed == Closedir(files, Top.dir)        \* f_closedir(&dir)

(* A call that swallows its error.                                           *)
ReturnQuietly(res) == stack' = Front(stack) /\ ret' = "FR_OK"

(* The innermost call returns.                                               *)
Return(res) == stack' = Front(stack) /\ ret' = res

Init ==
  /\ tree \in InitTrees
  /\ files = [o \in {} |-> 0]
  /\ host = {}
  /\ psz = <<>>
  /\ stack = <<>>
  /\ ret = ""
  /\ call = [target |-> <<>>, tree |-> tree, free |-> FF_FS_LOCK]

-----------------------------------------------------------------------------
(* The host opens a file to read, or closes one.                             *)
HostOpens ==
  \E p \in DOMAIN tree \ host :
    /\ Cardinality(host) < HostMax
    /\ ~ tree[p].dir
    /\ ChkShare(files, Entry(p), 0) = "FR_OK"
    /\ host' = host \cup {p}
    /\ files' = IncShare(files, Entry(p), 0)

HostCloses ==
  \E p \in host :
    /\ host' = host \ {p}
    /\ files' = DecShare(files, Entry(p))

HostActs == HostOpens \/ HostCloses

(* Between two calls.                                                        *)
HostBetween == Idle /\ HostActs /\ UNCHANGED <<tree, psz, stack, ret, call>>

(* cmd_rm calls f_rmdir_r for an argument that is a directory.               *)
Call(p) ==
  /\ Idle
  /\ IsDir(tree, p)
  /\ psz' = p
  /\ stack' = <<NewFrame>>
  /\ ret' = ""
  /\ call' = [target |-> p, tree |-> tree, free |-> FreeSlots(files)]
  /\ UNCHANGED <<tree, files, host>>

-----------------------------------------------------------------------------
OpenDir ==
  /\ AtTop("open")
  /\ \E o \in Opendir(tree, files, psz, Faulty) :
       /\ files' = o.files
       /\ IF o.res = "FR_OK"
            THEN /\ SetTop([at |-> "progress", dir |-> psz, dirOpen |-> TRUE,
                            seen |-> {}, pszEnd |-> Len(psz)])
                 /\ UNCHANGED ret
            ELSE Return(o.res)
  /\ UNCHANGED <<tree, host, psz, call>>

(* progress(), when there is one; the host returns from it.                  *)
Progress ==
  /\ AtTop("progress")
  /\ SetTop([Top EXCEPT !.at = "read"])
  /\ HostActs \/ UNCHANGED <<files, host>>
  /\ UNCHANGED <<tree, psz, ret, call>>

Unread == {p \in Children(tree, Top.dir) : Last(p) \notin Top.seen}

(* f_readdir fails, finds the end of the directory, or finds an entry: then  *)
(* its name is appended to the buffer.                                       *)
ReadFails ==
  /\ AtTop("read")
  /\ Faulty
  /\ files' = Closed
  /\ Return("FR_DISK_ERR")
  /\ UNCHANGED <<tree, host, psz, call>>

ReadEnd ==
  /\ AtTop("read")
  /\ Unread = {}
  /\ files' = Closed
  /\ SetTop([Top EXCEPT !.at = "rmdir", !.dirOpen = FALSE])
  /\ UNCHANGED <<tree, host, psz, ret, call>>

ReadEntry ==
  /\ AtTop("read")
  /\ \E p \in Unread :
       LET fr == [Top EXCEPT !.seen = @ \cup {Last(p)}] IN
       /\ psz' = Append(psz, Last(p))
       /\ IF tree[p].dir
            THEN Suspend([fr EXCEPT !.at = "child"])
            ELSE /\ SetTop([fr EXCEPT !.at = "unlink"])
                 /\ UNCHANGED ret
  /\ UNCHANGED <<tree, files, host, call>>

(* The end of an iteration: trim the buffer, then go on, or close and leave. *)
NextEntry(res) ==
  /\ psz' = Trimmed
  /\ IF res = "FR_OK"
       THEN /\ SetTop([Top EXCEPT !.at = "progress"])
            /\ UNCHANGED <<files, ret>>
       ELSE /\ files' = Closed
            /\ Return(res)

UnlinkFile ==
  /\ AtTop("unlink")
  /\ \E o \in Unlink(tree, files, psz, Faulty) :
       /\ tree' = o.tree
       /\ NextEntry(o.res)
  /\ UNCHANGED <<host, call>>

(* The call for a sub-directory returned.                                    *)
ChildReturned ==
  /\ AtTop("child")
  /\ ret # "FR_TOO_MANY_OPEN_FILES"
  /\ NextEntry(ret)
  /\ UNCHANGED <<tree, host, call>>

(* The second try made without giving up the own entry first.                *)
ChildStarvedHolding ==
  /\ AtTop("child")
  /\ ret = "FR_TOO_MANY_OPEN_FILES"
  /\ Suspend([Top EXCEPT !.at = "retry"])
  /\ UNCHANGED <<tree, files, host, psz, call>>

(* No entry was free for it: give up our own and try it again.               *)
ChildStarved ==
  /\ AtTop("child")
  /\ ret = "FR_TOO_MANY_OPEN_FILES"
  /\ files' = Closed
  /\ Suspend([Top EXCEPT !.at = "retry", !.dirOpen = FALSE])
  /\ UNCHANGED <<tree, host, psz, call>>

(* The second try returned: open our directory again, from its start.        *)
RetryReturned ==
  /\ AtTop("retry")
  /\ psz' = Trimmed
  /\ IF ret = "FR_OK"
       THEN \E o \in Opendir(tree, files, Trimmed, Faulty) :
              /\ files' = o.files
              /\ IF o.res = "FR_OK"
                   THEN /\ SetTop([Top EXCEPT !.at = "progress", !.dirOpen = TRUE,
                                              !.dir = Trimmed, !.seen = {}])
                        /\ UNCHANGED ret
                   ELSE Return(o.res)
       ELSE Return(ret) /\ UNCHANGED files
  /\ UNCHANGED <<tree, host, call>>

RemoveSelf ==
  /\ AtTop("rmdir")
  /\ \E o \in Unlink(tree, files, psz, Faulty) :
       /\ tree' = o.tree
       /\ Return(o.res)
  /\ UNCHANGED <<files, host, psz, call>>

-----------------------------------------------------------------------------
Step ==
  \/ OpenDir \/ Progress \/ ReadFails \/ ReadEnd \/ ReadEntry \/ UnlinkFile
  \/ ChildReturned \/ ChildStarved \/ RetryReturned \/ RemoveSelf

Next == Step \/ HostBetween \/ \E p \in DOMAIN tree : Call(p)

(* The function runs to its end: one thread, and the host's callback returns. *)
Spec == Init /\ [][Next]_vars /\ WF_vars(Step)

-----------------------------------------------------------------------------
(* Properties.                                                               *)

Results == {"FR_OK", "FR_DISK_ERR", "FR_NO_FILE", "FR_NO_PATH", "FR_INVALID_NAME",
            "FR_DENIED", "FR_LOCKED", "FR_TOO_MANY_OPEN_FILES"}

(* The shape of the state.                                                   *)
TypeOK ==
  /\ IsTree(tree) /\ DOMAIN tree \subseteq Seq(Names)
  /\ \A o \in DOMAIN files : /\ o[1] \in {"entry", "cluster"} /\ o[2] \in Seq(Names)
                             /\ files[o] \in Nat
  /\ host \subseteq Seq(Names)
  /\ psz \in Seq(Names)
  /\ stack \in Seq(Frame)
  /\ ret \in Results \cup {""}
  /\ call.target \in Seq(Names)

(* f_rmdir_r never leaks an entry of the open-object table, never closes a   *)
(* directory twice and never gives back an entry that is not its own: at     *)
(* every step, on every error path and across every "close, retry, open      *)
(* again", the table holds exactly the host's files and the directories the  *)
(* active calls believe to be open.                                          *)
OpenDirs == {stack[i].dir : i \in {j \in DOMAIN stack : stack[j].dirOpen}}

TableExact ==
  /\ DOMAIN files = {Entry(p) : p \in host} \cup {Cluster(d) : d \in OpenDirs \ {<<>>}}
  /\ \A o \in DOMAIN files : files[o] = 1
  /\ Cardinality(DOMAIN files) <= FF_FS_LOCK

(* All the active calls share one path buffer: whatever the callee appended  *)
(* or trimmed, every call finds its own path below its pszEnd, so the        *)
(* directory it removes at last is the directory it emptied.                 *)
BufferAgrees ==
  \A i \in DOMAIN stack :
    stack[i].at # "open" =>
      /\ SubSeq(psz, 1, stack[i].pszEnd) = stack[i].dir
      /\ i > 1 => Front(stack[i].dir) = stack[i-1].dir
      /\ (i = Len(stack) /\ stack[i].at \in {"progress", "read", "rmdir"}) => psz = stack[i].dir

(* Nothing outside the argument of the outermost call is touched, ever:      *)
(* every path that is not in its subtree keeps its node.                     *)
OutsideUntouched ==
  \A p \in DOMAIN call.tree :
    ~ IsPrefix(call.target, p) => p \in DOMAIN tree /\ tree[p] = call.tree[p]

(* Running out of table entries is no reason to fail: a removal that starts  *)
(* with one free entry gets through a tree of any depth, whatever the host   *)
(* does with the table meanwhile.  Only a locked file, a read-only file that *)
(* is still there, or a disk error stops it; in particular it never tries to *)
(* remove a directory that it has not emptied.                               *)
OnlyFilesStopIt ==
  Idle /\ call.target # <<>> /\ call.free > 0 =>
    /\ ret \in {"", "FR_OK", "FR_LOCKED", "FR_DENIED", "FR_DISK_ERR"}
    /\ ret = "FR_DENIED" => \E p \in Subtree(tree, call.target) : tree[p].rdo

(* f_rmdir_r implements the abstract removal: every step that changes the    *)
(* volume takes one leaf of the argument's subtree (never a read-only one,   *)
(* never a directory with something in it), success is reported only when    *)
(* nothing of the subtree is left, and every call returns, although a        *)
(* starved sub-directory is tried twice at every level and a directory that  *)
(* was closed is read again from its start.                                  *)
Removal == INSTANCE SubtreeRemoval WITH
             target <- call.target,
             busy   <- ~ Idle,
             result <- IF Idle THEN ret ELSE ""

RemovesSubtree == Removal!Spec

=============================================================================
