------------------------------- MODULE FatFs -------------------------------
(* One mounted FAT volume, as the code of src/src sees it through the API of *)
(* the vendored FatFs (ff15/source/ff.c).  The module has no variables: a    *)
(* machine that uses the volume keeps                                        *)
(*                                                                           *)
(*   tree    a function from the paths that exist to their nodes; a path is  *)
(*           a sequence of names, <<>> is the root directory of the volume;  *)
(*   files   the table Files[] of open objects (FF_FS_LOCK entries): a       *)
(*           function from the objects that are open to their counter.       *)
(*                                                                           *)
(* Every operator below is one API call: it returns the set of its possible  *)
(* outcomes, one of them the normal one and, on a medium that may fail       *)
(* (faulty), those a disk error leaves behind.                               *)
EXTENDS SequencesExt, Naturals, FiniteSets

CONSTANTS
  FF_FS_LOCK   \* entries of the table of open objects (ffconf.h)

ASSUME SlotsAssumption == FF_FS_LOCK \in Nat \ {0}

-----------------------------------------------------------------------------
(* Nodes.  A file has contents, and AM_RDO or not.                           *)

DirNode == [dir |-> TRUE, rdo |-> FALSE, data |-> <<>>]
FileNode(data, rdo) == [dir |-> FALSE, rdo |-> rdo, data |-> data]

IsDir(t, p) == p \in DOMAIN t /\ t[p].dir
Children(t, d) == {p \in DOMAIN t : p # <<>> /\ Front(p) = d}

(* The paths in the subtree whose top is d, d included.                      *)
Subtree(t, d) == {p \in DOMAIN t : IsPrefix(d, p)}

(* The trees a volume can hold: the root is there, and whatever exists is in *)
(* directories, all the way up.                                              *)
IsTree(t) ==
  /\ IsDir(t, <<>>)
  /\ \A p \in DOMAIN t : \A k \in 0 .. Len(p) - 1 : IsDir(t, SubSeq(p, 1, k))

Without(t, p) == Restrict(t, DOMAIN t \ {p})
With(t, p, node) == [q \in DOMAIN t \cup {p} |-> IF q = p THEN node ELSE t[q]]

(* A path whose directories nobody looks at: a mistake follow_path avoids.    *)
FollowPathBlind(t, p) == IF p \in DOMAIN t THEN "FR_OK" ELSE "FR_NO_FILE"

(* follow_path: the last segment may be missing (FR_NO_FILE); any segment    *)
(* before it must be a directory (FR_NO_PATH).                               *)
FollowPath(t, p) ==
  CASE p \in DOMAIN t                  -> "FR_OK"
    [] p \notin DOMAIN t /\ IsDir(t, Front(p))  -> "FR_NO_FILE"
    [] OTHER                           -> "FR_NO_PATH"

-----------------------------------------------------------------------------
(* The table of open objects.  A file is registered by the place of its      *)
(* entry in its directory, an open directory by its own first cluster: the   *)
(* two never meet, so an open directory is not protected by its registration *)
(* from being removed through its entry.                                     *)

Entry(p) == <<"entry", p>>
Cluster(p) == <<"cluster", p>>

Writing == 256   \* the counter of an object open for writing (0x100)

FreeSlots(f) == FF_FS_LOCK - Cardinality(DOMAIN f)

(* chk_share, acc = 0 to read, 1 to write, 2 to delete or rename.            *)
ChkShare(f, obj, acc) ==
  CASE obj \notin DOMAIN f /\ acc # 2 /\ FreeSlots(f) = 0 -> "FR_TOO_MANY_OPEN_FILES"
    [] obj \in DOMAIN f /\ (acc # 0 \/ f[obj] = Writing)   -> "FR_LOCKED"
    [] OTHER                                               -> "FR_OK"

IncShare(f, obj, acc) ==
  With(f, obj, IF acc # 0 THEN Writing
               ELSE IF obj \in DOMAIN f THEN f[obj] + 1 ELSE 1)

DecShare(f, obj) ==
  IF f[obj] \in {1, Writing} THEN Without(f, obj) ELSE [f EXCEPT ![obj] = @ - 1]

-----------------------------------------------------------------------------
(* f_opendir.  The root directory takes no entry of the table.               *)
OpendirResult(t, f, p) ==
  CASE ~ IsDir(t, p) -> "FR_NO_PATH"
    [] p # <<>> /\ Cluster(p) \notin DOMAIN f /\ FreeSlots(f) = 0
                     -> "FR_TOO_MANY_OPEN_FILES"
    [] IsDir(t, p) /\ (p = <<>> \/ Cluster(p) \in DOMAIN f \/ FreeSlots(f) # 0)
                     -> "FR_OK"

Opendir(t, f, p, faulty) ==
  {[res   |-> OpendirResult(t, f, p),
    files |-> IF OpendirResult(t, f, p) = "FR_OK" /\ p # <<>>
                THEN IncShare(f, Cluster(p), 0) ELSE f]}
  \cup (IF faulty THEN {[res |-> "FR_DISK_ERR", files |-> f]} ELSE {})

(* f_closedir of the directory object opened on p: the table afterwards.     *)
Closedir(f, p) == IF p = <<>> THEN f ELSE DecShare(f, Cluster(p))

(* f_unlink if it forgot that the root directory has no entry to remove.     *)
UnlinkResultOfRoot(t, f, p) ==
  CASE FollowPath(t, p) # "FR_OK" -> FollowPath(t, p)
    [] Entry(p) \in DOMAIN f      -> "FR_LOCKED"
    [] OTHER -> IF t[p].rdo \/ Children(t, p) # {} THEN "FR_DENIED" ELSE "FR_OK"

(* f_unlink; f_rmdir is the same function (ff.h).                            *)
UnlinkResult(t, f, p) ==
  CASE FollowPath(t, p) # "FR_OK" -> FollowPath(t, p)
    [] p = <<>>                   -> "FR_INVALID_NAME"
    [] OTHER ->
         CASE Entry(p) \in DOMAIN f   -> "FR_LOCKED"
           [] Entry(p) \notin DOMAIN f /\ (t[p].rdo \/ Children(t, p) # {}) -> "FR_DENIED"
           [] OTHER                   -> "FR_OK"

(* A disk error is reported before the entry is gone, or after it, while the *)
(* clusters are released and the volume is synchronised.                     *)
Unlink(t, f, p, faulty) ==
  LET res  == UnlinkResult(t, f, p)
      gone == IF res = "FR_OK" THEN Without(t, p) ELSE t
  IN  {[res |-> res, tree |-> gone]}
      \cup (IF faulty THEN {[res |-> "FR_DISK_ERR", tree |-> u] : u \in {t, gone}}
                      ELSE {})

(* f_stat: the root directory has no entry to report (FR_INVALID_NAME).       *)
Stat(t, p, faulty) ==
  {IF p = <<>> THEN "FR_INVALID_NAME" ELSE FollowPath(t, p)}
  \cup (IF faulty THEN {"FR_DISK_ERR"} ELSE {})

(* f_rename.  The new entry is registered and the old one removed; nothing   *)
(* stops a directory from being moved below itself, and then no path leads   *)
(* to it any more.                                                           *)
RenameResult(t, f, old, new) ==
  CASE FollowPath(t, old) # "FR_OK"  -> FollowPath(t, old)
    [] old = <<>>                    -> "FR_INVALID_NAME"
    [] OTHER ->
         CASE Entry(old) \in DOMAIN f -> "FR_LOCKED"
           [] Entry(old) \notin DOMAIN f /\ old # new ->
                IF FollowPath(t, new) = "FR_NO_FILE" THEN "FR_OK"
                ELSE IF FollowPath(t, new) = "FR_OK" THEN "FR_EXIST" ELSE "FR_NO_PATH"
           [] OTHER                  -> "FR_OK"

(* The tree with what is below old also reachable below new.                 *)
Linked(t, old, new) ==
  LET Moved(p) == new \o SubSeq(p, Len(old) + 1, Len(p))
      from == [q \in {Moved(p) : p \in Subtree(t, old)} |->
                 t[old \o SubSeq(q, Len(new) + 1, Len(q))]]
  IN  [q \in DOMAIN t \cup DOMAIN from |-> IF q \in DOMAIN t THEN t[q] ELSE from[q]]

Renamed(t, old, new) ==
  CASE old = new           -> t
    [] old # new /\ IsPrefix(old, new) -> Restrict(t, DOMAIN t \ Subtree(t, old))
    [] ~ IsPrefix(old, new) ->
         Restrict(Linked(t, old, new), DOMAIN Linked(t, old, new) \ Subtree(t, old))

(* The volume between the two halves of a rename: the new entry is written   *)
(* first.  (The other order would lose the object when the medium fails.)    *)
HalfRenamedBackwards(t, old, new) == {Restrict(t, DOMAIN t \ Subtree(t, old))}

HalfRenamed(t, old, new) == IF IsPrefix(old, new) THEN {} ELSE {Linked(t, old, new)}

(* A failing medium leaves the old entry, both entries or the new one; a     *)
(* full directory or volume has no room for the new one.                     *)
Rename(t, f, old, new, faulty) ==
  LET res == RenameResult(t, f, old, new)
      ok  == res = "FR_OK"
  IN  {[res |-> res, tree |-> IF ok THEN Renamed(t, old, new) ELSE t]}
      \cup (IF ~ faulty THEN {} ELSE
            {[res |-> "FR_DISK_ERR", tree |-> t]}
            \cup (IF ~ ok THEN {} ELSE
                  {[res |-> "FR_DENIED", tree |-> t],
                   [res |-> "FR_DISK_ERR", tree |-> Renamed(t, old, new)]}
                  \cup {[res |-> "FR_DISK_ERR", tree |-> u] : u \in HalfRenamed(t, old, new)}))

(* f_open of an existing file to read.                                       *)
OpenReadResult(t, f, p) ==
  CASE FollowPath(t, p) # "FR_OK" -> FollowPath(t, p)
    [] p = <<>>                   -> "FR_INVALID_NAME"
    [] OTHER -> IF ChkShare(f, Entry(p), 0) # "FR_OK" THEN ChkShare(f, Entry(p), 0)
                ELSE IF t[p].dir THEN "FR_NO_FILE" ELSE "FR_OK"

OpenRead(t, f, p, faulty) ==
  LET res == OpenReadResult(t, f, p)
  IN  {[res |-> res, files |-> IF res = "FR_OK" THEN IncShare(f, Entry(p), 0) ELSE f]}
      \cup (IF faulty THEN {[res |-> "FR_DISK_ERR", files |-> f]} ELSE {})

(* f_open with FA_CREATE_ALWAYS | FA_WRITE: a new file, or an old one that   *)
(* loses its contents.                                                       *)
OpenCreateResult(t, f, p) ==
  CASE p = <<>> -> "FR_INVALID_NAME"
    [] p # <<>> /\ FollowPath(t, p) = "FR_NO_PATH" -> "FR_NO_PATH"
    [] p # <<>> /\ FollowPath(t, p) = "FR_NO_FILE" ->
         IF FreeSlots(f) = 0 THEN "FR_TOO_MANY_OPEN_FILES" ELSE "FR_OK"
    [] p \in DOMAIN t /\ p # <<>> ->
         IF ChkShare(f, Entry(p), 1) # "FR_OK" THEN ChkShare(f, Entry(p), 1)
         ELSE IF t[p].dir \/ t[p].rdo THEN "FR_DENIED" ELSE "FR_OK"

(* A failing medium may have made or emptied the file before it failed; a    *)
(* full directory has no room for a new entry.                               *)
OpenCreate(t, f, p, faulty) ==
  LET res  == OpenCreateResult(t, f, p)
      made == IF res = "FR_OK" THEN With(t, p, FileNode(<<>>, FALSE)) ELSE t
  IN  {[res |-> res, tree |-> made,
        files |-> IF res = "FR_OK" THEN IncShare(f, Entry(p), 1) ELSE f]}
      \cup (IF ~ faulty THEN {} ELSE
            {[res |-> "FR_DISK_ERR", tree |-> u, files |-> f] : u \in {t, made}}
            \cup {[res |-> "FR_DENIED", tree |-> t, files |-> f]})

(* f_close: the table afterwards.  The cached data of a file open for        *)
(* writing is flushed first; when that fails, the object stays open.         *)
Close(f, p, faulty) ==
  {DecShare(f, Entry(p))}
  \cup (IF faulty /\ f[Entry(p)] = Writing THEN {f} ELSE {})

(* f_mkdir.  A full volume denies the new directory.                         *)
MkdirResult(t, p) ==
  CASE FollowPath(t, p) = "FR_OK"      -> "FR_EXIST"
    [] FollowPath(t, p) = "FR_NO_FILE" -> "FR_OK"
    [] FollowPath(t, p) = "FR_NO_PATH" -> "FR_NO_PATH"

Mkdir(t, p, faulty) ==
  LET res  == MkdirResult(t, p)
      made == IF res = "FR_OK" THEN With(t, p, DirNode) ELSE t
  IN  {[res |-> res, tree |-> made]}
      \cup (IF ~ faulty THEN {} ELSE
            {[res |-> "FR_DISK_ERR", tree |-> u] : u \in {t, made}}
            \cup {[res |-> "FR_DENIED", tree |-> t]})

=============================================================================
