--------------------------- MODULE VolumeMeaning ---------------------------
(* What the shell relies on when it keeps its files on a FAT volume: that a  *)
(* call does what the API says, on a sound medium and on a failing one, and  *)
(* that what was written is still there after the power is gone.             *)
EXTENDS Volume

Api == INSTANCE FatFs

(* The state the shell works in: the volume, a call, its result.             *)
TypeOK ==
  /\ DOMAIN vol.disk = Sectors
  /\ vol.winsect \in Sectors \cup {Nowhere}
  /\ vol.free \in Nat /\ vol.last \in Nat /\ vol.fsi \in {0, 1}
  /\ Cardinality(vol.files) <= FF_FS_LOCK
  /\ FilOpen(vol) => vol.fil.place \in vol.files
  /\ calls \in 0 .. MaxCalls /\ faults \in 0 .. MaxFaults
  /\ mounted \in BOOLEAN

-----------------------------------------------------------------------------
(* The structures of a medium m are sound: every object's chain ends, covers *)
(* what its entry counts, and shares no cluster with another object's.       *)
Covered(m, o) ==
  \/ ~ o.ent.dir /\ o.ent.clust = 0 /\ o.ent.size = 0
  \/ /\ SoundChain(m, o.ent.clust)
     /\ Len(Chain(m, o.ent.clust)) * Csize * SS >= o.ent.size

Holds(m, o) == ToSet(Chain(m, o.ent.clust))

SoundObjects(m, objects) ==
  /\ SoundChain(m, DirBase)
  /\ \A o \in objects : Covered(m, o) /\ Holds(m, o) \cap ToSet(Chain(m, DirBase)) = {}
  /\ \A o1, o2 \in objects : o1 # o2 => Holds(m, o1) \cap Holds(m, o2) = {}

(* The first entries of a directory lead to itself and to its parent.        *)
DotsRight(m, o) ==
  o.ent.dir => SubSeq(AllRows(m, o.ent.clust), 1, 2)
               = <<Ent(".", TRUE, o.ent.clust, 0), Ent("..", TRUE, o.parent, 0)>>

(* At any moment, were the power to fail, the medium alone is sound.  Two    *)
(* things are excepted: the two names of a rename cut in its critical        *)
(* section, and entries that are none in a directory a call was stretching   *)
(* (dir_next links the cluster before dir_clear clears it).                  *)
MediumSound ==
  LET objects == {o \in Objects(vol.disk) : ~ (o.ent.name = "junk")}
      twins   == IF Torn THEN {o \in objects : o.path = last.to \/ IsPrefix(last.to, o.path)} ELSE {}
  IN  /\ SoundObjects(vol.disk, objects \ twins)
      /\ ~ Torn => \A o \in objects : DotsRight(vol.disk, o)

(* Wherever the power fails, the medium has of every file a text that its    *)
(* writer left: the last one that was closed, or one of those between which  *)
(* a call was cut short; never what is left of something else, and what no   *)
(* call names stays as it is.                                                *)
MediumHoldsWhatWasWritten ==
  LET there == Files(vol.disk)
  IN  \A p \in DOMAIN known \cup DOMAIN there :
        (IF p \in DOMAIN there THEN there[p] ELSE Absent) \in Known(p)

-----------------------------------------------------------------------------
(* What the API (FatFs) says of a call c, from the tree t that the driver    *)
(* has before it; failing lets the medium fail.                              *)
OpenNow ==
  LET paths == {o.path : o \in {q \in Objects(Seen(vol)) : <<q.parent, q.ofs>> \in vol.files}}
  IN  [e \in {Api!Entry(p) : p \in paths} |-> Api!Writing]

OpenOutcomes(t, p, mode, failing) ==
  IF p \notin DOMAIN t \/ mode = "FA_CREATE_ALWAYS" \/ Api!OpenCreateResult(t, OpenNow, p) # "FR_OK"
  THEN Api!OpenCreate(t, OpenNow, p, failing)
  ELSE {[res |-> IF mode = "FA_CREATE_NEW" THEN "FR_EXIST" ELSE "FR_OK", tree |-> t],
        [res |-> "FR_DISK_ERR", tree |-> t]}

(* The tree with the text of the file that is closed.                        *)
WithText(t) == IF vol.fil.modified THEN [t EXCEPT ![vol.fil.path].data = text] ELSE t

Outcomes(t, c, failing) ==
  CASE c.op = "f_unlink" -> Api!Unlink(t, OpenNow, c.path, failing)
    [] c.op = "f_mkdir"  -> Api!Mkdir(t, c.path, failing)
    [] c.op = "f_rename" -> Api!Rename(t, OpenNow, c.path, c.to, failing)
    [] c.op = "f_open"   -> OpenOutcomes(t, c.path, c.to[1], failing)
    [] c.op = "f_read"   -> {[res |-> o.res, tree |-> t] :
                               o \in Api!OpenRead(t, OpenNow, c.path, failing)}
    [] c.op = "f_utime"  -> {[res |-> r, tree |-> t] :
                               r \in {Api!FollowPath(t, c.path), "FR_DISK_ERR"}}
    [] c.op = "f_write"  -> {[res |-> r, tree |-> t] : r \in {"FR_OK", "FR_DISK_ERR"}}
    [] c.op = "f_close"  -> {[res |-> "FR_OK", tree |-> WithText(t)],
                             [res |-> "FR_DISK_ERR", tree |-> WithText(t)],
                             [res |-> "FR_DISK_ERR", tree |-> t]}

(* Every call has a result and leaves a tree that the API has for it, what a *)
(* disk error leaves included; a file that is read has what the tree has;    *)
(* and no call finds the structures broken (FR_INT_ERR).                     *)
CallsAsApi ==
  [][calls' = calls + 1 /\ mounted' =>
       \E before \in {Tree(Seen(vol))}, after \in {Tree(Seen(vol'))} :
         /\ \E o \in Outcomes(before, last', last'.res \in {"FR_DISK_ERR", "FR_DENIED"}) :
              o.res = last'.res /\ o.tree = after
         /\ last'.op = "f_read" /\ last'.res = "FR_OK" =>
              last'.data = before[last'.path].data
         /\ faults' = 0 => last'.res # "FR_DISK_ERR"]_vars

(* The clusters of the objects, of the root and of the file that is open.    *)
InUse(v) ==
  LET m == Seen(v)
  IN  UNION {ToSet(Chain(m, o.ent.clust)) : o \in Objects(m)}
      \cup ToSet(Chain(m, DirBase)) \cup ToSet(Chain(m, v.fil.sclust))

FreeIn(v) == {n \in Clusters : Link(Seen(v), n) = 0}

(* As long as no access fails, no cluster is lost and the driver's count of  *)
(* the free ones is right: what a refused call took, it gave back.           *)
NothingLost ==
  faults = 0 => InUse(vol) \cap FreeIn(vol) = {} /\ InUse(vol) \cup FreeIn(vol) = Clusters
                /\ vol.free = Cardinality(FreeIn(vol))

(* A call that changes the directories succeeds only when its effect is on   *)
(* the medium.                                                               *)
SuccessIsOnMedium ==
  last.op \in {"f_unlink", "f_mkdir", "f_rename", "f_utime"} /\ last.res = "FR_OK"
  => Tree(vol.disk) = Tree(Seen(vol))

(* A rename loses nothing, whatever fails in it and wherever it is cut: the  *)
(* object, and all that is below it, is on the medium afterwards under the   *)
(* old name or the new one.  (What was there before means on the medium, and *)
(* not about to change by what an earlier call left in the window.)          *)
RenameKeepsOne ==
  [][calls' = calls + 1 /\ last'.op = "f_rename" /\ ~ IsPrefix(last'.path, last'.to) =>
       \E there \in {Tree(vol.disk)}, seen \in {Tree(Seen(vol))}, now \in {Tree(vol'.disk)} :
         \A p \in DOMAIN there \cap DOMAIN seen :
           IsPrefix(last'.path, p) /\ there[p] = seen[p] =>
             \E q \in DOMAIN now \cap {p, last'.to \o SubSeq(p, Len(last'.path) + 1, Len(p))} :
               now[q] = there[p]]_vars

(* The clusters a call needs for a new entry on the path p.                  *)
NoRoom(m, parent) ==
  \A e \in ToSet(AllRows(m, parent)) : e.name \notin {"free", "deleted"}

Needed(op, p) ==
  LET m == Seen(vol)
      parent == IF Len(p) = 1 THEN DirBase
                ELSE (CHOOSE o \in Objects(m) : o.path = Front(p)).ent.clust
  IN  (IF op = "f_mkdir" THEN 1 ELSE 0) + (IF NoRoom(m, parent) THEN 1 ELSE 0)

(* As long as no access fails, only a full volume denies an entry that the   *)
(* API would make, or ends a f_write early.                                  *)
OnlyFullDenies ==
  [][calls' = calls + 1 /\ faults' = 0 =>
       /\ last'.res = "FR_DENIED" /\ (\A o \in Outcomes(Tree(Seen(vol)), last', FALSE) : o.res # "FR_DENIED") =>
            Cardinality(FreeIn(vol)) < Needed(last'.op, IF last'.op = "f_rename" THEN last'.to
                                                        ELSE last'.path)
       /\ last'.op = "f_write" /\ vol'.fil.fptr < vol.fil.fptr + last'.to[1] =>
            FreeIn(vol') = {}]_vars
=============================================================================
