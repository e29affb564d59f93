------------------------------ MODULE FatFiles ------------------------------
(* The calls of ff15/source/ff.c that the commands of the shell make, down   *)
(* to the accesses to the medium.  v.fil is the FIL that is open for writing *)
(* (no command has two); v.files has the places of the entries that are      *)
(* locked, its own among them, and those that a failed f_close left behind.  *)
EXTENDS FatDirs

CONSTANT FF_FS_LOCK   \* entries of the table of open objects

ASSUME LockAssumption == FF_FS_LOCK \in Nat \ {0}

NoFil ==
  [path |-> <<>>, place |-> <<0, 0>>, dirSect |-> Nowhere, dirPtr |-> 0,
   sclust |-> 0, objsize |-> 0, fptr |-> 0, clust |-> 0, sect |-> Nowhere,
   buf |-> <<>>, dirty |-> FALSE, modified |-> FALSE, err |-> "FR_OK"]

FilOpen(v) == v.fil.path # <<>>

-----------------------------------------------------------------------------
(* chk_share to open (nothing stays open to read), and to delete or rename.  *)
ShareToOpen(v) ==
  CASE Place(v) \in v.files -> Result(v, "FR_LOCKED")
    [] Place(v) \notin v.files /\ Cardinality(v.files) >= FF_FS_LOCK ->
         Result(v, "FR_TOO_MANY_OPEN_FILES")
    [] Place(v) \notin v.files /\ Cardinality(v.files) < FF_FS_LOCK -> v

ShareToRemove(v) == IF Place(v) \in v.files THEN Result(v, "FR_LOCKED") ELSE v

-----------------------------------------------------------------------------
(* f_open to write, mode FA_CREATE_ALWAYS, FA_CREATE_NEW or FA_OPEN_APPEND.  *)

(* A file that is overwritten loses its chain after its entry has lost it;   *)
(* the search for the next cluster starts at the hole.                       *)
Truncated(v) ==
  LET e    == Here(v)
      w    == SetHere(v, Ent(e.name, FALSE, 0, 0))
  IN  IF e.clust = 0 THEN w
      ELSE Then(RemoveChain(w, e.clust),
                LAMBDA x : [MoveWindow(x, v.winsect) EXCEPT !.last = e.clust - 1])

FoundOrMade(v, p, mode) ==
  LET New(found) == IF Cardinality(found.files) >= FF_FS_LOCK
                    THEN Result(found, "FR_TOO_MANY_OPEN_FILES")
                    ELSE Then(DirRegister(Ignoring(found), Last(p)), Truncated)
      Old(found) == CASE Here(found).dir   -> Result(found, "FR_DENIED")
                      [] ~ Here(found).dir ->
                           CASE mode = "FA_CREATE_NEW"    -> Result(found, "FR_EXIST")
                             [] mode = "FA_CREATE_ALWAYS" -> Truncated(found)
                             [] mode = "FA_OPEN_APPEND"   -> found
  IN  After(FollowPath(v, p), LAMBDA found :
        IF found.res = "FR_NO_FILE" THEN New(found) ELSE Then(Then(found, ShareToOpen), Old))

(* A file is opened without telling the table: a mistake.                    *)
OpenedUnshared(v, p, created) ==
  [v EXCEPT !.fil = [NoFil EXCEPT !.path = p, !.place = Place(v), !.dirSect = v.winsect,
                                  !.dirPtr = v.dj.dptr, !.sclust = Here(v).clust,
                                  !.objsize = Here(v).size, !.modified = created,
                                  !.buf = Zeros.data]]

(* The FIL of the entry in the window, and the seek to its end.              *)
Opened(v, p, created) ==
  [v EXCEPT !.files = @ \cup {Place(v)},
            !.fil = [NoFil EXCEPT !.path = p, !.place = Place(v), !.dirSect = v.winsect,
                                  !.dirPtr = v.dj.dptr, !.sclust = Here(v).clust,
                                  !.objsize = Here(v).size, !.modified = created,
                                  !.buf = Zeros.data]]

SeekRound(v, k) ==
  Then(v, LAMBDA w : After(GetFat(w, w.val), LAMBDA got :
    CASE got.val <= 1        -> Result(got, "FR_INT_ERR")
      [] got.val = DiskError -> Result(got, "FR_DISK_ERR")
      [] got.val \notin {0, 1, DiskError} -> got))

(* The end of a file that fills its last cluster is looked for in the next:  *)
(* a mistake.                                                                *)
ClusterBehind(v, c, ofs) == Rounds(Value(v, c), SeekRound, ofs \div (Csize * SS))

ClusterAt(v, c, ofs) ==
  Rounds(Value(v, c), SeekRound, IF ofs = 0 THEN 0 ELSE (ofs - 1) \div (Csize * SS))

InCluster(ofs) == IF ofs % (Csize * SS) = 0 THEN Csize * SS ELSE ofs % (Csize * SS)

FillBuffer(v, s) ==
  Then(Access(v), LAMBDA w : [w EXCEPT !.fil.sect = s, !.fil.buf = w.disk[s].data])

SeekEnd(v) ==
  LET size == v.fil.objsize
      Seek(w) == LET x == [w EXCEPT !.fil.clust = w.val]
                 IN  CASE size % SS = 0 -> x
                       [] size % SS # 0 /\ w.val \notin Clusters -> Result(x, "FR_INT_ERR")
                       [] size % SS # 0 /\ w.val \in Clusters ->
                            FillBuffer(x, Sector(w.val, InCluster(size) \div SS))
  IN  After(Then(ClusterAt([v EXCEPT !.fil.fptr = size], v.fil.sclust, size), Seek), LAMBDA seen :
        IF Ok(seen) THEN seen ELSE [seen EXCEPT !.files = @ \ {v.fil.place}, !.fil = NoFil])

FOpen(v, p, mode) ==
  LET existed == FollowPath(v, p).res = "FR_OK"
  IN  Then(FoundOrMade(v, p, mode), LAMBDA w :
        After(Opened(w, p, mode = "FA_CREATE_ALWAYS" \/ ~ existed), LAMBDA x :
          IF mode = "FA_OPEN_APPEND" /\ x.fil.objsize > 0 THEN SeekEnd(x) ELSE x))

-----------------------------------------------------------------------------
(* f_write of n units of the datum x.  Sectors that are filled go straight   *)
(* to the medium, one access each; the rest waits in the buffer.             *)

Abort(v, r) == [v EXCEPT !.res = r, !.fil.err = r]

FlushBuffer(v) ==
  IF v.fil.dirty
  THEN Then(DiskWrite(v, v.fil.sect, DataSector(v.fil.buf)), LAMBDA w : [w EXCEPT !.fil.dirty = FALSE])
  ELSE Ignoring(v)

(* At the start of a cluster: the first one, or the one behind v.fil.clust.  *)
ToCluster(v) ==
  After(IF v.fil.fptr = 0 /\ v.fil.sclust # 0 THEN Value(v, v.fil.sclust)
        ELSE CreateChain(v, IF v.fil.fptr = 0 THEN 0 ELSE v.fil.clust),
    LAMBDA got :
      CASE got.val = 0         -> Result(got, "full")
        [] got.val = 1         -> Abort(got, "FR_INT_ERR")
        [] got.val = DiskError -> Abort(got, "FR_DISK_ERR")
        [] got.val \notin {0, 1, DiskError} ->
             Ignoring([got EXCEPT !.fil.clust = got.val,
                                  !.fil.sclust = IF @ = 0 THEN got.val ELSE @]))

Advanced(v, k) ==
  [v EXCEPT !.fil.fptr = @ + k, !.fil.objsize = IF v.fil.fptr + k > @ THEN v.fil.fptr + k ELSE @]

(* Into the buffer, from where fptr stands in it.                            *)
Buffered(v, k, x) ==
  LET ofs == v.fil.fptr % SS
  IN  Advanced([v EXCEPT !.fil.dirty = TRUE,
                         !.fil.buf = [i \in 1 .. SS |-> IF i > ofs /\ i <= ofs + k THEN x ELSE @[i]]],
               k)

AbortOnError(v) == IF v.res = "FR_DISK_ERR" THEN Abort(v, v.res) ELSE v

(* One round of the loop that starts on a sector boundary.                   *)
OnSector(v, n, x) ==
  LET csect == (v.fil.fptr \div SS) % Csize
      Put(w, sect) ==
        IF n < SS THEN Buffered([w EXCEPT !.fil.sect = sect], n, x)
        ELSE Then(AbortOnError(DiskWrite(w, sect, DataSector([i \in 1 .. SS |-> x]))),
                  LAMBDA y : Advanced(y, SS))
  IN  Then(Then(IF csect = 0 THEN ToCluster(v) ELSE Ignoring(v),
                LAMBDA w : AbortOnError(FlushBuffer(w))),
           LAMBDA w : IF w.fil.clust \in Clusters THEN Put(w, Sector(w.fil.clust, csect))
                      ELSE Abort(w, "FR_INT_ERR"))

Smaller(i, j) == IF i < j THEN i ELSE j

(* One round of the loop, that writes up to the offset end.                  *)
WriteRound(v, end, x) ==
  LET ofs == v.fil.fptr % SS
      n   == end - v.fil.fptr
  IN  IF ~ Ok(v) \/ n = 0 THEN v
      ELSE IF ofs = 0 THEN OnSector(v, n, x) ELSE Buffered(v, Smaller(n, SS - ofs), x)

(* A full volume ends the loop, and the call succeeds with less written.     *)
FWrite(v, n, x) ==
  IF v.fil.err # "FR_OK" THEN Result(v, v.fil.err)
  ELSE After(Rounds(v, LAMBDA u, k : WriteRound(u, v.fil.fptr + n, x), n), LAMBDA w :
         IF w.res \in {"FR_OK", "full"} THEN Ignoring([w EXCEPT !.fil.modified = TRUE]) ELSE w)

-----------------------------------------------------------------------------
(* The entry before the data it counts: a mistake.                           *)
FSyncEntryFirst(v) ==
  IF ~ v.fil.modified THEN Ignoring(v)
  ELSE Then(MoveWindow(v, v.fil.dirSect),
         LAMBDA w :
           LET k == (v.fil.dirPtr % SS) + 1
               x == [w EXCEPT !.win.ents[k] = [@ EXCEPT !.clust = w.fil.sclust,
                                                        !.size = w.fil.objsize],
                              !.wflag = TRUE]
           IN  [FlushBuffer(SyncFs(x)) EXCEPT !.fil.modified = FALSE])

(* f_sync and f_close: the data, the entry, then what the window holds.  A   *)
(* file whose f_close fails stays locked, and the commands forget its FIL.   *)
FSync(v) ==
  IF ~ v.fil.modified THEN Ignoring(v)
  ELSE Then(Then(FlushBuffer(v), LAMBDA w : MoveWindow(w, v.fil.dirSect)),
         LAMBDA w :
           LET k == (v.fil.dirPtr % SS) + 1
               x == [w EXCEPT !.win.ents[k] = [@ EXCEPT !.clust = w.fil.sclust,
                                                        !.size = w.fil.objsize],
                              !.wflag = TRUE]
           IN  [SyncFs(x) EXCEPT !.fil.modified = FALSE])

FClose(v) ==
  After(FSync(v), LAMBDA w :
    [w EXCEPT !.files = IF Ok(w) THEN @ \ {v.fil.place} ELSE @, !.fil = NoFil])

-----------------------------------------------------------------------------
(* f_unlink.                                                                 *)
Emptiness(v) ==
  [DirReadFirst(v, Here(v).clust) EXCEPT
     !.dj = v.dj,
     !.res = CASE @ = "FR_OK" -> "FR_DENIED" [] @ = "FR_NO_FILE" -> "FR_OK" [] OTHER -> @]

FUnlink(v, p) ==
  Then(Then(FollowPath(v, p), ShareToRemove),
    LAMBDA w :
      LET dclst == Here(w).clust
          gone  == Then(IF Here(w).dir THEN Emptiness(w) ELSE w, DirRemove)
          freed == Then(gone, LAMBDA x : IF dclst = 0 THEN x ELSE RemoveChain(x, dclst))
      IN  Then(freed, SyncFs))

(* f_mkdir: a cluster, cleared and with its dot entries, then the entry that *)
(* shows it; what cannot be shown is given back.                             *)
NewDir(v, dcl, parent) ==
  Then(DirClear(v, dcl),
    LAMBDA w : [w EXCEPT !.dj = v.dj, !.wflag = TRUE,
                         !.win.ents = [@ EXCEPT ![1] = Ent(".", TRUE, dcl, 0),
                                                ![2] = Ent("..", TRUE, parent, 0)]])

(* The cluster of a directory that could not be registered is not freed:     *)
(* a mistake.                                                                *)
KeptBack(v, dcl) == v

GivenBack(v, dcl) == Result(RemoveChain(v, dcl), v.res)

FMkdir(v, p) ==
  LET Chain(new)     == IF new.val = 0 THEN Result(new, "FR_DENIED") ELSE Checked(new)
      Show(new, dcl) == Then(Then(Chain(new), LAMBDA w : NewDir(w, dcl, w.dj.sclust)),
                             LAMBDA w : DirRegister(w, Last(p)))
      End(shown, dcl) == IF Ok(shown) THEN SyncFs(SetHere(shown, Ent(Last(p), TRUE, dcl, 0)))
                         ELSE GivenBack(shown, dcl)
  IN  After(FollowPath(v, p), LAMBDA found :
        CASE Ok(found)                -> Result(found, "FR_EXIST")
          [] found.res = "FR_NO_FILE" ->
               After(NewChain(found), LAMBDA new : End(Show(new, new.val), new.val))
          [] found.res \notin {"FR_OK", "FR_NO_FILE"} -> found)

(* f_rename: the new entry, the ".." of a directory that changes its parent, *)
(* and the old entry away.                                                   *)
Reparented(v, e, from) ==
  IF ~ e.dir \/ v.dj.sclust = from.sclust THEN v
  ELSE IF e.clust \notin Clusters THEN Result(v, "FR_INT_ERR")
  ELSE Then(MoveWindow(v, Sector(e.clust, 0)),
         LAMBDA w : IF w.win.ents[2].name # ".." THEN w
                    ELSE [w EXCEPT !.win.ents[2].clust = w.dj.sclust, !.wflag = TRUE])

(* The old entry away before the new one is there: a mistake.                *)
FRenameOldFirst(v, old, new) ==
  Then(Then(FollowPath(v, old), ShareToRemove),
    LAMBDA w :
      LET e    == Here(w)
          djo  == w.dj
          free == After(FollowPath(w, new), LAMBDA found :
                    IF found.res = "FR_NO_FILE" THEN Ignoring(found)
                    ELSE IF Ok(found) THEN Result(found, "FR_EXIST") ELSE found)
          one  == Then(free, LAMBDA x : [DirRemove([x EXCEPT !.dj = djo]) EXCEPT !.dj = x.dj])
          made == Then(one, LAMBDA x : DirRegister(x, Last(new)))
          both == Then(made, LAMBDA x : Reparented(SetHere(x, [e EXCEPT !.name = Last(new)]), e, djo))
      IN  Then(both, SyncFs))

FRename(v, old, new) ==
  Then(Then(FollowPath(v, old), ShareToRemove),
    LAMBDA w :
      LET e    == Here(w)
          djo  == w.dj
          free == After(FollowPath(w, new), LAMBDA found :
                    CASE Ok(found) /\ Place(found) = Place(w) -> found
                      [] Ok(found) /\ Place(found) # Place(w) -> Result(found, "FR_EXIST")
                      [] found.res = "FR_NO_FILE"             -> Ignoring(found)
                      [] found.res \notin {"FR_OK", "FR_NO_FILE"} -> found)
          made == Then(free, LAMBDA x : DirRegister(x, Last(new)))
          both == Then(made, LAMBDA x : Reparented(SetHere(x, [e EXCEPT !.name = Last(new)]), e, djo))
          one  == Then(both, LAMBDA x : DirRemove([x EXCEPT !.dj = djo]))
      IN  Then(one, SyncFs))

(* f_utime: the time of an entry.                                            *)
FUtime(v, p) == Then(FollowPath(v, p), LAMBDA w : SyncFs([w EXCEPT !.wflag = TRUE]))

-----------------------------------------------------------------------------
(* f_open to read, f_read up to the end, f_close.                            *)
(* Sector k of a file of this size, in the cluster v.val or in the next.     *)
ReadRound(v, k, size) ==
  LET csect == (k - 1) % Csize
      Gather(u) == [u EXCEPT !.text = @ \o SubSeq(u.disk[Sector(u.val, csect)].data, 1,
                                                  Smaller(SS, size - (k - 1) * SS))]
      Fetch(w) == Then(IF w.val \in Clusters THEN Access(w) ELSE Result(w, "FR_INT_ERR"), Gather)
  IN  Then(v, LAMBDA u : Then(IF k > 1 /\ csect = 0 THEN Checked(GetFat(u, u.val)) ELSE u, Fetch))

ReadFrom(v, c, size) ==
  Rounds(Value(v, c), LAMBDA u, k : ReadRound(u, k, size), (size + SS - 1) \div SS)

FRead(v, p) ==
  Then(Then(FollowPath(v, p), ShareToOpen),
    LAMBDA w : IF Here(w).dir THEN Result(w, "FR_NO_FILE")
               ELSE IF Here(w).size = 0 THEN w
               ELSE ReadFrom(w, Here(w).clust, Here(w).size))
=============================================================================
