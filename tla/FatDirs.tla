------------------------------- MODULE FatDirs -------------------------------
(* Directories and paths of ff15/source/ff.c, on top of FatLayer.  v.dj is   *)
(* the DIR object of the call: the directory's first cluster, the index of   *)
(* the entry it stands on, and the cluster and the sector that entry is in.  *)
EXTENDS FatLayer

EntsOfCluster == Csize * SS

(* The entry under v.dj, when its sector is in the window.                   *)
Here(v) == v.win.ents[(v.dj.dptr % SS) + 1]
SetHere(v, e) == [v EXCEPT !.win.ents[(v.dj.dptr % SS) + 1] = e, !.wflag = TRUE]

MoveToHere(v) == MoveWindow(v, v.dj.sect)

-----------------------------------------------------------------------------
(* dir_clear: the window is flushed, then every sector of the cluster is     *)
(* overwritten; the window is left on the first one.                         *)
ClearRound(v, c, k) == Then(v, LAMBDA w : DiskWrite(w, Sector(c, k - 1), Zeros))

DirClear(v, c) ==
  Then(SyncWindow(v),
    LAMBDA w : Rounds([w EXCEPT !.win = Zeros, !.winsect = Sector(c, 0)],
                      LAMBDA u, k : ClearRound(u, c, k), Csize))

(* dir_sdi, of the index 0: none of the calls asks for another one, without  *)
(* long names.                                                               *)
DirSdi(v, sclust) ==
  LET first == IF sclust = 0 THEN DirBase ELSE sclust
      w     == [Ignoring(v) EXCEPT !.dj.sclust = sclust, !.dj.dptr = 0]
  IN  IF first \in Clusters THEN [w EXCEPT !.dj.clust = first, !.dj.sect = Sector(first, 0)]
      ELSE Result(w, "FR_INT_ERR")

(* dir_next, within a cluster and from one to the next.  A directory that    *)
(* may stretch gets a new cluster at its end: it is linked before it is      *)
(* cleared.                                                                  *)
Stretched(v, stretch) ==
  IF ~ stretch THEN Result(v, "FR_NO_FILE")
  ELSE After(CreateChain(v, v.dj.clust), LAMBDA new :
         IF new.val = 0 THEN Result(new, "FR_DENIED")
         ELSE Then(Then(Checked(new), LAMBDA w : DirClear(w, new.val)),
                   LAMBDA w : Value(w, new.val)))

NextCluster(v, stretch) ==
  After(GetFat(v, v.dj.clust), LAMBDA got :
    CASE got.val <= 1         -> Result(got, "FR_INT_ERR")
      [] got.val = DiskError  -> Result(got, "FR_DISK_ERR")
      [] got.val \in Clusters -> got
      [] got.val >= NFatEnt /\ got.val # DiskError -> Stretched(got, stretch))

DirNext(v, stretch) ==
  LET ofs == v.dj.dptr + 1
  IN  CASE ofs >= MaxDir -> Result(v, "FR_NO_FILE")
        [] ofs < MaxDir /\ ofs % SS # 0 -> [Ignoring(v) EXCEPT !.dj.dptr = ofs]
        [] ofs < MaxDir /\ ofs % SS = 0 /\ ofs % EntsOfCluster # 0 ->
             [Ignoring(v) EXCEPT !.dj.dptr = ofs,
                                 !.dj.sect = Sector(v.dj.clust, (ofs % EntsOfCluster) \div SS)]
        [] ofs < MaxDir /\ ofs % EntsOfCluster = 0 ->
             Then(NextCluster(v, stretch),
               LAMBDA w : [w EXCEPT !.dj.dptr = ofs, !.dj.clust = w.val,
                                    !.dj.sect = Sector(w.val, 0)])

(* The entries from the one v.dj stands on, in order, up to one with a name  *)
(* of stops or to the end of the table.                                      *)
WalkRound(v, stretch, stops) ==
  Then(v, LAMBDA w : IF Here(w).name \in stops THEN w ELSE Then(DirNext(w, stretch), MoveToHere))

Walk(v, stretch, stops) ==
  Rounds(MoveToHere(v), LAMBDA u, k : WalkRound(u, stretch, stops), MaxDir)

(* dir_find; the table ends at a free entry, or with its chain.              *)
DirFind(v, sclust, name) ==
  Then(Then(DirSdi(v, sclust), LAMBDA w : Walk(w, FALSE, {"free", name})),
       LAMBDA w : IF Here(w).name = "free" THEN Result(w, "FR_NO_FILE") ELSE w)

(* dir_read, as f_unlink uses it: the first entry that is an object.         *)
DirReadFirst(v, sclust) ==
  Then(Then(DirSdi(v, sclust),
            LAMBDA w : Walk(w, FALSE, Names \cup {"free", "junk"})),
       LAMBDA w : IF Here(w).name = "free" THEN Result(w, "FR_NO_FILE") ELSE w)

(* dir_alloc and dir_register: the first entry that is free or deleted.      *)
DirAlloc(v) ==
  After(Then(DirSdi(v, v.dj.sclust), LAMBDA w : Walk(w, TRUE, {"free", "deleted"})),
        LAMBDA got : IF got.res = "FR_NO_FILE" THEN Result(got, "FR_DENIED") ELSE got)

DirRegister(v, name) ==
  Then(Then(DirAlloc(v), LAMBDA w : MoveToHere(w)),
       LAMBDA w : SetHere(w, Ent(name, FALSE, 0, 0)))

(* dir_remove of the entry under v.dj, and one that forgets to tell that the *)
(* window changed.                                                           *)
DirRemoveQuietly(v) ==
  Then(MoveToHere(v), LAMBDA w : [w EXCEPT !.win.ents[(w.dj.dptr % SS) + 1].name = "deleted"])

DirRemove(v) ==
  Then(MoveToHere(v), LAMBDA w : SetHere(w, [Here(w) EXCEPT !.name = "deleted"]))

-----------------------------------------------------------------------------
(* follow_path: each segment but the last must be a directory.               *)
FollowRound(v, name) ==
  CASE v.res = "FR_NO_FILE"    -> Result(v, "FR_NO_PATH")
    [] Ok(v) /\ ~ Here(v).dir -> Result(v, "FR_NO_PATH")
    [] Ok(v) /\ Here(v).dir   -> DirFind(v, Here(v).clust, name)
    [] v.res \notin {"FR_OK", "FR_NO_FILE"} -> v

FollowPath(v, p) ==
  Rounds(DirFind(v, 0, p[1]), LAMBDA u, k : FollowRound(u, p[k + 1]), Len(p) - 1)

-----------------------------------------------------------------------------
(* The table of open objects: the places of the entries that are open for    *)
(* writing, of which FF_FS_LOCK fit.                                         *)
Place(v) == <<v.dj.sclust, v.dj.dptr>>
=============================================================================
