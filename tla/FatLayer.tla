------------------------------ MODULE FatLayer ------------------------------
(* The layers of ff15/source/ff.c below its API, on a FAT32 volume: the disk *)
(* access window, the FAT, cluster chains and directory tables.              *)
(*                                                                           *)
(* A volume v is a record: what is on the medium (disk) and what is in memory *)
(* (the rest).  An operator is one function of ff.c: it takes the volume and *)
(* returns the volume after it, with the function's FRESULT in v.res or its  *)
(* value in v.val.  Every access to the medium goes through Access, which    *)
(* lets v.fuse of them pass before one fails.  v.count and v.cuts are what a *)
(* fault needs to know of a call that met none: how many accesses it made,   *)
(* and how the medium was after each write.                                  *)
(*                                                                           *)
(* A sector has a FAT part, entries and data; each sector means one of them. *)
(* Names fit in one entry, and there is one copy of the FAT.                 *)
EXTENDS Integers, SequencesExt, FiniteSets

CONSTANTS
  NFatEnt,   \* fs->n_fatent: the clusters are 2 .. NFatEnt - 1
  FatSS,     \* links in a sector of the FAT
  SS,        \* entries in a sector of a directory, and units of data in one of a file
  Csize,     \* sectors in a cluster
  MaxDir,    \* MAX_DIR: entries that a directory may have
  Names,     \* the names of objects
  Units      \* what a file may hold in a unit

ASSUME GeometryAssumption ==
  /\ {NFatEnt, FatSS, SS, Csize, MaxDir} \subseteq Nat \ {0}
  /\ NFatEnt > 2 /\ SS * Csize > 2
ASSUME NamesAssumption == Names \cap {"free", "deleted", "junk", ".", ".."} = {}
ASSUME UnitsAssumption == Names \cup {"0"} \subseteq Units

Clusters == 2 .. NFatEnt - 1
DirBase == 2                      \* fs->dirbase: the first cluster of the root directory

EndOfChain == 268435455           \* 0x0FFFFFFF
DiskError == 4294967             \* stands for 0xFFFFFFFF, no cluster's number
Unlimited == -1                   \* a fuse that has blown, or never does

ASSUME NumbersAssumption == NFatEnt < DiskError

FatSector(c) == <<"fat", c \div FatSS, 0>>
Info == <<"info", 0, 0>>
Nowhere == <<"nowhere", 0, 0>>

(* clst2sect: the k-th sector of a cluster.                                  *)
Sector(c, k) == <<"clst", c, k>>

Sectors ==
  {FatSector(c) : c \in 0 .. NFatEnt - 1} \cup {Info}
  \cup {Sector(c, k) : c \in Clusters, k \in 0 .. Csize - 1}

-----------------------------------------------------------------------------
(* Entries of a directory.  A sector of file data, read as a directory, has  *)
(* entries that are none.                                                    *)
Ent(name, dir, clust, size) == [name |-> name, dir |-> dir, clust |-> clust, size |-> size]
FreeEnt == Ent("free", FALSE, 0, 0)
DeletedEnt == Ent("deleted", FALSE, 0, 0)
JunkEnt == Ent("junk", FALSE, 0, 0)

NoObject(e) == e.name \in {"free", "deleted", ".", ".."}

Zeros == [fat |-> <<>>, ents |-> [k \in 1 .. SS |-> FreeEnt], data |-> [k \in 1 .. SS |-> "0"]]
DataSector(units) == [fat |-> <<>>, ents |-> [k \in 1 .. SS |-> JunkEnt], data |-> units]
InfoSector(free, last) == [fat |-> <<free, last>>, ents |-> <<>>, data |-> <<>>]

(* What may be in a sector, and on a medium that is formatted.               *)
Entries ==
  [name : Names \cup {"free", "deleted", "junk", ".", ".."}, dir : BOOLEAN, clust : Nat, size : Nat]

Content(s) ==
  CASE s[1] = "fat"  -> [fat : [{c \in 0 .. NFatEnt - 1 : FatSector(c) = s} -> Nat],
                         ents : {<<>>}, data : {<<>>}]
    [] s[1] = "info" -> [fat : Nat \X Nat, ents : {<<>>}, data : {<<>>}]
    [] s[1] = "clst" -> [fat : {<<>>}, ents : [1 .. SS -> Entries], data : [1 .. SS -> Units]]

Formatted(m) == m = [s \in Sectors |-> m[s]] /\ \A s \in Sectors : m[s] \in Content(s)

-----------------------------------------------------------------------------
Ok(v) == v.res = "FR_OK"
Result(v, r) == [v EXCEPT !.res = r]
Value(v, n) == [v EXCEPT !.val = n, !.res = "FR_OK"]

(* What follows when the call before it succeeded.                           *)
Then(v, Op(_)) == IF Ok(v) THEN Op(v) ELSE v

(* What follows whatever the call before it returned.                        *)
After(v, Op(_)) == Op(v)

(* A call whose error the code does not look at.                             *)
Ignoring(v) == Result(v, "FR_OK")

(* A loop: what n rounds of it make of v.  A round that follows the last one *)
(* of the code's loop changes nothing.                                       *)
Rounds(v, Round(_, _), n) ==
  LET after[k \in Nat] == IF k = 0 THEN v ELSE Round(after[k - 1], k)
  IN  after[n]

(* One access to the medium.                                                 *)
Access(v) ==
  [v EXCEPT !.count = @ + 1,
            !.fuse = IF @ = Unlimited THEN @ ELSE @ - 1,
            !.res = IF v.fuse = 0 THEN "FR_DISK_ERR" ELSE "FR_OK"]

DiskWrite(v, s, content) ==
  Then(Access(v), LAMBDA w : LET disk == [w.disk EXCEPT ![s] = content]
                             IN  [w EXCEPT !.disk = disk, !.cuts = @ \cup {disk}])

-----------------------------------------------------------------------------
(* The window: one sector in memory, written back when another is needed.    *)

SyncWindow(v) ==
  IF v.wflag THEN Then(DiskWrite(v, v.winsect, v.win), LAMBDA w : [w EXCEPT !.wflag = FALSE])
  ELSE Ignoring(v)

MoveWindow(v, s) ==
  IF s = v.winsect THEN Ignoring(v)
  ELSE Then(SyncWindow(v),
         LAMBDA u : After(Access(u), LAMBDA w :
           IF Ok(w) THEN [w EXCEPT !.win = w.disk[s], !.winsect = s]
           ELSE [w EXCEPT !.winsect = Nowhere]))

(* FSInfo is written through the window; an error of that write is not seen, *)
(* but the CTRL_SYNC after it fails while there is no power.                 *)
SyncFs(v) ==
  Then(SyncWindow(v),
    LAMBDA w :
      LET info    == InfoSector(w.free, w.last)
          written == IF w.fsi = 1
                     THEN [Ignoring(DiskWrite(w, Info, info)) EXCEPT
                             !.win = info, !.winsect = Info, !.fsi = 0]
                     ELSE w
      IN  Access(written))

-----------------------------------------------------------------------------
(* The FAT.                                                                  *)

GetFat(v, c) ==
  IF c \notin Clusters THEN Value(v, 1)
  ELSE After(MoveWindow(v, FatSector(c)), LAMBDA w :
         Value(w, IF Ok(w) THEN w.win.fat[c] ELSE DiskError))

PutFat(v, c, link) ==
  IF c \notin Clusters THEN Result(v, "FR_INT_ERR")
  ELSE Then(MoveWindow(v, FatSector(c)),
            LAMBDA w : [w EXCEPT !.win.fat[c] = link, !.wflag = TRUE])

(* A value of get_fat or create_chain as an FRESULT.                         *)
Checked(v) ==
  Result(v, CASE v.val = 1 -> "FR_INT_ERR" [] v.val = DiskError -> "FR_DISK_ERR"
              [] v.val \notin {1, DiskError} -> "FR_OK")

OneMoreFree(v) == IF v.free < NFatEnt - 2 THEN [v EXCEPT !.free = @ + 1, !.fsi = 1] ELSE v

(* remove_chain of a whole chain (pclst = 0): each link is read before its   *)
(* cluster, v.val, is free.                                                  *)
FreeNext(v, c) ==
  Then(Checked(GetFat(v, c)), LAMBDA got :
    IF got.val = 0 THEN got ELSE Then(PutFat(got, c, 0), OneMoreFree))

FreeRound(v, k) == Then(v, LAMBDA w : IF w.val \in Clusters THEN FreeNext(w, w.val) ELSE w)

FreeFrom(v, c) == Rounds(Value(v, c), FreeRound, NFatEnt)

RemoveChain(v, c) == IF c \in Clusters THEN FreeFrom(v, c) ELSE Result(v, "FR_INT_ERR")

(* One cluster is looked at, unless the search is decided: by the free one,  *)
(* 1 or DiskError in v.val.                                                  *)
Probe(v, ncl) ==
  IF v.val # 0 THEN v
  ELSE After(GetFat(v, ncl), LAMBDA got :
         CASE got.val = 0                -> Value(got, ncl)
           [] got.val \in {1, DiskError} -> got
           [] got.val \notin {0, 1, DiskError} -> Value(got, 0))

(* A search that gives up at the end of the volume: a mistake.               *)
SearchFreeAhead(v, scl) == Rounds(Value(v, 0), LAMBDA u, k : Probe(u, scl + k), NFatEnt - 1 - scl)

(* The search of create_chain for a free cluster behind scl, around the end  *)
(* of the volume and up to scl itself.                                       *)
SearchFree(v, scl) ==
  Rounds(Value(v, 0), LAMBDA u, k : Probe(u, 2 + ((scl + k - 2) % (NFatEnt - 2))), NFatEnt - 2)

Suggested(v) == IF v.last = 0 \/ v.last >= NFatEnt THEN 1 ELSE v.last

(* The end of create_chain: the counts, or the value for the error.          *)
Taken(put, ncl) ==
  IF Ok(put)
  THEN Value([put EXCEPT !.last = ncl, !.fsi = 1, !.free = IF @ <= NFatEnt - 2 THEN @ - 1 ELSE @],
             ncl)
  ELSE Value(put, IF put.res = "FR_DISK_ERR" THEN DiskError ELSE 1)

(* The new cluster is linked before it is the end of a chain: a mistake.     *)
TakeLinkFirst(v, clst, ncl) ==
  LET linked == IF clst = 0 THEN Ignoring(v) ELSE PutFat(v, clst, ncl)
  IN  Taken(Then(linked, LAMBDA w : PutFat(w, ncl, EndOfChain)), ncl)

(* The cluster found becomes the end of the chain, then the chain is linked. *)
Take(v, clst, ncl) ==
  Taken(Then(PutFat(v, ncl, EndOfChain),
             LAMBDA w : IF clst = 0 THEN w ELSE PutFat(w, clst, ncl)), ncl)

TakeFound(v, clst) == IF v.val \in Clusters THEN Take(v, clst, v.val) ELSE v

NewChain(v) ==
  IF v.free = 0 THEN Value(v, 0)
  ELSE TakeFound(SearchFree(v, Suggested(v)), 0)

(* A chain is stretched by the next cluster if that is free, else by one     *)
(* behind the last that was taken.                                           *)
Stretch(v, clst) ==
  LET nxt == IF clst + 1 >= NFatEnt THEN 2 ELSE clst + 1
      scl == IF v.last >= 2 /\ v.last < NFatEnt THEN v.last ELSE clst
  IN  After(GetFat(v, nxt), LAMBDA got :
        CASE got.val = 0                -> Take(got, clst, nxt)
          [] got.val \in {1, DiskError} -> got
          [] got.val \notin {0, 1, DiskError} -> TakeFound(SearchFree(got, scl), clst))

(* create_chain: 0 when the volume is full, the cluster that follows already *)
(* if one does.                                                              *)
CreateChain(v, clst) ==
  IF clst = 0 THEN NewChain(v)
  ELSE After(GetFat(v, clst), LAMBDA got :
         CASE got.val < 2                          -> Value(got, 1)
           [] got.val \in 2 .. NFatEnt - 1 \cup {DiskError} -> got
           [] got.val >= NFatEnt /\ got.val # DiskError ->
                IF got.free = 0 THEN Value(got, 0) ELSE Stretch(got, clst))
=============================================================================
