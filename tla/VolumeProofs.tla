---------------------------- MODULE VolumeProofs ----------------------------
(* The FAT driver keeps its types, whatever fails and wherever the power is  *)
(* cut, and a call that changes the directories succeeds only with its       *)
(* effect on the medium: for every geometry, every formatted medium, every   *)
(* set of names and paths, and any number of calls and faults.               *)
EXTENDS VolumeMeaning, FiniteSetTheorems, SequenceTheorems, WellFoundedInduction, TLAPS

-----------------------------------------------------------------------------
(* Loops.  A function on the number of rounds exists whenever a round stays  *)
(* within a set.                                                             *)
LEMMA LeastNat ==
  ASSUME NEW T, T \subseteq Nat, T # {}
  PROVE  \E n \in T : \A m \in T : n <= m
<1>1. IsWellFoundedOn(OpToRel(<, Nat), Nat)
  BY NatLessThanWellFounded
<1>2. PICK n \in T : \A m \in T : ~ (<<m, n>> \in OpToRel(<, Nat))
  BY <1>1, WFMin
<1>3. \A m \in T : ~ (m < n)
  BY <1>2 DEF OpToRel
<1> QED BY <1>3

(* The first n rounds.                                                       *)
Steps(h, n, S, x, g) ==
  h \in [0 .. n -> S] /\ h[0] = x /\ \A k \in 0 .. n - 1 : h[k + 1] = g[<<h[k], k + 1>>]

LEMMA StepsExist ==
  ASSUME NEW S, NEW x \in S, NEW g \in [S \X Nat -> S], NEW n \in Nat
  PROVE  \E h : Steps(h, n, S, x, g)
<1> DEFINE T == {m \in Nat : ~ \E h : Steps(h, m, S, x, g)}
<1> SUFFICES ASSUME T # {} PROVE FALSE
  OBVIOUS
<1>1. PICK m \in T : \A k \in T : m <= k
  BY LeastNat
<1>2. CASE m = 0
  <2> DEFINE h == [k \in 0 .. 0 |-> x]
  <2>1. Steps(h, 0, S, x, g)
    BY DEF Steps
  <2> QED BY <1>2, <2>1
<1>3. CASE m # 0
  <2>1. m - 1 \in Nat /\ ~ (m <= m - 1)
    BY <1>3
  <2>2. PICK h : Steps(h, m - 1, S, x, g)
    BY <1>1, <2>1
  <2> DEFINE u == [k \in 0 .. m |-> IF k = m THEN g[<<h[m - 1], m>>] ELSE h[k]]
  <2>3. h \in [0 .. m - 1 -> S]
    BY <2>2 DEF Steps
  <2>4. u \in [0 .. m -> S]
    <3>1. h[m - 1] \in S
      BY <2>1, <2>3
    <3>2. g[<<h[m - 1], m>>] \in S
      BY <3>1
    <3> SUFFICES ASSUME NEW k \in 0 .. m PROVE u[k] \in S
      OBVIOUS
    <3>3. CASE k = m
      BY <3>2, <3>3
    <3>4. CASE k # m
      BY <2>3, <3>4
    <3> QED BY <3>3, <3>4
  <2>5. u[0] = x
    BY <1>3, <2>2 DEF Steps
  <2>6. ASSUME NEW k \in 0 .. m - 1 PROVE u[k + 1] = g[<<u[k], k + 1>>]
    <3>1. CASE k = m - 1
      <4>1. k + 1 = m /\ u[k + 1] = g[<<h[m - 1], m>>] /\ u[k] = h[m - 1]
        BY <3>1
      <4> QED BY <3>1, <4>1
    <3>2. CASE k # m - 1
      <4>1. k \in 0 .. (m - 1) - 1 /\ k + 1 # m /\ k + 1 \in 0 .. m
        BY <3>2
      <4>2. h[k + 1] = g[<<h[k], k + 1>>]
        BY <2>2, <4>1 DEF Steps
      <4>3. u[k + 1] = h[k + 1] /\ u[k] = h[k]
        BY <4>1
      <4> QED BY <4>2, <4>3
    <3> QED BY <3>1, <3>2
  <2> HIDE DEF u
  <2>7. Steps(u, m, S, x, g)
    BY <2>4, <2>5, <2>6 DEF Steps
  <2> QED BY <2>7
<1> QED BY <1>2, <1>3

LEMMA StepsAgree ==
  ASSUME NEW S, NEW x \in S, NEW g \in [S \X Nat -> S], NEW n \in Nat, NEW m \in Nat,
         NEW h, Steps(h, n, S, x, g), NEW u, Steps(u, m, S, x, g),
         NEW k \in Nat, k <= n, k <= m
  PROVE  h[k] = u[k]
<1> DEFINE T == {j \in Nat : j <= n /\ j <= m /\ h[j] # u[j]}
<1> SUFFICES ASSUME T # {} PROVE FALSE
  OBVIOUS
<1>1. PICK j \in T : \A i \in T : j <= i
  BY LeastNat
<1>2. CASE j = 0
  BY <1>2 DEF Steps
<1>3. CASE j # 0
  <2>1. j - 1 \in 0 .. n - 1 /\ j - 1 \in 0 .. m - 1 /\ j - 1 \in Nat /\ (j - 1) + 1 = j
    BY <1>3
  <2>2. h[j - 1] = u[j - 1]
    BY <1>1, <2>1
  <2>3. h[j] = g[<<h[j - 1], j>>]
    BY <2>1 DEF Steps
  <2>4. u[j] = g[<<u[j - 1], j>>]
    BY <2>1 DEF Steps
  <2> QED BY <2>2, <2>3, <2>4
<1> QED BY <1>2, <1>3

(* A round on a set of values, and the values after any number of rounds.    *)
RoundOn(S, g) == g \in [S \X Nat -> S]

Iterates(f, S, x, g) ==
  f \in [Nat -> S] /\ f[0] = x /\ \A k \in Nat : f[k + 1] = g[<<f[k], k + 1>>]

LEMMA Recursion ==
  ASSUME NEW S, NEW x \in S, NEW g, RoundOn(S, g)
  PROVE  \E f : Iterates(f, S, x, g)
<1> DEFINE Of(n) == CHOOSE h : Steps(h, n, S, x, g)
           f == [n \in Nat |-> Of(n)[n]]
<1>1. \A n \in Nat : Steps(Of(n), n, S, x, g)
  BY StepsExist DEF RoundOn
<1> HIDE DEF Of
<1>2. \A n \in Nat : f[n] = Of(n)[n]
  OBVIOUS
<1>3. f \in [Nat -> S]
  <2>1. \A n \in Nat : Of(n)[n] \in S
    BY <1>1 DEF Steps
  <2> QED BY <2>1
<1>4. f[0] = x
  BY <1>1, <1>2 DEF Steps
<1>5. ASSUME NEW k \in Nat PROVE f[k + 1] = g[<<f[k], k + 1>>]
  <2>1. k + 1 \in Nat /\ k \in 0 .. (k + 1) - 1 /\ k <= k + 1
    OBVIOUS
  <2>2. Of(k + 1)[k + 1] = g[<<Of(k + 1)[k], k + 1>>]
    BY <1>1, <2>1 DEF Steps
  <2>3. Of(k + 1)[k] = Of(k)[k]
    BY <1>1, <2>1, StepsAgree DEF RoundOn
  <2> QED BY <1>2, <2>1, <2>2, <2>3
<1> HIDE DEF f
<1> QED BY <1>3, <1>4, <1>5 DEF Iterates

LEMMA StaysIn ==
  ASSUME NEW S, NEW f, f[0] \in S, \A k \in Nat : f[k] \in S => f[k + 1] \in S
  PROVE  \A n \in Nat : f[n] \in S
<1> DEFINE T == {n \in Nat : f[n] \notin S}
<1> SUFFICES ASSUME T # {} PROVE FALSE
  OBVIOUS
<1>1. PICK n \in T : \A k \in T : n <= k
  BY LeastNat
<1>2. n # 0 /\ n - 1 \in Nat /\ (n - 1) + 1 = n /\ ~ (n <= n - 1)
  OBVIOUS
<1>3. f[n - 1] \in S
  BY <1>1, <1>2
<1>4. f[(n - 1) + 1] \in S
  BY <1>2, <1>3
<1> QED BY <1>2, <1>4

-----------------------------------------------------------------------------
(* The types of a volume.                                                    *)
Clst == {Sector(c, k) : c \in Clusters, k \in 0 .. Csize - 1}

Places == Sectors \cup {Nowhere}
AllContent == UNION {Content(s) : s \in Sectors}
Disks == {m \in [Sectors -> AllContent] : \A s \in Sectors : m[s] \in Content(s)}
Buffers == [1 .. SS -> Units]

(* What a call returns, and the early end of a f_write.                      *)
Results ==
  {"FR_OK", "FR_DISK_ERR", "FR_INT_ERR", "FR_NO_FILE", "FR_NO_PATH", "FR_DENIED", "FR_EXIST",
   "FR_LOCKED", "FR_TOO_MANY_OPEN_FILES", "full"}

OpenFils ==
  [path : Seq(Names) \ {<<>>}, place : Nat \X Nat, dirSect : Clst, dirPtr : Nat,
   sclust : Nat, objsize : Nat, fptr : Nat, clust : Nat, sect : Clst \cup {Nowhere},
   buf : Buffers, dirty : BOOLEAN, modified : BOOLEAN, err : Results]

Tables == {t \in SUBSET (Nat \X Nat) : IsFiniteSet(t) /\ Cardinality(t) <= FF_FS_LOCK}

Dirs == [sclust : Nat, dptr : Nat, clust : Nat, sect : Clst \cup {Nowhere}]

Records ==
  [disk : Disks, win : AllContent, winsect : Places, wflag : BOOLEAN,
   free : Nat, last : Nat, fsi : {0, 1},
   fil : OpenFils \cup {NoFil}, files : Tables, dj : Dirs, text : Seq(Units),
   fuse : Int, count : Nat, cuts : SUBSET Disks, res : Results, val : Nat]

(* The window has what may be in its sector, and the file that is open has   *)
(* its place in the table.                                                   *)
Volumes ==
  {v \in Records : /\ v.winsect \in Sectors => v.win \in Content(v.winsect)
                   /\ FilOpen(v) => v.fil.place \in v.files}

(* The same, field by field.                                                 *)
Fields ==
  {"disk", "win", "winsect", "wflag", "free", "last", "fsi", "fil", "files", "dj", "text",
   "fuse", "count", "cuts", "res", "val"}

Typed(v) ==
  /\ v = [x \in Fields |-> v[x]]
  /\ v.disk \in Disks /\ v.win \in AllContent /\ v.winsect \in Places /\ v.wflag \in BOOLEAN
  /\ v.free \in Nat /\ v.last \in Nat /\ v.fsi \in {0, 1}
  /\ v.fil \in OpenFils \cup {NoFil} /\ v.files \in Tables /\ v.dj \in Dirs
  /\ v.text \in Seq(Units) /\ v.fuse \in Int /\ v.count \in Nat /\ v.cuts \in SUBSET Disks
  /\ v.res \in Results /\ v.val \in Nat

LEMMA RecordsTyped ==
  ASSUME NEW v \in Records
  PROVE  Typed(v)
BY DEF Typed, Records, Fields

LEMMA TypedRecords ==
  ASSUME NEW v, Typed(v)
  PROVE  v \in Records
BY DEF Typed, Records, Fields

(* The window is the medium's, unless it is still to be written.             *)
Right(v) == v.wflag \/ v.winsect \in {Nowhere, Info} \/ v.win = v.disk[v.winsect]

(* What no access to the medium changes.                                     *)
Kept(v, w) == w.fil = v.fil /\ w.files = v.files /\ w.text = v.text

KeptAll(v, w) ==
  Kept(v, w) /\ w.dj = v.dj /\ w.free = v.free /\ w.last = v.last /\ w.fsi = v.fsi

Looked(v, w) == w \in Volumes /\ KeptAll(v, w) /\ (Right(v) => Right(w))

(* The same medium and the same memory, but for what is counted and returned. *)
Same(v, w) ==
  /\ w.disk = v.disk /\ w.win = v.win /\ w.winsect = v.winsect /\ w.wflag = v.wflag
  /\ KeptAll(v, w)

LEMMA LookedTwice ==
  ASSUME NEW u, NEW v, NEW w, Looked(u, v), Looked(v, w)
  PROVE  Looked(u, w)
BY DEF Looked, Kept, KeptAll

LEMMA LookedOnce ==
  ASSUME NEW v \in Volumes
  PROVE  Looked(v, v)
BY DEF Looked, Kept, KeptAll

LEMMA SameLooks ==
  ASSUME NEW v \in Volumes, NEW w, Typed(w), Same(v, w)
  PROVE  Looked(v, w)
<1>1. v.winsect \in Sectors => v.win \in Content(v.winsect)
  BY DEF Volumes
<1>2. FilOpen(v) => v.fil.place \in v.files
  BY DEF Volumes
<1>3. w \in Records
  BY TypedRecords
<1>4. w \in Volumes
  BY <1>1, <1>2, <1>3 DEF Volumes, Same, FilOpen, Kept, KeptAll
<1>5. Right(v) => Right(w)
  BY DEF Right, Same
<1> QED BY <1>4, <1>5 DEF Looked, Same

LEMMA VolumeTyped ==
  ASSUME NEW v \in Volumes
  PROVE  Typed(v)
BY RecordsTyped DEF Volumes

LEMMA ResultLooks ==
  ASSUME NEW v \in Volumes, NEW r \in Results
  PROVE  /\ Looked(v, Result(v, r)) /\ Same(v, Result(v, r))
         /\ Result(v, r).val = v.val /\ Result(v, r).res = r
<1> DEFINE w == Result(v, r)
<1>1. Typed(v)
  BY VolumeTyped
<1>2. Typed(w) /\ w.val = v.val /\ w.res = r
  BY <1>1 DEF Result, Typed, Fields
<1>3. Same(v, w)
  BY <1>1 DEF Result, Same, Kept, KeptAll, Typed, Fields
<1> QED BY <1>2, <1>3, SameLooks

LEMMA ValueLooks ==
  ASSUME NEW v \in Volumes, NEW n \in Nat
  PROVE  /\ Looked(v, Value(v, n)) /\ Same(v, Value(v, n))
         /\ Value(v, n).val = n /\ Value(v, n).res = "FR_OK"
<1> DEFINE ok == "FR_OK"
           w == [v EXCEPT !.val = n, !.res = ok]
<1>1. Typed(v) /\ ok \in Results
  BY VolumeTyped DEF Results
<1> HIDE DEF ok
<1>2. Typed(w)
  BY <1>1 DEF Typed, Fields
<1>3. w.val = n /\ w.res = ok
  BY <1>1 DEF Typed, Fields
<1>4. Same(v, w)
  BY <1>1 DEF Same, Kept, KeptAll, Typed, Fields
<1>5. w = Value(v, n)
  BY DEF Value, ok
<1> HIDE DEF w
<1> QED BY <1>2, <1>3, <1>4, <1>5, SameLooks DEF ok

LEMMA AccessLooks ==
  ASSUME NEW v \in Volumes
  PROVE  /\ Looked(v, Access(v)) /\ Same(v, Access(v)) /\ Access(v).val = v.val
         /\ Access(v).res = IF v.fuse = 0 THEN "FR_DISK_ERR" ELSE "FR_OK"
<1> DEFINE fuse == IF v.fuse = Unlimited THEN v.fuse ELSE v.fuse - 1
           res == IF v.fuse = 0 THEN "FR_DISK_ERR" ELSE "FR_OK"
           count == v.count + 1
           w == [v EXCEPT !.count = count, !.fuse = fuse, !.res = res]
<1>1. Typed(v)
  BY VolumeTyped
<1>2. fuse \in Int /\ res \in Results /\ count \in Nat
  BY <1>1 DEF Unlimited, Typed, Results
<1>3. w = Access(v)
  BY DEF Access
<1> HIDE DEF fuse, res, count
<1>4. Typed(w)
  BY <1>1, <1>2 DEF Typed, Fields
<1>5. w.val = v.val /\ w.res = res
  BY <1>1 DEF Typed, Fields
<1>6. Same(v, w)
  BY <1>1 DEF Same, Kept, KeptAll, Typed, Fields
<1> HIDE DEF w
<1> QED BY <1>3, <1>4, <1>5, <1>6, SameLooks DEF res

LEMMA Geometry ==
  /\ NFatEnt \in Nat /\ NFatEnt > 2 /\ FatSS \in Nat \ {0} /\ SS \in Nat \ {0}
  /\ Csize \in Nat \ {0} /\ MaxDir \in Nat \ {0}
BY GeometryAssumption

-----------------------------------------------------------------------------
(* The window.                                                               *)
LEMMA KindsOfSectors ==
  /\ Nowhere \notin Sectors /\ Info \in Sectors /\ Info \notin Clst /\ Clst \subseteq Sectors
  /\ \A c \in Clusters : FatSector(c) \in Sectors /\ FatSector(c) # Info
  /\ \A s \in Clst : s[1] = "clst"
BY GeometryAssumption DEF Nowhere, Sectors, Info, FatSector, Sector, Clst, Clusters

LEMMA DiskPut ==
  ASSUME NEW m \in Disks, NEW s, NEW content, s \in Sectors => content \in Content(s)
  PROVE  [m EXCEPT ![s] = content] \in Disks
<1> DEFINE n == [m EXCEPT ![s] = content]
<1>1. m \in [Sectors -> AllContent] /\ \A r \in Sectors : m[r] \in Content(r)
  BY DEF Disks
<1>2. DOMAIN n = Sectors /\ \A r \in Sectors : n[r] = IF r = s THEN content ELSE m[r]
  BY <1>1
<1>3. \A r \in Sectors : n[r] \in Content(r)
  BY <1>1, <1>2
<1>4. \A r \in Sectors : n[r] \in AllContent
  BY <1>3 DEF AllContent
<1>5. n = [r \in Sectors |-> n[r]]
  BY <1>1
<1> HIDE DEF n
<1>6. n \in [Sectors -> AllContent]
  BY <1>4, <1>5
<1> QED BY <1>3, <1>6 DEF Disks, n

LEMMA DiskWriteLooks ==
  ASSUME NEW v \in Volumes, NEW s, NEW content, s \in Sectors => content \in Content(s)
  PROVE  LET w == DiskWrite(v, s, content)
         IN  /\ w \in Volumes /\ KeptAll(v, w) /\ w.win = v.win /\ w.winsect = v.winsect
             /\ w.wflag = v.wflag /\ w.val = v.val /\ w.res \in {"FR_OK", "FR_DISK_ERR"}
             /\ w.disk = IF Ok(w) THEN [v.disk EXCEPT ![s] = content] ELSE v.disk
<1> DEFINE a == Access(v)
           disk == [a.disk EXCEPT ![s] = content]
           cuts == a.cuts \cup {disk}
           b == [a EXCEPT !.disk = disk, !.cuts = cuts]
           w == DiskWrite(v, s, content)
<1>1. Looked(v, a) /\ Same(v, a) /\ a.val = v.val /\ a.res \in {"FR_OK", "FR_DISK_ERR"}
  BY AccessLooks
<1>2. a \in Volumes /\ KeptAll(v, a) /\ a.disk = v.disk
  BY <1>1 DEF Looked, Same
<1>3. w = IF Ok(a) THEN b ELSE a
  BY DEF DiskWrite, Then
<1> HIDE DEF a
<1>4. Typed(a)
  BY <1>2, VolumeTyped
<1>5. disk \in Disks /\ cuts \in SUBSET Disks
  <2>1. a.disk \in Disks /\ a.cuts \in SUBSET Disks
    BY <1>4 DEF Typed
  <2>2. disk \in Disks
    BY <2>1, DiskPut
  <2> HIDE DEF disk
  <2> QED BY <2>1, <2>2
<1> HIDE DEF disk, cuts
<1>6. Typed(b)
  BY <1>4, <1>5 DEF Typed, Fields
<1>7. /\ b.win = a.win /\ b.winsect = a.winsect /\ b.wflag = a.wflag /\ b.val = a.val
      /\ b.res = a.res /\ b.disk = disk /\ KeptAll(a, b)
  BY <1>4 DEF Typed, Fields, KeptAll, Kept
<1> HIDE DEF b, w
<1>8. b \in Volumes
  <2>1. b \in Records
    BY <1>6, TypedRecords
  <2> QED BY <1>2, <1>7, <2>1 DEF Volumes, FilOpen, KeptAll, Kept
<1>9. CASE Ok(a)
  <2>1. w = b
    BY <1>3, <1>9
  <2>2. KeptAll(v, b)
    BY <1>2, <1>7 DEF KeptAll, Kept
  <2>3. b.disk = [v.disk EXCEPT ![s] = content]
    BY <1>2, <1>7 DEF disk
  <2>4. Ok(b) /\ b.res \in {"FR_OK", "FR_DISK_ERR"}
    BY <1>1, <1>7, <1>9 DEF Ok
  <2> QED BY <1>1, <1>7, <1>8, <2>1, <2>2, <2>3, <2>4 DEF Same, w
<1>10. CASE ~ Ok(a)
  BY <1>1, <1>2, <1>3, <1>10 DEF Same, w
<1> QED BY <1>9, <1>10

LEMMA OkResult ==
  /\ \A v : Ok(v) <=> v.res = "FR_OK"
  /\ {"FR_OK", "FR_DISK_ERR"} \subseteq Results
BY DEF Ok, Results

LEMMA SyncWindowLooks ==
  ASSUME NEW v \in Volumes
  PROVE  LET w == SyncWindow(v)
         IN  /\ Looked(v, w) /\ w.win = v.win /\ w.winsect = v.winsect
             /\ w.res \in {"FR_OK", "FR_DISK_ERR"} /\ (Ok(w) => ~ w.wflag)
<1> DEFINE w == SyncWindow(v)
           a == DiskWrite(v, v.winsect, v.win)
           b == [a EXCEPT !.wflag = FALSE]
<1>1. Typed(v) /\ (v.winsect \in Sectors => v.win \in Content(v.winsect))
  BY VolumeTyped DEF Volumes
<1>2. CASE v.wflag
  <2>1. w = IF Ok(a) THEN b ELSE a
    BY <1>2 DEF SyncWindow, Then
  <2>2. v.winsect \in Places
    BY <1>1 DEF Typed
  <2>3. /\ a \in Volumes /\ KeptAll(v, a) /\ a.win = v.win /\ a.winsect = v.winsect
        /\ a.wflag = v.wflag /\ a.res \in {"FR_OK", "FR_DISK_ERR"}
        /\ a.disk = IF Ok(a) THEN [v.disk EXCEPT ![v.winsect] = v.win] ELSE v.disk
    <3> DEFINE s == v.winsect
               content == v.win
    <3>1. s \in Sectors => content \in Content(s)
      BY <1>1
    <3> HIDE DEF s, content
    <3>2. LET x == DiskWrite(v, s, content)
          IN  /\ x \in Volumes /\ KeptAll(v, x) /\ x.win = v.win /\ x.winsect = v.winsect
              /\ x.wflag = v.wflag /\ x.val = v.val /\ x.res \in {"FR_OK", "FR_DISK_ERR"}
              /\ x.disk = IF Ok(x) THEN [v.disk EXCEPT ![s] = content] ELSE v.disk
      BY ONLY v \in Volumes, <3>1, DiskWriteLooks, ZenonT(60)
    <3> QED BY <3>2 DEF s, content
  <2> HIDE DEF a
  <2>4. CASE ~ Ok(a)
    <3>1. w = a
      BY <2>1, <2>4
    <3>2. Right(a)
      BY <1>2, <2>3 DEF Right
    <3> HIDE DEF w
    <3> QED BY <2>3, <2>4, <3>1, <3>2 DEF Looked, w
  <2>5. CASE Ok(a)
    <3>1. w = b
      BY <2>1, <2>5
    <3>2. Typed(a)
      BY <2>3, VolumeTyped
    <3>3. /\ Typed(b) /\ KeptAll(a, b) /\ b.disk = a.disk /\ b.win = a.win
          /\ b.winsect = a.winsect /\ b.wflag = FALSE /\ b.res = a.res
      BY <3>2 DEF Typed, Fields, KeptAll, Kept
    <3> HIDE DEF b, w
    <3>4. b \in Records
      BY <3>3, TypedRecords
    <3>5. b \in Volumes
      BY <2>3, <3>3, <3>4 DEF Volumes, FilOpen, KeptAll, Kept
    <3>6. b.winsect \in Sectors => b.disk[b.winsect] = b.win
      <4>1. v.disk \in [Sectors -> AllContent]
        BY <1>1 DEF Typed, Disks
      <4>2. b.disk = [v.disk EXCEPT ![v.winsect] = v.win] /\ b.winsect = v.winsect /\ b.win = v.win
        BY <2>3, <2>5, <3>3
      <4> QED BY <4>1, <4>2
    <3>7. Right(b)
      BY <2>2, <2>3, <3>3, <3>6 DEF Right, Places
    <3>8. KeptAll(v, b)
      BY <2>3, <3>3 DEF KeptAll, Kept
    <3> QED BY <2>3, <2>5, <3>1, <3>3, <3>5, <3>7, <3>8 DEF Looked, w
  <2> QED BY <2>4, <2>5
<1>3. CASE ~ v.wflag
  <2>1. w = Result(v, "FR_OK")
    BY <1>3 DEF SyncWindow, Ignoring
  <2>2. Looked(v, w) /\ Same(v, w) /\ w.res = "FR_OK"
    BY <2>1, ResultLooks, OkResult
  <2> QED BY <1>3, <2>2 DEF Same
<1> QED BY <1>2, <1>3

LEMMA MoveWindowLooks ==
  ASSUME NEW v \in Volumes, NEW s \in Sectors
  PROVE  LET w == MoveWindow(v, s)
         IN  /\ Looked(v, w) /\ w.res \in {"FR_OK", "FR_DISK_ERR"}
             /\ Ok(w) => w.winsect = s
<1> DEFINE w == MoveWindow(v, s)
           u == SyncWindow(v)
           a == Access(u)
           win == a.disk[s]
           there == [a EXCEPT !.win = win, !.winsect = s]
           none == [a EXCEPT !.winsect = Nowhere]
<1>1. CASE s = v.winsect
  <2>1. w = Result(v, "FR_OK")
    BY <1>1 DEF MoveWindow, Ignoring
  <2>2. Looked(v, w) /\ Same(v, w) /\ w.res = "FR_OK"
    BY <2>1, ResultLooks, OkResult
  <2> QED BY <1>1, <2>2 DEF Same
<1>2. CASE s # v.winsect
  <2>1. w = IF Ok(u) THEN IF Ok(a) THEN there ELSE none ELSE u
    BY <1>2 DEF MoveWindow, Then, After
  <2>2. Looked(v, u) /\ u.res \in {"FR_OK", "FR_DISK_ERR"} /\ u \in Volumes
    BY SyncWindowLooks DEF Looked
  <2> HIDE DEF u
  <2>3. CASE ~ Ok(u)
    BY <2>1, <2>2, <2>3
  <2>4. CASE Ok(u)
    <3>1. Looked(u, a) /\ a.res \in {"FR_OK", "FR_DISK_ERR"}
      BY <2>2, AccessLooks
    <3>2. a \in Volumes /\ Typed(a)
      BY <3>1, VolumeTyped DEF Looked
    <3> HIDE DEF a
    <3>3. win \in Content(s) /\ win \in AllContent /\ s \in Places /\ Nowhere \in Places
      <4>1. a.disk \in Disks
        BY <3>2 DEF Typed
      <4> QED BY <4>1 DEF Disks, AllContent, Places
    <3>4. CASE Ok(a)
      <4> HIDE DEF win
      <4>1. /\ Typed(there) /\ KeptAll(a, there) /\ there.win = win /\ there.winsect = s
            /\ there.res = a.res /\ there.disk = a.disk
        BY <3>2, <3>3 DEF Typed, Fields, KeptAll, Kept
      <4> HIDE DEF there
      <4>2. there \in Records
        BY <4>1, TypedRecords
      <4>3. there \in Volumes
        BY <3>2, <3>3, <4>1, <4>2 DEF Volumes, FilOpen, KeptAll, Kept
      <4>4. Right(there)
        BY <4>1 DEF Right, win
      <4>5. Looked(a, there)
        BY <4>1, <4>3, <4>4 DEF Looked
      <4>6. Looked(v, there)
        BY <2>2, <3>1, <4>5, LookedTwice
      <4>7. w = there
        BY <2>1, <2>4, <3>4
      <4> HIDE DEF w
      <4> QED BY <3>1, <3>4, <4>1, <4>6, <4>7 DEF w
    <3>5. CASE ~ Ok(a)
      <4>1. /\ Typed(none) /\ KeptAll(a, none) /\ none.win = a.win /\ none.winsect = Nowhere
            /\ none.res = a.res /\ none.disk = a.disk
        BY <3>2, <3>3 DEF Typed, Fields, KeptAll, Kept
      <4> HIDE DEF none
      <4>2. none \in Records
        BY <4>1, TypedRecords
      <4>3. none \in Volumes
        BY <3>2, <3>3, <4>1, <4>2, KindsOfSectors DEF Volumes, FilOpen, KeptAll, Kept
      <4>4. Right(none)
        BY <4>1 DEF Right
      <4>5. Looked(a, none)
        BY <4>1, <4>3, <4>4 DEF Looked
      <4>6. Looked(v, none)
        BY <2>2, <3>1, <4>5, LookedTwice
      <4>7. w = none
        BY <2>1, <2>4, <3>5
      <4> HIDE DEF w
      <4>8. ~ Ok(none)
        BY <3>5, <4>1 DEF Ok
      <4> QED BY <3>1, <4>1, <4>6, <4>7, <4>8 DEF w
    <3> QED BY <3>4, <3>5
  <2> QED BY <2>3, <2>4
<1> QED BY <1>1, <1>2

-----------------------------------------------------------------------------
(* The FAT.                                                                  *)
LinksWith(c) == {d \in 0 .. NFatEnt - 1 : FatSector(d) = FatSector(c)}

LEMMA FatContent ==
  ASSUME NEW c \in Clusters
  PROVE  /\ Content(FatSector(c)) = [fat : [LinksWith(c) -> Nat], ents : {<<>>}, data : {<<>>}]
         /\ c \in LinksWith(c)
<1>1. FatSector(c)[1] = "fat" /\ c \in 0 .. NFatEnt - 1
  BY GeometryAssumption DEF FatSector, Clusters
<1> QED BY <1>1 DEF Content, LinksWith

LEMMA ClstContent ==
  ASSUME NEW s \in Clst
  PROVE  Content(s) = [fat : {<<>>}, ents : [1 .. SS -> Entries], data : Buffers]
<1>1. s[1] = "clst"
  BY KindsOfSectors
<1> QED BY <1>1 DEF Content, Buffers

LEMMA InfoContent ==
  Content(Info) = [fat : Nat \X Nat, ents : {<<>>}, data : {<<>>}]
<1>1. Info[1] = "info"
  BY DEF Info
<1> QED BY <1>1 DEF Content

LEMMA GetFatLooks ==
  ASSUME NEW v \in Volumes, NEW c
  PROVE  LET w == GetFat(v, c)
         IN  Looked(v, w) /\ w.res = "FR_OK" /\ w.val \in Nat
<1> DEFINE w == GetFat(v, c)
           m == MoveWindow(v, FatSector(c))
<1>1. CASE c \notin Clusters
  <2>1. w = Value(v, 1)
    BY <1>1 DEF GetFat
  <2> QED BY <2>1, ValueLooks
<1>2. CASE c \in Clusters
  <2>1. w = Value(m, IF Ok(m) THEN m.win.fat[c] ELSE DiskError)
    BY <1>2 DEF GetFat, After
  <2>2. Looked(v, m) /\ (Ok(m) => m.winsect = FatSector(c)) /\ m \in Volumes
    BY <1>2, KindsOfSectors, MoveWindowLooks DEF Looked
  <2> HIDE DEF m
  <2>3. Ok(m) => m.win.fat[c] \in Nat
    <3> SUFFICES ASSUME Ok(m) PROVE m.win.fat[c] \in Nat
      OBVIOUS
    <3>1. m.win \in Content(FatSector(c))
      BY <1>2, <2>2, KindsOfSectors DEF Volumes
    <3>2. m.win \in [fat : [LinksWith(c) -> Nat], ents : {<<>>}, data : {<<>>}]
      BY <1>2, <3>1, FatContent
    <3> QED BY <1>2, <3>2, FatContent
  <2> DEFINE n == IF Ok(m) THEN m.win.fat[c] ELSE DiskError
  <2>4. n \in Nat
    BY <2>3 DEF DiskError
  <2> HIDE DEF n
  <2>5. Looked(m, Value(m, n)) /\ Value(m, n).val = n /\ Value(m, n).res = "FR_OK"
    BY <2>2, <2>4, ValueLooks
  <2>6. w = Value(m, n)
    BY <2>1 DEF n
  <2> QED BY <2>2, <2>4, <2>5, <2>6, LookedTwice
<1> QED BY <1>1, <1>2

LEMMA PutFatLooks ==
  ASSUME NEW v \in Volumes, NEW c, NEW link \in Nat
  PROVE  LET w == PutFat(v, c, link)
         IN  Looked(v, w) /\ w.res \in {"FR_OK", "FR_DISK_ERR", "FR_INT_ERR"}
<1> DEFINE w == PutFat(v, c, link)
           m == MoveWindow(v, FatSector(c))
           win == [m.win EXCEPT !.fat = [m.win.fat EXCEPT ![c] = link]]
           b == [m EXCEPT !.win = win, !.wflag = TRUE]
<1>1. CASE c \notin Clusters
  <2>1. w = Result(v, "FR_INT_ERR")
    BY <1>1 DEF PutFat
  <2> QED BY <2>1, ResultLooks DEF Results
<1>2. CASE c \in Clusters
  <2>1. w = IF Ok(m) THEN b ELSE m
    BY <1>2 DEF PutFat, Then
  <2>2. /\ Looked(v, m) /\ (Ok(m) => m.winsect = FatSector(c)) /\ m \in Volumes
        /\ m.res \in {"FR_OK", "FR_DISK_ERR"}
    BY <1>2, KindsOfSectors, MoveWindowLooks DEF Looked
  <2> HIDE DEF m
  <2>3. CASE ~ Ok(m)
    BY <2>1, <2>2, <2>3
  <2>4. CASE Ok(m)
    <3>1. m.winsect = FatSector(c) /\ Typed(m)
      BY <2>2, <2>4, VolumeTyped
    <3>2. m.win \in Content(FatSector(c))
      BY <1>2, <2>2, <3>1, KindsOfSectors DEF Volumes
    <3>3. win \in Content(FatSector(c))
      <4>1. m.win \in [fat : [LinksWith(c) -> Nat], ents : {<<>>}, data : {<<>>}]
        BY <1>2, <3>2, FatContent
      <4>2. [m.win.fat EXCEPT ![c] = link] \in [LinksWith(c) -> Nat]
        BY <4>1
      <4>3. win \in [fat : [LinksWith(c) -> Nat], ents : {<<>>}, data : {<<>>}]
        BY <4>1, <4>2
      <4> QED BY <1>2, <4>3, FatContent
    <3>4. win \in AllContent
      BY <1>2, <3>3, KindsOfSectors DEF AllContent
    <3> HIDE DEF win
    <3>5. /\ Typed(b) /\ KeptAll(m, b) /\ b.win = win /\ b.winsect = m.winsect
          /\ b.wflag = TRUE /\ b.res = m.res
      BY <3>1, <3>4 DEF Typed, Fields, KeptAll, Kept
    <3> HIDE DEF b, w
    <3>6. b \in Records
      BY <3>5, TypedRecords
    <3>7. b \in Volumes
      BY <2>2, <3>1, <3>3, <3>5, <3>6 DEF Volumes, FilOpen, KeptAll, Kept
    <3>8. Looked(m, b)
      BY <3>5, <3>7 DEF Looked, Right
    <3>9. w = b
      BY <2>1, <2>4
    <3> QED BY <2>2, <3>5, <3>8, <3>9, LookedTwice DEF w
  <2> QED BY <2>3, <2>4
<1> QED BY <1>1, <1>2

LEMMA CheckedLooks ==
  ASSUME NEW v \in Volumes
  PROVE  /\ Looked(v, Checked(v)) /\ Same(v, Checked(v)) /\ Checked(v).val = v.val
         /\ Ok(Checked(v)) => v.val \notin {1, DiskError}
         /\ Checked(v).res \in {"FR_OK", "FR_DISK_ERR", "FR_INT_ERR"}
<1> DEFINE r == CASE v.val = 1 -> "FR_INT_ERR" [] v.val = DiskError -> "FR_DISK_ERR"
                  [] v.val \notin {1, DiskError} -> "FR_OK"
<1>1. r \in {"FR_OK", "FR_DISK_ERR", "FR_INT_ERR"} /\ r \in Results
  BY DEF Results, DiskError
<1>2. r = "FR_OK" => v.val \notin {1, DiskError}
  BY DEF DiskError
<1>3. Checked(v) = Result(v, r)
  BY DEF Checked
<1> HIDE DEF r
<1> QED BY <1>1, <1>2, <1>3, ResultLooks DEF Ok

-----------------------------------------------------------------------------
(* Cluster chains: what is changed besides the FAT are the counts.           *)
Chained(v, w) ==
  w \in Volumes /\ Kept(v, w) /\ w.dj = v.dj /\ (Right(v) => Right(w))

LEMMA LookedChained ==
  ASSUME NEW v, NEW w, Looked(v, w)
  PROVE  Chained(v, w)
BY DEF Looked, Chained, KeptAll

LEMMA ChainedTwice ==
  ASSUME NEW u, NEW v, NEW w, Chained(u, v), Chained(v, w)
  PROVE  Chained(u, w)
BY DEF Chained, Kept

LEMMA CountsChain ==
  ASSUME NEW v \in Volumes, NEW w, Typed(w), Kept(v, w), w.dj = v.dj,
         w.disk = v.disk, w.win = v.win, w.winsect = v.winsect, w.wflag = v.wflag
  PROVE  Chained(v, w)
<1>1. w \in Records
  BY TypedRecords
<1>2. w \in Volumes
  BY <1>1 DEF Volumes, FilOpen, Kept
<1> QED BY <1>2 DEF Chained, Right

LEMMA OneMoreFreeChains ==
  ASSUME NEW v \in Volumes
  PROVE  Chained(v, OneMoreFree(v))
<1> DEFINE free == v.free + 1
           w == [v EXCEPT !.free = free, !.fsi = 1]
<1>1. Typed(v)
  BY VolumeTyped
<1>2. CASE v.free < NFatEnt - 2
  <2>1. OneMoreFree(v) = w
    BY <1>2 DEF OneMoreFree
  <2>2. free \in Nat
    BY <1>1 DEF Typed
  <2> HIDE DEF free
  <2>3. /\ Typed(w) /\ Kept(v, w) /\ w.dj = v.dj
        /\ w.disk = v.disk /\ w.win = v.win /\ w.winsect = v.winsect /\ w.wflag = v.wflag
    BY <1>1, <2>2 DEF Typed, Fields, Kept
  <2> HIDE DEF w
  <2> QED BY <2>1, <2>3, CountsChain
<1>3. CASE ~ (v.free < NFatEnt - 2)
  BY <1>3, LookedOnce, LookedChained DEF OneMoreFree
<1> QED BY <1>2, <1>3

LEMMA FreeNextChains ==
  ASSUME NEW v \in Volumes, NEW c
  PROVE  Chained(v, FreeNext(v, c))
<1> DEFINE g == GetFat(v, c)
           got == Checked(g)
           p == PutFat(got, c, 0)
           w == FreeNext(v, c)
<1>1. w = IF Ok(got) THEN IF got.val = 0 THEN got ELSE IF Ok(p) THEN OneMoreFree(p) ELSE p
          ELSE got
  BY DEF FreeNext, Then
<1>2. Looked(v, g) /\ g \in Volumes
  BY GetFatLooks DEF Looked
<1> HIDE DEF g
<1>3. Looked(g, got) /\ got \in Volumes
  BY <1>2, CheckedLooks DEF Looked
<1> HIDE DEF got
<1>4. Looked(got, p) /\ p \in Volumes
  BY <1>3, PutFatLooks DEF Looked
<1> HIDE DEF p
<1>5. Chained(p, OneMoreFree(p))
  BY <1>4, OneMoreFreeChains
<1>6. Looked(v, got) /\ Looked(v, p)
  BY <1>2, <1>3, <1>4, LookedTwice
<1>7. Chained(v, got) /\ Chained(v, p)
  BY <1>6, LookedChained
<1>8. Chained(v, OneMoreFree(p))
  BY <1>5, <1>7, ChainedTwice
<1> QED BY <1>1, <1>7, <1>8

LEMMA FreeFromChains ==
  ASSUME NEW v \in Volumes, NEW c \in Nat
  PROVE  Chained(v, FreeFrom(v, c))
<1> DEFINE x == Value(v, c)
           S == {w \in Volumes : Chained(v, w)}
           g == [p \in S \X Nat |-> FreeRound(p[1], p[2])]
           Body(f) == [k \in Nat |-> IF k = 0 THEN x ELSE FreeRound(f[k - 1], k)]
           after == CHOOSE f : f = Body(f)
<1>1. FreeFrom(v, c) = after[NFatEnt]
  BY DEF FreeFrom, Rounds
<1>2. x \in S
  BY ValueLooks, LookedChained DEF Looked
<1>3. \A u \in S, k \in Nat : FreeRound(u, k) \in S
  <2> SUFFICES ASSUME NEW u \in S, NEW k \in Nat PROVE FreeRound(u, k) \in S
    OBVIOUS
  <2>1. FreeRound(u, k) = IF Ok(u) /\ u.val \in Clusters THEN FreeNext(u, u.val) ELSE u
    BY DEF FreeRound, Then
  <2>2. Chained(u, FreeNext(u, u.val))
    BY FreeNextChains
  <2>3. Chained(v, FreeNext(u, u.val)) /\ FreeNext(u, u.val) \in Volumes
    BY <2>2, ChainedTwice DEF Chained
  <2> QED BY <2>1, <2>3
<1> HIDE DEF x, S
<1>4. RoundOn(S, g) /\ \A u \in S, k \in Nat : g[<<u, k>>] = FreeRound(u, k)
  BY <1>3 DEF RoundOn
<1> HIDE DEF g
<1>5. PICK f : Iterates(f, S, x, g)
  BY <1>2, <1>4, Recursion
<1>6. f = Body(f)
  <2> USE DEF Iterates
  <2> SUFFICES ASSUME NEW k \in Nat PROVE f[k] = IF k = 0 THEN x ELSE FreeRound(f[k - 1], k)
    BY <1>5
  <2>1. CASE k # 0
    <3>1. k - 1 \in Nat /\ (k - 1) + 1 = k /\ f[k - 1] \in S
      BY <1>5, <2>1
    <3>2. f[(k - 1) + 1] = g[<<f[k - 1], (k - 1) + 1>>]
      BY <1>5, <3>1
    <3> QED BY <1>4, <2>1, <3>1, <3>2
  <2> QED BY <1>5, <2>1
<1>7. after = Body(after)
  BY <1>6
<1> HIDE DEF after
<1>8. after[0] \in S
  BY <1>2, <1>7
<1>9. \A k \in Nat : after[k] \in S => after[k + 1] \in S
  <2> SUFFICES ASSUME NEW k \in Nat, after[k] \in S PROVE after[k + 1] \in S
    OBVIOUS
  <2>1. after[k + 1] = FreeRound(after[k], k + 1)
    BY <1>7
  <2> QED BY <1>3, <2>1
<1>10. NFatEnt \in Nat
  BY GeometryAssumption
<1>11. after[NFatEnt] \in S
  BY <1>8, <1>9, <1>10, StaysIn
<1> QED BY <1>1, <1>11 DEF S

LEMMA RemoveChainChains ==
  ASSUME NEW v \in Volumes, NEW c
  PROVE  Chained(v, RemoveChain(v, c))
<1>1. CASE c \in Clusters
  BY <1>1, FreeFromChains, GeometryAssumption DEF RemoveChain, Clusters
<1>2. CASE c \notin Clusters
  <2>1. Looked(v, Result(v, "FR_INT_ERR"))
    BY ResultLooks DEF Results
  <2> QED BY <1>2, <2>1, LookedChained DEF RemoveChain
<1> QED BY <1>1, <1>2

(* What get_fat and create_chain may find: a free one, an error, a cluster.  *)
ClusterValues == {0, 1, DiskError} \cup Clusters

LEMMA Remainder ==
  ASSUME NEW m \in Nat, NEW n \in Nat \ {0}
  PROVE  /\ m % n \in 0 .. n - 1 /\ m \div n \in Nat /\ m = n * (m \div n) + (m % n)
OBVIOUS

LEMMA ProbeLooks ==
  ASSUME NEW v \in Volumes, v.val \in ClusterValues, NEW c \in Clusters
  PROVE  Looked(v, Probe(v, c)) /\ Probe(v, c).val \in ClusterValues
<1> DEFINE got == GetFat(v, c)
<1>1. Looked(v, got) /\ got \in Volumes /\ got.val \in Nat
  BY GetFatLooks DEF Looked
<1>2. CASE v.val # 0
  BY <1>2, LookedOnce DEF Probe
<1>3. CASE v.val = 0
  <2>1. c \in Nat
    BY GeometryAssumption DEF Clusters
  <2>2. Looked(got, Value(got, c)) /\ Value(got, c).val = c
    BY <1>1, <2>1, ValueLooks
  <2>3. Looked(got, Value(got, 0)) /\ Value(got, 0).val = 0
    BY <1>1, ValueLooks
  <2>4. Probe(v, c) = IF got.val = 0 THEN Value(got, c)
                      ELSE IF got.val \in {1, DiskError} THEN got ELSE Value(got, 0)
    BY <1>3 DEF Probe, After, DiskError
  <2> HIDE DEF got
  <2>5. Looked(v, Value(got, c)) /\ Looked(v, Value(got, 0))
    BY <1>1, <2>2, <2>3, LookedTwice
  <2> QED BY <1>1, <2>2, <2>3, <2>4, <2>5 DEF ClusterValues
<1> QED BY <1>2, <1>3

LEMMA SearchFreeLooks ==
  ASSUME NEW v \in Volumes, NEW scl \in Nat \ {0}
  PROVE  Looked(v, SearchFree(v, scl)) /\ SearchFree(v, scl).val \in ClusterValues
<1> DEFINE x == Value(v, 0)
           At(k) == 2 + ((scl + k - 2) % (NFatEnt - 2))
           S == {w \in Volumes : Looked(v, w) /\ w.val \in ClusterValues}
           g == [p \in S \X Nat |-> IF p[2] = 0 THEN p[1] ELSE Probe(p[1], At(p[2]))]
           Body(f) == [k \in Nat |-> IF k = 0 THEN x ELSE Probe(f[k - 1], At(k))]
           after == CHOOSE f : f = Body(f)
<1>1. SearchFree(v, scl) = after[NFatEnt - 2]
  BY DEF SearchFree, Rounds
<1>2. x \in S
  BY ValueLooks DEF Looked, ClusterValues
<1>3. \A u \in S, k \in Nat \ {0} : Probe(u, At(k)) \in S
  <2> SUFFICES ASSUME NEW u \in S, NEW k \in Nat \ {0} PROVE Probe(u, At(k)) \in S
    OBVIOUS
  <2>1. scl + k - 2 \in Nat /\ NFatEnt - 2 \in Nat \ {0}
    BY GeometryAssumption
  <2>2. (scl + k - 2) % (NFatEnt - 2) \in 0 .. (NFatEnt - 2) - 1
    BY <2>1, Remainder
  <2> DEFINE r == (scl + k - 2) % (NFatEnt - 2)
  <2>3. At(k) = 2 + r /\ r \in 0 .. (NFatEnt - 2) - 1
    BY <2>2
  <2> HIDE DEF At, r
  <2>6. At(k) \in Clusters
    BY <2>1, <2>3, Geometry DEF Clusters
  <2>4. Looked(u, Probe(u, At(k))) /\ Probe(u, At(k)).val \in ClusterValues
    BY <2>6, ProbeLooks
  <2>5. Looked(v, Probe(u, At(k))) /\ Probe(u, At(k)) \in Volumes
    BY <2>4, LookedTwice DEF Looked
  <2> QED BY <2>4, <2>5
<1> HIDE DEF x, S, At
<1>4. RoundOn(S, g) /\ \A u \in S, k \in Nat \ {0} : g[<<u, k>>] = Probe(u, At(k))
  BY <1>3 DEF RoundOn
<1> HIDE DEF g
<1>5. PICK f : Iterates(f, S, x, g)
  BY <1>2, <1>4, Recursion
<1>6. f = Body(f)
  <2> USE DEF Iterates
  <2> SUFFICES ASSUME NEW k \in Nat PROVE f[k] = IF k = 0 THEN x ELSE Probe(f[k - 1], At(k))
    BY <1>5
  <2>1. CASE k # 0
    <3>1. k \in Nat \ {0} /\ k - 1 \in Nat /\ (k - 1) + 1 = k /\ f[k - 1] \in S
      BY <1>5, <2>1
    <3>2. f[(k - 1) + 1] = g[<<f[k - 1], (k - 1) + 1>>]
      BY <1>5, <3>1
    <3> QED BY <1>4, <2>1, <3>1, <3>2
  <2> QED BY <1>5, <2>1
<1>7. after = Body(after)
  BY <1>6
<1> HIDE DEF after
<1>8. after[0] \in S
  BY <1>2, <1>7
<1>9. \A k \in Nat : after[k] \in S => after[k + 1] \in S
  <2> SUFFICES ASSUME NEW k \in Nat, after[k] \in S PROVE after[k + 1] \in S
    OBVIOUS
  <2>1. after[k + 1] = Probe(after[k], At(k + 1)) /\ k + 1 \in Nat \ {0}
    BY <1>7
  <2> QED BY <1>3, <2>1
<1>10. after[NFatEnt - 2] \in S
  BY <1>8, <1>9, StaysIn, GeometryAssumption
<1> QED BY <1>1, <1>10 DEF S

LEMMA TakenChains ==
  ASSUME NEW v \in Volumes, v.free # 0, NEW c \in Clusters
  PROVE  Chained(v, Taken(v, c)) /\ Taken(v, c).val \in ClusterValues
<1>1. CASE Ok(v)
  <2> DEFINE free == IF v.free <= NFatEnt - 2 THEN v.free - 1 ELSE v.free
             a == [v EXCEPT !.last = c, !.fsi = 1, !.free = free]
  <2>1. Taken(v, c) = Value(a, c)
    BY <1>1 DEF Taken
  <2>2. Typed(v) /\ free \in Nat /\ c \in Nat
    <3>1. Typed(v)
      BY VolumeTyped
    <3>2. v.free \in Nat /\ v.free # 0
      BY <3>1 DEF Typed
    <3>3. free \in Nat
      BY <3>2, Geometry
    <3>4. c \in Nat
      BY Geometry DEF Clusters
    <3> QED BY <3>1, <3>3, <3>4
  <2> HIDE DEF free
  <2>3. /\ Typed(a) /\ Kept(v, a) /\ a.dj = v.dj
        /\ a.disk = v.disk /\ a.win = v.win /\ a.winsect = v.winsect /\ a.wflag = v.wflag
    BY <2>2 DEF Typed, Fields, Kept
  <2> HIDE DEF a
  <2>4. Chained(v, a) /\ a \in Volumes
    BY <2>3, CountsChain DEF Chained
  <2>5. Chained(a, Value(a, c)) /\ Value(a, c).val = c
    BY <2>2, <2>4, ValueLooks, LookedChained
  <2> QED BY <2>1, <2>4, <2>5, ChainedTwice DEF ClusterValues
<1>2. CASE ~ Ok(v)
  <2> DEFINE n == IF v.res = "FR_DISK_ERR" THEN DiskError ELSE 1
  <2>1. Taken(v, c) = Value(v, n)
    BY <1>2 DEF Taken
  <2>2. n \in Nat /\ n \in ClusterValues
    BY DEF DiskError, ClusterValues
  <2> HIDE DEF n
  <2> QED BY <2>1, <2>2, ValueLooks, LookedChained
<1> QED BY <1>1, <1>2

LEMMA TakeChains ==
  ASSUME NEW v \in Volumes, v.free # 0, NEW clst \in Nat, NEW c \in Clusters
  PROVE  Chained(v, Take(v, clst, c)) /\ Take(v, clst, c).val \in ClusterValues
<1> DEFINE p == PutFat(v, c, EndOfChain)
           q == PutFat(p, clst, c)
           put == IF Ok(p) /\ clst # 0 THEN q ELSE p
<1>1. Take(v, clst, c) = Taken(put, c)
  BY DEF Take, Then
<1>2. EndOfChain \in Nat /\ c \in Nat
  BY Geometry DEF EndOfChain, Clusters
<1>3. Looked(v, p) /\ p \in Volumes
  BY <1>2, PutFatLooks DEF Looked
<1> HIDE DEF p
<1>4. Looked(p, q)
  BY <1>2, <1>3, PutFatLooks
<1>5. Looked(v, put)
  BY <1>3, <1>4, LookedTwice
<1> HIDE DEF put
<1>6. put \in Volumes /\ put.free # 0 /\ Chained(v, put)
  BY <1>5, LookedChained DEF Looked, KeptAll
<1>7. Chained(put, Taken(put, c)) /\ Taken(put, c).val \in ClusterValues
  BY <1>6, TakenChains
<1> QED BY <1>1, <1>6, <1>7, ChainedTwice

LEMMA TakeFoundChains ==
  ASSUME NEW v \in Volumes, v.free # 0, v.val \in ClusterValues, NEW clst \in Nat
  PROVE  Chained(v, TakeFound(v, clst)) /\ TakeFound(v, clst).val \in ClusterValues
BY TakeChains, LookedOnce, LookedChained DEF TakeFound

LEMMA SearchedAndTaken ==
  ASSUME NEW v \in Volumes, v.free # 0, NEW scl \in Nat \ {0}, NEW clst \in Nat
  PROVE  /\ Chained(v, TakeFound(SearchFree(v, scl), clst))
         /\ TakeFound(SearchFree(v, scl), clst).val \in ClusterValues
<1> DEFINE s == SearchFree(v, scl)
<1>1. Looked(v, s) /\ s.val \in ClusterValues
  BY SearchFreeLooks
<1> HIDE DEF s
<1>2. s \in Volumes /\ s.free # 0 /\ Chained(v, s)
  BY <1>1, LookedChained DEF Looked, KeptAll
<1>3. Chained(s, TakeFound(s, clst)) /\ TakeFound(s, clst).val \in ClusterValues
  BY <1>1, <1>2, TakeFoundChains
<1>4. Chained(v, TakeFound(s, clst))
  BY <1>2, <1>3, ChainedTwice
<1> QED BY <1>3, <1>4 DEF s

LEMMA NewChainChains ==
  ASSUME NEW v \in Volumes
  PROVE  Chained(v, NewChain(v)) /\ NewChain(v).val \in ClusterValues
<1>1. CASE v.free = 0
  <2>1. NewChain(v) = Value(v, 0)
    BY <1>1 DEF NewChain
  <2> QED BY <2>1, ValueLooks, LookedChained DEF ClusterValues
<1>2. CASE v.free # 0
  <2>1. NewChain(v) = TakeFound(SearchFree(v, Suggested(v)), 0)
    BY <1>2 DEF NewChain
  <2>2. v.last \in Nat
    BY VolumeTyped DEF Typed
  <2>3. Suggested(v) \in Nat \ {0}
    BY <2>2 DEF Suggested
  <2> QED BY <1>2, <2>1, <2>3, SearchedAndTaken
<1> QED BY <1>1, <1>2

LEMMA StretchChains ==
  ASSUME NEW v \in Volumes, v.free # 0, NEW clst \in Clusters
  PROVE  Chained(v, Stretch(v, clst)) /\ Stretch(v, clst).val \in ClusterValues
<1> DEFINE nxt == IF clst + 1 >= NFatEnt THEN 2 ELSE clst + 1
           scl == IF v.last >= 2 /\ v.last < NFatEnt THEN v.last ELSE clst
           got == GetFat(v, nxt)
<1>1. clst \in Nat \ {0} /\ nxt \in Clusters
  BY Geometry DEF Clusters
<1>2. v.last \in Nat
  BY VolumeTyped DEF Typed
<1>3. scl \in Nat \ {0}
  BY <1>1, <1>2
<1>4. Looked(v, got) /\ got.val \in Nat
  BY GetFatLooks
<1>5. Stretch(v, clst) = IF got.val = 0 THEN Take(got, clst, nxt)
                         ELSE IF got.val \in {1, DiskError} THEN got
                         ELSE TakeFound(SearchFree(got, scl), clst)
  BY DEF Stretch, After, DiskError
<1> HIDE DEF got, nxt, scl
<1>6. got \in Volumes /\ got.free # 0 /\ Chained(v, got)
  BY <1>4, LookedChained DEF Looked, KeptAll
<1>7. Chained(got, Take(got, clst, nxt)) /\ Take(got, clst, nxt).val \in ClusterValues
  BY <1>1, <1>6, TakeChains
<1>8. /\ Chained(got, TakeFound(SearchFree(got, scl), clst))
      /\ TakeFound(SearchFree(got, scl), clst).val \in ClusterValues
  BY <1>1, <1>3, <1>6, SearchedAndTaken
<1>9. Chained(v, Take(got, clst, nxt)) /\ Chained(v, TakeFound(SearchFree(got, scl), clst))
  BY <1>6, <1>7, <1>8, ChainedTwice
<1> QED BY <1>5, <1>6, <1>7, <1>8, <1>9 DEF ClusterValues

LEMMA CreateChainChains ==
  ASSUME NEW v \in Volumes, NEW clst \in Nat
  PROVE  Chained(v, CreateChain(v, clst)) /\ CreateChain(v, clst).val \in ClusterValues
<1> DEFINE got == GetFat(v, clst)
<1>1. CASE clst = 0
  BY <1>1, NewChainChains DEF CreateChain
<1>2. CASE clst # 0
  <2>1. Looked(v, got) /\ got.val \in Nat
    BY GetFatLooks
  <2>2. got.val < 2 \/ got.val \in (2 .. NFatEnt - 1) \cup {DiskError}
        \/ (got.val >= NFatEnt /\ got.val # DiskError)
    BY <2>1, Geometry
  <2>3. NFatEnt < DiskError /\ DiskError \in Nat
    BY NumbersAssumption DEF DiskError
  <2>4. CreateChain(v, clst) =
          CASE got.val < 2 -> Value(got, 1)
            [] got.val \in 2 .. NFatEnt - 1 \cup {DiskError} -> got
            [] got.val >= NFatEnt /\ got.val # DiskError ->
                 IF got.free = 0 THEN Value(got, 0) ELSE Stretch(got, clst)
    BY <1>2 DEF CreateChain, After
  <2>5. clst \in Clusters \/ got.val = 1
    BY ValueLooks DEF GetFat
  <2> HIDE DEF got
  <2>6. got \in Volumes /\ Chained(v, got)
    BY <2>1, LookedChained DEF Looked
  <2>7. CASE got.val < 2
    <3>1. CreateChain(v, clst) = Value(got, 1)
      BY <2>1, <2>3, <2>4, <2>7, Geometry
    <3>2. Chained(got, Value(got, 1)) /\ Value(got, 1).val \in ClusterValues
      BY <2>6, ValueLooks, LookedChained DEF ClusterValues
    <3> QED BY <2>6, <3>1, <3>2, ChainedTwice
  <2>8. CASE got.val \in (2 .. NFatEnt - 1) \cup {DiskError}
    <3>1. CreateChain(v, clst) = got
      BY <2>1, <2>3, <2>4, <2>8, Geometry
    <3> QED BY <2>6, <2>8, <3>1 DEF ClusterValues, Clusters
  <2>9. CASE got.val >= NFatEnt /\ got.val # DiskError
    <3>1. CreateChain(v, clst) = IF got.free = 0 THEN Value(got, 0) ELSE Stretch(got, clst)
      BY <2>1, <2>3, <2>4, <2>9, Geometry
    <3>2. clst \in Clusters
      BY <2>5, <2>9, Geometry
    <3>3. Chained(got, Value(got, 0)) /\ Value(got, 0).val \in ClusterValues
      BY <2>6, ValueLooks, LookedChained DEF ClusterValues
    <3>4. got.free # 0 => Chained(got, Stretch(got, clst)) /\ Stretch(got, clst).val \in ClusterValues
      BY <2>6, <3>2, StretchChains
    <3> QED BY <2>6, <3>1, <3>3, <3>4, ChainedTwice
  <2> QED BY <2>2, <2>7, <2>8, <2>9
<1> QED BY <1>1, <1>2

-----------------------------------------------------------------------------
(* Directories: what changes neither the file that is open nor the table of  *)
(* open objects, and what does not move the DIR object either.               *)
Walked(v, w) == w \in Volumes /\ Kept(v, w)
Stayed(v, w) == Walked(v, w) /\ w.dj = v.dj

(* The DIR object stands on an entry, and that one is in the window.         *)
Standing(v) == v.dj.sect \in Clst /\ v.dj.clust \in Clusters
AtEntry(v) == v.winsect \in Clst

LEMMA WalkedTwice ==
  ASSUME NEW u, NEW v, NEW w, Walked(u, v), Walked(v, w)
  PROVE  Walked(u, w)
BY DEF Walked, Kept

LEMMA StayedTwice ==
  ASSUME NEW u, NEW v, NEW w, Stayed(u, v), Stayed(v, w)
  PROVE  Stayed(u, w)
BY DEF Stayed, Walked, Kept

LEMMA ChainedStays ==
  ASSUME NEW v, NEW w, Chained(v, w)
  PROVE  Stayed(v, w)
BY DEF Chained, Stayed, Walked

LEMMA LookedStays ==
  ASSUME NEW v, NEW w, Looked(v, w)
  PROVE  Stayed(v, w)
BY LookedChained, ChainedStays

LEMMA StayedWalks ==
  ASSUME NEW v, NEW w, Stayed(v, w)
  PROVE  Walked(v, w) /\ (Standing(v) => Standing(w))
BY DEF Stayed, Standing

LEMMA ZerosFit ==
  ASSUME NEW s \in Clst
  PROVE  Zeros \in Content(s) /\ Zeros \in AllContent
<1>1. FreeEnt \in Entries
  BY DEF FreeEnt, Ent, Entries
<1>2. "0" \in Units
  BY UnitsAssumption
<1>3. Zeros \in Content(s)
  BY <1>1, <1>2, ClstContent DEF Zeros, Buffers
<1> QED BY <1>3, KindsOfSectors DEF AllContent

LEMMA ClstOf ==
  ASSUME NEW c \in Clusters, NEW k \in 0 .. Csize - 1
  PROVE  Sector(c, k) \in Clst
BY DEF Clst

LEMMA ClearRoundStays ==
  ASSUME NEW v \in Volumes, NEW c \in Clusters, NEW k
  PROVE  LET w == ClearRound(v, c, k)
         IN  w \in Volumes /\ KeptAll(v, w) /\ w.winsect = v.winsect
<1> DEFINE s == Sector(c, k - 1)
<1>1. s \in Sectors => s \in Clst
  BY KindsOfSectors DEF Sectors, Clst, Sector, FatSector, Info
<1>2. s \in Sectors => Zeros \in Content(s)
  BY <1>1, ZerosFit
<1>3. ClearRound(v, c, k) = IF Ok(v) THEN DiskWrite(v, s, Zeros) ELSE v
  BY DEF ClearRound, Then
<1> HIDE DEF s
<1>4. LET w == DiskWrite(v, s, Zeros)
      IN  w \in Volumes /\ KeptAll(v, w) /\ w.winsect = v.winsect
  BY <1>2, DiskWriteLooks, ZenonT(60)
<1>5. KeptAll(v, v)
  BY DEF KeptAll, Kept
<1> QED BY <1>3, <1>4, <1>5

LEMMA DirClearStays ==
  ASSUME NEW v \in Volumes, NEW c \in Clusters
  PROVE  LET w == DirClear(v, c)
         IN  w \in Volumes /\ KeptAll(v, w) /\ (Ok(w) => w.winsect = Sector(c, 0))
<1> DEFINE y == SyncWindow(v)
           s == Sector(c, 0)
           x == [y EXCEPT !.win = Zeros, !.winsect = s]
           S == {w \in Volumes : KeptAll(v, w) /\ w.winsect = s}
           g == [p \in S \X Nat |-> IF p[2] = 0 THEN p[1] ELSE ClearRound(p[1], c, p[2])]
           Body(f) == [k \in Nat |-> IF k = 0 THEN x ELSE ClearRound(f[k - 1], c, k)]
           after == CHOOSE f : f = Body(f)
<1>1. DirClear(v, c) = IF Ok(y) THEN after[Csize] ELSE y
  BY DEF DirClear, Rounds, Then
<1>2. x \in S
  <2>1. Looked(v, y) /\ y \in Volumes /\ Typed(y)
    BY SyncWindowLooks, VolumeTyped DEF Looked
  <2>2. s \in Clst /\ s \in Places
    BY ClstOf, Geometry, KindsOfSectors DEF Places
  <2>3. Zeros \in Content(s) /\ Zeros \in AllContent
    BY <2>2, ZerosFit
  <2> HIDE DEF y, s
  <2>4. Typed(x) /\ KeptAll(y, x) /\ x.win = Zeros /\ x.winsect = s
    BY <2>1, <2>2, <2>3 DEF Typed, Fields, KeptAll, Kept
  <2> HIDE DEF x
  <2>5. x \in Records
    BY <2>4, TypedRecords
  <2>6. x \in Volumes
    BY <2>1, <2>3, <2>4, <2>5 DEF Volumes, FilOpen, KeptAll, Kept
  <2>7. KeptAll(v, x)
    BY <2>1, <2>4 DEF Looked, KeptAll, Kept
  <2> QED BY <2>4, <2>6, <2>7
<1>3. \A u \in S, k \in Nat \ {0} : ClearRound(u, c, k) \in S
  <2> SUFFICES ASSUME NEW u \in S, NEW k \in Nat \ {0} PROVE ClearRound(u, c, k) \in S
    OBVIOUS
  <2> DEFINE w == ClearRound(u, c, k)
  <2>1. w \in Volumes /\ KeptAll(u, w) /\ w.winsect = u.winsect
    BY ClearRoundStays
  <2> HIDE DEF w
  <2>2. KeptAll(v, w)
    BY <2>1 DEF KeptAll, Kept
  <2>3. w \in S
    BY <2>1, <2>2
  <2> QED BY <2>3 DEF w
<1>11. Looked(v, y)
  BY SyncWindowLooks
<1> HIDE DEF x, S, y
<1>4. RoundOn(S, g) /\ \A u \in S, k \in Nat \ {0} : g[<<u, k>>] = ClearRound(u, c, k)
  BY <1>3 DEF RoundOn
<1> HIDE DEF g
<1>5. PICK f : Iterates(f, S, x, g)
  BY <1>2, <1>4, Recursion
<1>6. f = Body(f)
  <2> USE DEF Iterates
  <2> SUFFICES ASSUME NEW k \in Nat PROVE f[k] = IF k = 0 THEN x ELSE ClearRound(f[k - 1], c, k)
    BY <1>5
  <2>1. CASE k # 0
    <3>1. k \in Nat \ {0} /\ k - 1 \in Nat /\ (k - 1) + 1 = k /\ f[k - 1] \in S
      BY <1>5, <2>1
    <3>2. f[(k - 1) + 1] = g[<<f[k - 1], (k - 1) + 1>>]
      BY <1>5, <3>1
    <3> QED BY <1>4, <2>1, <3>1, <3>2
  <2> QED BY <1>5, <2>1
<1>7. after = Body(after)
  BY <1>6
<1> HIDE DEF after
<1>8. after[0] \in S
  BY <1>2, <1>7
<1>9. \A k \in Nat : after[k] \in S => after[k + 1] \in S
  <2> SUFFICES ASSUME NEW k \in Nat, after[k] \in S PROVE after[k + 1] \in S
    OBVIOUS
  <2>1. after[k + 1] = ClearRound(after[k], c, k + 1) /\ k + 1 \in Nat \ {0}
    BY <1>7
  <2> QED BY <1>3, <2>1
<1>10. after[Csize] \in S
  BY <1>8, <1>9, StaysIn, Geometry
<1> QED BY <1>1, <1>10, <1>11 DEF S, Looked

LEMMA DjWalks ==
  ASSUME NEW v \in Volumes, NEW d \in Dirs
  PROVE  LET w == [v EXCEPT !.dj = d]
         IN  /\ Walked(v, w) /\ w.dj = d /\ w.res = v.res /\ w.val = v.val
             /\ w.winsect = v.winsect
<1> DEFINE w == [v EXCEPT !.dj = d]
<1>1. Typed(v)
  BY VolumeTyped
<1>2. /\ Typed(w) /\ Kept(v, w) /\ w.win = v.win /\ w.winsect = v.winsect /\ w.dj = d
      /\ w.res = v.res /\ w.val = v.val
  BY <1>1 DEF Typed, Fields, Kept
<1> HIDE DEF w
<1>3. w \in Records
  BY <1>2, TypedRecords
<1>4. w \in Volumes
  BY <1>2, <1>3 DEF Volumes, FilOpen, Kept
<1> QED BY <1>2, <1>4 DEF Walked, w

LEMMA DirSdiWalks ==
  ASSUME NEW v \in Volumes, NEW sclust \in Nat
  PROVE  LET w == DirSdi(v, sclust)
         IN  Walked(v, w) /\ (Ok(w) => Standing(w)) /\ w.dj.sclust = sclust
<1> DEFINE first == IF sclust = 0 THEN DirBase ELSE sclust
           i == Ignoring(v)
           d == [i.dj EXCEPT !.sclust = sclust, !.dptr = 0]
           e == [d EXCEPT !.clust = first, !.sect = Sector(first, 0)]
           x == [i EXCEPT !.dj = d]
           y == [x EXCEPT !.dj = e]
           w == DirSdi(v, sclust)
<1>1. i \in Volumes /\ Walked(v, i) /\ Typed(i)
  BY ResultLooks, LookedStays, VolumeTyped, OkResult DEF Ignoring, Looked, Stayed
<1>2. i.dj \in Dirs
  BY <1>1 DEF Typed
<1>3. d \in Dirs /\ d.sclust = sclust
  BY <1>2 DEF Dirs
<1>4. Walked(i, x) /\ x.dj = d /\ x \in Volumes
  BY <1>1, <1>3, DjWalks DEF Walked
<1>5. w = IF first \in Clusters THEN y ELSE Result(x, "FR_INT_ERR")
  <2>1. [i EXCEPT !.dj.sclust = sclust, !.dj.dptr = 0] = x
    OBVIOUS
  <2>2. [x EXCEPT !.dj.clust = first, !.dj.sect = Sector(first, 0)] = y
    BY <1>4
  <2>3. w = IF first \in Clusters
            THEN [[i EXCEPT !.dj.sclust = sclust, !.dj.dptr = 0]
                    EXCEPT !.dj.clust = first, !.dj.sect = Sector(first, 0)]
            ELSE Result([i EXCEPT !.dj.sclust = sclust, !.dj.dptr = 0], "FR_INT_ERR")
    BY DEF DirSdi
  <2> QED BY <2>1, <2>2, <2>3
<1> HIDE DEF x, i
<1>6. CASE first \in Clusters
  <2>1. first \in Nat /\ Sector(first, 0) \in Clst
    BY <1>6, ClstOf, Geometry DEF Clusters
  <2>2. e \in Dirs /\ e.sclust = sclust /\ e.clust = first /\ e.sect = Sector(first, 0)
    BY <1>3, <2>1 DEF Dirs
  <2> HIDE DEF e, first
  <2>3. Walked(x, y) /\ y.dj = e
    BY <1>4, <2>2, DjWalks
  <2> HIDE DEF y
  <2>4. Walked(v, y) /\ Standing(y)
    BY <1>1, <1>4, <1>6, <2>1, <2>2, <2>3, WalkedTwice DEF Standing
  <2> QED BY <1>5, <1>6, <2>2, <2>3, <2>4
<1>7. CASE first \notin Clusters
  <2> DEFINE r == Result(x, "FR_INT_ERR")
  <2>1. Stayed(x, r) /\ r.res = "FR_INT_ERR"
    BY <1>4, ResultLooks, LookedStays DEF Results
  <2> HIDE DEF r
  <2>2. Walked(v, r) /\ r.dj = d /\ ~ Ok(r)
    BY <1>1, <1>4, <2>1, WalkedTwice DEF Stayed, Ok
  <2> QED BY <1>3, <1>5, <1>7, <2>2 DEF r
<1> QED BY <1>6, <1>7

LEMMA StretchedStays ==
  ASSUME NEW v \in Volumes, NEW stretch
  PROVE  LET w == Stretched(v, stretch)
         IN  Stayed(v, w) /\ (Ok(w) => w.val \in Clusters)
<1> DEFINE new == CreateChain(v, v.dj.clust)
           ch == Checked(new)
           cl == DirClear(ch, new.val)
           w == Stretched(v, stretch)
<1>1. CASE ~ stretch
  <2>1. w = Result(v, "FR_NO_FILE")
    BY <1>1 DEF Stretched
  <2> QED BY <2>1, ResultLooks, LookedStays DEF Results, Ok
<1>2. CASE stretch
  <2>1. w = IF new.val = 0 THEN Result(new, "FR_DENIED")
            ELSE IF Ok(ch) THEN IF Ok(DirClear(ch, ch.val))
                                THEN Value(DirClear(ch, ch.val), new.val) ELSE DirClear(ch, ch.val)
                 ELSE ch
    <3>1. ch.val = new.val \/ ~ Ok(ch)
      <4>1. new \in Volumes
        <5>1. v.dj.clust \in Nat
          BY VolumeTyped DEF Typed, Dirs
        <5> QED BY <5>1, CreateChainChains DEF Chained
      <4> QED BY <4>1, CheckedLooks
    <3>2. w = IF new.val = 0 THEN Result(new, "FR_DENIED")
            ELSE IF Ok(ch) THEN IF Ok(DirClear(ch, new.val))
                                THEN Value(DirClear(ch, new.val), new.val) ELSE DirClear(ch, new.val)
                 ELSE ch
      BY <1>2 DEF Stretched, After, Then
    <3> QED BY <3>1, <3>2
  <2>2. Chained(v, new) /\ new.val \in ClusterValues /\ new \in Volumes
    <3>1. v.dj.clust \in Nat
      BY VolumeTyped DEF Typed, Dirs
    <3> QED BY <3>1, CreateChainChains DEF Chained
  <2> HIDE DEF new
  <2>3. /\ Looked(new, ch) /\ ch \in Volumes /\ ch.val = new.val
        /\ Ok(ch) => new.val \notin {1, DiskError}
    BY <2>2, CheckedLooks DEF Looked
  <2> HIDE DEF ch
  <2>4. CASE new.val = 0
    <3>1. w = Result(new, "FR_DENIED")
      BY <2>1, <2>4
    <3>2. Stayed(new, Result(new, "FR_DENIED")) /\ ~ Ok(Result(new, "FR_DENIED"))
      BY <2>2, ResultLooks, LookedStays DEF Results, Ok
    <3> QED BY <2>2, <3>1, <3>2, ChainedStays, StayedTwice
  <2>5. CASE new.val # 0 /\ ~ Ok(ch)
    <3>1. w = ch
      BY <2>1, <2>5
    <3> QED BY <2>2, <2>3, <2>5, <3>1, ChainedStays, LookedStays, StayedTwice
  <2>6. CASE new.val # 0 /\ Ok(ch)
    <3>1. new.val \in Clusters /\ new.val \in Nat
      BY <2>2, <2>3, <2>6, Geometry DEF ClusterValues, Clusters
    <3>2. cl \in Volumes /\ KeptAll(ch, cl)
      BY <2>3, <3>1, DirClearStays
    <3>3. w = IF Ok(cl) THEN Value(cl, new.val) ELSE cl
      BY <2>1, <2>3, <2>6
    <3> HIDE DEF cl
    <3>4. Stayed(ch, cl)
      BY <3>2 DEF Stayed, Walked, KeptAll
    <3>5. Stayed(v, cl)
      BY <2>2, <2>3, <3>4, ChainedStays, LookedStays, StayedTwice
    <3>6. Stayed(cl, Value(cl, new.val)) /\ Value(cl, new.val).val = new.val
      BY <3>1, <3>2, ValueLooks, LookedStays
    <3>7. Stayed(v, Value(cl, new.val))
      BY <3>5, <3>6, StayedTwice
    <3> QED BY <3>1, <3>3, <3>5, <3>6, <3>7
  <2> QED BY <2>4, <2>5, <2>6
<1> QED BY <1>1, <1>2

LEMMA NextClusterStays ==
  ASSUME NEW v \in Volumes, NEW stretch
  PROVE  LET w == NextCluster(v, stretch)
         IN  Stayed(v, w) /\ (Ok(w) => w.val \in Clusters)
<1> DEFINE got == GetFat(v, v.dj.clust)
           w == NextCluster(v, stretch)
<1>1. Looked(v, got) /\ got.val \in Nat /\ got.res = "FR_OK" /\ got \in Volumes
  BY GetFatLooks DEF Looked
<1>2. NFatEnt < DiskError /\ DiskError \in Nat
  BY NumbersAssumption DEF DiskError
<1>3. w = CASE got.val <= 1         -> Result(got, "FR_INT_ERR")
            [] got.val = DiskError  -> Result(got, "FR_DISK_ERR")
            [] got.val \in Clusters -> got
            [] got.val >= NFatEnt /\ got.val # DiskError -> Stretched(got, stretch)
  BY DEF NextCluster, After
<1> HIDE DEF got, w
<1>4. w \in {Result(got, "FR_INT_ERR"), Result(got, "FR_DISK_ERR"), Stretched(got, stretch)}
      \/ (w = got /\ got.val \in Clusters)
  <2>1. CASE got.val <= 1
    <3>1. got.val # DiskError /\ got.val \notin Clusters /\ ~ (got.val >= NFatEnt)
      BY <1>1, <1>2, <2>1, Geometry DEF Clusters
    <3> QED BY <1>3, <2>1, <3>1
  <2>2. CASE got.val = DiskError
    <3>1. ~ (got.val <= 1) /\ got.val \notin Clusters
      BY <1>1, <1>2, <2>2, Geometry DEF Clusters
    <3> QED BY <1>3, <2>2, <3>1
  <2>3. CASE got.val \in Clusters
    <3>1. ~ (got.val <= 1) /\ got.val # DiskError /\ ~ (got.val >= NFatEnt)
      BY <1>1, <1>2, <2>3, Geometry DEF Clusters
    <3> QED BY <1>3, <2>3, <3>1
  <2>4. CASE got.val >= NFatEnt /\ got.val # DiskError
    <3>1. ~ (got.val <= 1) /\ got.val \notin Clusters
      BY <1>1, <1>2, <2>4, Geometry DEF Clusters
    <3> QED BY <1>3, <2>4, <3>1
  <2> QED BY <1>1, <2>1, <2>2, <2>3, <2>4, Geometry DEF Clusters
<1>5. \A r \in {"FR_INT_ERR", "FR_DISK_ERR"} :
        Stayed(v, Result(got, r)) /\ ~ Ok(Result(got, r))
  <2> SUFFICES ASSUME NEW r \in {"FR_INT_ERR", "FR_DISK_ERR"}
               PROVE  Stayed(v, Result(got, r)) /\ ~ Ok(Result(got, r))
    OBVIOUS
  <2>1. r \in Results /\ r # "FR_OK"
    BY DEF Results
  <2>2. Stayed(got, Result(got, r)) /\ Result(got, r).res = r
    BY <1>1, <2>1, ResultLooks, LookedStays
  <2> QED BY <1>1, <2>1, <2>2, LookedStays, StayedTwice DEF Ok
<1>6. /\ Stayed(v, Stretched(got, stretch))
      /\ Ok(Stretched(got, stretch)) => Stretched(got, stretch).val \in Clusters
  BY <1>1, StretchedStays, LookedStays, StayedTwice
<1> QED BY <1>1, <1>4, <1>5, <1>6, LookedStays DEF w

LEMMA SectorIndex ==
  ASSUME NEW m \in Nat
  PROVE  (m % EntsOfCluster) \div SS \in 0 .. Csize - 1
<1> DEFINE n == EntsOfCluster
           r == m % n
           q == r \div SS
<1>1. n \in Nat \ {0} /\ n = Csize * SS
  BY Geometry DEF EntsOfCluster
<1> HIDE DEF n
<1>2. r \in 0 .. n - 1
  BY <1>1, Remainder
<1> HIDE DEF r
<1>3. r \in Nat /\ q \in Nat /\ r = SS * q + (r % SS) /\ r % SS \in Nat
  BY <1>1, <1>2, Geometry, Remainder
<1> HIDE DEF q
<1>4. ~ (q >= Csize)
  <2> SUFFICES ASSUME q >= Csize PROVE FALSE
    OBVIOUS
  <2>1. PICK d \in Nat : q = Csize + d
    <3>1. q - Csize \in Nat /\ q = Csize + (q - Csize)
      BY <1>3, Geometry
    <3> QED BY <3>1
  <2>2. SS * q = SS * Csize + SS * d
    BY <2>1, Geometry
  <2>3. SS * d \in Nat /\ SS * Csize = n /\ SS * Csize \in Nat
    BY <1>1, <2>1, Geometry
  <2> DEFINE s == SS * q
             t == r % SS
  <2>4. s >= n /\ s \in Nat
    BY <1>1, <2>2, <2>3
  <2>5. r = s + t /\ t \in Nat
    BY <1>3
  <2> HIDE DEF s, t
  <2> QED BY <1>1, <1>2, <2>4, <2>5
<1> QED BY <1>3, <1>4, Geometry DEF q, r, n

LEMMA DirNextWalks ==
  ASSUME NEW v \in Volumes, NEW stretch, Standing(v)
  PROVE  Walked(v, DirNext(v, stretch)) /\ Standing(DirNext(v, stretch))
<1> DEFINE ofs == v.dj.dptr + 1
           i == Ignoring(v)
           nc == NextCluster(v, stretch)
           w == DirNext(v, stretch)
           within == [i EXCEPT !.dj.dptr = ofs]
           sector == [i EXCEPT !.dj.dptr = ofs,
                               !.dj.sect = Sector(v.dj.clust, (ofs % EntsOfCluster) \div SS)]
           cluster == [nc EXCEPT !.dj.dptr = ofs, !.dj.clust = nc.val, !.dj.sect = Sector(nc.val, 0)]
<1>1. /\ v.dj \in Dirs /\ v.dj.dptr \in Nat /\ ofs \in Nat /\ v.dj.clust \in Clusters
      /\ v.dj.sect \in Clst
  BY VolumeTyped DEF Typed, Dirs, Standing
<1>2. i \in Volumes /\ Stayed(v, i) /\ i.dj = v.dj
  BY ResultLooks, LookedStays, OkResult DEF Ignoring, Looked, Stayed
<1>3. nc \in Volumes /\ Stayed(v, nc) /\ nc.dj = v.dj /\ (Ok(nc) => nc.val \in Clusters)
  BY NextClusterStays DEF Stayed, Walked
<1>4. CASE ofs >= MaxDir
  <2> DEFINE r == Result(v, "FR_NO_FILE")
  <2>1. w = r
    BY <1>1, <1>4, Geometry DEF DirNext
  <2>2. Stayed(v, r)
    BY ResultLooks, LookedStays DEF Results
  <2> HIDE DEF r
  <2> QED BY <2>1, <2>2, StayedWalks
<1>5. CASE ofs < MaxDir /\ ofs % SS # 0
  <2>1. ~ (ofs % EntsOfCluster = 0)
    <3> DEFINE n == EntsOfCluster
               q == ofs \div n
    <3> SUFFICES ASSUME ofs % n = 0 PROVE FALSE
      OBVIOUS
    <3>1. n \in Nat \ {0} /\ n = SS * Csize
      BY Geometry DEF EntsOfCluster
    <3> HIDE DEF n
    <3>2. q \in Nat /\ ofs = n * q
      <4>1. q \in Nat /\ ofs = n * (ofs \div n) + (ofs % n)
        BY <1>1, <3>1, Remainder
      <4>2. n * q \in Nat
        BY <3>1, <4>1
      <4> QED BY <4>1, <4>2
    <3> HIDE DEF q
    <3>3. ofs = SS * (Csize * q) /\ Csize * q \in Nat
      BY <3>1, <3>2, Geometry
    <3> DEFINE t == Csize * q
               r == ofs % SS
               d == ofs \div SS
    <3>4. r \in 0 .. SS - 1 /\ d \in Nat /\ ofs = SS * d + r
      BY <1>1, Geometry, Remainder
    <3>5. ofs = SS * t /\ t \in Nat
      BY <3>3
    <3> HIDE DEF t, r, d
    <3>6. r = SS * (t - d)
      BY <3>4, <3>5, Geometry
    <3>7. t - d = 0
      <4>1. CASE t - d >= 1
        <5>1. PICK z \in Nat : t - d = 1 + z
          <6>1. t - d - 1 \in Nat /\ t - d = 1 + (t - d - 1)
            BY <3>4, <3>5, <4>1
          <6> QED BY <6>1
        <5>2. r = SS + SS * z /\ SS * z \in Nat
          BY <3>6, <5>1, Geometry
        <5> QED BY <3>4, <5>2, Geometry
      <4>2. CASE t - d <= -1
        <5>1. PICK z \in Nat : t - d = -1 - z
          <6>1. d - t - 1 \in Nat /\ t - d = -1 - (d - t - 1)
            BY <3>4, <3>5, <4>2
          <6> QED BY <6>1
        <5>2. r = - SS - SS * z /\ SS * z \in Nat
          BY <3>6, <5>1, Geometry
        <5> QED BY <3>4, <5>2, Geometry
      <4> QED BY <3>4, <3>5, <4>1, <4>2
    <3> QED BY <1>5, <3>6, <3>7, Geometry DEF r
  <2>2. w = within
    BY <1>1, <1>5, <2>1, Geometry DEF DirNext
  <2> DEFINE d == [v.dj EXCEPT !.dptr = ofs]
  <2>3. d \in Dirs /\ d.clust = v.dj.clust /\ d.sect = v.dj.sect
    BY <1>1 DEF Dirs
  <2>4. within = [i EXCEPT !.dj = d]
    BY <1>2
  <2> HIDE DEF d, within, i
  <2>5. Walked(i, within) /\ within.dj = d
    BY <1>2, <2>3, <2>4, DjWalks
  <2>6. Walked(v, within)
    BY <1>2, <2>5, WalkedTwice DEF Stayed
  <2> QED BY <1>1, <2>2, <2>3, <2>5, <2>6 DEF Standing
<1>6. CASE ofs < MaxDir /\ ofs % SS = 0 /\ ofs % EntsOfCluster # 0
  <2>1. w = sector
    BY <1>1, <1>6, Geometry DEF DirNext
  <2> DEFINE k == (ofs % EntsOfCluster) \div SS
             d == [v.dj EXCEPT !.dptr = ofs, !.sect = Sector(v.dj.clust, k)]
  <2>2. k \in 0 .. Csize - 1
    BY <1>1, SectorIndex
  <2>3. sector = [i EXCEPT !.dj = d]
    BY <1>2
  <2> HIDE DEF k
  <2>4. Sector(v.dj.clust, k) \in Clst
    BY <1>1, <2>2, ClstOf
  <2>5. d \in Dirs /\ d.clust = v.dj.clust /\ d.sect \in Clst
    BY <1>1, <2>4 DEF Dirs
  <2> HIDE DEF d, sector, i
  <2>6. Walked(i, sector) /\ sector.dj = d
    BY <1>2, <2>3, <2>5, DjWalks
  <2>7. Walked(v, sector)
    BY <1>2, <2>6, WalkedTwice DEF Stayed
  <2> QED BY <1>1, <2>1, <2>5, <2>6, <2>7 DEF Standing
<1>7. CASE ofs < MaxDir /\ ofs % EntsOfCluster = 0 /\ ofs % SS = 0
  <2>1. w = IF Ok(nc) THEN cluster ELSE nc
    BY <1>1, <1>7, Geometry DEF DirNext, Then
  <2>2. CASE ~ Ok(nc)
    BY <1>3, <2>1, <2>2, StayedWalks
  <2>3. CASE Ok(nc)
    <3>1. w = cluster /\ nc.val \in Clusters
      BY <1>3, <2>1, <2>3
    <3>2. Sector(nc.val, 0) \in Clst /\ nc.val \in Nat
      BY <3>1, ClstOf, Geometry DEF Clusters
    <3> DEFINE d == [v.dj EXCEPT !.dptr = ofs, !.clust = nc.val, !.sect = Sector(nc.val, 0)]
    <3>3. cluster = [nc EXCEPT !.dj = d]
      BY <1>3
    <3> HIDE DEF nc
    <3>4. d \in Dirs /\ d.clust = nc.val /\ d.sect \in Clst
      BY <1>1, <3>2 DEF Dirs
    <3> HIDE DEF d, cluster
    <3>5. Walked(nc, cluster) /\ cluster.dj = d
      BY <1>3, <3>3, <3>4, DjWalks
    <3>6. Walked(v, cluster)
      BY <1>3, <3>5, WalkedTwice DEF Stayed
    <3> QED BY <3>1, <3>4, <3>5, <3>6 DEF Standing
  <2> QED BY <2>2, <2>3
<1>8. ofs % SS # 0 \/ ofs % SS = 0
  OBVIOUS
<1> QED BY <1>1, <1>4, <1>5, <1>6, <1>7, Geometry

LEMMA MoveToHereLooks ==
  ASSUME NEW v \in Volumes, v.dj.sect \in Clst
  PROVE  /\ Looked(v, MoveToHere(v))
         /\ Ok(MoveToHere(v)) => MoveToHere(v).winsect = v.dj.sect
BY KindsOfSectors, MoveWindowLooks DEF MoveToHere

(* A walk ends on an entry that is in the window, or with an error.          *)
Arrived(v) == Standing(v) /\ (Ok(v) => v.winsect = v.dj.sect)

LEMMA WalkRoundWalks ==
  ASSUME NEW v \in Volumes, Arrived(v), NEW stretch, NEW stops
  PROVE  Walked(v, WalkRound(v, stretch, stops)) /\ Arrived(WalkRound(v, stretch, stops))
<1> DEFINE n == DirNext(v, stretch)
           m == MoveToHere(n)
           w == WalkRound(v, stretch, stops)
<1>1. w \in {v, n, m} /\ (w = n => ~ Ok(n) \/ w \in {v, m})
  BY DEF WalkRound, Then
<1>2. Walked(v, n) /\ Standing(n) /\ n \in Volumes
  BY DirNextWalks DEF Arrived, Walked
<1> HIDE DEF n
<1>3. Looked(n, m) /\ (Ok(m) => m.winsect = n.dj.sect)
  BY <1>2, MoveToHereLooks DEF Standing
<1> HIDE DEF m
<1>4. Walked(v, m) /\ m.dj = n.dj
  BY <1>2, <1>3, LookedStays, WalkedTwice DEF Stayed
<1>5. Arrived(m)
  BY <1>2, <1>3, <1>4 DEF Arrived, Standing
<1>6. Walked(v, v)
  BY LookedOnce, LookedStays DEF Stayed
<1>7. ~ Ok(n) => Arrived(n)
  BY <1>2 DEF Arrived
<1> HIDE DEF w
<1>8. w = v \/ w = m \/ (w = n /\ ~ Ok(n))
  BY <1>1
<1> QED BY <1>2, <1>4, <1>5, <1>6, <1>7, <1>8 DEF w

LEMMA WalkWalks ==
  ASSUME NEW v \in Volumes, Standing(v), NEW stretch, NEW stops
  PROVE  Walked(v, Walk(v, stretch, stops)) /\ Arrived(Walk(v, stretch, stops))
<1> DEFINE x == MoveToHere(v)
           S == {w \in Volumes : Walked(v, w) /\ Arrived(w)}
           g == [p \in S \X Nat |-> IF p[2] = 0 THEN p[1] ELSE WalkRound(p[1], stretch, stops)]
           Body(f) == [k \in Nat |-> IF k = 0 THEN x ELSE WalkRound(f[k - 1], stretch, stops)]
           after == CHOOSE f : f = Body(f)
<1>1. Walk(v, stretch, stops) = after[MaxDir]
  BY DEF Walk, Rounds
<1>2. x \in S
  <2>1. Looked(v, x) /\ (Ok(x) => x.winsect = v.dj.sect)
    BY MoveToHereLooks DEF Standing
  <2> HIDE DEF x
  <2>2. Walked(v, x) /\ x.dj = v.dj /\ x \in Volumes
    BY <2>1, LookedStays DEF Stayed, Walked
  <2> QED BY <2>1, <2>2 DEF Arrived, Standing
<1>3. \A u \in S, k \in Nat \ {0} : WalkRound(u, stretch, stops) \in S
  <2> SUFFICES ASSUME NEW u \in S PROVE WalkRound(u, stretch, stops) \in S
    OBVIOUS
  <2> DEFINE w == WalkRound(u, stretch, stops)
  <2>1. Walked(u, w) /\ Arrived(w)
    BY WalkRoundWalks
  <2> HIDE DEF w
  <2>2. Walked(v, w) /\ w \in Volumes
    BY <2>1, WalkedTwice DEF Walked
  <2>3. w \in S
    BY <2>1, <2>2
  <2> QED BY <2>3 DEF w
<1> HIDE DEF x, S
<1>4. RoundOn(S, g) /\ \A u \in S, k \in Nat \ {0} : g[<<u, k>>] = WalkRound(u, stretch, stops)
  BY <1>3 DEF RoundOn
<1> HIDE DEF g
<1>5. PICK f : Iterates(f, S, x, g)
  BY <1>2, <1>4, Recursion
<1>6. f = Body(f)
  <2> USE DEF Iterates
  <2> SUFFICES ASSUME NEW k \in Nat PROVE f[k] = IF k = 0 THEN x ELSE WalkRound(f[k - 1], stretch, stops)
    BY <1>5
  <2>1. CASE k # 0
    <3>1. k \in Nat \ {0} /\ k - 1 \in Nat /\ (k - 1) + 1 = k /\ f[k - 1] \in S
      BY <1>5, <2>1
    <3>2. f[(k - 1) + 1] = g[<<f[k - 1], (k - 1) + 1>>]
      BY <1>5, <3>1
    <3> QED BY <1>4, <2>1, <3>1, <3>2
  <2> QED BY <1>5, <2>1
<1>7. after = Body(after)
  BY <1>6
<1> HIDE DEF after
<1>8. after[0] \in S
  BY <1>2, <1>7
<1>9. \A k \in Nat : after[k] \in S => after[k + 1] \in S
  <2> SUFFICES ASSUME NEW k \in Nat, after[k] \in S PROVE after[k + 1] \in S
    OBVIOUS
  <2>1. after[k + 1] = WalkRound(after[k], stretch, stops) /\ k + 1 \in Nat \ {0}
    BY <1>7
  <2> QED BY <1>3, <2>1
<1>10. after[MaxDir] \in S
  BY <1>8, <1>9, StaysIn, Geometry
<1> QED BY <1>1, <1>10 DEF S

-----------------------------------------------------------------------------
(* The entry in the window.                                                  *)
LEMMA EntriesInWindow ==
  ASSUME NEW v \in Volumes, AtEntry(v)
  PROVE  v.win \in [fat : {<<>>}, ents : [1 .. SS -> Entries], data : Buffers]
<1>1. v.winsect \in Clst /\ v.winsect \in Sectors
  BY KindsOfSectors DEF AtEntry
<1>2. v.win \in Content(v.winsect)
  BY <1>1 DEF Volumes
<1> QED BY <1>1, <1>2, ClstContent

LEMMA HereTyped ==
  ASSUME NEW v \in Volumes, AtEntry(v)
  PROVE  Here(v) \in Entries
<1>1. v.dj.dptr \in Nat
  BY VolumeTyped DEF Typed, Dirs
<1> DEFINE r == v.dj.dptr % SS
<1>2. r \in 0 .. SS - 1
  BY <1>1, Geometry, Remainder
<1> HIDE DEF r
<1>3. r + 1 \in 1 .. SS
  BY <1>2, Geometry
<1>4. v.win.ents[r + 1] \in Entries
  BY <1>3, EntriesInWindow
<1> QED BY <1>4 DEF Here, r

(* Entries are written to the window.                                        *)
Wrote(v, w) ==
  Stayed(v, w) /\ w.wflag = TRUE /\ w.winsect = v.winsect /\ w.res = v.res /\ w.val = v.val

LEMMA EntriesPut ==
  ASSUME NEW v \in Volumes, AtEntry(v), NEW ents \in [1 .. SS -> Entries]
  PROVE  Wrote(v, [v EXCEPT !.win.ents = ents, !.wflag = TRUE])
<1> DEFINE win == [v.win EXCEPT !.ents = ents]
           w == [v EXCEPT !.win = win, !.wflag = TRUE]
<1>1. Typed(v) /\ v.winsect \in Clst /\ v.winsect \in Sectors
  BY VolumeTyped, KindsOfSectors DEF AtEntry
<1>2. win \in Content(v.winsect)
  <2>1. v.win \in [fat : {<<>>}, ents : [1 .. SS -> Entries], data : Buffers]
    BY EntriesInWindow
  <2>2. win \in [fat : {<<>>}, ents : [1 .. SS -> Entries], data : Buffers]
    BY <2>1
  <2> QED BY <1>1, <2>2, ClstContent
<1>3. win \in AllContent
  BY <1>1, <1>2 DEF AllContent
<1>4. w = [v EXCEPT !.win.ents = ents, !.wflag = TRUE]
  OBVIOUS
<1> HIDE DEF win
<1>5. /\ Typed(w) /\ KeptAll(v, w) /\ w.win = win /\ w.winsect = v.winsect
      /\ w.wflag = TRUE /\ w.res = v.res /\ w.val = v.val
  BY <1>1, <1>3 DEF Typed, Fields, KeptAll, Kept
<1> HIDE DEF w
<1>6. w \in Records
  BY <1>5, TypedRecords
<1>7. w \in Volumes
  BY <1>2, <1>5, <1>6 DEF Volumes, FilOpen, KeptAll, Kept
<1>8. Wrote(v, w)
  BY <1>5, <1>7 DEF Wrote, Stayed, Walked, KeptAll
<1> QED BY <1>4, <1>8

LEMMA SetHereWrites ==
  ASSUME NEW v \in Volumes, AtEntry(v), NEW e \in Entries
  PROVE  Wrote(v, SetHere(v, e))
<1> DEFINE k == (v.dj.dptr % SS) + 1
           ents == [v.win.ents EXCEPT ![k] = e]
<1>1. ents \in [1 .. SS -> Entries]
  BY EntriesInWindow
<1>2. SetHere(v, e) = [v EXCEPT !.win.ents = ents, !.wflag = TRUE]
  BY DEF SetHere
<1> HIDE DEF ents
<1> QED BY <1>1, <1>2, EntriesPut

-----------------------------------------------------------------------------
(* Directories and paths.                                                    *)
AtFound(w) == Ok(w) => Standing(w) /\ AtEntry(w) /\ w.winsect = w.dj.sect

LEMMA ArrivedFound ==
  ASSUME NEW w, Arrived(w)
  PROVE  AtFound(w)
BY DEF Arrived, AtFound, Standing, AtEntry

LEMMA OtherResult ==
  ASSUME NEW v \in Volumes, NEW r \in Results, r # "FR_OK"
  PROVE  Stayed(v, Result(v, r)) /\ ~ Ok(Result(v, r)) /\ AtFound(Result(v, r))
         /\ Result(v, r) \in Volumes
BY ResultLooks, LookedStays DEF Ok, AtFound, Looked

(* The table is walked from its start.                                       *)
Table(v, sclust, stretch, stops) ==
  IF Ok(DirSdi(v, sclust)) THEN Walk(DirSdi(v, sclust), stretch, stops) ELSE DirSdi(v, sclust)

LEMMA WalkedTable ==
  ASSUME NEW v \in Volumes, NEW sclust \in Nat, NEW stretch, NEW stops
  PROVE  LET w == Table(v, sclust, stretch, stops)
         IN  Walked(v, w) /\ AtFound(w)
<1> DEFINE s == DirSdi(v, sclust)
           k == Walk(s, stretch, stops)
<1>1. Walked(v, s) /\ (Ok(s) => Standing(s)) /\ s \in Volumes
  BY DirSdiWalks DEF Walked
<1> HIDE DEF s
<1>2. CASE Ok(s)
  <2>1. Walked(s, k) /\ Arrived(k)
    BY <1>1, <1>2, WalkWalks
  <2>2. Walked(v, k) /\ AtFound(k)
    BY <1>1, <2>1, ArrivedFound, WalkedTwice
  <2> QED BY <1>2, <2>2 DEF s, Table
<1>3. CASE ~ Ok(s)
  <2>1. AtFound(s)
    BY <1>3 DEF AtFound
  <2> QED BY <1>1, <1>3, <2>1 DEF s, Table
<1> QED BY <1>2, <1>3

LEMMA DirFindFinds ==
  ASSUME NEW v \in Volumes, NEW sclust \in Nat, NEW name
  PROVE  Walked(v, DirFind(v, sclust, name)) /\ AtFound(DirFind(v, sclust, name))
<1> DEFINE t == Table(v, sclust, FALSE, {"free", name})
           r == Result(t, "FR_NO_FILE")
<1>1. Walked(v, t) /\ AtFound(t) /\ t \in Volumes
  BY WalkedTable DEF Walked
<1>2. DirFind(v, sclust, name) = IF Ok(t) THEN IF Here(t).name = "free" THEN r ELSE t ELSE t
  BY DEF DirFind, Then, Table
<1> HIDE DEF t
<1>3. Stayed(t, r) /\ AtFound(r)
  BY <1>1, OtherResult DEF Results
<1>4. Walked(v, r)
  BY <1>1, <1>3, WalkedTwice DEF Stayed
<1> QED BY <1>1, <1>2, <1>3, <1>4

LEMMA DirReadFirstFinds ==
  ASSUME NEW v \in Volumes, NEW sclust \in Nat
  PROVE  Walked(v, DirReadFirst(v, sclust))
<1> DEFINE t == Table(v, sclust, FALSE, Names \cup {"free", "junk"})
           r == Result(t, "FR_NO_FILE")
<1>1. Walked(v, t) /\ t \in Volumes
  BY WalkedTable DEF Walked
<1>2. DirReadFirst(v, sclust) = IF Ok(t) THEN IF Here(t).name = "free" THEN r ELSE t ELSE t
  BY DEF DirReadFirst, Then, Table
<1> HIDE DEF t
<1>3. Stayed(t, r)
  BY <1>1, OtherResult DEF Results
<1>4. Walked(v, r)
  BY <1>1, <1>3, WalkedTwice DEF Stayed
<1> QED BY <1>1, <1>2, <1>4

LEMMA DirAllocFinds ==
  ASSUME NEW v \in Volumes
  PROVE  Walked(v, DirAlloc(v)) /\ AtFound(DirAlloc(v))
<1> DEFINE t == Table(v, v.dj.sclust, TRUE, {"free", "deleted"})
           r == Result(t, "FR_DENIED")
<1>1. v.dj.sclust \in Nat
  BY VolumeTyped DEF Typed, Dirs
<1>2. Walked(v, t) /\ AtFound(t) /\ t \in Volumes
  BY <1>1, WalkedTable DEF Walked
<1>3. DirAlloc(v) \in {t, r}
  BY DEF DirAlloc, After, Then, Table
<1> HIDE DEF t
<1>4. Stayed(t, r) /\ AtFound(r)
  BY <1>2, OtherResult DEF Results
<1>5. Walked(v, r)
  BY <1>2, <1>4, WalkedTwice DEF Stayed
<1> QED BY <1>2, <1>3, <1>4, <1>5

(* The sector that was found is in the window again, or it is not Ok.        *)
LEMMA MovedToFound ==
  ASSUME NEW v \in Volumes, v.dj.sect \in Clst, v.dj.clust \in Clusters
  PROVE  Stayed(v, MoveToHere(v)) /\ AtFound(MoveToHere(v)) /\ MoveToHere(v) \in Volumes
<1> DEFINE m == MoveToHere(v)
<1>1. Looked(v, m) /\ (Ok(m) => m.winsect = v.dj.sect)
  BY MoveToHereLooks
<1> HIDE DEF m
<1>2. Stayed(v, m) /\ m.dj = v.dj /\ m \in Volumes
  BY <1>1, LookedStays DEF Stayed, Walked
<1>3. AtFound(m)
  BY <1>1, <1>2 DEF AtFound, Standing, AtEntry
<1> QED BY <1>2, <1>3 DEF m

LEMMA NewEntryTyped ==
  ASSUME NEW name \in Names \cup {"free", "deleted", "junk", ".", ".."}, NEW dir \in BOOLEAN,
         NEW clust \in Nat, NEW size \in Nat
  PROVE  Ent(name, dir, clust, size) \in Entries
BY DEF Ent, Entries

LEMMA DirRegisterFinds ==
  ASSUME NEW v \in Volumes, NEW name \in Names
  PROVE  Walked(v, DirRegister(v, name)) /\ AtFound(DirRegister(v, name))
<1> DEFINE d == DirAlloc(v)
           m == MoveToHere(d)
           e == Ent(name, FALSE, 0, 0)
           s == SetHere(m, e)
           w == DirRegister(v, name)
<1>1. Walked(v, d) /\ AtFound(d) /\ d \in Volumes
  BY DirAllocFinds DEF Walked
<1>2. w = IF Ok(d) THEN IF Ok(m) THEN s ELSE m ELSE d
  BY DEF DirRegister, Then
<1> HIDE DEF d
<1>3. CASE ~ Ok(d)
  BY <1>1, <1>2, <1>3
<1>4. CASE Ok(d)
  <2>1. d.dj.sect \in Clst /\ d.dj.clust \in Clusters
    BY <1>1, <1>4 DEF AtFound, Standing
  <2>2. Stayed(d, m) /\ AtFound(m) /\ m \in Volumes
    BY <1>1, <2>1, MovedToFound
  <2> HIDE DEF m
  <2>3. Walked(v, m)
    BY <1>1, <2>2, WalkedTwice DEF Stayed
  <2>4. e \in Entries
    BY NewEntryTyped
  <2> HIDE DEF e
  <2>5. Ok(m) => Wrote(m, s)
    BY <2>2, <2>4, SetHereWrites DEF AtFound
  <2> HIDE DEF s
  <2>6. Ok(m) => Walked(v, s) /\ AtFound(s)
    BY <2>2, <2>3, <2>5, WalkedTwice DEF Wrote, Stayed, AtFound, Ok, Standing, AtEntry
  <2> QED BY <1>2, <1>4, <2>2, <2>3, <2>6
<1> QED BY <1>3, <1>4

LEMMA DirRemoveStays ==
  ASSUME NEW v \in Volumes, v.dj.sect \in Clst, v.dj.clust \in Clusters
  PROVE  LET w == DirRemove(v)
         IN  Stayed(v, w) /\ w \in Volumes /\ (Ok(w) => w.wflag = TRUE)
<1> DEFINE m == MoveToHere(v)
           e == [Here(m) EXCEPT !.name = "deleted"]
           s == SetHere(m, e)
           w == DirRemove(v)
<1>1. w = IF Ok(m) THEN s ELSE m
  BY DEF DirRemove, Then
<1>2. Stayed(v, m) /\ AtFound(m) /\ m \in Volumes
  BY MovedToFound
<1> HIDE DEF m
<1>3. CASE ~ Ok(m)
  BY <1>1, <1>2, <1>3
<1>4. CASE Ok(m)
  <2>1. AtEntry(m)
    BY <1>2, <1>4 DEF AtFound
  <2>2. Here(m) \in Entries
    BY <1>2, <2>1, HereTyped
  <2>3. e \in Entries
    BY <2>2 DEF Entries
  <2> HIDE DEF e
  <2>4. Wrote(m, s)
    BY <1>2, <2>1, <2>3, SetHereWrites
  <2> QED BY <1>1, <1>2, <1>4, <2>4, StayedTwice DEF Wrote, Stayed, Walked
<1> QED BY <1>3, <1>4

LEMMA FollowRoundFinds ==
  ASSUME NEW v \in Volumes, AtFound(v), NEW name
  PROVE  Walked(v, FollowRound(v, name)) /\ AtFound(FollowRound(v, name))
<1> DEFINE r == Result(v, "FR_NO_PATH")
           d == DirFind(v, Here(v).clust, name)
           w == FollowRound(v, name)
<1>1. Walked(v, r) /\ AtFound(r)
  BY OtherResult DEF Results, Stayed
<1>2. Walked(v, v)
  BY LookedOnce, LookedStays DEF Stayed
<1>3. Ok(v) => Walked(v, d) /\ AtFound(d)
  <2> SUFFICES ASSUME Ok(v) PROVE Walked(v, d) /\ AtFound(d)
    OBVIOUS
  <2>1. Here(v) \in Entries
    BY HereTyped DEF AtFound
  <2>2. Here(v).clust \in Nat
    BY <2>1 DEF Entries
  <2> QED BY <2>2, DirFindFinds
<1>4. w = r \/ w = v \/ (Ok(v) /\ w = d)
  <2>1. CASE v.res = "FR_NO_FILE"
    BY <2>1 DEF FollowRound, Ok
  <2>2. CASE Ok(v) /\ ~ Here(v).dir
    BY <2>2 DEF FollowRound, Ok
  <2>3. CASE Ok(v) /\ Here(v).dir
    BY <2>3 DEF FollowRound, Ok
  <2>4. CASE v.res \notin {"FR_OK", "FR_NO_FILE"}
    BY <2>4 DEF FollowRound, Ok
  <2> QED BY <2>1, <2>2, <2>3, <2>4 DEF Ok
<1> QED BY <1>1, <1>2, <1>3, <1>4

LEMMA FollowPathFinds ==
  ASSUME NEW v \in Volumes, NEW p \in Seq(Names) \ {<<>>}
  PROVE  Walked(v, FollowPath(v, p)) /\ AtFound(FollowPath(v, p))
<1> DEFINE x == DirFind(v, 0, p[1])
           S == {w \in Volumes : Walked(v, w) /\ AtFound(w)}
           g == [q \in S \X Nat |-> IF q[2] = 0 THEN q[1] ELSE FollowRound(q[1], p[q[2] + 1])]
           Body(f) == [k \in Nat |-> IF k = 0 THEN x ELSE FollowRound(f[k - 1], p[k + 1])]
           after == CHOOSE f : f = Body(f)
           n == Len(p) - 1
<1>1. FollowPath(v, p) = after[n]
  BY DEF FollowPath, Rounds
<1>2. x \in S
  BY DirFindFinds DEF Walked
<1>3. \A u \in S, k \in Nat \ {0} : FollowRound(u, p[k + 1]) \in S
  <2> SUFFICES ASSUME NEW u \in S, NEW k \in Nat \ {0} PROVE FollowRound(u, p[k + 1]) \in S
    OBVIOUS
  <2> DEFINE w == FollowRound(u, p[k + 1])
  <2>1. Walked(u, w) /\ AtFound(w)
    BY FollowRoundFinds
  <2> HIDE DEF w
  <2>2. Walked(v, w) /\ w \in Volumes
    BY <2>1, WalkedTwice DEF Walked
  <2>3. w \in S
    BY <2>1, <2>2
  <2> QED BY <2>3 DEF w
<1>11. n \in Nat
  <2>1. p # <<>> /\ p \in Seq(Names)
    OBVIOUS
  <2>2. Len(p) \in Nat /\ Len(p) # 0
    BY <2>1, EmptySeq
  <2> QED BY <2>2
<1> HIDE DEF x, S, n
<1>4. RoundOn(S, g) /\ \A u \in S, k \in Nat \ {0} : g[<<u, k>>] = FollowRound(u, p[k + 1])
  BY <1>3 DEF RoundOn
<1> HIDE DEF g
<1>5. PICK f : Iterates(f, S, x, g)
  BY <1>2, <1>4, Recursion
<1>6. f = Body(f)
  <2> USE DEF Iterates
  <2> SUFFICES ASSUME NEW k \in Nat PROVE f[k] = IF k = 0 THEN x ELSE FollowRound(f[k - 1], p[k + 1])
    BY <1>5
  <2>1. CASE k # 0
    <3>1. k \in Nat \ {0} /\ k - 1 \in Nat /\ (k - 1) + 1 = k /\ f[k - 1] \in S
      BY <1>5, <2>1
    <3>2. f[(k - 1) + 1] = g[<<f[k - 1], (k - 1) + 1>>]
      BY <1>5, <3>1
    <3> QED BY <1>4, <2>1, <3>1, <3>2
  <2> QED BY <1>5, <2>1
<1>7. after = Body(after)
  BY <1>6
<1> HIDE DEF after
<1>8. after[0] \in S
  BY <1>2, <1>7
<1>9. \A k \in Nat : after[k] \in S => after[k + 1] \in S
  <2> SUFFICES ASSUME NEW k \in Nat, after[k] \in S PROVE after[k + 1] \in S
    OBVIOUS
  <2>1. after[k + 1] = FollowRound(after[k], p[(k + 1) + 1]) /\ k + 1 \in Nat \ {0}
    BY <1>7, SMTT(30)
  <2> QED BY <1>3, <2>1
<1>10. after[n] \in S
  BY <1>8, <1>9, <1>11, StaysIn
<1> QED BY <1>1, <1>10 DEF S

-----------------------------------------------------------------------------
(* What a call that changes the directories ends with: the window is the     *)
(* medium's and nothing in it waits to be written.                           *)
Settled(v) == ~ v.wflag /\ Right(v)

LEMMA InfoFits ==
  ASSUME NEW free \in Nat, NEW last0 \in Nat
  PROVE  InfoSector(free, last0) \in Content(Info) /\ InfoSector(free, last0) \in AllContent
<1>1. InfoSector(free, last0) \in Content(Info)
  BY InfoContent DEF InfoSector
<1> QED BY <1>1, KindsOfSectors DEF AllContent

LEMMA InfoWrittenStays ==
  ASSUME NEW v \in Volumes, NEW info \in Content(Info), info \in AllContent
  PROVE  LET w == [Ignoring(DiskWrite(v, Info, info)) EXCEPT !.win = info, !.winsect = Info, !.fsi = 0]
         IN  Stayed(v, w) /\ w \in Volumes /\ w.winsect = Info /\ w.wflag = v.wflag
<1> DEFINE d == DiskWrite(v, Info, info)
           i == Ignoring(d)
           w == [i EXCEPT !.win = info, !.winsect = Info, !.fsi = 0]
<1>1. d \in Volumes /\ KeptAll(v, d) /\ d.wflag = v.wflag
  <2> DEFINE s == Info
             content == info
  <2>1. s \in Sectors => content \in Content(s)
    OBVIOUS
  <2> HIDE DEF s, content
  <2>2. LET e == DiskWrite(v, s, content)
        IN  /\ e \in Volumes /\ KeptAll(v, e) /\ e.win = v.win /\ e.winsect = v.winsect
            /\ e.wflag = v.wflag /\ e.val = v.val /\ e.res \in {"FR_OK", "FR_DISK_ERR"}
            /\ e.disk = IF Ok(e) THEN [v.disk EXCEPT ![s] = content] ELSE v.disk
    BY ONLY v \in Volumes, <2>1, DiskWriteLooks, ZenonT(60)
  <2> QED BY <2>2 DEF s, content
<1> HIDE DEF d
<1>2. i \in Volumes /\ Same(d, i)
  BY <1>1, ResultLooks, OkResult DEF Ignoring, Looked
<1> HIDE DEF i
<1>3. Typed(i) /\ Info \in Places
  BY <1>2, VolumeTyped, KindsOfSectors DEF Places
<1>4. /\ Typed(w) /\ Kept(i, w) /\ w.dj = i.dj /\ w.win = info /\ w.winsect = Info
      /\ w.wflag = i.wflag
  BY <1>3 DEF Typed, Fields, Kept
<1> HIDE DEF w
<1>5. w \in Records
  BY <1>4, TypedRecords
<1>6. w \in Volumes
  BY <1>2, <1>4, <1>5 DEF Volumes, FilOpen, Kept
<1>7. Stayed(v, w)
  BY <1>1, <1>2, <1>4, <1>6 DEF Stayed, Walked, Same, KeptAll, Kept
<1> QED BY <1>1, <1>2, <1>4, <1>6, <1>7 DEF Same, w, i, d

LEMMA SyncFsStays ==
  ASSUME NEW v \in Volumes
  PROVE  LET w == SyncFs(v)
         IN  Stayed(v, w) /\ w \in Volumes /\ (Right(v) /\ Ok(w) => Settled(w))
<1> DEFINE s == SyncWindow(v)
           info == InfoSector(s.free, s.last)
           i == [Ignoring(DiskWrite(s, Info, info)) EXCEPT !.win = info, !.winsect = Info, !.fsi = 0]
           written == IF s.fsi = 1 THEN i ELSE s
           w == SyncFs(v)
<1>1. w = IF Ok(s) THEN Access(written) ELSE s
  BY DEF SyncFs, Then
<1>2. Looked(v, s) /\ s \in Volumes /\ (Ok(s) => ~ s.wflag)
  BY SyncWindowLooks DEF Looked
<1> HIDE DEF s
<1>3. Stayed(v, s) /\ (Right(v) => Right(s))
  BY <1>2, LookedStays DEF Looked
<1>4. CASE ~ Ok(s)
  BY <1>1, <1>2, <1>3, <1>4
<1>5. CASE Ok(s)
  <2>1. s.free \in Nat /\ s.last \in Nat
    BY <1>2, VolumeTyped DEF Typed
  <2>2. info \in Content(Info) /\ info \in AllContent
    BY <2>1, InfoFits
  <2> HIDE DEF info
  <2>3. Stayed(s, i) /\ i \in Volumes /\ i.winsect = Info /\ i.wflag = s.wflag
    BY <1>2, <2>2, InfoWrittenStays
  <2> HIDE DEF i
  <2>4. Stayed(v, written) /\ written \in Volumes /\ written.wflag = s.wflag
        /\ (Right(s) => Right(written))
    BY <1>2, <1>3, <2>3, StayedTwice DEF Right
  <2> HIDE DEF written
  <2>5. Looked(written, Access(written)) /\ Same(written, Access(written))
    BY <2>4, AccessLooks
  <2>6. w = Access(written)
    BY <1>1, <1>5
  <2> HIDE DEF w
  <2>7. Stayed(v, w) /\ w \in Volumes /\ w.wflag = s.wflag /\ (Right(s) => Right(w))
    BY <2>4, <2>5, <2>6, LookedStays, StayedTwice DEF Looked, Same
  <2> QED BY <1>2, <1>3, <1>5, <2>7 DEF Settled, w
<1> QED BY <1>4, <1>5

-----------------------------------------------------------------------------
(* The table of open objects, and the file that is open.                     *)
LEMMA ShareStays ==
  ASSUME NEW v \in Volumes
  PROVE  /\ Stayed(v, ShareToOpen(v)) /\ Stayed(v, ShareToRemove(v))
         /\ Ok(ShareToOpen(v)) => ShareToOpen(v) = v /\ Cardinality(v.files) < FF_FS_LOCK
         /\ Ok(ShareToRemove(v)) => ShareToRemove(v) = v
<1>1. Stayed(v, v)
  BY LookedOnce, LookedStays
<1>2. /\ Stayed(v, Result(v, "FR_LOCKED")) /\ ~ Ok(Result(v, "FR_LOCKED"))
      /\ Stayed(v, Result(v, "FR_TOO_MANY_OPEN_FILES")) /\ ~ Ok(Result(v, "FR_TOO_MANY_OPEN_FILES"))
  BY OtherResult DEF Results
<1>3. IsFiniteSet(v.files) /\ Cardinality(v.files) \in Nat /\ FF_FS_LOCK \in Nat
  BY VolumeTyped, FS_CardinalityType, LockAssumption DEF Typed, Tables
<1>4. \/ ShareToOpen(v) = Result(v, "FR_LOCKED")
      \/ ShareToOpen(v) = Result(v, "FR_TOO_MANY_OPEN_FILES")
      \/ ShareToOpen(v) = v /\ Cardinality(v.files) < FF_FS_LOCK
  <2>1. CASE Place(v) \in v.files
    BY <2>1 DEF ShareToOpen
  <2>2. CASE Place(v) \notin v.files /\ Cardinality(v.files) >= FF_FS_LOCK
    BY <1>3, <2>2 DEF ShareToOpen
  <2>3. CASE Place(v) \notin v.files /\ Cardinality(v.files) < FF_FS_LOCK
    BY <1>3, <2>3 DEF ShareToOpen
  <2> QED BY <1>3, <2>1, <2>2, <2>3
<1>5. ShareToRemove(v) = Result(v, "FR_LOCKED") \/ ShareToRemove(v) = v
  BY DEF ShareToRemove
<1> QED BY <1>1, <1>2, <1>4, <1>5

LEMMA PlaceTyped ==
  ASSUME NEW v \in Volumes
  PROVE  Place(v) \in Nat \X Nat
BY VolumeTyped DEF Place, Typed, Dirs

LEMMA TableGrows ==
  ASSUME NEW t \in Tables, Cardinality(t) < FF_FS_LOCK, NEW x \in Nat \X Nat
  PROVE  t \cup {x} \in Tables
<1>1. IsFiniteSet(t) /\ Cardinality(t) \in Nat /\ FF_FS_LOCK \in Nat
  BY FS_CardinalityType, LockAssumption DEF Tables
<1>2. /\ IsFiniteSet(t \cup {x})
      /\ Cardinality(t \cup {x}) = IF x \in t THEN Cardinality(t) ELSE Cardinality(t) + 1
  BY <1>1, FS_AddElement
<1>3. Cardinality(t \cup {x}) \in Nat
  BY <1>2, FS_CardinalityType
<1>4. Cardinality(t \cup {x}) <= FF_FS_LOCK
  BY <1>1, <1>2, <1>3
<1>5. t \cup {x} \in SUBSET (Nat \X Nat)
  BY DEF Tables
<1> QED BY <1>2, <1>4, <1>5 DEF Tables

LEMMA TableShrinks ==
  ASSUME NEW t \in Tables, NEW x
  PROVE  t \ {x} \in Tables
<1>1. IsFiniteSet(t) /\ Cardinality(t) \in Nat /\ FF_FS_LOCK \in Nat /\ Cardinality(t) <= FF_FS_LOCK
  BY FS_CardinalityType, LockAssumption DEF Tables
<1>2. /\ IsFiniteSet(t \ {x})
      /\ Cardinality(t \ {x}) = IF x \in t THEN Cardinality(t) - 1 ELSE Cardinality(t)
  BY <1>1, FS_RemoveElement
<1>3. Cardinality(t \ {x}) <= FF_FS_LOCK
  BY <1>1, <1>2
<1>4. t \ {x} \in SUBSET (Nat \X Nat)
  BY DEF Tables
<1> QED BY <1>2, <1>3, <1>4 DEF Tables

(* Nothing but the file that is open and the table is changed.               *)
LEMMA FilPut ==
  ASSUME NEW v \in Volumes, NEW f \in OpenFils \cup {NoFil}, NEW t \in Tables,
         f.path # <<>> => f.place \in t
  PROVE  LET w == [v EXCEPT !.fil = f, !.files = t]
         IN  /\ w \in Volumes /\ w.fil = f /\ w.files = t /\ w.res = v.res /\ w.val = v.val
             /\ w.dj = v.dj /\ w.winsect = v.winsect /\ w.disk = v.disk /\ w.wflag = v.wflag
             /\ w.win = v.win
<1> DEFINE w == [v EXCEPT !.fil = f, !.files = t]
<1>1. Typed(v)
  BY VolumeTyped
<1>2. /\ Typed(w) /\ w.fil = f /\ w.files = t /\ w.res = v.res /\ w.val = v.val /\ w.dj = v.dj
      /\ w.winsect = v.winsect /\ w.disk = v.disk /\ w.wflag = v.wflag /\ w.win = v.win
  BY <1>1 DEF Typed, Fields
<1> HIDE DEF w
<1>3. w \in Records
  BY <1>2, TypedRecords
<1>4. w \in Volumes
  BY <1>2, <1>3 DEF Volumes, FilOpen
<1> QED BY <1>2, <1>4 DEF w

LEMMA LastPutStays ==
  ASSUME NEW v \in Volumes, NEW n \in Nat
  PROVE  LET w == [v EXCEPT !.last = n]
         IN  Stayed(v, w) /\ w \in Volumes /\ w.res = v.res /\ w.winsect = v.winsect
<1> DEFINE w == [v EXCEPT !.last = n]
<1>1. Typed(v)
  BY VolumeTyped
<1>2. /\ Typed(w) /\ Kept(v, w) /\ w.dj = v.dj /\ w.disk = v.disk /\ w.win = v.win
      /\ w.winsect = v.winsect /\ w.wflag = v.wflag /\ w.res = v.res
  BY <1>1 DEF Typed, Fields, Kept
<1> HIDE DEF w
<1>3. Chained(v, w)
  BY <1>2, CountsChain
<1> QED BY <1>2, <1>3, ChainedStays DEF Chained, w

-----------------------------------------------------------------------------
(* f_open to write.                                                          *)
LEMMA TruncatedStays ==
  ASSUME NEW v \in Volumes, AtEntry(v)
  PROVE  LET w == Truncated(v)
         IN  Stayed(v, w) /\ w \in Volumes /\ (Ok(w) => AtEntry(w))
<1> DEFINE e == Here(v)
           s == SetHere(v, Ent(e.name, FALSE, 0, 0))
           r == RemoveChain(s, e.clust)
           m == MoveWindow(r, v.winsect)
           x == [m EXCEPT !.last = e.clust - 1]
           w == Truncated(v)
<1>1. w = IF e.clust = 0 THEN s ELSE IF Ok(r) THEN x ELSE r
  BY DEF Truncated, Then
<1>2. e \in Entries
  BY HereTyped
<1>3. Ent(e.name, FALSE, 0, 0) \in Entries /\ e.clust \in Nat
  BY <1>2 DEF Ent, Entries
<1>4. Wrote(v, s)
  BY <1>3, SetHereWrites
<1> HIDE DEF s, e
<1>5. Stayed(v, s) /\ s \in Volumes /\ AtEntry(s)
  BY <1>4 DEF Wrote, Stayed, Walked, AtEntry
<1>6. CASE e.clust = 0
  BY <1>1, <1>5, <1>6
<1>7. CASE e.clust # 0
  <2>1. Chained(s, r)
    BY <1>5, RemoveChainChains
  <2>2. Stayed(s, r) /\ r \in Volumes
    BY <2>1, ChainedStays DEF Chained
  <2>3. Stayed(v, r)
    BY <1>5, <2>2, StayedTwice
  <2> HIDE DEF r
  <2>4. CASE ~ Ok(r)
    BY <1>1, <1>7, <2>2, <2>3, <2>4
  <2>5. CASE Ok(r)
    <3>1. v.winsect \in Sectors /\ v.winsect \in Clst
      BY KindsOfSectors DEF AtEntry
    <3>2. Looked(r, m) /\ (Ok(m) => m.winsect = v.winsect)
      BY <2>2, <3>1, MoveWindowLooks
    <3>3. Stayed(v, m) /\ m \in Volumes
      BY <2>3, <3>2, LookedStays, StayedTwice DEF Looked
    <3> HIDE DEF m
    <3>4. e.clust - 1 \in Nat
      BY <1>3, <1>7
    <3>5. Stayed(m, x) /\ x \in Volumes /\ x.res = m.res /\ x.winsect = m.winsect
      BY <3>3, <3>4, LastPutStays
    <3> HIDE DEF x
    <3>6. Stayed(v, x)
      BY <3>3, <3>5, StayedTwice
    <3>7. Ok(x) => AtEntry(x)
      BY <3>1, <3>2, <3>5 DEF Ok, AtEntry
    <3>8. w = x
      BY <1>1, <1>7, <2>5
    <3> QED BY <3>5, <3>6, <3>7, <3>8
  <2> QED BY <2>4, <2>5
<1> QED BY <1>6, <1>7

LEMMA LastOfPath ==
  ASSUME NEW p \in Seq(Names) \ {<<>>}
  PROVE  Last(p) \in Names
<1>1. Len(p) \in Nat /\ Len(p) # 0
  BY EmptySeq
<1> QED BY <1>1 DEF Last

LEMMA FoundOrMadeWalks ==
  ASSUME NEW v \in Volumes, NEW p \in Seq(Names) \ {<<>>}, NEW mode \in Modes
  PROVE  LET w == FoundOrMade(v, p, mode)
         IN  Walked(v, w) /\ (Ok(w) => AtEntry(w) /\ Cardinality(w.files) < FF_FS_LOCK)
<1> DEFINE found == FollowPath(v, p)
           i == Ignoring(found)
           made == DirRegister(i, Last(p))
           cut == Truncated(made)
           many == Result(found, "FR_TOO_MANY_OPEN_FILES")
           new == IF Cardinality(found.files) >= FF_FS_LOCK THEN many
                  ELSE IF Ok(made) THEN cut ELSE made
           share == IF Ok(found) THEN ShareToOpen(found) ELSE found
           old == IF Ok(share)
                  THEN CASE Here(share).dir   -> Result(share, "FR_DENIED")
                         [] ~ Here(share).dir ->
                              CASE mode = "FA_CREATE_NEW"    -> Result(share, "FR_EXIST")
                                [] mode = "FA_CREATE_ALWAYS" -> Truncated(share)
                                [] mode = "FA_OPEN_APPEND"   -> share
                  ELSE share
           w == FoundOrMade(v, p, mode)
<1> SUFFICES Walked(v, w) /\ (Ok(w) => AtEntry(w) /\ Cardinality(w.files) < FF_FS_LOCK)
  OBVIOUS
<1>1. w = IF found.res = "FR_NO_FILE" THEN new ELSE old
  BY DEF FoundOrMade, After, Then
<1>2. Walked(v, found) /\ AtFound(found) /\ found \in Volumes
  BY FollowPathFinds DEF Walked
<1> HIDE DEF found, w
<1>3. IsFiniteSet(found.files) /\ Cardinality(found.files) \in Nat /\ FF_FS_LOCK \in Nat
  BY <1>2, VolumeTyped, FS_CardinalityType, LockAssumption DEF Typed, Tables
<1>4. CASE found.res = "FR_NO_FILE"
  <2> HIDE DEF old
  <2>1. Stayed(found, many) /\ ~ Ok(many)
    BY <1>2, OtherResult DEF Results
  <2>2. Walked(v, many)
    BY <1>2, <2>1, StayedWalks, WalkedTwice
  <2> HIDE DEF many, made, cut
  <2>3. CASE Cardinality(found.files) >= FF_FS_LOCK
    BY <1>1, <1>4, <2>1, <2>2, <2>3
  <2>4. CASE ~ (Cardinality(found.files) >= FF_FS_LOCK)
    <3> USE DEF made, cut
    <3>1. i \in Volumes /\ Walked(found, i)
      BY <1>2, ResultLooks, OkResult, LookedStays, StayedWalks DEF Ignoring, Looked
    <3>2. Walked(v, i)
      BY <1>2, <3>1, WalkedTwice
    <3> HIDE DEF i
    <3>3. Walked(i, made) /\ AtFound(made)
      BY <3>1, LastOfPath, DirRegisterFinds
    <3>4. Walked(v, made) /\ Walked(found, made) /\ made \in Volumes
      BY <3>1, <3>2, <3>3, WalkedTwice DEF Walked
    <3> HIDE DEF made
    <3>5. Cardinality(made.files) < FF_FS_LOCK
      BY <1>3, <2>4, <3>4 DEF Walked, Kept
    <3>6. CASE ~ Ok(made)
      BY <1>1, <1>4, <2>4, <3>4, <3>6
    <3>7. CASE Ok(made)
      <4>1. Stayed(made, cut) /\ cut \in Volumes /\ (Ok(cut) => AtEntry(cut))
        BY <3>3, <3>4, <3>7, TruncatedStays DEF AtFound
      <4> HIDE DEF cut
      <4>2. Walked(v, cut) /\ cut.files = made.files
        BY <3>4, <4>1, StayedWalks, WalkedTwice DEF Stayed, Walked, Kept
      <4> QED BY <1>1, <1>4, <2>4, <3>5, <3>7, <4>1, <4>2
    <3> QED BY <3>6, <3>7
  <2> QED BY <2>3, <2>4
<1>5. CASE found.res # "FR_NO_FILE"
  <2> HIDE DEF new
  <2>1. w = old
    BY <1>1, <1>5
  <2>2. /\ share \in Volumes /\ Walked(found, share)
        /\ Ok(share) => share = found /\ Ok(found) /\ Cardinality(found.files) < FF_FS_LOCK
    <3>1. CASE Ok(found)
      <4>1. /\ Stayed(found, ShareToOpen(found))
            /\ Ok(ShareToOpen(found))
                 => ShareToOpen(found) = found /\ Cardinality(found.files) < FF_FS_LOCK
        BY <1>2, ShareStays
      <4> QED BY <3>1, <4>1, StayedWalks DEF Stayed, Walked
    <3>2. CASE ~ Ok(found)
      BY <1>2, <3>2 DEF Walked, Kept
    <3> QED BY <3>1, <3>2
  <2>3. Walked(v, share)
    BY <1>2, <2>2, WalkedTwice
  <2>4. CASE ~ Ok(share)
    BY <2>1, <2>3, <2>4
  <2>5. CASE Ok(share)
    <3>1. share = found /\ AtEntry(found) /\ Cardinality(found.files) < FF_FS_LOCK
      BY <1>2, <2>2, <2>5 DEF AtFound
    <3>2. \/ w = Result(found, "FR_DENIED") \/ w = Result(found, "FR_EXIST")
          \/ w = Truncated(found) \/ w = found
      <4>1. CASE Here(share).dir
        BY <2>1, <2>5, <3>1, <4>1
      <4>2. CASE ~ Here(share).dir
        BY <2>1, <2>5, <3>1, <4>2 DEF Modes
      <4> QED BY <4>1, <4>2
    <3>3. /\ Stayed(found, Result(found, "FR_DENIED")) /\ ~ Ok(Result(found, "FR_DENIED"))
          /\ Stayed(found, Result(found, "FR_EXIST")) /\ ~ Ok(Result(found, "FR_EXIST"))
      BY <1>2, OtherResult DEF Results
    <3>4. /\ Stayed(found, Truncated(found)) /\ (Ok(Truncated(found)) => AtEntry(Truncated(found)))
      BY <1>2, <3>1, TruncatedStays
    <3>5. Stayed(found, found)
      BY <1>2 DEF Stayed, Walked, Kept
    <3>6. Stayed(found, w) /\ (Ok(w) => AtEntry(w))
      BY <3>1, <3>2, <3>3, <3>4, <3>5
    <3>7. Walked(v, w)
      BY <1>2, <3>6, StayedWalks, WalkedTwice
    <3> QED BY <3>1, <3>6, <3>7 DEF Stayed, Walked, Kept
  <2> QED BY <2>4, <2>5
<1> QED BY <1>4, <1>5

(* The file that is open stays open, on its place.                           *)
InFile(v, w) ==
  /\ w \in Volumes /\ w.fil \in OpenFils
  /\ w.fil.path = v.fil.path /\ w.fil.place = v.fil.place /\ w.files = v.files

LEMMA InFileTwice ==
  ASSUME NEW u, NEW v, NEW w, InFile(u, v), InFile(v, w)
  PROVE  InFile(u, w)
BY DEF InFile

LEMMA WalkedInFile ==
  ASSUME NEW v, NEW w, Walked(v, w), v.fil \in OpenFils
  PROVE  InFile(v, w) /\ w.fil = v.fil
BY DEF InFile, Walked, Kept

LEMMA LookedInFile ==
  ASSUME NEW v, NEW w, Looked(v, w), v.fil \in OpenFils
  PROVE  InFile(v, w) /\ w.fil = v.fil
BY LookedStays, WalkedInFile DEF Stayed

LEMMA FilChanges ==
  ASSUME NEW v \in Volumes, v.fil \in OpenFils, NEW f \in OpenFils,
         f.path = v.fil.path, f.place = v.fil.place
  PROVE  LET w == [v EXCEPT !.fil = f]
         IN  InFile(v, w) /\ w.fil = f /\ w.res = v.res /\ w.val = v.val
<1> DEFINE w == [v EXCEPT !.fil = f]
<1>1. Typed(v)
  BY VolumeTyped
<1>2. /\ Typed(w) /\ w.fil = f /\ w.files = v.files /\ w.res = v.res /\ w.val = v.val
      /\ w.winsect = v.winsect /\ w.win = v.win
  BY <1>1 DEF Typed, Fields
<1> HIDE DEF w
<1>3. w \in Records
  BY <1>2, TypedRecords
<1>4. w \in Volumes
  BY <1>2, <1>3 DEF Volumes, FilOpen
<1> QED BY <1>2, <1>4 DEF w, InFile

LEMMA OpenedOpens ==
  ASSUME NEW v \in Volumes, AtEntry(v), Cardinality(v.files) < FF_FS_LOCK,
         NEW p \in Seq(Names) \ {<<>>}, NEW created \in BOOLEAN
  PROVE  Opened(v, p, created) \in Volumes /\ Opened(v, p, created).fil \in OpenFils
<1> DEFINE e == Here(v)
           place == Place(v)
           t == v.files \cup {place}
           f == [NoFil EXCEPT !.path = p, !.place = place, !.dirSect = v.winsect,
                              !.dirPtr = v.dj.dptr, !.sclust = e.clust,
                              !.objsize = e.size, !.modified = created, !.buf = Zeros.data]
<1>1. e \in Entries
  BY HereTyped
<1>2. Typed(v) /\ place \in Nat \X Nat
  BY VolumeTyped, PlaceTyped
<1>3. t \in Tables
  BY <1>2, TableGrows DEF Typed
<1>4. e.clust \in Nat /\ e.size \in Nat /\ v.dj.dptr \in Nat /\ v.winsect \in Clst
  BY <1>1, <1>2 DEF Entries, Typed, Dirs, AtEntry
<1>5. Zeros.data \in Buffers
  BY UnitsAssumption DEF Zeros, Buffers
<1>6. Opened(v, p, created) = [v EXCEPT !.fil = f, !.files = t]
  BY <1>2 DEF Opened, Typed, Fields
<1> HIDE DEF e, place
<1>7. f \in OpenFils /\ f.path # <<>> /\ f.place = place
  BY <1>2, <1>4, <1>5 DEF OpenFils, NoFil, Results
<1>8. place \in t
  OBVIOUS
<1> HIDE DEF f, t
<1>9. [v EXCEPT !.fil = f, !.files = t] \in Volumes /\ [v EXCEPT !.fil = f, !.files = t].fil = f
  BY <1>3, <1>7, <1>8, FilPut, ZenonT(60)
<1> QED BY <1>6, <1>7, <1>9

LEMMA SeekRoundLooks ==
  ASSUME NEW v \in Volumes, NEW k
  PROVE  Looked(v, SeekRound(v, k))
<1> DEFINE got == GetFat(v, v.val)
           w == SeekRound(v, k)
<1>1. w = IF Ok(v)
          THEN CASE got.val <= 1        -> Result(got, "FR_INT_ERR")
                 [] got.val = DiskError -> Result(got, "FR_DISK_ERR")
                 [] got.val \notin {0, 1, DiskError} -> got
          ELSE v
  BY DEF SeekRound, Then, After
<1> HIDE DEF w
<1>2. Looked(v, got) /\ got.val \in Nat /\ got \in Volumes
  BY GetFatLooks DEF Looked
<1> HIDE DEF got
<1>3. /\ Looked(got, Result(got, "FR_INT_ERR")) /\ Looked(got, Result(got, "FR_DISK_ERR"))
  BY <1>2, ResultLooks DEF Results
<1>4. \/ w = v \/ w = got \/ w = Result(got, "FR_INT_ERR") \/ w = Result(got, "FR_DISK_ERR")
  <2>1. CASE got.val <= 1
    BY <1>1, <2>1
  <2>2. CASE got.val = DiskError
    BY <1>1, <2>2 DEF DiskError
  <2>3. CASE got.val \notin {0, 1, DiskError}
    <3>1. ~ (got.val <= 1) /\ got.val # DiskError
      BY <1>2, <2>3
    <3> QED BY <1>1, <2>3, <3>1
  <2> QED BY <1>2, <2>1, <2>2, <2>3
<1>5. Looked(v, w)
  BY <1>2, <1>3, <1>4, LookedTwice, LookedOnce
<1> QED BY <1>5 DEF w

LEMMA ClusterAtLooks ==
  ASSUME NEW v \in Volumes, NEW c \in Nat, NEW ofs \in Nat
  PROVE  Looked(v, ClusterAt(v, c, ofs))
<1> DEFINE S == {w \in Volumes : Looked(v, w)}
           x == Value(v, c)
           n == IF ofs = 0 THEN 0 ELSE (ofs - 1) \div (Csize * SS)
           g == [q \in S \X Nat |-> IF q[2] = 0 THEN q[1] ELSE SeekRound(q[1], q[2])]
           Body(f) == [k \in Nat |-> IF k = 0 THEN x ELSE SeekRound(f[k - 1], k)]
           after == CHOOSE f : f = Body(f)
<1>1. ClusterAt(v, c, ofs) = after[n]
  BY DEF ClusterAt, Rounds
<1>2. x \in S
  BY ValueLooks DEF Looked
<1>3. \A u \in S, k \in Nat \ {0} : SeekRound(u, k) \in S
  BY SeekRoundLooks, LookedTwice DEF Looked
<1>11. n \in Nat
  <2>1. CASE ofs = 0
    BY <2>1
  <2>2. CASE ofs # 0
    <3>1. Csize * SS \in Nat \ {0} /\ ofs - 1 \in Nat
      BY <2>2, Geometry
    <3> HIDE DEF n
    <3>2. (ofs - 1) \div (Csize * SS) \in Nat
      BY <3>1, Remainder
    <3> QED BY <2>2, <3>2 DEF n
  <2> QED BY <2>1, <2>2
<1> HIDE DEF x, S, n
<1>4. RoundOn(S, g) /\ \A u \in S, k \in Nat \ {0} : g[<<u, k>>] = SeekRound(u, k)
  BY <1>3 DEF RoundOn
<1> HIDE DEF g
<1>5. PICK f : Iterates(f, S, x, g)
  BY <1>2, <1>4, Recursion
<1>6. f = Body(f)
  <2> USE DEF Iterates
  <2> SUFFICES ASSUME NEW k \in Nat PROVE f[k] = IF k = 0 THEN x ELSE SeekRound(f[k - 1], k)
    BY <1>5
  <2>1. CASE k # 0
    <3>1. k \in Nat \ {0} /\ k - 1 \in Nat /\ (k - 1) + 1 = k /\ f[k - 1] \in S
      BY <1>5, <2>1
    <3>2. f[(k - 1) + 1] = g[<<f[k - 1], (k - 1) + 1>>]
      BY <1>5, <3>1
    <3> QED BY <1>4, <2>1, <3>1, <3>2
  <2> QED BY <1>5, <2>1
<1>7. after = Body(after)
  BY <1>6
<1> HIDE DEF after
<1>8. after[0] \in S
  BY <1>2, <1>7
<1>9. \A k \in Nat : after[k] \in S => after[k + 1] \in S
  <2> SUFFICES ASSUME NEW k \in Nat, after[k] \in S PROVE after[k + 1] \in S
    OBVIOUS
  <2>1. after[k + 1] = SeekRound(after[k], k + 1) /\ k + 1 \in Nat \ {0}
    BY <1>7
  <2> QED BY <1>3, <2>1
<1>10. after[n] \in S
  BY <1>8, <1>9, <1>11, StaysIn
<1> QED BY <1>1, <1>10 DEF S

LEMMA DataIn ==
  ASSUME NEW m \in Disks, NEW s \in Clst
  PROVE  m[s].data \in Buffers
<1> DEFINE x == m[s]
<1>1. x \in Content(s)
  BY KindsOfSectors DEF Disks
<1> HIDE DEF x
<1>2. x \in [fat : {<<>>}, ents : [1 .. SS -> Entries], data : Buffers]
  BY <1>1, ClstContent
<1>3. x.data \in Buffers
  BY <1>2
<1> QED BY <1>3 DEF x

LEMMA FillBufferStays ==
  ASSUME NEW v \in Volumes, v.fil \in OpenFils, NEW s \in Clst
  PROVE  InFile(v, FillBuffer(v, s))
<1> DEFINE a == Access(v)
           buf == a.disk[s].data
           w == [a EXCEPT !.fil.sect = s, !.fil.buf = buf]
           f == [a.fil EXCEPT !.sect = s, !.buf = buf]
<1>1. FillBuffer(v, s) = IF Ok(a) THEN w ELSE a
  BY DEF FillBuffer, Then
<1>2. InFile(v, a) /\ a \in Volumes /\ a.fil \in OpenFils
  BY AccessLooks, LookedInFile DEF InFile
<1> HIDE DEF a
<1>3. Typed(a)
  BY <1>2, VolumeTyped
<1>4. buf \in Buffers
  BY <1>3, DataIn DEF Typed
<1> HIDE DEF buf
<1>5. w = [a EXCEPT !.fil = f]
  BY <1>3 DEF Typed, Fields
<1>6. f \in OpenFils /\ f.path = a.fil.path /\ f.place = a.fil.place
  BY <1>2, <1>4 DEF OpenFils
<1> HIDE DEF f, w
<1>7. InFile(a, [a EXCEPT !.fil = f])
  BY <1>2, <1>6, FilChanges
<1>8. InFile(v, w)
  BY <1>2, <1>5, <1>7, InFileTwice
<1> QED BY <1>1, <1>2, <1>8

LEMMA FptrPut ==
  ASSUME NEW v \in Volumes, v.fil \in OpenFils, NEW n \in Nat
  PROVE  InFile(v, [v EXCEPT !.fil.fptr = n]) /\ InFile(v, [v EXCEPT !.fil.clust = n])
<1> DEFINE f1 == [v.fil EXCEPT !.fptr = n]
           f2 == [v.fil EXCEPT !.clust = n]
<1>1. /\ f1 \in OpenFils /\ f1.path = v.fil.path /\ f1.place = v.fil.place
      /\ f2 \in OpenFils /\ f2.path = v.fil.path /\ f2.place = v.fil.place
  BY DEF OpenFils
<1>2. [v EXCEPT !.fil.fptr = n] = [v EXCEPT !.fil = f1] /\ [v EXCEPT !.fil.clust = n] = [v EXCEPT !.fil = f2]
  BY VolumeTyped DEF Typed, Fields
<1> HIDE DEF f1, f2
<1>3. InFile(v, [v EXCEPT !.fil = f1]) /\ InFile(v, [v EXCEPT !.fil = f2])
  BY <1>1, FilChanges
<1> QED BY <1>2, <1>3

(* The file that could not be sought is not open, nor in the table.          *)
LEMMA FilForgotten ==
  ASSUME NEW v \in Volumes, NEW t \in Tables
  PROVE  LET w == [v EXCEPT !.files = t, !.fil = NoFil]
         IN  w \in Volumes /\ w.fil = NoFil
<1> DEFINE w == [v EXCEPT !.files = t, !.fil = NoFil]
           u == [v EXCEPT !.fil = NoFil, !.files = t]
<1>1. w = u
  BY VolumeTyped DEF Typed, Fields
<1>2. NoFil \in OpenFils \cup {NoFil} /\ ~ (NoFil.path # <<>>)
  BY DEF NoFil
<1>3. u \in Volumes /\ u.fil = NoFil
  BY <1>2, FilPut, ZenonT(60)
<1> QED BY <1>1, <1>3

LEMMA InClusterSector ==
  ASSUME NEW m \in Nat, m % SS # 0, NEW c \in Clusters
  PROVE  Sector(c, InCluster(m) \div SS) \in Clst
<1> DEFINE n == EntsOfCluster
<1>1. n \in Nat \ {0} /\ n = Csize * SS
  BY Geometry DEF EntsOfCluster
<1>2. m % n # 0
  <2> SUFFICES ASSUME m % n = 0 PROVE FALSE
    OBVIOUS
  <2> HIDE DEF n
  <2> DEFINE q == m \div n
  <2>1. m = n * q + (m % n) /\ q \in Nat
    BY <1>1, Remainder, ZenonT(60)
  <2> HIDE DEF q
  <2>2. n * q \in Nat
    BY <1>1, <2>1
  <2>3. m = n * q
    BY <2>1, <2>2
  <2>4. m = SS * (Csize * q) /\ Csize * q \in Nat
    BY <1>1, <2>1, <2>3, Geometry
  <2>5. m % SS = 0
    <3> DEFINE r == Csize * q
    <3>1. m = SS * r /\ r \in Nat
      BY <2>4
    <3> HIDE DEF r
    <3>2. m % SS \in 0 .. SS - 1 /\ m \div SS \in Nat /\ m = SS * (m \div SS) + (m % SS)
      BY Geometry, Remainder
    <3> QED BY <3>1, <3>2, Geometry
  <2> QED BY <2>5
<1>3. InCluster(m) = m % EntsOfCluster
  BY <1>1, <1>2 DEF InCluster
<1> HIDE DEF n
<1>4. InCluster(m) \div SS \in 0 .. Csize - 1
  BY <1>3, SectorIndex
<1> QED BY <1>4, ClstOf

LEMMA SeekEndStays ==
  ASSUME NEW v \in Volumes, v.fil \in OpenFils
  PROVE  SeekEnd(v) \in Volumes
<1> DEFINE size == v.fil.objsize
           a == [v EXCEPT !.fil.fptr = size]
           c == ClusterAt(a, v.fil.sclust, size)
           x == [c EXCEPT !.fil.clust = c.val]
           none == Result(x, "FR_INT_ERR")
           fill == FillBuffer(x, Sector(c.val, InCluster(size) \div SS))
           sought == CASE size % SS = 0 -> x
                       [] size % SS # 0 /\ c.val \notin Clusters -> none
                       [] size % SS # 0 /\ c.val \in Clusters -> fill
           seen == IF Ok(c) THEN sought ELSE c
           w == IF Ok(seen) THEN seen
                ELSE [seen EXCEPT !.files = @ \ {v.fil.place}, !.fil = NoFil]
<1>1. SeekEnd(v) = w
  BY DEF SeekEnd, Then, After
<1>2. size \in Nat /\ v.fil.sclust \in Nat
  BY DEF OpenFils
<1> HIDE DEF size
<1>3. InFile(v, a) /\ a \in Volumes /\ a.fil \in OpenFils
  BY <1>2, FptrPut DEF InFile
<1> HIDE DEF a
<1>4. InFile(v, c) /\ c \in Volumes /\ c.fil \in OpenFils /\ c.val \in Nat
  <2>1. Looked(a, c)
    BY <1>2, <1>3, ClusterAtLooks
  <2>2. InFile(a, c)
    BY <1>3, <2>1, LookedInFile
  <2>3. c \in Volumes
    BY <2>1 DEF Looked
  <2> HIDE DEF c
  <2> QED BY <1>3, <2>2, <2>3, InFileTwice, VolumeTyped DEF InFile, Typed
<1> HIDE DEF c
<1>5. InFile(v, x) /\ x \in Volumes /\ x.fil \in OpenFils
  <2>1. InFile(c, x)
    BY <1>4, FptrPut
  <2> HIDE DEF x
  <2> QED BY <1>4, <2>1, InFileTwice DEF InFile
<1> HIDE DEF x
<1>6. InFile(v, none)
  <2>1. Looked(x, none)
    BY <1>5, ResultLooks DEF Results
  <2> QED BY <1>5, <2>1, LookedInFile, InFileTwice
<1> HIDE DEF none
<1>7. size % SS # 0 /\ c.val \in Clusters => InFile(v, fill)
  <2> SUFFICES ASSUME size % SS # 0, c.val \in Clusters PROVE InFile(v, fill)
    OBVIOUS
  <2>1. Sector(c.val, InCluster(size) \div SS) \in Clst
    BY <1>2, InClusterSector
  <2>2. InFile(x, fill)
    BY <1>5, <2>1, FillBufferStays
  <2> QED BY <1>5, <2>2, InFileTwice
<1> HIDE DEF fill
<1>8. InFile(v, sought)
  <2>1. CASE size % SS = 0
    BY <1>5, <2>1
  <2>2. CASE size % SS # 0 /\ c.val \notin Clusters
    BY <1>6, <2>2
  <2>3. CASE size % SS # 0 /\ c.val \in Clusters
    BY <1>7, <2>3
  <2> QED BY <2>1, <2>2, <2>3
<1> HIDE DEF sought
<1>9. InFile(v, seen) /\ seen \in Volumes
  BY <1>4, <1>8 DEF InFile
<1> HIDE DEF seen
<1>10. seen.files \ {v.fil.place} \in Tables
  BY <1>9, VolumeTyped, TableShrinks DEF Typed
<1>11. [seen EXCEPT !.files = @ \ {v.fil.place}, !.fil = NoFil] \in Volumes
  BY <1>9, <1>10, FilForgotten
<1> QED BY <1>1, <1>9, <1>11

LEMMA FOpenStays ==
  ASSUME NEW v \in Volumes, NEW p \in Seq(Names) \ {<<>>}, NEW mode \in Modes
  PROVE  FOpen(v, p, mode) \in Volumes
<1> DEFINE made == FoundOrMade(v, p, mode)
           created == mode = "FA_CREATE_ALWAYS" \/ ~ (FollowPath(v, p).res = "FR_OK")
           x == Opened(made, p, created)
<1>1. FOpen(v, p, mode)
      = IF Ok(made) THEN IF mode = "FA_OPEN_APPEND" /\ x.fil.objsize > 0 THEN SeekEnd(x) ELSE x
        ELSE made
  BY DEF FOpen, Then, After
<1>2. /\ made \in Volumes
      /\ Ok(made) => AtEntry(made) /\ Cardinality(made.files) < FF_FS_LOCK
  BY FoundOrMadeWalks DEF Walked
<1>3. created \in BOOLEAN
  OBVIOUS
<1> HIDE DEF made, created
<1>4. Ok(made) => x \in Volumes /\ x.fil \in OpenFils
  BY <1>2, <1>3, OpenedOpens
<1> HIDE DEF x
<1>5. Ok(made) => SeekEnd(x) \in Volumes
  BY <1>4, SeekEndStays
<1> QED BY <1>1, <1>2, <1>4, <1>5

-----------------------------------------------------------------------------
(* f_write: up to an offset, fptr stays below it.                            *)
AtFptr(v, w) == InFile(v, w) /\ w.fil.fptr = v.fil.fptr

LEMMA AtFptrTwice ==
  ASSUME NEW u, NEW v, NEW w, AtFptr(u, v), AtFptr(v, w)
  PROVE  AtFptr(u, w)
BY InFileTwice DEF AtFptr

LEMMA WalkedAtFptr ==
  ASSUME NEW v, NEW w, Walked(v, w), v.fil \in OpenFils
  PROVE  AtFptr(v, w) /\ w.fil = v.fil
BY WalkedInFile DEF AtFptr

LEMMA StayedAtFptr ==
  ASSUME NEW v, NEW w, Stayed(v, w), v.fil \in OpenFils
  PROVE  AtFptr(v, w) /\ w.fil = v.fil
BY WalkedAtFptr DEF Stayed

LEMMA LookedAtFptr ==
  ASSUME NEW v, NEW w, Looked(v, w), v.fil \in OpenFils
  PROVE  AtFptr(v, w) /\ w.fil = v.fil
BY LookedStays, StayedAtFptr

LEMMA DataWritten ==
  ASSUME NEW v \in Volumes, v.fil \in OpenFils, NEW s \in Clst \cup {Nowhere}, NEW units \in Buffers
  PROVE  LET w == DiskWrite(v, s, DataSector(units))
         IN  AtFptr(v, w) /\ w.fil = v.fil /\ w.res \in {"FR_OK", "FR_DISK_ERR"}
<1> DEFINE content == DataSector(units)
           w == DiskWrite(v, s, content)
<1>1. s \in Sectors => content \in Content(s)
  <2>1. CASE s \in Clst
    <3>1. [k \in 1 .. SS |-> JunkEnt] \in [1 .. SS -> Entries]
      <4>1. JunkEnt \in Entries
        BY NewEntryTyped DEF JunkEnt
      <4> QED BY <4>1
    <3>2. content \in [fat : {<<>>}, ents : [1 .. SS -> Entries], data : Buffers]
      BY <3>1 DEF DataSector
    <3> QED BY <2>1, <3>2, ClstContent
  <2>2. CASE s = Nowhere
    BY <2>2, KindsOfSectors
  <2> QED BY <2>1, <2>2
<1> HIDE DEF content
<1>2. LET e == DiskWrite(v, s, content)
      IN  /\ e \in Volumes /\ KeptAll(v, e) /\ e.win = v.win /\ e.winsect = v.winsect
          /\ e.wflag = v.wflag /\ e.val = v.val /\ e.res \in {"FR_OK", "FR_DISK_ERR"}
          /\ e.disk = IF Ok(e) THEN [v.disk EXCEPT ![s] = content] ELSE v.disk
  BY ONLY v \in Volumes, <1>1, DiskWriteLooks, ZenonT(60)
<1>3. w \in Volumes /\ KeptAll(v, w) /\ w.res \in {"FR_OK", "FR_DISK_ERR"}
  BY <1>2
<1> HIDE DEF w
<1>4. Walked(v, w)
  BY <1>3 DEF Walked, KeptAll
<1>5. AtFptr(v, w) /\ w.fil = v.fil
  BY <1>4, WalkedAtFptr
<1> QED BY <1>3, <1>5 DEF w, content

LEMMA FlushBufferStays ==
  ASSUME NEW v \in Volumes, v.fil \in OpenFils
  PROVE  LET w == FlushBuffer(v)
         IN  AtFptr(v, w) /\ w.res \in {"FR_OK", "FR_DISK_ERR"}
<1> DEFINE d == DiskWrite(v, v.fil.sect, DataSector(v.fil.buf))
           f == [d.fil EXCEPT !.dirty = FALSE]
           u == [d EXCEPT !.fil.dirty = FALSE]
           w == FlushBuffer(v)
<1>1. w = IF v.fil.dirty THEN IF Ok(d) THEN u ELSE d ELSE Result(v, "FR_OK")
  BY DEF FlushBuffer, Then, Ignoring
<1>2. v.fil.sect \in Clst \cup {Nowhere} /\ v.fil.buf \in Buffers
  BY DEF OpenFils
<1>3. AtFptr(v, d) /\ d.fil = v.fil /\ d.res \in {"FR_OK", "FR_DISK_ERR"}
  BY <1>2, DataWritten
<1> HIDE DEF d
<1>4. AtFptr(v, u) /\ u.res = d.res
  <2>1. d \in Volumes /\ d.fil \in OpenFils
    BY <1>3 DEF AtFptr, InFile
  <2>2. f \in OpenFils /\ f.path = d.fil.path /\ f.place = d.fil.place /\ f.fptr = d.fil.fptr
    BY <2>1 DEF OpenFils
  <2>3. u = [d EXCEPT !.fil = f]
    BY <2>1, VolumeTyped DEF Typed, Fields
  <2> HIDE DEF f, u
  <2>4. /\ InFile(d, [d EXCEPT !.fil = f]) /\ [d EXCEPT !.fil = f].fil = f
        /\ [d EXCEPT !.fil = f].res = d.res
    BY <2>1, <2>2, FilChanges
  <2>5. AtFptr(d, u) /\ u.res = d.res
    BY <2>2, <2>3, <2>4 DEF AtFptr
  <2> QED BY <1>3, <2>5, AtFptrTwice
<1> HIDE DEF u
<1>5. AtFptr(v, Result(v, "FR_OK")) /\ Result(v, "FR_OK").res = "FR_OK"
  BY ResultLooks, LookedAtFptr, OkResult
<1> HIDE DEF w
<1>6. AtFptr(v, w) /\ w.res \in {"FR_OK", "FR_DISK_ERR"}
  BY <1>1, <1>3, <1>4, <1>5
<1> QED BY <1>6 DEF w

LEMMA AbortStays ==
  ASSUME NEW v \in Volumes, v.fil \in OpenFils, NEW r \in Results
  PROVE  AtFptr(v, Abort(v, r)) /\ Abort(v, r).res = r
<1> DEFINE u == Result(v, r)
           f == [v.fil EXCEPT !.err = r]
           w == [u EXCEPT !.fil = f]
<1>1. AtFptr(v, u) /\ u.fil = v.fil /\ u.res = r
  BY ResultLooks, LookedAtFptr
<1>2. Abort(v, r) = w
  BY VolumeTyped DEF Abort, Result, Typed, Fields
<1>3. f \in OpenFils /\ f.path = v.fil.path /\ f.place = v.fil.place /\ f.fptr = v.fil.fptr
  BY DEF OpenFils
<1> HIDE DEF f, u
<1>4. u \in Volumes /\ u.fil \in OpenFils
  BY <1>1 DEF AtFptr, InFile
<1>5. InFile(u, w) /\ w.fil = f /\ w.res = u.res
  BY <1>1, <1>3, <1>4, FilChanges
<1> HIDE DEF w
<1>6. AtFptr(u, w)
  BY <1>1, <1>3, <1>5 DEF AtFptr
<1> QED BY <1>1, <1>2, <1>5, <1>6, AtFptrTwice

LEMMA AbortOnErrorStays ==
  ASSUME NEW v \in Volumes, v.fil \in OpenFils
  PROVE  AtFptr(v, AbortOnError(v)) /\ AbortOnError(v).res = v.res
<1>1. v.res \in Results
  BY VolumeTyped DEF Typed
<1>2. AtFptr(v, v)
  BY LookedOnce, LookedAtFptr
<1>3. AtFptr(v, Abort(v, v.res)) /\ Abort(v, v.res).res = v.res
  BY <1>1, AbortStays
<1> QED BY <1>2, <1>3 DEF AbortOnError

LEMMA ToClusterStays ==
  ASSUME NEW v \in Volumes, v.fil \in OpenFils
  PROVE  AtFptr(v, ToCluster(v))
<1> DEFINE got == IF v.fil.fptr = 0 /\ v.fil.sclust # 0 THEN Value(v, v.fil.sclust)
                  ELSE CreateChain(v, IF v.fil.fptr = 0 THEN 0 ELSE v.fil.clust)
           u == [got EXCEPT !.fil.clust = got.val,
                            !.fil.sclust = IF @ = 0 THEN got.val ELSE @]
           f == [got.fil EXCEPT !.clust = got.val,
                                !.sclust = IF @ = 0 THEN got.val ELSE @]
           w == ToCluster(v)
<1>1. w = CASE got.val = 0         -> Result(got, "full")
            [] got.val = 1         -> Abort(got, "FR_INT_ERR")
            [] got.val = DiskError -> Abort(got, "FR_DISK_ERR")
            [] got.val \notin {0, 1, DiskError} -> Result(u, "FR_OK")
  BY DEF ToCluster, After, Ignoring
<1> HIDE DEF w
<1>2. AtFptr(v, got)
  <2>1. v.fil.sclust \in Nat /\ v.fil.clust \in Nat
    BY DEF OpenFils
  <2>2. AtFptr(v, Value(v, v.fil.sclust))
    BY <2>1, ValueLooks, LookedAtFptr
  <2>3. AtFptr(v, CreateChain(v, 0)) /\ AtFptr(v, CreateChain(v, v.fil.clust))
    BY <2>1, CreateChainChains, ChainedStays, StayedAtFptr
  <2> QED BY <2>2, <2>3
<1> HIDE DEF got
<1>3. got \in Volumes /\ got.fil \in OpenFils /\ got.val \in Nat
  BY <1>2, VolumeTyped DEF AtFptr, InFile, Typed
<1>4. AtFptr(v, Result(got, "full"))
  BY <1>2, <1>3, ResultLooks, LookedAtFptr, AtFptrTwice DEF Results
<1>5. AtFptr(v, Abort(got, "FR_INT_ERR")) /\ AtFptr(v, Abort(got, "FR_DISK_ERR"))
  BY <1>2, <1>3, AbortStays, AtFptrTwice DEF Results
<1>6. AtFptr(v, Result(u, "FR_OK"))
  <2>1. f \in OpenFils /\ f.path = got.fil.path /\ f.place = got.fil.place /\ f.fptr = got.fil.fptr
    BY <1>3 DEF OpenFils
  <2>2. u = [got EXCEPT !.fil = f]
    BY <1>3, VolumeTyped DEF Typed, Fields
  <2> HIDE DEF f, u
  <2>3. InFile(got, [got EXCEPT !.fil = f]) /\ [got EXCEPT !.fil = f].fil = f
    BY <1>3, <2>1, FilChanges
  <2>4. AtFptr(got, u) /\ u \in Volumes /\ u.fil \in OpenFils
    BY <2>1, <2>2, <2>3 DEF AtFptr, InFile
  <2>5. AtFptr(u, Result(u, "FR_OK"))
    BY <2>4, ResultLooks, LookedAtFptr, OkResult
  <2> QED BY <1>2, <2>4, <2>5, AtFptrTwice
<1> HIDE DEF u
<1>7. AtFptr(v, w)
  <2>1. CASE got.val = 0
    BY <1>1, <1>4, <2>1 DEF DiskError
  <2>2. CASE got.val = 1
    BY <1>1, <1>5, <2>2 DEF DiskError
  <2>3. CASE got.val = DiskError
    BY <1>1, <1>5, <2>3 DEF DiskError
  <2>4. CASE got.val \notin {0, 1, DiskError}
    BY <1>1, <1>6, <2>4
  <2> QED BY <2>1, <2>2, <2>3, <2>4
<1> QED BY <1>7 DEF w

(* fptr goes on by k.                                                        *)
Went(v, w, k) == InFile(v, w) /\ w.fil.fptr = v.fil.fptr + k

LEMMA AdvancedWent ==
  ASSUME NEW v \in Volumes, v.fil \in OpenFils, NEW k \in Nat
  PROVE  Went(v, Advanced(v, k), k)
<1> DEFINE m == v.fil.fptr + k
           f == [v.fil EXCEPT !.fptr = @ + k, !.objsize = IF m > @ THEN m ELSE @]
<1>1. m \in Nat
  BY DEF OpenFils
<1>2. Advanced(v, k) = [v EXCEPT !.fil = f]
  BY VolumeTyped DEF Advanced, Typed, Fields
<1>3. f \in OpenFils /\ f.path = v.fil.path /\ f.place = v.fil.place /\ f.fptr = v.fil.fptr + k
  BY <1>1 DEF OpenFils
<1> HIDE DEF f
<1>4. InFile(v, [v EXCEPT !.fil = f]) /\ [v EXCEPT !.fil = f].fil = f
  BY <1>3, FilChanges
<1> QED BY <1>2, <1>3, <1>4 DEF Went

LEMMA BufferedWent ==
  ASSUME NEW v \in Volumes, v.fil \in OpenFils, NEW k \in Nat, NEW x \in Units
  PROVE  Went(v, Buffered(v, k, x), k)
<1> DEFINE ofs == v.fil.fptr % SS
           buf == [i \in 1 .. SS |-> IF i > ofs /\ i <= ofs + k THEN x ELSE v.fil.buf[i]]
           f == [v.fil EXCEPT !.dirty = TRUE, !.buf = buf]
           u == [v EXCEPT !.fil = f]
<1>1. Buffered(v, k, x) = Advanced(u, k)
  BY VolumeTyped DEF Buffered, Typed, Fields
<1>2. buf \in Buffers
  BY DEF OpenFils, Buffers
<1> HIDE DEF buf
<1>3. f \in OpenFils /\ f.path = v.fil.path /\ f.place = v.fil.place /\ f.fptr = v.fil.fptr
  BY <1>2 DEF OpenFils
<1> HIDE DEF f
<1>4. InFile(v, u) /\ u.fil = f
  BY <1>3, FilChanges
<1> HIDE DEF u
<1>5. Went(u, Advanced(u, k), k)
  BY <1>3, <1>4, AdvancedWent DEF InFile
<1> HIDE DEF u
<1>6. InFile(v, Advanced(u, k)) /\ Advanced(u, k).fil.fptr = v.fil.fptr + k
  BY <1>3, <1>4, <1>5, InFileTwice DEF Went
<1> QED BY <1>1, <1>6 DEF Went

Upto(end, w) == w \in Volumes /\ w.fil \in OpenFils /\ w.fil.fptr <= end

LEMMA WentUpto ==
  ASSUME NEW v, v.fil \in OpenFils, NEW k \in Nat, NEW w, Went(v, w, k),
         NEW end, v.fil.fptr + k <= end
  PROVE  Upto(end, w)
BY DEF Went, InFile, Upto

LEMMA AtFptrUpto ==
  ASSUME NEW v, NEW w, AtFptr(v, w), NEW end, v.fil.fptr <= end
  PROVE  Upto(end, w)
BY DEF AtFptr, InFile, Upto

(* What is put in a sector.                                                  *)
PutIn(w, sect, n, x) ==
  IF n < SS THEN Buffered([w EXCEPT !.fil.sect = sect], n, x)
  ELSE IF Ok(AbortOnError(DiskWrite(w, sect, DataSector([i \in 1 .. SS |-> x]))))
       THEN Advanced(AbortOnError(DiskWrite(w, sect, DataSector([i \in 1 .. SS |-> x]))), SS)
       ELSE AbortOnError(DiskWrite(w, sect, DataSector([i \in 1 .. SS |-> x])))

LEMMA PutInUpto ==
  ASSUME NEW w \in Volumes, w.fil \in OpenFils, NEW sect \in Clst, NEW n \in Nat,
         NEW x \in Units, NEW end \in Nat, w.fil.fptr + n = end
  PROVE  Upto(end, PutIn(w, sect, n, x))
<1> DEFINE units == [i \in 1 .. SS |-> x]
           d == DiskWrite(w, sect, DataSector(units))
           a == AbortOnError(d)
           f == [w.fil EXCEPT !.sect = sect]
           u == [w EXCEPT !.fil = f]
<1>1. w.fil.fptr \in Nat /\ w.fil.fptr <= end /\ SS \in Nat
  BY Geometry DEF OpenFils
<1>2. CASE n < SS
  <2>1. PutIn(w, sect, n, x) = Buffered(u, n, x)
    BY <1>2, VolumeTyped DEF PutIn, Typed, Fields
  <2>2. f \in OpenFils /\ f.path = w.fil.path /\ f.place = w.fil.place /\ f.fptr = w.fil.fptr
    BY DEF OpenFils
  <2> HIDE DEF f
  <2>3. InFile(w, u) /\ u.fil = f
    BY <2>2, FilChanges
  <2> HIDE DEF u
  <2>4. Went(u, Buffered(u, n, x), n)
    BY <2>2, <2>3, BufferedWent DEF InFile
  <2>5. u.fil.fptr + n <= end /\ u.fil \in OpenFils
    BY <1>1, <2>2, <2>3
  <2>6. Upto(end, Buffered(u, n, x))
    BY <2>4, <2>5, WentUpto
  <2> QED BY <2>1, <2>6
<1>3. CASE ~ (n < SS)
  <2>1. PutIn(w, sect, n, x) = IF Ok(a) THEN Advanced(a, SS) ELSE a
    BY <1>3 DEF PutIn
  <2>2. units \in Buffers
    BY DEF Buffers
  <2> HIDE DEF units
  <2>3. AtFptr(w, d) /\ d \in Volumes /\ d.fil \in OpenFils
    BY <2>2, DataWritten DEF AtFptr, InFile
  <2> HIDE DEF d
  <2>4. AtFptr(w, a)
    BY <2>3, AbortOnErrorStays, AtFptrTwice
  <2> HIDE DEF a
  <2>5. a \in Volumes /\ a.fil \in OpenFils /\ a.fil.fptr = w.fil.fptr
    BY <2>4 DEF AtFptr, InFile
  <2>6. Went(a, Advanced(a, SS), SS)
    BY <1>1, <2>5, AdvancedWent
  <2>7. a.fil.fptr + SS <= end
    BY <1>1, <1>3, <2>5
  <2>8. Upto(end, Advanced(a, SS)) /\ Upto(end, a)
    BY <1>1, <2>4, <2>5, <2>6, <2>7, WentUpto, AtFptrUpto
  <2> QED BY <2>1, <2>8
<1> QED BY <1>2, <1>3

LEMMA OnSectorUpto ==
  ASSUME NEW v \in Volumes, v.fil \in OpenFils, NEW n \in Nat, NEW x \in Units,
         NEW end \in Nat, v.fil.fptr + n = end
  PROVE  Upto(end, OnSector(v, n, x))
<1> DEFINE csect == (v.fil.fptr \div SS) % Csize
           c == IF csect = 0 THEN ToCluster(v) ELSE Result(v, "FR_OK")
           b == AbortOnError(FlushBuffer(c))
           w == IF Ok(c) THEN b ELSE c
           put == PutIn(w, Sector(w.fil.clust, csect), n, x)
           z == OnSector(v, n, x)
<1>1. z = IF Ok(w) THEN IF w.fil.clust \in Clusters THEN put ELSE Abort(w, "FR_INT_ERR")
          ELSE w
  BY DEF OnSector, Then, Ignoring, PutIn
<1> HIDE DEF z
<1>2. v.fil.fptr \in Nat /\ v.fil.fptr <= end
  BY DEF OpenFils
<1>3. csect \in 0 .. Csize - 1
  <2>1. v.fil.fptr \div SS \in Nat
    BY <1>2, Geometry, Remainder
  <2> QED BY <2>1, Geometry, Remainder
<1> HIDE DEF csect
<1>4. AtFptr(v, c)
  <2>1. AtFptr(v, Result(v, "FR_OK"))
    BY ResultLooks, LookedAtFptr, OkResult
  <2> QED BY <2>1, ToClusterStays
<1> HIDE DEF c
<1>5. AtFptr(v, b)
  <2>1. c \in Volumes /\ c.fil \in OpenFils
    BY <1>4 DEF AtFptr, InFile
  <2>2. AtFptr(c, FlushBuffer(c))
    BY <2>1, FlushBufferStays
  <2>3. FlushBuffer(c) \in Volumes /\ FlushBuffer(c).fil \in OpenFils
    BY <2>2 DEF AtFptr, InFile
  <2>4. AtFptr(FlushBuffer(c), b)
    BY <2>3, AbortOnErrorStays
  <2> HIDE DEF b
  <2> QED BY <1>4, <2>2, <2>4, AtFptrTwice
<1> HIDE DEF b
<1>6. AtFptr(v, w) /\ w \in Volumes /\ w.fil \in OpenFils
  BY <1>4, <1>5 DEF AtFptr, InFile
<1> HIDE DEF w
<1>7. Upto(end, w)
  BY <1>2, <1>6, AtFptrUpto
<1>8. Upto(end, Abort(w, "FR_INT_ERR"))
  BY <1>2, <1>6, AbortStays, AtFptrTwice, AtFptrUpto DEF Results
<1>9. w.fil.clust \in Clusters => Upto(end, put)
  <2> SUFFICES ASSUME w.fil.clust \in Clusters PROVE Upto(end, put)
    OBVIOUS
  <2>1. Sector(w.fil.clust, csect) \in Clst
    BY <1>3, ClstOf
  <2>2. w.fil.fptr + n = end
    BY <1>6 DEF AtFptr
  <2> QED BY <1>6, <2>1, <2>2, PutInUpto
<1> HIDE DEF put
<1>10. Upto(end, z)
  BY <1>1, <1>7, <1>8, <1>9
<1> QED BY <1>10 DEF z

LEMMA WriteRoundUpto ==
  ASSUME NEW end \in Nat, NEW v, Upto(end, v), NEW x \in Units
  PROVE  Upto(end, WriteRound(v, end, x))
<1> DEFINE ofs == v.fil.fptr % SS
           n == end - v.fil.fptr
           k == Smaller(n, SS - ofs)
<1>1. v \in Volumes /\ v.fil \in OpenFils /\ v.fil.fptr <= end /\ v.fil.fptr \in Nat
  BY DEF Upto, OpenFils
<1>2. n \in Nat /\ v.fil.fptr + n = end
  BY <1>1
<1>3. ofs \in 0 .. SS - 1
  BY <1>1, Geometry, Remainder
<1>4. WriteRound(v, end, x) = v \/ WriteRound(v, end, x) = OnSector(v, n, x)
      \/ WriteRound(v, end, x) = Buffered(v, k, x)
  BY DEF WriteRound
<1> HIDE DEF ofs, n
<1>5. k \in Nat /\ k <= n
  BY <1>2, <1>3, Geometry DEF Smaller
<1> HIDE DEF k
<1>6. Upto(end, OnSector(v, n, x))
  BY <1>1, <1>2, OnSectorUpto
<1>7. Went(v, Buffered(v, k, x), k) /\ v.fil.fptr + k <= end
  BY <1>1, <1>2, <1>5, BufferedWent
<1>8. Upto(end, Buffered(v, k, x))
  BY <1>1, <1>5, <1>7, WentUpto
<1> QED BY <1>4, <1>6, <1>8

LEMMA FWriteStays ==
  ASSUME NEW v \in Volumes, v.fil \in OpenFils, NEW n \in Nat, NEW x \in Units
  PROVE  FWrite(v, n, x) \in Volumes
<1> DEFINE end == v.fil.fptr + n
           S == {w \in Volumes : Upto(end, w)}
           g == [q \in S \X Nat |-> IF q[2] = 0 THEN q[1] ELSE WriteRound(q[1], end, x)]
           Body(f) == [k \in Nat |-> IF k = 0 THEN v ELSE WriteRound(f[k - 1], end, x)]
           after == CHOOSE f : f = Body(f)
           w == after[n]
           z == [w EXCEPT !.fil.modified = TRUE]
<1>1. FWrite(v, n, x) = IF v.fil.err # "FR_OK" THEN Result(v, v.fil.err)
                        ELSE IF w.res \in {"FR_OK", "full"} THEN Result(z, "FR_OK") ELSE w
  BY DEF FWrite, Rounds, After, Ignoring
<1>11. end \in Nat /\ v.fil.fptr <= end
  BY DEF OpenFils
<1>2. v \in S
  BY <1>11 DEF Upto
<1>3. \A q \in S, k \in Nat \ {0} : WriteRound(q, end, x) \in S
  BY <1>11, WriteRoundUpto DEF Upto
<1> HIDE DEF S, end
<1>4. RoundOn(S, g) /\ \A u \in S, k \in Nat \ {0} : g[<<u, k>>] = WriteRound(u, end, x)
  BY <1>3 DEF RoundOn
<1> HIDE DEF g
<1>5. PICK f : Iterates(f, S, v, g)
  BY <1>2, <1>4, Recursion
<1>6. f = Body(f)
  <2> USE DEF Iterates
  <2> SUFFICES ASSUME NEW k \in Nat PROVE f[k] = IF k = 0 THEN v ELSE WriteRound(f[k - 1], end, x)
    BY <1>5
  <2>1. CASE k # 0
    <3>1. k \in Nat \ {0} /\ k - 1 \in Nat /\ (k - 1) + 1 = k /\ f[k - 1] \in S
      BY <1>5, <2>1
    <3>2. f[(k - 1) + 1] = g[<<f[k - 1], (k - 1) + 1>>]
      BY <1>5, <3>1
    <3> QED BY <1>4, <2>1, <3>1, <3>2
  <2> QED BY <1>5, <2>1
<1>7. after = Body(after)
  BY <1>6
<1> HIDE DEF after
<1>8. after[0] \in S
  BY <1>2, <1>7
<1>9. \A k \in Nat : after[k] \in S => after[k + 1] \in S
  <2> SUFFICES ASSUME NEW k \in Nat, after[k] \in S PROVE after[k + 1] \in S
    OBVIOUS
  <2>1. after[k + 1] = WriteRound(after[k], end, x) /\ k + 1 \in Nat \ {0}
    BY <1>7
  <2> QED BY <1>3, <2>1
<1>10. after[n] \in S
  BY <1>8, <1>9, StaysIn
<1>12. w \in Volumes /\ w.fil \in OpenFils
  BY <1>10 DEF S, Upto
<1> HIDE DEF w
<1>13. z \in Volumes
  <2> DEFINE m == [w.fil EXCEPT !.modified = TRUE]
  <2>1. m \in OpenFils /\ m.path = w.fil.path /\ m.place = w.fil.place
    BY <1>12 DEF OpenFils
  <2>2. z = [w EXCEPT !.fil = m]
    BY <1>12, VolumeTyped DEF Typed, Fields
  <2> HIDE DEF m, z
  <2>3. InFile(w, [w EXCEPT !.fil = m])
    BY <1>12, <2>1, FilChanges
  <2> QED BY <2>2, <2>3 DEF InFile
<1> HIDE DEF z
<1>14. Result(z, "FR_OK") \in Volumes
  BY <1>13, ResultLooks, OkResult DEF Looked
<1>15. Result(v, v.fil.err) \in Volumes
  BY ResultLooks DEF Looked, OpenFils
<1> QED BY <1>1, <1>12, <1>14, <1>15

-----------------------------------------------------------------------------
(* f_sync and f_close.                                                       *)
LEMMA EntryPut ==
  ASSUME NEW v \in Volumes, AtEntry(v), NEW k \in 1 .. SS, NEW clust \in Nat, NEW size \in Nat
  PROVE  LET w == [v EXCEPT !.win.ents[k] = [@ EXCEPT !.clust = clust, !.size = size], !.wflag = TRUE]
         IN  Wrote(v, w)
<1> DEFINE e == [v.win.ents[k] EXCEPT !.clust = clust, !.size = size]
           ents == [v.win.ents EXCEPT ![k] = e]
           w == [v EXCEPT !.win.ents[k] = [@ EXCEPT !.clust = clust, !.size = size], !.wflag = TRUE]
<1>1. /\ v.win \in [fat : {<<>>}, ents : [1 .. SS -> Entries], data : Buffers]
      /\ v.win.ents \in [1 .. SS -> Entries]
  BY EntriesInWindow
<1>2. w = [v EXCEPT !.win.ents = ents, !.wflag = TRUE]
  BY <1>1, VolumeTyped DEF Typed, Fields
<1>3. e \in Entries
  <2>1. v.win.ents[k] \in Entries
    BY <1>1
  <2> DEFINE old == v.win.ents[k]
  <2>2. e = [old EXCEPT !.clust = clust, !.size = size] /\ old \in Entries
    BY <2>1
  <2> HIDE DEF e, old
  <2> QED BY <2>2 DEF Entries
<1> HIDE DEF e
<1>4. ents \in [1 .. SS -> Entries]
  BY <1>1, <1>3
<1> HIDE DEF ents, w
<1>5. Wrote(v, [v EXCEPT !.win.ents = ents, !.wflag = TRUE])
  BY <1>4, EntriesPut
<1> QED BY <1>2, <1>5 DEF w

LEMMA ModifiedPut ==
  ASSUME NEW v \in Volumes, v.fil \in OpenFils
  PROVE  InFile(v, [v EXCEPT !.fil.modified = FALSE])
<1> DEFINE f == [v.fil EXCEPT !.modified = FALSE]
<1>1. f \in OpenFils /\ f.path = v.fil.path /\ f.place = v.fil.place
  BY DEF OpenFils
<1>2. [v EXCEPT !.fil.modified = FALSE] = [v EXCEPT !.fil = f]
  BY VolumeTyped DEF Typed, Fields
<1> HIDE DEF f
<1>3. InFile(v, [v EXCEPT !.fil = f])
  BY <1>1, FilChanges
<1> QED BY <1>2, <1>3

LEMMA FSyncStays ==
  ASSUME NEW v \in Volumes, v.fil \in OpenFils
  PROVE  InFile(v, FSync(v))
<1> DEFINE b == FlushBuffer(v)
           m == MoveWindow(b, v.fil.dirSect)
           k == (v.fil.dirPtr % SS) + 1
           u == IF Ok(b) THEN m ELSE b
           x == [u EXCEPT !.win.ents[k] = [@ EXCEPT !.clust = u.fil.sclust, !.size = u.fil.objsize],
                          !.wflag = TRUE]
           s == SyncFs(x)
           z == [s EXCEPT !.fil.modified = FALSE]
<1>1. FSync(v) = IF ~ v.fil.modified THEN Result(v, "FR_OK") ELSE IF Ok(u) THEN z ELSE u
  BY DEF FSync, Then, Ignoring
<1>2. InFile(v, Result(v, "FR_OK"))
  BY ResultLooks, LookedInFile, OkResult
<1>3. AtFptr(v, b)
  BY FlushBufferStays
<1>4. InFile(v, b) /\ b \in Volumes /\ b.fil \in OpenFils
  BY <1>3 DEF AtFptr, InFile
<1> HIDE DEF b
<1>5. InFile(v, m) /\ (Ok(m) => AtEntry(m))
  <2>1. v.fil.dirSect \in Clst
    BY DEF OpenFils
  <2>2. v.fil.dirSect \in Sectors
    BY <2>1, KindsOfSectors
  <2>3. Looked(b, m) /\ (Ok(m) => m.winsect = v.fil.dirSect)
    BY <1>4, <2>2, MoveWindowLooks
  <2> HIDE DEF m
  <2> QED BY <1>4, <2>1, <2>3, LookedInFile, InFileTwice DEF AtEntry
<1> HIDE DEF m
<1>6. InFile(v, u) /\ (Ok(u) => AtEntry(u)) /\ u \in Volumes /\ u.fil \in OpenFils
  BY <1>4, <1>5 DEF InFile
<1> HIDE DEF u
<1>7. k \in 1 .. SS
  <2>1. v.fil.dirPtr \in Nat
    BY DEF OpenFils
  <2> QED BY <2>1, Geometry, Remainder, SMTT(30)
<1> HIDE DEF k
<1>8. Ok(u) => InFile(v, z)
  <2> SUFFICES ASSUME Ok(u) PROVE InFile(v, z)
    OBVIOUS
  <2>1. u.fil.sclust \in Nat /\ u.fil.objsize \in Nat
    BY <1>6 DEF OpenFils
  <2>2. Wrote(u, x)
    BY <1>6, <1>7, <2>1, EntryPut
  <2> HIDE DEF x
  <2>3. InFile(u, x) /\ x \in Volumes /\ x.fil \in OpenFils
    BY <1>6, <2>2, StayedAtFptr DEF Wrote, AtFptr, InFile
  <2>4. InFile(x, s) /\ s \in Volumes /\ s.fil \in OpenFils
    BY <2>3, SyncFsStays, StayedAtFptr DEF AtFptr, InFile
  <2> HIDE DEF s
  <2>5. InFile(s, z)
    BY <2>4, ModifiedPut
  <2> HIDE DEF z
  <2> QED BY <1>6, <2>3, <2>4, <2>5, InFileTwice
<1> QED BY <1>1, <1>2, <1>6, <1>8

LEMMA FCloseStays ==
  ASSUME NEW v \in Volumes, v.fil \in OpenFils
  PROVE  FClose(v) \in Volumes
<1> DEFINE w == FSync(v)
           t == IF Ok(w) THEN w.files \ {v.fil.place} ELSE w.files
<1>1. FClose(v) = [w EXCEPT !.files = t, !.fil = NoFil]
  BY DEF FClose, After
<1>2. w \in Volumes
  BY FSyncStays DEF InFile
<1> HIDE DEF w
<1>3. t \in Tables
  BY <1>2, VolumeTyped, TableShrinks DEF Typed
<1> HIDE DEF t
<1>4. [w EXCEPT !.files = t, !.fil = NoFil] \in Volumes
  BY <1>2, <1>3, FilForgotten
<1> QED BY <1>1, <1>4

-----------------------------------------------------------------------------
(* The calls that change the directories: each ends with sync_fs, and then   *)
(* the medium has what the window has.                                       *)
Ended(w) == w \in Volumes /\ (Ok(w) => Settled(w))

LEMMA SyncedEnds ==
  ASSUME NEW v \in Volumes, Ok(v) => Right(v)
  PROVE  LET w == IF Ok(v) THEN SyncFs(v) ELSE v IN Ended(w)
<1>1. SyncFs(v) \in Volumes /\ (Right(v) /\ Ok(SyncFs(v)) => Settled(SyncFs(v)))
  BY SyncFsStays
<1> QED BY <1>1 DEF Ended

LEMMA NotOkEnds ==
  ASSUME NEW v \in Volumes, ~ Ok(v)
  PROVE  Ended(v)
BY DEF Ended

LEMMA WroteEnds ==
  ASSUME NEW v, NEW w, Wrote(v, w)
  PROVE  Ended(SyncFs(w)) /\ Right(w) /\ w \in Volumes
<1>1. w \in Volumes /\ Right(w)
  BY DEF Wrote, Stayed, Walked, Right
<1>2. SyncFs(w) \in Volumes /\ (Right(w) /\ Ok(SyncFs(w)) => Settled(SyncFs(w)))
  BY <1>1, SyncFsStays
<1> QED BY <1>1, <1>2 DEF Ended

LEMMA EmptinessWalks ==
  ASSUME NEW v \in Volumes, Standing(v), AtEntry(v)
  PROVE  Stayed(v, Emptiness(v))
<1> DEFINE d == DirReadFirst(v, Here(v).clust)
           r == CASE d.res = "FR_OK" -> "FR_DENIED" [] d.res = "FR_NO_FILE" -> "FR_OK"
                  [] OTHER -> d.res
           x == [d EXCEPT !.dj = v.dj]
<1>1. Here(v).clust \in Nat
  BY HereTyped DEF Entries
<1>2. Walked(v, d) /\ d \in Volumes
  BY <1>1, DirReadFirstFinds DEF Walked
<1>3. Emptiness(v) = Result(x, r)
  BY <1>2, VolumeTyped DEF Emptiness, Result, Typed, Fields
<1> HIDE DEF d
<1>4. r \in Results
  BY <1>2, VolumeTyped DEF Typed, Results
<1> HIDE DEF r
<1>5. v.dj \in Dirs
  BY VolumeTyped DEF Typed
<1>6. Walked(d, x) /\ x.dj = v.dj /\ x \in Volumes
  BY <1>2, <1>5, DjWalks DEF Walked
<1> HIDE DEF x
<1>7. Stayed(x, Result(x, r))
  BY <1>4, <1>6, ResultLooks, LookedStays
<1>8. Walked(v, Result(x, r))
  BY <1>2, <1>6, <1>7, WalkedTwice DEF Stayed
<1> QED BY <1>3, <1>6, <1>7, <1>8 DEF Stayed

LEMMA FUnlinkEnds ==
  ASSUME NEW v \in Volumes, NEW p \in Seq(Names) \ {<<>>}
  PROVE  Ended(FUnlink(v, p))
<1> DEFINE found == FollowPath(v, p)
           w == IF Ok(found) THEN ShareToRemove(found) ELSE found
           dclst == Here(w).clust
           empty == IF Here(w).dir THEN Emptiness(w) ELSE w
           gone == IF Ok(empty) THEN DirRemove(empty) ELSE empty
           freed == IF Ok(gone) THEN IF dclst = 0 THEN gone ELSE RemoveChain(gone, dclst) ELSE gone
           z == IF Ok(freed) THEN SyncFs(freed) ELSE freed
<1>1. FUnlink(v, p) = IF Ok(w) THEN z ELSE w
  BY DEF FUnlink, Then
<1>2. found \in Volumes /\ AtFound(found)
  BY FollowPathFinds DEF Walked
<1> HIDE DEF found
<1>3. w \in Volumes /\ (Ok(w) => Standing(w) /\ AtEntry(w))
  <2>1. /\ ShareToRemove(found) \in Volumes
        /\ Ok(ShareToRemove(found)) => ShareToRemove(found) = found
    BY <1>2, ShareStays DEF Stayed, Walked
  <2> QED BY <1>2, <2>1 DEF AtFound
<1> HIDE DEF w
<1>4. CASE ~ Ok(w)
  BY <1>1, <1>3, <1>4, NotOkEnds
<1>5. CASE Ok(w)
  <2>1. empty \in Volumes /\ empty.dj = w.dj
    <3>1. Stayed(w, Emptiness(w))
      BY <1>3, <1>5, EmptinessWalks
    <3> QED BY <1>3, <3>1 DEF Stayed, Walked
  <2> HIDE DEF empty
  <2>2. gone \in Volumes /\ (Ok(gone) => Right(gone))
    <3>1. empty.dj.sect \in Clst /\ empty.dj.clust \in Clusters
      BY <1>3, <1>5, <2>1 DEF Standing
    <3>2. DirRemove(empty) \in Volumes /\ (Ok(DirRemove(empty)) => DirRemove(empty).wflag = TRUE)
      BY <2>1, <3>1, DirRemoveStays
    <3> QED BY <2>1, <3>2 DEF Right
  <2> HIDE DEF gone
  <2>3. freed \in Volumes /\ (Ok(freed) => Right(freed))
    <3>1. /\ RemoveChain(gone, dclst) \in Volumes
          /\ Right(gone) => Right(RemoveChain(gone, dclst))
      BY <2>2, RemoveChainChains DEF Chained
    <3> QED BY <2>2, <3>1
  <2> HIDE DEF freed
  <2>4. Ended(z)
    BY <2>3, SyncedEnds
  <2> QED BY <1>1, <1>5, <2>4
<1> QED BY <1>4, <1>5, Zenon

LEMMA FUtimeEnds ==
  ASSUME NEW v \in Volumes, NEW p \in Seq(Names) \ {<<>>}
  PROVE  Ended(FUtime(v, p))
<1> DEFINE found == FollowPath(v, p)
           x == [found EXCEPT !.wflag = TRUE]
<1>1. FUtime(v, p) = IF Ok(found) THEN SyncFs(x) ELSE found
  BY DEF FUtime, Then
<1>2. found \in Volumes
  BY FollowPathFinds DEF Walked
<1> HIDE DEF found
<1>3. Typed(found)
  BY <1>2, VolumeTyped
<1>4. /\ Typed(x) /\ x.wflag = TRUE /\ x.fil = found.fil /\ x.files = found.files
      /\ x.win = found.win /\ x.winsect = found.winsect
  BY <1>3 DEF Typed, Fields
<1> HIDE DEF x
<1>5. x \in Records
  BY <1>4, TypedRecords
<1>6. x \in Volumes /\ Right(x)
  BY <1>2, <1>4, <1>5 DEF Volumes, FilOpen, Right
<1>7. Ended(SyncFs(x))
  BY <1>6, SyncFsStays DEF Ended
<1> QED BY <1>1, <1>2, <1>7, NotOkEnds

LEMMA NewDirStays ==
  ASSUME NEW v \in Volumes, NEW dcl \in Clusters, NEW parent \in Nat
  PROVE  NewDir(v, dcl, parent) \in Volumes
<1> DEFINE c == DirClear(v, dcl)
           d == [c EXCEPT !.dj = v.dj]
           ents == [c.win.ents EXCEPT ![1] = Ent(".", TRUE, dcl, 0), ![2] = Ent("..", TRUE, parent, 0)]
           x == [d EXCEPT !.win.ents = ents, !.wflag = TRUE]
<1>1. c \in Volumes /\ (Ok(c) => c.winsect = Sector(dcl, 0))
  BY DirClearStays
<1>2. NewDir(v, dcl, parent) = IF Ok(c) THEN x ELSE c
  BY <1>1, VolumeTyped DEF NewDir, Then, Typed, Fields
<1> HIDE DEF c
<1>3. Ok(c) => x \in Volumes
  <2> SUFFICES ASSUME Ok(c) PROVE x \in Volumes
    OBVIOUS
  <2>1. 0 \in 0 .. Csize - 1 /\ dcl \in Nat
    BY Geometry DEF Clusters
  <2>2. AtEntry(c)
    BY <1>1, <2>1, ClstOf DEF AtEntry
  <2>3. c.win.ents \in [1 .. SS -> Entries]
    BY <1>1, <2>2, EntriesInWindow
  <2>4. Ent(".", TRUE, dcl, 0) \in Entries /\ Ent("..", TRUE, parent, 0) \in Entries
    BY <2>1, NewEntryTyped
  <2>5. ents \in [1 .. SS -> Entries]
    BY <2>3, <2>4
  <2> HIDE DEF ents
  <2>6. v.dj \in Dirs
    BY VolumeTyped DEF Typed
  <2>7. d \in Volumes /\ d.winsect = c.winsect
    BY <1>1, <2>6, DjWalks DEF Walked
  <2> HIDE DEF d
  <2>8. Wrote(d, x)
    BY <2>2, <2>5, <2>7, EntriesPut DEF AtEntry
  <2> HIDE DEF x
  <2> QED BY <2>8 DEF Wrote, Stayed, Walked
<1> QED BY <1>1, <1>2, <1>3

LEMMA FMkdirEnds ==
  ASSUME NEW v \in Volumes, NEW p \in Seq(Names) \ {<<>>}
  PROVE  Ended(FMkdir(v, p))
<1> DEFINE found == FollowPath(v, p)
           new == NewChain(found)
           dcl == new.val
           ch == IF new.val = 0 THEN Result(new, "FR_DENIED") ELSE Checked(new)
           nd == IF Ok(ch) THEN NewDir(ch, dcl, ch.dj.sclust) ELSE ch
           shown == IF Ok(nd) THEN DirRegister(nd, Last(p)) ELSE nd
           put == SetHere(shown, Ent(Last(p), TRUE, dcl, 0))
           end == IF Ok(shown) THEN SyncFs(put) ELSE GivenBack(shown, dcl)
           w == FMkdir(v, p)
<1>1. w = CASE Ok(found)                -> Result(found, "FR_EXIST")
            [] found.res = "FR_NO_FILE" -> end
            [] found.res \notin {"FR_OK", "FR_NO_FILE"} -> found
  BY DEF FMkdir, Then, After
<1> HIDE DEF w
<1>2. found \in Volumes
  BY FollowPathFinds DEF Walked
<1> HIDE DEF found
<1>3. new \in Volumes /\ dcl \in ClusterValues
  BY <1>2, NewChainChains DEF Chained
<1>4. dcl \in Nat
  BY <1>3, VolumeTyped DEF Typed
<1> HIDE DEF new
<1>5. ch \in Volumes /\ (Ok(ch) => dcl \in Clusters)
  <2>1. Result(new, "FR_DENIED") \in Volumes /\ ~ Ok(Result(new, "FR_DENIED"))
    BY <1>3, OtherResult DEF Results
  <2>2. Checked(new) \in Volumes /\ (Ok(Checked(new)) => new.val \notin {1, DiskError})
    BY <1>3, CheckedLooks DEF Looked
  <2> QED BY <1>3, <2>1, <2>2 DEF ClusterValues
<1> HIDE DEF ch, dcl
<1>6. nd \in Volumes
  <2>1. ch.dj.sclust \in Nat
    BY <1>5, VolumeTyped DEF Typed, Dirs
  <2> QED BY <1>5, <2>1, NewDirStays
<1> HIDE DEF nd
<1>7. Last(p) \in Names
  BY LastOfPath
<1>8. shown \in Volumes /\ (Ok(shown) => AtEntry(shown))
  BY <1>6, <1>7, DirRegisterFinds DEF Walked, AtFound
<1> HIDE DEF shown
<1>9. Ended(end)
  <2>1. CASE Ok(shown)
    <3>1. Ent(Last(p), TRUE, dcl, 0) \in Entries
      BY <1>4, <1>7, NewEntryTyped
    <3>2. Wrote(shown, put)
      BY <1>8, <2>1, <3>1, SetHereWrites
    <3> HIDE DEF put
    <3> QED BY <2>1, <3>2, WroteEnds
  <2>2. CASE ~ Ok(shown)
    <3> DEFINE r == RemoveChain(shown, dcl)
    <3>1. r \in Volumes
      BY <1>8, RemoveChainChains DEF Chained
    <3>2. shown.res \in Results /\ shown.res # "FR_OK"
      BY <1>8, <2>2, VolumeTyped DEF Typed, Ok
    <3>3. end = Result(r, shown.res)
      BY <2>2 DEF GivenBack
    <3> HIDE DEF r, end
    <3> QED BY <3>1, <3>2, <3>3, OtherResult, NotOkEnds
  <2> QED BY <2>1, <2>2
<1> HIDE DEF end
<1>10. Ended(Result(found, "FR_EXIST"))
  BY <1>2, OtherResult, NotOkEnds DEF Results
<1>11. Ended(w)
  <2>1. CASE Ok(found)
    BY <1>1, <1>10, <2>1 DEF Ok
  <2>2. CASE found.res = "FR_NO_FILE"
    BY <1>1, <1>9, <2>2 DEF Ok
  <2>3. CASE found.res \notin {"FR_OK", "FR_NO_FILE"}
    <3>1. ~ Ok(found) /\ w = found
      BY <1>1, <2>3 DEF Ok
    <3> QED BY <1>2, <3>1, NotOkEnds
  <2> QED BY <2>1, <2>2, <2>3 DEF Ok
<1> QED BY <1>11 DEF w

LEMMA ReparentedStays ==
  ASSUME NEW v \in Volumes, NEW e \in Entries, NEW from
  PROVE  Stayed(v, Reparented(v, e, from))
<1> DEFINE m == MoveWindow(v, Sector(e.clust, 0))
           ents == [m.win.ents EXCEPT ![2] = [@ EXCEPT !.clust = m.dj.sclust]]
           x == [m EXCEPT !.win.ents = ents, !.wflag = TRUE]
           r == Result(v, "FR_INT_ERR")
           w == Reparented(v, e, from)
<1>1. w = IF ~ e.dir \/ v.dj.sclust = from.sclust THEN v
          ELSE IF e.clust \notin Clusters THEN r
          ELSE IF Ok(m) THEN IF m.win.ents[2].name # ".." THEN m ELSE x
          ELSE m
  BY DEF Reparented, Then
<1> HIDE DEF w
<1>2. Stayed(v, v) /\ Stayed(v, r)
  BY LookedOnce, ResultLooks, LookedStays DEF Results
<1> HIDE DEF r
<1>3. e.clust \in Clusters => Stayed(v, m) /\ (Ok(m) => Stayed(v, x))
  <2> SUFFICES ASSUME e.clust \in Clusters
               PROVE  Stayed(v, m) /\ (Ok(m) => Stayed(v, x))
    OBVIOUS
  <2>1. Sector(e.clust, 0) \in Clst /\ Sector(e.clust, 0) \in Sectors
    BY Geometry, ClstOf, KindsOfSectors
  <2>2. Looked(v, m) /\ (Ok(m) => m.winsect = Sector(e.clust, 0))
    BY <2>1, MoveWindowLooks
  <2>3. Stayed(v, m) /\ m \in Volumes
    BY <2>2, LookedStays DEF Looked
  <2> HIDE DEF m
  <2>4. Ok(m) => Stayed(v, x)
    <3> SUFFICES ASSUME Ok(m) PROVE Stayed(v, x)
      OBVIOUS
    <3>1. AtEntry(m)
      BY <2>1, <2>2 DEF AtEntry
    <3>2. m.win.ents \in [1 .. SS -> Entries] /\ m.dj.sclust \in Nat
      BY <2>3, <3>1, EntriesInWindow, VolumeTyped DEF Typed, Dirs
    <3>3. ents \in [1 .. SS -> Entries]
      <4>1. CASE 2 \in 1 .. SS
        <5>1. [m.win.ents[2] EXCEPT !.clust = m.dj.sclust] \in Entries
          BY <3>2, <4>1 DEF Entries
        <5> QED BY <3>2, <5>1
      <4>2. CASE 2 \notin 1 .. SS
        BY <3>2, <4>2
      <4> QED BY <4>1, <4>2
    <3> HIDE DEF ents
    <3>4. Wrote(m, x)
      BY <2>3, <3>1, <3>3, EntriesPut
    <3> HIDE DEF x
    <3> QED BY <2>3, <3>4, StayedTwice DEF Wrote
  <2> QED BY <2>3, <2>4
<1> HIDE DEF m, x
<1>4. Stayed(v, w)
  BY <1>1, <1>2, <1>3
<1> QED BY <1>4 DEF w

LEMMA FRenameEnds ==
  ASSUME NEW v \in Volumes, NEW old \in Seq(Names) \ {<<>>}, NEW new \in Seq(Names) \ {<<>>}
  PROVE  Ended(FRename(v, old, new))
<1> DEFINE found == FollowPath(v, old)
           w == IF Ok(found) THEN ShareToRemove(found) ELSE found
           e == Here(w)
           djo == w.dj
           there == FollowPath(w, new)
           free == CASE Ok(there) /\ Place(there) = Place(w) -> there
                     [] Ok(there) /\ Place(there) # Place(w) -> Result(there, "FR_EXIST")
                     [] there.res = "FR_NO_FILE"             -> Result(there, "FR_OK")
                     [] there.res \notin {"FR_OK", "FR_NO_FILE"} -> there
           made == IF Ok(free) THEN DirRegister(free, Last(new)) ELSE free
           put == SetHere(made, [e EXCEPT !.name = Last(new)])
           both == IF Ok(made) THEN Reparented(put, e, djo) ELSE made
           back == [both EXCEPT !.dj = djo]
           one == IF Ok(both) THEN DirRemove(back) ELSE both
           z == IF Ok(one) THEN SyncFs(one) ELSE one
<1>1. FRename(v, old, new) = IF Ok(w) THEN z ELSE w
  BY DEF FRename, Then, After, Ignoring
<1>2. found \in Volumes /\ AtFound(found)
  BY FollowPathFinds DEF Walked
<1> HIDE DEF found
<1>3. w \in Volumes /\ (Ok(w) => Standing(w) /\ AtEntry(w))
  <2>1. /\ ShareToRemove(found) \in Volumes
        /\ Ok(ShareToRemove(found)) => ShareToRemove(found) = found
    BY <1>2, ShareStays DEF Stayed, Walked
  <2> QED BY <1>2, <2>1 DEF AtFound
<1> HIDE DEF w
<1>4. CASE ~ Ok(w)
  BY <1>1, <1>3, <1>4, NotOkEnds
<1>5. CASE Ok(w)
  <2>1. e \in Entries /\ djo \in Dirs /\ djo.sect \in Clst /\ djo.clust \in Clusters
    BY <1>3, <1>5, HereTyped, VolumeTyped DEF Standing, Typed
  <2> HIDE DEF e, djo
  <2>2. there \in Volumes
    BY <1>3, FollowPathFinds DEF Walked
  <2> HIDE DEF there
  <2>3. free \in Volumes
    <3>1. Result(there, "FR_EXIST") \in Volumes /\ Result(there, "FR_OK") \in Volumes
      BY <2>2, ResultLooks DEF Looked, Results
    <3> QED BY <2>2, <3>1 DEF Ok
  <2> HIDE DEF free
  <2>4. Last(new) \in Names
    BY LastOfPath
  <2>5. made \in Volumes /\ (Ok(made) => AtEntry(made))
    BY <2>3, <2>4, DirRegisterFinds DEF Walked, AtFound
  <2> HIDE DEF made
  <2>6. both \in Volumes
    <3>1. CASE Ok(made)
      <4>1. [e EXCEPT !.name = Last(new)] \in Entries
        BY <2>1, <2>4 DEF Entries
      <4>2. Wrote(made, put)
        BY <2>5, <3>1, <4>1, SetHereWrites
      <4>3. put \in Volumes
        BY <4>2 DEF Wrote, Stayed, Walked
      <4> HIDE DEF put
      <4>4. Reparented(put, e, djo) \in Volumes
        BY <2>1, <4>3, ReparentedStays DEF Stayed, Walked
      <4> QED BY <3>1, <4>4
    <3>2. CASE ~ Ok(made)
      BY <2>5, <3>2
    <3> QED BY <3>1, <3>2
  <2> HIDE DEF both
  <2>7. back \in Volumes /\ back.dj = djo
    BY <2>1, <2>6, DjWalks DEF Walked
  <2> HIDE DEF back
  <2>8. one \in Volumes /\ (Ok(one) => Right(one))
    <3>1. DirRemove(back) \in Volumes /\ (Ok(DirRemove(back)) => DirRemove(back).wflag = TRUE)
      BY <2>1, <2>7, DirRemoveStays
    <3> QED BY <2>6, <3>1 DEF Right
  <2> HIDE DEF one
  <2>9. Ended(z)
    BY <2>8, SyncedEnds
  <2> QED BY <1>1, <1>5, <2>9
<1> QED BY <1>4, <1>5, Zenon

-----------------------------------------------------------------------------
(* f_open to read, and f_read.                                               *)
LEMMA TextPut ==
  ASSUME NEW v \in Volumes, NEW s \in Seq(Units)
  PROVE  [v EXCEPT !.text = s] \in Volumes
<1> DEFINE w == [v EXCEPT !.text = s]
<1>1. Typed(v)
  BY VolumeTyped
<1>2. /\ Typed(w) /\ w.fil = v.fil /\ w.files = v.files /\ w.winsect = v.winsect /\ w.win = v.win
  BY <1>1 DEF Typed, Fields
<1> HIDE DEF w
<1>3. w \in Records
  BY <1>2, TypedRecords
<1>4. w \in Volumes
  BY <1>2, <1>3 DEF Volumes, FilOpen
<1> QED BY <1>4 DEF w

LEMMA FirstUnits ==
  ASSUME NEW buf \in Buffers, NEW m \in Int, m <= SS
  PROVE  SubSeq(buf, 1, m) \in Seq(Units)
<1>1. SS \in Nat
  BY Geometry
<1>2. buf \in Seq(Units) /\ Len(buf) = SS
  BY <1>1 DEF Buffers
<1>3. CASE m >= 0
  BY <1>1, <1>2, <1>3, SubSeqProperties
<1>4. CASE m < 0
  <2>1. 1 .. m = {}
    BY <1>4
  <2> QED BY <1>2, <1>4, <2>1, EmptySeq
<1> QED BY <1>3, <1>4

LEMMA ReadRoundStays ==
  ASSUME NEW v \in Volumes, NEW k \in Nat \ {0}, NEW size \in Nat
  PROVE  ReadRound(v, k, size) \in Volumes
<1> DEFINE csect == (k - 1) % Csize
           m == Smaller(SS, size - (k - 1) * SS)
           u == IF k > 1 /\ csect = 0 THEN Checked(GetFat(v, v.val)) ELSE v
           a == IF u.val \in Clusters THEN Access(u) ELSE Result(u, "FR_INT_ERR")
           got == SubSeq(a.disk[Sector(a.val, csect)].data, 1, m)
           b == [a EXCEPT !.text = a.text \o got]
<1>1. ReadRound(v, k, size)
      = IF Ok(v) THEN IF Ok(u) THEN IF Ok(a) THEN b ELSE a ELSE u ELSE v
  BY DEF ReadRound, Then
<1>2. u \in Volumes
  BY GetFatLooks, CheckedLooks DEF Looked
<1> HIDE DEF u
<1>3. a \in Volumes /\ (Ok(a) => a.val \in Clusters)
  <2>1. Access(u) \in Volumes /\ Access(u).val = u.val
    BY <1>2, AccessLooks DEF Looked
  <2>2. Result(u, "FR_INT_ERR") \in Volumes /\ ~ Ok(Result(u, "FR_INT_ERR"))
    BY <1>2, OtherResult DEF Results
  <2> QED BY <2>1, <2>2
<1> HIDE DEF a
<1>4. Ok(a) => b \in Volumes
  <2> SUFFICES ASSUME Ok(a) PROVE b \in Volumes
    OBVIOUS
  <2>1. csect \in 0 .. Csize - 1
    BY Geometry, Remainder
  <2> HIDE DEF csect
  <2>2. Sector(a.val, csect) \in Clst
    BY <1>3, <2>1, ClstOf
  <2>3. a.disk[Sector(a.val, csect)].data \in Buffers
    BY <1>3, <2>2, VolumeTyped, DataIn DEF Typed
  <2>4. m \in Int /\ m <= SS
    BY Geometry DEF Smaller
  <2> HIDE DEF m
  <2>5. got \in Seq(Units)
    BY <2>3, <2>4, FirstUnits
  <2> HIDE DEF got
  <2>6. a.text \o got \in Seq(Units)
    BY <1>3, <2>5, VolumeTyped, ConcatProperties DEF Typed
  <2> QED BY <1>3, <2>6, TextPut
<1> HIDE DEF b
<1> QED BY <1>1, <1>2, <1>3, <1>4

LEMMA ReadFromStays ==
  ASSUME NEW v \in Volumes, NEW c \in Nat, NEW size \in Nat
  PROVE  ReadFrom(v, c, size) \in Volumes
<1> DEFINE S == Volumes
           x == Value(v, c)
           n == (size + SS - 1) \div SS
           g == [q \in S \X Nat |-> IF q[2] = 0 THEN q[1] ELSE ReadRound(q[1], q[2], size)]
           Body(f) == [k \in Nat |-> IF k = 0 THEN x ELSE ReadRound(f[k - 1], k, size)]
           after == CHOOSE f : f = Body(f)
<1>1. ReadFrom(v, c, size) = after[n]
  BY DEF ReadFrom, Rounds
<1>2. x \in S
  BY ValueLooks DEF Looked
<1>3. \A u \in S, k \in Nat \ {0} : ReadRound(u, k, size) \in S
  BY ReadRoundStays
<1>11. n \in Nat
  <2>1. size + SS - 1 \in Nat
    BY Geometry
  <2> QED BY <2>1, Geometry, Remainder
<1> HIDE DEF x, S, n
<1>4. RoundOn(S, g) /\ \A u \in S, k \in Nat \ {0} : g[<<u, k>>] = ReadRound(u, k, size)
  BY <1>3 DEF RoundOn
<1> HIDE DEF g
<1>5. PICK f : Iterates(f, S, x, g)
  BY <1>2, <1>4, Recursion
<1>6. f = Body(f)
  <2> USE DEF Iterates
  <2> SUFFICES ASSUME NEW k \in Nat PROVE f[k] = IF k = 0 THEN x ELSE ReadRound(f[k - 1], k, size)
    BY <1>5
  <2>1. CASE k # 0
    <3>1. k \in Nat \ {0} /\ k - 1 \in Nat /\ (k - 1) + 1 = k /\ f[k - 1] \in S
      BY <1>5, <2>1
    <3>2. f[(k - 1) + 1] = g[<<f[k - 1], (k - 1) + 1>>]
      BY <1>5, <3>1
    <3> QED BY <1>4, <2>1, <3>1, <3>2
  <2> QED BY <1>5, <2>1
<1>7. after = Body(after)
  BY <1>6
<1> HIDE DEF after
<1>8. after[0] \in S
  BY <1>2, <1>7
<1>9. \A k \in Nat : after[k] \in S => after[k + 1] \in S
  <2> SUFFICES ASSUME NEW k \in Nat, after[k] \in S PROVE after[k + 1] \in S
    OBVIOUS
  <2>1. after[k + 1] = ReadRound(after[k], k + 1, size) /\ k + 1 \in Nat \ {0}
    BY <1>7
  <2> QED BY <1>3, <2>1
<1>10. after[n] \in S
  BY <1>8, <1>9, <1>11, StaysIn
<1> QED BY <1>1, <1>10 DEF S

LEMMA FReadStays ==
  ASSUME NEW v \in Volumes, NEW p \in Seq(Names) \ {<<>>}
  PROVE  FRead(v, p) \in Volumes
<1> DEFINE found == FollowPath(v, p)
           w == IF Ok(found) THEN ShareToOpen(found) ELSE found
           e == Here(w)
<1>1. FRead(v, p) = IF Ok(w) THEN IF e.dir THEN Result(w, "FR_NO_FILE") ELSE IF e.size = 0 THEN w
                                  ELSE ReadFrom(w, e.clust, e.size)
                    ELSE w
  BY DEF FRead, Then
<1>2. found \in Volumes /\ AtFound(found)
  BY FollowPathFinds DEF Walked
<1> HIDE DEF found
<1>3. w \in Volumes /\ (Ok(w) => AtEntry(w))
  <2>1. ShareToOpen(found) \in Volumes /\ (Ok(ShareToOpen(found)) => ShareToOpen(found) = found)
    BY <1>2, ShareStays DEF Stayed, Walked
  <2> QED BY <1>2, <2>1 DEF AtFound
<1> HIDE DEF w
<1>4. Result(w, "FR_NO_FILE") \in Volumes
  BY <1>3, ResultLooks DEF Looked, Results
<1>5. Ok(w) => ReadFrom(w, e.clust, e.size) \in Volumes
  <2> SUFFICES ASSUME Ok(w) PROVE ReadFrom(w, e.clust, e.size) \in Volumes
    OBVIOUS
  <2>1. e.clust \in Nat /\ e.size \in Nat
    BY <1>3, HereTyped DEF Entries
  <2> QED BY <1>3, <2>1, ReadFromStays
<1> QED BY <1>1, <1>3, <1>4, <1>5

-----------------------------------------------------------------------------
(* What is read from a medium does not depend on FSInfo.                     *)
Alike(m1, m2) == \A s \in Sectors \ {Info} : m1[s] = m2[s]

Chains == Seq(Clusters) \ {<<>>}

LEMMA LastOfChain ==
  ASSUME NEW chain \in Chains
  PROVE  Last(chain) \in Clusters
<1>1. Len(chain) \in Nat /\ Len(chain) # 0
  BY EmptySeq DEF Chains
<1> QED BY <1>1 DEF Chains, Last

LEMMA LongerChains ==
  ASSUME NEW m, NEW chain \in Chains
  PROVE  Longer(m, chain) \in Chains
<1> DEFINE d == Link(m, Last(chain))
<1>1. CASE d \in Clusters
  <2>1. Append(chain, d) \in Seq(Clusters) /\ Len(Append(chain, d)) = Len(chain) + 1
    BY <1>1, AppendProperties DEF Chains
  <2>2. Len(chain) \in Nat
    BY DEF Chains
  <2>3. Append(chain, d) # <<>>
    BY <2>1, <2>2
  <2> QED BY <1>1, <2>1, <2>3 DEF Longer, Chains
<1>2. CASE d \notin Clusters
  BY <1>2 DEF Longer
<1> QED BY <1>1, <1>2

LEMMA ChainRounds ==
  ASSUME NEW m, NEW c \in Clusters
  PROVE  \E f : /\ f[0] = <<c>> /\ Chain(m, c) = f[NFatEnt - 1]
                /\ \A k \in Nat : f[k] \in Chains /\ f[k + 1] = Longer(m, f[k])
<1> DEFINE S == Chains
           x == <<c>>
           g == [q \in S \X Nat |-> IF q[2] = 0 THEN q[1] ELSE Longer(m, q[1])]
           Body(f) == [k \in Nat |-> IF k = 0 THEN x ELSE Longer(m, f[k - 1])]
           after == CHOOSE f : f = Body(f)
<1>1. Chain(m, c) = after[NFatEnt - 1]
  BY DEF Chain, Rounds
<1>2. x \in S
  BY DEF Chains
<1>3. \A u \in S, k \in Nat \ {0} : Longer(m, u) \in S
  BY LongerChains
<1> HIDE DEF x, S
<1>4. RoundOn(S, g) /\ \A u \in S, k \in Nat \ {0} : g[<<u, k>>] = Longer(m, u)
  BY <1>3 DEF RoundOn
<1> HIDE DEF g
<1>5. PICK f : Iterates(f, S, x, g)
  BY <1>2, <1>4, Recursion
<1>6. f = Body(f)
  <2> USE DEF Iterates
  <2> SUFFICES ASSUME NEW k \in Nat PROVE f[k] = IF k = 0 THEN x ELSE Longer(m, f[k - 1])
    BY <1>5
  <2>1. CASE k # 0
    <3>1. k \in Nat \ {0} /\ k - 1 \in Nat /\ (k - 1) + 1 = k /\ f[k - 1] \in S
      BY <1>5, <2>1
    <3>2. f[(k - 1) + 1] = g[<<f[k - 1], (k - 1) + 1>>]
      BY <1>5, <3>1
    <3> QED BY <1>4, <2>1, <3>1, <3>2
  <2> QED BY <1>5, <2>1
<1>7. after = Body(after)
  BY <1>6
<1> HIDE DEF after
<1>8. after[0] \in S
  BY <1>2, <1>7
<1>9. \A k \in Nat : after[k] \in S => after[k + 1] \in S
  <2> SUFFICES ASSUME NEW k \in Nat, after[k] \in S PROVE after[k + 1] \in S
    OBVIOUS
  <2>1. after[k + 1] = Longer(m, after[k]) /\ k + 1 \in Nat \ {0}
    BY <1>7
  <2> QED BY <1>3, <2>1
<1>11. after[0] = x /\ \A k \in Nat : after[k] \in S /\ after[k + 1] = Longer(m, after[k])
  <2>1. after[0] = x
    BY <1>7
  <2>2. ASSUME NEW k \in Nat PROVE after[k + 1] = Longer(m, after[k])
    BY <1>7
  <2>3. \A k \in Nat : after[k] \in S
    BY <1>8, <1>9, StaysIn
  <2> QED BY <2>1, <2>2, <2>3
<1> QED BY <1>1, <1>11 DEF S, x

LEMMA LinksAlike ==
  ASSUME NEW m1, NEW m2, Alike(m1, m2), NEW c \in Clusters
  PROVE  Link(m1, c) = Link(m2, c)
BY KindsOfSectors DEF Alike, Link

LEMMA ChainsAlike ==
  ASSUME NEW m1, NEW m2, Alike(m1, m2), NEW c
  PROVE  Chain(m1, c) = Chain(m2, c) /\ Chain(m1, c) \in Seq(Clusters)
<1>1. CASE c \in Clusters
  <2>1. PICK f1 : /\ f1[0] = <<c>> /\ Chain(m1, c) = f1[NFatEnt - 1]
                  /\ \A k \in Nat : f1[k] \in Chains /\ f1[k + 1] = Longer(m1, f1[k])
    BY <1>1, ChainRounds
  <2>2. PICK f2 : /\ f2[0] = <<c>> /\ Chain(m2, c) = f2[NFatEnt - 1]
                  /\ \A k \in Nat : f2[k] \in Chains /\ f2[k + 1] = Longer(m2, f2[k])
    BY <1>1, ChainRounds
  <2> DEFINE h == [k \in Nat |-> <<f1[k], f2[k]>>]
             S == {q \in Chains \X Chains : q[1] = q[2]}
  <2>3. h[0] \in S
    BY <2>1, <2>2
  <2>4. \A k \in Nat : h[k] \in S => h[k + 1] \in S
    <3> SUFFICES ASSUME NEW k \in Nat, h[k] \in S PROVE h[k + 1] \in S
      OBVIOUS
    <3>1. f1[k] = f2[k] /\ f1[k] \in Chains
      BY <2>1
    <3>2. Longer(m1, f1[k]) = Longer(m2, f1[k])
      BY <3>1, LastOfChain, LinksAlike DEF Longer
    <3>3. f1[k + 1] = f2[k + 1] /\ k + 1 \in Nat
      BY <2>1, <2>2, <3>1, <3>2
    <3> QED BY <2>1, <2>2, <3>3
  <2>5. NFatEnt - 1 \in Nat
    BY Geometry
  <2> HIDE DEF S
  <2>6. h[NFatEnt - 1] \in S
    BY <2>3, <2>4, <2>5, StaysIn
  <2>7. f1[NFatEnt - 1] = f2[NFatEnt - 1]
    BY <2>5, <2>6 DEF S
  <2> QED BY <2>1, <2>2, <2>5, <2>7 DEF Chains
<1>2. CASE c \notin Clusters
  BY <1>2 DEF Chain
<1> QED BY <1>1, <1>2

LEMMA PartsAlike ==
  ASSUME NEW m1, NEW m2, Alike(m1, m2), NEW c,
         NEW i \in 1 .. Len(Chain(m1, c)) * Csize
  PROVE  LET s == Sector(Chain(m1, c)[((i - 1) \div Csize) + 1], (i - 1) % Csize)
         IN  m1[s] = m2[s]
<1> DEFINE chain == Chain(m1, c)
           q == (i - 1) \div Csize
           r == (i - 1) % Csize
<1>1. chain \in Seq(Clusters)
  BY ChainsAlike
<1> HIDE DEF chain
<1>2. Len(chain) \in Nat /\ i \in 1 .. Len(chain) * Csize
  BY <1>1 DEF chain
<1>3. Csize \in Nat \ {0} /\ i - 1 \in Nat
  BY <1>2, Geometry
<1>4. r \in 0 .. Csize - 1 /\ q \in Nat /\ i - 1 = Csize * q + r
  BY <1>3, Remainder
<1> HIDE DEF q, r
<1>5. q < Len(chain)
  <2> SUFFICES ASSUME q >= Len(chain) PROVE FALSE
    BY <1>2, <1>4
  <2>1. Csize * q >= Len(chain) * Csize
    BY <1>2, <1>3, <1>4
  <2> QED BY <1>2, <1>3, <1>4, <2>1
<1>6. chain[q + 1] \in Clusters
  BY <1>1, <1>2, <1>4, <1>5
<1>7. Sector(chain[q + 1], r) \in Sectors \ {Info}
  BY <1>4, <1>6, ClstOf, KindsOfSectors
<1>8. m1[Sector(chain[q + 1], r)] = m2[Sector(chain[q + 1], r)]
  BY <1>7 DEF Alike
<1> QED BY <1>8 DEF chain, q, r

LEMMA ContentsAlike ==
  ASSUME NEW m1, NEW m2, Alike(m1, m2), NEW c
  PROVE  /\ AllRows(m1, c) = AllRows(m2, c)
         /\ Contents(m1, c, LAMBDA s : s.data) = Contents(m2, c, LAMBDA s : s.data)
<1> DEFINE chain == Chain(m1, c)
           At(i) == Sector(chain[((i - 1) \div Csize) + 1], (i - 1) % Csize)
           n == Len(chain) * Csize
<1>1. Chain(m2, c) = chain
  BY ChainsAlike
<1>2. \A i \in 1 .. n : m1[At(i)] = m2[At(i)]
  BY PartsAlike
<1>3. /\ AllRows(m1, c) = FlattenSeq([i \in 1 .. n |-> m1[At(i)].ents])
      /\ AllRows(m2, c) = FlattenSeq([i \in 1 .. n |-> m2[At(i)].ents])
  BY <1>1 DEF AllRows, Contents, After
<1>4. /\ Contents(m1, c, LAMBDA s : s.data) = FlattenSeq([i \in 1 .. n |-> m1[At(i)].data])
      /\ Contents(m2, c, LAMBDA s : s.data) = FlattenSeq([i \in 1 .. n |-> m2[At(i)].data])
  BY <1>1 DEF Contents, After
<1> HIDE DEF n, At
<1>5. [i \in 1 .. n |-> m1[At(i)].ents] = [i \in 1 .. n |-> m2[At(i)].ents]
  BY <1>2
<1>6. [i \in 1 .. n |-> m1[At(i)].data] = [i \in 1 .. n |-> m2[At(i)].data]
  BY <1>2
<1> QED BY <1>3, <1>4, <1>5, <1>6

LEMMA RowsAlike ==
  ASSUME NEW m1, NEW m2, Alike(m1, m2), NEW c
  PROVE  Rows(m1, c) = Rows(m2, c)
<1>1. AllRows(m1, c) = AllRows(m2, c)
  BY ContentsAlike
<1> QED BY <1>1 DEF Rows, After

LEMMA DataAlike ==
  ASSUME NEW m1, NEW m2, Alike(m1, m2), NEW e
  PROVE  DataOf(m1, e) = DataOf(m2, e)
<1>1. Contents(m1, e.clust, LAMBDA s : s.data) = Contents(m2, e.clust, LAMBDA s : s.data)
  BY ContentsAlike
<1> QED BY <1>1 DEF DataOf, After

LEMMA ObjectsInAlike ==
  ASSUME NEW m1, NEW m2, Alike(m1, m2), NEW p, NEW c
  PROVE  ObjectsIn(m1, p, c) = ObjectsIn(m2, p, c)
<1>1. Rows(m1, IF c = 0 THEN DirBase ELSE c) = Rows(m2, IF c = 0 THEN DirBase ELSE c)
  BY RowsAlike
<1> QED BY <1>1 DEF ObjectsIn, After

LEMMA ObjectsAlike ==
  ASSUME NEW m1, NEW m2, Alike(m1, m2)
  PROVE  Objects(m1) = Objects(m2)
<1> DEFINE Below1(objects) ==
             UNION {ObjectsIn(m1, o.path, o.ent.clust) : o \in {q \in objects : q.ent.dir}}
           Below2(objects) ==
             UNION {ObjectsIn(m2, o.path, o.ent.clust) : o \in {q \in objects : q.ent.dir}}
           Body1(f) ==
             [n \in 1 .. MaxDepth |->
                IF n = 1 THEN [objects |-> ObjectsIn(m1, <<>>, 0), last |-> ObjectsIn(m1, <<>>, 0)]
                ELSE [objects |-> f[n - 1].objects \cup Below1(f[n - 1].last),
                      last |-> Below1(f[n - 1].last)]]
           Body2(f) ==
             [n \in 1 .. MaxDepth |->
                IF n = 1 THEN [objects |-> ObjectsIn(m2, <<>>, 0), last |-> ObjectsIn(m2, <<>>, 0)]
                ELSE [objects |-> f[n - 1].objects \cup Below2(f[n - 1].last),
                      last |-> Below2(f[n - 1].last)]]
<1>1. Objects(m1) = (CHOOSE f : f = Body1(f))[MaxDepth].objects
  BY DEF Objects, After
<1>2. Objects(m2) = (CHOOSE f : f = Body2(f))[MaxDepth].objects
  BY DEF Objects, After
<1>3. \A objects : Below1(objects) = Below2(objects)
  BY ObjectsInAlike
<1>4. ObjectsIn(m1, <<>>, 0) = ObjectsIn(m2, <<>>, 0)
  BY ObjectsInAlike
<1> HIDE DEF Below1, Below2
<1>5. \A f : Body1(f) = Body2(f)
  BY <1>3, <1>4
<1> HIDE DEF Body1, Body2
<1>6. (CHOOSE f : f = Body1(f)) = (CHOOSE f : f = Body2(f))
  BY <1>5
<1> QED BY <1>1, <1>2, <1>6

LEMMA TreeAlike ==
  ASSUME NEW m1, NEW m2, Alike(m1, m2)
  PROVE  Tree(m1) = Tree(m2)
<1> DEFINE objects == {o \in Objects(m1) : o.ent.name # "junk"}
           Node1(o) == [dir |-> o.ent.dir, rdo |-> FALSE,
                        data |-> IF o.ent.dir THEN <<>> ELSE DataOf(m1, o.ent)]
           Node2(o) == [dir |-> o.ent.dir, rdo |-> FALSE,
                        data |-> IF o.ent.dir THEN <<>> ELSE DataOf(m2, o.ent)]
           Of(p) == CHOOSE o \in objects : o.path = p
           paths == {o.path : o \in objects} \cup {<<>>}
           root == [dir |-> TRUE, rdo |-> FALSE, data |-> <<>>]
<1>1. Tree(m1) = [p \in paths |-> IF p = <<>> THEN root ELSE Node1(Of(p))]
  BY DEF Tree, After
<1>2. Objects(m2) = Objects(m1)
  BY ObjectsAlike
<1>3. Tree(m2) = [p \in paths |-> IF p = <<>> THEN root ELSE Node2(Of(p))]
  BY <1>2 DEF Tree, After
<1>4. \A o : Node1(o) = Node2(o)
  BY DataAlike
<1> HIDE DEF Node1, Node2, Of, objects, paths, root
<1>5. [p \in paths |-> IF p = <<>> THEN root ELSE Node1(Of(p))]
      = [p \in paths |-> IF p = <<>> THEN root ELSE Node2(Of(p))]
  BY <1>4
<1> QED BY <1>1, <1>3, <1>5

(* So the driver sees the tree that is on the medium as soon as the window   *)
(* does not wait to be written.                                              *)
LEMMA SettledTree ==
  ASSUME NEW v \in Volumes, Settled(v)
  PROVE  Tree(v.disk) = Tree(Seen(v))
<1>1. v.disk \in [Sectors -> AllContent] /\ v.winsect \in Sectors \cup {Nowhere}
  BY VolumeTyped DEF Typed, Disks, Places
<1>2. v.winsect \in {Nowhere, Info} \/ v.win = v.disk[v.winsect]
  BY DEF Settled, Right
<1>3. Alike(v.disk, Seen(v))
  BY <1>1, <1>2 DEF Alike, Seen
<1> QED BY <1>3, TreeAlike

-----------------------------------------------------------------------------
(* The volume between calls.                                                 *)
LEMMA IdleVolume ==
  ASSUME NEW v \in Volumes
  PROVE  Idle(v) \in Volumes /\ (Settled(v) => Settled(Idle(v)))
<1> DEFINE w == Idle(v)
<1>1. Typed(v)
  BY VolumeTyped
<1>2. NoDir \in Dirs /\ <<>> \in Seq(Units) /\ Unlimited \in Int /\ "FR_OK" \in Results
  BY EmptySeq DEF NoDir, Dirs, Unlimited, Results
<1>3. {} \in SUBSET Disks /\ 0 \in Nat
  OBVIOUS
<1>4. /\ Typed(w) /\ w.fil = v.fil /\ w.files = v.files /\ w.disk = v.disk
      /\ w.win = v.win /\ w.winsect = v.winsect /\ w.wflag = v.wflag
  <2> DEFINE none == NoDir
             empty == <<>>
             never == Unlimited
             ok == "FR_OK"
  <2>1. none \in Dirs /\ empty \in Seq(Units) /\ never \in Int /\ ok \in Results
    BY <1>2
  <2>2. w = [v EXCEPT !.dj = none, !.text = empty, !.fuse = never, !.count = 0, !.cuts = {},
                      !.res = ok, !.val = 0]
    BY DEF Idle
  <2> HIDE DEF none, empty, never, ok, w
  <2> QED BY <1>1, <1>3, <2>1, <2>2 DEF Typed, Fields
<1> HIDE DEF w
<1>5. w \in Records
  BY <1>4, TypedRecords
<1>6. w \in Volumes
  BY <1>4, <1>5 DEF Volumes, FilOpen
<1> QED BY <1>4, <1>6 DEF Settled, Right, w

LEMMA FreshVolume ==
  ASSUME NEW disk \in Disks
  PROVE  Fresh(disk) \in Volumes /\ Settled(Fresh(disk))
<1> DEFINE w == Fresh(disk)
           info == disk[Info]
<1>1. Info \in Sectors /\ disk[Info] \in Content(Info) /\ Info \in Places
  BY KindsOfSectors DEF Disks, Places
<1>2. info \in [fat : Nat \X Nat, ents : {<<>>}, data : {<<>>}] /\ info \in AllContent
  BY <1>1, InfoContent DEF AllContent
<1>3. info.fat[1] \in Nat /\ info.fat[2] \in Nat
  BY <1>2
<1>4. NoDir \in Dirs /\ <<>> \in Seq(Units) /\ Unlimited \in Int /\ "FR_OK" \in Results
  BY EmptySeq DEF NoDir, Dirs, Unlimited, Results
<1>5. {} \in Tables
  BY FS_EmptySet, LockAssumption DEF Tables
<1>6. NoFil.path = <<>>
  BY DEF NoFil
<1>7. /\ Typed(w) /\ w.disk = disk /\ w.win = info /\ w.winsect = Info /\ w.wflag = FALSE
      /\ w.fil = NoFil
  <2> DEFINE free == info.fat[1]
             taken == info.fat[2]
             none == NoDir
             empty == <<>>
             never == Unlimited
             ok == "FR_OK"
             place == Info
             table == {}
  <2>1. /\ free \in Nat /\ taken \in Nat /\ none \in Dirs /\ empty \in Seq(Units)
        /\ never \in Int /\ ok \in Results /\ place \in Places /\ table \in Tables
        /\ info \in AllContent /\ {} \in SUBSET Disks /\ NoFil \in OpenFils \cup {NoFil}
    BY <1>1, <1>2, <1>3, <1>4, <1>5
  <2>2. w = [disk |-> disk, win |-> info, winsect |-> place, wflag |-> FALSE,
             free |-> free, last |-> taken, fsi |-> 0,
             fil |-> NoFil, files |-> table, dj |-> none, text |-> empty,
             fuse |-> never, count |-> 0, cuts |-> {}, res |-> ok, val |-> 0]
    BY DEF Fresh
  <2> HIDE DEF free, taken, none, empty, never, ok, w, info, table
  <2>3. /\ w.disk = disk /\ w.win = info /\ w.winsect = place /\ w.wflag = FALSE
        /\ w.fil = NoFil
    BY <2>2
  <2>4. Typed(w)
    <3> HIDE DEF place
    <3> QED BY <2>1, <2>2 DEF Typed, Fields
  <2> QED BY <2>3, <2>4
<1> HIDE DEF w, info
<1>8. w \in Records
  BY <1>7, TypedRecords
<1>9. w \in Volumes
  BY <1>1, <1>6, <1>7, <1>8 DEF Volumes, FilOpen, info
<1>10. Settled(w)
  BY <1>7 DEF Settled, Right
<1> QED BY <1>9, <1>10 DEF w

LEMMA MediaDisks ==
  Media \subseteq Disks
<1> SUFFICES ASSUME NEW m \in Media PROVE m \in Disks
  OBVIOUS
<1>1. m = [s \in Sectors |-> m[s]] /\ \A s \in Sectors : m[s] \in Content(s)
  BY MediaAssumption DEF Formatted
<1>2. \A s \in Sectors : m[s] \in AllContent
  BY <1>1 DEF AllContent
<1>3. m \in [Sectors -> AllContent]
  BY <1>1, <1>2
<1> QED BY <1>1, <1>3 DEF Disks

-----------------------------------------------------------------------------
(* The inductive invariant: the volume has its types, and after a call that  *)
(* changed the directories and succeeded nothing waits in the window.        *)
Changing == {"f_unlink", "f_mkdir", "f_rename", "f_utime"}

VolumeInv ==
  /\ vol \in Volumes
  /\ calls \in 0 .. MaxCalls /\ faults \in 0 .. MaxFaults /\ mounted \in BOOLEAN
  /\ last.op \in Changing /\ last.res = "FR_OK" => Settled(vol)

(* What a call may start from, and what an action leaves when its call ends  *)
(* with one of W or the power fails.                                         *)
Starts == {vol} \cup {[vol EXCEPT !.fuse = f] : f \in Int}

Outcome(op, W) ==
  /\ calls < MaxCalls /\ calls' = calls + 1
  /\ faults' = faults \/ (faults < MaxFaults /\ faults' = faults + 1)
  /\ mounted' = mounted \/ mounted' = FALSE
  /\ last'.op = op
  /\ \/ \E w \in W : vol' = Idle(w) /\ last'.res = w.res
     \/ \E disk \in Disks : vol' = Idle(Fresh(disk))

LEMMA StartsTyped ==
  ASSUME vol \in Volumes, NEW v \in Starts
  PROVE  v \in Volumes /\ v.fil = vol.fil
<1>1. CASE v = vol
  BY <1>1
<1>2. CASE v # vol
  <2>1. PICK f \in Int : v = [vol EXCEPT !.fuse = f]
    BY <1>2 DEF Starts
  <2>2. Typed(vol)
    BY VolumeTyped
  <2>3. /\ Typed(v) /\ v.fil = vol.fil /\ v.files = vol.files /\ v.win = vol.win
        /\ v.winsect = vol.winsect
    BY <2>1, <2>2 DEF Typed, Fields
  <2>4. v \in Records
    BY <2>3, TypedRecords
  <2> QED BY <2>3, <2>4 DEF Volumes, FilOpen
<1> QED BY <1>1, <1>2

LEMMA OutcomeKeeps ==
  ASSUME VolumeInv, NEW op, NEW W, W \subseteq Volumes,
         op \in Changing => \A w \in W : Ended(w), Outcome(op, W)
  PROVE  VolumeInv'
<1>1. /\ calls' \in 0 .. MaxCalls /\ faults' \in 0 .. MaxFaults /\ mounted' \in BOOLEAN
  <2>1. MaxCalls \in Nat /\ MaxFaults \in Nat /\ calls \in 0 .. MaxCalls /\ faults \in 0 .. MaxFaults
    BY BoundsAssumption DEF VolumeInv
  <2>2. calls' \in 0 .. MaxCalls
    BY <2>1 DEF Outcome
  <2>3. faults' = faults \/ (faults < MaxFaults /\ faults' = faults + 1)
    BY DEF Outcome
  <2>4. faults' \in 0 .. MaxFaults
    BY <2>1, <2>3
  <2>5. mounted' \in BOOLEAN
    BY DEF VolumeInv, Outcome
  <2> QED BY <2>2, <2>4, <2>5
<1>2. /\ vol' \in Volumes
      /\ last'.op \in Changing /\ last'.res = "FR_OK" => Settled(vol')
  <2>1. CASE \E w \in W : vol' = Idle(w) /\ last'.res = w.res
    <3>1. PICK w \in W : vol' = Idle(w) /\ last'.res = w.res
      BY <2>1
    <3>2. Idle(w) \in Volumes /\ (Settled(w) => Settled(Idle(w)))
      BY IdleVolume
    <3>3. op \in Changing /\ w.res = "FR_OK" => Settled(w)
      BY DEF Ended, Ok
    <3>4. last'.op = op
      BY DEF Outcome
    <3> QED BY <3>1, <3>2, <3>3, <3>4
  <2>2. CASE \E disk \in Disks : vol' = Idle(Fresh(disk))
    BY <2>2, FreshVolume, IdleVolume
  <2> QED BY <2>1, <2>2 DEF Outcome
<1>3. Settled(vol)' = Settled(vol')
  BY DEF Settled, Right
<1> QED BY <1>1, <1>2, <1>3 DEF VolumeInv

LEMMA InitKeeps ==
  Init => VolumeInv
<1> SUFFICES ASSUME Init PROVE VolumeInv
  OBVIOUS
<1>1. PICK disk \in Media : vol = Fresh(disk)
  BY DEF Init
<1>2. vol \in Volumes
  BY <1>1, MediaDisks, FreshVolume
<1>3. last.op \notin Changing
  BY DEF Init, Changing
<1>4. calls \in 0 .. MaxCalls /\ faults \in 0 .. MaxFaults
  <2>1. MaxCalls \in Nat /\ MaxFaults \in Nat
    BY BoundsAssumption
  <2>2. calls = 0 /\ faults = 0
    BY DEF Init
  <2> QED BY <2>1, <2>2
<1>5. mounted \in BOOLEAN
  BY DEF Init
<1> QED BY <1>2, <1>3, <1>4, <1>5 DEF VolumeInv

(* One call of an operation that took the volume v to after[v].              *)
Called(op, after) ==
  /\ calls < MaxCalls /\ calls' = calls + 1
  /\ last'.op = op
  /\ \/ /\ vol' = Idle(after[vol]) /\ last'.res = after[vol].res
        /\ mounted' = mounted /\ faults' = faults
     \/ /\ faults < MaxFaults /\ faults' = faults + 1
        /\ \/ \E f \in 0 .. after[vol].count - 1 :
                /\ vol' = Idle(after[[vol EXCEPT !.fuse = f]])
                /\ last'.res = after[[vol EXCEPT !.fuse = f]].res
                /\ mounted' = mounted
           \/ \E disk \in after[vol].cuts \cup {vol.disk} :
                vol' = Idle(Fresh(disk)) /\ mounted' = FALSE

LEMMA CalledKeeps ==
  ASSUME VolumeInv, NEW op, NEW after \in [Starts -> Volumes], Called(op, after),
         op \in Changing => \A v \in Starts : Ended(after[v])
  PROVE  VolumeInv'
<1> DEFINE W == {after[v] : v \in Starts}
<1>1. W \subseteq Volumes
  OBVIOUS
<1>2. op \in Changing => \A w \in W : Ended(w)
  OBVIOUS
<1>3. vol \in Starts /\ \A f \in Int : [vol EXCEPT !.fuse = f] \in Starts
  BY DEF Starts
<1>4. after[vol].cuts \subseteq Disks /\ after[vol].count \in Nat /\ vol.disk \in Disks
  <2>1. after[vol] \in Volumes /\ vol \in Volumes
    BY <1>3 DEF VolumeInv
  <2>2. Typed(after[vol]) /\ Typed(vol)
    BY <2>1, VolumeTyped
  <2> QED BY <2>2 DEF Typed
<1>5. \A f \in 0 .. after[vol].count - 1 : f \in Int
  BY <1>4
<1>6. \/ \E w \in W : vol' = Idle(w) /\ last'.res = w.res
      \/ \E disk \in Disks : vol' = Idle(Fresh(disk))
  <2>1. CASE vol' = Idle(after[vol]) /\ last'.res = after[vol].res
    BY <2>1, <1>3
  <2>2. CASE \E f \in 0 .. after[vol].count - 1 :
               /\ vol' = Idle(after[[vol EXCEPT !.fuse = f]])
               /\ last'.res = after[[vol EXCEPT !.fuse = f]].res
    <3>1. PICK f \in 0 .. after[vol].count - 1 :
                 /\ vol' = Idle(after[[vol EXCEPT !.fuse = f]])
                 /\ last'.res = after[[vol EXCEPT !.fuse = f]].res
      BY <2>2
    <3>2. [vol EXCEPT !.fuse = f] \in Starts
      BY <1>3, <1>5
    <3>3. after[[vol EXCEPT !.fuse = f]] \in W
      BY <3>2
    <3> QED BY <3>1, <3>3
  <2>3. CASE \E disk \in after[vol].cuts \cup {vol.disk} : vol' = Idle(Fresh(disk))
    <3>1. PICK disk \in after[vol].cuts \cup {vol.disk} : vol' = Idle(Fresh(disk))
      BY <2>3
    <3>2. disk \in Disks
      BY <1>4
    <3> QED BY <3>1, <3>2
  <2> QED BY <2>1, <2>2, <2>3 DEF Called
<1>7. /\ calls < MaxCalls /\ calls' = calls + 1 /\ last'.op = op
      /\ faults' = faults \/ (faults < MaxFaults /\ faults' = faults + 1)
      /\ mounted' = mounted \/ mounted' = FALSE
  BY DEF Called
<1> HIDE DEF W
<1>8. Outcome(op, W)
  BY <1>6, <1>7 DEF Outcome
<1> QED BY <1>1, <1>2, <1>8, OutcomeKeeps

(* A call, its operator taken away: one is where it ends without a fault,    *)
(* many where it may end with one.                                           *)
Form(op, path, to, one, many) ==
  /\ calls < MaxCalls /\ calls' = calls + 1
  /\ \/ /\ vol' = Idle(one)
        /\ last' = [op |-> op, path |-> path, to |-> to, res |-> one.res, data |-> one.text]
        /\ UNCHANGED <<mounted, faults>>
     \/ /\ faults < MaxFaults /\ faults' = faults + 1
        /\ \/ \E w \in many :
                /\ vol' = Idle(w)
                /\ last' = [op |-> op, path |-> path, to |-> to, res |-> w.res, data |-> w.text]
                /\ UNCHANGED mounted
           \/ \E disk \in one.cuts \cup {vol.disk} :
                /\ vol' = Idle(Fresh(disk))
                /\ last' = [op |-> op, path |-> path, to |-> to, res |-> "cut", data |-> <<>>]
                /\ mounted' = FALSE

LEMMA FormKeeps ==
  ASSUME VolumeInv, NEW op, NEW path, NEW to, NEW after \in [Starts -> Volumes],
         NEW many, many = {after[[vol EXCEPT !.fuse = f]] : f \in 0 .. after[vol].count - 1},
         Form(op, path, to, after[vol], many),
         op \in Changing => \A v \in Starts : Ended(after[v])
  PROVE  VolumeInv'
<1> DEFINE one == after[vol]
<1> HIDE DEF one
<1>1. Form(op, path, to, one, many)
  BY DEF one
<1>2. calls < MaxCalls /\ calls' = calls + 1
  BY <1>1 DEF Form
<1>3. CASE /\ vol' = Idle(one)
           /\ last' = [op |-> op, path |-> path, to |-> to, res |-> one.res, data |-> one.text]
           /\ UNCHANGED <<mounted, faults>>
  <2>1. last'.op = op /\ last'.res = one.res
    BY <1>3
  <2> QED BY <1>2, <1>3, <2>1, CalledKeeps DEF Called, one
<1>4. CASE /\ faults < MaxFaults /\ faults' = faults + 1
           /\ \E w \in many :
                /\ vol' = Idle(w)
                /\ last' = [op |-> op, path |-> path, to |-> to, res |-> w.res, data |-> w.text]
                /\ UNCHANGED mounted
  <2>1. PICK f \in 0 .. after[vol].count - 1 :
          /\ vol' = Idle(after[[vol EXCEPT !.fuse = f]])
          /\ last' = [op |-> op, path |-> path, to |-> to, res |-> after[[vol EXCEPT !.fuse = f]].res,
                      data |-> after[[vol EXCEPT !.fuse = f]].text]
          /\ UNCHANGED mounted
    BY <1>4
  <2>2. last'.op = op /\ last'.res = after[[vol EXCEPT !.fuse = f]].res
    BY <2>1
  <2>3. Called(op, after)
    BY <1>2, <1>4, <2>1, <2>2 DEF Called
  <2> QED BY <2>3, CalledKeeps
<1>5. CASE /\ faults < MaxFaults /\ faults' = faults + 1
           /\ \E disk \in one.cuts \cup {vol.disk} :
                /\ vol' = Idle(Fresh(disk))
                /\ last' = [op |-> op, path |-> path, to |-> to, res |-> "cut", data |-> <<>>]
                /\ mounted' = FALSE
  <2>1. last'.op = op
    BY <1>5
  <2> QED BY <1>2, <1>5, <2>1, CalledKeeps DEF Called, one
<1> QED BY <1>1, <1>3, <1>4, <1>5 DEF Form

-----------------------------------------------------------------------------
(* Every action keeps the invariant.                                         *)
LEMMA OpenKeeps ==
  ASSUME VolumeInv, NEW p \in Paths, NEW mode \in Modes, Open(p, mode)
  PROVE  VolumeInv'
<1> DEFINE after == [v \in Starts |-> FOpen(v, p, mode)]
           one   == FOpen(vol, p, mode)
           many  == {FOpen([vol EXCEPT !.fuse = f], p, mode) : f \in 0 .. one.count - 1}
<1>1. \A v \in Starts : FOpen(v, p, mode) \in Volumes
  BY StartsTyped, FOpenStays, PathsAssumption DEF VolumeInv
<1>2. after \in [Starts -> Volumes]
  BY <1>1
<1>3. vol \in Starts /\ \A f \in Int : [vol EXCEPT !.fuse = f] \in Starts
  BY DEF Starts
<1>4. after[vol] = one /\ \A v \in Starts : after[v] = FOpen(v, p, mode)
  BY <1>3
<1>5. Form("f_open", p, <<mode>>, one, many)
  <2>1. Call("f_open", p, <<mode>>, LAMBDA v : FOpen(v, p, mode))
    BY DEF Open
  <2> QED BY <2>1, Zenon DEF Call, Form
<1>6. many = {after[[vol EXCEPT !.fuse = f]] : f \in 0 .. after[vol].count - 1}
  <2>1. one.count \in Nat
    BY <1>2, <1>3, <1>4, VolumeTyped DEF Typed
  <2> HIDE DEF after, one
  <2>2. \A f \in 0 .. one.count - 1 : after[[vol EXCEPT !.fuse = f]] = FOpen([vol EXCEPT !.fuse = f], p, mode)
    BY <1>3, <1>4, <2>1
  <2> QED BY <1>4, <2>2
<1> HIDE DEF after, one, many
<1>7. "f_open" \notin Changing
  BY DEF Changing
<1> QED BY <1>2, <1>4, <1>5, <1>6, <1>7, FormKeeps

LEMMA OpenHasFil ==
  ASSUME NEW v \in Volumes, FilOpen(v)
  PROVE  v.fil \in OpenFils
<1>1. v.fil \in OpenFils \cup {NoFil} /\ NoFil.path = <<>>
  BY VolumeTyped DEF Typed, NoFil
<1> QED BY <1>1 DEF FilOpen

LEMMA WriteKeeps ==
  ASSUME VolumeInv, NEW n \in Amounts, Write(n)
  PROVE  VolumeInv'
<1> DEFINE after == [v \in Starts |-> FWrite(v, n, vol.fil.path[Len(vol.fil.path)])]
           one   == FWrite(vol, n, vol.fil.path[Len(vol.fil.path)])
           many  == {FWrite([vol EXCEPT !.fuse = f], n, vol.fil.path[Len(vol.fil.path)]) : f \in 0 .. one.count - 1}
<1>1. \A v \in Starts : FWrite(v, n, vol.fil.path[Len(vol.fil.path)]) \in Volumes
  <2>1. vol.fil \in OpenFils
    BY OpenHasFil DEF VolumeInv, Write
  <2>2. vol.fil.path[Len(vol.fil.path)] \in Units
    <3>1. vol.fil.path \in Seq(Names) \ {<<>>}
      BY <2>1 DEF OpenFils
    <3> QED BY <3>1, LastOfPath, UnitsAssumption DEF Last
  <2>3. n \in Nat
    BY AmountsAssumption
  <2> QED BY <2>1, <2>2, <2>3, StartsTyped, FWriteStays DEF VolumeInv
<1>2. after \in [Starts -> Volumes]
  BY <1>1
<1>3. vol \in Starts /\ \A f \in Int : [vol EXCEPT !.fuse = f] \in Starts
  BY DEF Starts
<1>4. after[vol] = one /\ \A v \in Starts : after[v] = FWrite(v, n, vol.fil.path[Len(vol.fil.path)])
  BY <1>3
<1>5. Form("f_write", vol.fil.path, <<n>>, one, many)
  <2>1. Call("f_write", vol.fil.path, <<n>>, LAMBDA v : FWrite(v, n, vol.fil.path[Len(vol.fil.path)]))
    BY DEF Write
  <2> QED BY <2>1, Zenon DEF Call, Form
<1>6. many = {after[[vol EXCEPT !.fuse = f]] : f \in 0 .. after[vol].count - 1}
  <2>1. one.count \in Nat
    BY <1>2, <1>3, <1>4, VolumeTyped DEF Typed
  <2> HIDE DEF after, one
  <2>2. \A f \in 0 .. one.count - 1 : after[[vol EXCEPT !.fuse = f]] = FWrite([vol EXCEPT !.fuse = f], n, vol.fil.path[Len(vol.fil.path)])
    BY <1>3, <1>4, <2>1
  <2> QED BY <1>4, <2>2
<1> HIDE DEF after, one, many
<1>7. "f_write" \notin Changing
  BY DEF Changing
<1> QED BY <1>2, <1>4, <1>5, <1>6, <1>7, FormKeeps

LEMMA CloseKeeps ==
  ASSUME VolumeInv, Close
  PROVE  VolumeInv'
<1> DEFINE after == [v \in Starts |-> FClose(v)]
           one   == FClose(vol)
           many  == {FClose([vol EXCEPT !.fuse = f]) : f \in 0 .. one.count - 1}
<1>1. \A v \in Starts : FClose(v) \in Volumes
  BY OpenHasFil, StartsTyped, FCloseStays DEF VolumeInv, Close
<1>2. after \in [Starts -> Volumes]
  BY <1>1
<1>3. vol \in Starts /\ \A f \in Int : [vol EXCEPT !.fuse = f] \in Starts
  BY DEF Starts
<1>4. after[vol] = one /\ \A v \in Starts : after[v] = FClose(v)
  BY <1>3
<1>5. Form("f_close", vol.fil.path, <<>>, one, many)
  <2>1. Call("f_close", vol.fil.path, <<>>, FClose)
    BY DEF Close
  <2> QED BY <2>1, Zenon DEF Call, Form
<1>6. many = {after[[vol EXCEPT !.fuse = f]] : f \in 0 .. after[vol].count - 1}
  <2>1. one.count \in Nat
    BY <1>2, <1>3, <1>4, VolumeTyped DEF Typed
  <2> HIDE DEF after, one
  <2>2. \A f \in 0 .. one.count - 1 : after[[vol EXCEPT !.fuse = f]] = FClose([vol EXCEPT !.fuse = f])
    BY <1>3, <1>4, <2>1
  <2> QED BY <1>4, <2>2
<1> HIDE DEF after, one, many
<1>7. "f_close" \notin Changing
  BY DEF Changing
<1> QED BY <1>2, <1>4, <1>5, <1>6, <1>7, FormKeeps

LEMMA UnlinkKeeps ==
  ASSUME VolumeInv, NEW p \in Paths, Unlink(p)
  PROVE  VolumeInv'
<1> DEFINE after == [v \in Starts |-> FUnlink(v, p)]
           one   == FUnlink(vol, p)
           many  == {FUnlink([vol EXCEPT !.fuse = f], p) : f \in 0 .. one.count - 1}
<1>1. \A v \in Starts : Ended(FUnlink(v, p))
  BY StartsTyped, FUnlinkEnds, PathsAssumption DEF VolumeInv
<1>2. after \in [Starts -> Volumes]
  BY <1>1 DEF Ended
<1>3. vol \in Starts /\ \A f \in Int : [vol EXCEPT !.fuse = f] \in Starts
  BY DEF Starts
<1>4. after[vol] = one /\ \A v \in Starts : after[v] = FUnlink(v, p)
  BY <1>3
<1>5. Form("f_unlink", p, <<>>, one, many)
  <2>1. Call("f_unlink", p, <<>>, LAMBDA v : FUnlink(v, p))
    BY DEF Unlink
  <2> QED BY <2>1, Zenon DEF Call, Form
<1>6. many = {after[[vol EXCEPT !.fuse = f]] : f \in 0 .. after[vol].count - 1}
  <2>1. one.count \in Nat
    BY <1>2, <1>3, <1>4, VolumeTyped DEF Typed
  <2> HIDE DEF after, one
  <2>2. \A f \in 0 .. one.count - 1 : after[[vol EXCEPT !.fuse = f]] = FUnlink([vol EXCEPT !.fuse = f], p)
    BY <1>3, <1>4, <2>1
  <2> QED BY <1>4, <2>2
<1> HIDE DEF after, one, many
<1>7. \A v \in Starts : Ended(after[v])
  BY <1>1, <1>4
<1> QED BY <1>2, <1>4, <1>5, <1>6, <1>7, FormKeeps

LEMMA MkdirKeeps ==
  ASSUME VolumeInv, NEW p \in Paths, Mkdir(p)
  PROVE  VolumeInv'
<1> DEFINE after == [v \in Starts |-> FMkdir(v, p)]
           one   == FMkdir(vol, p)
           many  == {FMkdir([vol EXCEPT !.fuse = f], p) : f \in 0 .. one.count - 1}
<1>1. \A v \in Starts : Ended(FMkdir(v, p))
  BY StartsTyped, FMkdirEnds, PathsAssumption DEF VolumeInv
<1>2. after \in [Starts -> Volumes]
  BY <1>1 DEF Ended
<1>3. vol \in Starts /\ \A f \in Int : [vol EXCEPT !.fuse = f] \in Starts
  BY DEF Starts
<1>4. after[vol] = one /\ \A v \in Starts : after[v] = FMkdir(v, p)
  BY <1>3
<1>5. Form("f_mkdir", p, <<>>, one, many)
  <2>1. Call("f_mkdir", p, <<>>, LAMBDA v : FMkdir(v, p))
    BY DEF Mkdir
  <2> QED BY <2>1, Zenon DEF Call, Form
<1>6. many = {after[[vol EXCEPT !.fuse = f]] : f \in 0 .. after[vol].count - 1}
  <2>1. one.count \in Nat
    BY <1>2, <1>3, <1>4, VolumeTyped DEF Typed
  <2> HIDE DEF after, one
  <2>2. \A f \in 0 .. one.count - 1 : after[[vol EXCEPT !.fuse = f]] = FMkdir([vol EXCEPT !.fuse = f], p)
    BY <1>3, <1>4, <2>1
  <2> QED BY <1>4, <2>2
<1> HIDE DEF after, one, many
<1>7. \A v \in Starts : Ended(after[v])
  BY <1>1, <1>4
<1> QED BY <1>2, <1>4, <1>5, <1>6, <1>7, FormKeeps

LEMMA UtimeKeeps ==
  ASSUME VolumeInv, NEW p \in Paths, Utime(p)
  PROVE  VolumeInv'
<1> DEFINE after == [v \in Starts |-> FUtime(v, p)]
           one   == FUtime(vol, p)
           many  == {FUtime([vol EXCEPT !.fuse = f], p) : f \in 0 .. one.count - 1}
<1>1. \A v \in Starts : Ended(FUtime(v, p))
  BY StartsTyped, FUtimeEnds, PathsAssumption DEF VolumeInv
<1>2. after \in [Starts -> Volumes]
  BY <1>1 DEF Ended
<1>3. vol \in Starts /\ \A f \in Int : [vol EXCEPT !.fuse = f] \in Starts
  BY DEF Starts
<1>4. after[vol] = one /\ \A v \in Starts : after[v] = FUtime(v, p)
  BY <1>3
<1>5. Form("f_utime", p, <<>>, one, many)
  <2>1. Call("f_utime", p, <<>>, LAMBDA v : FUtime(v, p))
    BY DEF Utime
  <2> QED BY <2>1, Zenon DEF Call, Form
<1>6. many = {after[[vol EXCEPT !.fuse = f]] : f \in 0 .. after[vol].count - 1}
  <2>1. one.count \in Nat
    BY <1>2, <1>3, <1>4, VolumeTyped DEF Typed
  <2> HIDE DEF after, one
  <2>2. \A f \in 0 .. one.count - 1 : after[[vol EXCEPT !.fuse = f]] = FUtime([vol EXCEPT !.fuse = f], p)
    BY <1>3, <1>4, <2>1
  <2> QED BY <1>4, <2>2
<1> HIDE DEF after, one, many
<1>7. \A v \in Starts : Ended(after[v])
  BY <1>1, <1>4
<1> QED BY <1>2, <1>4, <1>5, <1>6, <1>7, FormKeeps

LEMMA RenameKeeps ==
  ASSUME VolumeInv, NEW r \in Renames, Rename(r[1], r[2])
  PROVE  VolumeInv'
<1> DEFINE after == [v \in Starts |-> FRename(v, r[1], r[2])]
           one   == FRename(vol, r[1], r[2])
           many  == {FRename([vol EXCEPT !.fuse = f], r[1], r[2]) : f \in 0 .. one.count - 1}
<1>1. \A v \in Starts : Ended(FRename(v, r[1], r[2]))
  <2>1. r[1] \in Seq(Names) \ {<<>>} /\ r[2] \in Seq(Names) \ {<<>>}
    BY PathsAssumption
  <2> QED BY <2>1, StartsTyped, FRenameEnds DEF VolumeInv
<1>2. after \in [Starts -> Volumes]
  BY <1>1 DEF Ended
<1>3. vol \in Starts /\ \A f \in Int : [vol EXCEPT !.fuse = f] \in Starts
  BY DEF Starts
<1>4. after[vol] = one /\ \A v \in Starts : after[v] = FRename(v, r[1], r[2])
  BY <1>3
<1>5. Form("f_rename", r[1], r[2], one, many)
  <2>1. Call("f_rename", r[1], r[2], LAMBDA v : FRename(v, r[1], r[2]))
    BY DEF Rename
  <2> QED BY <2>1, Zenon DEF Call, Form
<1>6. many = {after[[vol EXCEPT !.fuse = f]] : f \in 0 .. after[vol].count - 1}
  <2>1. one.count \in Nat
    BY <1>2, <1>3, <1>4, VolumeTyped DEF Typed
  <2> HIDE DEF after, one
  <2>2. \A f \in 0 .. one.count - 1 : after[[vol EXCEPT !.fuse = f]] = FRename([vol EXCEPT !.fuse = f], r[1], r[2])
    BY <1>3, <1>4, <2>1
  <2> QED BY <1>4, <2>2
<1> HIDE DEF after, one, many
<1>7. \A v \in Starts : Ended(after[v])
  BY <1>1, <1>4
<1> QED BY <1>2, <1>4, <1>5, <1>6, <1>7, FormKeeps

LEMMA ReadKeeps ==
  ASSUME VolumeInv, NEW p \in Paths, Read(p)
  PROVE  VolumeInv'
<1> DEFINE after == [v \in Starts |-> FRead(v, p)]
           one   == FRead(vol, p)
           many  == {FRead([vol EXCEPT !.fuse = f], p) : f \in 0 .. one.count - 1}
<1>1. \A v \in Starts : FRead(v, p) \in Volumes
  BY StartsTyped, FReadStays, PathsAssumption DEF VolumeInv
<1>2. after \in [Starts -> Volumes]
  BY <1>1
<1>3. vol \in Starts /\ \A f \in Int : [vol EXCEPT !.fuse = f] \in Starts
  BY DEF Starts
<1>4. after[vol] = one /\ \A v \in Starts : after[v] = FRead(v, p)
  BY <1>3
<1>5. Form("f_read", p, <<>>, one, many)
  <2>1. Call("f_read", p, <<>>, LAMBDA v : FRead(v, p))
    BY DEF Read
  <2> QED BY <2>1, Zenon DEF Call, Form
<1>6. many = {after[[vol EXCEPT !.fuse = f]] : f \in 0 .. after[vol].count - 1}
  <2>1. one.count \in Nat
    BY <1>2, <1>3, <1>4, VolumeTyped DEF Typed
  <2> HIDE DEF after, one
  <2>2. \A f \in 0 .. one.count - 1 : after[[vol EXCEPT !.fuse = f]] = FRead([vol EXCEPT !.fuse = f], p)
    BY <1>3, <1>4, <2>1
  <2> QED BY <1>4, <2>2
<1> HIDE DEF after, one, many
<1>7. "f_read" \notin Changing
  BY DEF Changing
<1> QED BY <1>2, <1>4, <1>5, <1>6, <1>7, FormKeeps

LEMMA MountKeeps ==
  ASSUME VolumeInv, Mount
  PROVE  VolumeInv'
<1>1. vol.disk \in Disks
  BY VolumeTyped DEF VolumeInv, Typed
<1>2. Fresh(vol.disk) \in Volumes /\ Settled(Fresh(vol.disk))
  BY <1>1, FreshVolume
<1>3. vol' = Fresh(vol.disk) /\ mounted' = TRUE /\ UNCHANGED <<last, calls, faults>>
  BY DEF Mount
<1>4. Settled(vol)' = Settled(vol')
  BY DEF Settled, Right
<1> QED BY <1>2, <1>3, <1>4 DEF VolumeInv

LEMMA NextKeeps ==
  VolumeInv /\ [Next]_vars => VolumeInv'
<1> SUFFICES ASSUME VolumeInv, [Next]_vars PROVE VolumeInv'
  OBVIOUS
<1>1. ASSUME NEW p \in Paths, NEW mode \in Modes, Open(p, mode) PROVE VolumeInv'
  BY <1>1, OpenKeeps
<1>2. ASSUME NEW n \in Amounts, Write(n) PROVE VolumeInv'
  BY <1>2, WriteKeeps
<1>3. CASE Close
  BY <1>3, CloseKeeps
<1>4. ASSUME NEW p \in Paths, Unlink(p) PROVE VolumeInv'
  BY <1>4, UnlinkKeeps
<1>5. ASSUME NEW p \in Paths, Mkdir(p) PROVE VolumeInv'
  BY <1>5, MkdirKeeps
<1>6. ASSUME NEW r \in Renames, Rename(r[1], r[2]) PROVE VolumeInv'
  BY <1>6, RenameKeeps
<1>7. ASSUME NEW p \in Paths, Utime(p) PROVE VolumeInv'
  BY <1>7, UtimeKeeps
<1>8. ASSUME NEW p \in Paths, Read(p) PROVE VolumeInv'
  BY <1>8, ReadKeeps
<1>9. CASE Mount
  BY <1>9, MountKeeps
<1>10. CASE UNCHANGED vars
  <2>1. UNCHANGED <<vol, mounted, last, calls, faults>>
    BY <1>10 DEF vars
  <2>2. Settled(vol)' = Settled(vol')
    BY DEF Settled, Right
  <2> QED BY <2>1, <2>2 DEF VolumeInv
<1> QED BY <1>1, <1>2, <1>3, <1>4, <1>5, <1>6, <1>7, <1>8, <1>9, <1>10 DEF Next

(* What is proved of the volume: through every call of ff.c, every access    *)
(* that fails in it and every power cut that ends with f_mount, the volume   *)
(* and its open objects keep their types, and after an f_unlink, f_mkdir,    *)
(* f_rename or f_utime that returned FR_OK nothing waits in the window.      *)
THEOREM VolumeHolds == Spec => []VolumeInv
<1>1. Init => VolumeInv
  BY InitKeeps
<1>2. VolumeInv /\ [Next]_vars => VolumeInv'
  BY NextKeeps
<1> QED BY <1>1, <1>2, PTL DEF Spec

(* Whatever calls are made, and whichever of their accesses fail: the medium *)
(* keeps the sectors it was formatted with, the window stays on one of them, *)
(* the table of open objects never grows beyond FF_FS_LOCK, and a file that  *)
(* is open has its place in the table (chk_share, inc_share, dec_share).     *)
THEOREM VolumeTypes == Spec => []TypeOK
<1>1. VolumeInv => TypeOK
  <2> SUFFICES ASSUME VolumeInv PROVE TypeOK
    OBVIOUS
  <2>1. Typed(vol) /\ vol \in Volumes
    BY VolumeTyped DEF VolumeInv
  <2>2. DOMAIN vol.disk = Sectors /\ vol.winsect \in Sectors \cup {Nowhere}
    BY <2>1 DEF Typed, Disks, Places
  <2>3. vol.free \in Nat /\ vol.last \in Nat /\ vol.fsi \in {0, 1}
    BY <2>1 DEF Typed
  <2>4. Cardinality(vol.files) <= FF_FS_LOCK
    BY <2>1 DEF Typed, Tables
  <2>5. FilOpen(vol) => vol.fil.place \in vol.files
    BY <2>1 DEF Volumes
  <2>6. calls \in 0 .. MaxCalls /\ faults \in 0 .. MaxFaults /\ mounted \in BOOLEAN
    BY DEF VolumeInv
  <2> QED BY <2>2, <2>3, <2>4, <2>5, <2>6 DEF TypeOK
<1> QED BY <1>1, VolumeHolds, PTL

(* f_unlink, f_mkdir, f_rename and f_utime return FR_OK only when the tree   *)
(* that can be read from the medium alone is the one the driver sees: their  *)
(* sync_fs wrote the window, even when its access to FSInfo failed.          *)
THEOREM SuccessOnMedium == Spec => []SuccessIsOnMedium
<1>1. VolumeInv => SuccessIsOnMedium
  <2> SUFFICES ASSUME VolumeInv, last.op \in Changing, last.res = "FR_OK"
               PROVE  Tree(vol.disk) = Tree(Seen(vol))
    BY DEF SuccessIsOnMedium, Changing
  <2>1. vol \in Volumes /\ Settled(vol)
    BY DEF VolumeInv
  <2> QED BY <2>1, SettledTree
<1> QED BY <1>1, VolumeHolds, PTL
=============================================================================
