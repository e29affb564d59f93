------------------------------- MODULE Volume -------------------------------
(* A FAT32 volume under the calls of the shell: one action for each call of  *)
(* ff15/source/ff.c, whose accesses to the medium may fail once, or be cut   *)
(* short by a loss of power; then what was in memory is lost, and the volume *)
(* is mounted again as it was left.                                          *)
EXTENDS FatFiles

CONSTANTS
  Media,       \* what may be on the medium at first, and what FSInfo says then
  Paths,       \* the paths that are named in calls
  Renames,     \* the pairs of paths of f_rename
  Amounts,     \* units written by one f_write
  MaxCalls,    \* bound: the calls of a behaviour
  MaxFaults    \* bound: the faults of a behaviour

ASSUME BoundsAssumption == {MaxCalls, MaxFaults} \subseteq Nat
ASSUME MediaAssumption == \A m \in Media : Formatted(m)
ASSUME PathsAssumption ==
  /\ Paths \subseteq Seq(Names) \ {<<>>}
  /\ \A r \in Renames : {r[1], r[2]} \subseteq Seq(Names) \ {<<>>}
ASSUME AmountsAssumption == Amounts \subseteq Nat \ {0}

VARIABLES
  vol,      \* the volume
  mounted,  \* the file system object is valid
  last,     \* the last call: its name, its paths, its result, what it read
  text,     \* what the file that is open was given
  known,    \* history: the texts that a file may have on the medium
  calls, faults   \* how many there were

vars == <<vol, mounted, last, text, known, calls, faults>>

Modes == {"FA_CREATE_ALWAYS", "FA_CREATE_NEW", "FA_OPEN_APPEND"}
NoDir == [sclust |-> 0, dptr |-> 0, clust |-> 0, sect |-> Nowhere]

Fresh(disk) ==
  [disk |-> disk, win |-> disk[Info], winsect |-> Info, wflag |-> FALSE,
   free |-> disk[Info].fat[1], last |-> disk[Info].fat[2], fsi |-> 0,
   fil |-> NoFil, files |-> {}, dj |-> NoDir, text |-> <<>>,
   fuse |-> Unlimited, count |-> 0, cuts |-> {}, res |-> "FR_OK", val |-> 0]

(* What a call leaves: its locals are gone.                                  *)
Idle(v) == [v EXCEPT !.dj = NoDir, !.text = <<>>, !.fuse = Unlimited, !.count = 0,
                     !.cuts = {}, !.res = "FR_OK", !.val = 0]

-----------------------------------------------------------------------------
(* What is read from a medium m: links, chains, and the objects that the     *)
(* directories lead to.                                                      *)
Link(m, c) == m[FatSector(c)].fat[c]

Longer(m, chain) ==
  IF Link(m, Last(chain)) \in Clusters THEN Append(chain, Link(m, Last(chain))) ELSE chain

Chain(m, c) ==
  IF c \in Clusters THEN Rounds(<<c>>, LAMBDA chain, k : Longer(m, chain), NFatEnt - 1) ELSE <<>>

(* A chain that ends, and meets no cluster twice.                            *)
SoundChain(m, c) ==
  /\ c \in Clusters
  /\ After(Chain(m, c), LAMBDA chain : IsInjective(chain) /\ Link(m, Last(chain)) >= NFatEnt)

(* The parts of a chain's sectors, one behind the other.                     *)
Contents(m, c, Part(_)) ==
  After(Chain(m, c), LAMBDA chain :
    FlattenSeq([i \in 1 .. Len(chain) * Csize |->
                  Part(m[Sector(chain[((i - 1) \div Csize) + 1], (i - 1) % Csize)])]))

AllRows(m, c) == Contents(m, c, LAMBDA s : s.ents)

(* The entries up to the first free one.                                     *)
Rows(m, c) ==
  After(AllRows(m, c), LAMBDA all :
    SubSeq(all, 1, Min({i - 1 : i \in {k \in DOMAIN all : all[k].name = "free"}} \cup {Len(all)})))

MaxDepth == 3   \* bound: no path of the instances is longer

ObjectsIn(m, p, sclust) ==
  After(Rows(m, IF sclust = 0 THEN DirBase ELSE sclust), LAMBDA rows :
    {[path |-> Append(p, rows[i].name), ent |-> rows[i], parent |-> sclust, ofs |-> i - 1] :
       i \in {k \in DOMAIN rows : ~ NoObject(rows[k])}})

Objects(m) ==
  LET Below(objects) ==
        UNION {ObjectsIn(m, o.path, o.ent.clust) : o \in {q \in objects : q.ent.dir}}
      level[n \in 1 .. MaxDepth] ==
        IF n = 1 THEN [objects |-> ObjectsIn(m, <<>>, 0), last |-> ObjectsIn(m, <<>>, 0)]
        ELSE After(level[n - 1], LAMBDA above : After(Below(above.last), LAMBDA here :
               [objects |-> above.objects \cup here, last |-> here]))
  IN  level[MaxDepth].objects

DataOf(m, e) ==
  After(Contents(m, e.clust, LAMBDA s : s.data), LAMBDA units :
    SubSeq(units, 1, Smaller(e.size, Len(units))))

(* The tree of the API.  Junk is no object of it.                            *)
Tree(m) ==
  LET Node(o) == [dir |-> o.ent.dir, rdo |-> FALSE,
                  data |-> IF o.ent.dir THEN <<>> ELSE DataOf(m, o.ent)]
  IN  After({o \in Objects(m) : o.ent.name # "junk"}, LAMBDA objects :
        [p \in {o.path : o \in objects} \cup {<<>>} |->
           IF p = <<>> THEN [dir |-> TRUE, rdo |-> FALSE, data |-> <<>>]
           ELSE Node(CHOOSE o \in objects : o.path = p)])

(* The medium as the driver in memory sees it.                               *)
Seen(v) == IF v.winsect = Nowhere THEN v.disk ELSE [v.disk EXCEPT ![v.winsect] = v.win]

FilesOf(t) == [p \in {q \in DOMAIN t : q # <<>> /\ ~ t[q].dir} |-> t[p].data]

Files(m) == FilesOf(Tree(m))

-----------------------------------------------------------------------------
Init ==
  /\ vol \in {Fresh(disk) : disk \in Media}
  /\ mounted = TRUE
  /\ last = [op |-> "none", path |-> <<>>, to |-> <<>>, res |-> "FR_OK", data |-> <<>>]
  /\ text = <<>>
  /\ \E files \in {Files(vol.disk)} : known = [p \in DOMAIN files |-> {files[p]}]
  /\ calls = 0 /\ faults = 0

(* A file system in which a rename failed between its two entries has two    *)
(* names for one chain (ff.c calls that its critical section).  A behaviour  *)
(* ends there.                                                               *)
Torn == last.op = "f_rename" /\ last.res \in {"FR_DISK_ERR", "cut"}

(* The history.  A file that is not there has the text Absent; a call that   *)
(* succeeds settles what the paths it changes have (after), one that meets a *)
(* fault adds that to what they may have, and one that is refused changes    *)
(* nothing.                                                                  *)
Absent == <<"absent">>
Known(p) == IF p \in DOMAIN known THEN known[p] ELSE {Absent}

Learn(after) ==
  known' = CASE last'.res = "FR_OK" -> after @@ known
             [] last'.res \in {"FR_DISK_ERR", "cut"} ->
                  [p \in DOMAIN after |-> after[p] \cup Known(p)] @@ known
             [] last'.res \notin {"FR_OK", "FR_DISK_ERR", "cut"} -> known

(* A call op on a path, its operator Op, with the second path of a rename or *)
(* the mode of a file that is opened in to: one that meets no fault;   *)
(* one whose access number fuse fails; one in which the power fails.         *)
Call(op, path, to, Op(_)) ==
  LET Ends(w, res, data) ==
        /\ vol' = Idle(w)
        /\ last' = [op |-> op, path |-> path, to |-> to, res |-> res, data |-> data]
  IN  /\ mounted /\ ~ Torn /\ calls < MaxCalls
      /\ calls' = calls + 1
      /\ \E v \in {Op(vol)} :
           \/ /\ Ends(v, v.res, v.text)
              /\ UNCHANGED <<mounted, faults>>
           \/ /\ faults < MaxFaults
              /\ faults' = faults + 1
              /\ \/ \E w \in {Op([vol EXCEPT !.fuse = fuse]) : fuse \in 0 .. v.count - 1} :
                      Ends(w, w.res, w.text) /\ UNCHANGED mounted
                 \/ \E disk \in v.cuts \cup {vol.disk} :
                      Ends(Fresh(disk), "cut", <<>>) /\ mounted' = FALSE

(* f_open to write.                                                          *)
Open(p, mode) ==
  /\ ~ FilOpen(vol)
  /\ Call("f_open", p, <<mode>>, LAMBDA v : FOpen(v, p, mode))
  /\ text' = IF FilOpen(vol') THEN Files(Seen(vol'))[p] ELSE <<>>
  /\ Learn(IF mode = "FA_OPEN_APPEND" /\ Absent \notin Known(p) THEN <<>>
           ELSE p :> Known(p) \cup {<<>>})

(* What a f_write gives is on the medium only when f_close counts it.        *)
Write(n) ==
  /\ FilOpen(vol)
  /\ LET p == vol.fil.path
         x == p[Len(p)]
     IN  /\ Call("f_write", p, <<n>>, LAMBDA v : FWrite(v, n, x))
         /\ text' = IF FilOpen(vol')
                    THEN text \o [i \in 1 .. vol'.fil.fptr - vol.fil.fptr |-> x] ELSE <<>>
  /\ UNCHANGED known

Close ==
  /\ FilOpen(vol)
  /\ Call("f_close", vol.fil.path, <<>>, FClose)
  /\ text' = <<>>
  /\ Learn(IF vol.fil.modified THEN vol.fil.path :> {text} ELSE <<>>)

(* No command changes the volume in another way while it has a file open to  *)
(* write; it may look things up and read.                                    *)
Unlink(p) ==
  /\ ~ FilOpen(vol)
  /\ Call("f_unlink", p, <<>>, LAMBDA v : FUnlink(v, p))
  /\ Learn(p :> {Absent})
  /\ UNCHANGED text

Mkdir(p) ==
  /\ ~ FilOpen(vol)
  /\ Call("f_mkdir", p, <<>>, LAMBDA v : FMkdir(v, p))
  /\ UNCHANGED <<known, text>>

(* What is below old is below new.                                           *)
Moved(old, new) ==
  LET from == {p \in DOMAIN known : IsPrefix(old, p)}
      To(p) == new \o SubSeq(p, Len(old) + 1, Len(p))
  IN  [q \in {To(p) : p \in from} |-> known[old \o SubSeq(q, Len(new) + 1, Len(q))]]
      @@ [p \in from |-> {Absent}]

Rename(old, new) ==
  /\ ~ FilOpen(vol)
  /\ Call("f_rename", old, new, LAMBDA v : FRename(v, old, new))
  /\ Learn(Moved(old, new))
  /\ UNCHANGED text

Utime(p) ==
  /\ ~ FilOpen(vol)
  /\ Call("f_utime", p, <<>>, LAMBDA v : FUtime(v, p))
  /\ UNCHANGED <<known, text>>

Read(p) ==
  /\ Call("f_read", p, <<>>, LAMBDA v : FRead(v, p))
  /\ UNCHANGED <<known, text>>

(* mount_volume after the power is back.                                     *)
Mount ==
  /\ ~ mounted
  /\ mounted' = TRUE
  /\ vol' = Fresh(vol.disk)
  /\ text' = <<>>
  /\ UNCHANGED <<last, known, calls, faults>>

Next ==
  \/ \E p \in Paths, mode \in Modes : Open(p, mode)
  \/ \E n \in Amounts : Write(n)
  \/ Close
  \/ \E p \in Paths : Unlink(p)
  \/ \E p \in Paths : Mkdir(p)
  \/ \E r \in Renames : Rename(r[1], r[2])
  \/ \E p \in Paths : Utime(p)
  \/ \E p \in Paths : Read(p)
  \/ Mount

Spec == Init /\ [][Next]_vars
=============================================================================
