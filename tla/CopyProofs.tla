----------------------------- MODULE CopyProofs -----------------------------
(* cp, for every volume, command line, failure and listing: what it touches, *)
(* what its -n protects, that it gives back every entry of the table of open *)
(* objects that it takes, how many entries it needs, and that the            *)
(* directories below what it copied are there when it reports success.       *)
EXTENDS Copy, FatFsFacts, FiniteSetTheorems, WellFoundedInduction

-----------------------------------------------------------------------------
(* A volume that changed at one path at most.                                *)
OnlyAt(t, u, x) ==
  /\ DOMAIN u \subseteq DOMAIN t \cup {x}
  /\ \A q \in DOMAIN t : q # x => q \in DOMAIN u /\ u[q] = t[q]

LEMMA UnlinkAt ==
  ASSUME NEW t, NEW f, NEW p, NEW faulty, NEW o \in Unlink(t, f, p, faulty)
  PROVE  OnlyAt(t, o.tree, p)
<1>1. o.tree = t \/ o.tree = Without(t, p)
  BY UnlinkOutcome
<1>2. /\ DOMAIN Without(t, p) = DOMAIN t \ {p}
      /\ \A q \in DOMAIN t \ {p} : Without(t, p)[q] = t[q]
  BY WithoutOne
<1> QED BY <1>1, <1>2 DEF OnlyAt

LEMMA WithAt ==
  ASSUME NEW t, NEW p, NEW node
  PROVE  OnlyAt(t, With(t, p, node), p)
BY DEF OnlyAt, With

LEMMA MkdirAt ==
  ASSUME NEW t, NEW p, NEW faulty, NEW o \in Mkdir(t, p, faulty)
  PROVE  OnlyAt(t, o.tree, p)
<1>1. o.tree = t \/ o.tree = With(t, p, DirNode)
  BY DEF Mkdir
<1> QED BY <1>1, WithAt DEF OnlyAt

Created(t, p) == With(t, p, FileNode(<<>>, FALSE))

LEMMA CreateOutcome ==
  ASSUME NEW t, NEW f, NEW p, NEW faulty, NEW o \in OpenCreate(t, f, p, faulty)
  PROVE  \/ /\ OpenCreateResult(t, f, p) = "FR_OK" /\ o.res = "FR_OK"
            /\ o.tree = Created(t, p) /\ o.files = IncShare(f, Entry(p), 1)
         \/ /\ o.res # "FR_OK" /\ o.files = f
            /\ o.tree = t \/ (OpenCreateResult(t, f, p) = "FR_OK" /\ o.tree = Created(t, p))
<1> DEFINE res  == OpenCreateResult(t, f, p)
           failed(u) == [res |-> "FR_DISK_ERR", tree |-> u, files |-> f]
           full == [res |-> "FR_DENIED", tree |-> t, files |-> f]
<1>1. CASE res = "FR_OK"
  <2>1. \/ o = [res |-> "FR_OK", tree |-> Created(t, p), files |-> IncShare(f, Entry(p), 1)]
        \/ o = failed(t) \/ o = failed(Created(t, p)) \/ o = full
    BY <1>1 DEF OpenCreate, Created
  <2> QED BY <1>1, <2>1
<1>2. CASE res # "FR_OK"
  <2>1. \/ o = [res |-> res, tree |-> t, files |-> f]
        \/ o = failed(t) \/ o = full
    BY <1>2 DEF OpenCreate
  <2> QED BY <1>2, <2>1
<1> QED BY <1>1, <1>2

LEMMA CreateAt ==
  ASSUME NEW t, NEW f, NEW p, NEW faulty, NEW o \in OpenCreate(t, f, p, faulty)
  PROVE  OnlyAt(t, o.tree, p)
<1>1. o.tree = t \/ o.tree = Created(t, p)
  BY CreateOutcome
<1>2. OnlyAt(t, t, p)
  BY DEF OnlyAt
<1>3. OnlyAt(t, Created(t, p), p)
  BY WithAt DEF Created
<1> QED BY <1>1, <1>2, <1>3

-----------------------------------------------------------------------------
(* The invariant: where cp is to write is below a goal of its line.          *)
Below(gs, p) == \E g \in gs : IsPrefix(g, p)

AtFile == {"stat", "source", "dest", "copy", "close", "undo", "restat", "discard"}
AtDir == {"mkdir", "opendir", "readdir"}
CopyCall == [dst : Seq(Names), src : Seq(Names), pos : Nat \ {0}]

Words ==
  /\ cmd \in Commands /\ DOMAIN tree \subseteq Seq(Names)
  /\ From(enum, Names, Range(cmd.args), Named)
  /\ target \in Seq(Names) /\ szTarget \in Seq(Names)
  /\ at \notin {"start", "exit"} => target \in NamedBy(<<cmd.target>>) /\ szTarget \in Goals
  /\ at \in {"clear", "contains"} => arg.path \in Seq(Names)

Places ==
  /\ stack \in Seq(Frame)
  /\ at \in AtDir => stack # <<>>
  /\ \A i \in DOMAIN stack : Below(Goals, stack[i].dst)
  /\ cf \in CopyCall
  /\ at \in AtFile => Below(Goals, cf.dst)

(* What a line may name is a path, and an argument never the root.           *)
LEMMA LineNames ==
  ASSUME cmd \in Commands
  PROVE  Named \subseteq Seq(Names) \ {<<>>} /\ Goals \subseteq Seq(Names)
<1>1. /\ cmd.args \in Seq(Word(Names)) /\ cmd.target \in Word(Names)
      /\ \A w \in Range(cmd.args) : w.path # <<>>
  BY CopyAssumption
<1>2. ASSUME NEW w \in Word(Names), NEW p \in OfWord(w)
      PROVE  p \in Seq(Names) /\ (w.path # <<>> => p # <<>>)
  <2>1. w.path \in Seq(Names) /\ w.match \subseteq Names /\ (w.glob => w.path # <<>>)
    BY DEF Word
  <2>2. CASE w.glob
    <3>1. PICK n \in Names : p = Append(Front(w.path), n)
      BY <2>1, <2>2 DEF OfWord
    <3>2. Front(w.path) \in Seq(Names)
      BY <2>1, <2>2, FrontFacts
    <3> QED BY <3>1, <3>2, AppendProperties
  <2>3. CASE ~ w.glob
    BY <2>1, <2>3 DEF OfWord
  <2> QED BY <2>2, <2>3
<1>3. Range(cmd.args) \subseteq Word(Names)
  BY <1>1, LenProperties DEF Range
<1>4. Named \subseteq Seq(Names) \ {<<>>}
  <2>1. ASSUME NEW p \in Named PROVE \E w \in Range(cmd.args) : p \in OfWord(w)
    BY DEF Named, NamedBy, OfWord
  <2> QED BY <1>1, <1>2, <1>3, <2>1
<1>5. NamedBy(<<cmd.target>>) \subseteq Seq(Names)
  BY <1>1, <1>2, OneWord
<1>6. ASSUME NEW p \in NamedBy(<<cmd.target>>), NEW q \in Named
      PROVE  Append(p, Last(q)) \in Seq(Names)
  <2>1. Last(q) \in Names
    BY <1>4, FrontAndLast
  <2> QED BY <1>5, <2>1, AppendProperties
<1>7. \A g \in Goals : \/ g \in NamedBy(<<cmd.target>>)
                       \/ \E p \in NamedBy(<<cmd.target>>) : \E q \in Named : g = Append(p, Last(q))
  BY DEF Goals
<1> QED BY <1>4, <1>5, <1>6, <1>7

LEMMA GoalReached ==
  ASSUME cmd \in Commands, NEW g \in Goals
  PROVE  g \in Seq(Names) /\ Below(Goals, g)
<1>1. g \in Seq(Names)
  BY LineNames
<1>2. IsPrefix(g, g)
  BY <1>1, PrefixOfItself
<1> QED BY <1>1, <1>2 DEF Below

LEMMA BelowReached ==
  ASSUME cmd \in Commands, NEW p \in Seq(Names), NEW n \in Names, Below(Goals, p)
  PROVE  Append(p, n) \in Seq(Names) /\ Below(Goals, Append(p, n))
<1>1. PICK g \in Goals : IsPrefix(g, p)
  BY DEF Below
<1>2. g \in Seq(Names)
  BY <1>1, LineNames
<1>3. Append(p, n) \in Seq(Names) /\ IsPrefix(g, Append(p, n))
  BY <1>1, <1>2, PrefixOfLonger
<1> QED BY <1>3 DEF Below

LEMMA SameLine ==
  ASSUME cmd' = cmd
  PROVE  Named' = Named /\ Goals' = Goals
BY DEF Named, Goals

-----------------------------------------------------------------------------
(* Frames.                                                                   *)
LEMMA TopFacts ==
  ASSUME stack \in Seq(Frame), stack # <<>>
  PROVE  /\ Len(stack) \in Nat /\ Len(stack) >= 1 /\ DOMAIN stack = 1 .. Len(stack)
         /\ Len(stack) \in DOMAIN stack /\ Top = stack[Len(stack)] /\ Top \in Frame
         /\ Front(stack) \in Seq(Frame) /\ DOMAIN Front(stack) = DOMAIN stack \ {Len(stack)}
         /\ \A i \in DOMAIN Front(stack) : Front(stack)[i] = stack[i]
<1>1. Len(stack) \in Nat /\ Len(stack) >= 1 /\ DOMAIN stack = 1 .. Len(stack)
  BY NonEmpty
<1>2. Len(stack) \in DOMAIN stack /\ Top = stack[Len(stack)] /\ Top \in Frame
  BY <1>1, ElementOfSeq DEF Top, Last
<1>3. /\ Front(stack) \in Seq(Frame) /\ Len(Front(stack)) = Len(stack) - 1
      /\ \A i \in 1 .. Len(stack) - 1 : Front(stack)[i] = stack[i]
  BY FrontFacts
<1>4. DOMAIN Front(stack) = 1 .. Len(stack) - 1
  BY <1>3, LenProperties
<1>5. \A n \in Nat : 1 .. n - 1 = (1 .. n) \ {n}
  OBVIOUS
<1> QED BY <1>1, <1>2, <1>3, <1>4, <1>5

(* The frames of a stack, without what they have seen and what went wrong.   *)
SameFrames(st, tt) ==
  /\ st \in Seq(Frame) /\ DOMAIN st = DOMAIN tt /\ Len(st) = Len(tt)
  /\ \A i \in DOMAIN tt : st[i].dst = tt[i].dst /\ st[i].src = tt[i].src

(* What the directories of a stack held when they were opened.               *)
SameListed(st, tt) == DOMAIN st = DOMAIN tt /\ \A i \in DOMAIN tt : st[i].listed = tt[i].listed

LEMMA Marked ==
  ASSUME NEW st \in Seq(Frame), NEW k \in DOMAIN st, NEW b \in BOOLEAN
  PROVE  /\ SameFrames([st EXCEPT ![k].errFlag = b], st)
         /\ SameListed([st EXCEPT ![k].errFlag = b], st)
<1>1. st[k] \in Frame
  BY ElementOfSeq, LenProperties
<1>2. [st[k] EXCEPT !.errFlag = b] \in Frame
  BY <1>1 DEF Frame
<1>3. st[k] = [dst |-> st[k].dst, src |-> st[k].src, listed |-> st[k].listed, seen |-> st[k].seen, errFlag |-> st[k].errFlag]
  BY <1>1 DEF Frame
<1>4. /\ [st[k] EXCEPT !.errFlag = b].dst = st[k].dst
      /\ [st[k] EXCEPT !.errFlag = b].src = st[k].src
      /\ [st[k] EXCEPT !.errFlag = b].listed = st[k].listed
  BY <1>3
<1>5. [st EXCEPT ![k] = [st[k] EXCEPT !.errFlag = b]] \in Seq(Frame)
  BY <1>2, ExceptSeq
<1> QED BY <1>4, <1>5 DEF SameFrames, SameListed

(* A call that returns: its caller's frame is marked at most.                *)
LEMMA AfterReturn ==
  ASSUME NEW outer \in Seq(Frame), NEW failed, ReturnTo(outer, failed)
  PROVE  /\ SameFrames(stack', outer) /\ SameListed(stack', outer)
         /\ outer = <<>> => at' = "next" /\ stack' = <<>>
         /\ outer # <<>> => at' = "readdir" /\ stack' # <<>>
<1>1. CASE outer = <<>>
  BY <1>1 DEF ReturnTo, SameFrames, SameListed
<1>2. CASE outer # <<>>
  <2> DEFINE b == outer[Len(outer)].errFlag \/ failed
  <2>1. Len(outer) \in Nat /\ Len(outer) >= 1 /\ Len(outer) \in DOMAIN outer /\ b \in BOOLEAN
    BY <1>2, NonEmpty
  <2>2. stack' = [outer EXCEPT ![Len(outer)].errFlag = b] /\ at' = "readdir"
    BY <1>2 DEF ReturnTo
  <2> HIDE DEF b
  <2>3. SameFrames(stack', outer) /\ SameListed(stack', outer)
    BY <2>1, <2>2, Marked
  <2>4. stack' # <<>>
    BY <2>1, <2>3 DEF SameFrames
  <2> QED BY <1>2, <2>2, <2>3, <2>4
<1> QED BY <1>1, <1>2

LEMMA PlacesAfterReturn ==
  ASSUME Places, UNCHANGED <<cmd, cf>>, NEW outer, NEW failed, ReturnTo(outer, failed),
         outer = stack \/ (stack # <<>> /\ outer = Front(stack))
  PROVE  Places'
<1>1. \A i \in DOMAIN outer : i \in DOMAIN stack /\ outer[i] = stack[i]
  BY TopFacts DEF Places
<1>2. outer \in Seq(Frame)
  BY TopFacts DEF Places
<1>3. /\ SameFrames(stack', outer) /\ at' \in {"next", "readdir"}
      /\ at' = "readdir" => stack' # <<>>
  BY <1>2, AfterReturn
<1>4. \A i \in DOMAIN stack' : Below(Goals, stack'[i].dst)
  BY <1>1, <1>3 DEF SameFrames, Places
<1>5. Goals' = Goals
  BY SameLine
<1> QED BY <1>3, <1>4, <1>5 DEF Places, SameFrames, AtDir, AtFile

(* Where nothing happens to the stack, but perhaps to the call of f_copyfile.*)
LEMMA PlacesSame ==
  ASSUME Places, cmd' = cmd, stack' = stack,
         at' \in AtDir => stack # <<>>,
         cf' \in CopyCall, at' \in AtFile => Below(Goals, cf'.dst)
  PROVE  Places'
<1>1. Goals' = Goals
  BY SameLine
<1> QED BY <1>1 DEF Places, AtDir, AtFile

(* Where no call is made or returns.                                         *)
LEMMA PlacesFrames ==
  ASSUME Places, UNCHANGED <<cmd, cf>>, SameFrames(stack', stack), stack' # <<>>, at' \notin AtFile
  PROVE  Places'
<1>1. Goals' = Goals
  BY SameLine
<1> QED BY <1>1 DEF Places, SameFrames

-----------------------------------------------------------------------------
(* The steps on the volume: each changes one path, below a goal.             *)
LEMMA TopReached ==
  ASSUME Places, at \in AtDir
  PROVE  Top.dst \in Seq(Names) /\ Top.src \in Seq(Names) /\ Below(Goals, Top.dst)
<1>1. stack # <<>> /\ stack \in Seq(Frame)
  BY DEF Places
<1>2. Top \in Frame /\ Top = stack[Len(stack)] /\ Len(stack) \in DOMAIN stack
  BY <1>1, TopFacts
<1>3. Below(Goals, Top.dst)
  BY <1>2 DEF Places
<1> QED BY <1>2, <1>3 DEF Frame

LEMMA ChunkAt ==
  ASSUME CopyChunk
  PROVE  OnlyAt(tree, tree', cf.dst)
<1>1. tree' = tree \/ tree' = [tree EXCEPT ![cf.dst].data = Append(@, Chunk)]
  BY DEF CopyChunk
<1> QED BY <1>1 DEF OnlyAt

LEMMA TreeStep ==
  ASSUME Words, Places, Step, tree' # tree
  PROVE  /\ ClearTarget \/ MakeDir \/ OpenDest \/ CopyChunk \/ SetTime \/ Discard
         /\ \E x \in Seq(Names) : Below(Goals, x) /\ OnlyAt(tree, tree', x)
<1>1. CASE ClearTarget
  <2>1. szTarget \in Goals /\ cmd \in Commands
    BY <1>1 DEF ClearTarget, Words
  <2>2. OnlyAt(tree, tree', szTarget)
    BY <1>1, UnlinkAt DEF ClearTarget
  <2> QED BY <1>1, <2>1, <2>2, GoalReached
<1>2. CASE MakeDir
  <2>1. at \in AtDir
    BY <1>2 DEF MakeDir, AtDir
  <2>2. OnlyAt(tree, tree', Top.dst)
    BY <1>2, MkdirAt DEF MakeDir
  <2> QED BY <1>2, <2>1, <2>2, TopReached
<1>3. ASSUME at \in AtFile, OnlyAt(tree, tree', cf.dst)
      PROVE  \E x \in Seq(Names) : Below(Goals, x) /\ OnlyAt(tree, tree', x)
  BY <1>3 DEF Places, CopyCall
<1>4. CASE OpenDest
  <2>1. OnlyAt(tree, tree', cf.dst) /\ at \in AtFile
    BY <1>4, CreateAt DEF OpenDest, AtFile
  <2> QED BY <1>3, <1>4, <2>1
<1>5. CASE CopyChunk
  <2>1. OnlyAt(tree, tree', cf.dst) /\ at \in AtFile
    BY <1>5, ChunkAt DEF CopyChunk, AtFile
  <2> QED BY <1>3, <1>5, <2>1
<1>6. CASE SetTime
  <2>1. OnlyAt(tree, tree', cf.dst) /\ at \in AtFile
    BY <1>6, UnlinkAt DEF SetTime, AtFile
  <2> QED BY <1>3, <1>6, <2>1
<1>7. CASE Discard
  <2>1. OnlyAt(tree, tree', cf.dst) /\ at \in AtFile
    BY <1>7, UnlinkAt DEF Discard, AtFile
  <2> QED BY <1>3, <1>7, <2>1
<1> QED BY <1>1, <1>2, <1>4, <1>5, <1>6, <1>7
        DEF Step, Start, NextArgument, CopyDirArgument, NoMore, OpenDir, LeaveDir, CopyEntry,
            StatDest, OpenSource, CloseBoth

LEMMA NamesKept ==
  ASSUME Words, Places, Step
  PROVE  DOMAIN tree' \subseteq Seq(Names)
<1>1. DOMAIN tree \subseteq Seq(Names)
  BY DEF Words
<1> QED BY <1>1, TreeStep DEF OnlyAt

-----------------------------------------------------------------------------
(* The steps of the enumeration.                                             *)
LEMMA StartWords ==
  ASSUME Words, Start
  PROVE  Words'
<1>1. cmd \in Commands /\ cmd.target \in Word(Names) /\ DOMAIN tree \subseteq Seq(Names)
  BY CopyAssumption DEF Words
<1>2. PICK a \in TargetArg(tree, files, cmd.target, failing) :
        target' = a.path /\ szTarget' = a.path /\ at' = IF a.err THEN "exit" ELSE "next"
  BY DEF Start
<1> DEFINE e == Enumeration(<<cmd.target>>)
<1>3. /\ <<cmd.target>> \in Seq(Word(Names)) /\ Range(<<cmd.target>>) = {cmd.target}
      /\ <<cmd.target>> # <<>>
  BY <1>1 DEF Range
<1>4. From(e, Names, {cmd.target}, OfWord(cmd.target)) /\ e.todo # <<>>
  BY <1>3, FreshEnumeration DEF Enumeration
<1>5. a \in NextArg(tree, files, e, failing)
  BY <1>2 DEF TargetArg
<1> HIDE DEF e
<1>6. a.path \in OfWord(cmd.target) /\ a.path \in Seq(Names)
  BY <1>1, <1>4, <1>5, NextArgNames
<1>7. target' \in NamedBy(<<cmd.target>>) /\ szTarget' \in Goals
  BY <1>2, <1>6, OneWord DEF Goals
<1>8. cmd' = cmd /\ tree' = tree /\ enum' = enum /\ at' \in {"exit", "next"}
  BY <1>2 DEF Start
<1>9. Named' = Named /\ Goals' = Goals
  BY <1>8, SameLine
<1>10. From(enum, Names, Range(cmd.args), Named)'
  BY <1>8, <1>9 DEF Words
<1> QED BY <1>2, <1>6, <1>7, <1>8, <1>9, <1>10 DEF Words

(* What the next argument can be, and where it is to go.                     *)
LEMMA TheArgument ==
  ASSUME Words, at = "next", ~ Done(enum), NEW a \in NextArg(tree, files, enum, failing)
  PROVE  /\ From(a.enum, Names, Range(cmd.args), Named)
         /\ a.path \in Named /\ a.path \in Seq(Names)
         /\ Append(target, Last(a.path)) \in Goals /\ Append(target, Last(a.path)) \in Seq(Names)
         /\ szTarget \in Goals /\ szTarget \in Seq(Names)
<1>1. \A w \in Range(cmd.args) : OfWord(w) \subseteq Named
  BY WordNames DEF Named
<1>2. enum.todo # <<>> \/ enum.listing # {}
  BY DEF Done
<1>3. From(a.enum, Names, Range(cmd.args), Named) /\ a.path \in Named /\ a.path \in Seq(Names)
  BY <1>1, <1>2, NextArgNames DEF Words
<1>4. target \in NamedBy(<<cmd.target>>) /\ szTarget \in Goals /\ cmd \in Commands
  BY DEF Words
<1>5. Append(target, Last(a.path)) \in Goals
  BY <1>3, <1>4 DEF Goals
<1> QED BY <1>3, <1>4, <1>5, LineNames

LEMMA NextArgumentKept ==
  ASSUME Words, Places, NextArgument
  PROVE  Words' /\ Places'
<1>1. PICK a \in NextArg(tree, files, enum, failing) :
        /\ enum' = a.enum /\ arg'.path = a.path
        /\ szTarget' \in {szTarget, Append(target, Last(a.path))}
        /\ at' \in {"next", "stat", "clear", "contains"}
        /\ \/ at' # "stat" /\ cf' = cf
           \/ at' = "stat" /\ cf' = [dst |-> szTarget', src |-> a.path, pos |-> 1]
  BY DEF NextArgument
<1>2. /\ at = "next" /\ ~ Done(enum) /\ cmd' = cmd /\ tree' = tree /\ stack' = stack
      /\ target' = target
  BY DEF NextArgument, command
<1>3. /\ From(a.enum, Names, Range(cmd.args), Named)
      /\ a.path \in Named /\ a.path \in Seq(Names)
      /\ szTarget' \in Goals /\ szTarget' \in Seq(Names)
  BY <1>1, <1>2, TheArgument
<1>4. Named' = Named /\ Goals' = Goals
  BY <1>2, SameLine
<1>5. From(enum, Names, Range(cmd.args), Named)'
  BY <1>1, <1>2, <1>3, <1>4
<1>6. target' \in NamedBy(<<cmd.target>>)' /\ DOMAIN tree \subseteq Seq(Names)
  BY <1>2 DEF Words
<1>7. Words'
  BY <1>1, <1>2, <1>3, <1>4, <1>5, <1>6 DEF Words
<1>8. Below(Goals, szTarget')
  BY <1>3, GoalReached DEF Words
<1>9. at' \notin AtDir /\ (at' \in AtFile => at' = "stat")
  BY <1>1 DEF AtDir, AtFile
<1>10. cf' \in CopyCall /\ (at' = "stat" => cf'.dst = szTarget')
  BY <1>1, <1>3 DEF CopyCall, Places
<1>11. Places'
  BY <1>2, <1>8, <1>9, <1>10, PlacesSame
<1> QED BY <1>7, <1>11

LEMMA WordsSame ==
  ASSUME Words, Places, Step, UNCHANGED <<cmd, enum, target, szTarget, arg>>,
         at \notin {"start", "exit"},
         at' \in {"clear", "contains"} => at \in {"clear", "contains"}
  PROVE  Words'
<1>1. Named' = Named /\ Goals' = Goals
  BY SameLine
<1>2. From(enum, Names, Range(cmd.args), Named)'
  BY <1>1 DEF Words
<1> QED BY <1>1, <1>2, NamesKept DEF Words

(* The frames of f_copydir.                                                  *)
LEMMA Seen ==
  ASSUME NEW st \in Seq(Frame), NEW k \in DOMAIN st, NEW n \in Names
  PROVE  /\ SameFrames([st EXCEPT ![k].seen = @ \cup {n}], st)
         /\ SameListed([st EXCEPT ![k].seen = @ \cup {n}], st)
<1> DEFINE new == st[k].seen \cup {n}
<1>1. st[k] \in Frame
  BY ElementOfSeq, LenProperties
<1>2. [st[k] EXCEPT !.seen = new] \in Frame
  BY <1>1 DEF Frame
<1>3. st[k] = [dst |-> st[k].dst, src |-> st[k].src, listed |-> st[k].listed, seen |-> st[k].seen, errFlag |-> st[k].errFlag]
  BY <1>1 DEF Frame
<1> HIDE DEF new
<1>4. /\ [st[k] EXCEPT !.seen = new].dst = st[k].dst
      /\ [st[k] EXCEPT !.seen = new].src = st[k].src
      /\ [st[k] EXCEPT !.seen = new].listed = st[k].listed
  BY <1>3
<1>5. [st EXCEPT ![k] = [st[k] EXCEPT !.seen = new]] \in Seq(Frame)
  BY <1>2, ExceptSeq
<1>6. /\ SameFrames([st EXCEPT ![k] = [st[k] EXCEPT !.seen = new]], st)
      /\ SameListed([st EXCEPT ![k] = [st[k] EXCEPT !.seen = new]], st)
  BY <1>4, <1>5 DEF SameFrames, SameListed
<1> QED BY <1>6 DEF new

LEMMA SameFramesStep ==
  ASSUME NEW s1, NEW s2, NEW s3, SameFrames(s1, s2), SameFrames(s2, s3),
         SameListed(s1, s2), SameListed(s2, s3)
  PROVE  SameFrames(s1, s3) /\ SameListed(s1, s3)
BY DEF SameFrames, SameListed

(* A directory is opened: what is in it is noted.                            *)
LEMMA Noted ==
  ASSUME NEW st \in Seq(Frame), NEW k \in DOMAIN st, NEW new \in SUBSET Names
  PROVE  /\ SameFrames([st EXCEPT ![k].listed = new], st)
         /\ [st EXCEPT ![k].listed = new][k].listed = new
         /\ [st EXCEPT ![k].listed = new][k].seen = st[k].seen
         /\ [st EXCEPT ![k].listed = new][k].errFlag = st[k].errFlag
         /\ \A i \in DOMAIN st : i # k => [st EXCEPT ![k].listed = new][i] = st[i]
<1>1. st[k] \in Frame
  BY ElementOfSeq, LenProperties
<1>2. [st[k] EXCEPT !.listed = new] \in Frame
  BY <1>1 DEF Frame
<1>3. st[k] = [dst |-> st[k].dst, src |-> st[k].src, listed |-> st[k].listed, seen |-> st[k].seen, errFlag |-> st[k].errFlag]
  BY <1>1 DEF Frame
<1>4. /\ [st[k] EXCEPT !.listed = new].dst = st[k].dst
      /\ [st[k] EXCEPT !.listed = new].src = st[k].src
      /\ [st[k] EXCEPT !.listed = new].seen = st[k].seen
      /\ [st[k] EXCEPT !.listed = new].errFlag = st[k].errFlag
      /\ [st[k] EXCEPT !.listed = new].listed = new
  BY <1>3
<1>5. [st EXCEPT ![k] = [st[k] EXCEPT !.listed = new]] \in Seq(Frame)
  BY <1>2, ExceptSeq
<1>6. st \in [1 .. Len(st) -> Frame] /\ DOMAIN st = 1 .. Len(st)
  BY LenProperties
<1> DEFINE r == [st[k] EXCEPT !.listed = new]
<1>7. r.dst = st[k].dst /\ r.src = st[k].src /\ r.seen = st[k].seen /\ r.errFlag = st[k].errFlag /\ r.listed = new
  BY <1>4
<1>8. [st EXCEPT ![k] = r] \in Seq(Frame)
  BY <1>5
<1> HIDE DEF r
<1>9. /\ [st EXCEPT ![k] = r][k] = r
      /\ \A i \in DOMAIN st : i # k => [st EXCEPT ![k] = r][i] = st[i]
  BY <1>6
<1>10. SameFrames([st EXCEPT ![k] = r], st)
  BY <1>7, <1>8, ExceptSeq DEF SameFrames
<1> QED BY <1>7, <1>9, <1>10 DEF r

LEMMA NamesInNames ==
  ASSUME Words, NEW p
  PROVE  NamesIn(tree, p) \in SUBSET Names
<1> SUFFICES ASSUME NEW q \in Children(tree, p) PROVE Last(q) \in Names
  BY DEF NamesIn
<1>1. q \in Seq(Names) /\ q # <<>>
  BY DEF Children, Words
<1> QED BY <1>1, FrontAndLast

LEMMA OpenDirStep ==
  ASSUME Words, Places, OpenDir
  PROVE  \/ /\ at' = "readdir" /\ stack' # <<>> /\ SameFrames(stack', stack)
            /\ NamesIn(tree, Top.src) \in SUBSET Names
            /\ stack' = [stack EXCEPT ![Len(stack)].listed = NamesIn(tree, Top.src)]
         \/ ReturnTo(Front(stack), TRUE)
<1>1. stack # <<>> /\ stack \in Seq(Frame)
  BY DEF OpenDir, Places, AtDir
<1>2. Len(stack) \in DOMAIN stack
  BY <1>1, TopFacts
<1>3. NamesIn(tree, Top.src) \in SUBSET Names
  BY NamesInNames
<1>4. \/ /\ at' = "readdir"
         /\ stack' = [stack EXCEPT ![Len(stack)].listed = NamesIn(tree, Top.src)]
      \/ ReturnTo(Front(stack), TRUE)
  BY DEF OpenDir
<1> HIDE DEF NamesIn
<1>5. CASE stack' = [stack EXCEPT ![Len(stack)].listed = NamesIn(tree, Top.src)] /\ at' = "readdir"
  <2>1. SameFrames(stack', stack)
    BY <1>1, <1>2, <1>3, <1>5, Noted
  <2>2. stack' # <<>>
    BY <1>2, <2>1 DEF SameFrames
  <2> QED BY <1>3, <1>5, <2>1, <2>2
<1> QED BY <1>4, <1>5

LEMMA Pushed ==
  ASSUME NEW st \in Seq(Frame), NEW dst \in Seq(Names), NEW src \in Seq(Names)
  PROVE  LET u == Append(st, NewFrame(dst, src))
         IN  /\ u \in Seq(Frame) /\ u # <<>> /\ Len(u) = Len(st) + 1
             /\ DOMAIN u = DOMAIN st \cup {Len(st) + 1}
             /\ \A i \in DOMAIN st : u[i] = st[i]
             /\ u[Len(st) + 1].dst = dst /\ u[Len(st) + 1].src = src
<1> DEFINE fr == NewFrame(dst, src)
           u == Append(st, fr)
<1>1. fr \in Frame /\ fr.dst = dst /\ fr.src = src
  BY DEF Frame, NewFrame
<1> HIDE DEF fr
<1>2. /\ u \in Seq(Frame) /\ Len(u) = Len(st) + 1 /\ u # <<>>
      /\ \A i \in 1 .. Len(st) : u[i] = st[i]
      /\ u[Len(st) + 1] = fr
  BY <1>1, AppendProperties
<1>3. Len(st) \in Nat /\ DOMAIN st = 1 .. Len(st)
  BY LenProperties
<1> HIDE DEF u
<1>4. DOMAIN u = 1 .. Len(st) + 1
  BY <1>2, LenProperties
<1>5. \A n \in Nat : 1 .. n + 1 = (1 .. n) \cup {n + 1}
  OBVIOUS
<1>6. DOMAIN u = DOMAIN st \cup {Len(st) + 1}
  BY <1>3, <1>4, <1>5
<1> QED BY <1>1, <1>2, <1>3, <1>6 DEF u, fr

(* What an entry of the directory does to the stack.                         *)
LEMMA EntryStep ==
  ASSUME Words, Places, CopyEntry
  PROVE  \E p \in Unread, st \in Seq(Frame) :
           LET dst == Append(Top.dst, Last(p))
           IN  /\ SameFrames(st, stack) /\ SameListed(st, stack)
               /\ \/ stack' = st /\ at' = "readdir" /\ cf' = cf
                  \/ /\ stack' = Append(st, NewFrame(dst, p)) /\ at' = "mkdir" /\ cf' = cf
                     /\ tree[p].dir
                  \/ stack' = st /\ at' = "stat" /\ cf' = [dst |-> dst, src |-> p, pos |-> 1]
<1>1. at = "readdir" /\ stack # <<>> /\ stack \in Seq(Frame)
  BY DEF CopyEntry, Places, AtDir
<1>2. Len(stack) \in DOMAIN stack /\ Top \in Frame
  BY <1>1, TopFacts
<1> DEFINE Dst(p) == Append(Top.dst, Last(p))
           st(p) == [stack EXCEPT ![Len(stack)].seen = @ \cup {Last(p)}]
<1>3. PICK p \in Unread :
        \/ stack' = st(p) /\ UNCHANGED <<at, cf>>
        \/ stack' = [st(p) EXCEPT ![Len(stack)].errFlag = TRUE] /\ UNCHANGED <<at, cf>>
        \/ /\ stack' = Append(st(p), NewFrame(Dst(p), p)) /\ at' = "mkdir" /\ UNCHANGED cf
           /\ tree[p].dir
        \/ stack' = st(p) /\ at' = "stat" /\ cf' = [dst |-> Dst(p), src |-> p, pos |-> 1]
  BY DEF CopyEntry, NewFrame
<1>4. p \in Seq(Names) /\ p # <<>>
  BY <1>3 DEF Unread, Children, Words
<1>5. Last(p) \in Names
  BY <1>4, FrontAndLast
<1> DEFINE s == st(p)
<1>6. SameFrames(s, stack) /\ SameListed(s, stack)
  BY <1>1, <1>2, <1>5, Seen
<1> HIDE DEF s
<1>7. s \in Seq(Frame) /\ Len(stack) \in DOMAIN s
  BY <1>2, <1>6 DEF SameFrames
<1>8. /\ SameFrames([s EXCEPT ![Len(stack)].errFlag = TRUE], s)
      /\ SameListed([s EXCEPT ![Len(stack)].errFlag = TRUE], s)
  BY <1>7, Marked
<1>9. /\ SameFrames([s EXCEPT ![Len(stack)].errFlag = TRUE], stack)
      /\ SameListed([s EXCEPT ![Len(stack)].errFlag = TRUE], stack)
      /\ [s EXCEPT ![Len(stack)].errFlag = TRUE] \in Seq(Frame)
  BY <1>6, <1>8, SameFramesStep DEF SameFrames
<1>10. CASE stack' = s /\ UNCHANGED <<at, cf>>
  BY <1>1, <1>3, <1>6, <1>7, <1>10
<1>11. CASE stack' = [s EXCEPT ![Len(stack)].errFlag = TRUE] /\ UNCHANGED <<at, cf>>
  BY <1>1, <1>3, <1>9, <1>11
<1>12. CASE /\ stack' = Append(s, NewFrame(Dst(p), p)) /\ at' = "mkdir" /\ UNCHANGED cf
            /\ tree[p].dir
  BY <1>3, <1>6, <1>7, <1>12
<1>13. CASE stack' = s /\ at' = "stat" /\ cf' = [dst |-> Dst(p), src |-> p, pos |-> 1]
  BY <1>3, <1>6, <1>7, <1>13
<1> QED BY <1>3, <1>10, <1>11, <1>12, <1>13 DEF s

LEMMA CopyEntryPlaces ==
  ASSUME Words, Places, CopyEntry
  PROVE  Places'
<1>1. at \in AtDir /\ cmd' = cmd /\ cmd \in Commands /\ stack \in Seq(Frame)
  BY DEF CopyEntry, AtDir, command, Words, Places
<1> DEFINE Dst(p) == Append(Top.dst, Last(p))
<1>2. PICK p \in Unread, st \in Seq(Frame) :
        /\ SameFrames(st, stack)
        /\ \/ stack' = st /\ at' = "readdir" /\ cf' = cf
           \/ stack' = Append(st, NewFrame(Dst(p), p)) /\ at' = "mkdir" /\ cf' = cf
           \/ stack' = st /\ at' = "stat" /\ cf' = [dst |-> Dst(p), src |-> p, pos |-> 1]
  BY EntryStep
<1>3. p \in Seq(Names) /\ p # <<>>
  BY <1>2 DEF Unread, Children, Words
<1>4. Dst(p) \in Seq(Names) /\ Below(Goals, Dst(p))
  <2>1. Last(p) \in Names
    BY <1>3, FrontAndLast
  <2> QED BY <1>1, <2>1, TopReached, BelowReached
<1>5. Goals' = Goals /\ stack # <<>>
  BY <1>1, SameLine DEF Places
<1>6. /\ st # <<>> /\ \A i \in DOMAIN st : Below(Goals, st[i].dst)
      /\ DOMAIN st = DOMAIN stack /\ Len(st) = Len(stack)
  <2>1. Len(stack) \in DOMAIN stack
    BY <1>1, <1>5, TopFacts
  <2>2. DOMAIN st = DOMAIN stack /\ Len(st) = Len(stack)
        /\ \A i \in DOMAIN st : Below(Goals, st[i].dst)
    BY <1>2 DEF SameFrames, Places
  <2>3. st # <<>>
    BY <2>1, <2>2, EmptySeq
  <2> QED BY <2>2, <2>3
<1> HIDE DEF Dst
<1>7. CASE stack' = st /\ at' = "readdir" /\ cf' = cf
  BY <1>2, <1>5, <1>6, <1>7 DEF Places, AtDir, AtFile
<1>8. CASE stack' = Append(st, NewFrame(Dst(p), p)) /\ at' = "mkdir" /\ cf' = cf
  <2>1. /\ stack' \in Seq(Frame) /\ stack' # <<>>
        /\ DOMAIN stack' = DOMAIN st \cup {Len(st) + 1}
        /\ \A i \in DOMAIN st : stack'[i] = st[i]
        /\ stack'[Len(st) + 1].dst = Dst(p)
    BY <1>2, <1>3, <1>4, <1>8, Pushed
  <2>2. \A i \in DOMAIN stack' : Below(Goals, stack'[i].dst)
    BY <1>4, <1>6, <2>1
  <2> QED BY <1>5, <1>8, <2>1, <2>2 DEF Places, AtDir, AtFile
<1>9. CASE stack' = st /\ at' = "stat" /\ cf' = [dst |-> Dst(p), src |-> p, pos |-> 1]
  <2>1. cf'.dst = Dst(p) /\ cf' \in CopyCall
    BY <1>3, <1>4, <1>9 DEF CopyCall
  <2> QED BY <1>2, <1>3, <1>4, <1>5, <1>6, <1>9, <2>1 DEF Places, AtDir, AtFile
<1> QED BY <1>2, <1>7, <1>8, <1>9

LEMMA CopyDirArgumentPlaces ==
  ASSUME Words, Places, CopyDirArgument
  PROVE  Places'
<1>1. /\ at = "contains" /\ cmd' = cmd /\ cf' = cf /\ cf \in CopyCall
      /\ szTarget \in Seq(Names) /\ arg.path \in Seq(Names)
      /\ szTarget \in Goals /\ cmd \in Commands
  BY DEF CopyDirArgument, command, Words, Places
<1>2. Below(Goals, szTarget)
  BY <1>1, GoalReached
<1>3. CASE at' = "next" /\ stack' = stack
  BY <1>1, <1>3, PlacesSame DEF AtDir, AtFile
<1>4. CASE at' = "mkdir" /\ stack' = <<NewFrame(szTarget, arg.path)>>
  <2>1. NewFrame(szTarget, arg.path) \in Frame /\ NewFrame(szTarget, arg.path).dst = szTarget
    BY <1>1 DEF Frame, NewFrame
  <2>2. /\ stack' \in Seq(Frame) /\ stack' # <<>>
        /\ \A i \in DOMAIN stack' : stack'[i].dst = szTarget
    BY <1>4, <2>1
  <2>3. Goals' = Goals
    BY <1>1, SameLine
  <2> QED BY <1>1, <1>2, <1>4, <2>2, <2>3 DEF Places, AtDir, AtFile
<1> QED BY <1>3, <1>4 DEF CopyDirArgument, NewFrame

LEMMA PlacesNext ==
  ASSUME Words, Places, Step
  PROVE  Places'
<1>0. cf \in CopyCall
  BY DEF Places
<1>1. CASE Start
  BY <1>0, <1>1, PlacesSame DEF Start, AtDir, AtFile
<1>2. CASE NextArgument
  BY <1>2, NextArgumentKept
<1>3. CASE ClearTarget
  BY <1>0, <1>3, PlacesSame DEF ClearTarget, command, AtDir, AtFile
<1>4. CASE CopyDirArgument
  BY <1>4, CopyDirArgumentPlaces
<1>5. CASE NoMore
  BY <1>0, <1>5, PlacesSame DEF NoMore, command, AtDir, AtFile
<1>6. CASE MakeDir
  <2>1. at \in AtDir /\ UNCHANGED <<cmd, cf>> /\ stack # <<>>
    BY <1>6 DEF MakeDir, command, AtDir, Places
  <2>2. (at' = "opendir" /\ stack' = stack) \/ ReturnTo(Front(stack), TRUE)
    BY <1>6 DEF MakeDir
  <2>3. CASE at' = "opendir" /\ stack' = stack
    BY <1>0, <2>1, <2>3, PlacesSame DEF AtDir, AtFile
  <2>4. CASE ReturnTo(Front(stack), TRUE)
    BY <2>1, <2>4, PlacesAfterReturn
  <2> QED BY <2>2, <2>3, <2>4
<1>7. CASE OpenDir
  <2>1. at \in AtDir /\ UNCHANGED <<cmd, cf>> /\ stack # <<>>
    BY <1>7 DEF OpenDir, command, AtDir, Places
  <2>2. (at' = "readdir" /\ stack' # <<>> /\ SameFrames(stack', stack)) \/ ReturnTo(Front(stack), TRUE)
    BY <1>7, OpenDirStep
  <2>3. CASE at' = "readdir" /\ stack' # <<>> /\ SameFrames(stack', stack)
    BY <2>1, <2>3, PlacesFrames DEF AtFile
  <2>4. CASE ReturnTo(Front(stack), TRUE)
    BY <2>1, <2>4, PlacesAfterReturn
  <2> QED BY <2>2, <2>3, <2>4
<1>8. CASE LeaveDir
  <2>1. at \in AtDir /\ UNCHANGED <<cmd, cf>> /\ stack # <<>> /\ \E b : ReturnTo(Front(stack), b)
    BY <1>8 DEF LeaveDir, command, AtDir, Places
  <2> QED BY <2>1, PlacesAfterReturn
<1>9. CASE CopyEntry
  BY <1>9, CopyEntryPlaces
<1>10. ASSUME cmd' = cmd, at \in AtFile,
              \/ /\ at' \in AtFile \cup {"next"} /\ stack' = stack
                 /\ cf' \in CopyCall /\ cf'.dst = cf.dst
              \/ cf' = cf /\ \E b : ReturnTo(stack, b)
       PROVE  Places'
  <2>1. CASE /\ at' \in AtFile \cup {"next"} /\ stack' = stack
             /\ cf' \in CopyCall /\ cf'.dst = cf.dst
    <3>1. at' \notin AtDir
      BY <2>1 DEF AtDir, AtFile
    <3>2. Below(Goals, cf.dst)
      BY <1>10 DEF Places
    <3> QED BY <1>10, <2>1, <3>1, <3>2, PlacesSame
  <2>2. CASE cf' = cf /\ \E b : ReturnTo(stack, b)
    BY <1>10, <2>2, PlacesAfterReturn
  <2> QED BY <1>10, <2>1, <2>2
<1>11. CASE StatDest
  <2>1. /\ cmd' = cmd /\ at \in AtFile /\ cf' = cf
        /\ \/ at' \in AtFile \cup {"next"} /\ stack' = stack
           \/ \E b : ReturnTo(stack, b)
    BY <1>11 DEF StatDest, Leave, command, AtFile
  <2> QED BY <1>0, <2>1, <1>10
<1>12. CASE OpenSource
  <2>1. /\ cmd' = cmd /\ at \in AtFile /\ cf' = cf
        /\ \/ at' \in AtFile \cup {"next"} /\ stack' = stack
           \/ \E b : ReturnTo(stack, b)
    BY <1>12 DEF OpenSource, Leave, command, AtFile
  <2> QED BY <1>0, <2>1, <1>10
<1>13. CASE OpenDest
  <2>1. /\ cmd' = cmd /\ at \in AtFile /\ cf' = cf
        /\ \/ at' \in AtFile \cup {"next"} /\ stack' = stack
           \/ \E b : ReturnTo(stack, b)
    BY <1>13 DEF OpenDest, Leave, command, AtFile
  <2> QED BY <1>0, <2>1, <1>10
<1>14. CASE CopyChunk
  <2>1. /\ cmd' = cmd /\ at \in AtFile /\ at' \in AtFile /\ stack' = stack
        /\ cf' \in {cf, [cf EXCEPT !.pos = @ + 1]}
    BY <1>14 DEF CopyChunk, command, AtFile
  <2>2. cf' \in CopyCall /\ cf'.dst = cf.dst
    BY <1>0, <2>1 DEF CopyCall
  <2> QED BY <2>1, <2>2, <1>10
<1>15. CASE CloseBoth
  <2>1. cmd' = cmd /\ at \in AtFile /\ at' \in AtFile /\ stack' = stack /\ cf' = cf
    BY <1>15 DEF CloseBoth, command, AtFile
  <2> QED BY <1>0, <2>1, <1>10
<1>16. CASE SetTime
  <2>1. cmd' = cmd /\ at \in AtFile /\ cf' = cf /\ \E b : ReturnTo(stack, b)
    BY <1>16 DEF SetTime, Leave, command, AtFile
  <2> QED BY <1>0, <2>1, <1>10
<1>17. CASE Discard
  <2>1. cmd' = cmd /\ at \in AtFile /\ cf' = cf /\ \E b : ReturnTo(stack, b)
    BY <1>17 DEF Discard, Leave, command, AtFile
  <2> QED BY <1>0, <2>1, <1>10
<1> QED BY <1>1, <1>2, <1>3, <1>4, <1>5, <1>6, <1>7, <1>8, <1>9, <1>11, <1>12, <1>13, <1>14,
           <1>15, <1>16, <1>17 DEF Step

LEMMA WordsNext ==
  ASSUME Words, Places, Step
  PROVE  Words'
<1>1. CASE Start
  BY <1>1, StartWords
<1>2. CASE NextArgument
  BY <1>2, NextArgumentKept
<1>3. ASSUME NEW here, NEW there, here \notin {"start", "exit"},
             at = here, at' = there, there \in {"clear", "contains"} => here = "clear",
             UNCHANGED <<cmd, enum, target, szTarget, arg>>
      PROVE  Words'
  BY <1>3, WordsSame
<1>4. CASE ClearTarget
  BY <1>4, <1>3 DEF ClearTarget, command
<1>5. ASSUME at \notin {"start", "exit"}, at' \notin {"clear", "contains"},
             UNCHANGED <<cmd, enum, target, szTarget, arg>>
      PROVE  Words'
  BY <1>5, WordsSame
<1>6. CASE CopyDirArgument
  BY <1>6, <1>5 DEF CopyDirArgument, command
<1>7. CASE NoMore
  BY <1>7, <1>5 DEF NoMore, command
<1>8. ASSUME NEW outer, NEW failed, ReturnTo(outer, failed)
      PROVE  at' \in {"next", "readdir"}
  BY <1>8 DEF ReturnTo
<1>9. CASE MakeDir
  BY <1>9, <1>5, <1>8 DEF MakeDir, command
<1>10. CASE OpenDir
  BY <1>10, <1>5, <1>8 DEF OpenDir, command
<1>11. CASE LeaveDir
  BY <1>11, <1>5, <1>8 DEF LeaveDir, command
<1>12. CASE CopyEntry
  <2>1. at' \in {"readdir", "mkdir", "stat"}
    BY <1>12 DEF CopyEntry
  <2> QED BY <1>12, <2>1, <1>5 DEF CopyEntry, command
<1>13. CASE StatDest
  BY <1>13, <1>5, <1>8 DEF StatDest, Leave, command
<1>14. CASE OpenSource
  BY <1>14, <1>5, <1>8 DEF OpenSource, Leave, command
<1>15. CASE OpenDest
  BY <1>15, <1>5, <1>8 DEF OpenDest, Leave, command
<1>16. CASE CopyChunk
  BY <1>16, <1>5 DEF CopyChunk, command
<1>17. CASE CloseBoth
  BY <1>17, <1>5 DEF CloseBoth, command
<1>18. CASE SetTime
  BY <1>18, <1>5, <1>8 DEF SetTime, Leave, command
<1>19. CASE Discard
  BY <1>19, <1>5, <1>8 DEF Discard, Leave, command
<1> QED BY <1>1, <1>2, <1>4, <1>6, <1>7, <1>9, <1>10, <1>11, <1>12, <1>13, <1>14,
           <1>15, <1>16, <1>17, <1>18, <1>19 DEF Step

LEMMA StartsSo ==
  ASSUME Init
  PROVE  Words /\ Places
<1>1. /\ cmd \in Commands /\ cmd.args \in Seq(Word(Names)) /\ DOMAIN tree \subseteq Seq(Names)
      /\ enum = Enumeration(cmd.args) /\ target = <<>> /\ szTarget = <<>> /\ at = "start"
      /\ stack = <<>> /\ cf = [dst |-> <<>>, src |-> <<>>, pos |-> 1]
  BY CopyAssumption DEF Init, NoFile
<1>2. From(enum, Names, Range(cmd.args), Named)
  BY <1>1, FreshEnumeration DEF Named
<1>3. <<>> \in Seq(Names)
  OBVIOUS
<1>4. Words
  BY <1>1, <1>2, <1>3 DEF Words
<1>5. Places
  BY <1>1, <1>3 DEF Places, AtDir, AtFile, CopyCall
<1> QED BY <1>4, <1>5

(* What is not a step of the command: the host opens or closes a file in its *)
(* callback, or nothing happens.                                             *)
Still ==
  /\ UNCHANGED <<tree, at, szTarget, enum, arg, stack, cf, err, starved, stuck, command>>
  /\ UNCHANGED called
  /\ UNCHANGED <<files, host>> \/ HostOpens \/ HostCloses

LEMMA StepOrStill ==
  ASSUME [Next]_vars
  PROVE  (Step /\ host' = host /\ called' \in BOOLEAN) \/ Still
<1>1. CASE Command
  BY <1>1 DEF Command, Calls
<1>2. CASE Host
  BY <1>2 DEF Host, Still, command
<1>3. CASE UNCHANGED vars
  BY <1>3 DEF vars, Still, command
<1> QED BY <1>1, <1>2, <1>3 DEF Next

LEMMA Unchanged ==
  ASSUME Words, Places, Still
  PROVE  Words' /\ Places'
<1>1. Named' = Named /\ Goals' = Goals
  BY SameLine DEF Still, command
<1>2. From(enum, Names, Range(cmd.args), Named)'
  BY <1>1 DEF Words, Still, command
<1> QED BY <1>1, <1>2 DEF Words, Places, Still, command

-----------------------------------------------------------------------------
(* cp changes nothing outside its targets: a path that no goal of the line   *)
(* is a prefix of keeps its node, through every failure.                     *)
THEOREM CopyContained == Spec => []BystandersUntouched
<1> DEFINE Kept(t, p) == (\A g \in Goals : ~ IsPrefix(g, p)) =>
                             p \in DOMAIN t /\ t[p] = before[p]
           Untouched == \A p \in DOMAIN before : Kept(tree, p)
           Inv == Words /\ Places /\ Untouched
<1>1. Init => Inv
  <2> SUFFICES ASSUME Init PROVE Inv
    OBVIOUS
  <2>1. Untouched
    BY DEF Init
  <2> QED BY <2>1, StartsSo
<1>2. Inv /\ [Next]_vars => Inv'
  <2> SUFFICES ASSUME Inv, [Next]_vars PROVE Inv'
    OBVIOUS
  <2>1. CASE Still
    <3>1. Goals' = Goals /\ tree' = tree /\ before' = before
      BY <2>1, SameLine DEF Still, command
    <3>2. Untouched'
      BY <3>1
    <3> QED BY <2>1, <3>2, Unchanged
  <2>2. CASE Step /\ host' = host /\ called' \in BOOLEAN
    <3>1. Words' /\ Places'
      BY <2>2, WordsNext, PlacesNext
    <3>2. cmd' = cmd /\ before' = before
      BY <2>2 DEF Step, Start, NextArgument, ClearTarget, CopyDirArgument, NoMore, MakeDir, OpenDir,
         LeaveDir, CopyEntry, StatDest, OpenSource, OpenDest, CopyChunk, CloseBoth, SetTime,
         Discard, command
    <3>3. Goals' = Goals
      BY <3>2, SameLine
    <3>4. CASE tree' = tree
      BY <3>1, <3>2, <3>3, <3>4
    <3>5. CASE tree' # tree
      <4>1. PICK x \in Seq(Names) : Below(Goals, x) /\ OnlyAt(tree, tree', x)
        BY <2>2, <3>5, TreeStep
      <4>2. ASSUME NEW p \in DOMAIN before, \A g \in Goals : ~ IsPrefix(g, p)
            PROVE  p \in DOMAIN tree' /\ tree'[p] = before[p]
        <5>1. p \in DOMAIN tree /\ tree[p] = before[p]
          BY <4>2
        <5>2. p # x
          BY <4>1, <4>2 DEF Below
        <5> QED BY <4>1, <5>1, <5>2 DEF OnlyAt
      <4>3. Untouched'
        BY <3>2, <3>3, <4>2
      <4> QED BY <3>1, <4>3
    <3> QED BY <3>4, <3>5
  <2> QED BY <2>1, <2>2, StepOrStill
<1>3. Inv => BystandersUntouched
  BY DEF BystandersUntouched
<1> HIDE DEF Inv
<1> QED BY <1>1, <1>2, <1>3, PTL DEF Spec

-----------------------------------------------------------------------------
(* With -n, on a medium that does not fail: the call of f_copyfile that is   *)
(* going on writes where nothing was before.                                 *)
Intact == \A p \in DOMAIN before : p \in DOMAIN tree /\ tree[p] = before[p]

OnNothing ==
  /\ at # "clear"
  /\ at \in {"source", "dest"} => cf.dst = <<>> \/ cf.dst \notin DOMAIN tree
  /\ at \in {"copy", "close", "undo", "restat", "discard"} => cf.dst \notin DOMAIN before

LEMMA IntactAfter ==
  ASSUME Intact, before' = before, NEW x, x \notin DOMAIN before, OnlyAt(tree, tree', x)
  PROVE  Intact'
BY DEF Intact, OnlyAt

LEMMA IntactNext ==
  ASSUME Intact, OnNothing, cf \in CopyCall, ~ overwrite, ~ failing, Step
  PROVE  Intact' /\ OnNothing'
<1>1. before' = before
  BY DEF Step, Start, NextArgument, ClearTarget, CopyDirArgument, NoMore, MakeDir, OpenDir,
         LeaveDir, CopyEntry, StatDest, OpenSource, OpenDest, CopyChunk, CloseBoth, SetTime,
         Discard, command
<1>2. ASSUME tree' = tree PROVE Intact'
  BY <1>1, <1>2 DEF Intact
<1>3. ASSUME at' \in {"next", "exit", "contains", "mkdir", "opendir", "readdir", "stat"}
      PROVE  OnNothing'
  BY <1>3 DEF OnNothing
<1>4. ASSUME NEW outer, NEW failed, ReturnTo(outer, failed)
      PROVE  OnNothing'
  <2>1. at' \in {"next", "readdir"}
    BY <1>4 DEF ReturnTo
  <2> QED BY <1>3, <2>1
<1>5. CASE Start
  BY <1>5, <1>2, <1>3 DEF Start
<1>6. CASE NextArgument
  <2>1. at' \in {"next", "stat", "contains"} /\ tree' = tree
    BY <1>6 DEF NextArgument
  <2> QED BY <2>1, <1>2, <1>3
<1>7. ~ ClearTarget
  BY DEF ClearTarget, OnNothing
<1>8. CASE CopyDirArgument
  BY <1>8, <1>2, <1>3 DEF CopyDirArgument
<1>9. CASE NoMore
  BY <1>9, <1>2, <1>3 DEF NoMore
<1>10. CASE MakeDir
  <2>1. PICK o \in Mkdir(tree, Top.dst, failing) :
          tree' = o.tree /\ (at' = "opendir" \/ ReturnTo(Front(stack), TRUE))
    BY <1>10 DEF MakeDir
  <2>2. o.tree = tree \/ (o.tree = With(tree, Top.dst, DirNode) /\ Top.dst \notin DOMAIN tree)
    BY DEF Mkdir, MkdirResult, FollowPath
  <2>3. Intact'
    <3>1. CASE o.tree = tree
      BY <2>1, <3>1, <1>2
    <3>2. CASE o.tree = With(tree, Top.dst, DirNode) /\ Top.dst \notin DOMAIN tree
      <4>1. OnlyAt(tree, tree', Top.dst) /\ Top.dst \notin DOMAIN before
        BY <2>1, <3>2, WithAt DEF Intact
      <4> QED BY <4>1, <1>1, IntactAfter
    <3> QED BY <2>2, <3>1, <3>2
  <2> QED BY <2>1, <2>3, <1>3, <1>4
<1>11. CASE OpenDir
  BY <1>11, <1>2, <1>3, <1>4 DEF OpenDir
<1>12. CASE LeaveDir
  BY <1>12, <1>2, <1>4 DEF LeaveDir
<1>13. CASE CopyEntry
  <2>1. at' \in {"readdir", "mkdir", "stat"} /\ tree' = tree
    BY <1>13 DEF CopyEntry
  <2> QED BY <2>1, <1>2, <1>3
<1>14. CASE StatDest
  <2>1. PICK res \in Stat(tree, cf.dst, failing) :
          (\E b : ReturnTo(stack, b)) \/ (res # "FR_OK" /\ at' = "source")
    BY <1>14 DEF StatDest, Leave
  <2>2. tree' = tree /\ cf' = cf
    BY <1>14 DEF StatDest
  <2>3. res # "FR_OK" => cf.dst = <<>> \/ cf.dst \notin DOMAIN tree
    BY DEF Stat, FollowPath
  <2>4. CASE res # "FR_OK" /\ at' = "source"
    BY <2>2, <2>3, <2>4, <1>2 DEF OnNothing
  <2> QED BY <2>1, <2>2, <2>4, <1>2, <1>4
<1>15. CASE OpenSource
  <2>1. tree' = tree /\ cf' = cf /\ at = "source"
    BY <1>15 DEF OpenSource
  <2>2. at' = "dest" \/ ReturnTo(stack, TRUE)
    BY <1>15 DEF OpenSource, Leave
  <2>3. CASE at' = "dest"
    BY <2>1, <2>3, <1>2 DEF OnNothing
  <2> QED BY <2>1, <2>2, <2>3, <1>2, <1>4
<1>16. CASE OpenDest
  <2>1. PICK o \in OpenCreate(tree, files, cf.dst, failing) :
          tree' = o.tree /\ (IF o.res = "FR_OK" THEN at' = "copy" ELSE ReturnTo(stack, TRUE))
    BY <1>16 DEF OpenDest, Leave
  <2>2. cf' = cf /\ at = "dest"
    BY <1>16 DEF OpenDest
  <2>3. \/ o.res # "FR_OK" /\ o.tree = tree
        \/ OpenCreateResult(tree, files, cf.dst) = "FR_OK"
    BY CreateOutcome
  <2>4. CASE o.res # "FR_OK" /\ o.tree = tree
    BY <2>1, <2>4, <1>2, <1>4
  <2>5. CASE OpenCreateResult(tree, files, cf.dst) = "FR_OK"
    <3>1. cf.dst # <<>>
      BY <2>5 DEF OpenCreateResult
    <3>2. cf.dst \notin DOMAIN before
      BY <2>2, <3>1 DEF OnNothing, Intact
    <3>3. OnlyAt(tree, tree', cf.dst)
      BY <2>1, CreateAt
    <3>4. Intact'
      BY <3>2, <3>3, <1>1, IntactAfter
    <3>5. at' = "copy" => OnNothing'
      BY <2>2, <3>2, <1>1 DEF OnNothing
    <3> QED BY <2>1, <3>4, <3>5, <1>4
  <2> QED BY <2>3, <2>4, <2>5
<1>17. CASE CopyChunk
  <2>1. at = "copy" /\ at' \in {"copy", "close", "undo"} /\ cf' \in {cf, [cf EXCEPT !.pos = @ + 1]}
    BY <1>17 DEF CopyChunk
  <2>2. cf.dst \notin DOMAIN before /\ cf'.dst = cf.dst
    BY <2>1 DEF OnNothing, CopyCall
  <2>3. Intact'
    BY <1>17, <2>2, <1>1, ChunkAt, IntactAfter
  <2> QED BY <2>1, <2>2, <2>3, <1>1 DEF OnNothing
<1>18. CASE CloseBoth
  <2>1. /\ at \in {"close", "undo"} /\ at' \in {"restat", "discard"}
        /\ cf' = cf /\ tree' = tree
    BY <1>18 DEF CloseBoth
  <2> QED BY <2>1, <1>1, <1>2 DEF OnNothing
<1>19. ASSUME cf.dst \notin DOMAIN before, NEW b, ReturnTo(stack, b),
              \E o \in Unlink(tree, files, cf.dst, failing) : tree' = o.tree
       PROVE  Intact' /\ OnNothing'
  <2>1. OnlyAt(tree, tree', cf.dst)
    BY <1>19, UnlinkAt
  <2> QED BY <2>1, <1>1, <1>4, <1>19, IntactAfter
<1>20. CASE SetTime
  <2>1. cf.dst \notin DOMAIN before
    BY <1>20 DEF SetTime, OnNothing
  <2> QED BY <2>1, <1>19, <1>20 DEF SetTime, Leave
<1>21. CASE Discard
  <2>1. cf.dst \notin DOMAIN before
    BY <1>21 DEF Discard, OnNothing
  <2> QED BY <2>1, <1>19, <1>21 DEF Discard, Leave
<1> QED BY <1>5, <1>6, <1>7, <1>8, <1>9, <1>10, <1>11, <1>12, <1>13, <1>14, <1>15, <1>16,
           <1>17, <1>18, <1>20, <1>21 DEF Step

(* cp -n on a sound medium leaves alone whatever existed before it started.  *)
THEOREM CopyKeeps == Spec => []NoClobberKeepsAll
<1> DEFINE Safe == ~ overwrite /\ ~ failing => Intact /\ OnNothing
           Inv  == Words /\ Places /\ Safe
<1>1. Init => Inv
  <2>1. Init => Safe
    BY DEF Init, Intact, OnNothing
  <2> QED BY <2>1, StartsSo
<1>2. Inv /\ [Next]_vars => Inv'
  <2>1. CASE Still
    <3>1. Inv => Safe'
      BY <2>1 DEF Still, command, Intact, OnNothing
    <3> QED BY <2>1, <3>1, Unchanged
  <2>2. CASE Step /\ host' = host /\ called' \in BOOLEAN
    <3>1. overwrite' = overwrite /\ failing' = failing
      BY <2>2 DEF Step, Start, NextArgument, ClearTarget, CopyDirArgument, NoMore, MakeDir,
         OpenDir, LeaveDir, CopyEntry, StatDest, OpenSource, OpenDest, CopyChunk, CloseBoth,
         SetTime, Discard, command
    <3>2. Inv => Safe'
      BY <2>2, <3>1, IntactNext DEF Places
    <3> QED BY <2>2, <3>2, WordsNext, PlacesNext
  <2> QED BY <2>1, <2>2, StepOrStill
<1>3. Inv => NoClobberKeepsAll
  BY DEF NoClobberKeepsAll, Intact
<1> HIDE DEF Inv
<1> QED BY <1>1, <1>2, <1>3, PTL DEF Spec

-----------------------------------------------------------------------------
(* The table f of open objects while the host has h open, and the command    *)
(* the directories C, the files R to read and the files W to write.          *)
OfFile(o) == o = Entry(o[2])
OfDir(o) == o = Cluster(o[2])

Booked(f, h, C, R, W) ==
  /\ DOMAIN f = h \cup C \cup R \cup W
  /\ \A o \in C : OfDir(o) /\ f[o] = 1
  /\ \A o \in W : OfFile(o) /\ o \notin h \cup R /\ f[o] = Writing
  /\ \A o \in R : OfFile(o) /\ f[o] = (IF o \in h THEN 2 ELSE 1)
  /\ \A o \in h : OfFile(o) /\ (o \notin R => f[o] = 1)

(* The directory d, unless it is the root, which takes no entry.             *)
ClusterOf(d) == {Cluster(d)} \ {Cluster(<<>>)}

LEMMA Kinds ==
  ASSUME NEW p
  PROVE  /\ OfFile(Entry(p)) /\ OfDir(Cluster(p))
         /\ \A o : ~ (OfFile(o) /\ OfDir(o))
         /\ \A q : Cluster(p) = Cluster(q) => p = q
         /\ \A q : Entry(p) = Entry(q) => p = q
         /\ Entry(p)[2] = p
BY DEF OfFile, OfDir, Entry, Cluster

LEMMA OpendirBooks ==
  ASSUME NEW f, NEW h, NEW C, NEW R, NEW W, Booked(f, h, C, R, W),
         NEW t, NEW d, Cluster(d) \notin C, NEW faulty, NEW o \in Opendir(t, f, d, faulty)
  PROVE  o.res = "FR_OK" => Booked(o.files, h, C \cup ClusterOf(d), R, W)
<1>1. \/ o.res # "FR_OK" /\ o.files = f
      \/ o.res = "FR_OK" /\ d = <<>> /\ o.files = f
      \/ o.res = "FR_OK" /\ d # <<>> /\ o.files = IncShare(f, Cluster(d), 0)
  BY DEF Opendir
<1>2. CASE d = <<>>
  BY <1>1, <1>2 DEF ClusterOf
<1>3. CASE o.res = "FR_OK" /\ d # <<>> /\ o.files = IncShare(f, Cluster(d), 0)
  <2> DEFINE c == Cluster(d)
  <2>1. ClusterOf(d) = {c}
    BY <1>3, Kinds DEF ClusterOf
  <2>2. OfDir(c) /\ ~ OfFile(c)
    BY Kinds
  <2> HIDE DEF c
  <2>3. c \notin DOMAIN f
    BY <2>2 DEF Booked, c
  <2>4. /\ DOMAIN o.files = DOMAIN f \cup {c} /\ o.files[c] = 1
        /\ \A x \in DOMAIN f : o.files[x] = f[x]
    BY <1>3, <2>3 DEF IncShare, With, c
  <2>5. Booked(o.files, h, C \cup {c}, R, W)
    BY <2>2, <2>3, <2>4 DEF Booked
  <2> QED BY <1>3, <2>1, <2>5
<1> QED BY <1>1, <1>2, <1>3

LEMMA DecShareOne ==
  ASSUME NEW f, NEW o, f[o] = 1 \/ f[o] = Writing
  PROVE  /\ DOMAIN DecShare(f, o) = DOMAIN f \ {o}
         /\ \A x \in DOMAIN f \ {o} : DecShare(f, o)[x] = f[x]
BY WithoutOne DEF DecShare

LEMMA DecShareLess ==
  ASSUME NEW f, NEW o
  PROVE  DOMAIN DecShare(f, o) \subseteq DOMAIN f
BY WithoutOne DEF DecShare

LEMMA ClosedirBooks ==
  ASSUME NEW f, NEW h, NEW C, NEW R, NEW W, NEW d, Cluster(d) \notin C,
         Booked(f, h, C \cup ClusterOf(d), R, W)
  PROVE  Booked(Closedir(f, d), h, C, R, W)
<1>1. CASE d = <<>>
  BY <1>1 DEF ClusterOf, Closedir
<1>2. CASE d # <<>>
  <2> DEFINE c == Cluster(d)
             g == DecShare(f, c)
  <2>1. ClusterOf(d) = {c}
    BY <1>2, Kinds DEF ClusterOf
  <2>2. OfDir(c) /\ ~ OfFile(c)
    BY Kinds
  <2> HIDE DEF c
  <2>3. f[c] = 1
    BY <2>1 DEF Booked
  <2>4. DOMAIN g = DOMAIN f \ {c} /\ \A x \in DOMAIN f \ {c} : g[x] = f[x]
    BY <2>3, DecShareOne
  <2> HIDE DEF g
  <2>5. c \notin C
    BY DEF c
  <2>6. Booked(g, h, C, R, W)
    BY <2>1, <2>2, <2>4, <2>5 DEF Booked
  <2> QED BY <1>2, <2>6 DEF Closedir, g, c
<1> QED BY <1>1, <1>2

LEMMA OpenReadOutcome ==
  ASSUME NEW t, NEW f, NEW p, NEW faulty, NEW o \in OpenRead(t, f, p, faulty)
  PROVE  /\ o.res = "FR_OK" => p \in DOMAIN t
         /\ o.res # "FR_OK" => o.files = f
<1>1. \/ o.res # "FR_OK" /\ o.files = f
      \/ o.res = "FR_OK" /\ OpenReadResult(t, f, p) = "FR_OK"
  BY DEF OpenRead
<1> QED BY <1>1 DEF OpenReadResult, FollowPath

LEMMA OpenReadBooks ==
  ASSUME NEW f, NEW h, NEW C, NEW W, Booked(f, h, C, {}, W),
         NEW t, NEW p, NEW faulty, NEW o \in OpenRead(t, f, p, faulty)
  PROVE  o.res = "FR_OK" => Booked(o.files, h, C, {Entry(p)}, W)
<1>1. \/ o.res # "FR_OK" /\ o.files = f
      \/ /\ o.res = "FR_OK" /\ OpenReadResult(t, f, p) = "FR_OK"
         /\ o.files = IncShare(f, Entry(p), 0)
  BY DEF OpenRead
<1>2. CASE /\ o.res = "FR_OK" /\ OpenReadResult(t, f, p) = "FR_OK"
           /\ o.files = IncShare(f, Entry(p), 0)
  <2> DEFINE e == Entry(p)
  <2>1. p \in DOMAIN t /\ ChkShare(f, e, 0) = "FR_OK"
    BY <1>2 DEF OpenReadResult, FollowPath
  <2>2. e \in DOMAIN f => f[e] # Writing
    BY <2>1 DEF ChkShare
  <2>3. OfFile(e) /\ ~ OfDir(e)
    BY Kinds
  <2> HIDE DEF e
  <2>4. /\ DOMAIN o.files = DOMAIN f \cup {e}
        /\ o.files[e] = (IF e \in DOMAIN f THEN f[e] + 1 ELSE 1)
        /\ \A x \in DOMAIN f : x # e => o.files[x] = f[x]
    BY <1>2 DEF IncShare, With, e
  <2>5. e \notin W /\ e \notin C
    BY <2>2, <2>3 DEF Booked
  <2>6. o.files[e] = (IF e \in h THEN 2 ELSE 1)
    BY <2>4, <2>5 DEF Booked
  <2>7. Booked(o.files, h, C, {e}, W)
    BY <2>3, <2>4, <2>5, <2>6 DEF Booked
  <2> QED BY <1>2, <2>1, <2>7 DEF e
<1> QED BY <1>1, <1>2

LEMMA CloseReadBooks ==
  ASSUME NEW f, NEW h, NEW C, NEW W, NEW e, Booked(f, h, C, {e}, W)
  PROVE  Booked(DecShare(f, e), h, C, {}, W)
<1> DEFINE g == DecShare(f, e)
<1>1. e \in DOMAIN f /\ f[e] = (IF e \in h THEN 2 ELSE 1) /\ OfFile(e)
  BY DEF Booked
<1>2. e \notin W /\ e \notin C
  BY <1>1, Kinds DEF Booked
<1>3. CASE e \in h
  <2>1. g = [f EXCEPT ![e] = 1]
    BY <1>1, <1>3 DEF DecShare, Writing
  <2> QED BY <1>1, <1>2, <1>3, <2>1 DEF Booked
<1>4. CASE e \notin h
  <2>1. DOMAIN g = DOMAIN f \ {e} /\ \A x \in DOMAIN f \ {e} : g[x] = f[x]
    BY <1>1, <1>4, DecShareOne
  <2> HIDE DEF g
  <2>2. Booked(g, h, C, {}, W)
    BY <1>2, <1>4, <2>1 DEF Booked
  <2> QED BY <2>2 DEF g
<1> QED BY <1>3, <1>4

(* Open files cannot be removed, so what is open exists.                     *)
OpenExist(f, t) == \A o \in DOMAIN f : OfFile(o) => o[2] \in DOMAIN t

LEMMA OpenCreateBooks ==
  ASSUME NEW f, NEW h, NEW C, NEW R, NEW W, Booked(f, h, C, R, W), NEW t, OpenExist(f, t),
         NEW p, NEW faulty, NEW o \in OpenCreate(t, f, p, faulty)
  PROVE  /\ o.res = "FR_OK" => Booked(o.files, h, C, R, W \cup {Entry(p)}) /\ Entry(p) \notin W
         /\ o.res # "FR_OK" => o.files = f
         /\ OpenExist(o.files, o.tree)
<1> DEFINE e == Entry(p)
<1>1. OfFile(e) /\ ~ OfDir(e) /\ e[2] = p
  BY Kinds
<1>2. \/ /\ OpenCreateResult(t, f, p) = "FR_OK" /\ o.res = "FR_OK"
         /\ o.tree = Created(t, p) /\ o.files = IncShare(f, e, 1)
      \/ /\ o.res # "FR_OK" /\ o.files = f /\ o.tree \in {t, Created(t, p)}
  BY CreateOutcome
<1>3. DOMAIN Created(t, p) = DOMAIN t \cup {p}
  BY DEF Created, With
<1>4. CASE o.res # "FR_OK" /\ o.files = f /\ o.tree \in {t, Created(t, p)}
  BY <1>3, <1>4 DEF OpenExist
<1>5. CASE /\ OpenCreateResult(t, f, p) = "FR_OK" /\ o.res = "FR_OK"
           /\ o.tree = Created(t, p) /\ o.files = IncShare(f, e, 1)
  <2>1. e \notin DOMAIN f
    <3>1. CASE p \in DOMAIN t
      <4>1. p # <<>> /\ FollowPath(t, p) = "FR_OK"
        BY <1>5, <3>1 DEF OpenCreateResult, FollowPath
      <4>2. ChkShare(f, e, 1) = "FR_OK"
        BY <1>5, <3>1, <4>1 DEF OpenCreateResult
      <4> QED BY <4>2 DEF ChkShare
    <3>2. CASE p \notin DOMAIN t
      BY <1>1, <3>2 DEF OpenExist
    <3> QED BY <3>1, <3>2
  <2> HIDE DEF e
  <2>2. /\ DOMAIN o.files = DOMAIN f \cup {e} /\ o.files[e] = Writing
        /\ \A x \in DOMAIN f : o.files[x] = f[x]
    BY <1>5, <2>1 DEF IncShare, With
  <2>3. e \notin W /\ Booked(o.files, h, C, R, W \cup {e})
    BY <1>1, <2>1, <2>2 DEF Booked
  <2>4. OpenExist(o.files, o.tree)
    BY <1>1, <1>3, <1>5, <2>2 DEF OpenExist
  <2> QED BY <1>5, <2>3, <2>4 DEF e
<1> QED BY <1>2, <1>4, <1>5

LEMMA CloseBooks ==
  ASSUME NEW f, NEW h, NEW C, NEW W, NEW p, Booked(f, h, C, {}, W \cup {Entry(p)}),
         Entry(p) \notin W, NEW faulty, NEW g \in Close(f, p, faulty)
  PROVE  Booked(g, h, C, {}, W \cup ({Entry(p)} \cap DOMAIN g)) /\ DOMAIN g \subseteq DOMAIN f
<1> DEFINE e == Entry(p)
<1>1. e \in DOMAIN f /\ f[e] = Writing /\ OfFile(e) /\ e \notin h
  BY DEF Booked
<1>2. g = f \/ g = DecShare(f, e)
  BY DEF Close
<1>3. e \notin C /\ e \notin W
  BY <1>1, Kinds DEF Booked
<1> HIDE DEF e
<1>4. CASE g = f
  <2>1. {e} \cap DOMAIN g = {e}
    BY <1>1, <1>4
  <2> QED BY <1>4, <2>1 DEF e
<1>5. CASE g = DecShare(f, e)
  <2>1. DOMAIN g = DOMAIN f \ {e} /\ \A x \in DOMAIN f \ {e} : g[x] = f[x]
    <3> DEFINE k == DecShare(f, e)
    <3>1. DOMAIN k = DOMAIN f \ {e} /\ \A x \in DOMAIN f \ {e} : k[x] = f[x]
      BY <1>1, DecShareOne
    <3> QED BY <1>5, <3>1
  <2>2. {e} \cap DOMAIN g = {}
    BY <2>1
  <2>3. Booked(f, h, C, {}, W \cup {e})
    BY DEF e
  <2>4. Booked(g, h, C, {}, W)
    BY <1>1, <1>3, <2>1, <2>3 DEF Booked
  <2>5. W \cup ({e} \cap DOMAIN g) = W
    BY <2>2
  <2> QED BY <2>1, <2>4, <2>5 DEF e
<1> QED BY <1>2, <1>4, <1>5

-----------------------------------------------------------------------------
(* The directories on a stack: all of them, and all but the innermost.       *)
AllOf(st) == {Cluster(st[i].src) : i \in DOMAIN st} \ {Cluster(<<>>)}
OuterOf(st) == {Cluster(st[i].src) : i \in {j \in DOMAIN st : j < Len(st)}} \ {Cluster(<<>>)}

(* Each call of f_copydir is in a directory below its caller's.              *)
Deepening(st) == \A i, j \in DOMAIN st : i < j => Len(st[i].src) < Len(st[j].src)

LEMMA SameClusters ==
  ASSUME NEW st, NEW tt, SameFrames(st, tt)
  PROVE  AllOf(st) = AllOf(tt) /\ OuterOf(st) = OuterOf(tt) /\ (Deepening(tt) => Deepening(st))
BY DEF SameFrames, AllOf, OuterOf, Deepening

LEMMA FrontClusters ==
  ASSUME NEW st \in Seq(Frame), st # <<>>, Deepening(st)
  PROVE  /\ AllOf(Front(st)) = OuterOf(st) /\ Deepening(Front(st))
         /\ AllOf(st) = OuterOf(st) \cup ClusterOf(Last(st).src)
         /\ Cluster(Last(st).src) \notin OuterOf(st)
<1>1. Len(st) \in Nat /\ Len(st) >= 1 /\ DOMAIN st = 1 .. Len(st) /\ Last(st) = st[Len(st)]
  BY NonEmpty DEF Last
<1>2. /\ Front(st) \in Seq(Frame) /\ Len(Front(st)) = Len(st) - 1
      /\ \A i \in 1 .. Len(st) - 1 : Front(st)[i] = st[i]
  BY FrontFacts
<1>3. DOMAIN Front(st) = 1 .. Len(st) - 1
  BY <1>2, LenProperties
<1>4. \A n \in Nat : n >= 1 => /\ {j \in 1 .. n : j < n} = 1 .. n - 1
                               /\ n \in 1 .. n
                               /\ \A i \in 1 .. n : i < n \/ i = n
  OBVIOUS
<1>5. {j \in DOMAIN st : j < Len(st)} = 1 .. Len(st) - 1
  BY <1>1, <1>4
<1>6. AllOf(Front(st)) = OuterOf(st)
  BY <1>2, <1>3, <1>5 DEF AllOf, OuterOf
<1>7. Deepening(Front(st))
  BY <1>1, <1>2, <1>3 DEF Deepening
<1>8. AllOf(st) = OuterOf(st) \cup ClusterOf(Last(st).src)
  <2>1. Len(st) \in DOMAIN st /\ \A i \in DOMAIN st : i < Len(st) \/ i = Len(st)
    BY <1>1, <1>4
  <2>2. {Cluster(st[i].src) : i \in DOMAIN st}
          = {Cluster(st[i].src) : i \in {j \in DOMAIN st : j < Len(st)}} \cup {Cluster(Last(st).src)}
    BY <1>1, <2>1
  <2> QED BY <2>2 DEF AllOf, OuterOf, ClusterOf
<1>9. Cluster(Last(st).src) \notin OuterOf(st)
  <2>1. ASSUME NEW i \in DOMAIN st, i < Len(st) PROVE Cluster(st[i].src) # Cluster(Last(st).src)
    <3>1. Len(st) \in DOMAIN st
      BY <1>1, <1>4
    <3>2. Len(st[i].src) < Len(Last(st).src) /\ Len(st[i].src) \in Nat /\ Len(Last(st).src) \in Nat
      <4>1. st[i] \in Frame /\ Last(st) \in Frame
        BY <1>1, <2>1, <3>1, ElementOfSeq
      <4> QED BY <1>1, <2>1, <3>1, <4>1, LenProperties DEF Deepening, Frame
    <3>3. st[i].src # Last(st).src
      BY <3>2
    <3> QED BY <3>3, Kinds
  <2> QED BY <2>1 DEF OuterOf
<1> QED BY <1>6, <1>7, <1>8, <1>9

LEMMA PushedClusters ==
  ASSUME NEW st \in Seq(Frame), NEW dst \in Seq(Names), NEW src \in Seq(Names), Deepening(st),
         st # <<>> => Len(src) = Len(Last(st).src) + 1
  PROVE  LET u == Append(st, NewFrame(dst, src))
         IN  OuterOf(u) = AllOf(st) /\ Deepening(u)
<1> DEFINE u == Append(st, NewFrame(dst, src))
<1>1. /\ Len(u) = Len(st) + 1 /\ DOMAIN u = DOMAIN st \cup {Len(st) + 1}
      /\ \A i \in DOMAIN st : u[i] = st[i]
      /\ u[Len(st) + 1].src = src
  BY Pushed
<1>2. Len(st) \in Nat /\ DOMAIN st = 1 .. Len(st)
  BY LenProperties
<1> HIDE DEF u
<1>3. \A n \in Nat : {j \in (1 .. n) \cup {n + 1} : j < n + 1} = 1 .. n
  OBVIOUS
<1>4. {j \in DOMAIN u : j < Len(u)} = DOMAIN st
  BY <1>1, <1>2, <1>3
<1>5. OuterOf(u) = AllOf(st)
  BY <1>1, <1>4 DEF OuterOf, AllOf
<1>6. ASSUME NEW i \in DOMAIN st PROVE Len(st[i].src) < Len(src)
  <2>1. st # <<>>
    BY <1>2
  <2>2. Len(st) \in DOMAIN st /\ Last(st) = st[Len(st)] /\ (i < Len(st) \/ i = Len(st))
    BY <1>2 DEF Last
  <2>3. st[i] \in Frame /\ Last(st) \in Frame
    BY <1>2, <2>2, ElementOfSeq
  <2>4. Len(st[i].src) \in Nat /\ Len(Last(st).src) \in Nat
    BY <2>3, LenProperties DEF Frame
  <2>5. Len(st[i].src) <= Len(Last(st).src)
    BY <2>2, <2>4 DEF Deepening
  <2> QED BY <2>1, <2>4, <2>5
<1>7. ASSUME NEW i \in DOMAIN u, NEW j \in DOMAIN u, i < j PROVE Len(u[i].src) < Len(u[j].src)
  <2>1. i \in DOMAIN st
    BY <1>1, <1>2, <1>7
  <2>2. CASE j \in DOMAIN st
    BY <1>1, <1>7, <2>1, <2>2 DEF Deepening
  <2>3. CASE j = Len(st) + 1
    BY <1>1, <1>6, <2>1, <2>3
  <2> QED BY <1>1, <2>2, <2>3
<1> QED BY <1>5, <1>7 DEF Deepening, u

-----------------------------------------------------------------------------
(* The table of open objects, by where the command is.                       *)
AtIdle == {"start", "next", "clear", "contains", "exit"}
AtBoth == {"copy", "close", "undo"}
AtQuiet == AtIdle \cup {"readdir", "stat", "source", "restat", "discard"}

Booking ==
  LET h == host
  IN  /\ at \in {"mkdir", "opendir"} => Booked(files, h, OuterOf(stack), {}, stuck)
      /\ at \in AtQuiet => Booked(files, h, AllOf(stack), {}, stuck)
      /\ at = "dest" => Booked(files, h, AllOf(stack), {Entry(cf.src)}, stuck)
      /\ at \in AtBoth =>
           /\ Booked(files, h, AllOf(stack), {Entry(cf.src)}, stuck \cup {Entry(cf.dst)})
           /\ Entry(cf.dst) \notin stuck

Table ==
  /\ at \in AtQuiet \cup AtBoth \cup {"mkdir", "opendir", "dest"}
  /\ Booking
  /\ OpenExist(files, tree)
  /\ Deepening(stack)
  /\ at \in AtIdle => stack = <<>>

LEMMA ReturnTable ==
  ASSUME NEW outer \in Seq(Frame), NEW failed, ReturnTo(outer, failed), Deepening(outer),
         host' = host, OpenExist(files', tree'),
         Booked(files', host, AllOf(outer), {}, stuck')
  PROVE  Table'
<1>1. /\ SameFrames(stack', outer)
      /\ \/ at' = "next" /\ stack' = <<>>
         \/ at' = "readdir"
  BY AfterReturn
<1>2. AllOf(stack') = AllOf(outer) /\ Deepening(stack')
  BY <1>1, SameClusters
<1> QED BY <1>1, <1>2 DEF Table, Booking, AtQuiet, AtIdle, AtBoth

(* What is open still exists when a file has been removed.                   *)
LEMMA UnlinkExist ==
  ASSUME NEW t, NEW f, OpenExist(f, t), NEW p, NEW faulty, NEW o \in Unlink(t, f, p, faulty)
  PROVE  OpenExist(f, o.tree)
<1>1. CASE o.tree = t
  BY <1>1
<1>2. CASE UnlinkResult(t, f, p) = "FR_OK" /\ o.tree = Without(t, p)
  <2>1. Entry(p) \notin DOMAIN f
    <3>1. p \in DOMAIN t /\ p # <<>>
      BY <1>2, UnlinkedLeaf
    <3>2. FollowPath(t, p) = "FR_OK"
      BY <3>1 DEF FollowPath
    <3> QED BY <1>2, <3>1, <3>2 DEF UnlinkResult
  <2>2. ASSUME NEW x \in DOMAIN f, OfFile(x) PROVE x[2] # p
    BY <2>1, <2>2 DEF OfFile
  <2>3. DOMAIN o.tree = DOMAIN t \ {p}
    BY <1>2, WithoutOne
  <2> QED BY <2>2, <2>3 DEF OpenExist
<1> QED BY <1>1, <1>2, UnlinkOutcome

LEMMA TableNext ==
  ASSUME Words, Places, Table, Step, host' = host
  PROVE  Table'
<1> DEFINE h == host
<1>1. host' = host
  OBVIOUS
<1>2. stack \in Seq(Frame) /\ Deepening(stack) /\ OpenExist(files, tree) /\ cf \in CopyCall
  BY DEF Places, Table
<1>3. ASSUME stack # <<>>
      PROVE  /\ Front(stack) \in Seq(Frame) /\ Deepening(Front(stack))
             /\ AllOf(Front(stack)) = OuterOf(stack)
             /\ AllOf(stack) = OuterOf(stack) \cup ClusterOf(Top.src)
             /\ Cluster(Top.src) \notin OuterOf(stack)
  BY <1>2, <1>3, FrontFacts, FrontClusters DEF Top
<1>4. ASSUME at \in AtQuiet, at' \in AtQuiet, stack' = stack, files' = files, stuck' = stuck,
             OpenExist(files, tree'), at' \in AtIdle => stack = <<>>
      PROVE  Table'
  <2>1. Booked(files, h, AllOf(stack), {}, stuck)
    BY <1>4 DEF Table, Booking
  <2>2. Booking'
    BY <1>1, <1>4, <2>1 DEF Booking, AtQuiet, AtIdle, AtBoth
  <2> QED BY <1>2, <1>4, <2>2 DEF Table
<1>5. ASSUME at \in AtQuiet, NEW b, ReturnTo(stack, b), files' = files, stuck' = stuck,
             OpenExist(files, tree')
      PROVE  Table'
  <2>1. Booked(files, h, AllOf(stack), {}, stuck)
    BY <1>5 DEF Table, Booking
  <2> QED BY <1>1, <1>2, <1>5, <2>1, ReturnTable
<1>6. CASE Start
  <2>1. /\ at \in AtIdle /\ at' \in AtIdle
        /\ UNCHANGED <<stack, files, stuck, tree>>
    BY <1>6 DEF Start, AtIdle
  <2> QED BY <1>2, <1>4, <2>1 DEF Table, AtQuiet
<1>7. CASE NextArgument
  <2>1. /\ at \in AtIdle /\ at' \in AtIdle \cup {"stat"}
        /\ UNCHANGED <<stack, files, stuck, tree>>
    BY <1>7 DEF NextArgument, AtIdle
  <2> QED BY <1>2, <1>4, <2>1 DEF Table, AtQuiet
<1>8. CASE ClearTarget
  <2>1. /\ at \in AtIdle /\ at' \in AtIdle /\ UNCHANGED <<stack, files, stuck>>
        /\ \E o \in Unlink(tree, files, szTarget, failing) : tree' = o.tree
    BY <1>8 DEF ClearTarget, AtIdle
  <2>2. OpenExist(files, tree')
    BY <1>2, <2>1, UnlinkExist
  <2> QED BY <1>4, <2>1, <2>2 DEF Table, AtQuiet
<1>9. CASE CopyDirArgument
  <2>1. /\ at = "contains" /\ UNCHANGED <<files, stuck, tree>> /\ stack = <<>>
        /\ szTarget \in Seq(Names) /\ arg.path \in Seq(Names)
    BY <1>9 DEF CopyDirArgument, Table, AtIdle, Words
  <2>2. \/ at' = "next" /\ stack' = stack
        \/ at' = "mkdir" /\ stack' = <<NewFrame(szTarget, arg.path)>>
    BY <1>9 DEF CopyDirArgument, NewFrame
  <2>3. CASE at' = "next" /\ stack' = stack
    BY <1>2, <1>4, <2>1, <2>3 DEF Table, AtQuiet, AtIdle
  <2>4. CASE at' = "mkdir" /\ stack' = <<NewFrame(szTarget, arg.path)>>
    <3>1. stack' = Append(stack, NewFrame(szTarget, arg.path))
      BY <2>1, <2>4
    <3>2. OuterOf(stack') = AllOf(stack) /\ Deepening(stack')
      BY <1>2, <2>1, <3>1, PushedClusters
    <3>3. Booked(files, h, AllOf(stack), {}, stuck)
      BY <2>1 DEF Table, Booking, AtQuiet, AtIdle
    <3>4. Booking'
      BY <1>1, <2>1, <2>4, <3>2, <3>3 DEF Booking, AtQuiet, AtIdle, AtBoth
    <3> QED BY <1>2, <2>1, <2>4, <3>2, <3>4 DEF Table, AtIdle
  <2> QED BY <2>2, <2>3, <2>4
<1>10. CASE NoMore
  <2>1. at = "next" /\ at' = "exit" /\ UNCHANGED <<stack, files, stuck, tree>>
    BY <1>10 DEF NoMore
  <2> QED BY <1>2, <1>4, <2>1 DEF Table, AtQuiet, AtIdle
<1>11. CASE MakeDir
  <2>1. PICK o \in Mkdir(tree, Top.dst, failing) :
          /\ tree' = o.tree
          /\ (at' = "opendir" /\ stack' = stack) \/ ReturnTo(Front(stack), TRUE)
    BY <1>11 DEF MakeDir
  <2>2. at = "mkdir" /\ UNCHANGED <<files, stuck>> /\ stack # <<>>
    BY <1>11 DEF MakeDir, Places, AtDir
  <2>3. DOMAIN tree \subseteq DOMAIN tree'
    BY <2>1 DEF Mkdir, With
  <2>4. OpenExist(files, tree')
    BY <1>2, <2>3 DEF OpenExist
  <2>5. Booked(files, h, OuterOf(stack), {}, stuck)
    BY <2>2 DEF Table, Booking
  <2>6. CASE at' = "opendir" /\ stack' = stack
    <3>1. Booking'
      BY <1>1, <2>2, <2>5, <2>6 DEF Booking, AtQuiet, AtIdle, AtBoth
    <3> QED BY <1>2, <2>2, <2>4, <2>6, <3>1 DEF Table, AtIdle
  <2>7. CASE ReturnTo(Front(stack), TRUE)
    BY <1>1, <1>3, <2>2, <2>4, <2>5, <2>7, ReturnTable
  <2> QED BY <2>1, <2>6, <2>7
<1>12. CASE OpenDir
  <2>1. PICK o \in Opendir(tree, files, Top.src, failing) :
          /\ files' = o.files
          /\ IF o.res = "FR_OK"
               THEN /\ at' = "readdir"
                    /\ stack' = [stack EXCEPT ![Len(stack)].listed = NamesIn(tree, Top.src)]
               ELSE ReturnTo(Front(stack), TRUE)
    BY <1>12 DEF OpenDir
  <2>2. at = "opendir" /\ UNCHANGED <<tree, stuck>> /\ stack # <<>>
    BY <1>12 DEF OpenDir, Places, AtDir
  <2>3. Booked(files, h, OuterOf(stack), {}, stuck)
    BY <2>2 DEF Table, Booking
  <2>4. /\ o.res = "FR_OK" => Booked(o.files, h, OuterOf(stack) \cup ClusterOf(Top.src), {}, stuck)
        /\ o.res # "FR_OK" => o.files = files
    <3> HIDE DEF h
    <3>1. Cluster(Top.src) \notin OuterOf(stack)
      BY <1>3, <2>2
    <3>2. o.res = "FR_OK" => Booked(o.files, h, OuterOf(stack) \cup ClusterOf(Top.src), {}, stuck)
      BY <2>3, <3>1, OpendirBooks
    <3> QED BY <3>2 DEF Opendir
  <2>5. OpenExist(files', tree')
    <3>1. o.files = files \/ o.files = IncShare(files, Cluster(Top.src), 0)
      BY DEF Opendir
    <3>2. DOMAIN o.files \subseteq DOMAIN files \cup {Cluster(Top.src)}
      BY <3>1 DEF IncShare, With
    <3> QED BY <1>2, <2>1, <2>2, <3>2, Kinds DEF OpenExist
  <2>6. CASE o.res = "FR_OK" /\ at' = "readdir"
             /\ stack' = [stack EXCEPT ![Len(stack)].listed = NamesIn(tree, Top.src)]
    <3>1. NamesIn(tree, Top.src) \in SUBSET Names /\ Len(stack) \in DOMAIN stack
      BY <1>2, <2>2, NamesInNames, TopFacts
    <3>2. SameFrames(stack', stack)
      BY <1>2, <2>6, <3>1, Noted
    <3>3. AllOf(stack') = AllOf(stack) /\ Deepening(stack')
      BY <1>2, <3>2, SameClusters
    <3>4. Booking'
      BY <1>1, <1>3, <2>1, <2>2, <2>4, <2>6, <3>3 DEF Booking, AtQuiet, AtIdle, AtBoth
    <3> QED BY <1>2, <2>2, <2>5, <2>6, <3>3, <3>4 DEF Table, AtQuiet, AtIdle
  <2>7. CASE o.res # "FR_OK" /\ ReturnTo(Front(stack), TRUE)
    BY <1>1, <1>3, <2>1, <2>2, <2>3, <2>4, <2>5, <2>7, ReturnTable
  <2> QED BY <2>1, <2>6, <2>7
<1>13. CASE LeaveDir
  <2>1. /\ at = "readdir" /\ files' = Closedir(files, Top.src) /\ UNCHANGED <<tree, stuck>>
        /\ stack # <<>> /\ \E b : ReturnTo(Front(stack), b)
    BY <1>13 DEF LeaveDir, Places, AtDir
  <2>2. Booked(files, h, AllOf(stack), {}, stuck)
    BY <2>1 DEF Table, Booking, AtQuiet
  <2>3. Booked(files', h, OuterOf(stack), {}, stuck)
    BY <1>3, <2>1, <2>2, ClosedirBooks
  <2>4. OpenExist(files', tree')
    <3>1. DOMAIN files' \subseteq DOMAIN files
      BY <2>1, DecShareLess DEF Closedir
    <3> QED BY <1>2, <2>1, <3>1 DEF OpenExist
  <2> QED BY <1>1, <1>3, <2>1, <2>3, <2>4, ReturnTable
<1>14. CASE CopyEntry
  <2> DEFINE Dst(p) == Append(Top.dst, Last(p))
  <2>1. PICK p \in Unread, st \in Seq(Frame) :
          /\ SameFrames(st, stack)
          /\ \/ stack' = st /\ at' = "readdir" /\ cf' = cf
             \/ stack' = Append(st, NewFrame(Dst(p), p)) /\ at' = "mkdir" /\ cf' = cf
             \/ stack' = st /\ at' = "stat" /\ cf' = [dst |-> Dst(p), src |-> p, pos |-> 1]
    BY <1>14, EntryStep
  <2>2. at = "readdir" /\ UNCHANGED <<files, tree, stuck>> /\ stack # <<>>
    BY <1>14 DEF CopyEntry, Places, AtDir
  <2>3. AllOf(st) = AllOf(stack) /\ Deepening(st)
    BY <1>2, <2>1, SameClusters
  <2>4. Booked(files, h, AllOf(st), {}, stuck)
    BY <2>2, <2>3 DEF Table, Booking, AtQuiet
  <2>5. CASE stack' = st /\ at' \in {"readdir", "stat"}
    <3>1. Booking'
      BY <1>1, <2>2, <2>4, <2>5 DEF Booking, AtQuiet, AtIdle, AtBoth
    <3> QED BY <1>2, <2>2, <2>3, <2>5, <3>1 DEF Table, AtQuiet, AtIdle
  <2>6. CASE stack' = Append(st, NewFrame(Dst(p), p)) /\ at' = "mkdir"
    <3>1. p \in Seq(Names) /\ p # <<>> /\ Front(p) = Top.src
      BY <2>1 DEF Unread, Children, Words
    <3>2. Len(p) = Len(Top.src) + 1 /\ Last(p) \in Names
      <4>1. Len(Front(p)) = Len(p) - 1 /\ Len(p) \in Nat
        BY <3>1, FrontFacts, NonEmpty
      <4> QED BY <3>1, <4>1, FrontAndLast
    <3>3. Len(stack) \in DOMAIN stack /\ Top = stack[Len(stack)] /\ Top \in Frame
      BY <1>2, <2>2, TopFacts
    <3>4. Last(st).src = Top.src
      BY <2>1, <3>3 DEF SameFrames, Last
    <3>5. Dst(p) \in Seq(Names)
      BY <3>2, <3>3, AppendProperties DEF Frame
    <3> HIDE DEF Dst
    <3>6. OuterOf(stack') = AllOf(st) /\ Deepening(stack')
      BY <2>1, <2>3, <2>6, <3>1, <3>2, <3>4, <3>5, PushedClusters
    <3>7. Booking'
      BY <1>1, <2>2, <2>4, <2>6, <3>6 DEF Booking, AtQuiet, AtIdle, AtBoth
    <3> QED BY <1>2, <2>2, <2>6, <3>6, <3>7 DEF Table, AtIdle
  <2> QED BY <2>1, <2>5, <2>6
<1>15. CASE StatDest
  <2>1. /\ at = "stat" /\ UNCHANGED <<files, tree, stuck>>
        /\ (at' = "source" /\ stack' = stack) \/ \E b : ReturnTo(stack, b)
    BY <1>15 DEF StatDest, Leave
  <2> QED BY <1>2, <1>4, <1>5, <2>1 DEF AtQuiet, AtIdle
<1>16. CASE OpenSource
  <2>1. PICK o \in OpenRead(tree, files, cf.src, failing) :
          /\ files' = o.files
          /\ IF o.res = "FR_OK" THEN at' = "dest" /\ stack' = stack ELSE ReturnTo(stack, TRUE)
    BY <1>16 DEF OpenSource, Leave
  <2>2. at = "source" /\ UNCHANGED <<tree, stuck, cf>>
    BY <1>16 DEF OpenSource
  <2>3. Booked(files, h, AllOf(stack), {}, stuck)
    BY <2>2 DEF Table, Booking, AtQuiet
  <2>4. /\ o.res = "FR_OK" => /\ cf.src \in DOMAIN tree
                              /\ Booked(o.files, h, AllOf(stack), {Entry(cf.src)}, stuck)
        /\ o.res # "FR_OK" => o.files = files
    <3> HIDE DEF h
    <3>1. o.res = "FR_OK" => Booked(o.files, h, AllOf(stack), {Entry(cf.src)}, stuck)
      BY <2>3, OpenReadBooks
    <3> QED BY <3>1, OpenReadOutcome
  <2>5. CASE o.res = "FR_OK" /\ at' = "dest" /\ stack' = stack
    <3>1. OpenExist(o.files, tree)
      <4>1. o.files = files \/ o.files = IncShare(files, Entry(cf.src), 0)
        BY DEF OpenRead
      <4>2. DOMAIN o.files \subseteq DOMAIN files \cup {Entry(cf.src)}
        BY <4>1 DEF IncShare, With
      <4> QED BY <1>2, <2>4, <2>5, <4>2, Kinds DEF OpenExist
    <3>2. Booking'
      BY <1>1, <2>1, <2>2, <2>4, <2>5 DEF Booking, AtQuiet, AtIdle, AtBoth
    <3> QED BY <1>2, <2>1, <2>2, <2>5, <3>1, <3>2 DEF Table, AtIdle
  <2>6. CASE o.res # "FR_OK" /\ ReturnTo(stack, TRUE)
    BY <1>2, <1>5, <2>1, <2>2, <2>4, <2>6 DEF AtQuiet
  <2> QED BY <2>1, <2>5, <2>6
<1>17. CASE OpenDest
  <2>1. PICK o \in OpenCreate(tree, files, cf.dst, failing) :
          /\ tree' = o.tree
          /\ \/ o.res = "FR_OK" /\ files' = o.files /\ at' = "copy" /\ stack' = stack
             \/ /\ o.res # "FR_OK" /\ files' = DecShare(o.files, Entry(cf.src))
                /\ ReturnTo(stack, TRUE)
    BY <1>17 DEF OpenDest, Leave
  <2>2. at = "dest" /\ UNCHANGED <<stuck, cf>>
    BY <1>17 DEF OpenDest
  <2>3. Booked(files, h, AllOf(stack), {Entry(cf.src)}, stuck)
    BY <2>2 DEF Table, Booking
  <2>4. /\ o.res = "FR_OK" =>
             /\ Booked(o.files, h, AllOf(stack), {Entry(cf.src)}, stuck \cup {Entry(cf.dst)})
             /\ Entry(cf.dst) \notin stuck
        /\ o.res # "FR_OK" => o.files = files
        /\ OpenExist(o.files, o.tree)
    BY <1>2, <2>3, OpenCreateBooks
  <2>5. CASE o.res = "FR_OK" /\ files' = o.files /\ at' = "copy" /\ stack' = stack
    <3>1. Booking'
      BY <1>1, <2>2, <2>4, <2>5 DEF Booking, AtQuiet, AtIdle, AtBoth
    <3> QED BY <1>2, <2>1, <2>4, <2>5, <3>1 DEF Table, AtBoth, AtIdle
  <2>6. CASE /\ o.res # "FR_OK" /\ files' = DecShare(o.files, Entry(cf.src))
             /\ ReturnTo(stack, TRUE)
    <3>1. Booked(files', h, AllOf(stack), {}, stuck)
      BY <2>3, <2>4, <2>6, CloseReadBooks
    <3>2. DOMAIN files' \subseteq DOMAIN o.files
      BY <2>6, DecShareLess
    <3>3. OpenExist(files', tree')
      BY <2>1, <2>4, <3>2 DEF OpenExist
    <3> QED BY <1>1, <1>2, <2>2, <2>6, <3>1, <3>3, ReturnTable
  <2> QED BY <2>1, <2>5, <2>6
<1>18. CASE CopyChunk
  <2>1. /\ at = "copy" /\ at' \in AtBoth /\ UNCHANGED <<files, stack, stuck>>
        /\ cf' \in {cf, [cf EXCEPT !.pos = @ + 1]}
        /\ tree' = tree \/ tree' = [tree EXCEPT ![cf.dst].data = Append(@, Chunk)]
    BY <1>18 DEF CopyChunk, AtBoth
  <2>2. cf'.dst = cf.dst /\ cf'.src = cf.src
    BY <1>2, <2>1 DEF CopyCall
  <2>3. DOMAIN tree' = DOMAIN tree
    BY <2>1
  <2>4. OpenExist(files, tree')
    BY <1>2, <2>3 DEF OpenExist
  <2>5. /\ Booked(files, h, AllOf(stack), {Entry(cf.src)}, stuck \cup {Entry(cf.dst)})
        /\ Entry(cf.dst) \notin stuck
    BY <2>1 DEF Table, Booking, AtBoth
  <2>6. Booking'
    BY <1>1, <2>1, <2>2, <2>5 DEF Booking, AtQuiet, AtIdle, AtBoth
  <2> QED BY <1>2, <2>1, <2>4, <2>6 DEF Table, AtBoth, AtIdle
<1>19. CASE CloseBoth
  <2> DEFINE g == DecShare(files, Entry(cf.src))
  <2>1. /\ files' \in Close(g, cf.dst, failing)
        /\ stuck' = stuck \cup ({Entry(cf.dst)} \cap DOMAIN files')
        /\ at \in AtBoth /\ at' \in {"restat", "discard"} /\ UNCHANGED <<tree, stack>>
    BY <1>19 DEF CloseBoth, AtBoth
  <2>2. /\ Booked(files, h, AllOf(stack), {Entry(cf.src)}, stuck \cup {Entry(cf.dst)})
        /\ Entry(cf.dst) \notin stuck
    BY <2>1 DEF Table, Booking
  <2>3. Booked(g, h, AllOf(stack), {}, stuck \cup {Entry(cf.dst)})
    BY <2>2, CloseReadBooks
  <2>4. DOMAIN g \subseteq DOMAIN files
    BY DecShareLess
  <2> HIDE DEF g
  <2>5. Booked(files', h, AllOf(stack), {}, stuck') /\ DOMAIN files' \subseteq DOMAIN g
    BY <2>1, <2>2, <2>3, CloseBooks
  <2>6. OpenExist(files', tree')
    BY <1>2, <2>1, <2>4, <2>5 DEF OpenExist
  <2>7. Booking'
    BY <1>1, <2>1, <2>5 DEF Booking, AtQuiet, AtIdle, AtBoth
  <2> QED BY <1>2, <2>1, <2>6, <2>7 DEF Table, AtQuiet, AtIdle
<1>20. ASSUME at \in AtQuiet, UNCHANGED <<files, stuck>>, \E b : ReturnTo(stack, b),
              \E p : \E o \in Unlink(tree, files, p, failing) : tree' = o.tree
       PROVE  Table'
  <2>1. OpenExist(files, tree')
    BY <1>2, <1>20, UnlinkExist
  <2> QED BY <1>5, <1>20, <2>1
<1>21. CASE SetTime
  BY <1>20, <1>21 DEF SetTime, Leave, AtQuiet
<1>22. CASE Discard
  BY <1>20, <1>22 DEF Discard, Leave, AtQuiet
<1> QED BY <1>6, <1>7, <1>8, <1>9, <1>10, <1>11, <1>12, <1>13, <1>14, <1>15, <1>16,
           <1>17, <1>18, <1>19, <1>21, <1>22 DEF Step

LEMMA TableStarts ==
  ASSUME Init
  PROVE  Table
<1>1. /\ at = "start" /\ stack = <<>> /\ stuck = {} /\ host = DOMAIN files
  BY DEF Init
<1>2. \E p \in DOMAIN tree : files \in {[o \in {} |-> 0], [o \in {Entry(p)} |-> 1]}
  BY DEF Init
<1>3. \A o \in DOMAIN files : OfFile(o) /\ files[o] = 1 /\ o[2] \in DOMAIN tree
  BY <1>2, Kinds
<1>4. AllOf(stack) = {}
  BY <1>1 DEF AllOf
<1>5. Booked(files, host, AllOf(stack), {}, stuck)
  BY <1>1, <1>3, <1>4 DEF Booked
<1>6. Booking
  BY <1>1, <1>5 DEF Booking, AtQuiet, AtIdle, AtBoth
<1> QED BY <1>1, <1>3, <1>6 DEF Table, AtQuiet, AtIdle, OpenExist, Deepening

(* The host opens a file or closes one.                                      *)
LEMMA HostOpensBooks ==
  ASSUME NEW f, NEW h, NEW C, NEW R, NEW W, Booked(f, h, C, R, W),
         NEW p, Entry(p) \notin h, ChkShare(f, Entry(p), 0) = "FR_OK"
  PROVE  Booked(IncShare(f, Entry(p), 0), h \cup {Entry(p)}, C, R, W)
<1> DEFINE e == Entry(p)
           g == IncShare(f, e, 0)
<1>1. OfFile(e) /\ ~ OfDir(e)
  BY Kinds
<1>2. e \in DOMAIN f => f[e] # Writing
  BY DEF ChkShare
<1> HIDE DEF e
<1>3. /\ DOMAIN g = DOMAIN f \cup {e}
      /\ g[e] = (IF e \in DOMAIN f THEN f[e] + 1 ELSE 1)
      /\ \A x \in DOMAIN f : x # e => g[x] = f[x]
  BY DEF IncShare, With
<1> HIDE DEF g
<1>4. e \notin W /\ e \notin C
  BY <1>1, <1>2 DEF Booked
<1>5. g[e] = (IF e \in R THEN 2 ELSE 1)
  BY <1>3, <1>4 DEF Booked, e
<1>6. DOMAIN g = (h \cup {e}) \cup C \cup R \cup W
  BY <1>3 DEF Booked
<1>7. Booked(g, h \cup {e}, C, R, W)
  BY <1>1, <1>3, <1>4, <1>5, <1>6 DEF Booked
<1> QED BY <1>7 DEF g, e

LEMMA HostClosesBooks ==
  ASSUME NEW f, NEW h, NEW C, NEW R, NEW W, Booked(f, h, C, R, W), NEW o \in h
  PROVE  Booked(DecShare(f, o), h \ {o}, C, R, W)
<1> DEFINE g == DecShare(f, o)
<1>1. o \in DOMAIN f /\ f[o] = (IF o \in R THEN 2 ELSE 1) /\ OfFile(o)
  BY DEF Booked
<1>2. o \notin W /\ o \notin C
  BY <1>1, Kinds DEF Booked
<1>3. CASE o \in R
  <2>1. g = [f EXCEPT ![o] = 1]
    BY <1>1, <1>3 DEF DecShare, Writing
  <2> QED BY <1>1, <1>2, <1>3, <2>1 DEF Booked
<1>4. CASE o \notin R
  <2>1. DOMAIN g = DOMAIN f \ {o} /\ \A x \in DOMAIN f \ {o} : g[x] = f[x]
    BY <1>1, <1>4, DecShareOne
  <2> HIDE DEF g
  <2>2. Booked(g, h \ {o}, C, R, W)
    BY <1>2, <1>4, <2>1 DEF Booked
  <2> QED BY <2>2 DEF g
<1> QED BY <1>3, <1>4

LEMMA TableStill ==
  ASSUME Table, Still
  PROVE  Table'
<1>1. UNCHANGED <<tree, at, stack, cf, stuck>>
  BY DEF Still
<1>2. CASE UNCHANGED <<files, host>>
  BY <1>1, <1>2 DEF Table, Booking
<1>3. ASSUME DOMAIN files' \subseteq DOMAIN files \/ \E p \in DOMAIN tree : DOMAIN files' = DOMAIN files \cup {Entry(p)},
             \A C, R, W : Booked(files, host, C, R, W) => Booked(files', host', C, R, W)
      PROVE  Table'
  <2>1. Booking'
    BY <1>1, <1>3 DEF Table, Booking
  <2>2. OpenExist(files', tree)
    <3>1. ASSUME NEW o \in DOMAIN files', OfFile(o) PROVE o[2] \in DOMAIN tree
      <4>1. CASE o \in DOMAIN files
        BY <3>1, <4>1 DEF Table, OpenExist
      <4>2. CASE o \notin DOMAIN files
        <5>1. PICK p \in DOMAIN tree : o = Entry(p)
          BY <1>3, <4>2
        <5> QED BY <5>1, Kinds DEF Entry
      <4> QED BY <4>1, <4>2
    <3>2. tree' = tree
      BY <1>1
    <3> QED BY <3>1, <3>2 DEF OpenExist
  <2> QED BY <1>1, <2>1, <2>2 DEF Table
<1>4. CASE HostOpens
  <2>1. PICK p \in DOMAIN tree :
          /\ Entry(p) \notin host /\ ChkShare(files, Entry(p), 0) = "FR_OK"
          /\ host' = host \cup {Entry(p)} /\ files' = IncShare(files, Entry(p), 0)
    BY <1>4 DEF HostOpens
  <2>2. DOMAIN files' = DOMAIN files \cup {Entry(p)}
    BY <2>1 DEF IncShare, With
  <2>3. \A C, R, W : Booked(files, host, C, R, W) => Booked(files', host', C, R, W)
    BY <2>1, HostOpensBooks
  <2> QED BY <1>3, <2>2, <2>3
<1>5. CASE HostCloses
  <2>1. PICK o \in host : host' = host \ {o} /\ files' = DecShare(files, o)
    BY <1>5 DEF HostCloses
  <2>2. DOMAIN files' \subseteq DOMAIN files
    BY <2>1, DecShareLess
  <2>3. \A C, R, W : Booked(files, host, C, R, W) => Booked(files', host', C, R, W)
    BY <2>1, HostClosesBooks
  <2> QED BY <1>3, <2>2, <2>3
<1> QED BY <1>2, <1>4, <1>5 DEF Still

(* cp gives back every entry of the table that it takes: what is open is     *)
(* what the host has open, the directories on the stack, the two ends of the *)
(* copy that is going on, and the files whose f_close failed.                *)
THEOREM CopyTable == Spec => []TableExact
<1> DEFINE Inv == Words /\ Places /\ Table
<1>1. Init => Inv
  BY StartsSo, TableStarts
<1>2. Inv /\ [Next]_vars => Inv'
  <2>1. CASE Still
    <3>1. Inv => Table'
      BY <2>1, TableStill
    <3> QED BY <2>1, <3>1, Unchanged
  <2>2. CASE Step /\ host' = host /\ called' \in BOOLEAN
    BY <2>2, WordsNext, PlacesNext, TableNext
  <2> QED BY <2>1, <2>2, StepOrStill
<1>3. Inv => TableExact
  <2> SUFFICES ASSUME Table PROVE TableExact
    OBVIOUS
  <2>1. OpenDirs = IF at \in {"mkdir", "opendir"} THEN OuterOf(stack) ELSE AllOf(stack)
    <3>1. CASE at \in {"mkdir", "opendir"}
      BY <3>1 DEF OpenDirs, OuterOf
    <3>2. CASE at \notin {"mkdir", "opendir"}
      <4>1. {j \in DOMAIN stack : j < Len(stack) \/ at \notin {"mkdir", "opendir"}} = DOMAIN stack
        BY <3>2
      <4> QED BY <3>2, <4>1 DEF OpenDirs, AllOf
    <3> QED BY <3>1, <3>2
  <2>2. CASE at \in {"mkdir", "opendir"}
    BY <2>1, <2>2 DEF Table, Booking, Booked, TableExact, OpenFiles
  <2>3. CASE at \in AtQuiet
    BY <2>1, <2>3 DEF Table, Booking, Booked, TableExact, OpenFiles, AtQuiet, AtIdle
  <2>4. CASE at = "dest"
    BY <2>1, <2>4 DEF Table, Booking, Booked, TableExact, OpenFiles
  <2>5. CASE at \in AtBoth
    BY <2>1, <2>5 DEF Table, Booking, Booked, TableExact, OpenFiles, AtBoth
  <2> QED BY <2>2, <2>3, <2>4, <2>5 DEF Table
<1> HIDE DEF Inv
<1> QED BY <1>1, <1>2, <1>3, PTL DEF Spec

-----------------------------------------------------------------------------
(* The types, and that the volume stays a tree: a directory or a file is     *)
(* made in a directory, a file is emptied or gets longer, a leaf is removed. *)
Flags == {failing, overwrite, found, toDir, err, called} \subseteq BOOLEAN

LEMMA FlagsNext ==
  ASSUME Flags, Step, called' \in BOOLEAN
  PROVE  Flags'
<1>1. ASSUME NEW outer, NEW failed, ReturnTo(outer, failed)
      PROVE  err' \in BOOLEAN
  BY <1>1 DEF ReturnTo, Flags
<1>3. ASSUME UNCHANGED <<failing, overwrite, found, toDir>>, err' \in BOOLEAN
      PROVE  Flags'
  BY <1>3 DEF Flags
<1>4. CASE Start
  <2>1. PICK a \in TargetArg(tree, files, cmd.target, failing) :
          /\ found' = (a.kind # "none") /\ toDir' = (cmd.target.slash \/ a.kind = "dir")
          /\ err' = a.err
    BY <1>4 DEF Start
  <2>2. a.err \in BOOLEAN
    BY NextArgError DEF TargetArg
  <2>3. found' \in BOOLEAN /\ toDir' \in BOOLEAN
    BY <2>1
  <2> QED BY <1>4, <2>1, <2>2, <2>3 DEF Start, Flags
<1>5. CASE NextArgument
  <2>1. err' \in BOOLEAN
    BY <1>5 DEF NextArgument
  <2> QED BY <1>3, <1>5, <2>1 DEF NextArgument, command
<1>6. CASE ClearTarget
  BY <1>3, <1>6 DEF ClearTarget, command, Flags
<1>7. CASE CopyDirArgument
  <2>1. err' \in BOOLEAN
    BY <1>7 DEF CopyDirArgument, Flags
  <2> QED BY <1>3, <1>7, <2>1 DEF CopyDirArgument, command
<1>8. CASE NoMore
  BY <1>3, <1>8 DEF NoMore, command, Flags
<1>9. CASE MakeDir
  <2>1. err' \in BOOLEAN
    BY <1>1, <1>9 DEF MakeDir, Flags
  <2> QED BY <1>3, <1>9, <2>1 DEF MakeDir, command
<1>10. CASE OpenDir
  <2>1. err' \in BOOLEAN
    BY <1>1, <1>10 DEF OpenDir, Flags
  <2> QED BY <1>10, <2>1 DEF OpenDir, command, Flags
<1>11. CASE LeaveDir
  <2>1. err' \in BOOLEAN
    BY <1>1, <1>11 DEF LeaveDir
  <2> QED BY <1>3, <1>11, <2>1 DEF LeaveDir, command
<1>12. CASE CopyEntry
  BY <1>3, <1>12 DEF CopyEntry, command, Flags
<1>13. CASE StatDest
  <2>1. err' \in BOOLEAN
    BY <1>1, <1>13 DEF StatDest, Leave, Flags
  <2> QED BY <1>3, <1>13, <2>1 DEF StatDest, command
<1>14. CASE OpenSource
  <2>1. err' \in BOOLEAN
    BY <1>1, <1>14 DEF OpenSource, Leave, Flags
  <2> QED BY <1>14, <2>1 DEF OpenSource, command, Flags
<1>15. CASE OpenDest
  <2>1. err' \in BOOLEAN
    BY <1>1, <1>15 DEF OpenDest, Leave, Flags
  <2> QED BY <1>15, <2>1 DEF OpenDest, command, Flags
<1>16. CASE CopyChunk
  BY <1>3, <1>16 DEF CopyChunk, command, Flags
<1>17. CASE CloseBoth
  BY <1>3, <1>17 DEF CloseBoth, command, Flags
<1>18. CASE SetTime
  <2>1. err' \in BOOLEAN
    BY <1>1, <1>18 DEF SetTime, Leave
  <2> QED BY <1>3, <1>18, <2>1 DEF SetTime, command
<1>19. CASE Discard
  <2>1. err' \in BOOLEAN
    BY <1>1, <1>19 DEF Discard, Leave
  <2> QED BY <1>3, <1>19, <2>1 DEF Discard, command
<1> QED BY <1>4, <1>5, <1>6, <1>7, <1>8, <1>9, <1>10, <1>11, <1>12, <1>13, <1>14, <1>15,
           <1>16, <1>17, <1>18, <1>19 DEF Step

(* What is being written is a file.                                          *)
WrittenFile(t, p) == p \in DOMAIN t /\ \E data : t[p] = FileNode(data, FALSE)

Grown == IsTree(tree) /\ (at = "copy" => WrittenFile(tree, cf.dst))

LEMMA GrownNext ==
  ASSUME Words, Places, Grown, Step
  PROVE  Grown'
<1>1. /\ IsTree(tree) /\ DOMAIN tree \subseteq Seq(Names) /\ cf \in CopyCall
      /\ cf.dst \in Seq(Names)
  BY DEF Grown, Words, Places, CopyCall
<1>2. ASSUME NEW outer, NEW failed, ReturnTo(outer, failed)
      PROVE  at' # "copy"
  BY <1>2 DEF ReturnTo
<1>3. CASE tree' = tree /\ at' # "copy"
  BY <1>1, <1>3 DEF Grown
<1>4. CASE \/ Start \/ NextArgument \/ CopyDirArgument \/ NoMore \/ LeaveDir \/ CopyEntry
           \/ CloseBoth
  <2>1. tree' = tree /\ at' # "copy"
    <3>1. CASE Start \/ NextArgument \/ CopyDirArgument \/ NoMore
      BY <3>1 DEF Start, NextArgument, CopyDirArgument, NoMore
    <3>2. CASE LeaveDir \/ CopyEntry \/ CloseBoth
      BY <1>2, <3>2 DEF LeaveDir, CopyEntry, CloseBoth
    <3> QED BY <1>4, <3>1, <3>2
  <2> QED BY <1>3, <2>1
<1>5. CASE OpenDir \/ StatDest \/ OpenSource
  <2>1. tree' = tree /\ at' # "copy"
    BY <1>2, <1>5 DEF OpenDir, StatDest, OpenSource, Leave
  <2> QED BY <1>3, <2>1
<1>6. ASSUME at' # "copy", \E p : \E o \in Unlink(tree, files, p, failing) : tree' = o.tree
      PROVE  Grown'
  BY <1>1, <1>6, UnlinkTree DEF Grown
<1>7. CASE ClearTarget
  BY <1>6, <1>7 DEF ClearTarget
<1>8. CASE SetTime
  BY <1>2, <1>6, <1>8 DEF SetTime, Leave
<1>9. CASE Discard
  BY <1>2, <1>6, <1>9 DEF Discard, Leave
<1>10. CASE MakeDir
  <2>1. PICK o \in Mkdir(tree, Top.dst, failing) :
          tree' = o.tree /\ (at' = "opendir" \/ ReturnTo(Front(stack), TRUE))
    BY <1>10 DEF MakeDir
  <2>2. Top.dst \in Seq(Names)
    BY <1>10, TopReached DEF MakeDir, AtDir
  <2>3. \/ o.tree = tree
        \/ /\ o.tree = With(tree, Top.dst, DirNode)
           /\ Top.dst \notin DOMAIN tree /\ IsDir(tree, Front(Top.dst))
    BY DEF Mkdir, MkdirResult, FollowPath
  <2>4. IsTree(o.tree)
    BY <1>1, <2>2, <2>3, EntryAdded
  <2> QED BY <1>2, <2>1, <2>4 DEF Grown
<1>11. CASE OpenDest
  <2>1. PICK o \in OpenCreate(tree, files, cf.dst, failing) :
          /\ tree' = o.tree
          /\ IF o.res = "FR_OK" THEN at' = "copy" ELSE ReturnTo(stack, TRUE)
    BY <1>11 DEF OpenDest, Leave
  <2>2. cf' = cf
    BY <1>11 DEF OpenDest
  <2>3. \/ OpenCreateResult(tree, files, cf.dst) = "FR_OK" /\ o.tree = Created(tree, cf.dst)
        \/ o.tree = tree /\ o.res # "FR_OK"
    BY CreateOutcome
  <2>4. CASE o.tree = tree /\ o.res # "FR_OK"
    BY <1>1, <1>2, <2>1, <2>4 DEF Grown
  <2>5. CASE OpenCreateResult(tree, files, cf.dst) = "FR_OK" /\ o.tree = Created(tree, cf.dst)
    <3>1. WrittenFile(o.tree, cf.dst)
      BY <2>5 DEF WrittenFile, Created, With
    <3>2. CASE cf.dst \in DOMAIN tree
      <4>1. ~ tree[cf.dst].dir
        BY <2>5, <3>2 DEF OpenCreateResult, FollowPath
      <4>2. DOMAIN o.tree = DOMAIN tree /\ \A q \in DOMAIN tree : q # cf.dst => o.tree[q] = tree[q]
        BY <2>5, <3>2 DEF Created, With
      <4> QED BY <1>1, <2>1, <2>2, <3>1, <4>1, <4>2, FileRewritten DEF Grown
    <3>3. CASE cf.dst \notin DOMAIN tree
      <4>1. IsDir(tree, Front(cf.dst))
        BY <2>5, <3>3 DEF OpenCreateResult, FollowPath
      <4>2. IsTree(o.tree)
        BY <1>1, <2>5, <3>3, <4>1, EntryAdded DEF Created
      <4> QED BY <2>1, <2>2, <3>1, <4>2 DEF Grown
    <3> QED BY <3>2, <3>3
  <2> QED BY <2>3, <2>4, <2>5
<1>12. CASE CopyChunk
  <2>1. /\ at = "copy" /\ cf' \in {cf, [cf EXCEPT !.pos = @ + 1]}
        /\ tree' = tree \/ tree' = [tree EXCEPT ![cf.dst].data = Append(@, Chunk)]
    BY <1>12 DEF CopyChunk
  <2>2. cf'.dst = cf.dst
    BY <1>1, <2>1 DEF CopyCall
  <2>3. PICK data : cf.dst \in DOMAIN tree /\ tree[cf.dst] = FileNode(data, FALSE)
    BY <2>1 DEF Grown, WrittenFile
  <2>4. CASE tree' = tree
    BY <2>1, <2>2, <2>4 DEF Grown
  <2>5. CASE tree' = [tree EXCEPT ![cf.dst].data = Append(@, Chunk)]
    <3> DEFINE more == Append(data, Chunk)
    <3>1. [FileNode(data, FALSE) EXCEPT !.data = Append(@, Chunk)] = FileNode(more, FALSE)
      <4> DEFINE Nodes == [dir : BOOLEAN, rdo : BOOLEAN, data : {data, more}]
                 node  == FileNode(data, FALSE)
      <4>1. node \in Nodes /\ node.dir = FALSE /\ node.rdo = FALSE /\ node.data = data
        BY DEF FileNode
      <4> HIDE DEF node
      <4>2. [node EXCEPT !.data = Append(@, Chunk)] = [dir |-> node.dir, rdo |-> node.rdo, data |-> more]
        BY <4>1
      <4> QED BY <4>1, <4>2 DEF FileNode, node
    <3>2. /\ DOMAIN tree' = DOMAIN tree /\ tree'[cf.dst] = FileNode(more, FALSE)
          /\ \A q \in DOMAIN tree : q # cf.dst => tree'[q] = tree[q]
      BY <2>3, <2>5, <3>1
    <3>3. ~ tree[cf.dst].dir
      BY <2>3 DEF FileNode
    <3>4. IsTree(tree')
      BY <1>1, <3>2, <3>3, FileRewritten
    <3>5. WrittenFile(tree', cf.dst)
      BY <2>3, <3>2 DEF WrittenFile
    <3> QED BY <2>2, <3>4, <3>5 DEF Grown
  <2> QED BY <2>1, <2>4, <2>5
<1> QED BY <1>4, <1>5, <1>7, <1>8, <1>9, <1>10, <1>11, <1>12 DEF Step

(* The types of cp's state; the volume is a tree through every failure.      *)
THEOREM CopyTypes == Spec => []TypeOK
<1> DEFINE Inv == Words /\ Places /\ Table /\ Flags /\ Grown
<1>1. Init => Inv
  <2>1. Init => Flags
    BY DEF Init, Flags
  <2>2. Init => Grown
    BY CopyAssumption DEF Init, Grown
  <2> QED BY <2>1, <2>2, StartsSo, TableStarts
<1>2. Inv /\ [Next]_vars => Inv'
  <2>1. CASE Still
    <3>1. Inv => Table' /\ Flags' /\ Grown'
      BY <2>1, TableStill DEF Still, command, Flags, Grown
    <3> QED BY <2>1, <3>1, Unchanged
  <2>2. CASE Step /\ host' = host /\ called' \in BOOLEAN
    BY <2>2, WordsNext, PlacesNext, TableNext, FlagsNext, GrownNext
  <2> QED BY <2>1, <2>2, StepOrStill
<1>3. Inv => TypeOK
  BY DEF TypeOK, Places, CopyCall, Table, AtQuiet, AtIdle, AtBoth, Flags, Grown
<1> HIDE DEF Inv
<1> QED BY <1>1, <1>2, <1>3, PTL DEF Spec

-----------------------------------------------------------------------------
(* Sets of numbers.                                                          *)
LEMMA LeastNat ==
  ASSUME NEW T, T \subseteq Nat, T # {}
  PROVE  \E n \in T : \A m \in T : n <= m
<1>1. IsWellFoundedOn(OpToRel(<, Nat), Nat)
  BY NatLessThanWellFounded
<1>2. PICK n \in T : \A m \in T : ~ (<<m, n>> \in OpToRel(<, Nat))
  BY <1>1, WFMin
<1>3. \A m \in T : ~ (m < n)
  BY <1>2 DEF OpToRel
<1> QED BY <1>3

LEMMA FiniteBounded ==
  ASSUME NEW T, T \subseteq Nat, IsFiniteSet(T)
  PROVE  \E b \in Nat : \A x \in T : x <= b
<1> DEFINE c == Cardinality(T)
<1>1. c \in Nat /\ ExistsBijection(1 .. c, T)
  BY FS_CardinalityType
<1>2. PICK f \in [1 .. c -> T] : \A x \in T : \E i \in 1 .. c : f[i] = x
  BY <1>1 DEF ExistsBijection, Bijection, Surjection
<1> HIDE DEF c
<1> DEFINE Bounded(n) == \E b \in Nat : \A i \in 1 .. n : f[i] <= b
           Fails == {n \in 0 .. c : ~ Bounded(n)}
<1>3. Fails = {}
  <2> SUFFICES ASSUME Fails # {} PROVE FALSE
    OBVIOUS
  <2>1. PICK n \in Fails : \A m \in Fails : n <= m
    <3>1. Fails \subseteq Nat
      BY <1>1
    <3> HIDE DEF Fails
    <3> QED BY <3>1, LeastNat
  <2>2. n \in 0 .. c /\ ~ Bounded(n) /\ n \in Nat
    BY <1>1, <2>1
  <2>3. n # 0
    <3>1. \A i \in 1 .. 0 : f[i] <= 0
      OBVIOUS
    <3> QED BY <2>2, <3>1
  <2>4. n - 1 \in 0 .. c /\ ~ (n <= n - 1) /\ n \in 1 .. c
    BY <1>1, <2>2, <2>3
  <2>5. Bounded(n - 1)
    BY <2>1, <2>4
  <2> HIDE DEF Fails
  <2>6. PICK b \in Nat : \A i \in 1 .. n - 1 : f[i] <= b
    BY <2>5
  <2>7. \A i \in 1 .. c : f[i] \in Nat
    BY <1>2
  <2>8. PICK v \in Nat : v = f[n]
    BY <2>4, <2>7
  <2>9. ASSUME NEW i \in 1 .. n PROVE f[i] <= b + v
    <3>1. i \in 1 .. c /\ (i = n \/ i \in 1 .. n - 1)
      BY <1>1, <2>2, <2>4
    <3>2. f[i] \in Nat /\ (f[i] = v \/ f[i] <= b)
      BY <2>6, <2>7, <2>8, <3>1
    <3> QED BY <3>2
  <2>10. b + v \in Nat
    OBVIOUS
  <2> QED BY <2>2, <2>9, <2>10
<1>4. Bounded(c)
  <2>1. c \in 0 .. c
    BY <1>1
  <2> HIDE DEF Bounded
  <2> QED BY <1>3, <2>1
<1> QED BY <1>2, <1>4

LEMMA MaxFacts ==
  ASSUME NEW T, T \subseteq Nat, T # {}, NEW b \in Nat, \A x \in T : x <= b
  PROVE  Max(T) \in Nat /\ \A x \in T : x <= Max(T)
<1> DEFINE U == {n \in Nat : \A x \in T : x <= n}
<1>1. PICK m \in U : \A n \in U : m <= n
  <2>1. b \in U /\ U \subseteq Nat
    OBVIOUS
  <2> HIDE DEF U
  <2> QED BY <2>1, LeastNat
<1>2. m \in T
  <2> SUFFICES ASSUME m \notin T PROVE FALSE
    OBVIOUS
  <2>1. \A x \in T : x \in Nat /\ x <= m /\ x # m
    BY <1>1
  <2>2. PICK x \in T : x \in Nat /\ x <= m /\ x # m
    BY <2>1
  <2>3. m \in Nat
    BY <1>1
  <2> HIDE DEF U
  <2>4. m - 1 \in Nat /\ ~ (m <= m - 1)
    BY <2>2, <2>3
  <2>5. \A y \in T : y <= m - 1
    BY <2>1, <2>3
  <2>6. m - 1 \in U
    BY <2>4, <2>5 DEF U
  <2> QED BY <1>1, <2>4, <2>6
<1>3. m \in T /\ \A x \in T : m >= x
  BY <1>1, <1>2
<1>4. Max(T) \in T /\ \A x \in T : Max(T) >= x
  BY <1>3 DEF Max
<1> QED BY <1>4

-----------------------------------------------------------------------------
(* How deep the arguments were when the command started.                     *)
LEMMA DeepestFacts ==
  ASSUME before \in InitTrees, cmd \in Commands
  PROVE  /\ Deepest \in Nat
         /\ \A p \in Named, r \in DOMAIN before :
              before[r].dir /\ IsPrefix(p, r) => Len(r) - Len(p) < Deepest
<1> DEFINE t == before
           lens == {Len(r) : r \in DOMAIN t}
           f == [r \in DOMAIN t |-> Len(r)]
           all == {0} \cup UNION {Levels(p) : p \in Named}
<1>1. DOMAIN t \subseteq Seq(Names) /\ IsFiniteSet(DOMAIN t)
  BY CopyAssumption
<1>2. Named \subseteq Seq(Names)
  BY LineNames
<1>3. lens \subseteq Nat /\ IsFiniteSet(lens)
  <2>1. f \in Surjection(DOMAIN t, lens)
    BY DEF Surjection
  <2>2. IsFiniteSet(lens)
    <3> HIDE DEF f, lens
    <3> QED BY <1>1, <2>1, FS_Surjection
  <2> QED BY <1>1, <2>2, LenProperties
<1>4. PICK b \in Nat : \A x \in lens : x <= b
  <2> HIDE DEF lens
  <2> QED BY <1>3, FiniteBounded
<1>5. ASSUME NEW p \in Named, NEW r \in DOMAIN t, IsPrefix(p, r)
      PROVE  Len(r) - Len(p) + 1 \in Nat /\ Len(r) - Len(p) + 1 <= b + 1 /\ Len(r) \in Nat /\ Len(p) \in Nat
  <2>1. Len(p) <= Len(r) /\ Len(p) \in Nat /\ Len(r) \in Nat /\ Len(r) \in lens
    BY <1>1, <1>2, <1>5, PrefixToPoints, LenProperties
  <2> QED BY <1>4, <2>1
<1>6. ASSUME NEW x \in all PROVE x \in Nat /\ x <= b + 1
  <2>1. CASE x = 0
    BY <2>1
  <2>2. CASE \E p \in Named : x \in Levels(p)
    <3>1. PICK p \in Named, q \in DOMAIN t : IsPrefix(p, q) /\ x = Len(q) - Len(p) + 1
      BY <2>2 DEF Levels, Subtree
    <3> QED BY <1>5, <3>1
  <2> QED BY <2>1, <2>2
<1>7. all \subseteq Nat /\ all # {} /\ b + 1 \in Nat
  <2>1. 0 \in all
    OBVIOUS
  <2> HIDE DEF all
  <2> QED BY <1>6, <2>1
<1>8. Max(all) = Deepest
  BY DEF Deepest
<1>9. ASSUME NEW p \in Named, NEW r \in DOMAIN t, t[r].dir, IsPrefix(p, r)
      PROVE  Len(r) - Len(p) + 1 \in all
  BY <1>9 DEF Levels, Subtree
<1> HIDE DEF all, lens, f
<1>10. Deepest \in Nat /\ \A x \in all : x <= Deepest
  BY <1>6, <1>7, <1>8, MaxFacts
<1>11. ASSUME NEW p \in Named, NEW r \in DOMAIN t, t[r].dir, IsPrefix(p, r)
       PROVE  Len(r) - Len(p) < Deepest
  BY <1>5, <1>9, <1>10, <1>11
<1> QED BY <1>10, <1>11

-----------------------------------------------------------------------------
(* A path that no argument has above it by more than d levels, leaving out   *)
(* the arguments that are above the target g: cp does not copy those.        *)
Shallow(named, g, d) ==
  {r \in Seq(Names) : \A q \in named : IsPrefix(q, r) /\ ~ IsPrefix(q, g) => Len(r) - Len(q) < d}

(* The target, and the places in it.                                         *)
Near(g, x) == x = g \/ (x # <<>> /\ Front(x) = g)

(* The stack goes down from an argument and from a place at the target, one  *)
(* level at a time and on both sides at once.                                *)
Descends(st, named, g, shallow) ==
  \A i \in DOMAIN st :
    /\ st[1].src \in named /\ ~ IsPrefix(st[1].src, g) /\ Near(g, st[1].dst)
    /\ IsPrefix(st[1].src, st[i].src) /\ IsPrefix(st[1].dst, st[i].dst)
    /\ Len(st[i].src) = Len(st[1].src) + (i - 1)
    /\ Len(st[i].dst) = Len(st[1].dst) + (i - 1)
    /\ st[i].src \in shallow

LEMMA AboveNear ==
  ASSUME NEW g \in Seq(Names), NEW x \in Seq(Names), Near(g, x), NEW q \in Seq(Names), IsPrefix(q, x), q # x
  PROVE  IsPrefix(q, g)
<1>1. CASE x = g
  BY <1>1
<1>2. CASE x # g
  BY <1>2, AboveParent DEF Near
<1> QED BY <1>1, <1>2

LEMMA NearBelow ==
  ASSUME NEW g \in Seq(Names), NEW x \in Seq(Names), Near(g, x)
  PROVE  IsPrefix(g, x)
<1>1. CASE x = g
  BY <1>1, PrefixOfItself
<1>2. CASE x # g
  <2>1. x # <<>> /\ Front(x) = g
    BY <1>2 DEF Near
  <2>2. x = Append(g, Last(x)) /\ Last(x) \in Names /\ IsPrefix(g, g)
    BY <2>1, FrontAndLast, PrefixOfItself
  <2> QED BY <2>2, PrefixOfLonger
<1> QED BY <1>1, <1>2

(* What is made at the target is no deeper than what it is a copy of.        *)
LEMMA MadeShallow ==
  ASSUME NEW st \in Seq(Frame), NEW named, named \subseteq Seq(Names), NEW g \in Seq(Names), NEW d \in Nat,
         Descends(st, named, g, Shallow(named, g, d)), NEW i \in DOMAIN st
  PROVE  st[i].dst \in Shallow(named, g, d) /\ i <= d
<1>1. 1 \in DOMAIN st /\ i \in Nat /\ i >= 1
  BY LenProperties
<1>2. /\ st[1].src \in Seq(Names) /\ st[1].dst \in Seq(Names)
      /\ st[i].src \in Seq(Names) /\ st[i].dst \in Seq(Names)
  <2>1. st[1] \in Frame /\ st[i] \in Frame
    BY <1>1, ElementOfSeq
  <2> QED BY <2>1 DEF Frame
<1>3. /\ Len(st[1].src) \in Nat /\ Len(st[1].dst) \in Nat
      /\ Len(st[i].src) = Len(st[1].src) + (i - 1) /\ Len(st[i].dst) = Len(st[1].dst) + (i - 1)
      /\ IsPrefix(st[1].dst, st[i].dst) /\ Near(g, st[1].dst)
  BY <1>2, LenProperties DEF Descends
<1>4. Len(st[i].src) - Len(st[1].src) < d
  BY DEF Descends, Shallow
<1>5. i - 1 < d
  BY <1>1, <1>3, <1>4
<1>6. ASSUME NEW q \in named, IsPrefix(q, st[i].dst), ~ IsPrefix(q, g)
      PROVE  Len(st[i].dst) - Len(q) < d
  <2>1. q \in Seq(Names) /\ Len(q) \in Nat
    BY LenProperties
  <2>2. IsPrefix(st[1].dst, q)
    <3>1. IsPrefix(q, st[1].dst) \/ IsPrefix(st[1].dst, q)
      BY <1>2, <1>3, <1>6, <2>1, PrefixesCompare
    <3>2. IsPrefix(q, st[1].dst) => q = st[1].dst
      BY <1>2, <1>3, <1>6, <2>1, AboveNear
    <3> QED BY <2>1, <3>1, <3>2, PrefixOfItself
  <2>3. Len(st[1].dst) <= Len(q)
    BY <1>2, <2>1, <2>2, PrefixToPoints
  <2> QED BY <1>1, <1>3, <1>5, <2>1, <2>3
<1> QED BY <1>1, <1>2, <1>5, <1>6 DEF Shallow

LEMMA DescendsSame ==
  ASSUME NEW st, NEW tt, SameFrames(st, tt), tt \in Seq(Frame), NEW named, NEW g, NEW sh, Descends(tt, named, g, sh)
  PROVE  Descends(st, named, g, sh)
<1>1. DOMAIN tt # {} => 1 \in DOMAIN tt
  BY LenProperties
<1> QED BY <1>1 DEF SameFrames, Descends

LEMMA DescendsFront ==
  ASSUME NEW st \in Seq(Frame), st # <<>>, NEW named, NEW g, NEW sh, Descends(st, named, g, sh)
  PROVE  Descends(Front(st), named, g, sh)
<1>1. /\ Front(st) \in Seq(Frame) /\ Len(Front(st)) = Len(st) - 1
      /\ \A i \in 1 .. Len(st) - 1 : Front(st)[i] = st[i]
  BY FrontFacts
<1>2. Len(st) \in Nat /\ DOMAIN st = 1 .. Len(st) /\ DOMAIN Front(st) = 1 .. Len(st) - 1
  BY <1>1, LenProperties
<1>3. ASSUME NEW i \in DOMAIN Front(st)
      PROVE  i \in DOMAIN st /\ Front(st)[i] = st[i] /\ Front(st)[1] = st[1]
  BY <1>1, <1>2
<1> QED BY <1>3 DEF Descends

LEMMA DescendsOne ==
  ASSUME NEW src \in Seq(Names), NEW dst \in Seq(Names), NEW named, src \in named, NEW g,
         ~ IsPrefix(src, g), Near(g, dst), NEW sh, src \in sh
  PROVE  Descends(<<NewFrame(dst, src)>>, named, g, sh)
<1>1. IsPrefix(src, src) /\ IsPrefix(dst, dst) /\ Len(src) \in Nat /\ Len(dst) \in Nat
  BY PrefixOfItself, LenProperties
<1>2. NewFrame(dst, src).src = src /\ NewFrame(dst, src).dst = dst
  BY DEF NewFrame
<1> QED BY <1>1, <1>2 DEF Descends

LEMMA DescendsPushed ==
  ASSUME NEW st \in Seq(Frame), st # <<>>, NEW named, NEW g, NEW sh, Descends(st, named, g, sh),
         NEW n \in Names, NEW m \in Names, Append(Last(st).src, n) \in sh
  PROVE  Descends(Append(st, NewFrame(Append(Last(st).dst, m), Append(Last(st).src, n))), named, g, sh)
<1> DEFINE src == Append(Last(st).src, n)
           dst == Append(Last(st).dst, m)
           u == Append(st, NewFrame(dst, src))
           k == Len(st)
<1>1. k \in Nat /\ k >= 1 /\ DOMAIN st = 1 .. k /\ Last(st) = st[k] /\ Last(st) \in Frame
  BY NonEmpty, ElementOfSeq DEF Last
<1>2. /\ Last(st).src \in Seq(Names) /\ Last(st).dst \in Seq(Names) /\ 1 \in DOMAIN st /\ k \in DOMAIN st
      /\ st[1] \in Frame /\ st[1].src \in Seq(Names) /\ st[1].dst \in Seq(Names)
  <2>1. 1 \in DOMAIN st /\ k \in DOMAIN st
    <3> HIDE DEF k
    <3> QED BY <1>1
  <2>2. st[1] \in Frame
    BY <2>1, ElementOfSeq
  <2> HIDE DEF k
  <2> QED BY <1>1, <2>1, <2>2 DEF Frame
<1>3. /\ src \in Seq(Names) /\ Len(src) = Len(Last(st).src) + 1
      /\ dst \in Seq(Names) /\ Len(dst) = Len(Last(st).dst) + 1
  BY <1>2, AppendProperties
<1>4. /\ st[1].src \in named /\ ~ IsPrefix(st[1].src, g) /\ Near(g, st[1].dst)
      /\ IsPrefix(st[1].src, Last(st).src) /\ IsPrefix(st[1].dst, Last(st).dst)
      /\ Len(Last(st).src) = Len(st[1].src) + (k - 1)
      /\ Len(Last(st).dst) = Len(st[1].dst) + (k - 1)
  BY <1>1, <1>2 DEF Descends
<1>5. IsPrefix(st[1].src, src) /\ IsPrefix(st[1].dst, dst)
  BY <1>2, <1>4, PrefixOfLonger
<1>6. Len(st[1].src) \in Nat /\ Len(st[1].dst) \in Nat
  BY <1>2, LenProperties
<1> HIDE DEF src, dst
<1>7. /\ DOMAIN u = DOMAIN st \cup {k + 1}
      /\ \A i \in DOMAIN st : u[i] = st[i]
      /\ u[k + 1].dst = dst /\ u[k + 1].src = src
  BY <1>3, Pushed
<1>8. Len(src) = Len(st[1].src) + (k + 1 - 1) /\ Len(dst) = Len(st[1].dst) + (k + 1 - 1)
  BY <1>1, <1>3, <1>4, <1>6
<1> HIDE DEF u, k
<1>9. u[1] = st[1] /\ src \in sh
  BY <1>2, <1>7 DEF src
<1>10. ASSUME NEW i \in DOMAIN st
      PROVE  /\ IsPrefix(st[1].src, u[i].src) /\ IsPrefix(st[1].dst, u[i].dst)
             /\ Len(u[i].src) = Len(st[1].src) + (i - 1) /\ Len(u[i].dst) = Len(st[1].dst) + (i - 1)
             /\ u[i].src \in sh
  BY <1>7 DEF Descends
<1>11. Descends(u, named, g, sh)
  <2> SUFFICES ASSUME NEW i \in DOMAIN u
               PROVE  /\ IsPrefix(st[1].src, u[i].src) /\ IsPrefix(st[1].dst, u[i].dst)
                      /\ Len(u[i].src) = Len(st[1].src) + (i - 1)
                      /\ Len(u[i].dst) = Len(st[1].dst) + (i - 1)
                      /\ u[i].src \in sh
    BY <1>4, <1>9 DEF Descends
  <2>1. CASE i = k + 1
    <3>1. u[i].src = src /\ u[i].dst = dst
      BY <1>7, <2>1
    <3>2. Len(u[i].src) = Len(st[1].src) + (i - 1) /\ Len(u[i].dst) = Len(st[1].dst) + (i - 1)
      <4>1. i - 1 = k + 1 - 1
        BY <1>1, <2>1
      <4> QED BY <1>8, <3>1, <4>1
    <3> QED BY <1>5, <1>9, <3>1, <3>2
  <2>2. CASE i \in DOMAIN st
    BY <1>10, <2>2
  <2> QED BY <1>7, <2>1, <2>2
<1> QED BY <1>11 DEF u, src, dst

-----------------------------------------------------------------------------
(* What cp walks over is no deeper than the deepest argument, and neither is *)
(* what it makes.                                                            *)
Reach == Shallow(Named, target, Deepest)

DirsWithin(t, sh) == \A r \in DOMAIN t : t[r].dir => r \in sh
ListedWithin(e, sh) == \A x \in e.listing : x.kind = "dir" => x.path \in sh

Depths ==
  /\ before \in InitTrees
  /\ at = "start" => tree = before /\ enum.listing = {}
  /\ at # "start" => /\ DirsWithin(tree, Reach) /\ ListedWithin(enum, Reach)
                     /\ Descends(stack, Named, target, Reach)
  /\ at \notin {"start", "exit"} => Near(target, szTarget)
  /\ at \in {"clear", "contains"} => arg.path \in Named /\ arg.path \in Reach

(* What an argument comes with is an entry of the listing, or of the volume  *)
(* as it is now; what is left of the listing too.                            *)
LEMMA NextArgListed ==
  ASSUME NEW ns, NEW words, NEW paths, NEW e, From(e, ns, words, paths),
         e.todo # <<>> \/ e.listing # {}, NEW t, NEW K, e.listing \subseteq K,
         \A p \in DOMAIN t : [path |-> p, kind |-> Kind(t, p)] \in K,
         NEW f, NEW faulty, NEW a \in NextArg(t, f, e, faulty)
  PROVE  a.enum.listing \subseteq K /\ (a.kind = "none" \/ [path |-> a.path, kind |-> a.kind] \in K)
<1>1. ASSUME NEW x, NEW p, NEW kind, a = Returned(x, p, kind)
      PROVE  a.enum = x /\ a.path = p /\ a.kind = kind
  BY <1>1 DEF Returned
<1>2. e \in Enumerations(ns) /\ e = [todo |-> e.todo, listing |-> e.listing]
  BY DEF From, Enumerations
<1>3. ASSUME NEW todo, NEW listing, listing \subseteq K,
             \A x \in listing : x = [path |-> x.path, kind |-> x.kind],
             NEW x0, x0 = [todo |-> todo, listing |-> x0.listing], a \in FromListing(x0, listing)
      PROVE  a.enum.listing \subseteq K /\ [path |-> a.path, kind |-> a.kind] \in K
  <2>1. PICK x \in listing : a = Returned([x0 EXCEPT !.listing = listing \ {x}], x.path, x.kind)
    BY <1>3 DEF FromListing
  <2> DEFINE e2 == [x0 EXCEPT !.listing = listing \ {x}]
  <2>2. e2.listing = listing \ {x}
    BY <1>3
  <2>3. a.enum = e2 /\ a.path = x.path /\ a.kind = x.kind
    BY <1>1, <2>1
  <2> HIDE DEF e2
  <2>4. x = [path |-> a.path, kind |-> a.kind] /\ x \in K
    BY <1>3, <2>3
  <2> QED BY <1>3, <2>2, <2>3, <2>4
<1>4. CASE e.listing # {}
  <2>1. a \in FromListing(e, e.listing)
    BY <1>4 DEF NextArg
  <2>2. \A x \in e.listing : x = [path |-> x.path, kind |-> x.kind]
    BY <1>2 DEF Enumerations, Entries
  <2> QED BY <1>2, <1>3, <2>1, <2>2
<1>5. CASE e.listing = {}
  <2> DEFINE word == Head(e.todo)
             rest == [e EXCEPT !.todo = Tail(@)]
  <2>1. \/ \E p : a = Aborted(p)
        \/ a = Returned(rest, word.path, Kind(t, word.path))
        \/ a = Returned(rest, word.path, "none")
        \/ a \in FromListing(rest, Listing(t, word))
    <3>1. CASE ~ word.glob
      BY <1>5, <3>1 DEF NextArg
    <3>2. CASE word.glob
      BY <1>5, <3>2 DEF NextArg
    <3> QED BY <3>1, <3>2
  <2>2. Listing(t, word) \subseteq K /\ \A x \in Listing(t, word) : x = [path |-> x.path, kind |-> x.kind]
    BY DEF Listing, Children
  <2>3. rest.listing = {} /\ rest = [todo |-> Tail(e.todo), listing |-> rest.listing]
    BY <1>2, <1>5
  <2>4. Kind(t, word.path) = "none" \/ [path |-> word.path, kind |-> Kind(t, word.path)] \in K
    BY DEF Kind
  <2>5. ASSUME NEW p, a = Aborted(p) PROVE a.kind = "none" /\ a.enum.listing = {}
    BY <2>5 DEF Aborted, Enumeration
  <2> HIDE DEF word, rest
  <2>6. CASE \E p : a = Aborted(p)
    BY <2>5, <2>6
  <2>7. CASE a = Returned(rest, word.path, Kind(t, word.path)) \/ a = Returned(rest, word.path, "none")
    BY <1>1, <2>3, <2>4, <2>7
  <2>8. CASE a \in FromListing(rest, Listing(t, word))
    BY <1>3, <2>2, <2>3, <2>8
  <2> QED BY <2>1, <2>6, <2>7, <2>8
<1> QED BY <1>4, <1>5

LEMMA NextArgDirs ==
  ASSUME NEW ns, NEW words, NEW paths, NEW e, From(e, ns, words, paths),
         e.todo # <<>> \/ e.listing # {}, NEW t, NEW sh, DirsWithin(t, sh), ListedWithin(e, sh),
         NEW f, NEW faulty, NEW a \in NextArg(t, f, e, faulty)
  PROVE  ListedWithin(a.enum, sh) /\ (a.kind = "dir" => a.path \in sh)
<1> DEFINE K == {x \in e.listing \cup {[path |-> p, kind |-> Kind(t, p)] : p \in DOMAIN t} :
                   x.kind = "dir" => x.path \in sh}
<1>1. e.listing \subseteq K
  BY DEF ListedWithin
<1>2. \A p \in DOMAIN t : [path |-> p, kind |-> Kind(t, p)] \in K
  BY DEF DirsWithin, Kind
<1>3. \A x \in K : x.kind = "dir" => x.path \in sh
  OBVIOUS
<1> HIDE DEF K
<1>4. a.enum.listing \subseteq K /\ (a.kind = "none" \/ [path |-> a.path, kind |-> a.kind] \in K)
  BY <1>1, <1>2, NextArgListed
<1> QED BY <1>3, <1>4 DEF ListedWithin

LEMMA Lasting ==
  ASSUME Step
  PROVE  /\ UNCHANGED <<cmd, before, failing>> /\ Named' = Named /\ Deepest' = Deepest
         /\ at # "start" => target' = target /\ Reach' = Reach
<1>1. UNCHANGED <<cmd, before, failing>> /\ (at # "start" => target' = target)
  BY DEF Step, Start, NextArgument, ClearTarget, CopyDirArgument, NoMore, MakeDir, OpenDir,
         LeaveDir, CopyEntry, StatDest, OpenSource, OpenDest, CopyChunk, CloseBoth, SetTime,
         Discard, command
<1>2. Named' = Named
  BY <1>1, SameLine
<1>3. Deepest' = Deepest
  BY <1>1, <1>2 DEF Deepest, Levels
<1> QED BY <1>1, <1>2, <1>3 DEF Reach

LEMMA DescendsReturn ==
  ASSUME Places, NEW named, NEW g, NEW sh, Descends(stack, named, g, sh), NEW outer,
         outer = stack \/ (stack # <<>> /\ outer = Front(stack)), NEW failed, ReturnTo(outer, failed)
  PROVE  Descends(stack', named, g, sh)
<1>1. stack \in Seq(Frame) /\ outer \in Seq(Frame)
  BY TopFacts DEF Places
<1>2. Descends(outer, named, g, sh)
  BY <1>1, DescendsFront
<1>3. SameFrames(stack', outer)
  BY <1>1, AfterReturn
<1> QED BY <1>1, <1>2, <1>3, DescendsSame

LEMMA DescendsEntry ==
  ASSUME Words, Places, CopyEntry, NEW named, NEW g, NEW sh, Descends(stack, named, g, sh),
         DirsWithin(tree, sh)
  PROVE  Descends(stack', named, g, sh)
<1> DEFINE Dst(p) == Append(Top.dst, Last(p))
<1>1. PICK p \in Unread, st \in Seq(Frame) :
        /\ SameFrames(st, stack)
        /\ stack' = st \/ (stack' = Append(st, NewFrame(Dst(p), p)) /\ tree[p].dir)
  BY EntryStep
<1>2. stack \in Seq(Frame) /\ stack # <<>>
  BY DEF Places, CopyEntry, AtDir
<1>3. Descends(st, named, g, sh)
  BY <1>1, <1>2, DescendsSame
<1>4. p \in DOMAIN tree /\ p \in Seq(Names) /\ p # <<>> /\ Front(p) = Top.src
  BY <1>1 DEF Unread, Children, Words
<1>5. Last(p) \in Names /\ p = Append(Top.src, Last(p))
  BY <1>4, FrontAndLast
<1>6. st # <<>> /\ Last(st).src = Top.src /\ Last(st).dst = Top.dst
  <2>1. Len(stack) \in DOMAIN stack /\ Top = stack[Len(stack)]
    BY <1>2, TopFacts
  <2>2. DOMAIN st = DOMAIN stack /\ Len(st) = Len(stack)
    BY <1>1 DEF SameFrames
  <2>3. st # <<>>
    BY <2>1, <2>2, EmptySeq
  <2>4. st[Len(st)].src = Top.src /\ st[Len(st)].dst = Top.dst
    BY <1>1, <2>1, <2>2 DEF SameFrames
  <2> QED BY <2>3, <2>4 DEF Last
<1>7. CASE stack' = st
  BY <1>3, <1>7
<1>8. CASE stack' = Append(st, NewFrame(Dst(p), p)) /\ tree[p].dir
  <2>1. Append(Last(st).src, Last(p)) \in sh
    BY <1>4, <1>5, <1>6, <1>8 DEF DirsWithin
  <2>2. Descends(Append(st, NewFrame(Append(Last(st).dst, Last(p)), Append(Last(st).src, Last(p)))),
                 named, g, sh)
    BY <1>3, <1>5, <1>6, <2>1, DescendsPushed
  <2> QED BY <1>5, <1>6, <1>8, <2>2
<1> QED BY <1>1, <1>7, <1>8

(* The directories of the volume, after a step.                              *)
LEMMA DirsNext ==
  ASSUME Words, Places, Grown, Step, NEW named, named \subseteq Seq(Names), NEW g \in Seq(Names),
         NEW d \in Nat, DirsWithin(tree, Shallow(named, g, d)),
         Descends(stack, named, g, Shallow(named, g, d))
  PROVE  DirsWithin(tree', Shallow(named, g, d))
<1> DEFINE sh == Shallow(named, g, d)
<1>1. ASSUME NEW p, NEW o \in Unlink(tree, files, p, failing) PROVE DirsWithin(o.tree, sh)
  <2>1. o.tree = tree \/ o.tree = Without(tree, p)
    BY UnlinkOutcome
  <2>2. /\ DOMAIN Without(tree, p) = DOMAIN tree \ {p}
        /\ \A q \in DOMAIN tree \ {p} : Without(tree, p)[q] = tree[q]
    BY WithoutOne
  <2> HIDE DEF sh
  <2> QED BY <2>1, <2>2 DEF DirsWithin, sh
<1>2. CASE tree' = tree
  BY <1>2
<1>3. CASE ClearTarget
  BY <1>1, <1>3 DEF ClearTarget
<1>4. CASE MakeDir
  <2>1. tree' = tree \/ tree' = With(tree, Top.dst, DirNode)
    BY <1>4 DEF MakeDir, Mkdir
  <2>2. stack \in Seq(Frame) /\ stack # <<>>
    BY <1>4 DEF MakeDir, Places, AtDir
  <2>3. Top.dst \in sh
    BY <2>2, TopFacts, MadeShallow
  <2> HIDE DEF sh
  <2> QED BY <1>2, <2>1, <2>3 DEF With, DirsWithin, sh
<1>5. CASE OpenDest
  <2>1. PICK o \in OpenCreate(tree, files, cf.dst, failing) : tree' = o.tree
    BY <1>5 DEF OpenDest
  <2>2. tree' = tree \/ tree' = Created(tree, cf.dst)
    BY <2>1, CreateOutcome
  <2> HIDE DEF sh
  <2>3. DirsWithin(Created(tree, cf.dst), sh)
    BY DEF Created, With, FileNode, DirsWithin, sh
  <2> QED BY <1>2, <2>2, <2>3 DEF sh
<1>6. CASE CopyChunk
  <2>1. /\ at = "copy"
        /\ tree' = tree \/ tree' = [tree EXCEPT ![cf.dst].data = Append(@, Chunk)]
    BY <1>6 DEF CopyChunk
  <2>2. PICK data : cf.dst \in DOMAIN tree /\ tree[cf.dst] = FileNode(data, FALSE)
    BY <2>1 DEF Grown, WrittenFile
  <2>3. CASE tree' = [tree EXCEPT ![cf.dst].data = Append(@, Chunk)]
    <3>1. [tree[cf.dst] EXCEPT !.data = Append(@, Chunk)].dir = tree[cf.dst].dir
      BY <2>2 DEF FileNode
    <3>2. DOMAIN tree' = DOMAIN tree /\ \A q \in DOMAIN tree : tree'[q].dir = tree[q].dir
      BY <2>3, <3>1
    <3> HIDE DEF sh
    <3> QED BY <3>2 DEF DirsWithin, sh
  <2> QED BY <1>2, <2>1, <2>3
<1>7. CASE SetTime
  BY <1>1, <1>7 DEF SetTime
<1>8. CASE Discard
  BY <1>1, <1>8 DEF Discard
<1> QED BY <1>2, <1>3, <1>4, <1>5, <1>6, <1>7, <1>8, TreeStep

(* The stack, after a step of f_copydir or f_copyfile.                       *)
LEMMA DescendsNext ==
  ASSUME Words, Places, Step, at # "start", ~ CopyDirArgument, NEW named, NEW g, NEW sh,
         Descends(stack, named, g, sh), DirsWithin(tree, sh)
  PROVE  Descends(stack', named, g, sh)
<1>1. CASE stack' = stack
  BY <1>1
<1>2. ASSUME NEW failed, ReturnTo(stack, failed)
      PROVE  Descends(stack', named, g, sh)
  BY <1>2, DescendsReturn
<1>3. ASSUME NEW failed, ReturnTo(Front(stack), failed), at \in AtDir
      PROVE  Descends(stack', named, g, sh)
  <2>1. stack # <<>>
    BY <1>3 DEF Places
  <2> QED BY <1>3, <2>1, DescendsReturn
<1>4. CASE MakeDir
  BY <1>1, <1>3, <1>4 DEF MakeDir, AtDir
<1>5. CASE OpenDir
  <2>1. at \in AtDir /\ stack \in Seq(Frame)
    BY <1>5 DEF OpenDir, AtDir, Places
  <2>2. SameFrames(stack', stack) \/ ReturnTo(Front(stack), TRUE)
    BY <1>5, OpenDirStep
  <2> QED BY <1>3, <2>1, <2>2, DescendsSame
<1>6. CASE LeaveDir
  BY <1>3, <1>6 DEF LeaveDir, AtDir
<1>7. CASE CopyEntry
  BY <1>7, DescendsEntry
<1>8. CASE StatDest
  BY <1>1, <1>2, <1>8 DEF StatDest, Leave
<1>9. CASE OpenSource
  BY <1>1, <1>2, <1>9 DEF OpenSource, Leave
<1>10. CASE OpenDest
  BY <1>1, <1>2, <1>10 DEF OpenDest, Leave
<1>11. CASE SetTime
  BY <1>2, <1>11 DEF SetTime, Leave
<1>12. CASE Discard
  BY <1>2, <1>12 DEF Discard, Leave
<1>13. CASE NextArgument \/ ClearTarget \/ NoMore \/ CopyChunk \/ CloseBoth
  BY <1>1, <1>13 DEF NextArgument, ClearTarget, NoMore, CopyChunk, CloseBoth
<1> QED BY <1>4, <1>5, <1>6, <1>7, <1>8, <1>9, <1>10, <1>11, <1>12, <1>13 DEF Step, Start

LEMMA DepthsStart ==
  ASSUME Words, Places, Table, Depths, Start
  PROVE  Depths'
<1>1. at = "start" /\ tree = before /\ enum.listing = {} /\ cmd \in Commands
      /\ before \in InitTrees
  BY DEF Start, Depths, Words
<1>2. /\ tree' = tree /\ enum' = enum /\ stack' = stack /\ cmd' = cmd /\ before' = before
      /\ target' = szTarget' /\ at' \in {"exit", "next"}
  BY DEF Start
<1>3. Named' = Named /\ Deepest' = Deepest
  BY Lasting DEF Step
<1>4. Words'
  BY StartWords
<1>5. stack' = <<>>
  BY <1>1, <1>2 DEF Table, AtIdle
<1>6. Named \subseteq Seq(Names) /\ DOMAIN tree \subseteq Seq(Names)
  BY <1>1, LineNames DEF Words
<1>7. DirsWithin(tree', Shallow(Named, target', Deepest))
  BY <1>1, <1>2, <1>6, DeepestFacts DEF DirsWithin, Shallow
<1>8. DirsWithin(tree', Reach')
  BY <1>3, <1>7 DEF Reach
<1>9. ListedWithin(enum', Reach')
  BY <1>1, <1>2 DEF ListedWithin
<1>10. DOMAIN <<>> = {}
  BY EmptySeq
<1>11. Descends(stack', Named', target', Reach')
  BY <1>5, <1>10 DEF Descends
<1> QED BY <1>1, <1>2, <1>8, <1>9, <1>11 DEF Depths, Near

LEMMA DepthsArgument ==
  ASSUME Words, Places, Depths, NextArgument
  PROVE  Depths'
<1>1. PICK a \in NextArg(tree, files, enum, failing) :
        /\ enum' = a.enum /\ arg'.path = a.path
        /\ szTarget' \in {szTarget, Append(target, Last(a.path))}
        /\ at' \in {"next", "stat", "clear", "contains"}
        /\ at' \in {"clear", "contains"} => a.kind \notin {"none", "file"}
  BY DEF NextArgument
<1>2. /\ at = "next" /\ ~ Done(enum) /\ cmd' = cmd /\ tree' = tree /\ stack' = stack
      /\ target' = target /\ before' = before
  BY DEF NextArgument, command
<1>3. a.path \in Named /\ Last(a.path) \in Names /\ target \in Seq(Names)
  <2>1. a.path \in Named /\ cmd \in Commands
    BY <1>1, <1>2, TheArgument DEF Words
  <2>2. a.path \in Seq(Names) /\ a.path # <<>>
    BY <2>1, LineNames
  <2> QED BY <2>1, <2>2, FrontAndLast DEF Words
<1>4. Reach' = Reach /\ Named' = Named
  BY <1>2, Lasting DEF Step
<1>5. enum.todo # <<>> \/ enum.listing # {}
  BY <1>2 DEF Done
<1>6. DirsWithin(tree, Reach) /\ ListedWithin(enum, Reach) /\ Descends(stack, Named, target, Reach)
      /\ before \in InitTrees
  BY <1>2 DEF Depths
<1>7. ListedWithin(a.enum, Reach) /\ (a.kind = "dir" => a.path \in Reach)
  BY <1>1, <1>5, <1>6, NextArgDirs DEF Words
<1>8. Near(target, szTarget')
  <2>1. CASE szTarget' = szTarget
    BY <1>2, <2>1 DEF Depths
  <2>2. CASE szTarget' = Append(target, Last(a.path))
    <3>1. Front(szTarget') = target /\ szTarget' # <<>>
      BY <1>3, <2>2, FrontOfAppend
    <3> QED BY <3>1 DEF Near
  <2> QED BY <1>1, <2>1, <2>2
<1>9. at' \in {"clear", "contains"} => a.kind = "dir"
  BY <1>1, <1>5, NextArgKind DEF Words
<1> QED BY <1>1, <1>2, <1>3, <1>4, <1>6, <1>7, <1>8, <1>9 DEF Depths

LEMMA DepthsDirArgument ==
  ASSUME Words, Places, Table, Depths, CopyDirArgument
  PROVE  Depths'
<1>1. /\ at = "contains" /\ UNCHANGED <<tree, enum, szTarget, arg, target, before>>
      /\ \/ at' = "next" /\ stack' = stack
         \/ /\ at' = "mkdir" /\ ~ IsPrefix(arg.path, szTarget)
            /\ stack' = <<NewFrame(szTarget, arg.path)>>
  BY DEF CopyDirArgument, NewFrame, command
<1>2. Reach' = Reach /\ Named' = Named
  BY <1>1, Lasting DEF Step
<1>3. /\ DirsWithin(tree, Reach) /\ ListedWithin(enum, Reach) /\ Descends(stack, Named, target, Reach)
      /\ arg.path \in Named /\ arg.path \in Reach /\ Near(target, szTarget)
      /\ before \in InitTrees
  BY <1>1 DEF Depths
<1>4. /\ arg.path \in Seq(Names) /\ szTarget \in Seq(Names) /\ target \in Seq(Names)
  BY <1>1 DEF Words
<1>5. Descends(stack', Named, target, Reach)
  <2>1. CASE stack' = stack
    BY <1>3, <2>1
  <2>2. CASE ~ IsPrefix(arg.path, szTarget) /\ stack' = <<NewFrame(szTarget, arg.path)>>
    <3>1. ~ IsPrefix(arg.path, target)
      <4> SUFFICES ASSUME IsPrefix(arg.path, target) PROVE IsPrefix(arg.path, szTarget)
        BY <2>2
      <4>1. IsPrefix(target, szTarget)
        BY <1>3, <1>4, NearBelow
      <4> QED BY <1>4, <4>1, PrefixTransitive
    <3> QED BY <1>3, <1>4, <2>2, <3>1, DescendsOne
  <2> QED BY <1>1, <2>1, <2>2
<1> QED BY <1>1, <1>2, <1>3, <1>5 DEF Depths

LEMMA DepthsNext ==
  ASSUME Words, Places, Table, Grown, Depths, Step
  PROVE  Depths'
<1>1. CASE Start
  BY <1>1, DepthsStart
<1>2. CASE NextArgument
  BY <1>2, DepthsArgument
<1>3. CASE CopyDirArgument
  BY <1>3, DepthsDirArgument
<1>4. CASE ~ Start /\ ~ NextArgument /\ ~ CopyDirArgument
  <2>1. /\ UNCHANGED <<before, target, szTarget, enum, arg>> /\ at \notin {"start", "exit"}
        /\ at' # "start" /\ (at' \in {"clear", "contains"} => at \in {"clear", "contains"})
    <3>1. ASSUME NEW outer, NEW failed, ReturnTo(outer, failed) PROVE at' \in {"next", "readdir"}
      BY <3>1 DEF ReturnTo
    <3>2. CASE ClearTarget \/ NoMore \/ CopyChunk \/ CloseBoth
      BY <3>2 DEF ClearTarget, NoMore, CopyChunk, CloseBoth, command
    <3>3. CASE MakeDir \/ OpenDir \/ LeaveDir
      BY <3>1, <3>3 DEF MakeDir, OpenDir, LeaveDir, command
    <3>4. CASE CopyEntry
      BY <3>4 DEF CopyEntry, command
    <3>5. CASE StatDest \/ OpenSource
      BY <3>1, <3>5 DEF StatDest, OpenSource, Leave, command
    <3>6. CASE OpenDest \/ SetTime \/ Discard
      BY <3>1, <3>6 DEF OpenDest, SetTime, Discard, Leave, command
    <3> QED BY <1>4, <3>2, <3>3, <3>4, <3>5, <3>6 DEF Step
  <2>2. Reach' = Reach /\ Named' = Named
    BY <2>1, Lasting
  <2>3. /\ DirsWithin(tree, Reach) /\ ListedWithin(enum, Reach) /\ Descends(stack, Named, target, Reach)
        /\ Near(target, szTarget) /\ before \in InitTrees
    BY <2>1 DEF Depths
  <2>4. Named \subseteq Seq(Names) /\ target \in Seq(Names) /\ Deepest \in Nat
    BY <2>3, LineNames, DeepestFacts DEF Words
  <2>5. DirsWithin(tree', Reach)
    BY <2>3, <2>4, DirsNext DEF Reach
  <2>6. Descends(stack', Named, target, Reach)
    BY <1>4, <2>1, <2>3, DescendsNext
  <2> QED BY <2>1, <2>2, <2>3, <2>5, <2>6 DEF Depths
<1> QED BY <1>1, <1>2, <1>3, <1>4

-----------------------------------------------------------------------------
(* The table of open objects is as large as the deepest argument asks for.   *)
LEMMA FewDirs ==
  ASSUME NEW st \in Seq(Frame), NEW named, named \subseteq Seq(Names), NEW g \in Seq(Names), NEW d \in Nat,
         Descends(st, named, g, Shallow(named, g, d)), NEW C, C \subseteq AllOf(st)
  PROVE  IsFiniteSet(C) /\ Cardinality(C) <= d /\ Cardinality(C) \in Nat
<1> DEFINE I == DOMAIN st
           T == {Cluster(st[i].src) : i \in I}
           f == [i \in I |-> Cluster(st[i].src)]
<1>1. I \subseteq 1 .. d
  <2>1. I = 1 .. Len(st) /\ Len(st) \in Nat
    BY LenProperties
  <2>2. ASSUME NEW i \in I PROVE i \in 1 .. d
    <3>1. i <= d
      BY MadeShallow
    <3> QED BY <2>1, <3>1
  <2> QED BY <2>2
<1>2. f \in Surjection(I, T)
  BY DEF Surjection
<1>3. C \subseteq T
  BY DEF AllOf
<1> HIDE DEF f, T, I
<1>4. IsFiniteSet(1 .. d) /\ Cardinality(1 .. d) = d
  BY FS_Interval
<1>5. IsFiniteSet(I) /\ Cardinality(I) <= d
  BY <1>1, <1>4, FS_Subset
<1>6. IsFiniteSet(T) /\ Cardinality(T) <= Cardinality(I)
  BY <1>2, <1>5, FS_Surjection
<1>7. IsFiniteSet(C) /\ Cardinality(C) <= Cardinality(T)
  BY <1>3, <1>6, FS_Subset
<1>8. Cardinality(C) \in Nat /\ Cardinality(T) \in Nat /\ Cardinality(I) \in Nat
  BY <1>5, <1>6, <1>7, FS_CardinalityType
<1> QED BY <1>5, <1>6, <1>7, <1>8

LEMMA FullTable ==
  ASSUME NEW f, FreeSlots(f) = 0, NEW h, IsFiniteSet(h), NEW C, IsFiniteSet(C), NEW d \in Nat,
         Cardinality(C) <= d, NEW x, DOMAIN f = h \cup C \/ DOMAIN f = h \cup C \cup {x}
  PROVE  FF_FS_LOCK < d + 2 + Cardinality(h)
<1> DEFINE U == h \cup C
           V == U \cup {x}
<1>1. /\ IsFiniteSet(U) /\ Cardinality(U) = Cardinality(h) + Cardinality(C) - Cardinality(h \cap C)
      /\ IsFiniteSet(h \cap C)
  BY FS_Union, FS_Subset
<1>2. Cardinality(h) \in Nat /\ Cardinality(C) \in Nat /\ Cardinality(h \cap C) \in Nat
  BY <1>1, FS_CardinalityType
<1> HIDE DEF U
<1>3. IsFiniteSet(V) /\ Cardinality(V) \in {Cardinality(U), Cardinality(U) + 1}
  BY <1>1, FS_AddElement
<1>4. Cardinality(U) \in Nat /\ Cardinality(V) \in Nat
  BY <1>1, <1>3, FS_CardinalityType
<1>5. DOMAIN f = U \/ DOMAIN f = V
  BY DEF U
<1> HIDE DEF V
<1>6. FF_FS_LOCK = Cardinality(DOMAIN f)
  BY <1>4, <1>5, SlotsAssumption DEF FreeSlots
<1>7. Cardinality(DOMAIN f) <= Cardinality(U) + 1
  BY <1>3, <1>4, <1>5
<1>8. Cardinality(DOMAIN f) \in Nat
  BY <1>4, <1>5
<1> QED BY <1>1, <1>2, <1>4, <1>6, <1>7, <1>8

Enough ==
  /\ IsFiniteSet(host)
  /\ ~ failing => stuck = {}
  /\ EnoughEntries

LEMMA StuckNext ==
  ASSUME Table, Step, ~ failing, stuck = {}
  PROVE  stuck' = {}
<1>1. CASE CloseBoth
  <2>1. at \in AtBoth
    BY <1>1 DEF CloseBoth, AtBoth
  <2>2. /\ Booked(files, host, AllOf(stack), {Entry(cf.src)}, stuck \cup {Entry(cf.dst)})
        /\ Entry(cf.dst) \notin stuck
    BY <2>1 DEF Table, Booking
  <2> DEFINE g == DecShare(files, Entry(cf.src))
  <2>3. Booked(g, host, AllOf(stack), {}, stuck \cup {Entry(cf.dst)})
    BY <2>2, CloseReadBooks
  <2> HIDE DEF g
  <2>4. g[Entry(cf.dst)] = Writing
    BY <2>3 DEF Booked
  <2>5. stuck' = stuck \cup ({Entry(cf.dst)} \cap DOMAIN DecShare(g, Entry(cf.dst)))
    BY <1>1 DEF CloseBoth, Close, g
  <2>6. Entry(cf.dst) \notin DOMAIN DecShare(g, Entry(cf.dst))
    BY <2>4, DecShareOne
  <2> QED BY <2>5, <2>6
<1>2. CASE ~ CloseBoth
  BY <1>2 DEF Step, Start, NextArgument, ClearTarget, CopyDirArgument, NoMore, MakeDir, OpenDir,
              LeaveDir, CopyEntry, StatDest, OpenSource, OpenDest, CopyChunk, SetTime, Discard
<1> QED BY <1>1, <1>2

LEMMA EnoughNext ==
  ASSUME Words, Places, Table, Depths, Enough, Step, host' = host
  PROVE  Enough'
<1> DEFINE h == host
<1>1. UNCHANGED <<before, failing>> /\ Deepest' = Deepest
  BY Lasting
<1>2. ~ failing => stuck' = {}
  BY StuckNext DEF Enough
<1>3. Deepest \in Nat /\ Named \subseteq Seq(Names) /\ target \in Seq(Names) /\ stack \in Seq(Frame)
  BY LineNames, DeepestFacts DEF Words, Places, Depths
<1>4. ASSUME at # "start", FreeSlots(files) = 0, NEW C, C \subseteq AllOf(stack), NEW x,
             DOMAIN files = h \cup C \/ DOMAIN files = h \cup C \cup {x}
      PROVE  FF_FS_LOCK < Deepest + 2 + Cardinality(h)
  <2>1. Descends(stack, Named, target, Shallow(Named, target, Deepest))
    BY <1>4 DEF Depths, Reach
  <2>2. IsFiniteSet(C) /\ Cardinality(C) <= Deepest
    BY <1>3, <1>4, <2>1, FewDirs
  <2>3. IsFiniteSet(h)
    BY DEF Enough
  <2> HIDE DEF h
  <2> QED BY <1>3, <1>4, <2>2, <2>3, FullTable
<1>5. CASE starved' = starved
  BY <1>1, <1>2, <1>5 DEF Enough, EnoughEntries
<1>6. ASSUME ~ failing => FF_FS_LOCK < Deepest + 2 + Cardinality(h), NEW res, Noting(res)
      PROVE  Enough'
  <2>1. starved' \subseteq starved \cup {Cardinality(host)}
    BY <1>6 DEF Noting
  <2> QED BY <1>1, <1>2, <1>6, <2>1 DEF Enough, EnoughEntries
<1>7. CASE OpenDir
  <2>1. PICK o \in Opendir(tree, files, Top.src, failing) : Noting(o.res) /\ at = "opendir"
    BY <1>7 DEF OpenDir
  <2>2. CASE o.res = "FR_TOO_MANY_OPEN_FILES" /\ ~ failing
    <3>1. FreeSlots(files) = 0
      BY <2>2 DEF Opendir, OpendirResult
    <3>2. DOMAIN files = h \cup OuterOf(stack)
      BY <2>1, <2>2 DEF Table, Booking, Booked, Enough
    <3>3. OuterOf(stack) \subseteq AllOf(stack)
      BY DEF OuterOf, AllOf
    <3> HIDE DEF h
    <3> QED BY <1>4, <1>6, <2>1, <3>1, <3>2, <3>3
  <2>3. CASE o.res # "FR_TOO_MANY_OPEN_FILES" \/ failing
    BY <1>1, <1>5, <1>6, <2>1, <2>3 DEF Noting
  <2> QED BY <2>2, <2>3
<1>8. CASE OpenSource
  <2>1. PICK o \in OpenRead(tree, files, cf.src, failing) : Noting(o.res) /\ at = "source"
    BY <1>8 DEF OpenSource
  <2>2. CASE o.res = "FR_TOO_MANY_OPEN_FILES" /\ ~ failing
    <3>1. FreeSlots(files) = 0
      BY <2>2 DEF OpenRead, OpenReadResult, FollowPath, ChkShare
    <3>2. DOMAIN files = h \cup AllOf(stack)
      BY <2>1, <2>2 DEF Table, Booking, Booked, Enough, AtQuiet
    <3> HIDE DEF h
    <3> QED BY <1>4, <1>6, <2>1, <3>1, <3>2
  <2>3. CASE o.res # "FR_TOO_MANY_OPEN_FILES" \/ failing
    BY <1>1, <1>5, <1>6, <2>1, <2>3 DEF Noting
  <2> QED BY <2>2, <2>3
<1>9. CASE OpenDest
  <2>1. PICK o \in OpenCreate(tree, files, cf.dst, failing) : Noting(o.res) /\ at = "dest"
    BY <1>9 DEF OpenDest
  <2>2. CASE o.res = "FR_TOO_MANY_OPEN_FILES" /\ ~ failing
    <3>1. OpenCreateResult(tree, files, cf.dst) = "FR_TOO_MANY_OPEN_FILES"
      BY <2>2 DEF OpenCreate
    <3>2. FreeSlots(files) = 0
      BY <3>1 DEF OpenCreateResult, FollowPath, ChkShare
    <3>3. DOMAIN files = h \cup AllOf(stack) \cup {Entry(cf.src)}
      BY <2>1, <2>2 DEF Table, Booking, Booked, Enough
    <3> HIDE DEF h
    <3> QED BY <1>4, <1>6, <2>1, <3>2, <3>3
  <2>3. CASE o.res # "FR_TOO_MANY_OPEN_FILES" \/ failing
    BY <1>1, <1>5, <1>6, <2>1, <2>3 DEF Noting
  <2> QED BY <2>2, <2>3
<1>10. CASE ~ OpenDir /\ ~ OpenSource /\ ~ OpenDest
  <2>1. starved' = starved
    BY <1>10 DEF Step, Start, NextArgument, ClearTarget, CopyDirArgument, NoMore, MakeDir,
                 LeaveDir, CopyEntry, StatDest, CopyChunk, CloseBoth, SetTime, Discard
  <2> QED BY <1>5, <2>1
<1> QED BY <1>7, <1>8, <1>9, <1>10

(* readme.md's rule for the size of the table of open objects: with one      *)
(* entry for each level of the deepest argument and two more, besides what   *)
(* the host has open, no open of cp fails for want of an entry, whatever the *)
(* targets are, also where cp writes into directories it has still to read.  *)
THEOREM CopyNeedsNoMore == Spec => []EnoughEntries
<1> DEFINE Inv == Words /\ Places /\ Table /\ Grown /\ Depths /\ Enough
<1>1. Init => Inv
  <2> SUFFICES ASSUME Init PROVE Grown /\ Depths /\ Enough
    BY StartsSo, TableStarts
  <2>1. Grown
    BY CopyAssumption DEF Init, Grown
  <2>2. Depths
    BY DEF Init, Depths, Enumeration
  <2>3. IsFiniteSet(host)
    <3>1. PICK p \in DOMAIN tree :
            files \in {[o \in {} |-> 0]} \cup (IF HostMax = 0 THEN {} ELSE {[o \in {Entry(p)} |-> 1]})
      BY DEF Init
    <3>2. host = {} \/ host = {Entry(p)}
      <4>1. host = DOMAIN files
        BY DEF Init
      <4>2. CASE files = [o \in {} |-> 0]
        BY <4>1, <4>2
      <4>3. CASE files = [o \in {Entry(p)} |-> 1]
        BY <4>1, <4>3
      <4> QED BY <3>1, <4>2, <4>3
    <3>3. IsFiniteSet({}) /\ IsFiniteSet({Entry(p)})
      BY FS_EmptySet, FS_Singleton
    <3> QED BY <3>2, <3>3
  <2>4. Enough
    BY <2>3 DEF Init, Enough, EnoughEntries
  <2> QED BY <2>1, <2>2, <2>4
<1>2. Inv /\ [Next]_vars => Inv'
  <2>1. CASE Still
    <3>1. Named' = Named /\ Deepest' = Deepest
      BY <2>1, SameLine DEF Still, command, Deepest, Levels
    <3>2. Reach' = Reach
      BY <2>1, <3>1 DEF Reach, Still, command
    <3>3. Inv => Table' /\ Grown' /\ Depths'
      BY <2>1, <3>1, <3>2, TableStill DEF Still, command, Grown, Depths
    <3>4. Inv => IsFiniteSet(host')
      BY <2>1, FS_AddElement, FS_RemoveElement DEF Still, HostOpens, HostCloses, Enough
    <3>5. Inv => Enough'
      BY <2>1, <3>1, <3>4 DEF Still, command, Enough, EnoughEntries
    <3> QED BY <2>1, <3>3, <3>5, Unchanged
  <2>2. CASE Step /\ host' = host /\ called' \in BOOLEAN
    BY <2>2, WordsNext, PlacesNext, TableNext, GrownNext, DepthsNext, EnoughNext
  <2> QED BY <2>1, <2>2, StepOrStill
<1>3. Inv => EnoughEntries
  BY DEF Enough
<1> HIDE DEF Inv
<1> QED BY <1>1, <1>2, <1>3, PTL DEF Spec

-----------------------------------------------------------------------------
(* The copy of a directory is the copies of what is in it.                   *)
LEMMA MirroredGrows ==
  ASSUME NEW b, NEW p, NEW g, NEW D, Mirrored(b, p, g, D), NEW E, D \subseteq E
  PROVE  Mirrored(b, p, g, E)
BY DEF Mirrored

LEMMA MirroredFile ==
  ASSUME NEW S, NEW b, IsTree(b), DOMAIN b \subseteq Seq(S), NEW p \in Seq(S), ~ IsDir(b, p), NEW g, NEW D
  PROVE  Mirrored(b, p, g, D)
<1>1. ASSUME NEW q \in Subtree(b, p), IsDir(b, q) PROVE FALSE
  <2>1. q \in DOMAIN b /\ IsPrefix(p, q) /\ q \in Seq(S)
    BY <1>1 DEF Subtree
  <2>2. q # p
    BY <1>1
  <2> QED BY <2>1, <2>2, AboveIsDir
<1> QED BY <1>1 DEF Mirrored

LEMMA MirroredChildren ==
  ASSUME NEW S, NEW b, IsTree(b), DOMAIN b \subseteq Seq(S), NEW p \in Seq(S), NEW g \in Seq(S), NEW D,
         \A c \in Children(b, p) : g \in D /\ Mirrored(b, c, Append(g, Last(c)), D)
  PROVE  Mirrored(b, p, g, D)
<1> SUFFICES ASSUME NEW q \in Subtree(b, p), IsDir(b, q), Children(b, q) # {}
             PROVE  MovedTo(p, g, q) \in D
  BY DEF Mirrored, MovedTo
<1>1. q \in DOMAIN b /\ IsPrefix(p, q) /\ q \in Seq(S)
  BY DEF Subtree
<1>2. CASE q = p
  <2>1. MovedTo(p, g, q) = g
    BY <1>2, MovedTop
  <2> QED BY <1>2, <2>1
<1>3. CASE q # p
  <2>1. PICK c \in Children(b, p) : IsPrefix(c, q)
    BY <1>1, <1>3, ChildAbove
  <2>2. c \in Seq(S) /\ c # <<>> /\ Front(c) = p
    BY DEF Children
  <2>3. c = Append(p, Last(c)) /\ Last(c) \in S
    BY <2>2, FrontAndLast
  <2>4. q \in Subtree(b, c)
    BY <1>1, <2>1 DEF Subtree
  <2>5. MovedTo(c, Append(g, Last(c)), q) \in D
    BY <2>4 DEF Mirrored, MovedTo
  <2>6. MovedTo(Append(p, Last(c)), Append(g, Last(c)), q) = MovedTo(p, g, q)
    <3>1. IsPrefix(Append(p, Last(c)), q) /\ Last(c) \in S
      BY <2>1, <2>3
    <3> HIDE DEF Children
    <3>2. ASSUME NEW e \in S, IsPrefix(Append(p, e), q)
          PROVE  MovedTo(Append(p, e), Append(g, e), q) = MovedTo(p, g, q)
      BY <1>1, <3>2, MovedBelow
    <3> QED BY <3>1, <3>2
  <2> QED BY <2>3, <2>5, <2>6
<1> QED BY <1>2, <1>3

-----------------------------------------------------------------------------
(* What a call of f_copydir has done: an entry that was seen is copied, or   *)
(* has gone wrong, or is being copied (busy).                                *)
FrameDone(b, fr, busy, dirs) ==
  \A c \in Children(b, fr.src) :
    Last(c) \in fr.seen =>
      \/ fr.errFlag
      \/ c \in busy
      \/ fr.dst \in dirs /\ Mirrored(b, c, Append(fr.dst, Last(c)), dirs)

(* The calls on the stack: each copies an entry of the one before it into    *)
(* the directory that one has made; the innermost has its own when `made`.   *)
Chain(st) ==
  \A i \in DOMAIN st : i + 1 \in DOMAIN st =>
    /\ st[i + 1].src # <<>> /\ Front(st[i + 1].src) = st[i].src
    /\ st[i + 1].dst = Append(st[i].dst, Last(st[i + 1].src))
Tracks(b, st, busy, dirs) ==
  \A i \in DOMAIN st : FrameDone(b, st[i], IF i < Len(st) THEN {st[i + 1].src} ELSE busy, dirs)
Parents(st, made, dirs) ==
  \A i \in DOMAIN st : i + 1 \in DOMAIN st /\ (i + 1 < Len(st) \/ made) => st[i].dst \in dirs
Progress(b, st, busy, made, dirs) == Chain(st) /\ Tracks(b, st, busy, dirs) /\ Parents(st, made, dirs)

LEMMA DoneGrows ==
  ASSUME NEW b, NEW fr, NEW busy, NEW D, NEW E, FrameDone(b, fr, busy, D), D \subseteq E
  PROVE  FrameDone(b, fr, busy, E)
BY MirroredGrows DEF FrameDone

LEMMA ProgressGrows ==
  ASSUME NEW b, NEW st, NEW busy, NEW made, NEW D, NEW E, Progress(b, st, busy, made, D), D \subseteq E
  PROVE  Progress(b, st, busy, made, E)
<1>1. Chain(st) /\ Parents(st, made, E)
  BY DEF Progress, Parents
<1>2. Tracks(b, st, busy, E)
  BY DoneGrows DEF Progress, Tracks
<1> QED BY <1>1, <1>2 DEF Progress

(* The innermost call and those around it.                                   *)
LEMMA ProgressTop ==
  ASSUME NEW b, NEW st \in Seq(Frame), st # <<>>, NEW busy, NEW made, NEW D,
         Progress(b, st, busy, made, D)
  PROVE  FrameDone(b, Last(st), busy, D)
<1> DEFINE n == Len(st)
<1>1. n \in DOMAIN st /\ ~ (n < Len(st)) /\ Last(st) = st[n]
  BY NonEmpty DEF Last
<1> HIDE DEF n
<1>2. FrameDone(b, st[n], IF n < Len(st) THEN {st[n + 1].src} ELSE busy, D)
  BY <1>1 DEF Progress, Tracks
<1> QED BY <1>1, <1>2

LEMMA ProgressFront ==
  ASSUME NEW b, NEW st \in Seq(Frame), st # <<>>, NEW busy, NEW made, NEW D,
         Progress(b, st, busy, made, D)
  PROVE  Progress(b, Front(st), {Last(st).src}, TRUE, D)
<1> DEFINE u == Front(st)
<1>1. Len(st) \in Nat /\ Len(st) >= 1 /\ DOMAIN st = 1 .. Len(st) /\ Last(st) = st[Len(st)]
  BY NonEmpty DEF Last
<1>2. u \in Seq(Frame) /\ Len(u) = Len(st) - 1 /\ \A i \in 1 .. Len(st) - 1 : u[i] = st[i]
  BY FrontFacts
<1>3. DOMAIN u = 1 .. Len(u)
  BY <1>2, LenProperties
<1> HIDE DEF u
<1>4. ASSUME NEW i \in DOMAIN u
      PROVE  /\ i \in Nat /\ i \in DOMAIN st /\ i < Len(st) /\ u[i] = st[i]
             /\ i + 1 \in DOMAIN u => i + 1 \in DOMAIN st /\ i + 1 < Len(st) /\ u[i + 1] = st[i + 1]
             /\ i < Len(u) => i + 1 \in DOMAIN u
             /\ ~ (i < Len(u)) => i + 1 = Len(st)
  BY <1>1, <1>2, <1>3
<1>5. Chain(u)
  BY <1>4 DEF Progress, Chain
<1>6. Parents(u, TRUE, D)
  BY <1>4 DEF Progress, Parents
<1>7. Tracks(b, u, {Last(st).src}, D)
  <2> SUFFICES ASSUME NEW i \in DOMAIN u
               PROVE  FrameDone(b, u[i], IF i < Len(u) THEN {u[i + 1].src} ELSE {Last(st).src}, D)
    BY DEF Tracks
  <2>1. FrameDone(b, st[i], IF i < Len(st) THEN {st[i + 1].src} ELSE busy, D)
    BY <1>4 DEF Progress, Tracks
  <2>2. FrameDone(b, u[i], {st[i + 1].src}, D)
    BY <1>4, <2>1
  <2>3. CASE i < Len(u)
    BY <1>4, <2>2, <2>3
  <2>4. CASE ~ (i < Len(u))
    BY <1>1, <1>4, <2>2, <2>4
  <2> QED BY <2>3, <2>4
<1> QED BY <1>5, <1>6, <1>7 DEF Progress, u

(* What happens to the innermost call alone.                                 *)
LEMMA ProgressReplaced ==
  ASSUME NEW b, NEW st \in Seq(Frame), st # <<>>, NEW busy, NEW made, NEW D,
         Progress(b, st, busy, made, D),
         NEW u, SameFrames(u, st), \A i \in DOMAIN st : i # Len(st) => u[i] = st[i],
         NEW other, FrameDone(b, u[Len(st)], other, D)
  PROVE  Progress(b, u, other, made, D)
<1>1. /\ Len(st) \in Nat /\ Len(st) >= 1 /\ DOMAIN st = 1 .. Len(st)
      /\ DOMAIN u = DOMAIN st /\ Len(u) = Len(st)
      /\ \A i \in DOMAIN st : u[i].dst = st[i].dst /\ u[i].src = st[i].src
  BY NonEmpty DEF SameFrames
<1>2. Chain(u)
  BY <1>1 DEF Progress, Chain
<1>3. Parents(u, made, D)
  BY <1>1 DEF Progress, Parents
<1>4. Tracks(b, u, other, D)
  <2> SUFFICES ASSUME NEW i \in DOMAIN u
               PROVE  FrameDone(b, u[i], IF i < Len(u) THEN {u[i + 1].src} ELSE other, D)
    BY DEF Tracks
  <2>1. CASE i < Len(u)
    <3>1. i \in DOMAIN st /\ i + 1 \in DOMAIN st /\ i < Len(st) /\ i # Len(st)
      BY <1>1, <2>1
    <3>2. FrameDone(b, st[i], {st[i + 1].src}, D)
      BY <3>1 DEF Progress, Tracks
    <3>3. u[i] = st[i] /\ u[i + 1].src = st[i + 1].src
      BY <1>1, <3>1
    <3> QED BY <2>1, <3>2, <3>3
  <2>2. CASE ~ (i < Len(u))
    <3>1. i = Len(st)
      BY <1>1, <2>2
    <3> QED BY <2>2, <3>1
  <2> QED BY <2>1, <2>2
<1> QED BY <1>2, <1>3, <1>4 DEF Progress

(* An entry that is reached is seen, and is busy from then on.               *)
LEMMA ProgressSeen ==
  ASSUME NEW b, NEW st \in Seq(Frame), st # <<>>, NEW D, Progress(b, st, {}, TRUE, D), DOMAIN b \subseteq Seq(Names),
         NEW p \in Seq(Names), p # <<>>, Front(p) = Last(st).src
  PROVE  Progress(b, [st EXCEPT ![Len(st)].seen = @ \cup {Last(p)}], {p}, TRUE, D)
<1> DEFINE n == Len(st)
           fr == st[n]
           new == fr.seen \cup {Last(p)}
           gr == [fr EXCEPT !.seen = new]
           u == [st EXCEPT ![n] = gr]
<1>1. n \in DOMAIN st /\ Last(st) = fr /\ fr \in Frame /\ Last(p) \in Names /\ n = Len(st)
  BY NonEmpty, ElementOfSeq, FrontAndLast DEF Last
<1>2. fr = [dst |-> fr.dst, src |-> fr.src, listed |-> fr.listed, seen |-> fr.seen, errFlag |-> fr.errFlag]
  BY <1>1 DEF Frame
<1>3. SameFrames([st EXCEPT ![n].seen = @ \cup {Last(p)}], st)
  BY <1>1, Seen
<1>4. SameFrames(u, st)
  BY <1>3
<1>5. FrameDone(b, fr, {}, D)
  BY <1>1, ProgressTop
<1> HIDE DEF fr, n
<1>6. gr.dst = fr.dst /\ gr.src = fr.src /\ gr.seen = fr.seen \cup {Last(p)} /\ gr.errFlag = fr.errFlag
  BY <1>2
<1>7. ASSUME NEW c \in Children(b, fr.src), Last(c) = Last(p) PROVE c = p
  <2>1. c \in Seq(Names) /\ c # <<>> /\ Front(c) = Front(p)
    BY <1>1 DEF Children
  <2> QED BY <1>7, <2>1, FrontAndLast
<1> HIDE DEF gr, new
<1>8. FrameDone(b, gr, {p}, D)
  BY <1>5, <1>6, <1>7 DEF FrameDone
<1>9. u[n] = gr /\ \A i \in DOMAIN st : i # n => u[i] = st[i]
  BY <1>1
<1>10. Progress(b, u, {p}, TRUE, D)
  <2> HIDE DEF u
  <2> QED BY <1>1, <1>4, <1>8, <1>9, ProgressReplaced
<1> QED BY <1>10 DEF u, gr, new, fr, n

(* The innermost call notes how what it called has ended.                    *)
LEMMA ProgressReturn ==
  ASSUME NEW b, NEW st \in Seq(Frame), st # <<>>, NEW c, NEW D, Progress(b, st, {c}, TRUE, D),
         NEW failed \in BOOLEAN,
         failed = TRUE \/ (Last(st).dst \in D /\ Mirrored(b, c, Append(Last(st).dst, Last(c)), D))
  PROVE  Progress(b, [st EXCEPT ![Len(st)].errFlag = @ \/ failed], {}, TRUE, D)
<1> DEFINE n == Len(st)
           fr == st[n]
           new == fr.errFlag \/ failed
           gr == [fr EXCEPT !.errFlag = new]
           u == [st EXCEPT ![n] = gr]
<1>1. n \in DOMAIN st /\ Last(st) = fr /\ fr \in Frame /\ n = Len(st) /\ new \in BOOLEAN
  BY NonEmpty, ElementOfSeq DEF Last
<1>2. fr = [dst |-> fr.dst, src |-> fr.src, listed |-> fr.listed, seen |-> fr.seen, errFlag |-> fr.errFlag]
      /\ fr.errFlag \in BOOLEAN
  BY <1>1 DEF Frame
<1>3. (fr.errFlag => new) /\ (failed => new)
  OBVIOUS
<1>4. FrameDone(b, fr, {c}, D)
  BY <1>1, ProgressTop
<1> HIDE DEF fr, n, new
<1>5. SameFrames([st EXCEPT ![n].errFlag = new], st)
  BY <1>1, Marked
<1>6. SameFrames(u, st)
  BY <1>5 DEF fr
<1>7. gr.dst = fr.dst /\ gr.src = fr.src /\ gr.seen = fr.seen /\ gr.errFlag = new
  BY <1>2
<1> HIDE DEF gr
<1>8. FrameDone(b, gr, {}, D)
  <2>1. CASE failed = TRUE
    <3>1. gr.errFlag = new /\ new
      BY <1>3, <1>7, <2>1
    <3> QED BY <3>1 DEF FrameDone
  <2>2. CASE fr.dst \in D /\ Mirrored(b, c, Append(fr.dst, Last(c)), D)
    BY <1>3, <1>4, <1>7, <2>2 DEF FrameDone
  <2> QED BY <1>1, <2>1, <2>2
<1>9. u[n] = gr /\ \A i \in DOMAIN st : i # n => u[i] = st[i]
  BY <1>1
<1>10. Progress(b, u, {}, TRUE, D)
  <2> HIDE DEF u
  <2> QED BY <1>1, <1>6, <1>8, <1>9, ProgressReplaced
<1> QED BY <1>10 DEF u, gr, new, fr, n

(* An entry that has gone wrong is done with.                                *)
LEMMA ProgressFlagged ==
  ASSUME NEW b, NEW st \in Seq(Frame), st # <<>>, NEW c, NEW D, Progress(b, st, {c}, TRUE, D)
  PROVE  Progress(b, [st EXCEPT ![Len(st)].errFlag = TRUE], {}, TRUE, D)
<1>1. Len(st) \in DOMAIN st /\ st[Len(st)] \in Frame
  BY NonEmpty, ElementOfSeq
<1>2. (st[Len(st)].errFlag \/ TRUE) = TRUE
  OBVIOUS
<1>3. Progress(b, [st EXCEPT ![Len(st)].errFlag = @ \/ TRUE], {}, TRUE, D)
  BY ProgressReturn
<1>4. [st EXCEPT ![Len(st)].errFlag = @ \/ TRUE] = [st EXCEPT ![Len(st)].errFlag = TRUE]
  OBVIOUS
<1> QED BY <1>3, <1>4

(* A call for the entry p; its directory is not made yet.                    *)
LEMMA ProgressPushed ==
  ASSUME NEW b, NEW st \in Seq(Frame), st # <<>>, NEW D, NEW p \in Seq(Names), p # <<>>,
         Front(p) = Last(st).src, Progress(b, st, {p}, TRUE, D)
  PROVE  Progress(b, Append(st, NewFrame(Append(Last(st).dst, Last(p)), p)), {}, FALSE, D)
<1> DEFINE dst == Append(Last(st).dst, Last(p))
           n == Len(st)
           fr == NewFrame(dst, p)
           u == Append(st, fr)
<1>1. n \in Nat /\ n >= 1 /\ DOMAIN st = 1 .. n /\ Last(st) = st[n] /\ n = Len(st) /\ Last(st) \in Frame
  BY NonEmpty, ElementOfSeq DEF Last
<1>2. dst \in Seq(Names) /\ dst = Append(Last(st).dst, Last(p))
  <2>1. Last(st).dst \in Seq(Names) /\ Last(p) \in Names
    BY <1>1, FrontAndLast DEF Frame
  <2> QED BY <2>1, AppendProperties
<1> HIDE DEF dst
<1>3. fr \in Frame /\ fr.dst = dst /\ fr.src = p /\ fr.seen = {}
  BY <1>2 DEF NewFrame, Frame
<1> HIDE DEF fr
<1>4. /\ u \in Seq(Frame) /\ Len(u) = n + 1 /\ u[n + 1] = fr /\ \A i \in 1 .. n : u[i] = st[i]
  BY <1>1, <1>3, AppendProperties
<1> HIDE DEF u, n
<1>5. DOMAIN u = 1 .. n + 1
  BY <1>4, LenProperties
<1>6. ASSUME NEW i \in DOMAIN u
      PROVE  \/ i = n + 1 /\ u[i] = fr /\ i + 1 \notin DOMAIN u /\ ~ (i < Len(u))
             \/ i = n /\ u[i] = Last(st) /\ u[i + 1] = fr /\ i < Len(u) /\ ~ (i + 1 < Len(u))
             \/ /\ i \in DOMAIN st /\ i < n /\ i + 1 \in DOMAIN st /\ i < Len(u)
                /\ u[i] = st[i] /\ u[i + 1] = st[i + 1] /\ (i + 1 < Len(u) => i + 1 < Len(st) \/ i + 1 = Len(st))
  BY <1>1, <1>4, <1>5
<1>7. Chain(u)
  <2> SUFFICES ASSUME NEW i \in DOMAIN u, i + 1 \in DOMAIN u
               PROVE  /\ u[i + 1].src # <<>> /\ Front(u[i + 1].src) = u[i].src
                      /\ u[i + 1].dst = Append(u[i].dst, Last(u[i + 1].src))
    BY DEF Chain
  <2>1. CASE i = n /\ u[i] = Last(st) /\ u[i + 1] = fr
    BY <1>2, <1>3, <2>1
  <2>2. CASE i \in DOMAIN st /\ i + 1 \in DOMAIN st /\ u[i] = st[i] /\ u[i + 1] = st[i + 1]
    BY <2>2 DEF Progress, Chain
  <2> QED BY <1>6, <2>1, <2>2
<1>8. Parents(u, FALSE, D)
  <2> SUFFICES ASSUME NEW i \in DOMAIN u, i + 1 \in DOMAIN u, i + 1 < Len(u)
               PROVE  u[i].dst \in D
    BY DEF Parents
  <2>1. i \in DOMAIN st /\ i + 1 \in DOMAIN st /\ u[i] = st[i]
    BY <1>6
  <2> QED BY <2>1 DEF Progress, Parents
<1>9. Tracks(b, u, {}, D)
  <2> SUFFICES ASSUME NEW i \in DOMAIN u
               PROVE  FrameDone(b, u[i], IF i < Len(u) THEN {u[i + 1].src} ELSE {}, D)
    BY DEF Tracks
  <2>1. CASE i = n + 1 /\ u[i] = fr
    BY <1>3, <2>1 DEF FrameDone
  <2>2. CASE i = n /\ u[i] = Last(st) /\ u[i + 1] = fr /\ i < Len(u)
    <3>1. FrameDone(b, Last(st), {p}, D)
      BY ProgressTop
    <3> QED BY <1>3, <2>2, <3>1
  <2>3. CASE /\ i \in DOMAIN st /\ i < n /\ i + 1 \in DOMAIN st /\ i < Len(u)
             /\ u[i] = st[i] /\ u[i + 1] = st[i + 1]
    <3>1. FrameDone(b, st[i], {st[i + 1].src}, D)
      BY <1>1, <2>3 DEF Progress, Tracks
    <3> QED BY <2>3, <3>1
  <2> QED BY <1>6, <2>1, <2>2, <2>3
<1> QED BY <1>7, <1>8, <1>9 DEF Progress, u, fr, dst

(* The first call.                                                           *)
LEMMA ProgressOne ==
  ASSUME NEW b, NEW dst, NEW src, NEW D
  PROVE  Progress(b, <<NewFrame(dst, src)>>, {}, FALSE, D)
<1> DEFINE u == <<NewFrame(dst, src)>>
<1>1. DOMAIN u = {1} /\ u[1].seen = {} /\ Len(u) = 1
  BY DEF NewFrame
<1> HIDE DEF u
<1>2. \A i \in DOMAIN u : i = 1 /\ i + 1 \notin DOMAIN u /\ ~ (i < Len(u))
  BY <1>1
<1> QED BY <1>1, <1>2 DEF Progress, Chain, Parents, Tracks, FrameDone, u

(* The directory of the innermost call is made, in that of the call before.  *)
LEMMA ProgressMade ==
  ASSUME NEW b, NEW st \in Seq(Frame), st # <<>>, NEW made, NEW D, Progress(b, st, {}, made, D),
         Front(Last(st).dst) \in D
  PROVE  Progress(b, st, {}, TRUE, D)
<1>1. /\ Len(st) \in Nat /\ Len(st) >= 1 /\ DOMAIN st = 1 .. Len(st) /\ Last(st) = st[Len(st)]
      /\ \A i \in DOMAIN st : st[i] \in Frame
  BY NonEmpty, ElementOfSeq DEF Last
<1>2. ASSUME NEW i \in DOMAIN st, i + 1 \in DOMAIN st
      PROVE  st[i].dst \in D
  <2>1. CASE i + 1 < Len(st)
    BY <1>2, <2>1 DEF Progress, Parents
  <2>2. CASE ~ (i + 1 < Len(st))
    <3>1. i + 1 = Len(st)
      BY <1>1, <1>2, <2>2
    <3>2. Last(st).dst = Append(st[i].dst, Last(Last(st).src)) /\ Last(st).src # <<>>
      BY <1>1, <1>2, <3>1 DEF Progress, Chain
    <3>3. st[i].dst \in Seq(Names) /\ Last(Last(st).src) \in Names
      <4>1. st[i] \in Frame /\ Last(st) \in Frame
        BY <1>1
      <4>2. st[i].dst \in Seq(Names) /\ Last(st).src \in Seq(Names)
        BY <4>1 DEF Frame
      <4> QED BY <3>2, <4>2, FrontAndLast
    <3> QED BY <3>2, <3>3, FrontOfAppend
  <2> QED BY <2>1, <2>2
<1> QED BY <1>2 DEF Progress, Parents

-----------------------------------------------------------------------------
(* What cp changes is at its target or below it.                             *)
AtTarget == at \in AtFile => IsPrefix(target, cf.dst)

Elsewhere ==
  at \notin {"start", "exit"} =>
    \A r \in DOMAIN before :
      ~ IsPrefix(target, r) => r \in DOMAIN tree /\ tree[r] = before[r]

LEMMA StackInTarget ==
  ASSUME Words, Places, Depths, at # "start", NEW i \in DOMAIN stack
  PROVE  stack[i].dst \in Seq(Names) /\ stack[i].src \in Seq(Names) /\ IsPrefix(target, stack[i].dst)
<1>1. stack \in Seq(Frame) /\ target \in Seq(Names) /\ Descends(stack, Named, target, Reach)
  BY DEF Words, Places, Depths
<1>2. stack[1] \in Frame /\ stack[i] \in Frame
  BY <1>1, ElementOfSeq, LenProperties
<1>3. stack[1].dst \in Seq(Names) /\ stack[i].dst \in Seq(Names) /\ stack[i].src \in Seq(Names)
  BY <1>2 DEF Frame
<1>4. Near(target, stack[1].dst) /\ IsPrefix(stack[1].dst, stack[i].dst)
  BY <1>1 DEF Descends
<1>5. IsPrefix(target, stack[1].dst)
  BY <1>1, <1>3, <1>4, NearBelow
<1> QED BY <1>1, <1>3, <1>4, <1>5, PrefixTransitive

(* The call of f_copyfile, where none begins.                                *)
LEMMA SameCopy ==
  ASSUME cf \in CopyCall, Step, ~ NextArgument, ~ CopyEntry
  PROVE  cf'.dst = cf.dst /\ cf'.src = cf.src /\ (at' \in AtFile => at \in AtFile)
<1>1. ASSUME NEW outer, NEW failed, ReturnTo(outer, failed)
      PROVE  at' \notin AtFile
  BY <1>1 DEF ReturnTo, AtFile
<1>2. CASE Start \/ ClearTarget \/ CopyDirArgument \/ NoMore
  BY <1>2 DEF Start, ClearTarget, CopyDirArgument, NoMore, AtFile
<1>3. CASE MakeDir \/ OpenDir \/ LeaveDir
  <2>1. cf' = cf /\ at' \notin AtFile
    BY <1>1, <1>3 DEF MakeDir, OpenDir, LeaveDir, AtFile
  <2> QED BY <2>1
<1>4. CASE StatDest \/ OpenSource \/ OpenDest \/ SetTime \/ Discard
  <2>1. cf' = cf /\ at \in AtFile
    BY <1>4 DEF StatDest, OpenSource, OpenDest, SetTime, Discard, AtFile
  <2> QED BY <2>1
<1>5. CASE CloseBoth
  BY <1>5 DEF CloseBoth, AtFile
<1>6. CASE CopyChunk
  <2>1. cf' \in {cf, [cf EXCEPT !.pos = @ + 1]} /\ at \in AtFile
    BY <1>6 DEF CopyChunk, AtFile
  <2> QED BY <2>1 DEF CopyCall
<1> QED BY <1>2, <1>3, <1>4, <1>5, <1>6 DEF Step

LEMMA AtTargetNext ==
  ASSUME Words, Places, Depths, AtTarget, Step
  PROVE  AtTarget'
<1>1. CASE NextArgument
  <2>1. at' = "stat" => cf'.dst = szTarget'
    BY <1>1 DEF NextArgument
  <2>2. at' \in {"next", "stat", "clear", "contains"}
    BY <1>1 DEF NextArgument
  <2>3. Words' /\ Depths'
    BY <1>1, NextArgumentKept, DepthsArgument
  <2>4. Near(target', szTarget') /\ szTarget' \in Seq(Names) /\ target' \in Seq(Names)
    BY <2>2, <2>3 DEF Words, Depths
  <2>5. IsPrefix(target', szTarget')
    BY <2>4, NearBelow
  <2> QED BY <2>1, <2>2, <2>5 DEF AtTarget, AtFile
<1>2. CASE CopyEntry
  <2>1. at # "start" /\ stack # <<>> /\ target' = target
    BY <1>2 DEF CopyEntry, Places, AtDir, command
  <2>2. Len(stack) \in DOMAIN stack /\ Top = stack[Len(stack)]
    BY <2>1, TopFacts DEF Places
  <2>3. Top.dst \in Seq(Names) /\ IsPrefix(target, Top.dst) /\ target \in Seq(Names)
    BY <2>1, <2>2, StackInTarget DEF Words
  <2>4. PICK p \in Unread :
          \/ at' \in {"readdir", "mkdir"}
          \/ at' = "stat" /\ cf' = [dst |-> Append(Top.dst, Last(p)), src |-> p, pos |-> 1]
    BY <1>2, EntryStep
  <2>5. p \in Seq(Names) /\ p # <<>>
    BY DEF Unread, Children, Words
  <2>6. IsPrefix(target, Append(Top.dst, Last(p)))
    BY <2>3, <2>5, FrontAndLast, PrefixOfLonger
  <2> DEFINE d == Append(Top.dst, Last(p))
  <2>7. at' = "stat" => cf'.dst = d
    BY <2>4
  <2>8. at' \in AtFile => at' = "stat"
    BY <2>4 DEF AtFile
  <2> HIDE DEF d
  <2>9. at' \in AtFile => IsPrefix(target', cf'.dst)
    BY <2>1, <2>6, <2>7, <2>8 DEF d
  <2> QED BY <2>9 DEF AtTarget, AtFile
<1>3. CASE ~ NextArgument /\ ~ CopyEntry
  <2>1. cf'.dst = cf.dst /\ (at' \in AtFile => at \in AtFile)
    BY <1>3, SameCopy DEF Places
  <2>2. at \in AtFile => target' = target
    BY Lasting DEF AtFile
  <2> QED BY <2>1, <2>2 DEF AtTarget
<1> QED BY <1>1, <1>2, <1>3

LEMMA ChangedBelow ==
  ASSUME Words, Places, Depths, AtTarget, Step, tree' # tree
  PROVE  \E x \in Seq(Names) : IsPrefix(target, x) /\ OnlyAt(tree, tree', x)
<1>1. CASE ClearTarget
  <2>1. Near(target, szTarget) /\ szTarget \in Seq(Names) /\ target \in Seq(Names)
    BY <1>1 DEF ClearTarget, Words, Depths
  <2>2. OnlyAt(tree, tree', szTarget)
    BY <1>1, UnlinkAt DEF ClearTarget
  <2> QED BY <2>1, <2>2, NearBelow
<1>2. CASE MakeDir
  <2>1. at # "start" /\ stack # <<>>
    BY <1>2 DEF MakeDir, Places, AtDir
  <2>2. Len(stack) \in DOMAIN stack /\ Top = stack[Len(stack)]
    BY <2>1, TopFacts DEF Places
  <2>3. OnlyAt(tree, tree', Top.dst)
    BY <1>2, MkdirAt DEF MakeDir
  <2> QED BY <2>1, <2>2, <2>3, StackInTarget
<1>3. CASE OpenDest \/ CopyChunk \/ SetTime \/ Discard
  <2>1. at \in AtFile
    BY <1>3 DEF OpenDest, CopyChunk, SetTime, Discard, AtFile
  <2>2. OnlyAt(tree, tree', cf.dst)
    BY <1>3, CreateAt, ChunkAt, UnlinkAt DEF OpenDest, SetTime, Discard
  <2>3. cf.dst \in Seq(Names)
    BY DEF Places, CopyCall
  <2> QED BY <2>1, <2>2, <2>3 DEF AtTarget
<1> QED BY <1>1, <1>2, <1>3, TreeStep

LEMMA ElsewhereNext ==
  ASSUME Words, Places, Depths, AtTarget, Elsewhere, Step
  PROVE  Elsewhere'
<1>1. CASE Start
  BY <1>1 DEF Start, Depths, Elsewhere
<1>2. CASE ~ Start
  <2>1. at \notin {"start", "exit"}
    BY <1>2 DEF Step, NextArgument, ClearTarget, CopyDirArgument, NoMore, MakeDir, OpenDir,
       LeaveDir, CopyEntry, StatDest, OpenSource, OpenDest, CopyChunk, CloseBoth, SetTime, Discard
  <2>2. target' = target /\ before' = before
    BY <2>1, Lasting
  <2>3. CASE tree' = tree
    BY <2>1, <2>2, <2>3 DEF Elsewhere
  <2>4. CASE tree' # tree
    <3>1. PICK x \in Seq(Names) : IsPrefix(target, x) /\ OnlyAt(tree, tree', x)
      BY <2>4, ChangedBelow
    <3> QED BY <2>1, <2>2, <3>1 DEF Elsewhere, OnlyAt
  <2> QED BY <2>3, <2>4
<1> QED BY <1>1, <1>2

-----------------------------------------------------------------------------
(* On a sound medium no directory goes, but one that a copy over a file that *)
(* existed is about to make again: what is copied from is not removed, and   *)
(* what is removed after its copy is a file.                                 *)
FileMade ==
  /\ at \in {"copy", "close", "restat"} => cf.dst \notin Dirs(tree) /\ Front(cf.dst) \in Dirs(tree)
  /\ at \in {"undo", "discard"} => failing

LEMMA ParentIsDir ==
  ASSUME NEW t, IsTree(t), DOMAIN t \subseteq Seq(Names), NEW p \in DOMAIN t, p # <<>>
  PROVE  Front(p) \in Dirs(t)
<1>1. p \in Seq(Names) /\ Front(p) \in Seq(Names) /\ IsPrefix(Front(p), p) /\ Front(p) # p
  BY ParentAbove
<1>2. IsDir(t, Front(p))
  BY <1>1, AboveIsDir
<1> QED BY <1>2 DEF IsDir, Dirs

LEMMA FileMadeNext ==
  ASSUME Words, Places, Grown, FileMade, Step
  PROVE  FileMade'
<1>1. ASSUME NEW outer, NEW failed, ReturnTo(outer, failed)
      PROVE  at' \in {"next", "readdir"}
  BY <1>1 DEF ReturnTo
<1>2. IsTree(tree) /\ DOMAIN tree \subseteq Seq(Names) /\ cf \in CopyCall /\ cf.dst \in Seq(Names)
  BY DEF Words, Places, Grown, CopyCall
<1>3. CASE at' \notin {"copy", "close", "restat", "undo", "discard"}
  BY <1>3 DEF FileMade
<1>4. CASE OpenDest
  <2>1. PICK o \in OpenCreate(tree, files, cf.dst, failing) :
          /\ tree' = o.tree
          /\ o.res = "FR_OK" => at' = "copy"
          /\ o.res # "FR_OK" => at' \in {"next", "readdir"}
    BY <1>1, <1>4 DEF OpenDest, Leave
  <2>2. CASE o.res # "FR_OK"
    BY <1>3, <2>1, <2>2
  <2>3. CASE o.res = "FR_OK"
    <3>1. OpenCreateResult(tree, files, cf.dst) = "FR_OK" /\ tree' = Created(tree, cf.dst)
      BY <2>1, <2>3, CreateOutcome
    <3>2. cf.dst # <<>>
      BY <3>1 DEF OpenCreateResult
    <3>3. Front(cf.dst) \in Dirs(tree)
      <4>1. CASE cf.dst \in DOMAIN tree
        BY <1>2, <3>2, <4>1, ParentIsDir
      <4>2. CASE cf.dst \notin DOMAIN tree
        BY <3>1, <3>2, <4>2 DEF OpenCreateResult, FollowPath, IsDir, Dirs
      <4> QED BY <4>1, <4>2
    <3>4. cf.dst # Front(cf.dst)
      <4>1. Len(Front(cf.dst)) = Len(cf.dst) - 1 /\ Len(cf.dst) \in Nat
        BY <1>2, <3>2, FrontFacts, LenProperties
      <4> QED BY <4>1
    <3> DEFINE g == Front(cf.dst)
    <3> HIDE DEF g
    <3>5. cf.dst \notin Dirs(tree')
      BY <3>1 DEF Dirs, Created, With, FileNode
    <3>6. \A q \in Dirs(tree) : q # cf.dst => q \in Dirs(tree')
      BY <3>1 DEF Dirs, Created, With
    <3>7. Front(cf.dst) \in Dirs(tree')
      BY <3>3, <3>4, <3>6
    <3>8. cf' = cf /\ at' = "copy"
      BY <1>4, <2>1, <2>3 DEF OpenDest
    <3> QED BY <3>5, <3>7, <3>8 DEF FileMade
  <2> QED BY <2>2, <2>3
<1>5. CASE CopyChunk
  <2>1. /\ at = "copy" /\ cf' \in {cf, [cf EXCEPT !.pos = @ + 1]}
        /\ tree' = tree \/ tree' = [tree EXCEPT ![cf.dst].data = Append(@, Chunk)]
        /\ at' \in {"copy", "close", "undo"} /\ (at' = "undo" => failing) /\ failing' = failing
    BY <1>5 DEF CopyChunk, command
  <2>2. cf'.dst = cf.dst
    BY <1>2, <2>1 DEF CopyCall
  <2>3. PICK data : cf.dst \in DOMAIN tree /\ tree[cf.dst] = FileNode(data, FALSE)
    BY <2>1 DEF Grown, WrittenFile
  <2>4. DOMAIN tree' = DOMAIN tree /\ \A q \in DOMAIN tree : tree'[q].dir = tree[q].dir
    <3>1. CASE tree' = tree
      BY <3>1
    <3>2. CASE tree' = [tree EXCEPT ![cf.dst].data = Append(@, Chunk)]
      <4>1. [tree[cf.dst] EXCEPT !.data = Append(@, Chunk)].dir = tree[cf.dst].dir
        BY <2>3 DEF FileNode
      <4> QED BY <3>2, <4>1
    <3> QED BY <2>1, <3>1, <3>2
  <2>5. Dirs(tree') = Dirs(tree)
    BY <2>4 DEF Dirs
  <2> QED BY <2>1, <2>2, <2>5 DEF FileMade
<1>6. CASE CloseBoth
  <2>1. /\ tree' = tree /\ cf' = cf /\ failing' = failing
        /\ at \in {"close", "undo"} /\ at' = IF at = "close" THEN "restat" ELSE "discard"
    BY <1>6 DEF CloseBoth, command
  <2> QED BY <2>1 DEF FileMade
<1>7. CASE ~ OpenDest /\ ~ CopyChunk /\ ~ CloseBoth
  <2>1. at' \notin {"copy", "close", "restat", "undo", "discard"}
    <3>1. CASE Start \/ NextArgument \/ ClearTarget \/ CopyDirArgument \/ NoMore
      BY <3>1 DEF Start, NextArgument, ClearTarget, CopyDirArgument, NoMore
    <3>2. CASE MakeDir \/ OpenDir \/ LeaveDir
      BY <1>1, <3>2 DEF MakeDir, OpenDir, LeaveDir
    <3>3. CASE CopyEntry
      BY <3>3 DEF CopyEntry
    <3>4. CASE StatDest \/ OpenSource \/ SetTime \/ Discard
      BY <1>1, <3>4 DEF StatDest, OpenSource, SetTime, Discard, Leave
    <3> QED BY <1>7, <3>1, <3>2, <3>3, <3>4 DEF Step
  <2> QED BY <1>3, <2>1
<1> QED BY <1>4, <1>5, <1>6, <1>7

LEMMA UnlinkDirs ==
  ASSUME NEW t, NEW f, NEW p, NEW faulty, NEW o \in Unlink(t, f, p, faulty)
  PROVE  \A q \in Dirs(t) : q \in Dirs(o.tree) \/ (q = p /\ q \notin DOMAIN o.tree)
<1>1. o.tree = t \/ o.tree = Without(t, p)
  BY UnlinkOutcome
<1>2. /\ DOMAIN Without(t, p) = DOMAIN t \ {p}
      /\ \A q \in DOMAIN t \ {p} : Without(t, p)[q] = t[q]
  BY WithoutOne
<1> QED BY <1>1, <1>2 DEF Dirs

LEMMA DirsStay ==
  ASSUME Words, Places, Grown, FileMade, ~ failing, Step
  PROVE  \A q \in Dirs(tree) : q \in Dirs(tree') \/ (ClearTarget /\ q = szTarget /\ q \notin DOMAIN tree')
<1>1. CASE tree' = tree
  BY <1>1
<1>2. CASE ClearTarget
  BY <1>2, UnlinkDirs DEF ClearTarget
<1>3. CASE SetTime
  <2>1. cf.dst \notin Dirs(tree)
    BY <1>3 DEF SetTime, FileMade
  <2> QED BY <1>3, <2>1, UnlinkDirs DEF SetTime
<1>4. CASE Discard
  BY <1>4 DEF Discard, FileMade
<1>5. CASE MakeDir
  <2>1. tree' = tree \/ (Top.dst \notin DOMAIN tree /\ tree' = With(tree, Top.dst, DirNode))
    BY <1>5 DEF MakeDir, Mkdir, MkdirResult, FollowPath
  <2> QED BY <2>1 DEF With, Dirs
<1>6. CASE OpenDest
  <2>1. PICK o \in OpenCreate(tree, files, cf.dst, failing) : tree' = o.tree
    BY <1>6 DEF OpenDest
  <2>2. \/ tree' = tree
        \/ OpenCreateResult(tree, files, cf.dst) = "FR_OK" /\ tree' = Created(tree, cf.dst)
    BY <2>1, CreateOutcome
  <2>3. OpenCreateResult(tree, files, cf.dst) = "FR_OK" => cf.dst \notin Dirs(tree)
    BY DEF OpenCreateResult, FollowPath, Dirs
  <2> QED BY <2>2, <2>3 DEF Created, With, Dirs
<1>7. CASE CopyChunk
  <2>1. /\ at = "copy"
        /\ tree' = tree \/ tree' = [tree EXCEPT ![cf.dst].data = Append(@, Chunk)]
    BY <1>7 DEF CopyChunk
  <2>2. cf.dst \notin Dirs(tree)
    BY <2>1 DEF FileMade
  <2> QED BY <2>1, <2>2 DEF Dirs
<1> QED BY <1>1, <1>2, <1>3, <1>4, <1>5, <1>6, <1>7, TreeStep

-----------------------------------------------------------------------------
(* What is copied is what the volume held when cp started, and the calls     *)
(* keep track of it.                                                         *)
Sound == ~ failing /\ overwrite /\ cmd.recursive

Outside(st, g) == st # <<>> /\ ~ IsPrefix(g, st[1].src)

FileOf(b, fr, c) ==
  /\ c.src # <<>> /\ Front(c.src) = fr.src /\ c.dst = Append(fr.dst, Last(c.src))
  /\ ~ IsDir(b, c.src)

OnTrack(b, st, place, c, dirs) ==
  /\ Progress(b, st, IF place \in AtFile THEN {c.src} ELSE {}, place # "mkdir", dirs)
  /\ place \in AtFile => FileOf(b, Last(st), c)

(* What was in a directory when cp started was there when it was opened.     *)
Complete(b, st, place) ==
  \A i \in DOMAIN st :
    i < Len(st) \/ place \notin {"mkdir", "opendir"} => NamesIn(b, st[i].src) \subseteq st[i].listed

Noticed == Sound /\ Outside(stack, target) => Complete(before, stack, at)
Tracked == Sound /\ Outside(stack, target) => OnTrack(before, stack, at, cf, Dirs(tree))

LEMMA SoundSame ==
  ASSUME Step
  PROVE  before' = before /\ (Sound' => Sound) /\ failing' = failing
<1>1. UNCHANGED <<before, failing, overwrite, cmd>>
  BY DEF Step, Start, NextArgument, ClearTarget, CopyDirArgument, NoMore, MakeDir, OpenDir,
         LeaveDir, CopyEntry, StatDest, OpenSource, OpenDest, CopyChunk, CloseBoth, SetTime,
         Discard, command
<1> QED BY <1>1 DEF Sound

LEMMA BeforeTree ==
  ASSUME Depths
  PROVE  IsTree(before) /\ DOMAIN before \subseteq Seq(Names)
BY CopyAssumption DEF Depths

LEMMA SourcesKept ==
  ASSUME Words, Places, Depths, Elsewhere, at \notin {"start", "exit"}, Outside(stack, target),
         NEW i \in DOMAIN stack, NEW r \in DOMAIN before, IsPrefix(stack[i].src, r)
  PROVE  r \in DOMAIN tree /\ tree[r] = before[r]
<1>1. /\ stack \in Seq(Frame) /\ target \in Seq(Names) /\ Descends(stack, Named, target, Reach)
      /\ r \in Seq(Names)
  BY BeforeTree DEF Words, Places, Depths
<1>2. 1 \in DOMAIN stack
  BY <1>1, LenProperties
<1>3. stack[1].src \in Seq(Names) /\ stack[i].src \in Seq(Names)
  BY <1>2, StackInTarget
<1>4. IsPrefix(stack[1].src, stack[i].src) /\ ~ IsPrefix(stack[1].src, target)
  BY <1>1 DEF Descends
<1>5. IsPrefix(stack[1].src, r)
  BY <1>1, <1>3, <1>4, PrefixTransitive
<1>6. ~ IsPrefix(target, r)
  <2> SUFFICES ASSUME IsPrefix(target, r) PROVE FALSE
    OBVIOUS
  <2>1. IsPrefix(target, stack[1].src) \/ IsPrefix(stack[1].src, target)
    BY <1>1, <1>3, <1>5, PrefixesCompare
  <2> QED BY <1>4, <2>1 DEF Outside
<1> QED BY <1>6 DEF Elsewhere

(* The outermost call stays as it is until it returns.                       *)
LEMMA OutermostKept ==
  ASSUME Words, Places, Step, ~ CopyDirArgument, stack' # <<>>
  PROVE  stack # <<>> /\ stack'[1].src = stack[1].src /\ stack'[1].dst = stack[1].dst
<1>0. stack \in Seq(Frame)
  BY DEF Places
<1>1. CASE stack' = stack
  BY <1>1
<1>2. ASSUME NEW outer \in Seq(Frame), NEW failed, ReturnTo(outer, failed),
             \A i \in DOMAIN outer : i \in DOMAIN stack /\ outer[i] = stack[i]
      PROVE  stack # <<>> /\ stack'[1].src = stack[1].src /\ stack'[1].dst = stack[1].dst
  <2>1. SameFrames(stack', outer) /\ outer # <<>>
    BY <1>2, AfterReturn
  <2>2. 1 \in DOMAIN outer
    BY <2>1, NonEmpty
  <2>3. 1 \in DOMAIN stack /\ outer[1] = stack[1]
    BY <1>2, <2>2
  <2>4. stack # <<>>
    BY <2>3, EmptySeq
  <2> QED BY <2>1, <2>2, <2>3, <2>4 DEF SameFrames
<1>3. ASSUME NEW failed, ReturnTo(stack, failed)
      PROVE  stack # <<>> /\ stack'[1].src = stack[1].src /\ stack'[1].dst = stack[1].dst
  BY <1>0, <1>2, <1>3
<1>4. ASSUME NEW failed, ReturnTo(Front(stack), failed), at \in AtDir
      PROVE  stack # <<>> /\ stack'[1].src = stack[1].src /\ stack'[1].dst = stack[1].dst
  <2>1. stack # <<>>
    BY <1>4 DEF Places
  <2>2. Front(stack) \in Seq(Frame)
        /\ \A i \in DOMAIN Front(stack) : i \in DOMAIN stack /\ Front(stack)[i] = stack[i]
    BY <1>0, <2>1, TopFacts
  <2> QED BY <1>2, <1>4, <2>2
<1>5. CASE MakeDir \/ OpenDir \/ LeaveDir
  <2>1. CASE OpenDir
    <3>1. at \in AtDir /\ stack # <<>> /\ 1 \in DOMAIN stack
      BY <1>0, <2>1, NonEmpty DEF OpenDir, AtDir, Places
    <3>2. SameFrames(stack', stack) \/ ReturnTo(Front(stack), TRUE)
      BY <2>1, OpenDirStep
    <3>3. CASE SameFrames(stack', stack)
      BY <3>1, <3>3 DEF SameFrames
    <3> QED BY <1>4, <3>1, <3>2, <3>3
  <2>2. CASE MakeDir \/ LeaveDir
    BY <1>1, <1>4, <2>2 DEF MakeDir, LeaveDir, AtDir
  <2> QED BY <1>5, <2>1, <2>2
<1>6. CASE CopyEntry
  <2>1. stack # <<>> /\ 1 \in DOMAIN stack /\ Len(stack) \in Nat /\ DOMAIN stack = 1 .. Len(stack)
    BY <1>0, <1>6, NonEmpty DEF CopyEntry, Places, AtDir
  <2>2. PICK p \in Unread, st \in Seq(Frame) :
          /\ SameFrames(st, stack)
          /\ stack' = st \/ stack' = Append(st, NewFrame(Append(Top.dst, Last(p)), p))
    BY <1>6, EntryStep
  <2>3. 1 \in DOMAIN st /\ st[1].src = stack[1].src /\ st[1].dst = stack[1].dst
    BY <2>1, <2>2 DEF SameFrames
  <2>4. CASE stack' = st
    BY <2>1, <2>3, <2>4
  <2>5. CASE stack' = Append(st, NewFrame(Append(Top.dst, Last(p)), p))
    <3>1. p \in Seq(Names) /\ p # <<>>
      BY DEF Unread, Children, Words
    <3>2. Append(Top.dst, Last(p)) \in Seq(Names)
      BY <1>6, <3>1, TopReached, FrontAndLast, AppendProperties DEF CopyEntry, AtDir
    <3>3. stack'[1] = st[1]
      BY <2>3, <2>5, <3>1, <3>2, Pushed
    <3> QED BY <2>1, <2>3, <3>3
  <2> QED BY <2>2, <2>4, <2>5
<1>7. CASE StatDest \/ OpenSource
  BY <1>1, <1>3, <1>7 DEF StatDest, OpenSource, Leave
<1>8. CASE OpenDest \/ SetTime \/ Discard
  BY <1>1, <1>3, <1>8 DEF OpenDest, SetTime, Discard, Leave
<1>9. CASE Start \/ NextArgument \/ ClearTarget \/ NoMore \/ CopyChunk \/ CloseBoth
  BY <1>1, <1>9 DEF Start, NextArgument, ClearTarget, NoMore, CopyChunk, CloseBoth
<1> QED BY <1>5, <1>6, <1>7, <1>8, <1>9 DEF Step

(* The stack changes, and what its directories held is still on it.          *)
LEMMA CompleteSame ==
  ASSUME NEW b, NEW st, NEW tt, SameFrames(st, tt), SameListed(st, tt), NEW here, NEW there,
         Complete(b, tt, here), here \in {"mkdir", "opendir"} => there \in {"mkdir", "opendir"}
  PROVE  Complete(b, st, there)
BY DEF Complete, SameFrames, SameListed

LEMMA CompleteFront ==
  ASSUME NEW b, NEW st \in Seq(Frame), st # <<>>, NEW here, Complete(b, st, here), NEW there
  PROVE  Complete(b, Front(st), there)
<1>1. /\ Front(st) \in Seq(Frame) /\ Len(Front(st)) = Len(st) - 1
      /\ \A i \in 1 .. Len(st) - 1 : Front(st)[i] = st[i]
  BY FrontFacts
<1>2. Len(st) \in Nat /\ DOMAIN st = 1 .. Len(st) /\ DOMAIN Front(st) = 1 .. Len(st) - 1
  BY <1>1, LenProperties
<1>3. ASSUME NEW i \in DOMAIN Front(st)
      PROVE  i \in DOMAIN st /\ i < Len(st) /\ Front(st)[i] = st[i]
  BY <1>1, <1>2, <1>3
<1> QED BY <1>3 DEF Complete

LEMMA CompletePushed ==
  ASSUME NEW b, NEW st \in Seq(Frame), NEW here, here \notin {"mkdir", "opendir"}, Complete(b, st, here),
         NEW dst \in Seq(Names), NEW src \in Seq(Names)
  PROVE  Complete(b, Append(st, NewFrame(dst, src)), "mkdir")
<1> DEFINE u == Append(st, NewFrame(dst, src))
<1>1. /\ Len(u) = Len(st) + 1 /\ DOMAIN u = DOMAIN st \cup {Len(st) + 1}
      /\ \A i \in DOMAIN st : u[i] = st[i]
  BY Pushed
<1>2. Len(st) \in Nat /\ DOMAIN st = 1 .. Len(st)
  BY LenProperties
<1>3. ASSUME NEW i \in DOMAIN u, i < Len(u)
      PROVE  i \in DOMAIN st /\ u[i] = st[i]
  BY <1>1, <1>2, <1>3
<1> HIDE DEF u
<1>4. Complete(b, u, "mkdir")
  BY <1>3 DEF Complete
<1> QED BY <1>4 DEF u

LEMMA NoticedReturn ==
  ASSUME NEW outer \in Seq(Frame), NEW failed, ReturnTo(outer, failed),
         NEW b, Complete(b, outer, "readdir")
  PROVE  Complete(b, stack', at')
<1>1. SameFrames(stack', outer) /\ SameListed(stack', outer) /\ at' \in {"next", "readdir"}
  BY AfterReturn
<1> QED BY <1>1, CompleteSame

LEMMA NoticedOpenDir ==
  ASSUME Words, Places, Depths, Elsewhere, OpenDir, Outside(stack, target), Complete(before, stack, at)
  PROVE  Complete(before, stack', at')
<1> DEFINE b == before
           new == NamesIn(tree, Top.src)
           n == Len(stack)
<1>1. at = "opendir" /\ stack # <<>> /\ stack \in Seq(Frame)
  BY DEF OpenDir, Places, AtDir
<1>2. n \in DOMAIN stack /\ Top = stack[n] /\ n \in Nat /\ DOMAIN stack = 1 .. n
  BY <1>1, TopFacts
<1>3. NamesIn(b, Top.src) \subseteq new
  <2> SUFFICES ASSUME NEW c \in Children(b, Top.src) PROVE Last(c) \in new
    BY DEF NamesIn
  <2>1. c \in DOMAIN b /\ c \in Seq(Names) /\ c # <<>> /\ Front(c) = Top.src
    BY BeforeTree DEF Children
  <2>2. IsPrefix(Top.src, c)
    BY <2>1, ParentAbove
  <2>3. c \in DOMAIN tree
    BY <1>1, <1>2, <2>1, <2>2, SourcesKept
  <2> QED BY <2>1, <2>3 DEF NamesIn, Children
<1>4. CASE at' = "readdir" /\ stack' = [stack EXCEPT ![n].listed = new]
  <2>1. new \in SUBSET Names
    BY NamesInNames
  <2> DEFINE u == [stack EXCEPT ![n].listed = new]
  <2> HIDE DEF new, n, b
  <2>2. /\ SameFrames(u, stack) /\ u[n].listed = new
        /\ \A i \in DOMAIN stack : i # n => u[i] = stack[i]
    BY <1>1, <1>2, <2>1, Noted
  <2> HIDE DEF u
  <2>3. ASSUME NEW i \in DOMAIN u
        PROVE  NamesIn(b, u[i].src) \subseteq u[i].listed
    <3>1. i \in DOMAIN stack /\ u[i].src = stack[i].src
      BY <2>2 DEF SameFrames
    <3>2. CASE i = n
      BY <1>2, <1>3, <2>2, <3>1, <3>2
    <3>3. CASE i # n
      <4>1. i < Len(stack) /\ u[i] = stack[i]
        BY <1>2, <2>2, <3>1, <3>3 DEF n
      <4> QED BY <3>1, <4>1 DEF Complete, b
    <3> QED BY <3>2, <3>3
  <2> QED BY <1>4, <2>3 DEF Complete, u, b
<1>5. CASE ReturnTo(Front(stack), TRUE)
  <2>1. Front(stack) \in Seq(Frame)
    BY <1>1, TopFacts
  <2>2. Complete(b, Front(stack), "readdir")
    BY <1>1, CompleteFront
  <2> QED BY <1>5, <2>1, <2>2, NoticedReturn
<1> QED BY <1>4, <1>5, OpenDirStep

LEMMA NoticedNext ==
  ASSUME Words, Places, Table, Depths, Elsewhere, Noticed, Step
  PROVE  Noticed'
<1>1. before' = before /\ (Sound' => Sound)
  BY SoundSame
<1> SUFFICES ASSUME Sound, Outside(stack', target')
             PROVE  Complete(before, stack', at')
  BY <1>1 DEF Noticed
<1>2. stack' # <<>> /\ stack \in Seq(Frame)
  BY DEF Outside, Places
<1>3. CASE Start \/ NextArgument \/ ClearTarget \/ NoMore
  <2>1. stack' = stack /\ at \in AtIdle
    BY <1>3 DEF Start, NextArgument, ClearTarget, NoMore, AtIdle
  <2> QED BY <1>2, <2>1 DEF Table
<1>4. CASE CopyDirArgument
  <2>1. /\ stack = <<>> /\ szTarget \in Seq(Names) /\ arg.path \in Seq(Names)
        /\ stack' = stack \/ (at' = "mkdir" /\ stack' = <<NewFrame(szTarget, arg.path)>>)
    BY <1>4 DEF CopyDirArgument, Table, AtIdle, Words
  <2> DEFINE u == Append(<<>>, NewFrame(szTarget, arg.path))
  <2>2. at' = "mkdir" /\ stack' = u
    BY <1>2, <2>1
  <2>3. Complete(before, <<>>, "readdir")
    BY DEF Complete
  <2>4. <<>> \in Seq(Frame)
    BY EmptySeq
  <2>5. Complete(before, u, "mkdir")
    BY <2>1, <2>3, <2>4, CompletePushed
  <2> QED BY <2>2, <2>5
<1>5. CASE ~ CopyDirArgument /\ ~ (Start \/ NextArgument \/ ClearTarget \/ NoMore)
  <2>1. stack # <<>> /\ stack'[1].src = stack[1].src
    BY <1>2, <1>5, OutermostKept
  <2>2. target' = target
    BY <1>5, Lasting DEF Step, MakeDir, OpenDir, LeaveDir, CopyEntry, StatDest, OpenSource, OpenDest,
                         CopyChunk, CloseBoth, SetTime, Discard
  <2>3. Outside(stack, target) /\ Complete(before, stack, at)
    BY <2>1, <2>2 DEF Outside, Noticed
  <2> DEFINE there == at'
  <2>4. ASSUME stack' = stack, at \in {"mkdir", "opendir"} => there \in {"mkdir", "opendir"}
        PROVE  Complete(before, stack', at')
    BY <2>3, <2>4 DEF Complete
  <2>5. ASSUME at \in AtFile, NEW failed, ReturnTo(stack, failed)
        PROVE  Complete(before, stack', at')
    <3>1. SameFrames(stack, stack) /\ SameListed(stack, stack) /\ at \notin {"mkdir", "opendir"}
      BY <1>2, <2>5 DEF SameFrames, SameListed, AtFile
    <3>2. Complete(before, stack, "readdir")
      BY <2>3, <3>1, CompleteSame
    <3> QED BY <1>2, <2>5, <3>2, NoticedReturn
  <2>6. ASSUME NEW failed, ReturnTo(Front(stack), failed)
        PROVE  Complete(before, stack', at')
    <3>1. Front(stack) \in Seq(Frame)
      BY <1>2, <2>1, TopFacts
    <3>2. Complete(before, Front(stack), "readdir")
      BY <1>2, <2>1, <2>3, CompleteFront
    <3> QED BY <2>6, <3>1, <3>2, NoticedReturn
  <2>7. CASE MakeDir
    <3>1. (at' = "opendir" /\ stack' = stack) \/ ReturnTo(Front(stack), TRUE)
      BY <2>7 DEF MakeDir
    <3> QED BY <2>4, <2>6, <3>1
  <2>8. CASE OpenDir
    BY <2>3, <2>8, NoticedOpenDir
  <2>9. CASE LeaveDir
    BY <2>6, <2>9 DEF LeaveDir
  <2>10. CASE CopyEntry
    <3>1. PICK p \in Unread, st \in Seq(Frame) :
            /\ SameFrames(st, stack) /\ SameListed(st, stack)
            /\ \/ stack' = st /\ at' \in {"readdir", "stat"}
               \/ stack' = Append(st, NewFrame(Append(Top.dst, Last(p)), p)) /\ at' = "mkdir"
      BY <2>10, EntryStep
    <3>2. at \notin {"mkdir", "opendir"}
      BY <2>10 DEF CopyEntry
    <3>3. Complete(before, st, "readdir") /\ Complete(before, st, "stat")
      BY <2>3, <3>1, <3>2, CompleteSame
    <3>4. p \in Seq(Names) /\ p # <<>>
      BY DEF Unread, Children, Words
    <3>5. Append(Top.dst, Last(p)) \in Seq(Names)
      BY <2>10, <3>4, TopReached, FrontAndLast, AppendProperties DEF CopyEntry, AtDir
    <3>6. Complete(before, Append(st, NewFrame(Append(Top.dst, Last(p)), p)), "mkdir")
      BY <3>3, <3>4, <3>5, CompletePushed
    <3> QED BY <3>1, <3>3, <3>6
  <2>11. CASE StatDest \/ OpenSource
    <3>1. at \in AtFile /\ (stack' = stack \/ \E failed : ReturnTo(stack, failed))
      BY <2>11 DEF StatDest, OpenSource, Leave, AtFile
    <3>2. at \notin {"mkdir", "opendir"}
      BY <3>1 DEF AtFile
    <3> QED BY <2>4, <2>5, <3>1, <3>2
  <2>12. CASE OpenDest \/ SetTime \/ Discard
    <3>1. at \in AtFile /\ (stack' = stack \/ \E failed : ReturnTo(stack, failed))
      BY <2>12 DEF OpenDest, SetTime, Discard, Leave, AtFile
    <3>2. at \notin {"mkdir", "opendir"}
      BY <3>1 DEF AtFile
    <3> QED BY <2>4, <2>5, <3>1, <3>2
  <2>13. CASE CopyChunk \/ CloseBoth
    <3>1. at \in AtFile /\ stack' = stack
      BY <2>13 DEF CopyChunk, CloseBoth, AtFile
    <3> QED BY <2>4, <3>1 DEF AtFile
  <2> QED BY <1>5, <2>7, <2>8, <2>9, <2>10, <2>11, <2>12, <2>13 DEF Step
<1> QED BY <1>3, <1>4, <1>5

(* A step that goes on in the same call.                                     *)
LEMMA OnTrackSame ==
  ASSUME NEW b, NEW st, NEW here, NEW there, NEW c, NEW d, NEW D, NEW E, OnTrack(b, st, here, c, D),
         D \subseteq E, d.src = c.src, d.dst = c.dst, here # "mkdir", there # "mkdir",
         (here \in AtFile /\ there \in AtFile) \/ (here \notin AtFile /\ there \notin AtFile)
  PROVE  OnTrack(b, st, there, d, E)
<1>1. (here # "mkdir") = TRUE /\ (there # "mkdir") = TRUE
  OBVIOUS
<1>2. CASE here \in AtFile /\ there \in AtFile
  <2>1. Progress(b, st, {c.src}, TRUE, D) /\ FileOf(b, Last(st), c)
    BY <1>1, <1>2 DEF OnTrack
  <2>2. Progress(b, st, {d.src}, TRUE, E)
    BY <2>1, ProgressGrows
  <2>3. FileOf(b, Last(st), d)
    BY <2>1 DEF FileOf
  <2> QED BY <1>1, <1>2, <2>2, <2>3 DEF OnTrack
<1>3. CASE here \notin AtFile /\ there \notin AtFile
  <2>1. Progress(b, st, {}, TRUE, D)
    BY <1>1, <1>3 DEF OnTrack
  <2>2. Progress(b, st, {}, TRUE, E)
    BY <2>1, ProgressGrows
  <2> QED BY <1>1, <1>3, <2>2 DEF OnTrack
<1> QED BY <1>2, <1>3

(* A call that returns to a directory that is being copied.                  *)
LEMMA OnTrackReturn ==
  ASSUME NEW outer \in Seq(Frame), outer # <<>>, NEW failed \in BOOLEAN, ReturnTo(outer, failed),
         NEW b, NEW c, NEW D, Progress(b, outer, {c}, TRUE, D), NEW call,
         failed = TRUE \/ (Last(outer).dst \in D /\ Mirrored(b, c, Append(Last(outer).dst, Last(c)), D))
  PROVE  OnTrack(b, stack', at', call, D)
<1>1. stack' = [outer EXCEPT ![Len(outer)].errFlag = @ \/ failed] /\ at' = "readdir"
  BY DEF ReturnTo
<1>2. Progress(b, stack', {}, TRUE, D)
  BY <1>1, ProgressReturn
<1> DEFINE st == stack'
           place == at'
<1>3. place \notin AtFile /\ (place # "mkdir") = TRUE
  BY <1>1 DEF AtFile
<1> HIDE DEF st, place
<1>4. Progress(b, st, {}, TRUE, D)
  BY <1>2 DEF st
<1>5. OnTrack(b, st, place, call, D)
  BY <1>3, <1>4 DEF OnTrack
<1> QED BY <1>5 DEF st, place

(* The copy of a file ends.                                                  *)
LEMMA OnTrackFile ==
  ASSUME Places, stack # <<>>, at \in AtFile, NEW failed \in BOOLEAN, ReturnTo(stack, failed),
         NEW b, IsTree(b), DOMAIN b \subseteq Seq(Names), NEW D, OnTrack(b, stack, at, cf, D), NEW E, D \subseteq E,
         failed = TRUE \/ Front(cf.dst) \in E, NEW call
  PROVE  OnTrack(b, stack', at', call, E)
<1>1. (at # "mkdir") = TRUE
  BY DEF AtFile
<1>2. Progress(b, stack, {cf.src}, TRUE, D) /\ FileOf(b, Last(stack), cf)
  BY <1>1 DEF OnTrack
<1>3. Progress(b, stack, {cf.src}, TRUE, E)
  BY <1>2, ProgressGrows
<1>4. stack \in Seq(Frame) /\ cf.src \in Seq(Names) /\ cf.dst \in Seq(Names)
  BY DEF Places, CopyCall
<1>5. Front(cf.dst) = Last(stack).dst
  <2>1. Last(stack) \in Frame
    BY <1>4, TopFacts DEF Top
  <2>2. Last(stack).dst \in Seq(Names) /\ Last(cf.src) \in Names
    BY <1>2, <1>4, <2>1, FrontAndLast DEF FileOf, Frame
  <2> QED BY <1>2, <2>2, FrontOfAppend DEF FileOf
<1>6. Mirrored(b, cf.src, Append(Last(stack).dst, Last(cf.src)), E)
  BY <1>2, <1>4, MirroredFile DEF FileOf
<1> QED BY <1>3, <1>4, <1>5, <1>6, OnTrackReturn

(* The copy of a directory is given up.                                      *)
LEMMA OnTrackGivenUp ==
  ASSUME Places, stack # <<>>, Front(stack) # <<>>, ReturnTo(Front(stack), TRUE),
         NEW b, NEW busy, NEW made, NEW D, Progress(b, stack, busy, made, D), NEW E, D \subseteq E, NEW call
  PROVE  OnTrack(b, stack', at', call, E)
<1>1. stack \in Seq(Frame) /\ Front(stack) \in Seq(Frame)
  BY TopFacts DEF Places
<1>2. Progress(b, stack, busy, made, E)
  BY ProgressGrows
<1>3. Progress(b, Front(stack), {Last(stack).src}, TRUE, E)
  BY <1>1, <1>2, ProgressFront
<1> QED BY <1>1, <1>3, OnTrackReturn

(* A directory that was read to its end, and nothing went wrong: it is       *)
(* copied, with all that was below it when cp started.                       *)
LEMMA LeftComplete ==
  ASSUME Words, Places, Depths, Elsewhere, at = "readdir", Awaited = {}, Outside(stack, target),
         Complete(before, stack, at), NEW D, Progress(before, stack, {}, TRUE, D), Top.errFlag = FALSE
  PROVE  Mirrored(before, Top.src, Top.dst, D)
<1> DEFINE b == before
<1>1. IsTree(b) /\ DOMAIN b \subseteq Seq(Names)
  BY BeforeTree
<1>2. /\ stack \in Seq(Frame) /\ stack # <<>> /\ Top \in Frame /\ Top = Last(stack)
      /\ Top = stack[Len(stack)] /\ Len(stack) \in DOMAIN stack
  BY TopFacts DEF Places, AtDir, Top
<1>3. Top.src \in Seq(Names) /\ Top.dst \in Seq(Names)
  BY <1>2 DEF Frame
<1>4. FrameDone(b, Top, {}, D)
  BY <1>2, ProgressTop
<1> HIDE DEF b
<1>5. ASSUME NEW c \in Children(b, Top.src)
      PROVE  Top.dst \in D /\ Mirrored(b, c, Append(Top.dst, Last(c)), D)
  <2>1. c \in DOMAIN b /\ c \in Seq(Names) /\ c # <<>> /\ Front(c) = Top.src
    BY <1>1 DEF Children
  <2>2. IsPrefix(Top.src, c)
    BY <2>1, ParentAbove
  <2>3. c \in DOMAIN tree
    BY <1>2, <2>1, <2>2, SourcesKept DEF b
  <2>4. Last(c) \in Top.listed
    BY <1>2 DEF Complete, NamesIn, b
  <2>5. Last(c) \in Top.seen
    BY <2>1, <2>3, <2>4 DEF Awaited, Unread, Children
  <2> QED BY <1>4, <2>5 DEF FrameDone
<1>6. Mirrored(b, Top.src, Top.dst, D)
  BY <1>1, <1>3, <1>5, MirroredChildren
<1> QED BY <1>6 DEF b

LEMMA LeaveDirTracked ==
  ASSUME Words, Places, Depths, Elsewhere, Tracked, Noticed, LeaveDir, Sound, Outside(stack, target)
  PROVE  /\ Outside(stack', target') => OnTrack(before, stack', at', cf', Dirs(tree'))
         /\ Front(stack) = <<>> => err' \/ Mirrored(before, Top.src, Top.dst, Dirs(tree'))
<1> DEFINE D == Dirs(tree)
           b == before
<1>1. /\ at = "readdir" /\ tree' = tree /\ Awaited = {} /\ stack # <<>> /\ ReturnTo(Front(stack), FALSE \/ Top.errFlag)
  BY DEF LeaveDir, Sound, Places, AtDir
<1>2. OnTrack(b, stack, at, cf, D)
  BY DEF Tracked
<1>3. Progress(b, stack, {}, TRUE, D)
  <2>1. at \notin AtFile /\ (at # "mkdir") = TRUE
    BY <1>1 DEF AtFile
  <2> HIDE DEF D, b
  <2> QED BY <1>2, <2>1 DEF OnTrack
<1>4. /\ stack \in Seq(Frame) /\ Front(stack) \in Seq(Frame) /\ Top \in Frame /\ Top = Last(stack)
      /\ Top = stack[Len(stack)] /\ Len(stack) \in DOMAIN stack
  BY <1>1, TopFacts DEF Places, Top
<1>5. Top.errFlag \in BOOLEAN /\ Top.src \in Seq(Names) /\ Top.dst \in Seq(Names)
  BY <1>4 DEF Frame
<1>6. PICK failed \in BOOLEAN : failed = Top.errFlag /\ ReturnTo(Front(stack), failed)
  BY <1>1, <1>5
<1>7. failed = TRUE \/ Mirrored(b, Top.src, Top.dst, D)
  BY <1>1, <1>3, <1>5, <1>6, LeftComplete DEF Noticed
<1>8. CASE Front(stack) = <<>>
  <2>1. stack' = <<>> /\ (failed => err')
    BY <1>6, <1>8 DEF ReturnTo
  <2> QED BY <1>1, <1>7, <2>1 DEF Outside
<1>9. CASE Front(stack) # <<>>
  <2> DEFINE outer == Front(stack)
  <2>1. Progress(b, outer, {Top.src}, TRUE, D)
    BY <1>1, <1>3, <1>4, ProgressFront
  <2>2. Last(outer).dst \in D /\ Top.dst = Append(Last(outer).dst, Last(Top.src))
    <3> DEFINE k == Len(outer)
    <3>1. k \in DOMAIN stack /\ k + 1 = Len(stack) /\ Last(outer) = stack[k]
      <4>1. Len(stack) \in Nat /\ DOMAIN stack = 1 .. Len(stack)
        BY <1>4, LenProperties
      <4>2. Len(outer) = Len(stack) - 1 /\ \A i \in 1 .. Len(stack) - 1 : outer[i] = stack[i]
        BY <1>1, <1>4, FrontFacts
      <4>3. Len(outer) \in Nat /\ Len(outer) >= 1 /\ Last(outer) = outer[Len(outer)]
        BY <1>4, <1>9, NonEmpty DEF Last
      <4> QED BY <4>1, <4>2, <4>3
    <3> HIDE DEF k, outer, D
    <3>2. k + 1 \in DOMAIN stack /\ stack[k + 1] = Top
      BY <1>4, <3>1
    <3>3. stack[k].dst \in D
      BY <1>3, <3>1, <3>2 DEF Progress, Parents
    <3>4. stack[k + 1].dst = Append(stack[k].dst, Last(stack[k + 1].src))
      BY <1>3, <3>1, <3>2 DEF Progress, Chain
    <3> QED BY <3>1, <3>2, <3>3, <3>4
  <2>3. failed = TRUE \/ (Last(outer).dst \in D /\ Mirrored(b, Top.src, Append(Last(outer).dst, Last(Top.src)), D))
    BY <1>7, <2>2
  <2> HIDE DEF outer, D, b
  <2>4. OnTrack(b, stack', at', cf', D)
    BY <1>4, <1>6, <1>9, <2>1, <2>3, OnTrackReturn DEF outer
  <2> QED BY <1>1, <1>9, <2>4 DEF D, b
<1> QED BY <1>8, <1>9

LEMMA CopyEntryTracked ==
  ASSUME Words, Places, Depths, Elsewhere, Tracked, CopyEntry, Sound, Outside(stack, target)
  PROVE  OnTrack(before, stack', at', cf', Dirs(tree'))
<1> DEFINE D == Dirs(tree)
           b == before
           n == Len(stack)
           Dst(p) == Append(Top.dst, Last(p))
           st(p) == [stack EXCEPT ![n].seen = @ \cup {Last(p)}]
<1>1. at = "readdir" /\ tree' = tree /\ stack # <<>> /\ stack \in Seq(Frame) /\ overwrite = TRUE
  BY DEF CopyEntry, Sound, Places, AtDir
<1>2. Progress(b, stack, {}, TRUE, D)
  <2>1. at \notin AtFile /\ (at # "mkdir") = TRUE /\ OnTrack(b, stack, at, cf, D)
    BY <1>1 DEF AtFile, Tracked
  <2> HIDE DEF D, b
  <2> QED BY <2>1 DEF OnTrack
<1>3. PICK p \in Unread :
        \/ /\ stack' = [st(p) EXCEPT ![n].errFlag = TRUE] /\ at' = "readdir"
        \/ /\ stack' = Append(st(p), NewFrame(Dst(p), p)) /\ at' = "mkdir"
        \/ /\ stack' = st(p) /\ at' = "stat" /\ cf' = [dst |-> Dst(p), src |-> p, pos |-> 1]
           /\ ~ tree[p].dir
  BY <1>1 DEF CopyEntry, NewFrame
<1>4. Top = Last(stack) /\ Top = stack[n] /\ n \in DOMAIN stack
  BY <1>1, TopFacts DEF Top
<1>5. p \in Seq(Names) /\ p # <<>> /\ Front(p) = Top.src /\ Last(p) \in Names
  <2>1. p \in Seq(Names) /\ p # <<>> /\ Front(p) = Top.src
    BY DEF Unread, Children, Words
  <2> QED BY <2>1, FrontAndLast
<1>6. IsTree(b) /\ DOMAIN b \subseteq Seq(Names)
  BY BeforeTree
<1>7. ~ tree[p].dir => ~ IsDir(b, p)
  <2> SUFFICES ASSUME IsDir(b, p) PROVE tree[p].dir
    OBVIOUS
  <2>1. IsPrefix(Top.src, p)
    BY <1>5, ParentAbove
  <2> QED BY <1>1, <1>4, <2>1, SourcesKept DEF IsDir
<1> DEFINE s == st(p)
<1>8. SameFrames(s, stack)
  BY <1>1, <1>4, <1>5, Seen
<1>9. Progress(b, s, {p}, TRUE, D)
  <2> HIDE DEF b, D
  <2> QED BY <1>1, <1>2, <1>4, <1>5, <1>6, ProgressSeen
<1> HIDE DEF s
<1>10. /\ s \in Seq(Frame) /\ s # <<>> /\ Len(s) = n /\ Last(s) = s[n]
       /\ Last(s).src = Top.src /\ Last(s).dst = Top.dst
  <2>1. s \in Seq(Frame) /\ Len(s) = n /\ s[n].src = Top.src /\ s[n].dst = Top.dst /\ n \in DOMAIN s
    BY <1>4, <1>8 DEF SameFrames
  <2>2. s # <<>>
    BY <2>1, EmptySeq
  <2> QED BY <2>1, <2>2 DEF Last
<1>11. CASE stack' = [s EXCEPT ![n].errFlag = TRUE] /\ at' = "readdir"
  <2>1. Progress(b, [s EXCEPT ![n].errFlag = TRUE], {}, TRUE, D)
    BY <1>9, <1>10, ProgressFlagged
  <2> DEFINE u == [s EXCEPT ![n].errFlag = TRUE]
  <2> HIDE DEF u, D, b
  <2>2. "readdir" \notin AtFile /\ ("readdir" # "mkdir") = TRUE
    BY DEF AtFile
  <2>3. \A c : OnTrack(b, u, "readdir", c, D)
    BY <2>1, <2>2 DEF OnTrack, u
  <2> QED BY <1>1, <1>11, <2>3 DEF u, D, b
<1>12. CASE stack' = Append(s, NewFrame(Dst(p), p)) /\ at' = "mkdir"
  <2>1. Progress(b, Append(s, NewFrame(Append(Last(s).dst, Last(p)), p)), {}, FALSE, D)
    BY <1>5, <1>9, <1>10, ProgressPushed
  <2> DEFINE u == Append(s, NewFrame(Dst(p), p))
  <2>2. Progress(b, u, {}, FALSE, D)
    BY <1>10, <2>1
  <2> HIDE DEF u, D, b
  <2>3. "mkdir" \notin AtFile /\ ("mkdir" # "mkdir") = FALSE
    BY DEF AtFile
  <2>4. \A c : OnTrack(b, u, "mkdir", c, D)
    BY <2>2, <2>3 DEF OnTrack
  <2> QED BY <1>1, <1>12, <2>4 DEF u, D, b
<1>13. CASE stack' = s /\ at' = "stat" /\ cf' = [dst |-> Dst(p), src |-> p, pos |-> 1] /\ ~ tree[p].dir
  <2> DEFINE c == [dst |-> Dst(p), src |-> p, pos |-> 1]
  <2>1. c.src = p /\ c.dst = Append(Last(s).dst, Last(p))
    BY <1>10
  <2> HIDE DEF c, D, b
  <2>2. FileOf(b, Last(s), c)
    BY <1>5, <1>7, <1>10, <1>13, <2>1 DEF FileOf
  <2>3. "stat" \in AtFile /\ ("stat" # "mkdir") = TRUE
    BY DEF AtFile
  <2>4. OnTrack(b, s, "stat", c, D)
    BY <1>9, <2>1, <2>2, <2>3 DEF OnTrack
  <2> QED BY <1>1, <1>13, <2>4 DEF c, D, b
<1> QED BY <1>3, <1>11, <1>12, <1>13 DEF s

LEMMA MakeDirTracked ==
  ASSUME Words, Places, Grown, Tracked, MakeDir, Sound, Outside(stack, target), Outside(stack', target'),
         Dirs(tree) \subseteq Dirs(tree')
  PROVE  OnTrack(before, stack', at', cf', Dirs(tree'))
<1> DEFINE D == Dirs(tree)
           E == Dirs(tree')
           b == before
<1>1. at = "mkdir" /\ stack # <<>> /\ stack \in Seq(Frame)
  BY DEF MakeDir, Places, AtDir
<1>2. Progress(b, stack, {}, FALSE, D)
  <2>1. at \notin AtFile /\ (at # "mkdir") = FALSE /\ OnTrack(b, stack, at, cf, D)
    BY <1>1 DEF AtFile, Tracked
  <2> HIDE DEF D, b
  <2> QED BY <2>1 DEF OnTrack
<1>3. PICK o \in Mkdir(tree, Top.dst, failing) :
        /\ tree' = o.tree
        /\ IF o.res \in {"FR_OK", "FR_EXIST"} THEN at' = "opendir" /\ stack' = stack
           ELSE ReturnTo(Front(stack), TRUE)
  BY DEF MakeDir
<1>4. Top \in Frame /\ Top = Last(stack) /\ Front(stack) \in Seq(Frame)
  BY <1>1, TopFacts DEF Top
<1>5. Progress(b, stack, {}, FALSE, E)
  <2> HIDE DEF D, E, b
  <2> QED BY <1>2, ProgressGrows DEF D, E
<1>6. CASE at' = "opendir" /\ stack' = stack /\ o.res \in {"FR_OK", "FR_EXIST"}
  <2>1. Front(Top.dst) \in D
    <3>1. Top.dst \in Seq(Names) /\ IsTree(tree) /\ DOMAIN tree \subseteq Seq(Names)
      BY <1>4 DEF Frame, Words, Grown
    <3>2. Top.dst \in DOMAIN tree \/ IsDir(tree, Front(Top.dst))
      BY <1>6 DEF Mkdir, MkdirResult, FollowPath, Sound
    <3>3. CASE IsDir(tree, Front(Top.dst))
      BY <3>3 DEF IsDir, Dirs
    <3>4. CASE Top.dst \in DOMAIN tree /\ Top.dst # <<>>
      BY <3>1, <3>4, ParentIsDir
    <3>5. CASE Top.dst = <<>>
      <4>1. Front(<<>>) = <<>>
        BY DEF Front
      <4> QED BY <3>1, <3>5, <4>1 DEF IsTree, IsDir, Dirs
    <3> QED BY <3>2, <3>3, <3>4, <3>5
  <2>2. Front(Last(stack).dst) \in E
    BY <1>4, <2>1
  <2> HIDE DEF D, E, b
  <2>3. Progress(b, stack, {}, TRUE, E)
    BY <1>1, <1>5, <2>2, ProgressMade
  <2>4. "opendir" \notin AtFile /\ ("opendir" # "mkdir") = TRUE
    BY DEF AtFile
  <2>5. \A c : OnTrack(b, stack, "opendir", c, E)
    BY <2>3, <2>4 DEF OnTrack
  <2> QED BY <1>6, <2>5 DEF E, b
<1>7. CASE ReturnTo(Front(stack), TRUE)
  <2>1. Front(stack) # <<>>
    BY <1>7 DEF ReturnTo, Outside
  <2> HIDE DEF D, E, b
  <2>2. OnTrack(b, stack', at', cf', E)
    BY <1>1, <1>5, <1>7, <2>1, OnTrackGivenUp
  <2> QED BY <2>2 DEF E, b
<1> QED BY <1>3, <1>6, <1>7

LEMMA TrackedNext ==
  ASSUME Words, Places, Table, Grown, Depths, Elsewhere, FileMade, Tracked, Noticed, Step
  PROVE  Tracked'
<1>1. before' = before /\ (Sound' => Sound)
  BY SoundSame
<1> SUFFICES ASSUME Sound, Outside(stack', target')
             PROVE  OnTrack(before, stack', at', cf', Dirs(tree'))
  BY <1>1 DEF Tracked
<1> DEFINE D == Dirs(tree)
           E == Dirs(tree')
           b == before
<1>2. stack' # <<>> /\ IsTree(b) /\ DOMAIN b \subseteq Seq(Names)
  BY BeforeTree DEF Outside
<1>3. CASE Start \/ NextArgument \/ ClearTarget \/ NoMore
  <2>1. stack' = stack /\ at \in AtIdle
    BY <1>3 DEF Start, NextArgument, ClearTarget, NoMore, AtIdle
  <2> QED BY <1>2, <2>1 DEF Table
<1>4. CASE CopyDirArgument
  <2>1. stack' = stack \/ (at' = "mkdir" /\ stack' = <<NewFrame(szTarget, arg.path)>>)
    BY <1>4 DEF CopyDirArgument, NewFrame
  <2>2. at = "contains"
    BY <1>4 DEF CopyDirArgument
  <2>3. stack = <<>>
    BY <2>2 DEF Table, AtIdle
  <2> DEFINE u == <<NewFrame(szTarget, arg.path)>>
  <2>4. Progress(b, u, {}, FALSE, E)
    BY ProgressOne
  <2> HIDE DEF u, b, E
  <2>5. "mkdir" \notin AtFile /\ ("mkdir" # "mkdir") = FALSE
    BY DEF AtFile
  <2>6. \A c : OnTrack(b, u, "mkdir", c, E)
    BY <2>4, <2>5 DEF OnTrack
  <2> QED BY <1>2, <2>1, <2>3, <2>6 DEF u, b, E
<1>5. CASE ~ CopyDirArgument /\ ~ (Start \/ NextArgument \/ ClearTarget \/ NoMore)
  <2>1. stack # <<>> /\ stack'[1].src = stack[1].src
    BY <1>2, <1>5, OutermostKept
  <2>2. target' = target
    BY <1>5, Lasting DEF Step, MakeDir, OpenDir, LeaveDir, CopyEntry, StatDest, OpenSource, OpenDest,
                         CopyChunk, CloseBoth, SetTime, Discard
  <2>3. Outside(stack, target)
    BY <2>1, <2>2 DEF Outside
  <2>4. D \subseteq E
    BY <1>5, DirsStay DEF Sound
  <2>5. OnTrack(b, stack, at, cf, D)
    BY <2>3 DEF Tracked
  <2>6. cf \in CopyCall /\ stack \in Seq(Frame)
    BY DEF Places
  <2> SUFFICES OnTrack(b, stack', at', cf', E)
    OBVIOUS
  <2> HIDE DEF b, D, E
  <2>7. ASSUME stack' = stack, cf'.src = cf.src, cf'.dst = cf.dst,
               at \in AtFile, at' \in AtFile
        PROVE  OnTrack(b, stack', at', cf', E)
    <3>1. /\ at # "mkdir" /\ at' # "mkdir"
          /\ (at \in AtFile /\ at' \in AtFile) \/ (at \notin AtFile /\ at' \notin AtFile)
      BY <2>7 DEF AtFile
    <3> DEFINE there == at'
               call == cf'
    <3>2. /\ call.src = cf.src /\ call.dst = cf.dst /\ there # "mkdir"
          /\ (at \in AtFile /\ there \in AtFile) \/ (at \notin AtFile /\ there \notin AtFile)
      BY <2>7, <3>1
    <3> HIDE DEF there, call
    <3>3. OnTrack(b, stack, there, call, E)
      BY <2>4, <2>5, <3>1, <3>2, OnTrackSame
    <3> QED BY <2>7, <3>3 DEF there, call
  <2>8. ASSUME at \in AtFile, NEW failed \in BOOLEAN, ReturnTo(stack, failed),
               failed = TRUE \/ Front(cf.dst) \in E
        PROVE  OnTrack(b, stack', at', cf', E)
    <3> DEFINE call == cf'
    <3> HIDE DEF call
    <3>1. OnTrack(b, stack', at', call, E)
      BY <1>2, <2>1, <2>4, <2>5, <2>8, OnTrackFile DEF b
    <3> QED BY <3>1 DEF call
  <2>9. CASE MakeDir
    BY <2>3, <2>4, <2>9, MakeDirTracked DEF b, D, E
  <2>10. CASE OpenDir
    <3> DEFINE new == NamesIn(tree, Top.src)
               n == Len(stack)
               u == [stack EXCEPT ![n].listed = new]
    <3>1. /\ at = "opendir" /\ cf' = cf
          /\ (at' = "readdir" /\ stack' = u) \/ ReturnTo(Front(stack), TRUE)
      BY <2>10 DEF OpenDir
    <3>2. CASE at' = "readdir" /\ stack' = u
      <4>1. /\ n \in DOMAIN stack /\ Top = stack[n] /\ Top = Last(stack)
            /\ new \in SUBSET Names
        BY <2>1, <2>6, TopFacts, NamesInNames DEF Top
      <4>2. (at # "mkdir") = TRUE /\ at \notin AtFile
        BY <3>1 DEF AtFile
      <4>3. Progress(b, stack, {}, TRUE, D)
        BY <2>5, <4>2 DEF OnTrack
      <4>4. Progress(b, stack, {}, TRUE, E)
        BY <2>4, <4>3, ProgressGrows
      <4> HIDE DEF new, n
      <4>5. /\ SameFrames(u, stack) /\ u[n].seen = stack[n].seen /\ u[n].errFlag = stack[n].errFlag
            /\ \A i \in DOMAIN stack : i # n => u[i] = stack[i]
        BY <2>6, <4>1, Noted
      <4> HIDE DEF u
      <4>6. FrameDone(b, stack[n], {}, E)
        BY <2>1, <2>6, <4>1, <4>4, ProgressTop
      <4>7. FrameDone(b, u[n], {}, E)
        BY <4>1, <4>5, <4>6 DEF FrameDone, SameFrames
      <4>8. Progress(b, u, {}, TRUE, E)
        BY <2>1, <2>6, <4>4, <4>5, <4>7, ProgressReplaced DEF n
      <4> DEFINE there == at'
                 call == cf'
      <4>9. there \notin AtFile /\ (there # "mkdir") = TRUE
        BY <3>2 DEF AtFile
      <4> HIDE DEF there, call
      <4>10. OnTrack(b, u, there, call, E)
        BY <4>8, <4>9 DEF OnTrack
      <4> QED BY <3>2, <4>10 DEF there, call
    <3>3. CASE ReturnTo(Front(stack), TRUE)
      <4>1. Front(stack) # <<>>
        BY <1>2, <3>3 DEF ReturnTo
      <4>2. PICK busy, made : Progress(b, stack, busy, made, D)
        BY <2>5 DEF OnTrack
      <4> DEFINE call == cf'
      <4> HIDE DEF call
      <4>3. OnTrack(b, stack', at', call, E)
        BY <2>1, <2>4, <3>3, <4>1, <4>2, OnTrackGivenUp
      <4> QED BY <4>3 DEF call
    <3> QED BY <3>1, <3>2, <3>3
  <2>11. CASE LeaveDir
    BY <2>3, <2>11, LeaveDirTracked DEF b, E
  <2>12. CASE CopyEntry
    BY <2>3, <2>12, CopyEntryTracked DEF b, E
  <2>13. CASE StatDest
    <3>1. /\ at \in AtFile /\ cf' = cf
          /\ (at' = "source" /\ stack' = stack) \/ ReturnTo(stack, TRUE)
      BY <2>13 DEF StatDest, Leave, AtFile, Sound
    <3>2. "source" \in AtFile
      BY DEF AtFile
    <3> QED BY <2>7, <2>8, <3>1, <3>2
  <2>14. CASE OpenSource
    <3>1. /\ at \in AtFile /\ cf' = cf
          /\ (at' = "dest" /\ stack' = stack) \/ ReturnTo(stack, TRUE)
      BY <2>14 DEF OpenSource, Leave, AtFile
    <3>2. "dest" \in AtFile
      BY DEF AtFile
    <3> QED BY <2>7, <2>8, <3>1, <3>2
  <2>15. CASE OpenDest
    <3>1. /\ at \in AtFile /\ cf' = cf
          /\ (at' = "copy" /\ stack' = stack) \/ ReturnTo(stack, TRUE)
      BY <2>15 DEF OpenDest, Leave, AtFile
    <3>2. "copy" \in AtFile
      BY DEF AtFile
    <3> QED BY <2>7, <2>8, <3>1, <3>2
  <2>16. CASE CopyChunk \/ CloseBoth
    <3>1. cf'.src = cf.src /\ cf'.dst = cf.dst
      BY <2>6, <2>16, SameCopy DEF CopyChunk, CloseBoth, NextArgument, CopyEntry
    <3>2. stack' = stack /\ at \in AtFile /\ at' \in AtFile
      BY <2>16 DEF CopyChunk, CloseBoth, AtFile
    <3> QED BY <2>7, <3>1, <3>2
  <2>17. CASE SetTime
    <3>1. PICK failed \in BOOLEAN : ReturnTo(stack, failed)
      BY <2>17 DEF SetTime, Leave
    <3>2. at = "restat" /\ at \in AtFile
      BY <2>17 DEF SetTime, AtFile
    <3>3. Front(cf.dst) \in E
      BY <2>4, <3>2 DEF FileMade, D
    <3> QED BY <2>8, <3>1, <3>2, <3>3
  <2>18. CASE Discard
    BY <2>18 DEF Discard, FileMade, Sound
  <2> QED BY <1>5, <2>9, <2>10, <2>11, <2>12, <2>13, <2>14, <2>15, <2>16, <2>17, <2>18 DEF Step, b, E
<1> QED BY <1>3, <1>4, <1>5

-----------------------------------------------------------------------------
(* A directory that is named and that no goal is above is still to come,     *)
(* being copied, or copied; or something has gone wrong.                     *)
SettledFor(wanted, goals, b, e, er, hand, sure) ==
  \A p \in wanted : er \/ p \in Awaits(e) \/ p \in hand \/ \E g \in goals : Mirrored(b, p, g, sure)

Hand == (IF at \in {"clear", "contains"} THEN {arg.path} ELSE {})
        \cup (IF stack = <<>> THEN {} ELSE {stack[1].src})

(* The directory that is about to be made at a goal, unless something is     *)
(* there: what was copied over it before is in it as it was in the other.    *)
Coming == IF at = "contains" THEN {szTarget}
          ELSE IF at = "mkdir" /\ Len(stack) = 1 THEN {stack[1].dst} ELSE {}
Sure == Dirs(tree) \cup (Coming \ DOMAIN tree)

(* The entries of a listing that are wanted are listed as directories.       *)
ListedAsDirs(e, wanted) == \A x \in e.listing : x.path \in wanted => x.kind = "dir"

AtGoal == stack # <<>> => stack[1].dst \in Goals
Ended == at = "exit" => err \/ Done(enum)
Settled ==
  Sound => /\ at = "start" => Wanted \subseteq Awaits(enum)
           /\ SettledFor(Wanted, Goals, before, enum, err, Hand, Sure)
           /\ ListedAsDirs(enum, Wanted)

LEMMA SettledOn ==
  ASSUME NEW W, NEW G, NEW b, NEW e, NEW er, NEW hand, NEW sure, SettledFor(W, G, b, e, er, hand, sure),
         NEW er2, ~ er \/ er2, NEW sure2, er2 \/ sure \subseteq sure2, NEW hand2,
         \A p \in hand \cap W : er2 \/ p \in hand2 \/ \E g \in G : Mirrored(b, p, g, sure2)
  PROVE  SettledFor(W, G, b, e, er2, hand2, sure2)
<1> SUFFICES ASSUME ~ er2, NEW p \in W
             PROVE  p \in Awaits(e) \/ p \in hand2 \/ \E g \in G : Mirrored(b, p, g, sure2)
  BY DEF SettledFor
<1>1. p \in Awaits(e) \/ p \in hand \/ \E g \in G : Mirrored(b, p, g, sure)
  BY DEF SettledFor
<1>2. CASE \E g \in G : Mirrored(b, p, g, sure)
  BY <1>2, MirroredGrows
<1> QED BY <1>1, <1>2

LEMMA WantedSame ==
  ASSUME Step
  PROVE  Wanted' = Wanted /\ Goals' = Goals
<1>1. cmd' = cmd /\ before' = before
  BY Lasting
<1>2. Named' = Named /\ Goals' = Goals
  BY <1>1, SameLine
<1> QED BY <1>1, <1>2 DEF Wanted

LEMMA AtGoalNext ==
  ASSUME Words, Places, Table, AtGoal, Step
  PROVE  AtGoal'
<1>1. Goals' = Goals
  BY WantedSame
<1>2. CASE CopyDirArgument
  <2>1. stack' = stack \/ stack' = <<NewFrame(szTarget, arg.path)>>
    BY <1>2 DEF CopyDirArgument, NewFrame
  <2>2. szTarget \in Goals
    BY <1>2 DEF CopyDirArgument, Words
  <2> DEFINE u == <<NewFrame(szTarget, arg.path)>>
  <2>3. u[1].dst = szTarget
    BY DEF NewFrame
  <2> HIDE DEF u
  <2> QED BY <1>1, <2>1, <2>2, <2>3 DEF AtGoal, u
<1>3. CASE ~ CopyDirArgument
  BY <1>1, <1>3, OutermostKept DEF AtGoal
<1> QED BY <1>2, <1>3

LEMMA EndedNext ==
  ASSUME Step
  PROVE  Ended'
<1>1. ASSUME NEW outer, NEW failed, ReturnTo(outer, failed)
      PROVE  at' # "exit"
  BY <1>1 DEF ReturnTo
<1>2. CASE Start
  BY <1>2 DEF Start, Ended
<1>3. CASE NoMore
  BY <1>3 DEF NoMore, Ended
<1>4. CASE NextArgument \/ ClearTarget \/ CopyDirArgument \/ CopyEntry \/ CopyChunk \/ CloseBoth
  BY <1>4 DEF NextArgument, ClearTarget, CopyDirArgument, CopyEntry, CopyChunk, CloseBoth, Ended
<1>5. CASE MakeDir \/ OpenDir \/ LeaveDir
  BY <1>1, <1>5 DEF MakeDir, OpenDir, LeaveDir, Ended
<1>6. CASE StatDest \/ OpenSource \/ OpenDest \/ SetTime \/ Discard
  BY <1>1, <1>6 DEF StatDest, OpenSource, OpenDest, SetTime, Discard, Leave, Ended
<1> QED BY <1>2, <1>3, <1>4, <1>5, <1>6 DEF Step

LEMMA ErrorStays ==
  ASSUME Step, ~ Start
  PROVE  ~ err \/ err'
<1>1. ASSUME NEW outer, NEW failed, ReturnTo(outer, failed)
      PROVE  ~ err \/ err'
  BY <1>1 DEF ReturnTo
<1>2. CASE NextArgument \/ ClearTarget \/ CopyDirArgument \/ NoMore \/ CopyEntry \/ CopyChunk \/ CloseBoth
  BY <1>2 DEF NextArgument, ClearTarget, CopyDirArgument, NoMore, CopyEntry, CopyChunk, CloseBoth
<1>3. CASE MakeDir \/ OpenDir \/ LeaveDir
  BY <1>1, <1>3 DEF MakeDir, OpenDir, LeaveDir
<1>4. CASE StatDest \/ OpenSource \/ OpenDest \/ SetTime \/ Discard
  BY <1>1, <1>4 DEF StatDest, OpenSource, OpenDest, SetTime, Discard, Leave
<1> QED BY <1>2, <1>3, <1>4 DEF Step

(* The directories that are there or about to be.                            *)
LEMMA SureNext ==
  ASSUME Words, Places, Grown, FileMade, Sound, Step
  PROVE  err' \/ Sure \subseteq Sure'
<1>1. \A q \in Dirs(tree) : q \in Dirs(tree') \/ (ClearTarget /\ q = szTarget /\ q \notin DOMAIN tree')
  BY DirsStay DEF Sound
<1>2. CASE ClearTarget
  <2>1. at = "clear" /\ at' = "contains" /\ szTarget' = szTarget
    BY <1>2 DEF ClearTarget
  <2> QED BY <1>1, <2>1 DEF Sure, Coming
<1>3. CASE CopyDirArgument
  <2>1. /\ at = "contains" /\ tree' = tree
        /\ \/ err' = TRUE
           \/ at' = "mkdir" /\ stack' = <<NewFrame(szTarget, arg.path)>>
    BY <1>3 DEF CopyDirArgument, NewFrame
  <2> DEFINE u == <<NewFrame(szTarget, arg.path)>>
  <2>2. Len(u) = 1 /\ u[1].dst = szTarget
    BY DEF NewFrame
  <2> HIDE DEF u
  <2>3. CASE at' = "mkdir" /\ stack' = u
    BY <2>1, <2>2, <2>3 DEF Sure, Coming
  <2> QED BY <2>1, <2>3 DEF u
<1>4. CASE MakeDir
  <2>1. at = "mkdir" /\ Dirs(tree) \subseteq Dirs(tree')
    BY <1>1, <1>4 DEF MakeDir, ClearTarget
  <2>2. CASE Len(stack) # 1
    BY <2>1, <2>2 DEF Sure, Coming
  <2>3. CASE Len(stack) = 1
    <3>1. PICK o \in Mkdir(tree, Top.dst, failing) :
            /\ tree' = o.tree
            /\ o.res \in {"FR_OK", "FR_EXIST"} \/ ReturnTo(Front(stack), TRUE)
      BY <1>4 DEF MakeDir
    <3>2. stack # <<>> /\ Top = stack[1] /\ stack \in Seq(Frame)
      BY <2>1, <2>3, TopFacts DEF Places, AtDir
    <3>3. CASE ReturnTo(Front(stack), TRUE)
      <4>1. Front(stack) = <<>>
        <5>1. Front(stack) \in Seq(Frame) /\ Len(Front(stack)) = 0
          BY <2>3, <3>2, FrontFacts
        <5> QED BY <5>1, EmptySeq
      <4> QED BY <3>3, <4>1 DEF ReturnTo
    <3>4. CASE o.res \in {"FR_OK", "FR_EXIST"}
      <4>1. \/ Top.dst \in DOMAIN tree
            \/ o.tree = With(tree, Top.dst, DirNode)
        BY <3>4 DEF Mkdir, MkdirResult, FollowPath, Sound
      <4>2. Top.dst \in DOMAIN tree \/ Top.dst \in Dirs(tree')
        BY <3>1, <4>1 DEF With, DirNode, Dirs
      <4> QED BY <2>1, <2>3, <3>2, <4>2 DEF Sure, Coming
    <3> QED BY <3>1, <3>3, <3>4
  <2> QED BY <2>2, <2>3
<1>5. CASE ~ ClearTarget /\ ~ CopyDirArgument /\ ~ MakeDir
  <2>1. at \notin {"contains", "mkdir"}
    BY <1>5 DEF Step, Start, NextArgument, NoMore, OpenDir, LeaveDir, CopyEntry, StatDest, OpenSource,
                OpenDest, CopyChunk, CloseBoth, SetTime, Discard
  <2> QED BY <1>1, <1>5, <2>1 DEF Sure, Coming
<1> QED BY <1>2, <1>3, <1>4, <1>5

(* A directory in hand stays in hand until it is copied.                     *)
LEMMA HandNext ==
  ASSUME Words, Places, Table, Depths, Elsewhere, AtGoal, Tracked, Noticed, Sound, Step, ~ Start, ~ NextArgument,
         NEW p \in Hand, p \in Wanted
  PROVE  err' \/ p \in Hand' \/ \E g \in Goals : Mirrored(before, p, g, Sure')
<1>0. stack \in Seq(Frame) /\ (at \in {"clear", "contains"} => stack = <<>>)
  BY DEF Places, Table, AtIdle
<1>1. CASE ClearTarget
  BY <1>0, <1>1 DEF ClearTarget, Hand
<1>2. CASE CopyDirArgument
  <2>1. /\ at = "contains" /\ p = arg.path
        /\ \/ err' = TRUE
           \/ stack' = <<NewFrame(szTarget, arg.path)>>
    BY <1>0, <1>2 DEF CopyDirArgument, NewFrame, Hand
  <2> DEFINE u == <<NewFrame(szTarget, arg.path)>>
  <2>2. u # <<>> /\ u[1].src = arg.path
    BY DEF NewFrame
  <2> HIDE DEF u
  <2>3. CASE stack' = u
    BY <2>1, <2>2, <2>3 DEF Hand
  <2> QED BY <2>1, <2>3 DEF u
<1>3. CASE ~ ClearTarget /\ ~ CopyDirArgument
  <2>1. at \notin {"clear", "contains"}
    BY <1>3 DEF Step, Start, NextArgument, NoMore, MakeDir, OpenDir, LeaveDir, CopyEntry, StatDest, OpenSource,
                OpenDest, CopyChunk, CloseBoth, SetTime, Discard
  <2>2. stack # <<>> /\ p = stack[1].src
    BY <2>1 DEF Hand
  <2>3. CASE stack' # <<>>
    <3>1. stack'[1].src = stack[1].src
      BY <1>3, <2>3, OutermostKept
    <3> QED BY <2>2, <2>3, <3>1 DEF Hand
  <2>4. CASE stack' = <<>>
    <3>1. ASSUME NEW outer \in Seq(Frame), NEW failed, ReturnTo(outer, failed)
          PROVE  outer = <<>> /\ (failed = TRUE => err')
      <4>1. SameFrames(stack', outer)
        BY <3>1, AfterReturn
      <4>2. outer = <<>>
        BY <2>4, <3>1, <4>1, EmptySeq, NonEmpty DEF SameFrames
      <4> QED BY <3>1, <4>2 DEF ReturnTo
    <3>2. Front(stack) \in Seq(Frame)
      BY <1>0, <2>2, FrontFacts
    <3>3. CASE MakeDir \/ OpenDir
      <4>1. stack' = stack \/ stack' # <<>> \/ ReturnTo(Front(stack), TRUE)
        BY <3>3, OpenDirStep DEF MakeDir
      <4> QED BY <2>2, <2>4, <3>1, <3>2, <4>1
    <3>4. CASE LeaveDir
      <4>1. PICK failed : ReturnTo(Front(stack), failed)
        BY <3>4 DEF LeaveDir
      <4>2. Front(stack) = <<>>
        BY <3>1, <3>2, <4>1
      <4>3. Top = stack[1]
        <5>1. Len(Front(stack)) = Len(stack) - 1 /\ Len(stack) \in Nat
          BY <1>0, <2>2, FrontFacts, NonEmpty
        <5>2. Len(stack) = 1
          BY <4>2, <5>1, EmptySeq
        <5> QED BY <5>2 DEF Top, Last
      <4>4. at = "readdir" /\ target \in NamedBy(<<cmd.target>>)
        BY <3>4 DEF LeaveDir, Words
      <4>5. target \in Goals
        BY <4>4 DEF Goals
      <4>6. Outside(stack, target)
        BY <2>2, <4>5 DEF Outside, Wanted
      <4>7. err' \/ Mirrored(before, Top.src, Top.dst, Dirs(tree'))
        BY <3>4, <4>2, <4>6, LeaveDirTracked
      <4>8. Dirs(tree') \subseteq Sure'
        BY DEF Sure
      <4>9. err' \/ Mirrored(before, p, stack[1].dst, Sure')
        BY <2>2, <4>3, <4>7, <4>8, MirroredGrows
      <4> QED BY <2>2, <4>9 DEF AtGoal
    <3>5. ASSUME NEW failed, ReturnTo(stack, failed) PROVE FALSE
      BY <1>0, <2>2, <3>1, <3>5
    <3>6. CASE CopyEntry
      <4>1. PICK q \in Unread, st \in Seq(Frame) :
              /\ SameFrames(st, stack)
              /\ stack' = st \/ stack' = Append(st, NewFrame(Append(Top.dst, Last(q)), q))
        BY <3>6, EntryStep
      <4>2. st # <<>>
        BY <1>0, <2>2, <4>1, EmptySeq, NonEmpty DEF SameFrames
      <4>3. stack' # <<>>
        BY <4>1, <4>2
      <4> QED BY <2>4, <4>3
    <3>7. CASE StatDest \/ OpenSource
      BY <2>2, <2>4, <3>5, <3>7 DEF StatDest, OpenSource, Leave
    <3>8. CASE OpenDest \/ SetTime \/ Discard
      BY <2>2, <2>4, <3>5, <3>8 DEF OpenDest, SetTime, Discard, Leave
    <3>9. CASE NoMore \/ CopyChunk \/ CloseBoth
      BY <2>2, <2>4, <3>9 DEF NoMore, CopyChunk, CloseBoth
    <3> QED BY <1>3, <3>3, <3>4, <3>6, <3>7, <3>8, <3>9 DEF Step
  <2> QED BY <2>3, <2>4
<1> QED BY <1>1, <1>2, <1>3

LEMMA NextArgWanted ==
  ASSUME NEW ns, NEW words, NEW paths, NEW e, From(e, ns, words, paths),
         e.todo # <<>> \/ e.listing # {}, NEW t, NEW W, \A p \in W : IsDir(t, p), ListedAsDirs(e, W),
         NEW f, NEW faulty, NEW a \in NextArg(t, f, e, faulty)
  PROVE  ListedAsDirs(a.enum, W) /\ (a.path \in W => a.kind \in {"none", "dir"})
<1> DEFINE K == {x \in e.listing \cup {[path |-> p, kind |-> Kind(t, p)] : p \in DOMAIN t} :
                   x.path \in W => x.kind = "dir"}
<1>1. e.listing \subseteq K
  BY DEF ListedAsDirs
<1>2. \A p \in DOMAIN t : [path |-> p, kind |-> Kind(t, p)] \in K
  BY DEF IsDir, Kind
<1>3. \A x \in K : x.path \in W => x.kind = "dir"
  OBVIOUS
<1> HIDE DEF K
<1>4. a.enum.listing \subseteq K /\ (a.kind = "none" \/ [path |-> a.path, kind |-> a.kind] \in K)
  BY <1>1, <1>2, NextArgListed
<1> QED BY <1>3, <1>4 DEF ListedAsDirs

(* The directories that are wanted are as they were when cp started.         *)
LEMMA WantedStay ==
  ASSUME Words, Elsewhere, at \notin {"start", "exit"}, NEW p \in Wanted
  PROVE  IsDir(tree, p)
<1>1. p \in DOMAIN before /\ before[p].dir /\ \A g \in Goals : ~ IsPrefix(g, p)
  BY DEF Wanted, Dirs
<1>2. target \in Goals
  <2>1. target \in NamedBy(<<cmd.target>>)
    BY DEF Words
  <2> QED BY <2>1 DEF Goals
<1>3. p \in DOMAIN tree /\ tree[p] = before[p]
  BY <1>1, <1>2 DEF Elsewhere
<1> QED BY <1>1, <1>3 DEF IsDir

LEMMA SettledArgument ==
  ASSUME Words, Places, Table, Grown, FileMade, Flags, Elsewhere, Settled, Sound, NextArgument
  PROVE  /\ SettledFor(Wanted, Goals, before, enum', err', Hand', Sure')
         /\ ListedAsDirs(enum', Wanted)
<1>1. PICK a \in NextArg(tree, files, enum, failing) :
        /\ enum' = a.enum /\ arg'.path = a.path /\ err' = (err \/ a.err)
        /\ a.kind = "dir" => at' \in {"clear", "contains"}
  BY DEF NextArgument, Sound
<1>2. at = "next" /\ ~ Done(enum) /\ stack = <<>> /\ failing = FALSE
  BY DEF NextArgument, Table, AtIdle, Sound, Flags
<1>3. enum.todo # <<>> \/ enum.listing # {}
  BY <1>2 DEF Done
<1>4. From(enum, Names, Range(cmd.args), Named) /\ DOMAIN tree \subseteq Seq(Names)
  BY DEF Words
<1>5. ListedAsDirs(enum, Wanted) /\ SettledFor(Wanted, Goals, before, enum, err, Hand, Sure)
  BY DEF Settled
<1>6. \A p \in Wanted : IsDir(tree, p)
  BY <1>2, WantedStay
<1>7. ListedAsDirs(a.enum, Wanted) /\ (a.path \in Wanted => a.kind \in {"none", "dir"})
  BY <1>3, <1>4, <1>5, <1>6, NextArgWanted
<1>8. a.err = FALSE => Outstanding(enum, a, tree)
  BY <1>2, <1>3, <1>4, NextArgAwaits
<1>9. a.err \in BOOLEAN
  BY NextArgError
<1>10. err' \/ Sure \subseteq Sure'
  BY SureNext DEF Step
<1>11. SettledFor(Wanted, Goals, before, enum', err', Hand', Sure')
  <2> SUFFICES ASSUME ~ err', NEW p \in Wanted
               PROVE  p \in Awaits(enum') \/ p \in Hand' \/ \E g \in Goals : Mirrored(before, p, g, Sure')
    BY DEF SettledFor
  <2>1. a.err = FALSE /\ ~ err
    BY <1>1, <1>9
  <2>2. p \in Awaits(enum) \/ p \in Hand \/ \E g \in Goals : Mirrored(before, p, g, Sure)
    BY <1>5, <2>1 DEF SettledFor
  <2>3. p \notin Hand
    BY <1>2 DEF Hand
  <2>4. CASE p \in Awaits(enum)
    <3>1. p \in Awaits(a.enum) \/ (p = a.path /\ a.kind # "none") \/ p \notin DOMAIN tree
      BY <1>8, <2>1, <2>4 DEF Outstanding
    <3>2. p \in DOMAIN tree
      BY <1>6 DEF IsDir
    <3>3. p = a.path /\ a.kind # "none" => p \in Hand'
      BY <1>1, <1>7 DEF Hand
    <3> QED BY <1>1, <3>1, <3>2, <3>3
  <2>5. CASE \E g \in Goals : Mirrored(before, p, g, Sure)
    BY <1>10, <2>5, MirroredGrows
  <2> QED BY <2>2, <2>3, <2>4, <2>5
<1> QED BY <1>1, <1>7, <1>11

LEMMA SettledNext ==
  ASSUME Words, Places, Table, Grown, Depths, Flags, Elsewhere, FileMade, Tracked, Noticed, AtGoal, Settled,
         Step
  PROVE  Settled'
<1>1. Wanted' = Wanted /\ Goals' = Goals /\ before' = before /\ (Sound' => Sound)
  BY WantedSame, SoundSame
<1> SUFFICES ASSUME Sound
             PROVE  /\ at' = "start" => Wanted \subseteq Awaits(enum')
                    /\ SettledFor(Wanted, Goals, before, enum', err', Hand', Sure')
                    /\ ListedAsDirs(enum', Wanted)
  BY <1>1 DEF Settled
<1>2. /\ at = "start" => Wanted \subseteq Awaits(enum)
      /\ SettledFor(Wanted, Goals, before, enum, err, Hand, Sure)
      /\ ListedAsDirs(enum, Wanted)
  BY DEF Settled
<1>3. ASSUME NEW outer, NEW failed, ReturnTo(outer, failed) PROVE at' \in {"next", "readdir"}
  BY <1>3 DEF ReturnTo
<1>4. at' # "start"
  <2>1. CASE Start \/ NextArgument \/ ClearTarget \/ CopyDirArgument \/ NoMore
    BY <2>1 DEF Start, NextArgument, ClearTarget, CopyDirArgument, NoMore
  <2>2. CASE MakeDir \/ OpenDir \/ LeaveDir
    BY <1>3, <2>2 DEF MakeDir, OpenDir, LeaveDir
  <2>3. CASE CopyEntry \/ CopyChunk \/ CloseBoth
    BY <2>3 DEF CopyEntry, CopyChunk, CloseBoth
  <2>4. CASE StatDest \/ OpenSource \/ OpenDest \/ SetTime \/ Discard
    BY <1>3, <2>4 DEF StatDest, OpenSource, OpenDest, SetTime, Discard, Leave
  <2> QED BY <2>1, <2>2, <2>3, <2>4 DEF Step
<1>5. CASE Start
  <2>1. at = "start" /\ enum' = enum
    BY <1>5 DEF Start
  <2> QED BY <1>2, <1>4, <2>1 DEF SettledFor
<1>6. CASE NextArgument
  BY <1>4, <1>6, SettledArgument
<1>7. CASE ~ Start /\ ~ NextArgument
  <2>1. enum' = enum
    BY <1>7 DEF Step, ClearTarget, CopyDirArgument, NoMore, MakeDir, OpenDir, LeaveDir, CopyEntry, StatDest,
                OpenSource, OpenDest, CopyChunk, CloseBoth, SetTime, Discard
  <2>2. ~ err \/ err'
    BY <1>7, ErrorStays
  <2>3. err' \/ Sure \subseteq Sure'
    BY SureNext
  <2>4. \A p \in Hand \cap Wanted : err' \/ p \in Hand' \/ \E g \in Goals : Mirrored(before, p, g, Sure')
    BY <1>7, HandNext
  <2>5. SettledFor(Wanted, Goals, before, enum, err', Hand', Sure')
    BY <1>2, <2>2, <2>3, <2>4, SettledOn
  <2> QED BY <1>2, <1>4, <2>1, <2>5
<1> QED BY <1>5, <1>6, <1>7

(* cp -r that succeeds on a sound medium: every directory that was named and *)
(* that no target is above has its directories below a target.               *)
THEOREM CopySkeleton == Spec => []Skeleton
<1> DEFINE Base == Words /\ Places /\ Table /\ Grown /\ Depths /\ Flags
           Inv == /\ Base
                  /\ AtTarget /\ Elsewhere /\ FileMade /\ Tracked /\ Noticed /\ AtGoal /\ Ended
                  /\ Settled
<1>1. Init => Inv
  <2> SUFFICES ASSUME Init PROVE Inv
    OBVIOUS
  <2>1. at = "start" /\ stack = <<>> /\ enum = Enumeration(cmd.args)
    BY DEF Init
  <2>2. Grown /\ Flags
    BY CopyAssumption DEF Init, Grown, Flags
  <2>3. Depths
    BY DEF Init, Depths, Enumeration
  <2>4. AtTarget /\ Elsewhere /\ FileMade /\ Tracked /\ Noticed /\ AtGoal /\ Ended
    BY <2>1 DEF AtTarget, AtFile, Elsewhere, FileMade, Tracked, Noticed, Outside, AtGoal, Ended
  <2>5. Wanted \subseteq Awaits(enum)
    BY <2>1, AwaitsLine DEF Wanted, Named
  <2>6. Settled
    BY <2>1, <2>5 DEF Settled, SettledFor, ListedAsDirs, Enumeration
  <2> QED BY <2>2, <2>3, <2>4, <2>6, StartsSo, TableStarts
<1>2. Inv /\ [Next]_vars => Inv'
  <2>1. CASE Still
    <3>1. Named' = Named /\ Goals' = Goals /\ Deepest' = Deepest
      BY <2>1, SameLine DEF Still, command, Deepest, Levels
    <3>2. Reach' = Reach /\ Wanted' = Wanted
      BY <2>1, <3>1 DEF Reach, Wanted, Still, command
    <3>3. Base => Base'
      <4>1. Base => Table' /\ Grown' /\ Depths' /\ Flags'
        BY <2>1, <3>1, <3>2, TableStill DEF Still, command, Grown, Depths, Flags
      <4> QED BY <2>1, <4>1, Unchanged
    <3>4. AtTarget /\ Elsewhere /\ FileMade => AtTarget' /\ Elsewhere' /\ FileMade'
      BY <2>1 DEF Still, command, AtTarget, Elsewhere, FileMade
    <3>7. Tracked /\ Noticed => Tracked' /\ Noticed'
      BY <2>1 DEF Still, command, Tracked, Noticed, Sound
    <3>5. Hand' = Hand /\ Sure' = Sure /\ (Sound' => Sound)
      BY <2>1 DEF Still, command, Hand, Sure, Coming, Sound
    <3>6. AtGoal /\ Ended /\ Settled => AtGoal' /\ Ended' /\ Settled'
      BY <2>1, <3>1, <3>2, <3>5 DEF Still, command, AtGoal, Ended, Settled
    <3> HIDE DEF Base
    <3> QED BY <3>3, <3>4, <3>6, <3>7
  <2>2. CASE Step /\ host' = host /\ called' \in BOOLEAN
    <3>1. Base => Base'
      BY <2>2, WordsNext, PlacesNext, TableNext, GrownNext, DepthsNext, FlagsNext
    <3>2. Inv => AtTarget' /\ Elsewhere' /\ FileMade' /\ Tracked' /\ Noticed'
      BY <2>2, AtTargetNext, ElsewhereNext, FileMadeNext, TrackedNext, NoticedNext
    <3>3. Inv => AtGoal' /\ Ended' /\ Settled'
      BY <2>2, AtGoalNext, EndedNext, SettledNext
    <3> HIDE DEF Base
    <3> QED BY <3>1, <3>2, <3>3
  <2> QED BY <2>1, <2>2, StepOrStill
<1>3. Inv => Skeleton
  <2> SUFFICES ASSUME Inv, at = "exit", ~ err, Sound, NEW p \in Wanted
               PROVE  \E g \in Goals : Mirrored(before, p, g, Dirs(tree))
    BY DEF Skeleton, Sound
  <2>1. Done(enum) /\ stack = <<>>
    BY DEF Ended, Table, AtIdle
  <2>2. Awaits(enum) = {}
    BY <2>1 DEF Awaits, Done, Range
  <2>3. Hand = {} /\ Sure = Dirs(tree)
    BY <2>1 DEF Hand, Sure, Coming
  <2>4. SettledFor(Wanted, Goals, before, enum, err, Hand, Sure)
    BY DEF Settled
  <2> QED BY <2>2, <2>3, <2>4 DEF SettledFor
<1> HIDE DEF Inv
<1> QED BY <1>1, <1>2, <1>3, PTL DEF Spec

=============================================================================
