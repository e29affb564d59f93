----------------------------- MODULE FatFsFacts -----------------------------
(* Lemmas about paths, the operators of FatFs and the arguments of a line,   *)
(* for the proofs about the commands.                                        *)
EXTENDS Arguments, SequenceTheorems, TLAPS

-----------------------------------------------------------------------------
(* Prefixes.                                                                 *)

LEMMA PrefixPointwise ==
  ASSUME NEW S, NEW s \in Seq(S), NEW t \in Seq(S)
  PROVE  IsPrefix(s, t) <=> Len(s) <= Len(t) /\ \A k \in 1 .. Len(s) : s[k] = t[k]
<1>1. SubSeq(s, 1, Len(s)) = s
  BY SubSeqFull
<1>2. ASSUME Len(s) <= Len(t)
      PROVE  /\ SubSeq(t, 1, Len(s)) \in Seq(S)
             /\ Len(SubSeq(t, 1, Len(s))) = Len(s)
             /\ \A k \in 1 .. Len(s) : SubSeq(t, 1, Len(s))[k] = t[k]
  <2>1. \A k \in 1 .. Len(s) : t[k] \in S
    BY <1>2
  <2> QED BY <1>2, <2>1, SubSeqProperties, LenProperties
<1>3. ASSUME Len(s) <= Len(t), \A k \in 1 .. Len(s) : s[k] = t[k]
      PROVE  s = SubSeq(t, 1, Len(s))
  BY <1>2, <1>3, SeqEqual
<1> QED BY <1>1, <1>2, <1>3 DEF IsPrefix

LEMMA PrefixFromPoints ==
  ASSUME NEW S, NEW s \in Seq(S), NEW t \in Seq(S),
         Len(s) <= Len(t), \A k \in 1 .. Len(s) : s[k] = t[k]
  PROVE  IsPrefix(s, t)
BY PrefixPointwise

LEMMA PrefixToPoints ==
  ASSUME NEW S, NEW s \in Seq(S), NEW t \in Seq(S), IsPrefix(s, t)
  PROVE  Len(s) <= Len(t) /\ \A k \in 1 .. Len(s) : s[k] = t[k]
BY PrefixPointwise

LEMMA PrefixOfItself ==
  ASSUME NEW S, NEW s \in Seq(S)
  PROVE  IsPrefix(s, s)
BY PrefixPointwise

LEMMA PrefixOfLonger ==
  ASSUME NEW S, NEW s \in Seq(S), NEW t \in Seq(S), NEW e \in S, IsPrefix(s, t)
  PROVE  Append(t, e) \in Seq(S) /\ IsPrefix(s, Append(t, e))
<1> DEFINE u == Append(t, e)
<1>1. u \in Seq(S) /\ Len(u) = Len(t) + 1 /\ \A k \in 1 .. Len(t) : u[k] = t[k]
  BY AppendProperties
<1> HIDE DEF u
<1>2. Len(s) \in Nat /\ Len(s) <= Len(t) /\ \A k \in 1 .. Len(s) : s[k] = t[k]
  BY PrefixToPoints, LenProperties
<1>3. Len(s) <= Len(u) /\ \A k \in 1 .. Len(s) : s[k] = u[k]
  BY <1>1, <1>2, LenProperties
<1>4. u \in Seq(S)
  BY <1>1
<1>5. IsPrefix(s, u)
  BY <1>3, <1>4, PrefixFromPoints
<1> QED BY <1>1, <1>5 DEF u

LEMMA Trimming ==
  ASSUME NEW S, NEW t \in Seq(S), NEW n \in Nat, n <= Len(t)
  PROVE  /\ SubSeq(t, 1, n) \in Seq(S) /\ Len(SubSeq(t, 1, n)) = n
         /\ \A k \in 1 .. n : SubSeq(t, 1, n)[k] = t[k]
<1> DEFINE u == SubSeq(t, 1, n)
<1>1. \A k \in 1 .. n : t[k] \in S
  OBVIOUS
<1>2. /\ u \in Seq(S)
      /\ Len(u) = IF 1 <= n THEN n - 1 + 1 ELSE 0
      /\ \A i \in 1 .. n - 1 + 1 : u[i] = t[1 + i - 1]
  BY <1>1, SubSeqProperties
<1> HIDE DEF u
<1>3. u \in Seq(S) /\ Len(u) = n /\ \A k \in 1 .. n : u[k] = t[k]
  BY <1>2
<1> QED BY <1>3 DEF u

LEMMA PrefixOfTrimmed ==
  ASSUME NEW S, NEW s \in Seq(S), NEW t \in Seq(S), IsPrefix(s, t),
         NEW n \in Nat, Len(s) <= n, n <= Len(t)
  PROVE  /\ SubSeq(t, 1, n) \in Seq(S) /\ Len(SubSeq(t, 1, n)) = n
         /\ IsPrefix(s, SubSeq(t, 1, n))
<1> DEFINE u == SubSeq(t, 1, n)
<1>1. u \in Seq(S) /\ Len(u) = n /\ \A k \in 1 .. n : u[k] = t[k]
  BY Trimming
<1> HIDE DEF u
<1>2. Len(s) \in Nat /\ Len(s) <= Len(t) /\ \A k \in 1 .. Len(s) : s[k] = t[k]
  BY PrefixToPoints, LenProperties
<1>3. Len(s) <= Len(u) /\ \A k \in 1 .. Len(s) : s[k] = u[k]
  BY <1>1, <1>2, LenProperties
<1>4. u \in Seq(S)
  BY <1>1
<1>5. IsPrefix(s, u)
  BY <1>3, <1>4, PrefixFromPoints
<1> QED BY <1>1, <1>5 DEF u

LEMMA NonEmpty ==
  ASSUME NEW S, NEW s \in Seq(S), s # <<>>
  PROVE  Len(s) \in Nat /\ Len(s) >= 1 /\ DOMAIN s = 1 .. Len(s)
BY EmptySeq, LenProperties

LEMMA FrontFacts ==
  ASSUME NEW S, NEW s \in Seq(S), s # <<>>
  PROVE  /\ Front(s) \in Seq(S) /\ Len(Front(s)) = Len(s) - 1
         /\ \A i \in 1 .. Len(s) - 1 : Front(s)[i] = s[i]
         /\ Front(s) # <<>> => Len(s) - 1 >= 1
<1>1. Len(s) \in Nat /\ Len(s) >= 1 /\ Len(s) - 1 \in Nat /\ Len(s) - 1 <= Len(s)
  BY NonEmpty
<1> DEFINE u == Front(s)
<1>2. /\ u \in Seq(S) /\ Len(u) = Len(s) - 1
      /\ \A i \in 1 .. Len(s) - 1 : u[i] = s[i]
  BY <1>1, Trimming DEF Front
<1> HIDE DEF u
<1>3. u # <<>> => Len(u) >= 1
  BY <1>2, NonEmpty
<1> QED BY <1>2, <1>3 DEF u

LEMMA FrontAndLast ==
  ASSUME NEW S, NEW s \in Seq(S), s # <<>>
  PROVE  s = Append(Front(s), Last(s)) /\ Last(s) \in S
<1>1. Len(s) \in Nat /\ Len(s) >= 1 /\ DOMAIN s = 1 .. Len(s) /\ Last(s) = s[Len(s)]
  BY NonEmpty DEF Last
<1>2. s[Len(s)] \in S
  BY <1>1, ElementOfSeq
<1>3. /\ Front(s) \in Seq(S) /\ Len(Front(s)) = Len(s) - 1
      /\ \A i \in 1 .. Len(s) - 1 : Front(s)[i] = s[i]
  BY FrontFacts
<1> DEFINE f == Front(s)
           u == Append(f, Last(s))
<1> HIDE DEF f
<1>4. /\ u \in Seq(S) /\ Len(u) = Len(s) - 1 + 1
      /\ \A i \in 1 .. Len(s) - 1 : u[i] = Front(s)[i]
      /\ u[Len(s) - 1 + 1] = s[Len(s)]
  <2>1. f \in Seq(S) /\ Last(s) \in S /\ Len(f) = Len(s) - 1
    BY <1>1, <1>2, <1>3 DEF f
  <2>2. /\ u \in Seq(S) /\ Len(u) = Len(f) + 1
        /\ \A i \in 1 .. Len(f) : u[i] = f[i]
        /\ u[Len(f) + 1] = Last(s)
    BY <2>1, AppendProperties
  <2> QED BY <1>1, <2>1, <2>2 DEF f
<1> HIDE DEF u
<1>5. Len(u) = Len(s) /\ u[Len(s)] = s[Len(s)]
  BY <1>1, <1>4
<1>6. \A i \in 1 .. Len(s) : u[i] = s[i]
  <2> TAKE i \in 1 .. Len(s)
  <2>1. \A n \in Nat : \A k \in 1 .. n : k = n \/ k \in 1 .. n - 1
    OBVIOUS
  <2>2. i = Len(s) \/ i \in 1 .. Len(s) - 1
    BY <1>1, <2>1
  <2> QED BY <2>2, <1>3, <1>4, <1>5
<1>7. u = s
  BY <1>4, <1>5, <1>6, SeqEqual
<1> QED BY <1>1, <1>2, <1>7 DEF u, f

LEMMA FrontOfAppend ==
  ASSUME NEW S, NEW s \in Seq(S), NEW e \in S
  PROVE  Front(Append(s, e)) = s /\ Last(Append(s, e)) = e /\ Append(s, e) # <<>>
<1> DEFINE u == Append(s, e)
<1>1. /\ u \in Seq(S) /\ Len(u) = Len(s) + 1 /\ u[Len(s) + 1] = e
      /\ \A i \in 1 .. Len(s) : u[i] = s[i]
  BY AppendProperties
<1> HIDE DEF u
<1>2. Len(s) \in Nat /\ Len(u) - 1 = Len(s)
  BY <1>1, LenProperties
<1>3. u # <<>>
  BY <1>1, <1>2, EmptySeq
<1>4. /\ Front(u) \in Seq(S) /\ Len(Front(u)) = Len(s)
      /\ \A i \in 1 .. Len(s) : Front(u)[i] = s[i]
  BY <1>1, <1>2, <1>3, FrontFacts
<1>5. Front(u) = s
  BY <1>4, SeqEqual
<1>6. Last(u) = e
  BY <1>1 DEF Last
<1> QED BY <1>3, <1>5, <1>6 DEF u

(* What is above a path other than itself is above its directory.            *)
LEMMA AboveParent ==
  ASSUME NEW S, NEW d \in Seq(S), NEW p \in Seq(S), IsPrefix(d, p), d # p
  PROVE  p # <<>> /\ Front(p) \in Seq(S) /\ IsPrefix(d, Front(p))
<1>1. /\ Len(d) \in Nat /\ Len(p) \in Nat /\ Len(d) <= Len(p)
      /\ \A k \in 1 .. Len(d) : d[k] = p[k]
  BY PrefixToPoints, LenProperties
<1>2. Len(d) # Len(p)
  BY <1>1, SeqEqual
<1>3. p # <<>>
  BY <1>1, <1>2, EmptySeq
<1> DEFINE n == Len(p) - 1
<1>4. n \in Nat /\ Len(d) <= n /\ n <= Len(p)
  BY <1>1, <1>2
<1> HIDE DEF n
<1>5. SubSeq(p, 1, n) \in Seq(S) /\ IsPrefix(d, SubSeq(p, 1, n))
  BY <1>4, PrefixOfTrimmed
<1> QED BY <1>3, <1>5 DEF n, Front

-----------------------------------------------------------------------------
(* The volume.                                                               *)

LEMMA WithoutOne ==
  ASSUME NEW t, NEW p
  PROVE  /\ DOMAIN Without(t, p) = DOMAIN t \ {p}
         /\ \A q \in DOMAIN t \ {p} : Without(t, p)[q] = t[q]
BY DEF Without, Restrict

LEMMA UnlinkOutcome ==
  ASSUME NEW t, NEW f, NEW p, NEW faulty, NEW o \in Unlink(t, f, p, faulty)
  PROVE  /\ o.tree = t \/ (UnlinkResult(t, f, p) = "FR_OK" /\ o.tree = Without(t, p))
         /\ o.res = UnlinkResult(t, f, p) \/ o.res = "FR_DISK_ERR"
         /\ o.res = "FR_OK" => UnlinkResult(t, f, p) = "FR_OK" /\ o.tree = Without(t, p)
BY DEF Unlink

(* What f_unlink takes away is neither the root, nor read-only, nor a        *)
(* directory with something in it.                                           *)
LEMMA UnlinkedLeaf ==
  ASSUME NEW t, NEW f, NEW p, UnlinkResult(t, f, p) = "FR_OK"
  PROVE  p \in DOMAIN t /\ p # <<>> /\ ~ t[p].rdo /\ Children(t, p) = {}
<1>1. p \in DOMAIN t
  BY DEF UnlinkResult, FollowPath
<1>2. FollowPath(t, p) = "FR_OK"
  BY <1>1 DEF FollowPath
<1>3. p # <<>>
  BY <1>2 DEF UnlinkResult
<1>4. Entry(p) \notin DOMAIN f
  BY <1>2, <1>3 DEF UnlinkResult
<1>5. ~ (t[p].rdo \/ Children(t, p) # {})
  BY <1>2, <1>3, <1>4 DEF UnlinkResult
<1> QED BY <1>1, <1>3, <1>5

(* f_rename: nothing, or what is below old is moved below new, where nothing *)
(* was; or it is found in both places.                                       *)
LEMMA RenameOutcome ==
  ASSUME NEW S, NEW old \in Seq(S), NEW t, NEW f, NEW new, NEW faulty,
         NEW o \in Rename(t, f, old, new, faulty)
  PROVE  \/ o.tree = t
         \/ /\ old \in DOMAIN t /\ old # <<>> /\ old # new
            /\ new \notin DOMAIN t /\ IsDir(t, Front(new))
            /\ o.tree = Renamed(t, old, new) \/ (~ IsPrefix(old, new) /\ o.tree = Linked(t, old, new))
<1>1. \/ o.tree = t
      \/ /\ RenameResult(t, f, old, new) = "FR_OK"
         /\ o.tree = Renamed(t, old, new) \/ o.tree \in HalfRenamed(t, old, new)
  BY DEF Rename
<1>2. o.tree \in HalfRenamed(t, old, new) => ~ IsPrefix(old, new) /\ o.tree = Linked(t, old, new)
  BY DEF HalfRenamed
<1>3. old = new => Renamed(t, old, new) = t
  BY PrefixOfItself DEF Renamed
<1>4. ASSUME RenameResult(t, f, old, new) = "FR_OK"
      PROVE  /\ FollowPath(t, old) = "FR_OK" /\ old # <<>>
             /\ old # new => FollowPath(t, new) = "FR_NO_FILE"
  BY <1>4 DEF RenameResult
<1>5. FollowPath(t, old) = "FR_OK" => old \in DOMAIN t
  BY DEF FollowPath
<1>6. FollowPath(t, new) = "FR_NO_FILE" => new \notin DOMAIN t /\ IsDir(t, Front(new))
  BY DEF FollowPath
<1>7. old = new => ~ o.tree \in HalfRenamed(t, old, new)
  BY <1>2, PrefixOfItself
<1> QED BY <1>1, <1>2, <1>3, <1>4, <1>5, <1>6, <1>7

LEMMA LinkedKeeps ==
  ASSUME NEW t, NEW old, NEW new
  PROVE  /\ DOMAIN t \subseteq DOMAIN Linked(t, old, new)
         /\ \A q \in DOMAIN t : Linked(t, old, new)[q] = t[q]
BY DEF Linked

MovedTo(old, new, p) == new \o SubSeq(p, Len(old) + 1, Len(p))

LEMMA LinkedOrigin ==
  ASSUME NEW t, NEW old, NEW new, NEW q \in DOMAIN Linked(t, old, new), q \notin DOMAIN t
  PROVE  \E p \in Subtree(t, old) : q = MovedTo(old, new, p)
BY DEF Linked, MovedTo

LEMMA RenamedKeeps ==
  ASSUME NEW t, NEW old, NEW new, old # new,
         NEW u, u = Renamed(t, old, new) \/ (~ IsPrefix(old, new) /\ u = Linked(t, old, new))
  PROVE  /\ DOMAIN u \subseteq DOMAIN t \cup DOMAIN Linked(t, old, new)
         /\ \A q \in DOMAIN t : ~ IsPrefix(old, q) => q \in DOMAIN u /\ u[q] = t[q]
<1>2. CASE IsPrefix(old, new) /\ u = Renamed(t, old, new)
  <2>1. u = Restrict(t, DOMAIN t \ Subtree(t, old))
    BY <1>2 DEF Renamed
  <2> QED BY <2>1 DEF Restrict, Subtree
<1>3. CASE ~ IsPrefix(old, new) /\ u = Renamed(t, old, new)
  <2>1. u = Restrict(Linked(t, old, new), DOMAIN Linked(t, old, new) \ Subtree(t, old))
    BY <1>3 DEF Renamed
  <2>2. DOMAIN u = DOMAIN Linked(t, old, new) \ Subtree(t, old)
        /\ \A q \in DOMAIN u : u[q] = Linked(t, old, new)[q]
    BY <2>1 DEF Restrict
  <2> QED BY <2>2, LinkedKeeps DEF Subtree
<1>4. CASE u = Linked(t, old, new)
  BY <1>4, LinkedKeeps
<1> QED BY <1>2, <1>3, <1>4

LEMMA LinkedPaths ==
  ASSUME NEW S, NEW t, DOMAIN t \subseteq Seq(S), NEW old \in Seq(S), NEW new \in Seq(S)
  PROVE  DOMAIN Linked(t, old, new) \subseteq Seq(S)
<1>1. ASSUME NEW p \in Seq(S)
      PROVE  MovedTo(old, new, p) \in Seq(S)
  <2>1. Len(old) \in Nat /\ Len(p) \in Nat
    BY LenProperties
  <2>2. \A k \in Len(old) + 1 .. Len(p) : p[k] \in S
    BY <2>1, ElementOfSeq
  <2>3. SubSeq(p, Len(old) + 1, Len(p)) \in Seq(S)
    BY <2>1, <2>2, SubSeqProperties
  <2> QED BY <2>3, ConcatProperties DEF MovedTo
<1>2. Subtree(t, old) \subseteq Seq(S)
  BY DEF Subtree
<1>3. ASSUME NEW q \in DOMAIN Linked(t, old, new), q \notin DOMAIN t
      PROVE  q \in Seq(S)
  <2>1. PICK p \in Subtree(t, old) : q = MovedTo(old, new, p)
    BY <1>3, LinkedOrigin
  <2> QED BY <1>1, <1>2, <2>1
<1> QED BY <1>3

-----------------------------------------------------------------------------
(* What stands above something is a directory; so nothing is below a file,   *)
(* and a file that is renamed takes nothing with it.                         *)
LEMMA AboveIsDir ==
  ASSUME NEW S, NEW t, IsTree(t), NEW p \in Seq(S), p \in DOMAIN t,
         NEW d \in Seq(S), IsPrefix(d, p), d # p
  PROVE  IsDir(t, d)
<1>1. Len(d) \in Nat /\ Len(p) \in Nat /\ Len(d) <= Len(p)
  BY PrefixToPoints, LenProperties
<1>2. d = SubSeq(p, 1, Len(d))
  BY DEF IsPrefix
<1>3. Len(d) # Len(p)
  BY <1>2, SubSeqFull
<1>4. Len(d) \in 0 .. Len(p) - 1
  BY <1>1, <1>3
<1>5. IsDir(t, SubSeq(p, 1, Len(d)))
  BY <1>4 DEF IsTree
<1> QED BY <1>2, <1>5

LEMMA AboveNewIsDir ==
  ASSUME NEW S, NEW t, IsTree(t), NEW p \in Seq(S), p \notin DOMAIN t, IsDir(t, Front(p)),
         NEW d \in Seq(S), IsPrefix(d, p), d # p
  PROVE  IsDir(t, d)
<1>1. p # <<>>
  BY DEF IsTree, IsDir
<1>2. Len(d) \in Nat /\ Len(p) \in Nat /\ Len(p) >= 1 /\ Len(d) <= Len(p)
  BY <1>1, NonEmpty, PrefixToPoints, LenProperties
<1>3. d = SubSeq(p, 1, Len(d))
  BY DEF IsPrefix
<1>4. Len(d) # Len(p)
  BY <1>3, SubSeqFull
<1>5. Len(p) - 1 \in Nat /\ Len(d) <= Len(p) - 1 /\ Len(p) - 1 <= Len(p)
  BY <1>2, <1>4
<1>6. Front(p) = SubSeq(p, 1, Len(p) - 1)
  BY DEF Front
<1>7. Front(p) \in Seq(S) /\ IsPrefix(d, Front(p))
  BY <1>5, <1>6, PrefixOfTrimmed
<1>8. CASE d = Front(p)
  BY <1>8
<1>9. CASE d # Front(p)
  <2>1. Front(p) \in DOMAIN t
    BY DEF IsDir
  <2> QED BY <1>7, <1>9, <2>1, AboveIsDir
<1> QED BY <1>8, <1>9

LEMMA FileRenamed ==
  ASSUME NEW S, NEW t, IsTree(t), DOMAIN t \subseteq Seq(S),
         NEW old \in Seq(S), old \in DOMAIN t, ~ t[old].dir,
         NEW new \in Seq(S), new \notin DOMAIN t, IsDir(t, Front(new)),
         NEW u, u = Renamed(t, old, new) \/ u = Linked(t, old, new)
  PROVE  /\ DOMAIN t \ {old} \subseteq DOMAIN u /\ DOMAIN u \subseteq DOMAIN t \cup {new}
         /\ new \in DOMAIN u /\ u[new] = t[old]
         /\ \A q \in DOMAIN t : q \in DOMAIN u => u[q] = t[q]
<1>1. old # new /\ ~ IsPrefix(old, new)
  BY AboveNewIsDir DEF IsDir
<1>2. Subtree(t, old) = {old}
  <2>1. \A q \in DOMAIN t : IsPrefix(old, q) => q = old
    BY AboveIsDir DEF IsDir
  <2>2. IsPrefix(old, old)
    BY PrefixOfItself
  <2> QED BY <2>1, <2>2 DEF Subtree
<1>3. MovedTo(old, new, old) = new
  <2>1. Len(old) \in Nat
    BY LenProperties
  <2>2. SubSeq(old, Len(old) + 1, Len(old)) = <<>>
    BY <2>1, SubSeqEmpty
  <2> QED BY <2>2, ConcatEmptySeq DEF MovedTo
<1>4. MovedTo(new, old, new) = old
  <2>1. Len(new) \in Nat
    BY LenProperties
  <2>2. SubSeq(new, Len(new) + 1, Len(new)) = <<>>
    BY <2>1, SubSeqEmpty
  <2> QED BY <2>2, ConcatEmptySeq DEF MovedTo
<1>5. Linked(t, old, new) =
        [q \in DOMAIN t \cup {new} |-> IF q \in DOMAIN t THEN t[q] ELSE t[old]]
  <2> DEFINE from == [q \in {MovedTo(old, new, p) : p \in Subtree(t, old)} |-> t[MovedTo(new, old, q)]]
  <2>1. Linked(t, old, new) = [q \in DOMAIN t \cup DOMAIN from |-> IF q \in DOMAIN t THEN t[q] ELSE from[q]]
    BY DEF Linked, MovedTo
  <2>2. from = [q \in {new} |-> t[old]]
    BY <1>2, <1>3, <1>4
  <2> HIDE DEF from
  <2>3. DOMAIN from = {new} /\ from[new] = t[old]
    BY <2>2
  <2> QED BY <2>1, <2>3
<1>6. CASE u = Linked(t, old, new)
  BY <1>5, <1>6
<1>7. CASE u = Renamed(t, old, new)
  <2>1. u = Restrict(Linked(t, old, new), DOMAIN Linked(t, old, new) \ {old})
    BY <1>1, <1>2, <1>7 DEF Renamed
  <2> QED BY <1>1, <1>5, <2>1 DEF Restrict
<1> QED BY <1>6, <1>7

(* The volume after that: a tree, with no new directory and no less files.   *)
NoNewDir(t, u) == \A q \in DOMAIN u : u[q].dir => IsDir(t, q)
AllFiles(t, u) == \A q \in DOMAIN t : ~ t[q].dir => \E r \in DOMAIN u : ~ u[r].dir /\ u[r].data = t[q].data

LEMMA FileRenamedTree ==
  ASSUME NEW S, NEW t, IsTree(t), DOMAIN t \subseteq Seq(S),
         NEW old \in Seq(S), old \in DOMAIN t, ~ t[old].dir,
         NEW new \in Seq(S), new \notin DOMAIN t, IsDir(t, Front(new)),
         NEW u, u = Renamed(t, old, new) \/ u = Linked(t, old, new)
  PROVE  IsTree(u) /\ NoNewDir(t, u) /\ AllFiles(t, u)
<1>1. /\ DOMAIN t \ {old} \subseteq DOMAIN u /\ DOMAIN u \subseteq DOMAIN t \cup {new}
      /\ new \in DOMAIN u /\ u[new] = t[old]
      /\ \A q \in DOMAIN t : q \in DOMAIN u => u[q] = t[q]
  BY FileRenamed
<1>2. \A q : IsDir(t, q) => IsDir(u, q)
  BY <1>1 DEF IsDir
<1>3. ASSUME NEW p \in DOMAIN u, NEW k \in 0 .. Len(p) - 1
      PROVE  IsDir(u, SubSeq(p, 1, k))
  <2>1. CASE p \in DOMAIN t
    <3>1. IsDir(t, SubSeq(p, 1, k))
      BY <2>1, <1>3 DEF IsTree
    <3> QED BY <3>1, <1>2
  <2>2. CASE p = new
    <3>1. new # <<>>
      BY DEF IsTree, IsDir
    <3>2. Len(new) \in Nat /\ k \in Nat /\ k < Len(new)
      BY <2>2, LenProperties
    <3>3. SubSeq(new, 1, k) \in Seq(S) /\ Len(SubSeq(new, 1, k)) = k
      BY <3>2, Trimming
    <3>4. IsPrefix(SubSeq(new, 1, k), new)
      BY <3>2, <3>3 DEF IsPrefix
    <3>5. SubSeq(new, 1, k) # new
      BY <3>2, <3>3
    <3>6. IsDir(t, SubSeq(new, 1, k))
      BY <3>3, <3>4, <3>5, AboveNewIsDir
    <3> QED BY <2>2, <3>6, <1>2
  <2> QED BY <2>1, <2>2, <1>1
<1>4. IsTree(u)
  BY <1>2, <1>3 DEF IsTree
<1>5. \A q \in DOMAIN u : u[q].dir => IsDir(t, q)
  BY <1>1 DEF IsDir
<1>6. ASSUME NEW q \in DOMAIN t, ~ t[q].dir
      PROVE  \E r \in DOMAIN u : ~ u[r].dir /\ u[r].data = t[q].data
  <2>1. CASE q = old
    BY <1>1, <1>6, <2>1
  <2>2. CASE q # old
    BY <1>1, <1>6, <2>2
  <2> QED BY <2>1, <2>2
<1> QED BY <1>4, <1>5, <1>6 DEF NoNewDir, AllFiles

-----------------------------------------------------------------------------
(* What is below old, taken below new, and back: q is the path p with new    *)
(* put for old, and the n names below it kept.                               *)
Moved(S, old, new, p, q, n) ==
  /\ q \in Seq(S) /\ n \in Nat /\ Len(p) = Len(old) + n /\ Len(q) = Len(new) + n
  /\ \A i \in 1 .. Len(new) : q[i] = new[i]
  /\ \A i \in 1 .. n : q[Len(new) + i] = p[Len(old) + i]

LEMMA MovedFacts ==
  ASSUME NEW S, NEW old \in Seq(S), NEW new \in Seq(S), NEW p \in Seq(S), IsPrefix(old, p),
         NEW n, n = Len(p) - Len(old)
  PROVE  Moved(S, old, new, p, MovedTo(old, new, p), n)
<1> DEFINE r == SubSeq(p, Len(old) + 1, Len(p))
           q == new \o r
<1>1. /\ Len(old) \in Nat /\ Len(new) \in Nat /\ Len(p) \in Nat /\ Len(old) <= Len(p)
      /\ \A k \in Len(old) + 1 .. Len(p) : p[k] \in S
  BY LenProperties, PrefixToPoints, ElementOfSeq
<1>2. /\ r \in Seq(S)
      /\ Len(r) = IF Len(old) + 1 <= Len(p) THEN Len(p) - (Len(old) + 1) + 1 ELSE 0
      /\ \A k \in 1 .. Len(p) - (Len(old) + 1) + 1 : r[k] = p[Len(old) + 1 + k - 1]
  BY <1>1, SubSeqProperties
<1> HIDE DEF r
<1>3. n \in Nat /\ Len(r) = n /\ \A k \in 1 .. n : r[k] = p[Len(old) + k]
  <2>1. n \in Nat /\ Len(r) = n
    BY <1>1, <1>2
  <2>2. ASSUME NEW k \in 1 .. n PROVE r[k] = p[Len(old) + k]
    <3>1. k \in 1 .. Len(p) - (Len(old) + 1) + 1 /\ Len(old) + 1 + k - 1 = Len(old) + k
      BY <1>1
    <3> QED BY <1>2, <3>1
  <2> QED BY <2>1, <2>2
<1>4. q = MovedTo(old, new, p)
  BY DEF MovedTo, r
<1>5. /\ q \in Seq(S) /\ Len(q) = Len(new) + Len(r)
      /\ \A i \in 1 .. Len(new) + Len(r) : q[i] = IF i <= Len(new) THEN new[i] ELSE r[i - Len(new)]
  BY <1>2, ConcatProperties
<1> HIDE DEF q
<1>6. ASSUME NEW i \in 1 .. Len(new) PROVE q[i] = new[i]
  <2>1. i \in 1 .. Len(new) + Len(r) /\ i <= Len(new)
    BY <1>1, <1>3
  <2> QED BY <1>5, <2>1
<1>7. ASSUME NEW i \in 1 .. n PROVE q[Len(new) + i] = p[Len(old) + i]
  <2> DEFINE j == Len(new) + i
  <2>1. j \in 1 .. Len(new) + Len(r) /\ ~ (j <= Len(new)) /\ j - Len(new) = i
    BY <1>1, <1>3
  <2> HIDE DEF j
  <2>2. q[j] = r[i]
    BY <1>5, <2>1
  <2> QED BY <1>3, <2>2 DEF j
<1>8. Len(p) = Len(old) + n
  BY <1>1
<1> QED BY <1>3, <1>4, <1>5, <1>6, <1>7, <1>8 DEF Moved

LEMMA MovedBack ==
  ASSUME NEW S, NEW old \in Seq(S), NEW new \in Seq(S), NEW p \in Seq(S), IsPrefix(old, p)
  PROVE  MovedTo(new, old, MovedTo(old, new, p)) = p
<1> DEFINE q == MovedTo(old, new, p)
           b == MovedTo(new, old, q)
           n == Len(p) - Len(old)
<1>0. n = Len(p) - Len(old)
  OBVIOUS
<1> HIDE DEF n
<1>1. Moved(S, old, new, p, q, n)
  BY <1>0, MovedFacts
<1> HIDE DEF q
<1>2. Len(old) \in Nat /\ Len(new) \in Nat /\ Len(p) \in Nat /\ Len(p) = Len(old) + n /\ n \in Nat
      /\ q \in Seq(S) /\ Len(q) = Len(new) + n /\ \A i \in 1 .. n : q[Len(new) + i] = p[Len(old) + i]
  BY <1>1, LenProperties DEF Moved
<1>3. IsPrefix(new, q)
  <2>1. Len(new) <= Len(q) /\ \A i \in 1 .. Len(new) : new[i] = q[i]
    BY <1>1, <1>2 DEF Moved
  <2> QED BY <1>2, <2>1, PrefixFromPoints
<1>5. n = Len(q) - Len(new)
  BY <1>2
<1>40. Moved(S, new, old, q, b, n)
  BY <1>2, <1>3, <1>5, MovedFacts
<1>4. /\ b \in Seq(S) /\ Len(b) = Len(old) + n
      /\ \A i \in 1 .. Len(old) : b[i] = old[i]
      /\ \A i \in 1 .. n : b[Len(old) + i] = q[Len(new) + i]
  BY <1>40 DEF Moved
<1>6. \A i \in 1 .. Len(old) : p[i] = old[i]
  BY PrefixToPoints
<1> HIDE DEF b
<1>7. ASSUME NEW k \in 1 .. Len(p) PROVE b[k] = p[k]
  <2>1. CASE k <= Len(old)
    <3>1. k \in 1 .. Len(old)
      BY <1>2, <2>1
    <3> QED BY <1>4, <1>6, <3>1
  <2>2. CASE ~ (k <= Len(old))
    <3> DEFINE i == k - Len(old)
    <3>1. i \in 1 .. n /\ Len(old) + i = k
      BY <1>2, <2>2
    <3> HIDE DEF i
    <3>2. b[Len(old) + i] = p[Len(old) + i]
      BY <1>2, <1>4, <3>1
    <3> QED BY <3>1, <3>2
  <2> QED BY <2>1, <2>2
<1>8. b = p
  BY <1>2, <1>4, <1>7, SeqEqual
<1> QED BY <1>8 DEF b, q

(* The same of a directory above it.                                         *)
MovedFrom(S, old, new, p, c) ==
  \E m \in 0 .. Len(p) - 1 : /\ IsPrefix(old, SubSeq(p, 1, m)) /\ SubSeq(p, 1, m) \in Seq(S)
                             /\ c = MovedTo(old, new, SubSeq(p, 1, m))

LEMMA MovedAbove ==
  ASSUME NEW S, NEW old \in Seq(S), NEW new \in Seq(S), NEW p \in Seq(S), IsPrefix(old, p),
         NEW q, q = MovedTo(old, new, p), NEW k \in Nat, k < Len(q), Len(new) <= k
  PROVE  MovedFrom(S, old, new, p, SubSeq(q, 1, k))
<1> DEFINE n == Len(p) - Len(old)
           m == Len(old) + (k - Len(new))
           a == SubSeq(p, 1, m)
           c == SubSeq(q, 1, k)
           d == MovedTo(old, new, a)
<1>0. n = Len(p) - Len(old)
  OBVIOUS
<1> HIDE DEF n
<1>10. Moved(S, old, new, p, q, n)
  BY <1>0, MovedFacts
<1>1. /\ q \in Seq(S) /\ Len(q) = Len(new) + n /\ n \in Nat /\ Len(p) = Len(old) + n
      /\ \A i \in 1 .. Len(new) : q[i] = new[i]
      /\ \A i \in 1 .. n : q[Len(new) + i] = p[Len(old) + i]
  BY <1>10 DEF Moved
<1>2. Len(old) \in Nat /\ Len(new) \in Nat /\ Len(p) \in Nat
  BY LenProperties
<1>3. m \in Nat /\ m < Len(p) /\ Len(old) <= m /\ m - Len(old) = k - Len(new) /\ k - Len(new) <= n
      /\ k - Len(new) \in Nat /\ m \in 0 .. Len(p) - 1 /\ Len(new) + (k - Len(new)) = k
  BY <1>1, <1>2
<1> HIDE DEF m
<1>4. a \in Seq(S) /\ Len(a) = m /\ \A i \in 1 .. m : a[i] = p[i]
  BY <1>2, <1>3, Trimming
<1>5. c \in Seq(S) /\ Len(c) = k /\ \A i \in 1 .. k : c[i] = q[i]
  BY <1>1, Trimming
<1>6. IsPrefix(old, a)
  <2>1. \A i \in 1 .. Len(old) : old[i] = p[i]
    BY PrefixToPoints
  <2> HIDE DEF a
  <2>2. \A i \in 1 .. Len(old) : i \in 1 .. m
    BY <1>2, <1>3
  <2> QED BY <1>3, <1>4, <2>1, <2>2, PrefixFromPoints
<1> DEFINE h == k - Len(new)
<1> HIDE DEF a
<1>11. h = Len(a) - Len(old) /\ h \in Nat /\ h <= n /\ Len(new) + h = k /\ Len(old) + h = m
  BY <1>2, <1>3, <1>4 DEF m
<1> HIDE DEF h
<1>12. Moved(S, old, new, a, d, h)
  BY <1>4, <1>6, <1>11, MovedFacts
<1> HIDE DEF c, d
<1>7. /\ d \in Seq(S) /\ Len(d) = Len(new) + h
      /\ \A i \in 1 .. Len(new) : d[i] = new[i]
      /\ \A i \in 1 .. h : d[Len(new) + i] = a[Len(old) + i]
  BY <1>12 DEF Moved
<1>8. Len(d) = k
  BY <1>7, <1>11
<1>9. ASSUME NEW i \in 1 .. k PROVE c[i] = d[i]
  <2>1. CASE i <= Len(new)
    <3>1. i \in 1 .. Len(new)
      BY <1>2, <2>1
    <3> QED BY <1>1, <1>5, <1>7, <3>1
  <2>2. CASE ~ (i <= Len(new))
    <3> DEFINE j == i - Len(new)
    <3>1. j \in 1 .. h /\ Len(new) + j = i /\ j \in 1 .. n /\ Len(old) + j \in 1 .. m
      BY <1>1, <1>2, <1>11, <2>2
    <3> HIDE DEF j
    <3>2. d[Len(new) + j] = a[Len(old) + j] /\ q[Len(new) + j] = p[Len(old) + j]
      BY <1>1, <1>7, <3>1
    <3> QED BY <1>4, <1>5, <3>1, <3>2
  <2> QED BY <2>1, <2>2
<1>14. c = d
  BY <1>5, <1>7, <1>8, <1>9, SeqEqual
<1> HIDE DEF m
<1>13. MovedFrom(S, old, new, p, c)
  BY <1>3, <1>4, <1>6, <1>14 DEF MovedFrom, a, d
<1> QED BY <1>13 DEF c

LEMMA PrefixTransitive ==
  ASSUME NEW S, NEW a \in Seq(S), NEW b \in Seq(S), NEW c \in Seq(S), IsPrefix(a, b), IsPrefix(b, c)
  PROVE  IsPrefix(a, c)
<1>1. /\ Len(a) <= Len(b) /\ Len(b) <= Len(c) /\ Len(a) \in Nat /\ Len(b) \in Nat /\ Len(c) \in Nat
      /\ \A k \in 1 .. Len(a) : a[k] = b[k]
      /\ \A k \in 1 .. Len(b) : b[k] = c[k]
  BY PrefixToPoints, LenProperties
<1>2. \A k \in 1 .. Len(a) : a[k] = c[k]
  BY <1>1
<1> QED BY <1>1, <1>2, PrefixFromPoints

(* Of two names above a third, one is above the other.                       *)
LEMMA PrefixesCompare ==
  ASSUME NEW S, NEW a \in Seq(S), NEW b \in Seq(S), NEW c \in Seq(S), IsPrefix(a, c), IsPrefix(b, c)
  PROVE  IsPrefix(a, b) \/ IsPrefix(b, a)
<1>1. /\ Len(a) \in Nat /\ Len(b) \in Nat
      /\ \A k \in 1 .. Len(a) : a[k] = c[k]
      /\ \A k \in 1 .. Len(b) : b[k] = c[k]
  BY PrefixToPoints, LenProperties
<1>2. CASE Len(a) <= Len(b)
  BY <1>1, <1>2, PrefixFromPoints
<1>3. CASE Len(b) <= Len(a)
  BY <1>1, <1>3, PrefixFromPoints
<1> QED BY <1>1, <1>2, <1>3

LEMMA AboveIsPrefix ==
  ASSUME NEW S, NEW p \in Seq(S), NEW k \in 0 .. Len(p) - 1
  PROVE  /\ SubSeq(p, 1, k) \in Seq(S) /\ IsPrefix(SubSeq(p, 1, k), p) /\ SubSeq(p, 1, k) # p
         /\ Len(SubSeq(p, 1, k)) = k
<1> DEFINE u == SubSeq(p, 1, k)
<1>1. Len(p) \in Nat /\ k \in Nat /\ k <= Len(p) /\ k # Len(p)
  BY LenProperties
<1>2. u \in Seq(S) /\ Len(u) = k /\ \A i \in 1 .. k : u[i] = p[i]
  BY <1>1, Trimming
<1> HIDE DEF u
<1>3. IsPrefix(u, p)
  BY <1>1, <1>2, PrefixFromPoints
<1> QED BY <1>1, <1>2, <1>3 DEF u

(* Nothing is below a name that nothing has.                                 *)
LEMMA NothingBelowNew ==
  ASSUME NEW S, NEW t, IsTree(t), DOMAIN t \subseteq Seq(S), NEW new \in Seq(S), new \notin DOMAIN t,
         NEW q \in Seq(S), IsPrefix(new, q)
  PROVE  q \notin DOMAIN t
<1> SUFFICES ASSUME q \in DOMAIN t PROVE FALSE
  OBVIOUS
<1> QED BY AboveIsDir DEF IsDir

(* A subtree linked at a second name: what is there is what was there.       *)
LEMMA LinkedSubtree ==
  ASSUME NEW S, NEW t, IsTree(t), DOMAIN t \subseteq Seq(S),
         NEW old \in Seq(S), NEW new \in Seq(S), new \notin DOMAIN t,
         NEW p \in Subtree(t, old)
  PROVE  LET q == MovedTo(old, new, p)
         IN  /\ q \in DOMAIN Linked(t, old, new) /\ Linked(t, old, new)[q] = t[p]
             /\ q \in Seq(S) /\ IsPrefix(new, q) /\ q \notin DOMAIN t
<1> DEFINE q == MovedTo(old, new, p)
           from == [x \in {MovedTo(old, new, y) : y \in Subtree(t, old)} |-> t[MovedTo(new, old, x)]]
<1>1. Linked(t, old, new) = [x \in DOMAIN t \cup DOMAIN from |-> IF x \in DOMAIN t THEN t[x] ELSE from[x]]
  BY DEF Linked, MovedTo
<1>2. p \in Seq(S) /\ IsPrefix(old, p)
  BY DEF Subtree
<1>3. MovedTo(new, old, q) = p
  BY <1>2, MovedBack
<1>4. q \in DOMAIN from /\ from[q] = t[p]
  BY <1>3
<1>5. q \in Seq(S) /\ IsPrefix(new, q)
  <2> DEFINE n == Len(p) - Len(old)
  <2>0. n = Len(p) - Len(old)
    OBVIOUS
  <2> HIDE DEF n
  <2>1. Moved(S, old, new, p, q, n)
    BY <1>2, <2>0, MovedFacts
  <2> HIDE DEF q
  <2>2. q \in Seq(S) /\ Len(new) <= Len(q) /\ \A i \in 1 .. Len(new) : new[i] = q[i]
    BY <2>1, LenProperties DEF Moved
  <2> QED BY <2>2, PrefixFromPoints
<1> HIDE DEF q, from
<1>6. q \notin DOMAIN t
  BY <1>5, NothingBelowNew
<1>7. q \in DOMAIN Linked(t, old, new) /\ Linked(t, old, new)[q] = t[p]
  BY <1>1, <1>4, <1>6
<1> QED BY <1>5, <1>6, <1>7 DEF q

(* A rename, of a file or of a directory with all that is in it, leaves a    *)
(* tree, also when it stops half-way, and even when it takes a directory     *)
(* below itself.                                                             *)
LEMMA LinkedTree ==
  ASSUME NEW S, NEW t, IsTree(t), DOMAIN t \subseteq Seq(S),
         NEW old \in Seq(S), NEW new \in Seq(S), new \notin DOMAIN t, IsDir(t, Front(new))
  PROVE  IsTree(Linked(t, old, new))
<1> DEFINE u == Linked(t, old, new)
<1>1. DOMAIN t \subseteq DOMAIN u /\ \A q \in DOMAIN t : u[q] = t[q]
  BY LinkedKeeps
<1>2. \A q : IsDir(t, q) => IsDir(u, q)
  BY <1>1 DEF IsDir
<1>3. ASSUME NEW q \in DOMAIN u, NEW k \in 0 .. Len(q) - 1
      PROVE  IsDir(u, SubSeq(q, 1, k))
  <2>1. CASE q \in DOMAIN t
    BY <1>2, <1>3, <2>1 DEF IsTree
  <2>2. CASE q \notin DOMAIN t
    <3>1. PICK p \in Subtree(t, old) : q = MovedTo(old, new, p)
      BY <1>3, <2>2, LinkedOrigin
    <3>2. p \in Seq(S) /\ IsPrefix(old, p) /\ p \in DOMAIN t
      BY DEF Subtree
    <3>3. q \in Seq(S) /\ Len(q) \in Nat /\ IsPrefix(new, q)
      BY <3>1, LinkedSubtree, LenProperties
    <3>4. k \in Nat /\ k < Len(q) /\ Len(new) \in Nat
      BY <1>3, <3>3, LenProperties
    <3>5. CASE Len(new) <= k
      <4>0. MovedFrom(S, old, new, p, SubSeq(q, 1, k))
        BY <3>1, <3>2, <3>4, <3>5, MovedAbove
      <4>1. PICK m \in 0 .. Len(p) - 1 :
              /\ IsPrefix(old, SubSeq(p, 1, m)) /\ SubSeq(p, 1, m) \in Seq(S)
              /\ SubSeq(q, 1, k) = MovedTo(old, new, SubSeq(p, 1, m))
        BY <4>0 DEF MovedFrom
      <4> DEFINE a == SubSeq(p, 1, m)
      <4>2. IsDir(t, a)
        BY <3>2 DEF IsTree
      <4>3. a \in Subtree(t, old) /\ t[a].dir
        BY <4>1, <4>2 DEF Subtree, IsDir
      <4> HIDE DEF a
      <4>4. LET b == MovedTo(old, new, a) IN b \in DOMAIN u /\ u[b] = t[a]
        BY <4>3, LinkedSubtree
      <4> QED BY <4>1, <4>3, <4>4 DEF IsDir, a
    <3>6. CASE ~ (Len(new) <= k)
      <4> DEFINE c == SubSeq(q, 1, k)
      <4>1. c \in Seq(S) /\ IsPrefix(c, q) /\ Len(c) = k
        BY <1>3, <3>3, AboveIsPrefix
      <4> HIDE DEF c
      <4>2. IsPrefix(c, new)
        <5>1. IsPrefix(c, new) \/ IsPrefix(new, c)
          BY <3>3, <4>1, PrefixesCompare
        <5>2. IsPrefix(new, c) => Len(new) <= k
          BY <4>1, PrefixToPoints
        <5> QED BY <3>6, <5>1, <5>2
      <4>3. c # new
        BY <3>4, <3>6, <4>1
      <4>4. IsDir(t, c)
        BY <4>1, <4>2, <4>3, AboveNewIsDir
      <4> QED BY <1>2, <4>4 DEF c
    <3> QED BY <3>5, <3>6
  <2> QED BY <2>1, <2>2
<1> QED BY <1>2, <1>3 DEF IsTree

LEMMA SubtreeTaken ==
  ASSUME NEW S, NEW t, IsTree(t), NEW old \in Seq(S), old # <<>>,
         NEW gone, gone \subseteq DOMAIN t, <<>> \notin gone, DOMAIN t \subseteq Seq(S),
         \A q \in DOMAIN t : \A d \in gone : IsPrefix(d, q) => q \in gone
  PROVE  IsTree(Restrict(t, DOMAIN t \ gone))
<1> DEFINE u == Restrict(t, DOMAIN t \ gone)
<1>1. DOMAIN u = DOMAIN t \ gone /\ \A q \in DOMAIN u : u[q] = t[q]
  BY DEF Restrict
<1> HIDE DEF u
<1>2. IsDir(u, <<>>)
  BY <1>1 DEF IsTree, IsDir
<1>3. ASSUME NEW q \in DOMAIN u, NEW k \in 0 .. Len(q) - 1 PROVE IsDir(u, SubSeq(q, 1, k))
  <2>1. q \in DOMAIN t /\ q \notin gone /\ q \in Seq(S)
    BY <1>1
  <2>2. IsDir(t, SubSeq(q, 1, k))
    BY <2>1 DEF IsTree
  <2>3. IsPrefix(SubSeq(q, 1, k), q)
    BY <2>1, AboveIsPrefix
  <2>4. SubSeq(q, 1, k) \notin gone
    BY <2>1, <2>3
  <2> QED BY <1>1, <2>2, <2>4 DEF IsDir
<1>4. IsTree(u)
  BY <1>2, <1>3 DEF IsTree
<1> QED BY <1>4 DEF u

LEMMA RenamedTree ==
  ASSUME NEW S, NEW t, IsTree(t), DOMAIN t \subseteq Seq(S),
         NEW old \in Seq(S), old # <<>>, NEW new \in Seq(S), old # new,
         new \notin DOMAIN t, IsDir(t, Front(new)),
         NEW u, u = Renamed(t, old, new) \/ (~ IsPrefix(old, new) /\ u = Linked(t, old, new))
  PROVE  IsTree(u)
<1> DEFINE gone == Subtree(t, old)
<1>1. <<>> \notin gone
  <2> SUFFICES ASSUME IsPrefix(old, <<>>) PROVE FALSE
    BY DEF Subtree
  <2>1. Len(old) <= Len(<<>>) /\ Len(old) >= 1
    BY PrefixToPoints, NonEmpty, EmptySeq
  <2> QED BY <2>1
<1>2. CASE IsPrefix(old, new)
  <2>1. u = Restrict(t, DOMAIN t \ gone)
    BY <1>2 DEF Renamed
  <2>2. \A q \in DOMAIN t : \A d \in gone : IsPrefix(d, q) => q \in gone
    BY PrefixTransitive DEF Subtree
  <2>3. gone \subseteq DOMAIN t
    BY DEF Subtree
  <2> QED BY <1>1, <2>1, <2>2, <2>3, SubtreeTaken
<1>3. CASE ~ IsPrefix(old, new)
  <2> DEFINE v == Linked(t, old, new)
  <2>1. IsTree(v) /\ DOMAIN v \subseteq Seq(S) /\ DOMAIN t \subseteq DOMAIN v
    BY LinkedTree, LinkedPaths, LinkedKeeps
  <2>2. CASE u = v
    BY <2>1, <2>2
  <2>3. CASE u = Renamed(t, old, new)
    <3>1. u = Restrict(v, DOMAIN v \ gone)
      BY <1>3, <2>3 DEF Renamed
    <3>2. gone \subseteq DOMAIN v
      BY <2>1 DEF Subtree
    <3>3. ASSUME NEW q \in DOMAIN v, NEW d \in gone, IsPrefix(d, q) PROVE q \in gone
      <4>1. d \in Seq(S) /\ IsPrefix(old, d) /\ q \in Seq(S)
        BY <2>1 DEF Subtree
      <4>2. IsPrefix(old, q)
        BY <3>3, <4>1, PrefixTransitive
      <4>3. CASE q \in DOMAIN t
        BY <4>2, <4>3 DEF Subtree
      <4>4. CASE q \notin DOMAIN t
        <5>1. PICK p \in Subtree(t, old) : q = MovedTo(old, new, p)
          BY <4>4, LinkedOrigin
        <5>2. IsPrefix(new, q)
          BY <5>1, LinkedSubtree
        <5>3. IsPrefix(new, old)
          BY <1>3, <4>1, <4>2, <5>2, PrefixesCompare
        <5>4. IsPrefix(new, d)
          BY <4>1, <5>3, PrefixTransitive
        <5>5. d \notin DOMAIN t
          BY <4>1, <5>4, NothingBelowNew
        <5> QED BY <5>5 DEF Subtree
      <4> QED BY <4>3, <4>4
    <3> HIDE DEF v, gone
    <3> QED BY <1>1, <2>1, <3>1, <3>2, <3>3, SubtreeTaken
  <2> QED BY <2>2, <2>3, <1>3
<1> QED BY <1>2, <1>3

(* A rename that succeeds: the old name and all below it is gone, the new    *)
(* one is there unless it was below the old, and no other path is new.       *)
TakenAway(t, old, new, u) ==
  /\ old \notin DOMAIN u
  /\ \A q \in DOMAIN t : IF IsPrefix(old, q) THEN q \notin DOMAIN u ELSE q \in DOMAIN u /\ u[q] = t[q]
  /\ \A q \in DOMAIN u \ DOMAIN t : IsPrefix(new, q)
  /\ IsPrefix(old, new) \/ new \in DOMAIN u

LEMMA RenamedAway ==
  ASSUME NEW S, NEW t, IsTree(t), DOMAIN t \subseteq Seq(S),
         NEW old \in Seq(S), old \in DOMAIN t, NEW new \in Seq(S), old # new, new \notin DOMAIN t
  PROVE  TakenAway(t, old, new, Renamed(t, old, new))
<1> DEFINE u == Renamed(t, old, new)
           v == Linked(t, old, new)
<1>1. IsPrefix(old, old) /\ old \in Subtree(t, old)
  BY PrefixOfItself DEF Subtree
<1>2. \A q \in DOMAIN t : ~ IsPrefix(old, q) => q \in DOMAIN u /\ u[q] = t[q]
  BY RenamedKeeps
<1>3. CASE IsPrefix(old, new)
  <2>1. u = Restrict(t, DOMAIN t \ Subtree(t, old))
    BY <1>3 DEF Renamed
  <2>2. DOMAIN u = DOMAIN t \ Subtree(t, old)
    BY <2>1 DEF Restrict
  <2> HIDE DEF u
  <2>3. TakenAway(t, old, new, u)
    BY <1>1, <1>2, <1>3, <2>2 DEF Subtree, TakenAway
  <2> QED BY <2>3 DEF u
<1>4. CASE ~ IsPrefix(old, new)
  <2>1. u = Restrict(v, DOMAIN v \ Subtree(t, old))
    BY <1>4 DEF Renamed
  <2>2. DOMAIN u = DOMAIN v \ Subtree(t, old)
    BY <2>1 DEF Restrict
  <2>3. ASSUME NEW q \in DOMAIN v, q \notin DOMAIN t PROVE IsPrefix(new, q)
    <3>1. PICK p \in Subtree(t, old) : q = MovedTo(old, new, p)
      BY <2>3, LinkedOrigin
    <3> QED BY <3>1, LinkedSubtree
  <2>4. MovedTo(old, new, old) = new
    <3>1. Len(old) + 1 > Len(old) /\ Len(old) \in Nat
      BY LenProperties
    <3>2. SubSeq(old, Len(old) + 1, Len(old)) = <<>>
      BY <3>1, SubSeqEmpty
    <3> QED BY <3>2, ConcatEmptySeq DEF MovedTo
  <2>5. new \in DOMAIN v
    BY <1>1, <2>4, LinkedSubtree
  <2>6. new \notin Subtree(t, old)
    BY <1>4 DEF Subtree
  <2> HIDE DEF u, v
  <2>7. TakenAway(t, old, new, u)
    BY <1>1, <1>2, <2>2, <2>3, <2>5, <2>6 DEF Subtree, TakenAway
  <2> QED BY <2>7 DEF u
<1> QED BY <1>3, <1>4

-----------------------------------------------------------------------------
(* Above and below a path.                                                   *)

LEMMA ParentAbove ==
  ASSUME NEW S, NEW p \in Seq(S), p # <<>>
  PROVE  Front(p) \in Seq(S) /\ IsPrefix(Front(p), p) /\ Front(p) # p
<1>1. Front(p) \in Seq(S) /\ Len(Front(p)) = Len(p) - 1 /\ Len(p) \in Nat
  BY FrontFacts, LenProperties
<1>2. p = Append(Front(p), Last(p)) /\ Last(p) \in S
  BY <1>1, FrontAndLast
<1>3. IsPrefix(Front(p), Front(p))
  BY <1>1, PrefixOfItself
<1>4. IsPrefix(Front(p), p)
  BY <1>1, <1>2, <1>3, PrefixOfLonger
<1>5. Front(p) # p
  BY <1>1
<1> QED BY <1>1, <1>4, <1>5

LEMMA ChildAbove ==
  ASSUME NEW S, NEW t, IsTree(t), DOMAIN t \subseteq Seq(S), NEW p \in Seq(S), NEW q \in DOMAIN t,
         IsPrefix(p, q), p # q
  PROVE  \E c \in Children(t, p) : IsPrefix(c, q)
<1>1. q \in Seq(S) /\ Len(p) \in Nat /\ Len(q) \in Nat
  BY LenProperties
<1>2. Len(p) <= Len(q) /\ \A k \in 1 .. Len(p) : p[k] = q[k]
  BY <1>1, PrefixPointwise
<1>3. Len(p) # Len(q)
  BY <1>1, <1>2, SeqEqual
<1> DEFINE c == SubSeq(q, 1, Len(p) + 1)
<1>4. /\ c \in Seq(S) /\ Len(c) = Len(p) + 1
      /\ \A k \in 1 .. Len(p) + 1 : c[k] = q[k]
  BY <1>1, <1>2, <1>3, Trimming
<1>5. c \in DOMAIN t
  <2>1. CASE Len(p) + 1 = Len(q)
    BY <2>1, <1>1, SubSeqFull
  <2>2. CASE Len(p) + 1 # Len(q)
    <3>1. Len(p) + 1 \in 0 .. Len(q) - 1
      BY <2>2, <1>1, <1>2, <1>3
    <3> QED BY <3>1 DEF IsTree, IsDir
  <2> QED BY <2>1, <2>2
<1> HIDE DEF c
<1>6. c # <<>>
  BY <1>1, <1>4, EmptySeq
<1>7. Front(c) = p
  <2>1. /\ Front(c) \in Seq(S) /\ Len(Front(c)) = Len(c) - 1
        /\ \A i \in 1 .. Len(c) - 1 : Front(c)[i] = c[i]
    BY <1>4, <1>6, FrontFacts
  <2>2. Len(Front(c)) = Len(p) /\ \A i \in 1 .. Len(p) : Front(c)[i] = p[i]
    BY <2>1, <1>1, <1>2, <1>4
  <2> QED BY <1>1, <2>1, <2>2, SeqEqual
<1>8. IsPrefix(c, q)
  <2>1. Len(c) <= Len(q) /\ \A k \in 1 .. Len(c) : c[k] = q[k]
    BY <1>1, <1>2, <1>3, <1>4
  <2> QED BY <1>1, <1>4, <2>1, PrefixFromPoints
<1> QED BY <1>5, <1>6, <1>7, <1>8 DEF Children

LEMMA MovedTop ==
  ASSUME NEW S, NEW p \in Seq(S), NEW g \in Seq(S)
  PROVE  MovedTo(p, g, p) = g
<1>1. Len(p) \in Nat /\ Len(g) \in Nat /\ 0 = Len(p) - Len(p) /\ IsPrefix(p, p)
  BY LenProperties, PrefixOfItself
<1> DEFINE u == MovedTo(p, g, p)
<1>2. Moved(S, p, g, p, u, 0)
  BY <1>1, MovedFacts
<1> HIDE DEF u
<1>3. u \in Seq(S) /\ Len(u) = Len(g) /\ \A i \in 1 .. Len(g) : u[i] = g[i]
  BY <1>1, <1>2 DEF Moved
<1> QED BY <1>3, SeqEqual DEF u

LEMMA MovedBelow ==
  ASSUME NEW S, NEW p \in Seq(S), NEW g \in Seq(S), NEW e \in S, NEW q \in Seq(S),
         IsPrefix(Append(p, e), q)
  PROVE  MovedTo(Append(p, e), Append(g, e), q) = MovedTo(p, g, q)
<1> DEFINE c == Append(p, e)
           d == Append(g, e)
           u == MovedTo(c, d, q)
           v == MovedTo(p, g, q)
           n == Len(q) - Len(p)
           m == Len(q) - Len(c)
<1>1. /\ c \in Seq(S) /\ Len(c) = Len(p) + 1 /\ c[Len(p) + 1] = e
      /\ d \in Seq(S) /\ Len(d) = Len(g) + 1 /\ d[Len(g) + 1] = e
      /\ \A i \in 1 .. Len(p) : c[i] = p[i]
      /\ \A i \in 1 .. Len(g) : d[i] = g[i]
  BY AppendProperties
<1>2. Len(p) \in Nat /\ Len(g) \in Nat /\ Len(q) \in Nat
  BY LenProperties
<1>6. IsPrefix(c, q)
  OBVIOUS
<1> HIDE DEF c, d
<1>3. Len(c) <= Len(q) /\ \A i \in 1 .. Len(c) : c[i] = q[i]
  BY <1>1, <1>6, PrefixToPoints
<1>4. q[Len(p) + 1] = e
  <2>1. Len(p) + 1 \in 1 .. Len(c)
    BY <1>1, <1>2
  <2> QED BY <1>1, <1>3, <2>1
<1>5. IsPrefix(p, q)
  <2>1. Len(p) <= Len(q) /\ \A i \in 1 .. Len(p) : p[i] = q[i]
    BY <1>1, <1>2, <1>3
  <2> QED BY <2>1, PrefixFromPoints
<1>7. n = Len(q) - Len(p) /\ m = Len(q) - Len(c) /\ n = m + 1
  BY <1>1, <1>2
<1> HIDE DEF n, m, u, v
<1>8. Moved(S, c, d, q, u, m)
  BY <1>1, <1>6, <1>7, MovedFacts DEF u
<1>9. Moved(S, p, g, q, v, n)
  BY <1>5, <1>7, MovedFacts DEF v
<1>10. /\ u \in Seq(S) /\ v \in Seq(S) /\ m \in Nat /\ n \in Nat
       /\ Len(u) = Len(d) + m /\ Len(v) = Len(g) + n
       /\ \A i \in 1 .. Len(d) : u[i] = d[i]
       /\ \A i \in 1 .. m : u[Len(d) + i] = q[Len(c) + i]
       /\ \A i \in 1 .. Len(g) : v[i] = g[i]
       /\ \A i \in 1 .. n : v[Len(g) + i] = q[Len(p) + i]
  BY <1>8, <1>9 DEF Moved
<1>11. Len(u) = Len(v)
  BY <1>1, <1>2, <1>7, <1>10
<1>12. ASSUME NEW k \in 1 .. Len(u) PROVE u[k] = v[k]
  <2>1. CASE k <= Len(g)
    <3>1. k \in 1 .. Len(g) /\ k \in 1 .. Len(d)
      BY <1>1, <1>2, <2>1
    <3> QED BY <1>1, <1>10, <3>1
  <2>2. CASE k = Len(g) + 1
    <3>1. k \in 1 .. Len(d) /\ 1 \in 1 .. n /\ k = Len(g) + 1
      BY <1>1, <1>2, <1>7, <1>10, <2>2
    <3>2. u[k] = e
      BY <1>1, <1>10, <3>1
    <3>3. v[Len(g) + 1] = q[Len(p) + 1]
      BY <1>10, <3>1
    <3> QED BY <1>4, <3>1, <3>2, <3>3
  <2>3. CASE k > Len(g) + 1
    <3> DEFINE i == k - Len(d)
               j == i + 1
    <3>1. /\ i \in 1 .. m /\ Len(d) + i = k /\ j \in 1 .. n /\ Len(g) + j = k
          /\ Len(c) + i = Len(p) + j
      BY <1>1, <1>2, <1>7, <1>10, <1>11, <2>3
    <3> HIDE DEF i, j
    <3>2. u[Len(d) + i] = q[Len(c) + i] /\ v[Len(g) + j] = q[Len(p) + j]
      BY <1>10, <3>1
    <3> QED BY <3>1, <3>2
  <2> QED BY <1>1, <1>2, <1>10, <2>1, <2>2, <2>3
<1>13. u = v
  BY <1>10, <1>11, <1>12, SeqEqual
<1> QED BY <1>13 DEF u, v, c, d

-----------------------------------------------------------------------------
(* Taking a leaf from a tree leaves a tree, with nothing below the leaf.     *)

LEMMA NothingBelowLeaf ==
  ASSUME NEW S, NEW t, IsTree(t), DOMAIN t \subseteq Seq(S),
         NEW p \in DOMAIN t, Children(t, p) = {},
         NEW q \in DOMAIN t, IsPrefix(p, q)
  PROVE  q = p
BY ChildAbove

LEMMA LeafRemoved ==
  ASSUME NEW S, NEW t, IsTree(t), DOMAIN t \subseteq Seq(S),
         NEW p \in DOMAIN t, p # <<>>, Children(t, p) = {}
  PROVE  IsTree(Without(t, p)) /\ Subtree(Without(t, p), p) = {}
<1>1. /\ DOMAIN Without(t, p) = DOMAIN t \ {p}
      /\ \A q \in DOMAIN t \ {p} : Without(t, p)[q] = t[q]
  BY WithoutOne
<1>2. \A q \in DOMAIN t : IsPrefix(p, q) => q = p
  BY NothingBelowLeaf
<1>3. Subtree(Without(t, p), p) = {}
  BY <1>1, <1>2 DEF Subtree
<1>4. IsDir(Without(t, p), <<>>)
  BY <1>1 DEF IsTree, IsDir
<1>5. ASSUME NEW q \in DOMAIN t, q # p, NEW k \in 0 .. Len(q) - 1
      PROVE  IsDir(Without(t, p), SubSeq(q, 1, k))
  <2>1. q \in Seq(S) /\ Len(q) \in Nat
    BY LenProperties
  <2>2. IsDir(t, SubSeq(q, 1, k))
    BY DEF IsTree
  <2>3. SubSeq(q, 1, k) # p
    <3> SUFFICES ASSUME SubSeq(q, 1, k) = p PROVE FALSE
      OBVIOUS
    <3>1. Len(p) = k /\ \A i \in 1 .. k : p[i] = q[i]
      BY <2>1, Trimming
    <3>2. IsPrefix(p, q)
      BY <2>1, <3>1, PrefixPointwise
    <3> QED BY <3>2, <1>2, <1>5
  <2> QED BY <2>2, <2>3, <1>1 DEF IsDir
<1>6. IsTree(Without(t, p))
  BY <1>1, <1>4, <1>5 DEF IsTree
<1> QED BY <1>3, <1>6

LEMMA UnlinkTree ==
  ASSUME NEW S, NEW t, IsTree(t), DOMAIN t \subseteq Seq(S),
         NEW f, NEW p, NEW faulty, NEW o \in Unlink(t, f, p, faulty)
  PROVE  IsTree(o.tree)
<1>1. CASE o.tree = t
  BY <1>1
<1>2. CASE UnlinkResult(t, f, p) = "FR_OK" /\ o.tree = Without(t, p)
  BY <1>2, UnlinkedLeaf, LeafRemoved
<1> QED BY <1>1, <1>2, UnlinkOutcome

(* A new entry in a directory leaves a tree, and so does another content of  *)
(* a file.                                                                   *)
LEMMA EntryAdded ==
  ASSUME NEW S, NEW t, IsTree(t), DOMAIN t \subseteq Seq(S),
         NEW p \in Seq(S), p \notin DOMAIN t, IsDir(t, Front(p)), NEW node
  PROVE  IsTree(With(t, p, node))
<1> DEFINE u == With(t, p, node)
<1>1. DOMAIN u = DOMAIN t \cup {p} /\ \A q \in DOMAIN t : u[q] = t[q]
  BY DEF With
<1> HIDE DEF u
<1>2. ASSUME NEW d, IsDir(t, d) PROVE IsDir(u, d)
  BY <1>1, <1>2 DEF IsDir
<1>3. IsDir(u, <<>>)
  BY <1>2 DEF IsTree
<1>4. ASSUME NEW q \in DOMAIN t, NEW k \in 0 .. Len(q) - 1 PROVE IsDir(u, SubSeq(q, 1, k))
  BY <1>2 DEF IsTree
<1>5. ASSUME NEW k \in 0 .. Len(p) - 1 PROVE IsDir(u, SubSeq(p, 1, k))
  <2>1. Len(p) \in Nat /\ k \in Nat /\ k <= Len(p) /\ k # Len(p)
    BY LenProperties
  <2>2. /\ SubSeq(p, 1, k) \in Seq(S) /\ Len(SubSeq(p, 1, k)) = k
        /\ \A i \in 1 .. k : SubSeq(p, 1, k)[i] = p[i]
    BY <2>1, Trimming
  <2>3. IsPrefix(SubSeq(p, 1, k), p)
    BY <2>1, <2>2, PrefixFromPoints
  <2>4. SubSeq(p, 1, k) # p
    BY <2>1, <2>2
  <2> QED BY <2>2, <2>3, <2>4, AboveNewIsDir, <1>2
<1>6. IsTree(u)
  BY <1>1, <1>3, <1>4, <1>5 DEF IsTree
<1> QED BY <1>6 DEF u

LEMMA FileRewritten ==
  ASSUME NEW t, IsTree(t), NEW p, ~ t[p].dir, NEW u, DOMAIN u = DOMAIN t,
         \A q \in DOMAIN t : q # p => u[q] = t[q]
  PROVE  IsTree(u)
<1>1. ASSUME NEW d, IsDir(t, d) PROVE IsDir(u, d)
  BY <1>1 DEF IsDir
<1>2. IsDir(u, <<>>)
  BY <1>1 DEF IsTree
<1>3. ASSUME NEW q \in DOMAIN u, NEW k \in 0 .. Len(q) - 1 PROVE IsDir(u, SubSeq(q, 1, k))
  BY <1>1 DEF IsTree
<1> QED BY <1>2, <1>3 DEF IsTree

-----------------------------------------------------------------------------
(* What a word of the command line may name.                                 *)
OfWord(w) == IF w.glob THEN {Append(Front(w.path), n) : n \in w.match} ELSE {w.path}

LEMMA WordNames ==
  ASSUME NEW args, NEW w \in Range(args)
  PROVE  OfWord(w) \subseteq NamedBy(args)
BY DEF OfWord, NamedBy

LEMMA OneWord ==
  ASSUME NEW w
  PROVE  NamedBy(<<w>>) = OfWord(w)
<1>1. Range(<<w>>) = {w}
  BY DEF Range
<1> QED BY <1>1 DEF NamedBy, OfWord

LEMMA OwnName ==
  ASSUME NEW ns, NEW w \in Word(ns)
  PROVE  w.path \in Seq(ns) /\ w.path \in OfWord(w)
<1>1. w.path \in Seq(ns) /\ (w.glob => w.path # <<>> /\ Last(w.path) \in w.match)
  BY DEF Word
<1>2. CASE w.glob
  <2>1. w.path = Append(Front(w.path), Last(w.path))
    BY <1>1, <1>2, FrontAndLast
  <2> QED BY <1>1, <1>2, <2>1 DEF OfWord
<1>3. CASE ~ w.glob
  BY <1>1, <1>3 DEF OfWord
<1> QED BY <1>2, <1>3

-----------------------------------------------------------------------------
(* An enumeration whose words and entries are those of a command line.       *)
Entries(ns) == [path : Seq(ns), kind : {"file", "dir"}]
Enumerations(ns) == [todo : Seq(Word(ns)), listing : SUBSET Entries(ns)]

From(e, ns, words, paths) ==
  /\ e \in Enumerations(ns)
  /\ Range(e.todo) \subseteq words
  /\ \A x \in e.listing : x.path \in paths

LEMMA RestOfWords ==
  ASSUME NEW ns, NEW todo \in Seq(Word(ns)), todo # <<>>
  PROVE  /\ Head(todo) \in Word(ns) /\ Head(todo) \in Range(todo)
         /\ Tail(todo) \in Seq(Word(ns)) /\ Range(Tail(todo)) \subseteq Range(todo)
<1>1. Len(todo) \in Nat /\ Len(todo) >= 1 /\ DOMAIN todo = 1 .. Len(todo)
  BY NonEmpty
<1>2. /\ Head(todo) \in Word(ns) /\ Tail(todo) \in Seq(Word(ns)) /\ Len(Tail(todo)) = Len(todo) - 1
      /\ \A i \in 1 .. Len(Tail(todo)) : Tail(todo)[i] = todo[i+1]
  BY HeadTailProperties
<1>3. Head(todo) = todo[1]
  OBVIOUS
<1>4. Head(todo) \in Range(todo)
  BY <1>1, <1>3 DEF Range
<1>5. ASSUME NEW i \in DOMAIN Tail(todo) PROVE Tail(todo)[i] \in Range(todo)
  <2>1. i \in 1 .. Len(Tail(todo))
    BY <1>2, LenProperties
  <2>2. i + 1 \in DOMAIN todo /\ Tail(todo)[i] = todo[i+1]
    BY <1>1, <1>2, <2>1
  <2> QED BY <2>2 DEF Range
<1> QED BY <1>2, <1>4, <1>5 DEF Range

LEMMA ListedNames ==
  ASSUME NEW ns, NEW t, DOMAIN t \subseteq Seq(ns),
         NEW w \in Word(ns), w.glob, NEW x \in Listing(t, w)
  PROVE  x.path \in OfWord(w) /\ x \in Entries(ns)
<1>1. /\ x.path \in DOMAIN t /\ x.path # <<>> /\ Front(x.path) = Front(w.path)
      /\ Last(x.path) \in w.match
  BY DEF Listing, Children
<1>2. x.path = Append(Front(w.path), Last(x.path))
  BY <1>1, FrontAndLast
<1>3. x \in Entries(ns)
  BY DEF Listing, Children, Kind, Entries
<1> QED BY <1>1, <1>2, <1>3 DEF OfWord

LEMMA FromListingNames ==
  ASSUME NEW ns, NEW words, NEW paths, NEW e, From(e, ns, words, paths),
         NEW listing, listing \subseteq Entries(ns),
         \A x \in listing : x.path \in paths,
         NEW a \in FromListing(e, listing)
  PROVE  From(a.enum, ns, words, paths) /\ a.path \in paths /\ a.path \in Seq(ns)
<1>1. PICK x \in listing : a = Returned([e EXCEPT !.listing = listing \ {x}], x.path, x.kind)
  BY DEF FromListing
<1> DEFINE e2 == [e EXCEPT !.listing = listing \ {x}]
<1>2. e2 \in Enumerations(ns) /\ e2.todo = e.todo /\ e2.listing = listing \ {x}
  BY DEF From, Enumerations
<1>3. a.path = x.path /\ a.enum = e2
  BY <1>1 DEF Returned
<1> HIDE DEF e2
<1>4. x.path \in paths /\ x.path \in Seq(ns)
  BY DEF Entries
<1> QED BY <1>2, <1>3, <1>4 DEF From

(* next_arg: it hands out what the words may name, and keeps to the words.   *)
LEMMA NextArgNames ==
  ASSUME NEW ns, NEW words, NEW paths, \A w \in words : OfWord(w) \subseteq paths,
         NEW e, From(e, ns, words, paths), e.todo # <<>> \/ e.listing # {},
         NEW t, DOMAIN t \subseteq Seq(ns), NEW f, NEW faulty,
         NEW a \in NextArg(t, f, e, faulty)
  PROVE  From(a.enum, ns, words, paths) /\ a.path \in paths /\ a.path \in Seq(ns)
<1>1. CASE e.listing # {}
  <2>1. a \in FromListing(e, e.listing)
    BY <1>1 DEF NextArg
  <2>2. /\ e.listing \subseteq Entries(ns)
        /\ \A x \in e.listing : x.path \in paths
    BY DEF From, Enumerations
  <2> QED BY <2>1, <2>2, FromListingNames
<1>2. CASE e.listing = {}
  <2> DEFINE word == Head(e.todo)
             rest == [e EXCEPT !.todo = Tail(e.todo)]
  <2>1. /\ word \in Word(ns) /\ word \in words
        /\ Tail(e.todo) \in Seq(Word(ns)) /\ Range(Tail(e.todo)) \subseteq words
    <3>1. e.todo \in Seq(Word(ns)) /\ e.todo # <<>> /\ Range(e.todo) \subseteq words
      BY <1>2 DEF From, Enumerations
    <3> QED BY <3>1, RestOfWords
  <2>2. word.path \in Seq(ns) /\ word.path \in paths
    BY <2>1, OwnName
  <2>3. rest \in Enumerations(ns) /\ rest.todo = Tail(e.todo) /\ rest.listing = {}
    BY <1>2, <2>1 DEF From, Enumerations
  <2>4. From(rest, ns, words, paths)
    BY <2>1, <2>3 DEF From
  <2>5. From(Enumeration(<<>>), ns, words, paths)
    <3>1. <<>> \in Seq(Word(ns)) /\ Range(<<>>) = {}
      BY EmptySeq DEF Range
    <3> QED BY <3>1 DEF From, Enumeration, Enumerations
  <2>6. \/ \E kind : a = Returned(rest, word.path, kind)
        \/ a = Aborted(word.path)
        \/ word.glob /\ a \in FromListing(rest, Listing(t, word))
    BY <1>2 DEF NextArg
  <2> HIDE DEF word, rest
  <2>7. ASSUME NEW kind, a = Returned(rest, word.path, kind)
        PROVE  a.enum = rest /\ a.path = word.path
    BY <2>7 DEF Returned
  <2>8. a = Aborted(word.path) => a.enum = Enumeration(<<>>) /\ a.path = word.path
    BY DEF Aborted
  <2>9. ASSUME word.glob, a \in FromListing(rest, Listing(t, word))
        PROVE  From(a.enum, ns, words, paths) /\ a.path \in paths /\ a.path \in Seq(ns)
    <3>1. /\ Listing(t, word) \subseteq Entries(ns)
          /\ \A x \in Listing(t, word) : x.path \in paths
      BY <2>1, <2>9, ListedNames
    <3> QED BY <2>4, <2>9, <3>1, FromListingNames
  <2> QED BY <2>2, <2>4, <2>5, <2>6, <2>7, <2>8, <2>9
<1> QED BY <1>1, <1>2

(* Its error is a truth value, and the kind one of three.                    *)
LEMMA NextArgError ==
  ASSUME NEW t, NEW f, NEW e, NEW faulty, NEW a \in NextArg(t, f, e, faulty)
  PROVE  a.err \in BOOLEAN
<1>1. ASSUME NEW x, NEW p, NEW kind
      PROVE  Returned(x, p, kind).err = FALSE /\ Aborted(p).err = TRUE
  BY DEF Returned, Aborted
<1>2. ASSUME NEW x, NEW listing, a \in FromListing(x, listing) PROVE a.err \in BOOLEAN
  <2>1. PICK r \in listing : a = Returned([x EXCEPT !.listing = listing \ {r}], r.path, r.kind)
    BY <1>2 DEF FromListing
  <2>2. a.err = FALSE
    BY <1>1, <2>1
  <2> QED BY <2>2
<1> DEFINE word == Head(e.todo)
           rest == [e EXCEPT !.todo = Tail(@)]
<1>3. \/ \E listing : a \in FromListing(e, listing)
      \/ \E p : a = Aborted(p)
      \/ \E p, kind : a = Returned(rest, p, kind)
      \/ \E listing : a \in FromListing(rest, listing)
  <2>1. CASE e.listing # {}
    BY <2>1 DEF NextArg
  <2>2. CASE e.listing = {} /\ ~ word.glob
    BY <2>2 DEF NextArg
  <2>3. CASE e.listing = {} /\ word.glob
    BY <2>3 DEF NextArg
  <2> QED BY <2>1, <2>2, <2>3
<1> QED BY <1>1, <1>2, <1>3

LEMMA NextArgKind ==
  ASSUME NEW ns, NEW words, NEW paths, NEW e, From(e, ns, words, paths),
         NEW t, DOMAIN t \subseteq Seq(ns), e.todo # <<>> \/ e.listing # {}, NEW f, NEW faulty,
         NEW a \in NextArg(t, f, e, faulty)
  PROVE  a.kind \in {"none", "file", "dir"}
<1>1. ASSUME NEW x, NEW p, NEW kind
      PROVE  Returned(x, p, kind).kind = kind /\ Aborted(p).kind = "none"
  BY DEF Returned, Aborted
<1>2. ASSUME NEW x, NEW listing, a \in FromListing(x, listing),
             \A y \in listing : y.kind \in {"none", "file", "dir"}
      PROVE  a.kind \in {"none", "file", "dir"}
  <2>1. PICK r \in listing : a = Returned([x EXCEPT !.listing = listing \ {r}], r.path, r.kind)
    BY <1>2 DEF FromListing
  <2>2. a.kind = r.kind
    BY <1>1, <2>1
  <2> QED BY <1>2, <2>2
<1>3. CASE e.listing # {}
  <2>1. \A y \in e.listing : y.kind \in {"none", "file", "dir"}
    BY DEF From, Enumerations, Entries
  <2>2. a \in FromListing(e, e.listing)
    BY <1>3 DEF NextArg
  <2> QED BY <1>2, <2>1, <2>2
<1>4. CASE e.listing = {}
  <2> DEFINE word == Head(e.todo)
             rest == [e EXCEPT !.todo = Tail(@)]
  <2>1. \/ \E p : a = Aborted(p)
        \/ a = Returned(rest, word.path, Kind(t, word.path))
        \/ a = Returned(rest, word.path, "none")
        \/ a \in FromListing(rest, Listing(t, word))
    <3>1. CASE ~ word.glob
      BY <1>4, <3>1 DEF NextArg
    <3>2. CASE word.glob
      BY <1>4, <3>2 DEF NextArg
    <3> QED BY <3>1, <3>2
  <2>2. \A y \in Listing(t, word) : y.kind \in {"none", "file", "dir"}
    BY DEF Listing, Kind
  <2>3. Kind(t, word.path) \in {"none", "file", "dir"}
    BY DEF Kind
  <2> HIDE DEF word, rest
  <2> QED BY <1>1, <1>2, <2>1, <2>2, <2>3
<1> QED BY <1>3, <1>4

LEMMA FreshEnumeration ==
  ASSUME NEW ns, NEW words, NEW paths, NEW todo \in Seq(Word(ns)), Range(todo) \subseteq words
  PROVE  From(Enumeration(todo), ns, words, paths)
BY DEF From, Enumeration, Enumerations

(* The paths an enumeration has still to come to.                            *)
Awaits(e) == {x.path : x \in e.listing} \cup UNION {OfWord(w) : w \in Range(e.todo)}

LEMMA AwaitsLine ==
  ASSUME NEW args
  PROVE  Awaits(Enumeration(args)) = NamedBy(args)
BY DEF Awaits, Enumeration, NamedBy, OfWord

LEMMA ListedAll ==
  ASSUME NEW ns, NEW t, DOMAIN t \subseteq Seq(ns), NEW w \in Word(ns), w.glob,
         NEW p \in OfWord(w), p \in DOMAIN t
  PROVE  \E x \in Listing(t, w) : x.path = p
<1>1. w.path \in Seq(ns) /\ w.path # <<>> /\ w.match \subseteq ns
  BY DEF Word
<1>2. PICK n \in w.match : p = Append(Front(w.path), n)
  BY DEF OfWord
<1>3. Front(p) = Front(w.path) /\ Last(p) = n /\ p # <<>>
  BY <1>1, <1>2, FrontFacts, FrontOfAppend
<1>4. p \in {q \in Children(t, Front(w.path)) : Last(q) \in w.match}
  BY <1>3 DEF Children
<1>5. [path |-> p, kind |-> Kind(t, p)] \in Listing(t, w)
  BY <1>4 DEF Listing
<1> QED BY <1>5

Outstanding(e, a, t) ==
  \A p \in Awaits(e) : p \in Awaits(a.enum) \/ (p = a.path /\ a.kind # "none") \/ p \notin DOMAIN t

(* On a sound medium nothing is passed over in silence: what next_arg was    *)
(* still to come to, it comes to now or later, or it is not there.           *)
LEMMA NextArgAwaits ==
  ASSUME NEW ns, NEW words, NEW paths, NEW e, From(e, ns, words, paths),
         e.todo # <<>> \/ e.listing # {}, NEW t, DOMAIN t \subseteq Seq(ns), NEW f,
         NEW a \in NextArg(t, f, e, FALSE), a.err = FALSE
  PROVE  Outstanding(e, a, t)
<1> USE DEF Outstanding
<1>1. ASSUME NEW x, NEW p, NEW kind, a = Returned(x, p, kind)
      PROVE  a.enum = x /\ a.path = p /\ a.kind = kind
  BY <1>1 DEF Returned
<1>5. ASSUME NEW p PROVE a # Aborted(p)
  BY DEF Aborted
<1>2. e \in Enumerations(ns) /\ e.listing \subseteq Entries(ns)
  BY DEF From, Enumerations
<1>3. CASE e.listing # {}
  <2>1. PICK x \in e.listing : a = Returned([e EXCEPT !.listing = e.listing \ {x}], x.path, x.kind)
    BY <1>3 DEF NextArg, FromListing
  <2> DEFINE e2 == [e EXCEPT !.listing = e.listing \ {x}]
  <2>2. e2.todo = e.todo /\ e2.listing = e.listing \ {x}
    BY <1>2 DEF Enumerations
  <2>3. a.enum = e2 /\ a.path = x.path /\ a.kind = x.kind
    BY <1>1, <2>1
  <2>4. x.kind # "none"
    BY <1>2 DEF Entries
  <2> HIDE DEF e2
  <2>5. ASSUME NEW p \in Awaits(e) PROVE p \in Awaits(e2) \/ p = x.path
    BY <2>2 DEF Awaits
  <2> QED BY <2>3, <2>4, <2>5
<1>4. CASE e.listing = {}
  <2> DEFINE word == Head(e.todo)
             rest == [e EXCEPT !.todo = Tail(e.todo)]
  <2>1. word \in Word(ns) /\ Range(e.todo) \subseteq {word} \cup Range(Tail(e.todo))
    <3>1. e.todo \in Seq(Word(ns)) /\ e.todo # <<>>
      BY <1>2, <1>4 DEF Enumerations
    <3>2. word \in Word(ns)
      BY <3>1, RestOfWords
    <3>3. /\ Len(e.todo) \in Nat /\ DOMAIN e.todo = 1 .. Len(e.todo)
          /\ Tail(e.todo) \in Seq(Word(ns)) /\ Len(Tail(e.todo)) = Len(e.todo) - 1 /\ word = e.todo[1]
          /\ \A i \in 1 .. Len(Tail(e.todo)) : Tail(e.todo)[i] = e.todo[i + 1]
      BY <3>1, NonEmpty, HeadTailProperties
    <3>4. ASSUME NEW i \in DOMAIN e.todo, i # 1 PROVE e.todo[i] \in Range(Tail(e.todo))
      <4> DEFINE j == i - 1
      <4>1. j \in 1 .. Len(Tail(e.todo)) /\ j + 1 = i
        BY <3>3, <3>4
      <4> HIDE DEF j
      <4>2. j \in DOMAIN Tail(e.todo) /\ Tail(e.todo)[j] = e.todo[i]
        BY <3>3, <4>1
      <4> QED BY <4>2 DEF Range
    <3>5. \A w \in Range(e.todo) : w = word \/ w \in Range(Tail(e.todo))
      BY <3>3, <3>4 DEF Range
    <3> QED BY <3>2, <3>5
  <2>2. rest.todo = Tail(e.todo) /\ rest.listing = {}
    BY <1>2, <1>4 DEF Enumerations
  <2>3. rest \in [todo : {Tail(e.todo)}, listing : {{}}]
    BY <1>2, <1>4 DEF Enumerations
  <2>4. \/ a = Aborted(word.path)
        \/ ~ word.glob /\ a = Returned(rest, word.path, Kind(t, word.path))
        \/ word.glob /\ Listing(t, word) = {} /\ a = Returned(rest, word.path, "none")
        \/ word.glob /\ a \in FromListing(rest, Listing(t, word))
    <3>1. CASE ~ word.glob
      BY <1>4, <3>1 DEF NextArg
    <3>2. CASE word.glob
      BY <1>4, <3>2 DEF NextArg
    <3> QED BY <3>1, <3>2
  <2> HIDE DEF word, rest
  <2>5. ASSUME NEW p \in Awaits(e) PROVE p \in OfWord(word) \/ p \in Awaits(rest)
    BY <1>4, <2>1, <2>2 DEF Awaits
  <2>6. CASE ~ word.glob /\ a = Returned(rest, word.path, Kind(t, word.path))
    <3>1. OfWord(word) = {word.path}
      BY <2>6 DEF OfWord
    <3>2. word.path \in DOMAIN t => Kind(t, word.path) # "none"
      BY DEF Kind
    <3>3. a.enum = rest /\ a.path = word.path /\ a.kind = Kind(t, word.path)
      BY <1>1, <2>6
    <3> QED BY <2>5, <3>1, <3>2, <3>3
  <2>7. CASE word.glob /\ Listing(t, word) = {} /\ a = Returned(rest, word.path, "none")
    <3>1. a.enum = rest
      BY <1>1, <2>7
    <3> QED BY <2>1, <2>5, <2>7, <3>1, ListedAll
  <2>8. CASE word.glob /\ a \in FromListing(rest, Listing(t, word))
    <3>1. PICK x \in Listing(t, word) :
            a = Returned([rest EXCEPT !.listing = Listing(t, word) \ {x}], x.path, x.kind)
      BY <2>8 DEF FromListing
    <3> DEFINE e2 == [rest EXCEPT !.listing = Listing(t, word) \ {x}]
    <3>2. e2.todo = rest.todo /\ e2.listing = Listing(t, word) \ {x}
      BY <2>3
    <3>3. a.enum = e2 /\ a.path = x.path /\ a.kind = x.kind
      BY <1>1, <3>1
    <3>4. x.kind # "none"
      <4>1. x \in Entries(ns)
        BY <2>1, <2>8, ListedNames
      <4> QED BY <4>1 DEF Entries
    <3> HIDE DEF e2
    <3>5. ASSUME NEW p \in Awaits(rest) PROVE p \in Awaits(e2)
      BY <2>2, <3>2 DEF Awaits
    <3>6. ASSUME NEW p \in OfWord(word), p \in DOMAIN t PROVE p \in Awaits(e2) \/ p = x.path
      <4>1. PICK y \in Listing(t, word) : y.path = p
        BY <2>1, <2>8, <3>6, ListedAll
      <4> QED BY <3>2, <4>1 DEF Awaits
    <3> QED BY <2>5, <3>3, <3>4, <3>5, <3>6
  <2> QED BY <1>5, <2>4, <2>6, <2>7, <2>8
<1> QED BY <1>3, <1>4

=============================================================================
