------------------------------ MODULE MCVolume ------------------------------
(* Finite instances of Volume: six clusters of two sectors, two entries or   *)
(* units of data in each, and four links in a sector of the FAT.             *)
EXTENDS VolumeMeaning

a == "a"
b == "b"
c == "c"
d == "d"

MCNames == {a, b, c, d}
MCUnits == MCNames \cup {"0", "old"}

File(name, clust, size) == Ent(name, FALSE, clust, size)
Dir(name, clust) == Ent(name, TRUE, clust, 0)

(* A cluster of four entries, one of four units, and one that nobody uses,   *)
(* with what is left of a file in it.                                        *)
Table(clust, e) ==
  Sector(clust, 0) :> [Zeros EXCEPT !.ents = <<e[1], e[2]>>]
  @@ Sector(clust, 1) :> [Zeros EXCEPT !.ents = <<e[3], e[4]>>]
Filled(clust, x) ==
  Sector(clust, 0) :> DataSector(<<x, x>>) @@ Sector(clust, 1) :> DataSector(<<x, x>>)

FatOf(links) ==
  [s \in {FatSector(0), FatSector(4)} |->
     [fat |-> [k \in {n \in 0 .. 7 : FatSector(n) = s} |->
                 IF k < 2 THEN EndOfChain ELSE links[k - 1]],
      ents |-> <<>>, data |-> <<>>]]

E == EndOfChain

(* The directory d has no free entry, and the next one stretches it.         *)
FullDirectory ==
  FatOf(<<E, E, E, E, 0, 0>>) @@ Info :> InfoSector(2, 5)
  @@ Table(2, <<File(a, 3, 3), Dir(d, 4), FreeEnt, FreeEnt>>)
  @@ Filled(3, a)
  @@ Table(4, <<Dir(".", 4), Dir("..", 0), File(a, 5, 1), File(b, 0, 0)>>)
  @@ Filled(5, a) @@ Filled(6, "old") @@ Filled(7, "old")

(* A file in two fragments, in two sectors of the FAT, and one free cluster. *)
NearlyFull ==
  FatOf(<<E, 6, E, E, E, 0>>) @@ Info :> InfoSector(1, 6)
  @@ Table(2, <<File(a, 3, 6), Dir(d, 4), DeletedEnt, FreeEnt>>)
  @@ Filled(3, a) @@ Filled(6, a)
  @@ Table(4, <<Dir(".", 4), Dir("..", 0), File(c, 5, 4), FreeEnt>>)
  @@ Filled(5, c) @@ Filled(7, "old")

MCMedia == {FullDirectory, NearlyFull}

MCPaths == {<<a>>, <<d>>, <<d, c>>}

MCRenames == {<<<<a>>, <<d, c>>>>, <<<<d>>, <<b>>>>, <<<<d>>, <<a, b>>>>}
=============================================================================
