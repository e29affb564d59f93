------------------------------ MODULE MCRmdirR ------------------------------
(* Finite instances of RmdirR.                                               *)
EXTENDS RmdirR

CONSTANTS a, b

D == DirNode
F == FileNode("x", FALSE)
R == FileNode("x", TRUE)

(* A chain of three nested directories with files on the way; the same with  *)
(* a read-only file at its bottom; two sub-directories side by side.         *)
Deep(bottom) ==
  <<>> :> D @@ <<a>> :> D @@ <<b>> :> F @@ <<a, a>> :> D @@ <<a, b>> :> F
  @@ <<a, a, a>> :> D @@ <<a, a, b>> :> D @@ <<a, a, a, a>> :> bottom
Wide ==
  <<>> :> D @@ <<a>> :> D @@ <<a, a>> :> D @@ <<a, b>> :> D @@ <<a, a, b>> :> F
  @@ <<a, b, a>> :> F @@ <<b>> :> D @@ <<b, a>> :> F

MCInitTrees == {Deep(F), Deep(R), Wide}
MCNames == {a, b}
=============================================================================
