------------------------------- MODULE MCCopy -------------------------------
(* Finite instances of Copy: a directory with a file and a sub-directory,    *)
(* and a target directory in which some of the same names are taken.         *)
EXTENDS Copy

CONSTANTS a, b, d, e, star

MCNames == {a, b, d, e, star}

File(x) == FileNode(x, FALSE)

MCInitTrees ==
  {<<>> :> DirNode @@ <<a>> :> File(<<Full, Part>>)
   @@ <<d>> :> DirNode @@ <<d, a>> :> File(<<Part>>) @@ <<d, b>> :> DirNode
   @@ <<d, b, a>> :> FileNode(<<>>, TRUE)
   @@ <<e>> :> DirNode @@ <<e, d>> :> DirNode @@ <<e, d, a>> :> x @@ <<e, d, b>> :> y :
     x \in {DirNode, File(<<Full>>)}, y \in {DirNode, File(<<Full>>)}}

Cp(sources, dest) == [args |-> sources, target |-> dest, recursive |-> FALSE]
CpR(sources, dest) == [args |-> sources, target |-> dest, recursive |-> TRUE]

MCCommands ==
  {Cp(<<Literal(<<a>>)>>, Literal(<<b>>)),                                  \* cp a b
   Cp(<<Literal(<<a>>)>>, Pattern(<<e, star>>, {})),                        \* cp a e/x*
   Cp(<<Literal(<<a>>)>>, Literal(<<a>>)),                                  \* cp a a
   Cp(<<Literal(<<d>>), Literal(<<a>>), Literal(<<b>>)>>, Literal(<<e>>)),  \* cp d a b e
   Cp(<<Pattern(<<d, star>>, {a, b})>>, Literal(<<e, d>>)),                 \* cp d/* e/d
   CpR(<<Literal(<<d>>)>>, Literal(<<e>>)),                                 \* cp -r d e
   CpR(<<Literal(<<d>>)>>, Literal(<<b>>)),                                 \* cp -r d b
   CpR(<<Literal(<<d>>)>>, Literal(<<a>>)),                                 \* cp -r d a
   CpR(<<Literal(<<d>>)>>, Literal(<<d, a>>)),                              \* cp -r d d/a
   CpR(<<Literal(<<a>>), Literal(<<d>>)>>, Slashed(<<b>>)),                 \* cp -r a d b/
   CpR(<<Literal(<<d, b>>), Literal(<<d>>)>>, Literal(<<a>>)),              \* cp -r d/b d a
   CpR(<<Pattern(<<star>>, {d, e})>>, Literal(<<e>>))}                      \* cp -r [de] e

MCCopyFile == {Cp(<<Literal(<<a>>)>>, Literal(<<b>>))}
=============================================================================
