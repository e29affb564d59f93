------------------------------- MODULE MCMove -------------------------------
(* Finite instances of Move: two files and a directory with a file in it.    *)
EXTENDS Move

CONSTANTS a, b, d, e, star

MCNames == {a, b, d, e, star}

File(x) == FileNode(x, FALSE)

MCInitTrees ==
  {<<>> :> DirNode @@ <<a>> :> File("1") @@ <<b>> :> File("2")
   @@ <<d>> :> DirNode @@ <<d, a>> :> File("3")}

Mv(sources, dest) == [args |-> sources, target |-> dest]

MCCommands ==
  {Mv(<<Literal(<<a>>)>>, Literal(<<b>>)),                                  \* mv a b
   Mv(<<Literal(<<a>>), Literal(<<d, a>>)>>, Literal(<<b>>)),               \* mv a d/a b
   Mv(<<Pattern(<<star>>, {a, b})>>, Literal(<<d>>)),                       \* mv [ab] d
   Mv(<<Literal(<<d, a>>), Literal(<<b>>)>>, Literal(<<>>)),                \* mv d/a b .
   Mv(<<Literal(<<d>>), Literal(<<e>>)>>, Literal(<<e>>)),                  \* mv d e e
   Mv(<<Literal(<<e>>), Slashed(<<b>>)>>, Literal(<<d>>)),                  \* mv e b/ d
   Mv(<<Literal(<<a>>)>>, Slashed(<<b>>)),                                  \* mv a b/
   Mv(<<Pattern(<<d, star>>, {a, b})>>, Slashed(<<e>>)),                    \* mv d/* e/
   Mv(<<Pattern(<<e, star>>, {a, b})>>, Literal(<<d>>)),                    \* mv e/* d
   Mv(<<Literal(<<a>>)>>, Pattern(<<star>>, {b, d})),                       \* mv a [bd]
   Mv(<<Literal(<<a>>), Literal(<<d, a>>)>>, Pattern(<<d, star>>, {})),     \* mv a d/a d/x*
   Mv(<<Literal(<<b>>), Pattern(<<star>>, {})>>, Pattern(<<star>>, {})),    \* mv b x* x*
   Mv(<<Pattern(<<star>>, {a, b, d})>>, Literal(<<d>>)),                    \* mv * d
   Mv(<<Literal(<<a>>)>>, Literal(<<a>>))}                                  \* mv a a

(* mv * d, where d is one of the names the pattern matches.                  *)
MCStarCommand == {Mv(<<Pattern(<<star>>, {a, b, d})>>, Literal(<<d>>))}
=============================================================================
