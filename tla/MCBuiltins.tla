----------------------------- MODULE MCBuiltins -----------------------------
(* Finite instances of Builtins: a volume with files and directories, and    *)
(* lines with every kind of word.                                            *)
EXTENDS BuiltinsMeaning

a == <<"a">>
b == <<"b">>
d == <<"d">>
ab == <<"a", "b">>
hidden == <<".", "h">>
v == <<"v">>

(* Words that the tokenizer made of what is written in the comment.          *)
All == <<Star>>                                                   \* *
AStar == <<"a", Star>>                                            \* a*
AStarB == <<"a", Star, "b">>                                      \* a*b
Anything == <<"d", "/", Question>>                                \* d/?
NoMatch == <<"x", Star>>                                          \* x*
InGlob == <<Star, "/", "a">>                                      \* */a
Braces == <<OpenBrace, "a", Comma, "d", "/", OpenBrace, "b", Comma, "x", CloseBrace, CloseBrace>>   \* {a,d/{b,x}}
Twice == <<OpenBrace, "a", Comma, "b", CloseBrace, OpenBrace, Comma, "b", CloseBrace>>   \* {a,b}{,b}
Unclosed == <<OpenBrace, "a", Comma, "b">>                        \* {a,b
GlobbedBraces == <<OpenBrace, "d", "/", Comma, CloseBrace, Star>> \* {d/,}*
TooMany == Braces \o Braces \o Braces
Up == <<"d", "/", ".", ".", "/", "a">>                            \* d/../a
DSlash == <<"d", "/">>                                            \* d/
ASlash == <<"a", "/">>                                            \* a/
Absolute == <<"/", "v", "/", "d", "/", "b">>                      \* /v/d/b
Root == <<"/">>
InRoot == <<"/", Star>>                                           \* /*
Quoted == <<"a", "*">>                                            \* a\*
Elsewhere == <<"/", "x", "/", "a">>                               \* /x/a
Longer == <<"/", "v", "x">>                                       \* /vx
BehindLonger == <<"/", "v", "x", "/", "a">>                       \* /vx/a
Deep == <<"x", "/", "y">>                                         \* x/y
DB == <<"d", "/", "b">>                                           \* d/b

Opt1(c) == <<"-", c>>
Long(name) == <<"-", "-", name>>
With1(o, w) == o \o <<":">> \o w

Line1(c, words) == [cmd |-> c, words |-> words]

PathWords == {a, d, AStar, NoMatch, Braces, Up, DSlash, ASlash, Absolute, Deep, DB, All, InRoot, Quoted}

Durations ==
  {<<"2">>, <<" ", "1", ".", "2", "5", " ">>, <<".", "5", "m">>, <<"3", "m">>, <<"1", ".", "5", "m", "s">>, <<".", "1", "h">>,
   <<".", "0", "0", "0", "0", "0", "0", "7", "s">>, <<"1", "d">>, <<"2", "s", "x">>, <<".", "5", "h">>, <<"-">>}
BracedTime == <<OpenBrace, "1", Comma, "x", Comma, "2", CloseBrace, "m">>   \* {1,x,2}m

MCLines ==
  {Line1(c, <<w>>) : c \in {"rm", "rmdir", "mkdir", "touch", "cat", "ls", "cd"}, w \in PathWords}
  \cup {Line1("ls", <<w>>) : w \in {Anything, InGlob, Twice, Unclosed, GlobbedBraces, TooMany, Root,
                                     Elsewhere, <<>>, <<"-">>}}
  \cup {Line1("echo", <<w, x>>) : w \in {All, Twice, Unclosed, NoMatch, GlobbedBraces},
                                   x \in {a, Opt1("n"), <<"-">>, Opt1("z")}}
  \cup {Line1("echo", <<With1(o, w), x, AStar>>) : o \in {Opt1("o"), Long("out")}, w \in {a, Deep, DSlash},
                                                   x \in {b, Opt1("a")}}
  \cup {Line1(c, <<Opt1("f"), w, x>>) : c \in {"rm"}, w \in {a, NoMatch, d}, x \in {DB, AStar}}
  \cup {Line1("rm", <<Long("force"), a, b>>), Line1("rm", <<a, With1(Long("force"), a)>>)}
  \cup {Line1("mkdir", <<Opt1("p"), w>>) : w \in {Deep, a, DB, ASlash \o b, Deep \o <<"/">>, Elsewhere, Braces}}
  \cup {Line1("rm", <<a, b, Opt1("f"), DB, AStar>>), Line1("cat", <<Opt1("z"), a>>)}
  \cup {Line1("pwd", w) : w \in {<<>>, <<a>>}} \cup {Line1("cd", <<>>)}
  \cup {Line1("ls", <<Opt1("a") \o <<"d">>, w>>) : w \in {d, a}}
  \cup {Line1("ls", w) : w \in {<<>>, <<Opt1("d")>>, <<Opt1("a")>>, <<a, d, DB>>}}
  \cup {Line1("hexdump", <<With1(Opt1("s"), s), With1(Long("length"), n), a>>) :
          s \in {<<"0">>, <<"1">>, <<"3">>}, n \in {<<"1">>, <<"2">>, <<"4">>, <<"g">>}}
  \cup {Line1("hexdump", <<With1(Opt1("s"), <<"0", "x", "1">>), With1(Opt1("n"), n), a>>) :
          n \in {<<" ", "2", " ">>, <<"0", "X", "3", "\t">>, <<"0", "x", "g">>, <<"0", "A">>}}
  \cup {Line1(c, <<w>>) : c \in {"ls", "cd", "mkdir", "rmdir", "touch"}, w \in {Longer, BehindLonger}}
  \cup {Line1("sleep", <<w, x>>) : w \in Durations, x \in {<<"1", "5", "0", "m", "s">>, BracedTime, <<"s">>}}
  \cup {Line1("hexdump", <<w>>) : w \in {a, d, AStar}}

File(data) == FileNode(data, FALSE)

MCTree ==
  (<<>> :> DirNode) @@ (<<a>> :> File(<<"1", "2", "3", "4", "5">>)) @@ (<<ab>> :> File(<<"6">>))
  @@ (<<hidden>> :> File(<<>>)) @@ (<<d>> :> DirNode) @@ (<<d, b>> :> FileNode(<<"7", End, "8">>, TRUE))
  @@ (<<d, a>> :> File(<<>>)) @@ (<<d, d>> :> DirNode)
MCTrees == {MCTree}

MCCwds == {<<"/", "v">>, <<"/", "v", "/", "d">>}

(* rm of a pattern that has something behind its star.                       *)
GlobLines == {Line1("rm", <<AStarB>>)}
=============================================================================
