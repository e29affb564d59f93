-------------------------------- MODULE Words --------------------------------
(* What the words of a command line are turned into: brace expansion         *)
(* (src/src/bracexp.c), wildcards and paths (src/src/path.c).  A word is a   *)
(* sequence of characters; a run of letters that no operator looks into may  *)
(* stand as one character.  The special characters are those that the        *)
(* tokenizer makes of the ones outside of quotes.                            *)
EXTENDS Integers, SequencesExt

CONSTANT OpsSize   \* 128: the bytes for the operations of a brace expansion

Star == "U+F801"
Question == "U+F802"
OpenBrace == "U+F803"
CloseBrace == "U+F804"
Comma == "U+F805"

Plain == [c \in {Star, Question, OpenBrace, CloseBrace, Comma} |->
            CASE c = Star -> "*" [] c = Question -> "?" [] c = OpenBrace -> "{"
              [] c = CloseBrace -> "}" [] c = Comma -> ","]

(* restore_brace_special_chars and restore_glob_special_chars.               *)
Restored(w, specials) == [i \in DOMAIN w |-> IF w[i] \in specials THEN Plain[w[i]] ELSE w[i]]
RestoreBraces(w) == Restored(w, {OpenBrace, CloseBrace, Comma})
RestoreGlobs(w) == Restored(w, {Star, Question})

-----------------------------------------------------------------------------
(* bracexp_prepare: the word is parsed into operations, texts, expressions   *)
(* {..} and sequences, that are laid out in a buffer of OpsSize bytes.  A    *)
(* parser state s has the place in the word and how much of the buffer is    *)
(* used; full when it did not suffice.                                       *)
HeaderBytes == 8
TextBytes == 6
GroupBytes == 8   \* of an OPEXPR and of an OPSEQ

End == "U+0000"
At(s) == IF s.i <= Len(s.w) THEN s.w[s.i] ELSE End
Past(s) == [s EXCEPT !.i = IF At(s) = End THEN @ ELSE @ + 1]

Alloc(s, bytes) ==
  IF s.used + bytes > OpsSize THEN [s EXCEPT !.full = TRUE] ELSE [s EXCEPT !.used = @ + bytes]

Text(w) == [kind |-> "text", text |-> w, subs |-> <<>>, perms |-> 1]
Expr(subs) ==
  [kind |-> "expr", text |-> <<>>, subs |-> subs,
   perms |-> FoldLeft(LAMBDA n, op : n + op.perms, 0, subs)]
Sequence(subs) ==
  [kind |-> "seq", text |-> <<>>, subs |-> subs,
   perms |-> FoldLeft(LAMBDA n, op : n * op.perms, 1, subs)]

(* The text from flushed up to where the parser is becomes an operation.     *)
Flush(s, flushed, subs) ==
  IF s.i = flushed THEN [s |-> s, subs |-> subs]
  ELSE [s |-> Alloc(s, TextBytes), subs |-> Append(subs, Text(SubSeq(s.w, flushed, s.i - 1)))]

RECURSIVE SeqFrom(_, _, _), ExprFrom(_, _)
SeqFrom(s, flushed, subs) ==
  LET ends  == At(s) = End \/ (s.depth > 0 /\ At(s) \in {Comma, CloseBrace})
      text  == Flush(s, flushed, subs)
      inner == Alloc(Past([text.s EXCEPT !.depth = @ + 1, !.braces = TRUE]), GroupBytes)
      expr  == ExprFrom(inner, <<>>)
  IN  IF s.full THEN [s |-> s, subs |-> subs]
      ELSE IF ends THEN text
      ELSE IF At(s) # OpenBrace THEN SeqFrom(Past(s), flushed, subs)
      ELSE IF text.s.full THEN text
      ELSE SeqFrom(expr.s, expr.s.i, Append(text.subs, Expr(expr.subs)))

(* The alternatives of an expression, up to its closing brace.               *)
ExprFrom(s, alts) ==
  LET start  == Alloc(s, GroupBytes)
      seq    == SeqFrom(start, s.i, <<>>)
      so_far == Append(alts, Sequence(seq.subs))
      closed == IF At(s) = CloseBrace THEN Past(s) ELSE [s EXCEPT !.bad = TRUE]
      after  == IF At(seq.s) = CloseBrace THEN Past(seq.s) ELSE [seq.s EXCEPT !.bad = TRUE]
  IN  IF s.full THEN [s |-> s, subs |-> alts]
      ELSE IF At(s) = End THEN [s |-> [closed EXCEPT !.depth = @ - 1], subs |-> alts]
      ELSE IF seq.s.full THEN [s |-> seq.s, subs |-> so_far]
      ELSE IF At(seq.s) = Comma THEN ExprFrom(Past(seq.s), so_far)
      ELSE [s |-> [after EXCEPT !.depth = @ - 1], subs |-> so_far]

(* The number of permutations, -1 when the buffer is too small and 0 when    *)
(* there is nothing to expand, or a brace that nothing closes.               *)
Prepared(s, op) ==
  [op |-> op, perms |-> IF s.full THEN -1 ELSE IF ~ s.braces \/ s.bad THEN 0 ELSE op.perms]

Prepare(w) ==
  LET s0  == [w |-> w, i |-> 1, used |-> HeaderBytes + GroupBytes, depth |-> 0,
              braces |-> FALSE, bad |-> FALSE, full |-> HeaderBytes + GroupBytes > OpsSize]
      got == SeqFrom(s0, 1, <<>>)
  IN  Prepared(got.s, Sequence(got.subs))

(* bracexp_expand: what a permutation stands for; in a sequence the elements *)
(* to the right turn faster.                                                 *)
RECURSIVE Expand(_, _)
Expand(op, perm) ==
  LET p == perm % op.perms
      PermsBefore(k) == FoldLeft(LAMBDA n, o : n + o.perms, 0, SubSeq(op.subs, 1, k - 1))
      PermsBehind(k) == FoldLeft(LAMBDA n, o : n * o.perms, 1, SubSeq(op.subs, k + 1, Len(op.subs)))
  IN  CASE op.kind = "text" -> RestoreBraces(op.text)
        [] op.kind = "seq"  ->
             FlattenSeq([k \in DOMAIN op.subs |-> Expand(op.subs[k], p \div PermsBehind(k))])
        [] op.kind = "expr" ->
             LET k == CHOOSE j \in DOMAIN op.subs :
                        PermsBefore(j) <= p /\ p < PermsBefore(j) + op.subs[j].perms
             IN  Expand(op.subs[k], p - PermsBefore(k))

-----------------------------------------------------------------------------
(* pathglob.  A name that ends where the pattern has a star is taken, and    *)
(* what is behind the star is not looked at.                                 *)
RECURSIVE PathGlob(_, _)
PathGlob(f, p) ==
  CASE f = <<>> /\ p = <<>> -> TRUE
    [] f = <<>> /\ p # <<>> -> p[1] = Star
    [] f # <<>> /\ p = <<>> -> FALSE
    [] f # <<>> /\ p # <<>> ->
         CASE p[1] = Question -> PathGlob(Tail(f), Tail(p))
           [] p[1] = Star     -> Len(p) = 1 \/ \E k \in 1 .. Len(f) + 1 :
                                                 PathGlob(SubSeq(f, k, Len(f)), Tail(p))
           [] p[1] \notin {Question, Star} -> p[1] = f[1] /\ PathGlob(Tail(f), Tail(p))

IsGlob(path) == ToSet(path) \cap {Star, Question} # {}

(* pathtail, pathbase and pathsplit: the place of the last separator, 0 when *)
(* there is none.                                                            *)
Separators == {"/", "\\", ":"}
Slashes == {"/", "\\"}
PathTail(path) == SelectLastInSubSeq(path, 1, Len(path), LAMBDA c : c \in Separators)
Behind(path, k) == SubSeq(path, k + 1, Len(path))
PathBase(path) == Behind(path, PathTail(path))
PathDir(path) == SubSeq(path, 1, PathTail(path) - 1)

(* pathisdir: it ends in a separator, or in "." or ".." behind one.          *)
PathIsDir(path) == PathTail(path) # 0 /\ PathBase(path) \in {<<>>, <<".">>, <<".", ".">>}

(* pathcat: the second path replaces the first when it is absolute.          *)
PathCat(path1, path2) ==
  CASE path2 = <<>> -> path1
    [] path2 # <<>> /\ path2[1] \in Slashes -> path2
    [] path2 # <<>> /\ path2[1] \notin Slashes ->
         IF Last(path1) \in Slashes THEN path1 \o path2 ELSE path1 \o <<"/">> \o path2

(* The segments of a path, the empty ones left out.                          *)
Segments(path) ==
  LET cuts  == FoldLeft(LAMBDA a, c : IF c \in Slashes THEN Append(a, <<>>)
                                      ELSE Append(Front(a), Append(Last(a), c)),
                        <<<<>>>>, path)
  IN  SelectSeq(cuts, LAMBDA seg : seg # <<>>)

Joined(segments) ==
  IF segments = <<>> THEN <<"/">>
  ELSE FlattenSeq([i \in DOMAIN segments |-> <<"/">> \o segments[i]])

(* pathcan of an absolute path: "." is nothing, ".." undoes a segment.       *)
PathCan(path) ==
  Joined(FoldLeft(LAMBDA done, seg : CASE seg = <<".">>      -> done
                                       [] seg = <<".", ".">> -> IF done = <<>> THEN <<>> ELSE Front(done)
                                       [] seg \notin {<<".">>, <<".", ".">>} -> Append(done, seg),
                  <<>>, Segments(path)))

(* pathensuredir.                                                            *)
PathEnsureDir(path) == IF Last(path) \in Slashes THEN path ELSE Append(path, "/")
=============================================================================
