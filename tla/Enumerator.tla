------------------------------ MODULE Enumerator ------------------------------
(* src/src/enum_args.c: a command asks for its options one by one, then for  *)
(* its arguments.  e is the ENUM_ARGS of a command; what it looks up is in   *)
(* the tree t of the volume and its table f of open objects.                 *)
(*                                                                           *)
(* A path of the shell begins with the name of the volume: /VolumeName/...   *)
(* "/" itself is a directory with the volume in it that no FatFs call knows. *)
EXTENDS Words, FatFs

CONSTANT VolumeName   \* the one that is in VolumeStr

ASSUME VolumeAssumption == VolumeName # <<>> /\ VolumeName[1] # "."

-----------------------------------------------------------------------------
(* A path as the calls of FatFs take it: one that does not begin with a      *)
(* slash is looked for in the root of the only drive.                        *)
Rooted(path) == path # <<>> /\ path[1] \in Slashes
OnVolume(path) == Segments(path) # <<>> /\ (Rooted(path) => Segments(path)[1] = VolumeName)
InTree(path) == IF Rooted(path) THEN Tail(Segments(path)) ELSE Segments(path)

(* f_stat_ex tells the root and the volume without an access to the medium,  *)
(* and refuses a path that does not begin with a slash.                      *)
Accesses(path) == Rooted(path) /\ OnVolume(path) /\ InTree(path) # <<>>

(* The kind of object a path leads to, or none.  utf8cmpni is content with   *)
(* the end of the volume's name: what begins with it is a directory too, that *)
(* nothing is in.                                                            *)
SeemsVolume(path) == Len(Segments(path)) = 1 /\ IsPrefix(VolumeName, Segments(path)[1])

StatKind(t, path) ==
  CASE ~ Rooted(path) -> "none"
    [] Rooted(path) /\ Segments(path) = <<>> -> "dir"
    [] Rooted(path) /\ Segments(path) # <<>> /\ ~ OnVolume(path) ->
         IF SeemsVolume(path) THEN "dir" ELSE "none"
    [] Rooted(path) /\ OnVolume(path) -> IF InTree(path) \notin DOMAIN t THEN "none"
                                        ELSE IF t[InTree(path)].dir THEN "dir" ELSE "file"

-----------------------------------------------------------------------------
Start(words) ==
  [words |-> words, state |-> "init", index |-> 1, err |-> "none", short |-> <<>>,
   op |-> Text(<<>>), perms |-> 0, perm |-> 0,
   arg |-> <<>>, abs |-> <<>>, listing |-> {}, matched |-> FALSE]

(* The first error is kept.                                                  *)
SetError(e, err) == [e EXCEPT !.err = IF @ = "none" THEN err ELSE @]

(* abort_enum_args: no further word is taken, and a listing ends; the rest   *)
(* of a brace expansion does not.                                            *)
Abort(e, err) ==
  LET w == [SetError(e, err) EXCEPT !.index = Len(e.words) + 1]
  IN  IF e.state = "readdir" THEN [w EXCEPT !.state = "args", !.listing = {}] ELSE w

(* end_enum_args, which closes a listing.                                    *)
EndEnum(e) == IF e.state = "readdir" THEN [e EXCEPT !.state = "init", !.listing = {}] ELSE e

-----------------------------------------------------------------------------
(* Options.                                                                  *)

(* remove_arg copies the words behind down by one.  The ranges overlap: a    *)
(* copy that began at the end would leave the last word everywhere.          *)
RemovedFromTheEnd(words, k) ==
  [i \in 1 .. Len(words) - 1 |-> IF i < k THEN words[i] ELSE Last(words)]

RemoveArg(words, k) == [i \in 1 .. Len(words) - 1 |-> IF i < k THEN words[i] ELSE words[i + 1]]

None == <<"none">>
Opt(e, name, value) == [enum |-> e, opt |-> name, value |-> value]
NoOpt(e) == Opt(e, <<>>, None)

(* The next letter of -xyz, with the value that a delimiter gives it.        *)
ShortOpt(e) ==
  LET c    == e.short[1]
      rest == Tail(e.short)
  IN  IF rest # <<>> /\ rest[1] \in {":", "="}
      THEN Opt([e EXCEPT !.short = <<>>], <<"-", c>>, Tail(rest))
      ELSE Opt([e EXCEPT !.short = rest], <<"-", c>>, None)

(* --name, --name:value or --name=value.                                     *)
LongOpt(e, word) ==
  LET k == SelectInSeq(word, LAMBDA c : c \in {":", "="})
  IN  IF k = 0 THEN Opt(e, word, None) ELSE Opt(e, SubSeq(word, 1, k - 1), Behind(word, k))

(* The words from the index on, to the next that begins with a dash; it is   *)
(* taken away.  A dash alone is no option, and no argument afterwards.       *)
RECURSIVE OptWord(_)
OptWord(e) ==
  LET word  == e.words[e.index]
      taken == [e EXCEPT !.words = RemoveArg(@, e.index), !.short = Tail(word)]
  IN  IF e.index > Len(e.words) THEN NoOpt([e EXCEPT !.state = "init"])
      ELSE IF word = <<>> \/ word[1] # "-" THEN OptWord([e EXCEPT !.index = @ + 1])
      ELSE IF Len(word) > 1 /\ word[2] = "-" THEN LongOpt([taken EXCEPT !.short = <<>>], word)
      ELSE IF Len(word) > 1 THEN ShortOpt(taken) ELSE OptWord(taken)

(* next_opt.                                                                 *)
NextOpt(e) ==
  LET from == IF e.state = "opts" THEN e ELSE [e EXCEPT !.short = <<>>, !.index = 1, !.state = "opts"]
  IN  IF e.err # "none" THEN NoOpt(e)
      ELSE IF from.short # <<>> THEN ShortOpt(from) ELSE OptWord(from)

(* is_switch and is_value_opt: the option is one of the names, and has a     *)
(* value or not as it should.  (An error that is_switch notes is the one that *)
(* unknown_opt notes too, which its callers come to then; and an is_opt that  *)
(* runs over the end of the names accepts nothing.)                          *)
IsSwitch(o, names) == o.opt \in names /\ o.value = None
IsValueOpt(o, names) == o.opt \in names /\ o.value # None

UnknownOpt(e) == Abort(e, "-1")

-----------------------------------------------------------------------------
(* Arguments.  A step of the loop of next_arg comes to an enumerator and to  *)
(* an argument, to the end, or to another step.                              *)
Again(e) == [enum |-> e, kind |-> "again", rel |-> <<>>, abs |-> <<>>]
NoMore(e) == [Again(e) EXCEPT !.kind = "end"]
Argument(e, rel, abs, kind) == [enum |-> e, kind |-> kind, rel |-> rel, abs |-> abs]

(* state_enum_args: the next word, and what its braces come to.              *)
Braced(e, word, got) ==
  LET w == [e EXCEPT !.index = @ + 1, !.op = got.op, !.perms = got.perms, !.perm = 0]
  IN  CASE got.perms < 0 -> Again(Abort(w, "-1"))
        [] got.perms = 0 -> Again([w EXCEPT !.arg = RestoreBraces(word), !.state = "process"])
        [] got.perms > 0 -> Again([w EXCEPT !.state = "braces"])

TakeWord(e) ==
  IF e.index > Len(e.words) THEN NoMore(e)
  ELSE Braced(e, e.words[e.index], Prepare(e.words[e.index]))

(* state_expand_braces.                                                      *)
TakePerm(e) ==
  IF e.perm >= e.perms THEN Again([e EXCEPT !.state = "args"])
  ELSE Again([e EXCEPT !.arg = Expand(e.op, e.perm), !.perm = @ + 1, !.state = "process"])

(* The entries of a directory, with their kinds as they are now.  Names that *)
(* begin with a dot are hidden; a filter that forgot about them:             *)
ListedHidden(t, dir, all) ==
  IF Segments(dir) = <<>> THEN {[name |-> VolumeName, kind |-> "dir"]}
  ELSE {[name |-> Last(p), kind |-> IF t[p].dir THEN "dir" ELSE "file"] : p \in Children(t, InTree(dir))}

Listed(t, dir, all) ==
  IF Segments(dir) = <<>> THEN {[name |-> VolumeName, kind |-> "dir"]}
  ELSE {[name |-> Last(p), kind |-> IF t[p].dir THEN "dir" ELSE "file"] :
          p \in {q \in Children(t, InTree(dir)) : all \/ Last(q)[1] # "."}}

(* f_opendir_ex: the entries of a directory are read at once.  The empty     *)
(* path is taken for the root.                                               *)
ListResults(t, f, dir, faulty) ==
  (IF dir # <<>> /\ StatKind(t, dir) = "none" THEN {FALSE}
   ELSE IF Segments(dir) = <<>> THEN {TRUE}
   ELSE {OnVolume(dir) /\ OpendirResult(t, f, InTree(dir)) = "FR_OK"})
  \cup (IF faulty /\ OnVolume(dir) THEN {FALSE} ELSE {})

(* state_process_arg: the full path; wildcards are for its last element.     *)
Process(e, t, f, cwd, faulty) ==
  LET can  == PathCan(PathCat(cwd, e.arg))
      full == IF PathIsDir(e.arg) THEN PathEnsureDir(can) ELSE can
      dir  == PathDir(full)
      base == PathBase(full)
      list == [e EXCEPT !.abs = full, !.matched = FALSE, !.state = "readdir",
                        !.listing = {x \in Listed(t, dir, FALSE) : PathGlob(x.name, base)}]
  IN  CASE IsGlob(dir) -> {NoMore(Abort(e, "-1"))}
        [] ~ IsGlob(dir) /\ IsGlob(base) ->
             {IF ok THEN Again(list) ELSE NoMore(Abort(e, "FR")) : ok \in ListResults(t, f, dir, faulty)}
        [] ~ IsGlob(full) -> {Again([e EXCEPT !.abs = full, !.state = "return"])}

(* state_return_arg: a path that is written as a directory's must not be a   *)
(* file's.  An error of the look-up is taken for an object that is missing.  *)
ReturnArg(e, t, faulty) ==
  {IF kind = "file" /\ PathIsDir(e.abs) THEN NoMore(Abort(e, "-1"))
   ELSE Argument([e EXCEPT !.state = "braces"], e.arg, e.abs, kind) :
     kind \in {StatKind(t, e.abs)} \cup (IF faulty /\ Accesses(e.abs) THEN {"none"} ELSE {})}

(* state_readdir: the entries one by one (by name in the code, in any order  *)
(* here); a pattern that nothing matches stands for itself.  The root is the *)
(* empty string there, and pathcat looks at the byte before szAbs, the last  *)
(* one of sz that nothing has written: when that is a slash, none is put     *)
(* before the name.                                                          *)
ReadDir(e) ==
  LET dir == PathDir(e.abs)
      k   == PathTail(e.arg)
      Rel(n) == IF k = 0 THEN n ELSE PathCat(SubSeq(e.arg, 1, k), n)
      Abs(n) == IF dir = <<>> THEN {<<"/">> \o n, n} ELSE {PathCat(dir, n)}
      literal == [e EXCEPT !.arg = RestoreGlobs(@), !.state = "return"]
  IN  IF e.listing # {}
      THEN UNION {{Argument([e EXCEPT !.listing = @ \ {x}, !.matched = TRUE], Rel(x.name), abs, x.kind) :
                     abs \in Abs(x.name)} : x \in e.listing}
      ELSE {Again(IF e.matched THEN [e EXCEPT !.state = "braces"] ELSE literal)}

Step(e, t, f, cwd, faulty) ==
  CASE e.state = "args"    -> {TakeWord(e)}
    [] e.state = "braces"  -> {TakePerm(e)}
    [] e.state = "process" -> Process(e, t, f, cwd, faulty)
    [] e.state = "return"  -> ReturnArg(e, t, faulty)
    [] e.state = "readdir" -> ReadDir(e)
    [] e.state \in {"init", "opts"} -> {Again([e EXCEPT !.state = "args", !.index = 1])}

(* next_arg.                                                                 *)
RECURSIVE NextArg(_, _, _, _, _)
NextArg(e, t, f, cwd, faulty) ==
  UNION {IF r.kind = "again" THEN NextArg(r.enum, t, f, cwd, faulty) ELSE {r} :
           r \in Step(e, t, f, cwd, faulty)}
=============================================================================
