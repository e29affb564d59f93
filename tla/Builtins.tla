------------------------------ MODULE Builtins ------------------------------
(* The small commands of src/src (cmd_*.c): each asks the enumerator for its *)
(* options, then for its arguments, and acts on one argument after another.  *)
(* A behaviour is one command; an action is one round of one of its loops.   *)
EXTENDS Enumerator

CONSTANTS
  Lines,      \* the command lines: a command and its words
  Trees,      \* what is on the volume at first; data is a sequence of characters
  Cwds,       \* the current directory of the process
  Word,       \* 2^32: the integers of hexdump and sleep are computed modulo it
  BufSize,    \* 16384: the buffer of hexdump
  Row,        \* 16: the bytes in a row of it
  CatSize,    \* 128: the buffer of cat
  MaxFaults   \* bound: rounds in which calls to the volume may fail

ASSUME HexdumpAssumption == {Word, BufSize, Row, CatSize} \subseteq Nat \ {0} /\ Row < BufSize

VARIABLES
  tree, files,   \* the volume and its table of open objects
  stuck,         \* history: the objects whose f_close failed
  cwd,           \* proc->cwd
  cmd,           \* the command
  at,            \* options, args, dirs (the second pass of ls) or done
  e,             \* its ENUM_ARGS
  opts, value,   \* the switches given; the values of options
  own,           \* its other locals
  out,           \* what it has printed
  status,        \* its exit code
  asked,         \* history: the words of the line
  given,         \* history: the arguments it was given
  before,        \* history: the tree and the current directory at first
  faults         \* how many rounds there were that might fail

vars == <<tree, files, stuck, cwd, cmd, at, e, opts, value, own, out, status, asked, given, before, faults>>

NoValues == [out |-> <<>>, skip |-> 0, length |-> Word - 1]
Locals == [newcwd |-> <<>>, file |-> <<>>, first |-> TRUE, dirs |-> FALSE, any |-> FALSE,
           buf |-> <<>>, offset |-> 0, skip |-> 0, length |-> 0, millis |-> 0]

Init ==
  /\ tree \in Trees /\ cwd \in Cwds
  /\ before = [tree |-> tree, cwd |-> cwd]
  /\ \E line \in Lines : cmd = line.cmd /\ asked = line.words /\ e = Start(line.words)
  /\ at = "options" /\ files = <<>> /\ stuck = {}
  /\ opts = {} /\ value = NoValues /\ own = Locals
  /\ out = <<>> /\ given = <<>> /\ status = "none" /\ faults = 0

Lucky == {FALSE} \cup (IF faults < MaxFaults THEN {TRUE} ELSE {})
Counted(faulty) == faults' = faults + (IF faulty THEN 1 ELSE 0)

-----------------------------------------------------------------------------
(* The options.                                                              *)
Switches ==
  [rm      |-> [f |-> {<<"-", "f">>, <<"-", "-", "force">>}, r |-> {<<"-", "r">>, <<"-", "-", "recursive">>}],
   mkdir   |-> [p |-> {<<"-", "p">>, <<"-", "-", "parents">>}],
   ls      |-> [a |-> {<<"-", "a">>, <<"-", "-", "all">>}, l |-> {<<"-", "l">>},
                d |-> {<<"-", "d">>, <<"-", "-", "directories">>}, S |-> {<<"-", "S">>},
                t |-> {<<"-", "t">>}, U |-> {<<"-", "U">>}, r |-> {<<"-", "r">>, <<"-", "-", "reverse">>}],
   echo    |-> [a |-> {<<"-", "a">>, <<"-", "-", "append">>}, n |-> {<<"-", "n">>}],
   hexdump |-> [none |-> {}], rmdir |-> [none |-> {}], touch |-> [none |-> {}],
   cat     |-> [none |-> {}], cd |-> [none |-> {}], pwd |-> [none |-> {}], sleep |-> [none |-> {}]]

Values ==
  [echo    |-> [out |-> {<<"-", "o">>, <<"-", "-", "out">>}],
   hexdump |-> [skip   |-> {<<"-", "s">>, <<"-", "-", "skip">>},
                length |-> {<<"-", "n">>, <<"-", "-", "length">>}]]

Accepted(o) == {s \in DOMAIN Switches[cmd] : IsSwitch(o, Switches[cmd][s])}
ValuesOf(o) ==
  IF cmd \in DOMAIN Values THEN {s \in DOMAIN Values[cmd] : IsValueOpt(o, Values[cmd][s])} ELSE {}

(* parse_uint32, with blanks around it.  A decimal takes the digits of a     *)
(* hexadecimal number as well.                                               *)
Blank == {" ", "\t"}
Digits == <<"0", "1", "2", "3", "4", "5", "6", "7", "8", "9", "a", "b", "c", "d", "e", "f",
            "A", "B", "C", "D", "E", "F">>
Digit(c) == LET k == SelectInSeq(Digits, LAMBDA d : d = c) IN IF k > 16 THEN k - 7 ELSE k - 1

Unblanked(w) ==
  LET k == SelectInSeq(w, LAMBDA c : c \notin Blank) IN IF k = 0 THEN <<>> ELSE Behind(w, k - 1)

ParseUint32(word) ==
  LET w      == Unblanked(word)
      hex    == Len(w) > 1 /\ w[1] = "0" /\ w[2] \in {"x", "X"}
      number == IF hex THEN Behind(w, 2) ELSE w
      k      == SelectInSeq(number, LAMBDA c : c \notin ToSet(Digits))
      digits == IF k = 0 THEN number ELSE SubSeq(number, 1, k - 1)
      base   == IF hex THEN 16 ELSE 10
  IN  [value |-> FoldLeft(LAMBDA n, c : (n * base + Digit(c)) % Word, 0, digits),
       ok    |-> ToSet(Behind(number, Len(digits))) \subseteq Blank]

(* A switch.  The second if of rm has no else before it: -r is accepted, and *)
(* then unknown.                                                             *)
TakeSwitch ==
  LET o == NextOpt(e)
  IN  /\ at = "options" /\ o.opt # <<>> /\ Accepted(o) # {}
      /\ opts' = opts \cup Accepted(o)
      /\ e' = IF cmd = "rm" /\ "f" \notin Accepted(o) THEN UnknownOpt(o.enum) ELSE o.enum
      /\ UNCHANGED <<tree, files, stuck, cwd, cmd, at, value, own, out, status, asked, given, before, faults>>

(* echo refuses a directory to write to.                                     *)
TakeOut ==
  LET o == NextOpt(e)
  IN  /\ at = "options" /\ o.opt # <<>> /\ "out" \in ValuesOf(o)
      /\ e' = IF PathIsDir(o.value) THEN Abort(o.enum, "-1") ELSE o.enum
      /\ value' = [value EXCEPT !.out = PathCan(PathCat(cwd, o.value))]
      /\ UNCHANGED <<tree, files, stuck, cwd, cmd, at, opts, own, out, status, asked, given, before, faults>>

TakeNumber ==
  LET o == NextOpt(e)
  IN  /\ at = "options" /\ o.opt # <<>>
      /\ \E s \in ValuesOf(o) \cap {"skip", "length"} :
           /\ value' = [value EXCEPT ![s] = ParseUint32(o.value).value]
           /\ e' = IF ParseUint32(o.value).ok THEN o.enum ELSE SetError(o.enum, "-1")
      /\ UNCHANGED <<tree, files, stuck, cwd, cmd, at, opts, own, out, status, asked, given, before, faults>>

RefuseOption ==
  LET o == NextOpt(e)
  IN  /\ at = "options" /\ o.opt # <<>> /\ Accepted(o) = {} /\ ValuesOf(o) = {}
      /\ e' = UnknownOpt(o.enum)
      /\ UNCHANGED <<tree, files, stuck, cwd, cmd, at, opts, value, own, out, status, asked, given, before, faults>>

-----------------------------------------------------------------------------
(* The calls of FatFs, by paths of the shell: outcomes with res, tree and    *)
(* files.                                                                    *)
Refused(res) == {[res |-> res, tree |-> tree, files |-> files]}
Full(outcomes) == {[res |-> o.res, tree |-> o.tree, files |-> files] : o \in outcomes}

UnlinkOf(path, faulty) ==
  IF OnVolume(path) THEN Full(Unlink(tree, files, InTree(path), faulty))
  ELSE Refused("FR_INVALID_DRIVE")

MkdirOf(t, path, faulty) ==
  IF OnVolume(path) THEN Full(Mkdir(t, InTree(path), faulty))
  ELSE {[res |-> "FR_INVALID_DRIVE", tree |-> t, files |-> files]}

(* f_open with FA_CREATE_NEW, and with FA_OPEN_ALWAYS | FA_OPEN_APPEND.      *)
OpenNew(path, faulty) ==
  LET p == InTree(path)
  IN  CASE ~ OnVolume(path) -> Refused("FR_INVALID_DRIVE")
        [] OnVolume(path) /\ p \in DOMAIN tree ->
             Refused(IF OpenCreateResult(tree, files, p) = "FR_OK" THEN "FR_EXIST"
                     ELSE OpenCreateResult(tree, files, p))
        [] OnVolume(path) /\ p \notin DOMAIN tree -> OpenCreate(tree, files, p, faulty)

OpenAppend(path, faulty) ==
  LET p == InTree(path)
  IN  IF OnVolume(path) /\ p \in DOMAIN tree /\ OpenCreateResult(tree, files, p) = "FR_OK"
      THEN {[res |-> "FR_OK", tree |-> tree, files |-> IncShare(files, Entry(p), 1)]}
           \cup (IF faulty THEN Refused("FR_DISK_ERR") ELSE {})
      ELSE OpenNew(path, faulty)

(* f_write to the end of a file.  A failing medium takes a part of it; a     *)
(* full volume does so too, and says nothing.                                *)
Written(t, path, chars, faulty) ==
  LET More(n) == [t EXCEPT ![InTree(path)].data = @ \o SubSeq(chars, 1, n)]
  IN  {[res |-> "FR_OK", tree |-> More(Len(chars))]}
      \cup (IF faulty THEN {[res |-> res, tree |-> More(n)] : res \in {"FR_OK", "FR_DISK_ERR"},
                                                             n \in 0 .. Len(chars)} ELSE {})

(* f_open to read.  (What is read is closed again, which does not fail.)     *)
OpenOf(path, faulty) == OpenRead(tree, files, InTree(path), faulty)
DataOf(path) == tree[InTree(path)].data

(* f_close.                                                                  *)
CloseOf(f, path, faulty) ==
  {[files |-> g, stuck |-> IF g = f THEN stuck \cup {Entry(InTree(path))} ELSE stuck] :
     g \in Close(f, InTree(path), faulty)}

-----------------------------------------------------------------------------
(* What a command does with an argument r: the state after it, and whether   *)
(* the command stops taking arguments or returns at once with a code.        *)
Round(r) ==
  [enum |-> r.enum, tree |-> tree, files |-> files, stuck |-> stuck, own |-> own, out |-> out, leave |-> "no"]
Failed(x, err) == [x EXCEPT !.enum = SetError(@, err)]

(* The result of the last call taken for that of all: a mistake.             *)
OutcomeOfLast(x, o) ==
  IF o.res = "FR_OK" THEN [x EXCEPT !.enum.err = "none"] ELSE Failed(x, o.res)

Outcome(x, o) == IF o.res = "FR_OK" THEN x ELSE Failed(x, o.res)

(* cmd_rm.  (RmdirR models f_rmdir_r; no -r comes this far.)                 *)
RmOn(r, faulty) ==
  LET subtree == Restrict(tree, DOMAIN tree \ Subtree(tree, InTree(r.abs)))
  IN  CASE r.kind = "none" -> {IF "f" \in opts THEN Round(r) ELSE Failed(Round(r), "FR_EXIST")}
        [] r.kind = "dir"  -> {IF "r" \in opts THEN [Round(r) EXCEPT !.tree = subtree]
                               ELSE Failed(Round(r), "-1")}
        [] r.kind = "file" ->
             {LET x == [Round(r) EXCEPT !.tree = o.tree] IN IF "f" \in opts THEN x ELSE Outcome(x, o) :
                o \in UnlinkOf(r.abs, faulty)}

(* cmd_rmdir: f_rmdir is f_unlink, and removes files as well.                *)
RmdirOn(r, faulty) ==
  {Outcome([Round(r) EXCEPT !.tree = o.tree], o) : o \in UnlinkOf(r.abs, faulty)}

(* f_mkdir_r: any error but a missing parent is success.                     *)
RECURSIVE MkdirR(_, _, _)
MkdirR(t, path, faulty) ==
  IF path = <<"/">> THEN {[res |-> "FR_OK", tree |-> t, files |-> files]}
  ELSE UNION {IF o.res # "FR_NO_PATH" THEN {[o EXCEPT !.res = "FR_OK"]}
              ELSE UNION {IF up.res # "FR_OK" THEN {up} ELSE MkdirOf(up.tree, path, faulty) :
                            up \in MkdirR(o.tree, PathDir(path), faulty)} :
                o \in MkdirOf(t, path, faulty)}

(* cmd_mkdir: what exists is no error.                                       *)
MkdirOn(r, faulty) ==
  IF r.kind # "none" THEN {Round(r)}
  ELSE {Outcome([Round(r) EXCEPT !.tree = o.tree], o) :
          o \in IF "p" \in opts THEN MkdirR(tree, r.abs, faulty) ELSE MkdirOf(tree, r.abs, faulty)}

(* cmd_touch: the file it makes is closed again; the times of what exists    *)
(* are set.                                                                  *)
TouchOn(r, faulty) ==
  LET made == {IF o.res # "FR_OK" THEN {Failed([Round(r) EXCEPT !.tree = o.tree], o.res)}
               ELSE {[Round(r) EXCEPT !.tree = o.tree, !.files = c.files, !.stuck = c.stuck] :
                       c \in CloseOf(o.files, r.abs, faulty)} : o \in OpenNew(r.abs, faulty)}
      utime == IF ~ OnVolume(r.abs) THEN {"FR_INVALID_DRIVE"} ELSE Stat(tree, InTree(r.abs), faulty)
  IN  CASE r.kind = "none" /\ PathIsDir(r.rel)   -> {Failed(Round(r), "ENOENT")}
        [] r.kind = "none" /\ ~ PathIsDir(r.rel) -> UNION made
        [] r.kind # "none" -> {Outcome(Round(r), [res |-> res]) : res \in utime}

(* cmd_cat.  What is missing, or is a directory, is told and no error.  Each *)
(* buffer is printed as a string: what is behind a NUL in it is not printed. *)
AsStrings(data) ==
  LET Cut(i) == \E j \in ((i - 1) \div CatSize) * CatSize + 1 .. i : data[j] = End
      left == SelectSeq([i \in DOMAIN data |-> i], LAMBDA i : ~ Cut(i))
  IN  [k \in DOMAIN left |-> data[left[k]]]

CatOn(r, faulty) ==
  LET Printed(n) == [Round(r) EXCEPT !.out = @ \o AsStrings(SubSeq(DataOf(r.abs), 1, n))]
      buffers == {k * CatSize : k \in 0 .. Len(DataOf(r.abs)) \div CatSize}
  IN  IF r.kind # "file" THEN {Round(r)}
      ELSE UNION {IF o.res # "FR_OK" THEN {Failed(Round(r), o.res)}
                  ELSE {Printed(Len(DataOf(r.abs)))}
                       \cup (IF faulty THEN {Failed(Printed(n), "FR_DISK_ERR") : n \in buffers} ELSE {}) :
                    o \in OpenOf(r.abs, faulty)}

(* The file of echo left open when a write fails: a mistake.                 *)
WriteFailedOpen(x, faulty) == {x}

WriteFailed(x, faulty) ==
  {[x EXCEPT !.files = c.files, !.stuck = c.stuck] : c \in CloseOf(files, value.out, faulty)}

(* cmd_echo.  An error of the separator is not looked at, but the file keeps *)
(* it; one of the text returns from inside the loop, and leaves the          *)
(* enumerator as it is.                                                      *)
EchoOn(r, faulty) ==
  LET x     == [Round(r) EXCEPT !.own.first = FALSE]
      space == IF own.first THEN <<>> ELSE <<" ">>
      spaced == IF own.first THEN {[res |-> "FR_OK", tree |-> tree]}
                ELSE Written(tree, value.out, space, faulty)
      texts == UNION {IF s.res # "FR_OK" THEN {s} ELSE Written(s.tree, value.out, r.rel, faulty) :
                        s \in spaced}
  IN  IF own.file = <<>> THEN {[x EXCEPT !.out = @ \o space \o r.rel]}
      ELSE UNION {IF w.res = "FR_OK" THEN {[x EXCEPT !.tree = w.tree]}
                  ELSE WriteFailed([x EXCEPT !.tree = w.tree, !.leave = w.res], faulty) : w \in texts}

(* cmd_cd: the first directory; whatever else is given ends the enumeration, *)
(* of which the rest of a brace expansion may still come.  (f_realpath looks *)
(* every element of the path up again, and makes nothing of one that does    *)
(* not begin with a slash.)                                                  *)
CdOn(r, faulty) ==
  LET x == Round(r)
      Ended(err) == [x EXCEPT !.enum = Abort(@, err)]
      taken == [x EXCEPT !.own.newcwd = IF Rooted(r.abs) THEN PathCan(r.abs) ELSE <<>>]
  IN  CASE r.kind = "none" -> {Ended("ENOENT")}
        [] r.kind = "file" -> {Ended("-1")}
        [] r.kind = "dir" /\ own.newcwd # <<>> -> {Ended("-1")}
        [] r.kind = "dir" /\ own.newcwd = <<>> ->
             {taken} \cup (IF (Rooted(r.abs) => StatKind(tree, r.abs) = "dir") /\ ~ (faulty /\ Accesses(r.abs)) THEN {}
                           ELSE {[taken EXCEPT !.enum = Abort(@, "FR")]})

(* cmd_pwd and cmd_date take no argument.                                    *)
PwdOn(r, faulty) == {Failed(Round(r), "-1")}

(* cmd_ls, the first pass: what is no directory, and the directories with -d. *)
LsOn(r, faulty) ==
  LET x == [Round(r) EXCEPT !.own.any = TRUE]
  IN  CASE r.kind = "none" -> {Failed(x, "ENOENT")}
        [] r.kind = "dir" /\ "d" \notin opts -> {[x EXCEPT !.own.dirs = TRUE]}
        [] r.kind = "file" \/ (r.kind = "dir" /\ "d" \in opts) -> {[x EXCEPT !.out = Append(@, r.rel)]}

(* cmd_ls_dir.                                                               *)
DirListed(x, dir, rel, faulty) ==
  {IF ok THEN [x EXCEPT !.out = @ \o <<rel, {y.name : y \in Listed(tree, dir, "a" \in opts)}>>]
   ELSE Failed(x, "FR") : ok \in ListResults(tree, files, dir, faulty)}

LsDirOn(r, faulty) ==
  IF r.kind = "dir" THEN DirListed(Round(r), r.abs, r.rel, faulty) ELSE {Round(r)}

(* cmd_hexdump: a buffer's worth is read, what is to be skipped is dropped,  *)
(* and rows are printed as long as there is more than a row in the buffer.   *)
RECURSIVE Dump(_, _, _)
Dump(x, data, faulty) ==
  LET n     == CHOOSE k \in 0 .. Len(data) :
                 k = IF Len(data) < BufSize - Len(x.own.buf) THEN Len(data) ELSE BufSize - Len(x.own.buf)
      skip  == IF x.own.skip > n THEN n ELSE x.own.skip
      read  == Behind(x.own.buf \o SubSeq(data, 1, n), skip)
      kept  == SubSeq(read, 1, IF Len(read) > x.own.length THEN x.own.length ELSE Len(read))
      rows  == IF kept = <<>> THEN 0 ELSE ((Len(kept) - 1) \div Row) * Row
      after == [x EXCEPT !.out = @ \o SubSeq(kept, 1, rows), !.own.buf = Behind(kept, rows),
                         !.own.skip = @ - skip, !.own.length = @ - rows,
                         !.own.offset = (@ + skip + rows) % Word]
  IN  (IF n = 0 THEN {x} ELSE Dump(after, Behind(data, n), faulty))
      \cup (IF faulty THEN {Failed(x, "FR_DISK_ERR")} ELSE {})

HexdumpOn(r, faulty) ==
  IF own.offset >= (own.skip + own.length) % Word THEN {[Round(r) EXCEPT !.leave = "stop"]}
  ELSE IF r.kind # "file" THEN {Round(r)}
  ELSE UNION {IF o.res = "FR_OK" THEN Dump(Round(r), DataOf(r.abs), faulty)
              ELSE {Failed(Round(r), o.res)} : o \in OpenOf(r.abs, faulty)}

(* parse_millis: a decimal with up to six places, and a unit.                *)
Decimals(w) ==
  LET k == SelectInSeq(w, LAMBDA c : Digit(c) \notin 0 .. 9) IN IF k = 0 THEN w ELSE SubSeq(w, 1, k - 1)
Number(digits) == FoldLeft(LAMBDA n, c : (n * 10 + Digit(c)) % Word, 0, digits)
Places(digits) == Number([i \in 1 .. 6 |-> IF i <= Len(digits) THEN digits[i] ELSE "0"])
Times(n, factors) == FoldLeft(LAMBDA x, y : (x * y) % Word, n, factors)

Suffixed(whole, fraction, w) ==
  LET In(factors) == (Times(whole, <<1000>> \o factors) + Times(fraction, factors) \div 1000) % Word
  IN  CASE IsPrefix(<<"s">>, w) -> [value |-> In(<<>>), rest |-> Tail(w)]
        [] IsPrefix(<<"m", "s">>, w) ->
             [value |-> whole + (IF fraction >= 500000 THEN 1 ELSE 0), rest |-> Behind(w, 2)]
        [] IsPrefix(<<"m">>, w) /\ ~ IsPrefix(<<"m", "s">>, w) -> [value |-> In(<<60>>), rest |-> Tail(w)]
        [] IsPrefix(<<"h">>, w) -> [value |-> In(<<60, 60>>), rest |-> Tail(w)]
        [] IsPrefix(<<"d">>, w) -> [value |-> In(<<60, 60, 24>>), rest |-> Tail(w)]
        [] w = <<>> \/ w[1] \notin {"s", "m", "h", "d"} -> [value |-> In(<<>>), rest |-> w]

ParseMillis(word) ==
  LET w      == Unblanked(word)
      whole  == Decimals(w)
      behind == Behind(w, Len(whole))
      point  == behind # <<>> /\ behind[1] = "."
      places == IF point THEN Decimals(Tail(behind)) ELSE <<>>
      timed  == Suffixed(Number(whole), Places(places),
                         IF point THEN Behind(behind, 1 + Len(places)) ELSE behind)
  IN  [value |-> timed.value, ok |-> (whole # <<>> \/ point) /\ ToSet(timed.rest) \subseteq Blank]

(* cmd_sleep adds its arguments up.                                          *)
SleepOn(r, faulty) ==
  LET time == ParseMillis(r.rel)
  IN  {IF time.ok THEN [Round(r) EXCEPT !.own.millis = (@ + time.value) % Word]
       ELSE [Round(r) EXCEPT !.enum = Abort(@, "-1")]}

-----------------------------------------------------------------------------
(* A round of the loop of a command over its arguments.                      *)
Handle(On(_, _)) ==
  \E faulty \in Lucky : \E r \in NextArg(e, tree, files, cwd, faulty) :
    /\ r.kind # "end"
    /\ \E x \in On(r, faulty) :
         /\ tree' = x.tree /\ files' = x.files /\ stuck' = x.stuck
         /\ own' = x.own /\ out' = x.out /\ e' = x.enum
         /\ at' = CASE x.leave = "no" -> at [] x.leave = "stop" -> "finish"
                    [] x.leave \notin {"no", "stop"} -> "done"
         /\ status' = IF x.leave \in {"no", "stop"} THEN status ELSE x.leave
    /\ given' = IF at = "dirs" THEN given
                ELSE Append(given, [rel |-> r.rel, abs |-> r.abs, kind |-> r.kind])
    /\ Counted(faulty)
    /\ UNCHANGED <<cwd, cmd, opts, value, asked, before>>

Arg(name, On(_, _)) == at = "args" /\ cmd = name /\ Handle(On)

Rm == Arg("rm", RmOn)
Rmdir == Arg("rmdir", RmdirOn)
MakeDir == Arg("mkdir", MkdirOn)
Touch == Arg("touch", TouchOn)
Cat == Arg("cat", CatOn)
Echo == Arg("echo", EchoOn)
Cd == Arg("cd", CdOn)
Pwd == Arg("pwd", PwdOn)
Ls == Arg("ls", LsOn)
LsDir == at = "dirs" /\ Handle(LsDirOn)
Hexdump == Arg("hexdump", HexdumpOn)
Sleep == Arg("sleep", SleepOn)

(* No more options: an error ends the command, otherwise echo opens the file *)
(* it writes to.  (The flags are as in the code: -a makes a new file, and    *)
(* without it the text goes behind what there is.)                           *)
Begin ==
  LET o == NextOpt(e)
      Starts(t, f, file) ==
        /\ tree' = t /\ files' = f /\ at' = "args"
        /\ own' = [own EXCEPT !.file = file, !.skip = value.skip, !.length = value.length]
  IN  /\ at = "options" /\ o.opt = <<>> /\ o.enum.err = "none"
      /\ e' = o.enum
      /\ \/ value.out = <<>> /\ Starts(tree, files, <<>>) /\ UNCHANGED <<status, faults>>
         \/ /\ value.out # <<>>
            /\ \E faulty \in Lucky :
                 \E x \in IF "a" \in opts THEN OpenNew(value.out, faulty) ELSE OpenAppend(value.out, faulty) :
                   /\ Counted(faulty)
                   /\ IF x.res = "FR_OK" THEN Starts(x.tree, x.files, value.out) /\ UNCHANGED status
                      ELSE /\ tree' = x.tree /\ at' = "done" /\ status' = x.res
                           /\ UNCHANGED <<files, own>>
      /\ UNCHANGED <<stuck, cwd, cmd, opts, value, out, asked, given, before>>

GiveUp ==
  /\ at = "options" /\ NextOpt(e).opt = <<>> /\ NextOpt(e).enum.err # "none"
  /\ e' = EndEnum(NextOpt(e).enum) /\ status' = e'.err /\ at' = "done"
  /\ UNCHANGED <<tree, files, stuck, cwd, cmd, opts, value, own, out, asked, given, before, faults>>

(* No more arguments.                                                        *)
Enough ==
  /\ at \in {"args", "dirs"}
  /\ \E faulty \in Lucky : \E r \in NextArg(e, tree, files, cwd, faulty) :
       r.kind = "end" /\ e' = r.enum /\ Counted(faulty)
  /\ at' = IF at = "dirs" THEN "finish dirs" ELSE "finish"
  /\ UNCHANGED <<tree, files, stuck, cwd, cmd, opts, value, own, out, status, asked, given, before>>

(* What the commands do behind their loops, and their exit codes.            *)
Ended(x, code) ==
  /\ tree' = x.tree /\ files' = x.files /\ stuck' = x.stuck /\ out' = x.out /\ e' = x.enum
  /\ status' = code /\ at' = "done"
  /\ UNCHANGED <<cmd, opts, value, own, asked, given, before>>

Now == [Round([enum |-> EndEnum(e)]) EXCEPT !.leave = "no"]

Finish ==
  /\ at = "finish" /\ cmd \in {"rm", "rmdir", "mkdir", "touch", "cat"}
  /\ Ended(Now, Now.enum.err) /\ UNCHANGED <<cwd, faults>>

FinishPwd ==
  /\ at = "finish" /\ cmd = "pwd"
  /\ Ended(IF Now.enum.err = "none" THEN [Now EXCEPT !.out = cwd] ELSE Now, Now.enum.err)
  /\ UNCHANGED <<cwd, faults>>

FinishCd ==
  /\ at = "finish" /\ cmd = "cd"
  /\ cwd' = IF e.err = "none" THEN own.newcwd ELSE cwd
  /\ Ended(Now, e.err) /\ UNCHANGED faults

(* The newline of echo; the result of f_close is not looked at.              *)
FinishEcho ==
  LET line == IF "n" \in opts THEN <<>> ELSE <<"\n">>
  IN  /\ at = "finish" /\ cmd = "echo"
      /\ \/ /\ own.file = <<>> /\ Ended([Now EXCEPT !.out = @ \o line], Now.enum.err)
            /\ UNCHANGED faults
         \/ /\ own.file # <<>>
            /\ \E faulty \in Lucky :
                 \E w \in Written(tree, value.out, line, faulty), c \in CloseOf(files, value.out, faulty) :
                   /\ Counted(faulty)
                   /\ Ended([Now EXCEPT !.tree = w.tree, !.files = c.files, !.stuck = c.stuck], Now.enum.err)
      /\ UNCHANGED cwd

FinishHexdump ==
  LET n == IF Len(own.buf) > own.length THEN own.length ELSE Len(own.buf)
  IN  /\ at = "finish" /\ cmd = "hexdump"
      /\ Ended([Now EXCEPT !.out = @ \o SubSeq(own.buf, 1, n)], Now.enum.err)
      /\ UNCHANGED <<cwd, faults>>

(* The host is told how long to sleep, after an error as well, and the error *)
(* is forgotten.                                                             *)
FinishSleep ==
  /\ at = "finish" /\ cmd = "sleep"
  /\ Ended([Now EXCEPT !.out = <<own.millis>>], "none") /\ UNCHANGED <<cwd, faults>>

(* ls goes over its arguments again for the directories, keeping the error.  *)
LsAgain ==
  /\ at = "finish" /\ cmd = "ls" /\ own.dirs
  /\ e' = SetError(Start(e.words), EndEnum(e).err) /\ at' = "dirs"
  /\ UNCHANGED <<tree, files, stuck, cwd, cmd, opts, value, own, out, status, asked, given, before, faults>>

(* Without arguments it lists the current directory, or with -d looks at it, *)
(* error or not; the result of that replaces the error.                      *)
FinishLs ==
  LET fresh == [Now EXCEPT !.enum.err = "none"]
  IN  /\ cmd = "ls" /\ (at = "finish dirs" \/ (at = "finish" /\ ~ own.dirs))
      /\ \/ own.any /\ Ended(Now, Now.enum.err) /\ UNCHANGED faults
         \/ /\ ~ own.any
            /\ \E faulty \in Lucky :
                 \E y \in IF "d" \in opts THEN {[fresh EXCEPT !.out = Append(@, <<".">>)]}
                          ELSE DirListed(fresh, cwd, <<".">>, faulty) :
                   Counted(faulty) /\ Ended(y, y.enum.err)
      /\ UNCHANGED cwd

Next ==
  \/ TakeSwitch \/ TakeOut \/ TakeNumber \/ RefuseOption \/ GiveUp \/ Begin
  \/ Rm \/ Rmdir \/ MakeDir \/ Touch \/ Cat \/ Echo \/ Cd \/ Pwd \/ Ls \/ LsDir \/ Hexdump \/ Sleep
  \/ Enough
  \/ Finish \/ FinishPwd \/ FinishCd \/ FinishEcho \/ FinishHexdump \/ FinishSleep \/ LsAgain \/ FinishLs

Spec == Init /\ [][Next]_vars
=============================================================================
