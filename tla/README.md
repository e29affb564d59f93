# A specification of libFFsh

libFFsh is a small command shell over FatFs for embedded programs: a host
program hands it a line of text, it parses the line, evaluates it and runs
built-in commands on a FAT volume. This directory holds TLA+ models of it,
the TLC configurations that check them on small instances, and proofs (TLAPS)
of what holds for every instance.

Everything runs in one thread. What makes the code hard is something else:
commands are made of several calls on the volume, and calls of several accesses
to the medium, and any of them may fail or be the last before the power goes;
the driver has a small table of open objects that recursive commands use up, a
callback of the host runs in the middle of them, one path buffer serves all
the levels of a recursion, listings are older than the directories they
describe, words go through three expansions (braces, wildcards, paths) whose
state machine can be aborted half-way, and much of the state is reused.

## 1. Inventory

| Part | State | Operations | Hard because |
|---|---|---|---|
| FAT driver, `ff15/source/ff.c` (vendored), its API | directory tree; `Files[FF_FS_LOCK]` | f_open, f_close, f_opendir, f_closedir, f_readdir, f_stat, f_unlink, f_mkdir, f_rename, f_utime, f_read, f_write | every call may fail halfway; the table is full after 4 objects (`FF_FS_LOCK` in ffconf.h:266; readme.md recommends 8); an open directory may be removed |
| the same, below its API | sectors, the window, FSInfo, the FIL's buffer | window, FAT chains, directory tables, paths, f_sync | the order of writes decides what a crash leaves; errors must give clusters back; a full volume |
| recursive removal, `ffex.c` f_rmdir_r | C stack, shared path buffer, DIR objects | one recursive function, host callback | close, retry, reopen when the table is full; cleanup on each error path |
| `cmd_mv.c` | target buffer, enumeration | stat, unlink, rename for each argument | not atomic; patterns that match the target |
| `cmd_cp.c`, f_copyfile | target buffer and flags, C stack, two FILs | directories recursively, files by the buffer, host callback | two open files under nested open directories; flags set once and reused; entries made in a directory that is being read |
| argument enumerator, `enum_args.c`, `dirutils.c`, `args.c` | state machine, brace permutations, listing, the argument vector | next_opt, next_arg, abort, end | lookups happen while the command changes the volume; options are taken out of the vector while it is walked; an abort in the middle of an expansion |
| algorithms: `path.c`, `bracexp.c`, `parse.c`, `utf.c` | 128 bytes of operations | canonical paths, globs, braces, numbers, comparison | boundaries, overflow |
| small commands: rm, rmdir, mkdir, touch, echo, ls, cat, hexdump, sleep, pwd, date, cd | flags, buffers, f_mkdir_r's recursion | options, one round for each argument, exit code | early returns, errors forgotten, 32-bit sums |
| tokenizer, `tokenizer.c`, `memstream.c` | decoder, growing buffer | next token | growth, lengths that outrun the data |
| parser, `parser.c` | C stack, token | parse | left recursion as a loop, subshells as recursion |
| evaluator, `process.c` | processes (cwd, flags, pool) | invoke, eval, dup, close | flags that are reset or never set |
| command loop, `sandbox/main.c` | cwd kept between lines | read, evaluate, leave | reads flags of a process that may never have been set |
| memory pool, `mempool.c` | list of buckets | alloc, release | alignment and bounds |
| label; generated tables; disk I/O | | | not modelled, see section 7 |

The host calls `process_shell`; it parses (tokenizer, pool) and evaluates the
tree, `process_invoke` dispatches to a command, the command walks its arguments
with the enumerator and calls FatFs directly or through `ffex.c`. Calls back to
the host are `progress`, the two output functions and `ffsh_sleep`.

What makes each part correct: the driver keeps a sound volume on the medium
whenever the power goes, loses nothing it has reported and does what its API
says; the removal touches nothing outside its argument, leaks nothing and stops
only for a reason; mv and cp touch only what they are told to, keep what `-n`
protects, and mean their exit status; the enumerator hands out what the words of
the line mean; the small commands touch only that and have done what they report;
the tokenizer's tokens are those of the line; the evaluator runs the commands a
reader of the line would run, and a subshell keeps its effects to itself; pool
blocks lie inside and apart.

## 2. Modules

    FatFs               the API of the volume, as operators on (tree, files)
      FatFsFacts        lemmas about paths, these operators and Arguments
      RmdirR            f_rmdir_r as a stack of frames      -> MCRmdirR
        SubtreeRemoval  what a removal promises (RmdirR implements it)
        RmdirRProofs    theorems about RmdirR: what it touches, its table and
                        buffer, what stops it
      Arguments         next_arg as mv and cp see it
        Move            cmd_mv                              -> MCMove
          MoveProofs    theorems about Move
        Copy            cmd_cp, f_copydir, f_copyfile       -> MCCopy
          CopyProofs    theorems about Copy
      Words             globs, paths and braces, as functions of words
        Enumerator      enum_args.c, with FatFs for lookups
          Builtins      the small commands
            BuiltinsMeaning  what a line means, what a command promises -> MCBuiltins
    FatLayer            disk access, window, FAT, chains
      FatDirs           directory tables, paths
        FatFiles        the calls, down to the sectors
          Volume        calls, faults, power failures, mounting
            VolumeMeaning    soundness; FatFs as the promise -> MCVolume
              VolumeProofs   theorems about both
    MemPool             mempool.c                           -> MCMemPool
      MemPoolProofs     theorems about MemPool
    MemStream           memstream.c, as operators on a stream
      Tokenizer         tokenizer.c, utf8_next
        TokenizerMeaning  a line read as a whole            -> MCTokenizer
          TokenizerProofs theorems about both
    Shell               parser, evaluator, command loop
      ShellMeaning      a left-to-right reading of a line   -> MCShell
        ShellProofs     theorems about Shell

**FatFs.** A path is a sequence of names and the tree a function from paths to
nodes. The table of open objects is a function from objects to counters; a file
is known by its entry, an open directory by its cluster, as in ff.c, so that an
open directory does not stop its own removal. An operator is one API call and
returns the set of its outcomes: one normal outcome, chosen by the conditions in
the order ff.c tests them, and, when the medium is `faulty`, an error before or
after the change (f_rename: also with both entries, except that a directory
linked inside itself is left out because no finite tree shows it). The commands'
models rest on it; that the driver keeps it is what `CallsAsApi` checks.

**FatLayer, FatDirs, FatFiles, Volume.** An operator is one function of ff.c and
takes the volume to the volume after it: `disk` is the medium, sector by sector,
the rest is memory. Every access goes through `Access`, which a fuse makes fail
at any number; after each write the medium is noted, and a loss of power leaves
one of those. So every call is also taken with each of its accesses failing, and
with each of its writes being the last. `Mount` then starts from what is left.
A sector of the FAT has `FatSS` links, one of a directory `SS` entries and one of
a file `SS` units of data; a cluster has `Csize` sectors. A sector of file data that is
read as a directory has entries that are none (`junk`). The volume has one FAT,
and a name takes one entry: of dir_find, dir_alloc and dir_remove the loops over
the entries of a long name are left out. No command changes the volume otherwise while
it has a file open to write, and the model does not either.
A loop of ff.c is `Rounds`: as many rounds as it may at most have, of which those
behind its last one change nothing. remove_chain frees at most every cluster,
create_chain looks at most once at each, a walk through a directory ends at
`MaxDir` entries (`MAX_DIR`, 65 536 in the code), and a seek, a read or a write has
as many as its offsets ask for. What a sector may hold (`Content`) depends on its
kind, and a medium is `Formatted` when each of its sectors holds that; nothing is
assumed of the links, chains and entries in them. The structures may be broken, then,
and the paths of ff.c that meet this (FR_INT_ERR) are in the model.

**RmdirR.** A frame is one active call: its statement (`at`), the directory its
DIR object is open on, `dirOpen`, the entries read, `pszEnd`. `psz` is the one
path buffer. `Progress` includes what the host may do in the callback; between
calls it may open and close files too (`HostBetween`). f_readdir is
`Unread`/`seen`, in any order. The model starts at the
call: cmd_rm, the only caller in the repository, does not get there today,
because its option loop refuses -r after accepting it (section 4).

**Move, Copy.** The command after its options. `target`, `toDir`, `found` are
szTarget as first set, bTargetIsDir, bTargetExists; in Copy `szTarget` is the
buffer itself, with the name that stays on it from an earlier argument. f_copydir
is a stack, f_copyfile the record `cf`. A file's contents are one item per
16384-byte buffer. `failing` is chosen at the start: then any call may fail.
A step of cp is an action of `Step`. f_copyfile runs the host's callback after every
full buffer and f_copydir after each directory in it (`Calls`): then `called` holds
until the next step, and the host may open and close up to `HostMax` files of its own
(`Host`). A frame of f_copydir notes what its directory had when it was opened
(`listed`). Those entries are read; one that cp itself makes there later is read or
passed over, since that depends on the slot it takes (`Unread`, `Awaited`).
**Arguments** is what the two see of the enumerator: a name is looked up when its
turn comes, a pattern is a listing taken then, and the attributes that come with
an entry stay as old as the listing. A pattern that matches nothing is handed on as
it is, so that mv, cp and mkdir can make an entry of that name, which the pattern
then matches.

**Words, Enumerator, Builtins.** A word is a sequence of characters as the
tokenizer leaves them, its unquoted specials being the private codepoints of
`tokenizer.c`. Words has pathglob, pathcan, pathcat, pathsplit and their kin, and
bracexp_prepare and expand with their 128 bytes. An ENUM_ARGS is a record and
next_arg a set of outcomes, one for each order of a listing and each failure.
In Builtins an action is one round of a command's loop over options or arguments
with all its calls on the volume, and `Finish...` what stands behind the loop.
date differs from pwd only in the text it prints and is modelled with it. What
sleep and hexdump count is computed modulo `Word`. A read that fails has given a
part of the data before, and a write that fails, or finds the volume full, has stored
a part of it (`Written`). cat prints a buffer of `CatSize` units (128 in the code) as
a C string, so that what follows a NUL in it is lost (`AsStrings`). A pattern in the
root gives pathcat an empty buffer, and its look at the byte before decides whether
the path gets a slash: both are taken (`ReadDir`).

**Shell.** The recursion of parseBinary is `parsing`, that of process_eval_node
is `calls`, the processes of the line and its subshells are `procs`. An
uninitialised did_exit is either value. The commands are true, false, cd, exit and
unknown words: those whose effect on a process the properties tell apart.

**MemStream, Tokenizer.** A stream is its position, length and block; the bytes
of the block are a function, so that a write behind its end would show. The
tokenizer's loops are steps: one for each character, with `utf8` the codepoint it
stands on and the index of the next. A codepoint is a name, `Width` its bytes in
UTF-8, and a byte is a codepoint and a number. The lines are well-formed, as
readme.md requires, and realloc does not fail. Shell and Builtins take up where
this ends: their tokens and words are what Tokenizer finds.

**MemPool.** A bucket is its size and its `used`; a block is a range of it. The
list is kept from its oldest bucket, so AllocFromBucket's first fit is the
largest index.

Definitions whose comment calls them a mistake (`Untrimmed`, `CloseHalf`,
`TakeLinkFirst`...) are not part of any specification. Each replaces the
definition after it to show that a property would notice.

## 3. Runs

| Run | Instance | States | Shows |
|---|---|---|---|
| rmdirr | trees of 8-9 entries, 4 levels, a read-only file or none; 2 table entries; at most 2 files of the host; any failure | 78 302 | nothing leaks (`TableExact`), the shared buffer agrees with every frame (`BufferAgrees`), nothing outside is touched, only a locked or read-only file or a disk error stops it (`OnlyFilesStopIt`), it implements `SubtreeRemoval` and returns (`RemovesSubtree`) |
| move | 14 commands, with and without `-n`, one open file or none, sound or failing | 4 622 | `-n` loses nothing, bystanders stay, exit 0 means moved, what is lost is reported (`LossIsReported`), the command ends |
| copy | 12 commands, 4 volumes, 4 table entries, one file of the host | 213 774 | table exact on all paths, `-n` keeps everything, the readme's rule for FF_FS_LOCK suffices, `cp -r` makes the directories it reports |
| volume | two media of 6 clusters (a directory without a free entry; a fragmented file, the FAT in two sectors, one free cluster); 4 calls out of f_open in three modes, f_write, f_close, f_unlink, f_mkdir, f_rename, f_utime, f_read; one fault at any access or write | 89 503 | the medium alone is always sound (`MediumSound`) and has of every file a text its writer left (`MediumHoldsWhatWasWritten`); no cluster is lost by a refused call (`NothingLost`); a reported change is on the medium; a call does what FatFs says (`CallsAsApi`); only a full volume denies (`OnlyFullDenies`); a rename leaves the object at one of its names at least, wherever it stops (`RenameKeepsOne`) |
| builtins | 456 starts: 228 lines over 11 commands, in two directories; up to 2 rounds in which calls fail | 21 340 | arguments are what the words mean (`ArgumentsAsWritten`), nothing else is touched (`OnlyNamedTouched`), exit 0 means that every argument was done, with the exceptions of section 4 (`DoneAsAsked`), what a command opens is closed on every path (`AllClosed`) |
| mempool | sizes 0, 1, 8, 9, 24, 31, 32, 50; 64-byte buckets, at most 3 | 188 321 | blocks inside, apart, aligned |
| shell | all lines of up to 3 tokens over 9 tokens, 2 820 longer ones | 120 106 | commands, directories, depth and status as a plain reading has them; subshells closed; the loop leaves after an `exit` that comes last and never without one, whatever subshells do (`LeavesForExit`); a line always ends |
| tokenizer | all 4 681 lines of up to 4 characters over 8, 5 394 longer ones with wide, quoted and escaped parts; a builder of 1 byte that doubles up to 8 | 205 214 | tokens and texts are those of the line read as a whole (`TokensAsRead`), decoder and builder stay in bounds, every call returns |

Violations, each a disagreement of the code with what the repository says:

* **copy_file**: `cp a b` succeeds and there is no b. A block in f_copyfile has
  lost its `if (err)` and removes every copy.
* **move_loss**: `mv * d` moves d into itself and loses what is in it.
* **exit_lost**: after `exit; true` the command loop goes on. process.h:37 says of
  did_exit "True if exit command invoked", and readme.md:230 has the loop detect by it
  that the user entered `exit`; but every command resets it (process.c:108).
* **glob_names**: `rm a*b` removes the file a: a name that ends where the pattern
  has a star matches, whatever follows the star.

Because of the first, `copy` does not claim that file contents arrive: it checks the
directories (`Skeleton`) and what must not change. Because of the last, the lines of
`builtins` have their stars at the end or alone in a segment. The property of exit_lost,
`DidExit`, is what a user would want; `LeavesForExit` of the run `shell` is the part of
it that the code keeps. The uninitialised did_exit of a new process is either value in
both, so a line that invokes nothing is left out of the second.

Bounds. Two table entries make a four-level removal starve at three nested levels, and a
host file in the table makes the first level starve too; with two names every
interesting relation of siblings and nesting exists. Three levels with four table
entries is where the readme's rule is exact for cp. Three buckets let a block go to the
newest, an older or a new bucket. Lines of two operators, with a group on either side or
nested, show associativity, short cuts and scopes. Four characters reach every pair of
quotes and what follows it; the longer lines make a builder that starts at one byte take
the size asked for, double, and grow by its limit. Four calls are a file opened, written
and closed with one call before or after, or three changes to directories and a look at
them; three units written at a time end inside a sector, fill one and cross into the
next cluster. `MaxDir` is 8, two clusters: in the instances a directory is stretched
once at most. `MaxFaults` is 1 there, because a volume that already met an error is a
new start; it is 2 in `builtins`, where the second failure can meet an error path.
`Word` is 2^25 instead of 2^32, the largest power whose products with the factors TLC
can compute in the instances, `BufSize` 3 and `Row` 2 make hexdump fill its buffer, keep
part of a row and drop what is to be skipped across two reads; `CatSize` 2 makes cat
print a file in several buffers, with a NUL in the first of them. One file of the host
during cp takes the last entry of the table or shares the file that is copied. `OpsSize`
is the code's 128, and one word has too many operations for it.

Fairness. RmdirR, Move, Copy, Shell and Tokenizer assume weak fairness of the code's own
steps: one thread runs the command to its end, a call on the medium returns, and a host
that acts in the callback returns from it (in Copy the fairness is of `Command` alone).
Nothing is assumed of the host: it need not call, open, close or type anything. For the
shell, only the steps after a line was typed are fair. Volume and Builtins are checked
for safety only: there every call and every round is one step, and nothing is promised
about who makes the next call.

Deadlock is switched off where the program stops: a command that has exited, a
tokenizer that was closed, the command loop that has ended, a volume whose calls
are used up or that has two names for one chain.

## 4. Disagreements

Here the code does something else than the repository says of it, and the models
have it as the code does. The four runs above show one each; TLC has found the
others violated too when they were stated as properties, but no run is kept for
them. `DoneAsAsked`, `ArgumentsAsWritten` and `NoClobberKeepsAll` claim nothing
there, and so do not catch them.

| What the code does | What it should |
|---|---|
| `rm -r d` is refused: behind `-r` an `else` is missing (cmd_rm.c:16-21) | readme.md:22, 78 |
| `echo -a -o:f` refuses a file that exists (FA_CREATE_NEW), `echo -o:f` appends to it (cmd_echo.c:44) | readme.md:13 |
| `rmdir` removes a file, since f_rmdir is f_unlink (cmd_rmdir.c:22, ff.h:347) | readme.md:23, 31 |
| `cat` loses what follows a NUL in each buffer of 128 bytes (cmd_cat.c:60) | readme.md:31 |
| `mkdir -p` ends with 0 when nothing was made for any other reason than a missing path (ffex.c:311) | readme.md:31 |
| `sleep 0.5d` sleeps about four minutes: the fraction overflows 32 bits (parse.c:134) | readme.md:24 |
| `hexdump -s:1 f` prints nothing: the end of the range wraps around (cmd_hexdump.c:80) | readme.md:16 |
| an enumeration that was aborted goes on with the rest of a brace expansion (enum_args.c:475) | enum_args.h:85 |
| the absolute path of an entry that a pattern in the root matches may lack its slash (path.c:128) | enum_args.c:404 |
| `cp -n` overwrites what f_stat failed to find on a failing medium (ffex.c:131) | ffex.c:134, readme.md:11 |
| `cp` to a pattern that stands for several targets takes the first and ends with 0: the wrong enumeration is aborted, and restarted (cmd_cp.c:133, 154) | cmd_cp.c:132 |
| a line that invokes nothing may end the command loop: did_exit is not initialised (process.c:16) | process.h:37 |

What no document settles is left out of `DoneAsAsked` as well: it is listed in the
second part of the comment at its definition.

## 5. Proofs

`RmdirRProofs` proves, for all names, trees, table sizes, bounds of the host and
with or without failures:

* **RemovalContained**: nothing outside the argument is touched.
* **VolumeStaysTree**: what stands, stands in directories.
* **RemovalRefined**: every step is a step of the abstract removal or none that
  it sees (the safety part of `RemovesSubtree`).

`OutsideUntouched` is not inductive: a step that unlinks `psz` keeps it only if
`psz` is inside the target, and that follows only if every frame knows that its
own path is a prefix of the buffer. The inductive invariant is
`IInv == Contained /\ Anchored /\ Volume /\ OutsideUntouched`: the buffer and
every frame's directory are inside the target; each frame's `pszEnd` bounds a
prefix of the buffer and frames nest; the volume is a tree. There is a lemma for
each action, and under it one step for each part that the action can disturb.
The assumptions used are those on the constants in FatFs and RmdirR.

Its second part goes on from there and proves **TableKept** (`TableExact`),
**BufferKept** (`BufferAgrees`) and **TypesKept** (`TypeOK`). None of the first two is
inductive: that closing a directory takes exactly one entry out of the table needs
that no other frame or file of the host stands for the same entry, and that needs
to know where each frame is. The invariant `Books` adds to `IInv` that each
frame's directory is what the buffer has below its `pszEnd` and one name longer
than its caller's (`Agree`), that the directories of the stack are ordered by
length, so that all are different (`Ordered`), that `dirOpen` is TRUE exactly at
the statements that hold the directory (`OpenAsTheyKnow`), and that the table is
the host's files and these directories (`Exact`). The counting rests on the
library's theorems on finite sets.

Its third part proves **OnlyFilesStop** (`OnlyFilesStopIt`), for trees of any
depth and tables of any size. The invariant `Sound` is about a call that began
with a free entry: the directories of the active calls are still there (`Stand`);
whatever a call has read of its directory is gone, except for the entry it is at
(`Emptied`), so that the last f_rmdir meets an empty directory even after the
directory was closed and read again; and `AtWork` says where an entry of the
table must be free. The point is that a call which finds the table full was not
called by a second try: its caller can close its own directory, which frees an
entry unless it is the root, and the second try finds it. So
FR_TOO_MANY_OPEN_FILES goes up one level and no further.

`MoveProofs` proves **MoveContained** (`BystandersUntouched`) and **MoveProtects**
(`NoClobberLosesNothing`), for every volume that is a tree and every line of names and
patterns (`MoveAssumption`). The first rests on `Known`: what is left of the
enumeration, and every entry still to be handed out of a listing, is of the line, and so
is the target. Each outcome of f_unlink and f_rename, those of a failing medium with
both names on it included, then changes only the target and what is at or below a path
that the line names. For the second, `Safe` says that mv -n of files has made no
directory and that every file's contents are still somewhere: a rename of a file goes to
a free name or nowhere, and the copy it leaves behind when it stops half-way may be
moved again. **MoveTypes** (`TypeOK`) includes that the volume stays a tree through
every rename, also of a directory below itself and of one that stops half-way
(`RenamedTree`, `LinkedTree`). **MoveTellsTruth** (`SuccessMeansMoved`) says that after
an exit status of 0 no path that was named and existed is there any more. Its invariant
`Accounted` relates three things: a name that is still on the volume, or a place in the
target that something may still be moved to, is one the enumeration has still to hand
out or the argument at hand (`Handled`); what was in the target is still there, except
for what a rename is about to replace (`Standing`); and which is the target's directory
(`Home`). It is needed because an argument may be moved to the name of another: then the
other was handed out later, and was moved or refused. FatFsFacts has what the three
commands need to know of paths and of next_arg, and what f_unlink and f_rename keep.

`CopyProofs` proves **CopyContained** (`BystandersUntouched`), **CopyKeeps**
(`NoClobberKeepsAll`), **CopyTable** (`TableExact`) and **CopyTypes** (`TypeOK`), for
every volume that is a tree and every line of names and patterns that does not name the
root (`CopyAssumption`). `Words` follows the line through the enumeration, as in Move;
`Places` says that every frame of f_copydir and the call of f_copyfile write below a
goal of the line, so that each step on the volume changes one path, below a goal
(`TreeStep`). Under -n, `OnNothing` says what the three looks at the target are good
for: between the look and the open the call's target does not exist, and after it the
target is none of the nodes that were there before. The exact table needs the counters:
`Booked` says which objects are open and how often (the host's file twice while it is
also the source), and by what, and `Booking` says it for each place the command can be
at. That f_open with FA_CREATE_ALWAYS never takes an object twice needs `OpenExist`:
what is open exists, since f_unlink refuses it; that f_closedir frees its entry needs
`Deepening`: the directories on the stack get longer, so all are different. A step that
is not the command's is one of the host in its callback (`Still`): it changes only the
host's own entries. `Grown` keeps the volume a tree: what is made is made in a
directory, what is written is a file, what is removed is a leaf.

**CopyNeedsNoMore** (`EnoughEntries`) is readme.md's rule for FF_FS_LOCK: an open
that fails for want of an entry means that the table has less than one entry for
each level of the deepest argument, two, and those of the host. The copy itself makes
directories where it has still to read, so that the tree may get deeper than it was;
`Depths` says where: no directory, and no entry of a listing, is below a source by
more than its levels, unless it is below the target (`Shallow`), and each frame is one
level below its caller and not in the target (`Descends`). So there are at most
`Deepest` frames, and their open directories, all different, are no more. That
`Deepest`, a maximum, exists needs that a volume has finitely many entries, which
`CopyAssumption` states; that a finite set of numbers has a greatest one is proved
by well-founded induction.

**CopySkeleton** (`Skeleton`): exit status 0 of cp -r on a sound medium, without -n,
means that the directories of every source are below a target. A source that is
itself below a target is excepted, and must be: the target of each copied file is
removed, so `cp -r u/k t/k/sub t` empties a directory of t/k before its turn. The
proof of an earlier form without the exception failed at this place, and TLC has
shown the run. The host's open files may stop a copy, and then the exit status says
so. The invariant has five parts. What cp changes is
below `target` (`AtTarget`), so what is elsewhere is as it was (`Elsewhere`); no
directory is lost, except one that is made again at once (`FileMade`, `DirsStay`,
`SureNext`); each entry that a frame has seen is copied, flagged as failed or the
frame above is at it (`Progress`, `Tracked`), and what was in a directory at the start is
among the entries it lists (`Complete`, `Noticed`), so a frame that ends without a flag
has copied its directory (`LeftComplete`); and each wanted directory is still to be
handed out, in hand, or copied, unless the exit status will tell (`Settled`).

`ShellProofs` proves **SubshellsAreClosed** (`SubshellsClosed`) and **ExitEndsLoop**
(`LeavesForExit`) for every set of lines, over any words and directories and with
parentheses nested to any depth. The invariant `Balanced` counts: there is one process
more than calls of process_eval_node that wait for a subshell, and no call waits outside
the evaluation. It follows that the flag is that of the last command outside parentheses
(`FlagIsOfLastCommand`), because a subshell's commands write to a process that is not
the first, and from this `LeavesForExit`. **ShellTyped** is `TypeOK`; it needs that `cd`
leads from directories to directories (`WordsAssumption`).

**LinesRunAsRead** (`RunsAsRead`) is the correctness of the parser and evaluator: for
every line, of any length and depth, the two recursions run the commands that
`ShellMeaning` runs in one pass from left to right, in the same order, in the same
directories and subshells, and with the same status, and a line with a syntax error
runs none. The two have nothing in common to compare, so the proof puts the
derivations between them: `Spans(nd, i, j, l)` says that a node stands for the tokens
i to j. The parser's frames are prefixes of such nodes (`AtLeaf`, `AtParsed`), so that
the tree it returns stands for what it consumed, and the verdict of `Syntax` is the
one it comes to. A run along the tokens of a node is what the node's evaluation does
(`Evaluates`, `Returned`): the frames of process_eval_node each wait for a node that
ends at a known token (`Calls`), the processes are the parentheses that are open
(`Matches`), and the operand that `&&` or `||` does not evaluate is one over which the
run changes nothing (`SkipsTo`). `Reads` is the invariant. The folds are unfolded
once, into the sequence of their states (`Along`).

`MemPoolProofs` proves **PoolTypes**, **PoolBlocksInside** and **PoolBlocksApart** for
every bucket size of at least six pointers and every set of requests. Apartness needs
that every block ends at or before its bucket's `used`, which is `BlocksInside`;
that needs `BucketsSound`.

`TokenizerProofs` proves **TokenizerTypes** (`TypeOK`) and **TokenizerInBounds** for
every line over any characters, any first size and any limit of doubling: the decoder
never reads behind a line's terminator and no encoded character is written behind the
builder's block. The invariant `IInv` adds to `InBounds` that what is decoded comes from
the line, and so has at most the four bytes that encode() reserves; the lemmas on the
stream follow a call through growth, reservation, write and advance.

It also proves **TokenizerReads** (`TokensAsRead`): the tokens found one by one, a
character ahead and in a block that moves as it grows, are those of the line read
as a whole. Being right at each token says nothing of the states in between, so the
invariant `AsRead` speaks of every control point. Between tokens (`Ready`) the
reader stands where the plain reading can stand, no operator of two characters is
cut in half, and as many tokens start behind it as were found. Inside a word
(`Built`) it says where the word began, that nothing has stopped it, and that the
builder holds the bytes of what its characters meant so far and nothing else. The
reference counts starts (`TokenOf`); `RankIs` shows that the start with so many at
or before it is the one the reader is at, and the fold that gives each character its
quoting is unfolded once (`ReadingIs`). The proof corrected `TokenOf`: it was a CASE
with guards that overlap behind the end of the line, where TLA+ leaves the choice
open and TLC takes the first arm; it is an IF now.

`VolumeProofs` proves **VolumeTypes** (`TypeOK`) and **SuccessOnMedium**
(`SuccessIsOnMedium`) of the FAT driver: for every geometry, every formatted medium,
sound or broken, all names, paths and amounts, any bound of calls and faults. Neither is
inductive. A call's operator is a chain of the functions of ff.c, any of whose accesses
may fail, so the invariant has to hold of every volume between two of them: `Volumes`
says what the window, the FIL, the table, the DIR object and each of the media that a
cut may leave can be, and that the window holds what its sector may hold (a FAT sector's
links written back as a directory would be the end of the volume). There is a lemma for
each function (`MoveWindowStays`, ... `FRenameEnds`), that it leads from `Volumes` to
`Volumes`, and for each loop that its round does. `SuccessIsOnMedium` compares two
trees, which nothing could be proved of directly. `VolumeInv` (**VolumeHolds**) has in
its place that nothing waits in the window after such a call (`Settled`), and that rests
on `Right`: a window that is not marked as changed has what its sector has. dir_remove,
dir_register and f_utime mark it, and it stays right through every error path up to the
sync_fs at the end. There is one exception: sync_fs ignores an error of its write of
FSInfo, so that the window may stand on that sector with something else than the medium
has. `SettledTree` shows that the tree does not depend on it: no chain, directory or
file is read from there. The action that ends a call is taken apart once for all calls
(`Form`, `FormKeeps`). The volume's assumptions are those on the constants: a volume has
a cluster, a cluster more entries than the two of an empty directory, a name is none of
the marks of an entry, media are formatted, paths have names and a write has units.

Induction. The library's induction theorems take an operator as a parameter, which
the provers cannot instantiate. Two ways round are used: a least counterexample
(`LeastNat`, from the library's theorem that < on the numbers is well-founded), and
the definition of a fold, which is a recursive function whose equation can be used.

Only model-checked: the termination of all commands, since liveness under fairness and
ENABLED are out of the prover's reach. Of Move, `LossIsReported`. Of Volume,
`MediumSound`, `MediumHoldsWhatWasWritten`, `NothingLost`, `RenameKeepsOne`,
`CallsAsApi` and `OnlyFullDenies`: they are about the chains and directories that a
medium has after every single write, and their invariant would have to follow the graph
of all links through every call of ff.c, with the sharing of clusters in it, and relate
it to a tree of the API. Of Builtins, `ArgumentsAsWritten`, `OnlyNamedTouched`,
`DoneAsAsked` and `AllClosed`: the enumerator and the expansion of braces are written
with RECURSIVE operators, as the code is, and these the proof system cannot take.

## 6. Plan

1. *(done)* FatFs, RmdirR with its refinement and proofs, Arguments, Move, Copy,
MemPool with its proofs, Shell with its reference reading. 2. *(done)* MemStream and the
tokenizer: growth, length and what is copied out. 3. *(done)* The driver below its API,
with failures and losses of power, against    FatFs as its abstract specification. 4.
*(done)* Options and enumerator with brace expansions, listings and aborts; the    small
commands on top of them; globs, braces, paths and durations against    reference
definitions. 5. *(done)* Theorems for every instance: the table, the buffer and the
results of a    removal; the bystanders of mv and cp, what their -n protects and what
their exit    status means; the table, the types and the entries a copy needs; the
closed    subshells, what ends the command loop, the meaning of a line and the tokens it
is read as; the    types of the FAT driver, and that a change it reports is on the
medium. 6. *(open)* The enumerator without RECURSIVE operators, so that what the small
commands leave alone can be proved and not only checked.

## 7. Not modelled

* Of ff.c: names that take more than one entry and their code pages, FAT12, FAT16
  and exFAT, a second FAT, f_lseek, f_truncate, f_chmod, labels, f_mkfs, f_fdisk,
  the string functions. Most of them are compiled out by `ffconf.h` or called by
  no command; long names would multiply the entries of every directory by the
  sectors a crash can fall between, without a new kind of order.
* `ffunicode.c`: 15 593 lines of generated code tables, half of the repository.
  Together with what `ffconf.h` compiles out of ff.c they are most of its lines,
  and no model can stand for them.
* utf8cmpi as an order: listings come in any order in every model. Bytes that are
  not UTF-8 (readme.md excludes them; utf8_decode does not advance on them, utf.c:29,
  so that a loop over a text would not end). Names that differ in case only.
* A dash alone, which next_opt takes for an option without letters and drops
  (enum_args.c:154): the reference of `ArgumentsAsWritten` drops it as well.
* is_opt's look behind the terminator of its list of names when an option is the
  last of them and more (enum_args.c:187).
* A copy that stops short on a full volume: f_copyfile looks at what f_write returns
  and not at how much it took (ffex.c:170). Copy has no full volume, and no copy
  arrives anyway (run copy_file).
* What a stretched directory shows of its new cluster's old contents after a crash:
  `MediumSound` excepts these entries.
* Lines of cp that name the root among the arguments. Without -r it is passed over;
  with -r the copy into itself is refused, after a target that is a file was removed.
* An allocation that fails: the callers write through NULL (hazard dirutils.c:10).
* label (two calls nothing else sees), the console and mounting of the sandbox,
  the text of dates, columns and messages.
* parse_argv, count_argv, split_args, parseGroup, and of memstream what nothing
  calls.
