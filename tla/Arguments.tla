----------------------------- MODULE Arguments -----------------------------
(* The argument enumerator of src/src/enum_args.c as its callers see it.     *)
(* An argument of the command line is either the name of one path, looked up *)
(* when the enumerator reaches it, or a pattern for the entries of one       *)
(* directory.  A pattern is a listing taken when the enumerator reaches it,  *)
(* and handed out entry by entry while the command changes the volume:       *)
(* the FILINFO that comes with an entry is as old as the listing.  A pattern *)
(* has a path of its own, whose last name is the pattern as it is written:   *)
(* an entry can be made under that name, and the pattern matches it.         *)
EXTENDS FatFs

Literal(p) == [path |-> p, glob |-> FALSE, slash |-> FALSE, match |-> {}]
Slashed(p) == [Literal(p) EXCEPT !.slash = TRUE]      \* written with a slash at its end
Pattern(p, names) == [Literal(p) EXCEPT !.glob = TRUE, !.match = names \cup {Last(p)}]

(* A word of the command line, over the names ns; a pattern matches an entry *)
(* of its own name.                                                          *)
Word(ns) ==
  {w \in [path : Seq(ns), glob : BOOLEAN, slash : BOOLEAN, match : SUBSET ns] :
     w.glob => w.path # <<>> /\ Last(w.path) \in w.match}

(* The state of an enumeration: the arguments to come, and the rest of the   *)
(* listing of the pattern it is in.                                          *)
Enumeration(args) == [todo |-> args, listing |-> {}]

Done(e) == e.todo = <<>> /\ e.listing = {}

(* What pfi says of a path: the kind of the entry, or that there is none     *)
(* (NULL), which is also what any error of the lookup comes to.              *)
Kind(t, p) == IF p \notin DOMAIN t THEN "none" ELSE IF t[p].dir THEN "dir" ELSE "file"

(* next_arg: the arguments it may return, each with the enumeration after    *)
(* it, or the error that ends it.  A pattern that matches nothing stands for *)
(* itself, without an entry; a name with a slash at its end must not be a    *)
(* file's.  The order of a listing (by name, in the code) is left open.      *)
Returned(e, p, kind) == [enum |-> e, path |-> p, kind |-> kind, err |-> FALSE]
Aborted(p) == [enum |-> Enumeration(<<>>), path |-> p, kind |-> "none", err |-> TRUE]

Listing(t, a) ==
  {[path |-> p, kind |-> Kind(t, p)] :
     p \in {q \in Children(t, Front(a.path)) : Last(q) \in a.match}}

(* A listing that hands its entries out without using them up.               *)
FromListingAgain(e, listing) ==
  {Returned([e EXCEPT !.listing = listing], x.path, x.kind) : x \in listing}

FromListing(e, listing) ==
  {Returned([e EXCEPT !.listing = listing \ {x}], x.path, x.kind) : x \in listing}

NextArg(t, f, e, faulty) ==
  IF e.listing # {} THEN FromListing(e, e.listing)
  ELSE LET word == Head(e.todo)
           rest == [e EXCEPT !.todo = Tail(@)]
           none == Returned(rest, word.path, "none")
       IN  IF ~ word.glob
             THEN {IF word.slash /\ Kind(t, word.path) = "file" THEN Aborted(word.path)
                   ELSE Returned(rest, word.path, Kind(t, word.path))}
                  \cup (IF faulty THEN {none} ELSE {})
           ELSE IF OpendirResult(t, f, Front(word.path)) # "FR_OK" THEN {Aborted(word.path)}
           ELSE (IF Listing(t, word) = {} THEN {none} ELSE FromListing(rest, Listing(t, word)))
                \cup (IF faulty THEN {Aborted(word.path)} ELSE {})

(* cp and mv look their last argument up first.  When it stands for several  *)
(* paths the first is taken: the error that is raised then is lost, with the *)
(* enumeration it was noted in.                                              *)
TargetArg(t, f, a, faulty) == NextArg(t, f, Enumeration(<<a>>), faulty)

(* The paths a command line may name.                                        *)
NamedBy(args) ==
  UNION {IF a.glob THEN {Append(Front(a.path), n) : n \in a.match} ELSE {a.path} :
           a \in Range(args)}

=============================================================================
