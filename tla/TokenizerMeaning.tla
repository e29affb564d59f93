--------------------------- MODULE TokenizerMeaning ---------------------------
(* What a command line means, read as a whole: which characters are quoted,  *)
(* where words and operators begin, and what a word's text is.  readme.md:   *)
(* "Any arguments passed inside single or double quotes are treated          *)
(* literally", "Backslashes can also be used to escape special characters".  *)
EXTENDS Tokenizer, SequencesExt

(* How the character after one of kind `c`, itself read as `m`, is read.     *)
ReadAfter(m, c) ==
  CASE m = "plain" -> (CASE c = "\\" -> "escaped" [] c \in {"\"", "'"} -> c [] OTHER -> "plain")
    [] m = "escaped" -> "plain"
    [] OTHER -> IF c = m THEN "plain" ELSE m

(* How every character is read: plainly, escaped, or inside a quote.         *)
Reading(l) == FoldLeft(LAMBDA r, c : Append(r, ReadAfter(Last(r), c)), <<"plain">>, l)

Stops(l) ==
  LET r == Reading(l) IN {i \in DOMAIN l : r[i] = "plain" /\ l[i] \in Space \cup Delimiters}

WordStarts(l, stops) == {i \in DOMAIN l \ stops : i = 1 \/ i - 1 \in stops}

WordLength(l, stops, i) == Cardinality({j \in i .. Len(l) : (i .. j) \cap stops = {}})

(* The characters of a word that are not quoting themselves; those that      *)
(* stand plainly are pattern characters where they can be.                   *)
Meant(c, how) ==
  CASE how = "plain" -> IF c \in {"\\", "\"", "'"} THEN <<>> ELSE <<Mapped(c)>>
    [] how = "escaped" -> <<c>>
    [] OTHER -> IF c = how THEN <<>> ELSE <<c>>

WordAt(l, stops, i) ==
  LET r == Reading(l) IN
  FlattenSeq([k \in 1 .. WordLength(l, stops, i) |-> Meant(l[i + k - 1], r[i + k - 1])])

(* Equal operator characters in a row pair up from the left.                 *)
RunBefore(l, stops, i) == {j \in 1 .. i - 1 : \A k \in j .. i - 1 : k \in stops /\ l[k] = l[i]}
OperatorStarts(l, stops) ==
  {i \in stops : /\ l[i] \in Delimiters
                 /\ l[i] \in {"&", "|"} => Cardinality(RunBefore(l, stops, i)) % 2 = 0}

OperatorAt(l, i) ==
  LET twice == i < Len(l) /\ l[i + 1] = l[i] IN
  CASE l[i] = "&" -> IF twice THEN "LOGICAL_AND" ELSE "BG"
    [] l[i] = "|" -> IF twice THEN "LOGICAL_OR" ELSE "PIPE"
    [] l[i] = ";" -> "SEMICOLON"
    [] l[i] = "(" -> "OPENROUND"
    [] l[i] = ")" -> "CLOSEROUND"

(* The k-th token of a line.                                                 *)
TokenOf(l, k) ==
  LET stops  == Stops(l)
      words  == WordStarts(l, stops)
      starts == words \cup OperatorStarts(l, stops)
      i      == CHOOSE j \in starts : Cardinality({h \in starts : h <= j}) = k
  IN IF k > Cardinality(starts) THEN [token |-> "EOF", text |-> <<>>]
     ELSE IF i \in words       THEN [token |-> "ARG", text |-> WordAt(l, stops, i)]
     ELSE                            [token |-> OperatorAt(l, i), text |-> <<>>]

(* A C string that encodes these characters begins these bytes.              *)
IsText(bytes, chars) ==
  IsPrefix(FlattenSeq([k \in DOMAIN chars |-> Utf8(chars[k])] \o <<Utf8(End)>>), bytes)

(* The tokens that the tokenizer finds one by one, a character ahead, are    *)
(* those of the line read as a whole; the text of each is one string, whole  *)
(* however often the builder moved while it was built, and without a byte of *)
(* the text before it.                                                       *)
TokensAsRead ==
  at = "token" =>
    LET last     == read[Len(read)]
        expected == TokenOf(psz, Len(read))
    IN /\ last.token = expected.token
       /\ last.token = "ARG" => IsText(last.text, expected.text)
=============================================================================
