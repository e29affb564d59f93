------------------------------ MODULE Tokenizer ------------------------------
(* src/src/tokenizer.c: a command line is read one character ahead; a word's *)
(* text is built in a memory stream and copied to the pool of the process.   *)
(* The loops of the C code are the steps here.                               *)
EXTENDS MemStream

CONSTANTS
  Chars,         \* the characters (readme.md: all strings are UTF-8)
  Width,         \* how many bytes encode one
  Lines,         \* the command lines
  InitialSize    \* 512: the size of the builder's first block

Space == {" ", "\t", "\r", "\n"}
Delimiters == {"&", "|", ";", "(", ")"}

(* map_special_char: a pattern character that stands outside of quotes.      *)
Special == [c \in {"*", "?", "{", "}", ","} |->
              CASE c = "*" -> "U+F801" [] c = "?" -> "U+F802" [] c = "{" -> "U+F803"
                [] c = "}" -> "U+F804" [] c = "," -> "U+F805"]

Mapped(c) == IF c \in DOMAIN Special THEN Special[c] ELSE c

(* The end of a string, and the decoder before its first character.          *)
End == "U+0000"
Before == "U+0001"

ASSUME WidthAssumption ==
  /\ Width \in [Chars \cup {Special[c] : c \in DOMAIN Special} \cup {End} -> 1 .. 4]
  /\ Width[End] = 1
ASSUME LinesAssumption == Lines \subseteq Seq(Chars) /\ End \notin Chars
ASSUME SizeAssumption == InitialSize \in Nat

VARIABLES
  psz,      \* the line
  utf8,     \* the decoder: the current codepoint, the index of the next one
  at,       \* what goes on: see Places
  quote,    \* the quote that is open
  builder,  \* the memory stream
  token,    \* the current token
  arg,      \* its text: the bytes in the pool
  read      \* history: the tokens so far

vars == <<psz, utf8, at, quote, builder, token, arg, read>>

Places == {"next", "arg", "quoted", "token", "closed"}
TokenTypes == {"EOF", "ARG", "PIPE", "BG", "LOGICAL_OR", "LOGICAL_AND", "SEMICOLON",
               "OPENROUND", "CLOSEROUND"}

-----------------------------------------------------------------------------
(* The decoder, and one that does not stop at the end of the string.         *)
NextCharBlind(u) ==
  [codepoint |-> IF u.next <= Len(psz) THEN psz[u.next] ELSE End, next |-> u.next + 1]

NextChar(u) ==
  IF u.codepoint = End THEN u
  ELSE [codepoint |-> IF u.next <= Len(psz) THEN psz[u.next] ELSE End, next |-> u.next + 1]

Advance == utf8' = NextChar(utf8)
Codepoint == utf8.codepoint

Utf8(c) == [k \in 1 .. Width[c] |-> <<c, k>>]

(* All that was reserved taken for written.                                  *)
EncodedWhole(c) == MemStreamAlloc(Poked(MemStreamReserve(builder, 4), Utf8(c)), 4)

(* Room for the longest character is reserved, the character is written and  *)
(* its own length taken.                                                     *)
Encoded(c) == MemStreamAlloc(Poked(MemStreamReserve(builder, 4), Utf8(c)), Width[c])

(* tokenizer_init.                                                           *)
Init ==
  /\ psz \in Lines
  /\ utf8 = NextChar([codepoint |-> Before, next |-> 1])
  /\ at = "next"
  /\ quote = Before
  /\ builder = MemStreamNew(InitialSize)
  /\ token = "EOF" /\ arg = <<>> /\ read = <<>>

-----------------------------------------------------------------------------
(* tokenizer_next.                                                           *)
SkipSpace ==
  /\ at = "next" /\ Codepoint \in Space
  /\ Advance
  /\ UNCHANGED <<psz, at, quote, builder, token, arg, read>>

Found(t) ==
  /\ token' = t
  /\ at' = "token"
  /\ read' = Append(read, [token |-> t, text |-> <<>>])
  /\ UNCHANGED <<psz, quote, builder, arg>>

EndOfLine == at = "next" /\ Codepoint = End /\ Found("EOF") /\ UNCHANGED utf8

Single(c, t) == at = "next" /\ Codepoint = c /\ Advance /\ Found(t)

Doubled(c, once, twice) ==
  LET second == NextChar(utf8) IN
  /\ at = "next" /\ Codepoint = c
  /\ \/ second.codepoint = c /\ utf8' = NextChar(second) /\ Found(twice)
     \/ second.codepoint # c /\ utf8' = second /\ Found(once)

Operator ==
  \/ Single(";", "SEMICOLON") \/ Single("(", "OPENROUND") \/ Single(")", "CLOSEROUND")
  \/ Doubled("&", "BG", "LOGICAL_AND") \/ Doubled("|", "PIPE", "LOGICAL_OR")

StartArg ==
  /\ at = "next" /\ Codepoint \notin Space \cup Delimiters \cup {End}
  /\ builder' = MemStreamReset(builder)
  /\ at' = "arg"
  /\ UNCHANGED <<psz, utf8, quote, token, arg, read>>

-----------------------------------------------------------------------------
(* parse_arg.                                                                *)
PlainChar ==
  /\ at = "arg" /\ Codepoint \notin Space \cup Delimiters \cup {End, "\\", "\"", "'"}
  /\ builder' = Encoded(Mapped(Codepoint))
  /\ Advance
  /\ UNCHANGED <<psz, at, quote, token, arg, read>>

(* A backslash at the end of the line stands for nothing.                    *)
EscapedChar ==
  LET escaped == NextChar(utf8) IN
  /\ at = "arg" /\ Codepoint = "\\"
  /\ IF escaped.codepoint = End
     THEN utf8' = escaped /\ UNCHANGED builder
     ELSE utf8' = NextChar(escaped) /\ builder' = Encoded(escaped.codepoint)
  /\ UNCHANGED <<psz, at, quote, token, arg, read>>

OpenQuote ==
  /\ at = "arg" /\ Codepoint \in {"\"", "'"}
  /\ quote' = Codepoint
  /\ at' = "quoted"
  /\ Advance
  /\ UNCHANGED <<psz, builder, token, arg, read>>

QuotedChar ==
  /\ at = "quoted" /\ Codepoint \notin {quote, End}
  /\ builder' = Encoded(Codepoint)
  /\ Advance
  /\ UNCHANGED <<psz, at, quote, token, arg, read>>

(* Only the quote ends what is quoted.                                       *)
CloseQuoteOnly ==
  /\ at = "quoted" /\ Codepoint = quote
  /\ at' = "arg"
  /\ Advance
  /\ UNCHANGED <<psz, quote, builder, token, arg, read>>

(* The quote, or the end of the line: the decoder is advanced either way.    *)
CloseQuote ==
  /\ at = "quoted" /\ Codepoint \in {quote, End}
  /\ at' = "arg"
  /\ Advance
  /\ UNCHANGED <<psz, quote, builder, token, arg, read>>

(* The terminator is encoded, and all of the builder copied: what was        *)
(* reserved for the terminator and not written is copied with it.            *)
EndArg ==
  /\ at = "arg" /\ Codepoint \in Space \cup Delimiters \cup {End}
  /\ builder' = Encoded(End)
  /\ arg' = Contents(builder')
  /\ token' = "ARG"
  /\ at' = "token"
  /\ read' = Append(read, [token |-> "ARG", text |-> arg'])
  /\ UNCHANGED <<psz, utf8, quote>>

-----------------------------------------------------------------------------
(* The parser asks for the token after one that is not the end, or gives up. *)
Call ==
  /\ at = "token" /\ token # "EOF"
  /\ at' = "next"
  /\ UNCHANGED <<psz, utf8, quote, builder, token, arg, read>>

Close ==
  /\ at = "token"
  /\ builder' = MemStreamClose(builder)
  /\ at' = "closed"
  /\ UNCHANGED <<psz, utf8, quote, token, arg, read>>

ParseArg == StartArg \/ PlainChar \/ EscapedChar \/ OpenQuote \/ QuotedChar \/ CloseQuote \/ EndArg

Step == SkipSpace \/ EndOfLine \/ Operator \/ ParseArg

Next == Step \/ Call \/ Close

(* The tokenizer runs on; nothing is assumed of the parser.                  *)
Spec == Init /\ [][Next]_vars /\ WF_vars(Step)

-----------------------------------------------------------------------------
(* Properties.                                                               *)

Byte == ((DOMAIN Width) \X (1 .. 4)) \cup {Junk}

(* The shape of the state.                                                   *)
TypeOK ==
  /\ psz \in Seq(Chars)
  /\ utf8 \in [codepoint : Chars \cup {End}, next : Nat]
  /\ at \in Places
  /\ quote \in {Before, "\"", "'"}
  /\ token \in TokenTypes
  /\ builder.owned = (at # "closed")
  /\ \A i \in DOMAIN builder.mem : builder.mem[i] \in Byte
  /\ \A i \in DOMAIN arg : arg[i] \in Byte

(* The decoder never reads behind the terminator of the line (parse_arg      *)
(* steps over a closing quote that may not be there), and no write of        *)
(* encode() goes behind the builder's block, however it has grown.           *)
InBounds ==
  /\ utf8.next \in 2 .. Len(psz) + 2
  /\ utf8.codepoint = IF utf8.next = Len(psz) + 2 THEN End ELSE psz[utf8.next - 1]
  /\ at # "closed" => StreamInBounds(builder)

(* Every call of tokenizer_next returns, whatever quotes are left open.      *)
CallsReturn == at \notin {"token", "closed"} ~> at = "token"
=============================================================================
