--------------------------- MODULE TokenizerProofs ---------------------------
(* The tokenizer reads and writes in bounds, and its tokens are those of the *)
(* line read as a whole: for every set of characters, every line, and every  *)
(* size its builder starts with and grows by.                                *)
EXTENDS TokenizerMeaning, FiniteSetTheorems, SequenceTheorems, WellFoundedInduction, TLAPS

-----------------------------------------------------------------------------
(* The memory stream.                                                        *)

Stream(s) ==
  /\ s = [owned |-> s.owned, cb |-> s.cb, offs |-> s.offs, length |-> s.length, mem |-> s.mem]
  /\ s.cb \in Nat /\ s.offs \in Nat /\ s.length \in Nat

Sound(s) == Stream(s) /\ StreamInBounds(s)

LEMMA NewSound ==
  ASSUME NEW size \in Nat
  PROVE  Sound(MemStreamNew(size))
BY DEF MemStreamNew, Sound, Stream, StreamInBounds

LEMMA ResetSound ==
  ASSUME NEW s, Sound(s)
  PROVE  Sound(MemStreamReset(s))
<1>1. PICK o, cb, offs, length, mem :
        s = [owned |-> o, cb |-> cb, offs |-> offs, length |-> length, mem |-> mem]
  BY DEF Sound, Stream
<1>2. MemStreamReset(s) = [owned |-> o, cb |-> cb, offs |-> 0, length |-> 0, mem |-> mem]
  <2>1. MemStreamReset(s) = [s EXCEPT !.offs = 0, !.length = 0]
    BY DEF MemStreamReset
  <2> QED BY <1>1, <2>1
<1>3. s.cb = cb /\ s.mem = mem
  BY <1>1
<1>4. cb \in Nat /\ DOMAIN mem = 0 .. cb - 1
  BY <1>3 DEF Sound, Stream, StreamInBounds
<1> QED BY <1>2, <1>4 DEF Sound, Stream, StreamInBounds

(* However the block grows, it has room for what was asked for.              *)
LEMMA GrownEnough ==
  ASSUME NEW s, Sound(s), NEW n \in Nat
  PROVE  Grown(s, n) \in Nat /\ s.offs + n <= Grown(s, n) /\ s.cb <= Grown(s, n)
BY GrowthAssumption DEF Grown, Sound, Stream

LEMMA RoomMade ==
  ASSUME NEW s, Sound(s), NEW n \in Nat
  PROVE  /\ Sound(WithRoom(s, n)) /\ s.offs + n <= WithRoom(s, n).cb
         /\ WithRoom(s, n).offs = s.offs /\ WithRoom(s, n).length = s.length
<1>1. CASE s.offs + n > s.cb
  <2> DEFINE size == Grown(s, n)
  <2>1. size \in Nat /\ s.offs + n <= size /\ s.cb <= size
    BY GrownEnough
  <2>2. WithRoom(s, n) = Resized(s, size)
    BY <1>1 DEF WithRoom
  <2> HIDE DEF size
  <2> DEFINE mem == [i \in 0 .. size - 1 |-> IF i < s.cb THEN s.mem[i] ELSE Junk]
  <2>3. DOMAIN mem = 0 .. size - 1
    OBVIOUS
  <2>4. Resized(s, size) = [owned |-> s.owned, cb |-> size, offs |-> s.offs,
                            length |-> s.length, mem |-> mem]
    <3>1. PICK o, cb, offs, length, old :
            s = [owned |-> o, cb |-> cb, offs |-> offs, length |-> length, mem |-> old]
      BY DEF Sound, Stream
    <3>2. Resized(s, size) = [s EXCEPT !.cb = size, !.mem = mem]
      BY DEF Resized
    <3> HIDE DEF mem
    <3> QED BY <3>1, <3>2
  <2> HIDE DEF mem
  <2> QED BY <2>1, <2>2, <2>3, <2>4 DEF Sound, Stream, StreamInBounds
<1>2. CASE ~ (s.offs + n > s.cb)
  BY <1>2 DEF WithRoom, Sound, Stream
<1> QED BY <1>1, <1>2

LEMMA ReserveSound ==
  ASSUME NEW s, Sound(s), NEW n \in Nat
  PROVE  /\ Sound(MemStreamReserve(s, n))
         /\ MemStreamReserve(s, n).offs = s.offs
         /\ s.offs + n <= MemStreamReserve(s, n).length
<1> DEFINE r == WithRoom(s, n)
           length == IF s.offs + n > r.length THEN s.offs + n ELSE r.length
<1>1. Sound(r) /\ s.offs + n <= r.cb /\ r.offs = s.offs
  BY RoomMade
<1>2. MemStreamReserve(s, n) = [r EXCEPT !.length = length]
  BY DEF MemStreamReserve
<1>3. length \in Nat /\ s.offs + n <= length /\ length <= r.cb
  BY <1>1 DEF Sound, Stream, StreamInBounds
<1> HIDE DEF r, length
<1>4. MemStreamReserve(s, n) = [owned |-> r.owned, cb |-> r.cb, offs |-> s.offs,
                                length |-> length, mem |-> r.mem]
  BY <1>1, <1>2 DEF Sound, Stream
<1> QED BY <1>1, <1>3, <1>4 DEF Sound, Stream, StreamInBounds

LEMMA AllocSound ==
  ASSUME NEW s, Sound(s), NEW n \in Nat
  PROVE  Sound(MemStreamAlloc(s, n))
<1> DEFINE r == MemStreamReserve(s, n)
<1>1. Sound(r) /\ r.offs = s.offs /\ s.offs + n <= r.length
  BY ReserveSound
<1>2. MemStreamAlloc(s, n) = [r EXCEPT !.offs = @ + n]
  BY DEF MemStreamAlloc
<1> HIDE DEF r
<1>3. MemStreamAlloc(s, n) = [owned |-> r.owned, cb |-> r.cb, offs |-> r.offs + n,
                              length |-> r.length, mem |-> r.mem]
  BY <1>1, <1>2 DEF Sound, Stream
<1> QED BY <1>1, <1>3 DEF Sound, Stream, StreamInBounds

(* A write of no more than what is left of the stream stays in the block.    *)
LEMMA PokeSound ==
  ASSUME NEW s, Sound(s), NEW S, NEW bytes \in Seq(S), s.offs + Len(bytes) <= s.length
  PROVE  Sound(Poked(s, bytes))
<1> DEFINE written == s.offs .. s.offs + Len(bytes) - 1
           mem == [i \in DOMAIN s.mem \cup written |->
                     IF i \in written THEN bytes[i - s.offs + 1] ELSE s.mem[i]]
<1>1. Len(bytes) \in Nat
  BY LenProperties
<1>2. DOMAIN s.mem \cup written = 0 .. s.cb - 1
  BY <1>1 DEF Sound, Stream, StreamInBounds
<1>3. DOMAIN mem = 0 .. s.cb - 1
  BY <1>2
<1>4. Poked(s, bytes) = [s EXCEPT !.mem = mem]
  BY DEF Poked
<1> HIDE DEF mem
<1>5. Poked(s, bytes) = [owned |-> s.owned, cb |-> s.cb, offs |-> s.offs,
                         length |-> s.length, mem |-> mem]
  BY <1>4 DEF Sound, Stream
<1> QED BY <1>3, <1>5 DEF Sound, Stream, StreamInBounds

-----------------------------------------------------------------------------
(* The tokenizer.                                                            *)

(* What can be encoded.                                                      *)
Encodable == Chars \cup {Special[c] : c \in DOMAIN Special} \cup {End}

LEMMA EncodedSound ==
  ASSUME Sound(builder), NEW c \in Encodable
  PROVE  Sound(Encoded(c))
<1> DEFINE r == MemStreamReserve(builder, 4)
           bytes == Utf8(c)
<1>1. Width[c] \in 1 .. 4
  BY WidthAssumption DEF Encodable
<1>2. bytes \in Seq({c} \X (1 .. 4)) /\ Len(bytes) = Width[c]
  BY <1>1 DEF Utf8
<1>3. Sound(r) /\ r.offs = builder.offs /\ builder.offs + 4 <= r.length
  BY ReserveSound
<1> HIDE DEF r, bytes
<1>4. r.offs + Len(bytes) <= r.length
  BY <1>1, <1>2, <1>3 DEF Sound, Stream
<1>5. Sound(Poked(r, bytes))
  BY <1>2, <1>3, <1>4, PokeSound
<1>6. Sound(MemStreamAlloc(Poked(r, bytes), Width[c]))
  BY <1>1, <1>5, AllocSound
<1> QED BY <1>6 DEF Encoded, r, bytes

(* The decoder stands on the character before the next one.                  *)
Decoder(u) ==
  /\ u = [codepoint |-> u.codepoint, next |-> u.next]
  /\ u.next \in 2 .. Len(psz) + 2
  /\ u.codepoint = IF u.next = Len(psz) + 2 THEN End ELSE psz[u.next - 1]

(* The invariant: what is decoded can be encoded, too.                       *)
IInv ==
  /\ psz \in Seq(Chars)
  /\ Decoder(utf8)
  /\ at # "closed" => Sound(builder)

LEMMA DecoderReads ==
  ASSUME psz \in Seq(Chars), NEW u, Decoder(u)
  PROVE  u.codepoint \in Chars \cup {End}
<1>1. Len(psz) \in Nat
  BY LenProperties
<1>2. CASE u.next = Len(psz) + 2
  BY <1>2 DEF Decoder
<1>3. CASE u.next # Len(psz) + 2
  <2>1. u.next - 1 \in 1 .. Len(psz) /\ u.codepoint = psz[u.next - 1]
    BY <1>1, <1>3 DEF Decoder
  <2> QED BY <2>1, ElementOfSeq
<1> QED BY <1>2, <1>3

LEMMA DecoderAdvances ==
  ASSUME psz \in Seq(Chars), NEW u, Decoder(u)
  PROVE  Decoder(NextChar(u))
<1>1. Len(psz) \in Nat
  BY LenProperties
<1>2. CASE u.codepoint = End
  BY <1>2 DEF NextChar
<1>3. CASE u.codepoint # End
  <2>1. u.next \in 2 .. Len(psz) + 1
    BY <1>1, <1>3 DEF Decoder
  <2>2. NextChar(u) = [codepoint |-> IF u.next <= Len(psz) THEN psz[u.next] ELSE End,
                       next |-> u.next + 1]
    BY <1>3 DEF NextChar
  <2> QED BY <1>1, <2>1, <2>2 DEF Decoder
<1> QED BY <1>2, <1>3

-----------------------------------------------------------------------------
LEMMA InitIInv == Init => IInv
<1> SUFFICES ASSUME Init PROVE IInv
  OBVIOUS
<1>1. psz \in Seq(Chars) /\ Len(psz) \in Nat
  BY LinesAssumption, LenProperties DEF Init
<1>2. utf8 = [codepoint |-> IF 1 <= Len(psz) THEN psz[1] ELSE End, next |-> 2]
  BY <1>1 DEF Init, NextChar, Before, End
<1>3. Decoder(utf8)
  BY <1>1, <1>2 DEF Decoder
<1>4. Sound(builder)
  BY NewSound, SizeAssumption DEF Init
<1> QED BY <1>1, <1>3, <1>4 DEF IInv

(* The steps that build the text of a word.                                  *)
LEMMA ParseArgIInv == ASSUME IInv, ParseArg PROVE IInv'
<1>1. psz' = psz /\ psz \in Seq(Chars)
  BY DEF IInv, ParseArg, StartArg, PlainChar, EscapedChar, OpenQuote, QuotedChar, CloseQuote, EndArg
<1>2. Sound(builder) /\ Decoder(utf8) /\ Decoder(NextChar(utf8)) /\ Decoder(NextChar(NextChar(utf8)))
  BY DecoderAdvances DEF IInv, ParseArg, StartArg, PlainChar, EscapedChar, OpenQuote, QuotedChar,
     CloseQuote, EndArg
<1>3. Codepoint \in Chars \cup {End} /\ NextChar(utf8).codepoint \in Chars \cup {End}
  BY <1>1, <1>2, DecoderReads DEF Codepoint
<1>4. utf8' \in {utf8, NextChar(utf8), NextChar(NextChar(utf8))}
  BY DEF ParseArg, StartArg, PlainChar, EscapedChar, OpenQuote, QuotedChar, CloseQuote, EndArg, Advance
<1>5. Decoder(utf8)'
  BY <1>1, <1>2, <1>4 DEF Decoder
<1>6. Sound(builder')
  <2>1. CASE StartArg
    BY <2>1, <1>2, ResetSound DEF StartArg
  <2>2. CASE PlainChar
    <3>1. Mapped(Codepoint) \in Encodable
      BY <1>3 DEF Mapped, Encodable
    <3> QED BY <2>2, <3>1, <1>2, EncodedSound DEF PlainChar
  <2>3. CASE EscapedChar
    <3>1. NextChar(utf8).codepoint \in Encodable
      BY <1>3 DEF Encodable
    <3> QED BY <2>3, <3>1, <1>2, EncodedSound DEF EscapedChar
  <2>4. CASE QuotedChar
    <3>1. Codepoint \in Encodable
      BY <1>3 DEF Encodable
    <3> QED BY <2>4, <3>1, <1>2, EncodedSound DEF QuotedChar
  <2>5. CASE EndArg
    <3>1. End \in Encodable
      BY DEF Encodable
    <3> QED BY <2>5, <3>1, <1>2, EncodedSound DEF EndArg
  <2>6. CASE OpenQuote \/ CloseQuote
    BY <2>6, <1>2 DEF OpenQuote, CloseQuote
  <2> QED BY <2>1, <2>2, <2>3, <2>4, <2>5, <2>6 DEF ParseArg
<1> QED BY <1>1, <1>5, <1>6 DEF IInv, Sound, Stream, StreamInBounds

(* The steps between words.                                                  *)
LEMMA BetweenIInv == ASSUME IInv, SkipSpace \/ EndOfLine \/ Operator \/ Call PROVE IInv'
<1>1. psz' = psz /\ psz \in Seq(Chars) /\ builder' = builder
  BY DEF IInv, SkipSpace, EndOfLine, Operator, Call, Single, Doubled, Found
<1>2. Sound(builder)
  BY DEF IInv, SkipSpace, EndOfLine, Operator, Call, Single, Doubled
<1>3. Decoder(utf8) /\ Decoder(NextChar(utf8)) /\ Decoder(NextChar(NextChar(utf8)))
  BY DecoderAdvances DEF IInv
<1>4. utf8' \in {utf8, NextChar(utf8), NextChar(NextChar(utf8))}
  BY DEF SkipSpace, EndOfLine, Operator, Call, Single, Doubled, Advance
<1>5. Decoder(utf8)'
  BY <1>1, <1>3, <1>4 DEF Decoder
<1> QED BY <1>1, <1>2, <1>5 DEF IInv, Sound, Stream, StreamInBounds

LEMMA NextIInv == IInv /\ [Next]_vars => IInv'
<1> SUFFICES ASSUME IInv, [Next]_vars PROVE IInv'
  OBVIOUS
<1>1. CASE ParseArg
  BY <1>1, ParseArgIInv
<1>2. CASE SkipSpace \/ EndOfLine \/ Operator \/ Call
  BY <1>2, BetweenIInv
<1>3. CASE Close
  BY <1>3 DEF Close, IInv, Decoder
<1>4. CASE UNCHANGED vars
  BY <1>4 DEF vars, IInv, Decoder, Sound, Stream, StreamInBounds
<1> QED BY <1>1, <1>2, <1>3, <1>4 DEF Next, Step

LEMMA IInvImplies == IInv => InBounds
BY DEF IInv, InBounds, Decoder, Sound

(* tokenizer.c never reads behind the terminator of a line, and encode()     *)
(* never writes behind the builder's block: for all lines of all characters, *)
(* whatever the block's first size and the limit of its doubling are.        *)
THEOREM TokenizerInBounds == Spec => []InBounds
<1>1. Init => IInv
  BY InitIInv
<1>2. IInv /\ [Next]_vars => IInv'
  BY NextIInv
<1>3. IInv => InBounds
  BY IInvImplies
<1> QED BY <1>1, <1>2, <1>3, PTL DEF Spec

-----------------------------------------------------------------------------
(* The shape of the state: every byte of the builder's block is one that was *)
(* encoded or one that nothing was written to.                               *)
Filled(s) == s.owned = TRUE /\ \A i \in DOMAIN s.mem : s.mem[i] \in Byte

LEMMA JunkIsByte == Junk \in Byte
BY DEF Byte

LEMMA NewFilled ==
  ASSUME NEW size \in Nat
  PROVE  Filled(MemStreamNew(size))
BY JunkIsByte DEF MemStreamNew, Filled

LEMMA ResetFilled ==
  ASSUME NEW s, Sound(s), Filled(s)
  PROVE  Filled(MemStreamReset(s))
<1>1. PICK o, cb, offs, length, mem :
        s = [owned |-> o, cb |-> cb, offs |-> offs, length |-> length, mem |-> mem]
  BY DEF Sound, Stream
<1>2. MemStreamReset(s) = [owned |-> o, cb |-> cb, offs |-> 0, length |-> 0, mem |-> mem]
  <2>1. MemStreamReset(s) = [s EXCEPT !.offs = 0, !.length = 0]
    BY DEF MemStreamReset
  <2> QED BY <1>1, <2>1
<1>3. o = s.owned /\ mem = s.mem
  BY <1>1
<1> QED BY <1>2, <1>3 DEF Filled

LEMMA RoomFilled ==
  ASSUME NEW s, Sound(s), Filled(s), NEW n \in Nat
  PROVE  Filled(WithRoom(s, n))
<1>1. CASE s.offs + n > s.cb
  <2> DEFINE size == Grown(s, n)
             mem == [i \in 0 .. size - 1 |-> IF i < s.cb THEN s.mem[i] ELSE Junk]
  <2>1. WithRoom(s, n) = [s EXCEPT !.cb = size, !.mem = mem]
    BY <1>1 DEF WithRoom, Resized
  <2>2. size \in Nat
    BY GrownEnough
  <2>3. \A i \in DOMAIN mem : mem[i] \in Byte
    <3> SUFFICES ASSUME NEW i \in 0 .. size - 1 PROVE mem[i] \in Byte
      OBVIOUS
    <3>1. CASE i < s.cb
      <4>1. i \in DOMAIN s.mem
        BY <2>2, <3>1 DEF Sound, Stream, StreamInBounds
      <4> QED BY <3>1, <4>1 DEF Filled
    <3>2. CASE ~ (i < s.cb)
      BY <3>2, JunkIsByte
    <3> QED BY <3>1, <3>2
  <2> HIDE DEF size, mem
  <2>4. PICK o, cb, offs, length, old :
          s = [owned |-> o, cb |-> cb, offs |-> offs, length |-> length, mem |-> old]
    BY DEF Sound, Stream
  <2>5. WithRoom(s, n) = [owned |-> o, cb |-> size, offs |-> offs, length |-> length, mem |-> mem]
    BY <2>1, <2>4
  <2>6. o = s.owned
    BY <2>4
  <2> QED BY <2>3, <2>5, <2>6 DEF Filled
<1>2. CASE ~ (s.offs + n > s.cb)
  BY <1>2 DEF WithRoom
<1> QED BY <1>1, <1>2

LEMMA ReserveFilled ==
  ASSUME NEW s, Sound(s), Filled(s), NEW n \in Nat
  PROVE  Filled(MemStreamReserve(s, n))
<1> DEFINE r == WithRoom(s, n)
           length == IF s.offs + n > r.length THEN s.offs + n ELSE r.length
<1>1. Sound(r) /\ Filled(r)
  BY RoomMade, RoomFilled
<1>2. MemStreamReserve(s, n) = [r EXCEPT !.length = length]
  BY DEF MemStreamReserve
<1> HIDE DEF r, length
<1>3. MemStreamReserve(s, n) = [owned |-> r.owned, cb |-> r.cb, offs |-> r.offs,
                                length |-> length, mem |-> r.mem]
  BY <1>1, <1>2 DEF Sound, Stream
<1> QED BY <1>1, <1>3 DEF Filled

LEMMA AllocFilled ==
  ASSUME NEW s, Sound(s), Filled(s), NEW n \in Nat
  PROVE  Filled(MemStreamAlloc(s, n))
<1> DEFINE r == MemStreamReserve(s, n)
<1>1. Sound(r) /\ Filled(r)
  BY ReserveSound, ReserveFilled
<1>2. MemStreamAlloc(s, n) = [r EXCEPT !.offs = @ + n]
  BY DEF MemStreamAlloc
<1> HIDE DEF r
<1>3. MemStreamAlloc(s, n) = [owned |-> r.owned, cb |-> r.cb, offs |-> r.offs + n,
                              length |-> r.length, mem |-> r.mem]
  BY <1>1, <1>2 DEF Sound, Stream
<1> QED BY <1>1, <1>3 DEF Filled

LEMMA PokeFilled ==
  ASSUME NEW s, Sound(s), Filled(s), NEW bytes \in Seq(Byte)
  PROVE  Filled(Poked(s, bytes))
<1> DEFINE written == s.offs .. s.offs + Len(bytes) - 1
           mem == [i \in DOMAIN s.mem \cup written |->
                     IF i \in written THEN bytes[i - s.offs + 1] ELSE s.mem[i]]
<1>1. Len(bytes) \in Nat
  BY LenProperties
<1>2. \A i \in DOMAIN mem : mem[i] \in Byte
  <2> SUFFICES ASSUME NEW i \in DOMAIN s.mem \cup written PROVE mem[i] \in Byte
    OBVIOUS
  <2>1. CASE i \in written
    <3>1. i - s.offs + 1 \in 1 .. Len(bytes)
      BY <1>1, <2>1 DEF Sound, Stream
    <3>2. bytes[i - s.offs + 1] \in Byte
      BY <3>1, ElementOfSeq
    <3> QED BY <2>1, <3>2
  <2>2. CASE i \notin written
    BY <2>2 DEF Filled
  <2> QED BY <2>1, <2>2
<1>3. Poked(s, bytes) = [s EXCEPT !.mem = mem]
  BY DEF Poked
<1> HIDE DEF mem
<1>4. Poked(s, bytes) = [owned |-> s.owned, cb |-> s.cb, offs |-> s.offs,
                         length |-> s.length, mem |-> mem]
  BY <1>3 DEF Sound, Stream
<1> QED BY <1>2, <1>4 DEF Filled

LEMMA EncodedFilled ==
  ASSUME Sound(builder), Filled(builder), NEW c \in Encodable
  PROVE  Filled(Encoded(c))
<1> DEFINE r == MemStreamReserve(builder, 4)
           bytes == Utf8(c)
<1>1. Width[c] \in 1 .. 4 /\ c \in DOMAIN Width
  BY WidthAssumption DEF Encodable
<1>2. bytes \in Seq({c} \X (1 .. 4)) /\ Len(bytes) = Width[c] /\ bytes \in Seq(Byte)
  BY <1>1 DEF Utf8, Byte
<1>3. Sound(r) /\ Filled(r) /\ r.offs = builder.offs /\ builder.offs + 4 <= r.length
  BY ReserveSound, ReserveFilled
<1> HIDE DEF r, bytes
<1>4. r.offs + Len(bytes) <= r.length
  BY <1>1, <1>2, <1>3 DEF Sound, Stream
<1>5. Sound(Poked(r, bytes)) /\ Filled(Poked(r, bytes))
  BY <1>2, <1>3, <1>4, PokeSound, PokeFilled
<1>6. Filled(MemStreamAlloc(Poked(r, bytes), Width[c]))
  BY <1>1, <1>5, AllocFilled
<1> QED BY <1>6 DEF Encoded, r, bytes

LEMMA ContentsFilled ==
  ASSUME NEW s, Sound(s), Filled(s)
  PROVE  \A i \in DOMAIN Contents(s) : Contents(s)[i] \in Byte
<1> SUFFICES ASSUME NEW i \in 1 .. s.length PROVE s.mem[i - 1] \in Byte
  BY DEF Contents
<1>1. i - 1 \in DOMAIN s.mem
  BY DEF Sound, Stream, StreamInBounds
<1> QED BY <1>1 DEF Filled

-----------------------------------------------------------------------------
Typed ==
  /\ at \in Places /\ quote \in {Before, "\"", "'"} /\ token \in TokenTypes
  /\ at # "closed" => Filled(builder)
  /\ at = "closed" => builder.owned = FALSE /\ builder.mem = <<>>
  /\ \A i \in DOMAIN arg : arg[i] \in Byte

LEMMA InitTyped == Init => Typed
<1> SUFFICES ASSUME Init PROVE Typed
  OBVIOUS
<1>1. Filled(builder)
  BY NewFilled, SizeAssumption DEF Init
<1>2. at = "next" /\ quote = Before /\ token = "EOF" /\ arg = <<>>
  BY DEF Init
<1> QED BY <1>1, <1>2 DEF Typed, Places, TokenTypes

LEMMA ParseArgTyped == ASSUME IInv, Typed, ParseArg PROVE Typed'
<1>1. Sound(builder) /\ Filled(builder) /\ Decoder(utf8) /\ Decoder(NextChar(utf8)) /\ psz \in Seq(Chars)
  BY DecoderAdvances DEF IInv, Typed, ParseArg, StartArg, PlainChar, EscapedChar, OpenQuote,
     QuotedChar, CloseQuote, EndArg
<1>2. Codepoint \in Chars \cup {End} /\ NextChar(utf8).codepoint \in Chars \cup {End}
  BY <1>1, DecoderReads DEF Codepoint
<1>3. /\ Mapped(Codepoint) \in Encodable /\ Codepoint \in Encodable /\ End \in Encodable
      /\ NextChar(utf8).codepoint \in Encodable
  BY <1>2 DEF Mapped, Encodable
<1>4. Filled(builder')
  <2>1. CASE StartArg
    BY <2>1, <1>1, ResetFilled DEF StartArg
  <2>2. CASE PlainChar
    BY <2>2, <1>1, <1>3, EncodedFilled DEF PlainChar
  <2>3. CASE EscapedChar
    BY <2>3, <1>1, <1>3, EncodedFilled DEF EscapedChar
  <2>4. CASE QuotedChar
    BY <2>4, <1>1, <1>3, EncodedFilled DEF QuotedChar
  <2>5. CASE EndArg
    BY <2>5, <1>1, <1>3, EncodedFilled DEF EndArg
  <2>6. CASE OpenQuote \/ CloseQuote
    BY <2>6, <1>1 DEF OpenQuote, CloseQuote
  <2> QED BY <2>1, <2>2, <2>3, <2>4, <2>5, <2>6 DEF ParseArg
<1>5. at' \in {"arg", "quoted", "token"}
  BY DEF ParseArg, StartArg, PlainChar, EscapedChar, OpenQuote, QuotedChar, CloseQuote, EndArg
<1>6. quote' \in {Before, "\"", "'"} /\ token' \in TokenTypes
  BY DEF Typed, TokenTypes, ParseArg, StartArg, PlainChar, EscapedChar, OpenQuote, QuotedChar,
     CloseQuote, EndArg
<1>7. \A i \in DOMAIN arg' : arg'[i] \in Byte
  <2>1. CASE EndArg
    <3>1. Sound(Encoded(End)) /\ Filled(Encoded(End))
      BY <1>1, <1>3, EncodedSound, EncodedFilled
    <3>2. arg' = Contents(Encoded(End))
      BY <2>1 DEF EndArg
    <3> QED BY <3>1, <3>2, ContentsFilled
  <2>2. CASE ~ EndArg
    <3>1. arg' = arg
      BY <2>2 DEF ParseArg, StartArg, PlainChar, EscapedChar, OpenQuote, QuotedChar, CloseQuote
    <3> QED BY <3>1 DEF Typed
  <2> QED BY <2>1, <2>2
<1> QED BY <1>4, <1>5, <1>6, <1>7 DEF Typed, Filled, Places

LEMMA NextTyped == IInv /\ Typed /\ [Next]_vars => Typed'
<1> SUFFICES ASSUME IInv, Typed, [Next]_vars PROVE Typed'
  OBVIOUS
<1>1. CASE ParseArg
  BY <1>1, ParseArgTyped
<1>2. CASE SkipSpace \/ EndOfLine \/ Operator \/ Call
  <2>1. UNCHANGED <<builder, arg, quote>> /\ at # "closed" /\ at' \in {"next", "token"}
    BY <1>2 DEF SkipSpace, EndOfLine, Operator, Call, Single, Doubled, Found
  <2>2. token' \in TokenTypes
    BY <1>2 DEF Typed, TokenTypes, SkipSpace, EndOfLine, Operator, Call, Single, Doubled, Found
  <2> QED BY <2>1, <2>2 DEF Typed, Filled, Places
<1>3. CASE Close
  <2>1. /\ at' = "closed" /\ UNCHANGED <<quote, token, arg>> /\ Sound(builder)
        /\ builder' = [builder EXCEPT !.owned = FALSE, !.cb = 0, !.mem = <<>>]
    BY <1>3 DEF Close, MemStreamClose, IInv
  <2>2. builder' = [owned |-> FALSE, cb |-> 0, offs |-> builder.offs, length |-> builder.length,
                    mem |-> <<>>]
    BY <2>1 DEF Sound, Stream
  <2> QED BY <2>1, <2>2 DEF Typed, Places
<1>4. CASE UNCHANGED vars
  BY <1>4 DEF vars, Typed, Filled
<1> QED BY <1>1, <1>2, <1>3, <1>4 DEF Next, Step

(* The types of the tokenizer's state: every byte of the builder and of a    *)
(* word is one that encode() wrote or one that nothing was written to, and   *)
(* the builder owns its block until it is closed, and not after.             *)
THEOREM TokenizerTypes == Spec => []TypeOK
<1>1. IInv /\ Typed => TypeOK
  <2> SUFFICES ASSUME IInv, Typed PROVE TypeOK
    OBVIOUS
  <2>1. utf8 \in [codepoint : Chars \cup {End}, next : Nat]
    <3>1. utf8.codepoint \in Chars \cup {End} /\ utf8.next \in Nat
      BY DecoderReads, LenProperties DEF IInv, Decoder
    <3>2. utf8 = [codepoint |-> utf8.codepoint, next |-> utf8.next]
      BY DEF IInv, Decoder
    <3> QED BY <3>1, <3>2
  <2>2. CASE at # "closed"
    <3>1. builder.owned = TRUE /\ \A i \in DOMAIN builder.mem : builder.mem[i] \in Byte
      BY <2>2 DEF Typed, Filled
    <3>2. (at # "closed") = TRUE
      BY <2>2
    <3>3. builder.owned = (at # "closed")
      BY <3>1, <3>2
    <3> QED BY <2>1, <3>1, <3>3 DEF TypeOK, IInv, Typed
  <2>3. CASE at = "closed"
    <3>1. builder.owned = FALSE /\ builder.mem = <<>>
      BY <2>3 DEF Typed
    <3>2. (at # "closed") = FALSE
      BY <2>3
    <3>3. builder.owned = (at # "closed")
      BY <3>1, <3>2
    <3>4. DOMAIN builder.mem = {}
      BY <3>1, EmptySeq
    <3> QED BY <2>1, <3>3, <3>4 DEF TypeOK, IInv, Typed
  <2> QED BY <2>2, <2>3
<1> QED BY <1>1, InitIInv, NextIInv, InitTyped, NextTyped, PTL DEF Spec

-----------------------------------------------------------------------------
(* Every set of natural numbers has a least one: the induction of the proofs *)
(* about what reading a line from the left and joining texts give.           *)
LEMMA LeastNat ==
  ASSUME NEW T, T \subseteq Nat, T # {}
  PROVE  \E n \in T : \A m \in T : n <= m
<1>1. IsWellFoundedOn(OpToRel(<, Nat), Nat)
  BY NatLessThanWellFounded
<1>2. PICK n \in T : \A m \in T : ~ (<<m, n>> \in OpToRel(<, Nat))
  BY <1>1, WFMin
<1>3. \A m \in T : ~ (m < n)
  BY <1>2 DEF OpToRel
<1> QED BY <1>3

LEMMA MaxOfAll ==
  ASSUME NEW n \in Nat, NEW t, t \subseteq 1 .. n + 1, n + 1 \in t
  PROVE  Max(t) = n + 1
<1>1. \A y \in t : n + 1 >= y
  OBVIOUS
<1>2. \A x \in t : (\A y \in t : x >= y) => x = n + 1
  OBVIOUS
<1> QED BY <1>1, <1>2 DEF Max

-----------------------------------------------------------------------------
(* Reading a line: the function that the fold over it is.                    *)
Extended(r, c) == Append(r, ReadAfter(Last(r), c))

ReadingIter(f, l, n) ==
  f = [t \in SUBSET (1 .. n) |->
         IF t = {} THEN <<"plain">> ELSE Extended(f[t \ {Max(t)}], l[Max(t)])]

LEMMA ReadingGrows ==
  ASSUME NEW l, NEW n \in Nat, NEW f, ReadingIter(f, l, n)
  PROVE  \E g : ReadingIter(g, l, n + 1)
<1> DEFINE g == [t \in SUBSET (1 .. n + 1) |->
                   IF n + 1 \in t THEN Extended(f[t \ {n + 1}], l[n + 1]) ELSE f[t]]
<1>0. 1 .. n + 1 = (1 .. n) \cup {n + 1} /\ n + 1 \notin 1 .. n
  OBVIOUS
<1>1. \A t \in SUBSET (1 .. n) : n + 1 \notin t /\ t \in SUBSET (1 .. n + 1) /\ g[t] = f[t]
  OBVIOUS
<1>2. ASSUME NEW t \in SUBSET (1 .. n + 1)
      PROVE  g[t] = IF t = {} THEN <<"plain">> ELSE Extended(g[t \ {Max(t)}], l[Max(t)])
  <2>1. CASE n + 1 \in t
    <3>1. Max(t) = n + 1 /\ t \ {n + 1} \in SUBSET (1 .. n) /\ t # {}
      <4>1. Max(t) = n + 1
        BY <2>1, MaxOfAll
      <4> QED BY <1>0, <2>1, <4>1
    <3>2. g[t] = Extended(f[t \ {n + 1}], l[n + 1])
      BY <2>1
    <3> QED BY <1>1, <3>1, <3>2
  <2>2. CASE n + 1 \notin t
    <3>1. t \in SUBSET (1 .. n) /\ t \ {Max(t)} \in SUBSET (1 .. n)
      BY <1>0, <2>2
    <3>2. f[t] = IF t = {} THEN <<"plain">> ELSE Extended(f[t \ {Max(t)}], l[Max(t)])
      BY <3>1 DEF ReadingIter
    <3>3. g[t] = f[t] /\ g[t \ {Max(t)}] = f[t \ {Max(t)}]
      BY <1>1, <3>1
    <3> QED BY <3>2, <3>3
  <2> QED BY <2>1, <2>2
<1>3. g = [t \in SUBSET (1 .. n + 1) |-> g[t]]
  OBVIOUS
<1> HIDE DEF g
<1>4. ReadingIter(g, l, n + 1)
  BY <1>2, <1>3 DEF ReadingIter
<1> QED BY <1>4

LEMMA ReadingExists ==
  ASSUME NEW l, NEW n \in Nat
  PROVE  \E f : ReadingIter(f, l, n)
<1> DEFINE T == {m \in Nat : ~ \E f : ReadingIter(f, l, m)}
<1> SUFFICES ASSUME T # {} PROVE FALSE
  OBVIOUS
<1>1. PICK m \in T : \A k \in T : m <= k
  BY LeastNat
<1>2. CASE m = 0
  <2> DEFINE f == [t \in SUBSET (1 .. 0) |-> <<"plain">>]
  <2>1. 1 .. 0 = {}
    OBVIOUS
  <2>2. f = [t \in SUBSET (1 .. 0) |->
               IF t = {} THEN <<"plain">> ELSE Extended(f[t \ {Max(t)}], l[Max(t)])]
    BY <2>1
  <2> HIDE DEF f
  <2>3. ReadingIter(f, l, 0)
    BY <2>2 DEF ReadingIter
  <2> QED BY <1>2, <2>3
<1>3. CASE m # 0
  <2>1. m - 1 \in Nat /\ ~ (m <= m - 1) /\ m - 1 + 1 = m
    BY <1>3
  <2>2. \E f : ReadingIter(f, l, m - 1)
    BY <1>1, <2>1
  <2>3. \E f : ReadingIter(f, l, m)
    BY <2>1, <2>2, ReadingGrows
  <2> QED BY <2>3
<1> QED BY <1>2, <1>3

(* How characters are read.                                                  *)
Modes == {"plain", "escaped", "\"", "'"}

LEMMA ModeAfter == \A m \in Modes : \A c : ReadAfter(m, c) \in Modes
BY DEF ReadAfter, Modes

(* The first n characters of a line read one after the other.                *)
ReadTo(r, l, n) ==
  /\ r \in Seq(Modes) /\ Len(r) = n + 1 /\ r[1] = "plain"
  /\ \A k \in 1 .. n : r[k + 1] = ReadAfter(r[k], l[k])

LEMMA ReadOneMore ==
  ASSUME NEW l, NEW n \in Nat, NEW r, ReadTo(r, l, n)
  PROVE  ReadTo(Extended(r, l[n + 1]), l, n + 1)
<1> DEFINE m == ReadAfter(Last(r), l[n + 1])
           u == Append(r, m)
<1>1. r \in Seq(Modes) /\ Len(r) = n + 1 /\ n + 1 \in 1 .. Len(r)
  BY DEF ReadTo
<1>2. Last(r) = r[n + 1] /\ r[n + 1] \in Modes
  BY <1>1, ElementOfSeq DEF Last
<1>3. m \in Modes /\ m = ReadAfter(r[n + 1], l[n + 1])
  BY <1>2, ModeAfter
<1> HIDE DEF m
<1>4. /\ u \in Seq(Modes) /\ Len(u) = n + 1 + 1 /\ u[n + 1 + 1] = m
      /\ \A k \in 1 .. n + 1 : u[k] = r[k]
  BY <1>1, <1>3, AppendProperties
<1> HIDE DEF u
<1>5. \A k \in 1 .. n + 1 : u[k + 1] = ReadAfter(u[k], l[k])
  <2> SUFFICES ASSUME NEW k \in 1 .. n + 1 PROVE u[k + 1] = ReadAfter(u[k], l[k])
    OBVIOUS
  <2>1. CASE k = n + 1
    BY <1>3, <1>4, <2>1
  <2>2. CASE k # n + 1
    <3>1. k \in 1 .. n /\ k + 1 \in 1 .. n + 1
      BY <2>2
    <3>2. r[k + 1] = ReadAfter(r[k], l[k])
      BY <3>1 DEF ReadTo
    <3> QED BY <1>4, <3>1, <3>2
  <2> QED BY <2>1, <2>2
<1>6. u[1] = "plain"
  BY <1>4 DEF ReadTo
<1>7. ReadTo(u, l, n + 1)
  BY <1>4, <1>5, <1>6 DEF ReadTo
<1> QED BY <1>7 DEF u, m, Extended

LEMMA IterReads ==
  ASSUME NEW l, Len(l) \in Nat, NEW f, ReadingIter(f, l, Len(l)), NEW n \in 0 .. Len(l)
  PROVE  ReadTo(f[1 .. n], l, n)
<1> DEFINE T == {m \in Nat : m <= Len(l) /\ ~ ReadTo(f[1 .. m], l, m)}
<1> SUFFICES ASSUME T # {} PROVE FALSE
  OBVIOUS
<1>1. PICK m \in T : \A k \in T : m <= k
  BY LeastNat
<1>2. CASE m = 0
  <2>1. 1 .. 0 = {} /\ 1 .. 0 \in SUBSET (1 .. Len(l))
    OBVIOUS
  <2>2. f[1 .. 0] = <<"plain">>
    BY <2>1 DEF ReadingIter
  <2>3. ReadTo(<<"plain">>, l, 0)
    <3> DEFINE r == <<"plain">>
    <3>1. "plain" \in Modes
      BY DEF Modes
    <3>2. r \in Seq(Modes) /\ Len(r) = 0 + 1 /\ r[1] = "plain"
      BY <3>1
    <3> HIDE DEF r
    <3>3. \A k \in 1 .. 0 : r[k + 1] = ReadAfter(r[k], l[k])
      OBVIOUS
    <3>4. ReadTo(r, l, 0)
      BY <3>2, <3>3 DEF ReadTo
    <3> QED BY <3>4 DEF r
  <2> QED BY <1>1, <1>2, <2>2, <2>3
<1>3. CASE m # 0
  <2>1. m - 1 \in Nat /\ ~ (m <= m - 1) /\ m - 1 + 1 = m /\ m - 1 <= Len(l) /\ m <= Len(l)
    BY <1>3
  <2>2. ReadTo(f[1 .. m - 1], l, m - 1)
    BY <1>1, <2>1
  <2>3. 1 .. m # {} /\ 1 .. m \in SUBSET (1 .. Len(l)) /\ m \in 1 .. m
    <3>1. m \in 1 .. m
      BY <2>1
    <3>2. \A k \in 1 .. m : k \in 1 .. Len(l)
      BY <2>1
    <3> QED BY <3>1, <3>2
  <2>4. Max(1 .. m) = m
    BY <2>1, <2>3, MaxOfAll
  <2>5. (1 .. m) \ {m} = 1 .. m - 1
    BY <2>1
  <2>6. f[1 .. m] = Extended(f[(1 .. m) \ {Max(1 .. m)}], l[Max(1 .. m)])
    BY <2>3 DEF ReadingIter
  <2>7. f[1 .. m] = Extended(f[1 .. m - 1], l[m])
    BY <2>4, <2>5, <2>6
  <2>8. ReadTo(Extended(f[1 .. m - 1], l[m - 1 + 1]), l, m - 1 + 1)
    BY <2>1, <2>2, ReadOneMore
  <2> QED BY <1>1, <2>1, <2>7, <2>8
<1> QED BY <1>2, <1>3

LEMMA ReadingIs ==
  ASSUME NEW l, Len(l) \in Nat, DOMAIN l = 1 .. Len(l)
  PROVE  ReadTo(Reading(l), l, Len(l))
<1> DEFINE RIter(f) == f = [t \in SUBSET (1 .. Len(l)) |->
                              IF t = {} THEN <<"plain">>
                              ELSE Append(f[t \ {Max(t)}], ReadAfter(Last(f[t \ {Max(t)}]), l[Max(t)]))]
<1>1. Reading(l) = (CHOOSE f : RIter(f))[1 .. Len(l)]
  BY Zenon DEF Reading, FoldLeft, MapThenFoldSet
<1>2. \A f : ReadingIter(f, l, Len(l)) <=> RIter(f)
  BY DEF ReadingIter, Extended
<1> HIDE DEF RIter
<1>3. PICK f : f = (CHOOSE g : RIter(g)) /\ ReadingIter(f, l, Len(l))
  BY <1>2, ReadingExists
<1>4. Len(l) \in 0 .. Len(l)
  OBVIOUS
<1>5. ReadTo(f[1 .. Len(l)], l, Len(l))
  BY <1>3, <1>4, IterReads
<1> QED BY <1>1, <1>3, <1>5

-----------------------------------------------------------------------------
(* Texts joined.                                                             *)
Flat(f, s, n) == f = [i \in 1 .. n |-> IF i = 1 THEN s[i] ELSE f[i - 1] \o s[i]]

LEMMA FlatGrows ==
  ASSUME NEW s, NEW n \in Nat, NEW f, Flat(f, s, n)
  PROVE  \E g : Flat(g, s, n + 1)
<1> DEFINE g == [i \in 1 .. n + 1 |->
                   IF i \in 1 .. n THEN f[i] ELSE IF i = 1 THEN s[i] ELSE f[i - 1] \o s[i]]
<1>1. \A i \in 1 .. n : i \in 1 .. n + 1 /\ g[i] = f[i]
  OBVIOUS
<1>2. ASSUME NEW i \in 1 .. n + 1
      PROVE  g[i] = IF i = 1 THEN s[i] ELSE g[i - 1] \o s[i]
  <2>1. i # 1 => i - 1 \in 1 .. n
    OBVIOUS
  <2>2. CASE i \in 1 .. n
    <3>1. f[i] = IF i = 1 THEN s[i] ELSE f[i - 1] \o s[i]
      BY <2>2 DEF Flat
    <3> QED BY <1>1, <2>1, <2>2, <3>1
  <2>3. CASE i \notin 1 .. n
    <3>1. g[i] = IF i = 1 THEN s[i] ELSE f[i - 1] \o s[i]
      BY <2>3
    <3> QED BY <1>1, <2>1, <3>1
  <2> QED BY <2>2, <2>3
<1>3. g = [i \in 1 .. n + 1 |-> g[i]]
  OBVIOUS
<1> HIDE DEF g
<1>4. Flat(g, s, n + 1)
  BY <1>2, <1>3 DEF Flat
<1> QED BY <1>4

LEMMA FlatExists ==
  ASSUME NEW s, NEW n \in Nat
  PROVE  \E f : Flat(f, s, n)
<1> DEFINE T == {m \in Nat : ~ \E f : Flat(f, s, m)}
<1> SUFFICES ASSUME T # {} PROVE FALSE
  OBVIOUS
<1>1. PICK m \in T : \A k \in T : m <= k
  BY LeastNat
<1>2. CASE m = 0
  <2> DEFINE f == [i \in 1 .. 0 |-> s[i]]
  <2>1. f = [i \in 1 .. 0 |-> IF i = 1 THEN s[i] ELSE f[i - 1] \o s[i]]
    OBVIOUS
  <2> HIDE DEF f
  <2>2. Flat(f, s, 0)
    BY <2>1 DEF Flat
  <2> QED BY <1>2, <2>2
<1>3. CASE m # 0
  <2>1. m - 1 \in Nat /\ ~ (m <= m - 1) /\ m - 1 + 1 = m
    BY <1>3
  <2>2. \E f : Flat(f, s, m - 1)
    BY <1>1, <2>1
  <2>3. \E f : Flat(f, s, m)
    BY <2>1, <2>2, FlatGrows
  <2> QED BY <2>3
<1> QED BY <1>2, <1>3

(* The texts up to one are joined alike wherever the list ends.              *)
LEMMA FlatAgree ==
  ASSUME NEW s, NEW t, NEW n \in Nat, NEW m \in Nat, n <= m, \A i \in 1 .. n : s[i] = t[i],
         NEW f, NEW g, Flat(f, s, n), Flat(g, t, m), NEW i \in 1 .. n
  PROVE  f[i] = g[i]
<1> DEFINE T == {k \in Nat : k \in 1 .. n /\ f[k] # g[k]}
<1> SUFFICES ASSUME T # {} PROVE FALSE
  OBVIOUS
<1>1. PICK k \in T : \A j \in T : k <= j
  BY LeastNat
<1>2. k \in Nat /\ k \in 1 .. n /\ k \in 1 .. m /\ s[k] = t[k] /\ f[k] # g[k]
  OBVIOUS
<1>3. f[k] = IF k = 1 THEN s[k] ELSE f[k - 1] \o s[k]
  BY <1>2 DEF Flat
<1>4. g[k] = IF k = 1 THEN t[k] ELSE g[k - 1] \o t[k]
  BY <1>2 DEF Flat
<1>5. CASE k = 1
  BY <1>2, <1>3, <1>4, <1>5
<1>6. CASE k # 1
  <2>1. k - 1 \in Nat /\ k - 1 \in 1 .. n /\ ~ (k <= k - 1)
    BY <1>2, <1>6
  <2>2. f[k - 1] = g[k - 1]
    BY <1>1, <2>1
  <2> QED BY <1>2, <1>3, <1>4, <1>6, <2>2
<1> QED BY <1>5, <1>6

AlikeTo(s, t, n) == \A i \in 1 .. n : s[i] = t[i]

LEMMA FlatAgreeLast ==
  ASSUME NEW s, NEW t, NEW n \in Nat, n # 0, NEW m \in Nat, n <= m, AlikeTo(s, t, n),
         NEW f, NEW g, Flat(f, s, n), Flat(g, t, m)
  PROVE  f[n] = g[n]
<1>1. n \in 1 .. n /\ \A i \in 1 .. n : s[i] = t[i]
  BY DEF AlikeTo
<1> QED BY <1>1, FlatAgree

LEMMA FlatTyped ==
  ASSUME NEW S, NEW s \in Seq(Seq(S)), NEW f, Flat(f, s, Len(s)), NEW i \in 1 .. Len(s)
  PROVE  f[i] \in Seq(S)
<1> DEFINE T == {k \in Nat : k \in 1 .. Len(s) /\ f[k] \notin Seq(S)}
<1> SUFFICES ASSUME T # {} PROVE FALSE
  OBVIOUS
<1>1. PICK k \in T : \A j \in T : k <= j
  BY LeastNat
<1>2. k \in Nat /\ k \in 1 .. Len(s) /\ f[k] \notin Seq(S)
  OBVIOUS
<1>3. s[k] \in Seq(S)
  BY <1>2, ElementOfSeq
<1>4. f[k] = IF k = 1 THEN s[k] ELSE f[k - 1] \o s[k]
  BY <1>2 DEF Flat
<1>5. CASE k = 1
  BY <1>2, <1>3, <1>4, <1>5
<1>6. CASE k # 1
  <2>1. k - 1 \in Nat /\ k - 1 \in 1 .. Len(s) /\ ~ (k <= k - 1)
    BY <1>2, <1>6
  <2>2. f[k - 1] \in Seq(S)
    BY <1>1, <2>1
  <2> QED BY <1>2, <1>3, <1>4, <1>6, <2>2, ConcatProperties
<1> QED BY <1>5, <1>6

LEMMA FlattenIs ==
  ASSUME NEW s, Len(s) \in Nat, Len(s) # 0, NEW f, Flat(f, s, Len(s))
  PROVE  FlattenSeq(s) = f[Len(s)]
<1> DEFINE Joins(h) == h = [i \in 1 .. Len(s) |-> IF i = 1 THEN s[i] ELSE h[i - 1] \o s[i]]
<1>1. FlattenSeq(s) = (CHOOSE h : Joins(h))[Len(s)]
  BY Zenon DEF FlattenSeq
<1>2. \A h : Flat(h, s, Len(s)) <=> Joins(h)
  BY DEF Flat
<1> HIDE DEF Joins
<1>3. PICK h : h = (CHOOSE g : Joins(g)) /\ Flat(h, s, Len(s))
  BY <1>2
<1>4. Len(s) \in 1 .. Len(s) /\ Len(s) <= Len(s)
  OBVIOUS
<1>5. h[Len(s)] = f[Len(s)]
  <2>1. \A i \in 1 .. Len(s) : s[i] = s[i]
    OBVIOUS
  <2> DEFINE n == Len(s)
  <2>2. n \in Nat /\ n <= n /\ n \in 1 .. n /\ Flat(f, s, n) /\ Flat(h, s, n) /\ \A i \in 1 .. n : s[i] = s[i]
    BY <1>3, <1>4, <2>1
  <2> HIDE DEF n
  <2>3. h[n] = f[n]
    BY <2>2, FlatAgree
  <2> QED BY <2>3 DEF n
<1> QED BY <1>1, <1>3, <1>5

LEMMA FlattenEmpty == FlattenSeq(<<>>) = <<>>
BY DEF FlattenSeq

LEMMA FlattenTyped ==
  ASSUME NEW S, NEW s \in Seq(Seq(S))
  PROVE  FlattenSeq(s) \in Seq(S)
<1>0. Len(s) \in Nat
  BY LenProperties
<1>1. CASE Len(s) = 0
  <2>1. s = <<>>
    BY <1>1, EmptySeq
  <2>2. FlattenSeq(s) = <<>>
    BY <2>1, FlattenEmpty
  <2> QED BY <2>2
<1>2. CASE Len(s) # 0
  <2>1. PICK f : Flat(f, s, Len(s))
    BY <1>0, FlatExists
  <2>2. Len(s) \in 1 .. Len(s)
    BY <1>0, <1>2
  <2>3. f[Len(s)] \in Seq(S)
    BY <2>1, <2>2, FlatTyped
  <2> QED BY <1>0, <1>2, <2>1, <2>3, FlattenIs
<1> QED BY <1>1, <1>2

LEMMA FlattenMore ==
  ASSUME NEW s, NEW u, NEW n \in Nat, n # 0, Len(s) = n, Len(u) = n + 1,
         \A i \in 1 .. n : s[i] = u[i]
  PROVE  FlattenSeq(u) = FlattenSeq(s) \o u[n + 1]
<1> DEFINE m == n + 1
<1>1. m \in Nat /\ m = n + 1 /\ m # 0 /\ m # 1 /\ m \in 1 .. m /\ n <= m /\ m - 1 = n
  OBVIOUS
<1> HIDE DEF m
<1>2. PICK g : Flat(g, u, m)
  BY <1>1, FlatExists
<1>3. PICK f : Flat(f, s, n)
  BY FlatExists
<1>4. FlattenSeq(u) = g[m]
  <2>1. Len(u) = m
    BY <1>1
  <2>2. Len(u) \in Nat /\ Len(u) # 0 /\ Flat(g, u, Len(u))
    BY <1>1, <1>2, <2>1
  <2>3. FlattenSeq(u) = g[Len(u)]
    BY <2>2, FlattenIs
  <2> QED BY <2>1, <2>3
<1>5. FlattenSeq(s) = f[n]
  BY <1>3, FlattenIs
<1>6. g[m] = g[m - 1] \o u[m]
  <2>1. g = [i \in 1 .. m |-> IF i = 1 THEN u[i] ELSE g[i - 1] \o u[i]]
    BY <1>2 DEF Flat
  <2> QED BY <1>1, <2>1
<1>7. f[n] = g[n]
  <2>1. AlikeTo(s, u, n)
    BY DEF AlikeTo
  <2> QED BY <1>1, <1>2, <1>3, <2>1, FlatAgreeLast
<1> QED BY <1>1, <1>4, <1>5, <1>6, <1>7

(* One text more.                                                            *)
LEMMA FlattenAppend ==
  ASSUME NEW S, NEW s \in Seq(Seq(S)), NEW x \in Seq(S)
  PROVE  FlattenSeq(Append(s, x)) = FlattenSeq(s) \o x
<1> DEFINE u == Append(s, x)
           n == Len(s)
<1>1. n \in Nat
  BY LenProperties
<1>2. u \in Seq(Seq(S)) /\ Len(u) = n + 1 /\ u[n + 1] = x /\ \A i \in 1 .. n : s[i] = u[i]
  BY AppendProperties
<1>3. CASE n = 0
  <2>1. s = <<>>
    BY <1>3, EmptySeq
  <2>2. u = <<x>>
    BY <2>1
  <2>3. FlattenSeq(<<x>>) = x
    <3> DEFINE w == <<x>>
    <3>1. Len(w) = 1 /\ w[1] = x
      OBVIOUS
    <3> HIDE DEF w
    <3>2. PICK f : Flat(f, w, 1)
      BY FlatExists
    <3>3. f[1] = w[1]
      <4>1. 1 \in Nat /\ 1 \in 1 .. 1
        OBVIOUS
      <4>2. f = [i \in 1 .. 1 |-> IF i = 1 THEN w[i] ELSE f[i - 1] \o w[i]]
        BY <3>2 DEF Flat
      <4> QED BY <4>1, <4>2
    <3>4. FlattenSeq(w) = f[1]
      <4>1. Len(w) \in Nat /\ Len(w) # 0 /\ Flat(f, w, Len(w))
        BY <3>1, <3>2
      <4>2. FlattenSeq(w) = f[Len(w)]
        BY <4>1, FlattenIs
      <4> QED BY <3>1, <4>2
    <3> QED BY <3>1, <3>3, <3>4 DEF w
  <2>4. <<>> \o x = x
    BY ConcatEmptySeq
  <2> QED BY <2>1, <2>2, <2>3, <2>4, FlattenEmpty
<1>4. CASE n # 0
  <2> HIDE DEF u, n
  <2>1. Len(s) = n
    BY DEF n
  <2>2. FlattenSeq(u) = FlattenSeq(s) \o u[n + 1]
    BY <1>1, <1>2, <1>4, <2>1, FlattenMore
  <2> QED BY <1>2, <2>2 DEF u
<1> QED BY <1>3, <1>4

-----------------------------------------------------------------------------
(* What the builder holds.                                                   *)
Holds(s, text) == s.offs = Len(text) /\ \A i \in 1 .. Len(text) : s.mem[i - 1] = text[i]

LEMMA RoomKeeps ==
  ASSUME NEW s, Sound(s), NEW n \in Nat, NEW i \in DOMAIN s.mem
  PROVE  WithRoom(s, n).mem[i] = s.mem[i]
<1>1. CASE s.offs + n > s.cb
  <2> DEFINE size == Grown(s, n)
             mem == [j \in 0 .. size - 1 |-> IF j < s.cb THEN s.mem[j] ELSE Junk]
  <2>1. WithRoom(s, n) = [s EXCEPT !.cb = size, !.mem = mem]
    BY <1>1 DEF WithRoom, Resized
  <2>2. size \in Nat /\ s.cb <= size
    BY GrownEnough
  <2>3. i < s.cb /\ i \in 0 .. size - 1
    BY <2>2 DEF Sound, Stream, StreamInBounds
  <2>4. mem[i] = s.mem[i]
    BY <2>3
  <2> HIDE DEF size, mem
  <2>5. WithRoom(s, n).mem = mem
    BY <2>1 DEF Sound, Stream
  <2> QED BY <2>4, <2>5
<1>2. CASE ~ (s.offs + n > s.cb)
  BY <1>2 DEF WithRoom
<1> QED BY <1>1, <1>2

LEMMA ReserveKeeps ==
  ASSUME NEW s, Sound(s), NEW n \in Nat, NEW i \in DOMAIN s.mem
  PROVE  MemStreamReserve(s, n).mem[i] = s.mem[i]
<1> DEFINE r == WithRoom(s, n)
           length == IF s.offs + n > r.length THEN s.offs + n ELSE r.length
<1>1. Sound(r) /\ r.mem[i] = s.mem[i]
  BY RoomMade, RoomKeeps
<1>2. MemStreamReserve(s, n) = [r EXCEPT !.length = length]
  BY DEF MemStreamReserve
<1> HIDE DEF r, length
<1>3. MemStreamReserve(s, n).mem = r.mem
  BY <1>1, <1>2 DEF Sound, Stream
<1> QED BY <1>1, <1>3

LEMMA AllocKeeps ==
  ASSUME NEW s, Sound(s), NEW n \in Nat
  PROVE  /\ MemStreamAlloc(s, n).offs = s.offs + n
         /\ \A i \in DOMAIN s.mem : MemStreamAlloc(s, n).mem[i] = s.mem[i]
<1> DEFINE r == MemStreamReserve(s, n)
<1>1. Sound(r) /\ r.offs = s.offs /\ \A i \in DOMAIN s.mem : r.mem[i] = s.mem[i]
  BY ReserveSound, ReserveKeeps
<1>2. MemStreamAlloc(s, n) = [r EXCEPT !.offs = @ + n]
  BY DEF MemStreamAlloc
<1> HIDE DEF r
<1>3. MemStreamAlloc(s, n).offs = r.offs + n /\ MemStreamAlloc(s, n).mem = r.mem
  BY <1>1, <1>2 DEF Sound, Stream
<1> QED BY <1>1, <1>3

LEMMA PokeHolds ==
  ASSUME NEW s, Sound(s), NEW bytes \in Seq(Byte), s.offs + Len(bytes) <= s.length
  PROVE  /\ Poked(s, bytes).offs = s.offs
         /\ \A i \in 0 .. s.offs - 1 : Poked(s, bytes).mem[i] = s.mem[i]
         /\ \A i \in 1 .. Len(bytes) : Poked(s, bytes).mem[s.offs + i - 1] = bytes[i]
<1> DEFINE written == s.offs .. s.offs + Len(bytes) - 1
           mem == [i \in DOMAIN s.mem \cup written |->
                     IF i \in written THEN bytes[i - s.offs + 1] ELSE s.mem[i]]
<1>1. Len(bytes) \in Nat /\ s.offs \in Nat /\ s.length \in Nat /\ s.cb \in Nat /\ s.length <= s.cb
  BY LenProperties DEF Sound, Stream, StreamInBounds
<1>2. DOMAIN s.mem = 0 .. s.cb - 1
  BY DEF Sound, StreamInBounds
<1>3. Poked(s, bytes) = [s EXCEPT !.mem = mem]
  BY DEF Poked
<1>4. \A i \in 0 .. s.offs - 1 : mem[i] = s.mem[i]
  <2> SUFFICES ASSUME NEW i \in 0 .. s.offs - 1 PROVE mem[i] = s.mem[i]
    OBVIOUS
  <2>1. i \notin written /\ i \in 0 .. s.cb - 1
    BY <1>1
  <2> QED BY <1>2, <2>1
<1>5. \A i \in 1 .. Len(bytes) : mem[s.offs + i - 1] = bytes[i]
  <2> SUFFICES ASSUME NEW i \in 1 .. Len(bytes) PROVE mem[s.offs + i - 1] = bytes[i]
    OBVIOUS
  <2> DEFINE j == s.offs + i - 1
  <2>1. j \in written /\ j - s.offs + 1 = i
    BY <1>1
  <2> HIDE DEF j
  <2>2. mem[j] = bytes[j - s.offs + 1]
    BY <2>1
  <2> QED BY <2>1, <2>2 DEF j
<1> HIDE DEF mem
<1>6. Poked(s, bytes).mem = mem /\ Poked(s, bytes).offs = s.offs
  BY <1>3 DEF Sound, Stream
<1> QED BY <1>4, <1>5, <1>6

(* What encode() writes stands behind what was written before.               *)
LEMMA EncodedHolds ==
  ASSUME Sound(builder), NEW text \in Seq(Byte), Holds(builder, text), NEW c \in Encodable
  PROVE  Holds(Encoded(c), text \o Utf8(c))
<1> DEFINE r == MemStreamReserve(builder, 4)
           bytes == Utf8(c)
           p == Poked(r, bytes)
           w == Width[c]
           e == MemStreamAlloc(p, w)
           u == text \o bytes
           n == Len(text)
<1>1. w \in 1 .. 4 /\ c \in DOMAIN Width
  BY WidthAssumption DEF Encodable
<1>2. bytes \in Seq(Byte) /\ Len(bytes) = w
  BY <1>1 DEF Utf8, Byte
<1>3. n \in Nat /\ builder.offs = n /\ \A i \in 1 .. n : builder.mem[i - 1] = text[i]
  BY LenProperties DEF Holds
<1>4. /\ u \in Seq(Byte) /\ Len(u) = n + w
      /\ \A i \in 1 .. n + w : u[i] = IF i <= n THEN text[i] ELSE bytes[i - n]
  BY <1>2, ConcatProperties
<1>5. /\ Sound(r) /\ r.offs = n /\ n + 4 <= r.length
      /\ \A i \in DOMAIN builder.mem : r.mem[i] = builder.mem[i]
  BY <1>3, ReserveSound, ReserveKeeps
<1>6. r.length \in Nat
  BY <1>5 DEF Sound, Stream
<1>7. \A i \in 0 .. n - 1 : i \in DOMAIN builder.mem
  BY <1>3 DEF Sound, Stream, StreamInBounds
<1> HIDE DEF r, bytes, w, u, n
<1>8. r.offs + Len(bytes) <= r.length
  BY <1>1, <1>2, <1>3, <1>5, <1>6
<1>9. /\ Sound(p) /\ p.offs = n
      /\ \A i \in 0 .. n - 1 : p.mem[i] = r.mem[i]
      /\ \A i \in 1 .. w : p.mem[n + i - 1] = bytes[i]
  BY <1>2, <1>5, <1>8, PokeSound, PokeHolds
<1>10. DOMAIN p.mem = 0 .. p.cb - 1 /\ p.cb \in Nat /\ n + w <= p.cb
  <2>1. DOMAIN p.mem = 0 .. p.cb - 1 /\ p.cb \in Nat
    BY <1>9 DEF Sound, Stream, StreamInBounds
  <2>2. p.cb = r.cb
    BY <1>5 DEF Poked, Sound, Stream
  <2>3. r.length <= r.cb /\ r.cb \in Nat
    BY <1>5 DEF Sound, Stream, StreamInBounds
  <2> QED BY <1>1, <1>3, <1>5, <1>6, <2>1, <2>2, <2>3
<1> HIDE DEF p
<1>11. e.offs = n + w /\ \A i \in DOMAIN p.mem : e.mem[i] = p.mem[i]
  BY <1>1, <1>9, AllocKeeps
<1> HIDE DEF e
<1>12. ASSUME NEW i \in 1 .. n + w PROVE e.mem[i - 1] = u[i]
  <2>1. i - 1 \in DOMAIN p.mem
    BY <1>1, <1>3, <1>10
  <2>2. e.mem[i - 1] = p.mem[i - 1]
    BY <1>11, <2>1
  <2>3. CASE i <= n
    <3>1. i \in 1 .. n /\ i - 1 \in 0 .. n - 1
      BY <1>3, <2>3
    <3>2. p.mem[i - 1] = builder.mem[i - 1]
      BY <1>5, <1>7, <1>9, <3>1
    <3> QED BY <1>3, <1>4, <2>2, <2>3, <3>1, <3>2
  <2>4. CASE ~ (i <= n)
    <3> DEFINE j == i - n
    <3>1. j \in 1 .. w /\ n + j - 1 = i - 1
      <4>1. \A x, y \in Nat : \A k \in 1 .. x + y :
              ~ (k <= x) => k - x \in 1 .. y /\ x + (k - x) - 1 = k - 1
        OBVIOUS
      <4>2. w \in Nat /\ n \in Nat
        BY <1>1, <1>3
      <4> QED BY <2>4, <4>1, <4>2
    <3>2. j = i - n
      OBVIOUS
    <3> HIDE DEF j
    <3>4. u[i] = IF i <= n THEN text[i] ELSE bytes[i - n]
      BY <1>4
    <3>5. u[i] = bytes[j]
      BY <2>4, <3>2, <3>4
    <3>3. p.mem[n + j - 1] = bytes[j]
      BY <1>9, <3>1
    <3> QED BY <2>2, <3>1, <3>3, <3>5
  <2> QED BY <2>3, <2>4
<1>13. Holds(e, u)
  BY <1>4, <1>11, <1>12 DEF Holds
<1>14. Encoded(c) = e
  BY DEF Encoded, e, p, r, bytes, w
<1> QED BY <1>13, <1>14 DEF u, bytes

-----------------------------------------------------------------------------
(* The text of a word.                                                       *)
Mappable == Chars \cup {Special[c] : c \in DOMAIN Special}

LEMMA MeantTyped ==
  ASSUME NEW c \in Chars, NEW how \in Modes
  PROVE  Meant(c, how) \in Seq(Mappable)
<1>1. Mapped(c) \in Mappable /\ c \in Mappable
  BY DEF Mapped, Mappable
<1>2. <<>> \in Seq(Mappable) /\ <<c>> \in Seq(Mappable) /\ <<Mapped(c)>> \in Seq(Mappable)
  BY <1>1
<1> QED BY <1>2 DEF Meant

(* What n characters of a line from i on mean.                               *)
MeantFrom(l, r, i, n) == [k \in 1 .. n |-> Meant(l[i + k - 1], r[i + k - 1])]
WordTo(l, i, n) == FlattenSeq(MeantFrom(l, Reading(l), i, n))

LEMMA LineRead ==
  ASSUME NEW l \in Seq(Chars)
  PROVE  /\ Len(l) \in Nat /\ DOMAIN l = 1 .. Len(l)
         /\ \A i \in 1 .. Len(l) : l[i] \in Chars
         /\ Reading(l)[1] = "plain"
         /\ \A i \in 1 .. Len(l) + 1 : Reading(l)[i] \in Modes
         /\ \A i \in 1 .. Len(l) : Reading(l)[i + 1] = ReadAfter(Reading(l)[i], l[i])
<1>1. Len(l) \in Nat /\ DOMAIN l = 1 .. Len(l) /\ \A i \in 1 .. Len(l) : l[i] \in Chars
  BY LenProperties, ElementOfSeq
<1> DEFINE r == Reading(l)
<1>2. ReadTo(r, l, Len(l))
  BY <1>1, ReadingIs
<1> HIDE DEF r
<1>3. \A i \in 1 .. Len(l) + 1 : r[i] \in Modes
  BY <1>2, ElementOfSeq DEF ReadTo
<1> QED BY <1>1, <1>2, <1>3 DEF ReadTo, r

LEMMA MeantFromTyped ==
  ASSUME NEW l \in Seq(Chars), NEW i \in Nat \ {0}, NEW n \in Nat, i + n <= Len(l) + 1
  PROVE  MeantFrom(l, Reading(l), i, n) \in Seq(Seq(Mappable))
<1> DEFINE r == Reading(l)
<1>1. /\ Len(l) \in Nat /\ \A k \in 1 .. Len(l) : l[k] \in Chars
      /\ \A k \in 1 .. Len(l) + 1 : r[k] \in Modes
  BY LineRead
<1> HIDE DEF r
<1>2. ASSUME NEW k \in 1 .. n PROVE Meant(l[i + k - 1], r[i + k - 1]) \in Seq(Mappable)
  <2>1. i + k - 1 \in 1 .. Len(l) /\ i + k - 1 \in 1 .. Len(l) + 1
    BY <1>1
  <2> QED BY <1>1, <2>1, MeantTyped
<1>3. [k \in 1 .. n |-> Meant(l[i + k - 1], r[i + k - 1])] \in Seq(Seq(Mappable))
  BY <1>2, IsASeq
<1> QED BY <1>3 DEF MeantFrom, r

LEMMA WordTyped ==
  ASSUME NEW l \in Seq(Chars), NEW i \in Nat \ {0}, NEW n \in Nat, i + n <= Len(l) + 1
  PROVE  WordTo(l, i, n) \in Seq(Mappable)
BY MeantFromTyped, FlattenTyped DEF WordTo

LEMMA WordStart ==
  ASSUME NEW l, NEW i
  PROVE  WordTo(l, i, 0) = <<>>
<1>1. MeantFrom(l, Reading(l), i, 0) = <<>>
  BY EmptySeq DEF MeantFrom
<1> QED BY <1>1, FlattenEmpty DEF WordTo

LEMMA WordMore ==
  ASSUME NEW l \in Seq(Chars), NEW i \in Nat \ {0}, NEW n \in Nat, i + n <= Len(l)
  PROVE  WordTo(l, i, n + 1) = WordTo(l, i, n) \o Meant(l[i + n], Reading(l)[i + n])
<1> DEFINE r == Reading(l)
           s == MeantFrom(l, r, i, n)
           u == MeantFrom(l, r, i, n + 1)
           x == Meant(l[i + n], r[i + n])
<1>1. /\ Len(l) \in Nat /\ \A k \in 1 .. Len(l) : l[k] \in Chars
      /\ \A k \in 1 .. Len(l) + 1 : r[k] \in Modes
  BY LineRead
<1>2. i + n \in 1 .. Len(l) /\ i + n \in 1 .. Len(l) + 1 /\ i + n <= Len(l) + 1 /\ i + (n + 1) <= Len(l) + 1
  BY <1>1
<1>3. s \in Seq(Seq(Mappable))
  BY <1>2, MeantFromTyped
<1>4. u \in Seq(Seq(Mappable))
  BY <1>2, MeantFromTyped
<1> HIDE DEF r
<1>5. x \in Seq(Mappable)
  BY <1>1, <1>2, MeantTyped
<1>6. Len(s) = n /\ \A k \in 1 .. n : s[k] = Meant(l[i + k - 1], r[i + k - 1])
  BY DEF MeantFrom
<1>7. /\ Len(u) = n + 1 /\ \A k \in 1 .. n : u[k] = Meant(l[i + k - 1], r[i + k - 1])
      /\ u[n + 1] = x
  <2>1. i + (n + 1) - 1 = i + n /\ n + 1 \in Nat /\ n + 1 \in 1 .. n + 1
    OBVIOUS
  <2> DEFINE m == n + 1
  <2>2. m \in Nat /\ m \in 1 .. m /\ i + m - 1 = i + n /\ \A k \in 1 .. n : k \in 1 .. m
    BY <2>1
  <2> HIDE DEF m, x
  <2>3. u = [k \in 1 .. m |-> Meant(l[i + k - 1], r[i + k - 1])]
    BY DEF MeantFrom, m
  <2>4. u[m] = Meant(l[i + m - 1], r[i + m - 1])
    BY <2>2, <2>3
  <2>5. Len(u) = m
    BY <2>2, <2>3
  <2>6. \A k \in 1 .. n : u[k] = Meant(l[i + k - 1], r[i + k - 1])
    BY <2>2, <2>3
  <2> QED BY <2>2, <2>4, <2>5, <2>6 DEF m, x
<1> HIDE DEF s, u, x
<1>8. u = Append(s, x)
  <2> DEFINE w == Append(s, x)
  <2>1. w \in Seq(Seq(Mappable)) /\ Len(w) = n + 1 /\ w[n + 1] = x /\ \A k \in 1 .. n : w[k] = s[k]
    BY <1>3, <1>5, <1>6, AppendProperties
  <2> HIDE DEF w
  <2>2. \A k \in 1 .. n + 1 : u[k] = w[k]
    <3> SUFFICES ASSUME NEW k \in 1 .. n + 1 PROVE u[k] = w[k]
      OBVIOUS
    <3>1. k = n + 1 \/ k \in 1 .. n
      OBVIOUS
    <3> QED BY <1>6, <1>7, <2>1, <3>1
  <2>3. u = w
    BY <1>4, <1>7, <2>1, <2>2, SeqEqual
  <2> QED BY <2>3 DEF w
<1>9. FlattenSeq(u) = FlattenSeq(s) \o x
  BY <1>3, <1>5, <1>8, FlattenAppend
<1> QED BY <1>9 DEF WordTo, u, s, x, r

-----------------------------------------------------------------------------
(* Its bytes.                                                                *)
Bytes(s) == [k \in DOMAIN s |-> Utf8(s[k])]
Text(s) == FlattenSeq(Bytes(s))

LEMMA Utf8Typed ==
  ASSUME NEW c \in Encodable
  PROVE  Utf8(c) \in Seq(Byte)
<1>1. Width[c] \in 1 .. 4 /\ c \in DOMAIN Width
  BY WidthAssumption DEF Encodable
<1> QED BY <1>1 DEF Utf8, Byte

LEMMA BytesTyped ==
  ASSUME NEW s \in Seq(Encodable)
  PROVE  Bytes(s) \in Seq(Seq(Byte)) /\ Len(Bytes(s)) = Len(s)
<1>1. Len(s) \in Nat /\ DOMAIN s = 1 .. Len(s) /\ \A k \in 1 .. Len(s) : s[k] \in Encodable
  BY LenProperties, ElementOfSeq
<1>2. \A k \in 1 .. Len(s) : Utf8(s[k]) \in Seq(Byte)
  BY <1>1, Utf8Typed
<1>3. [k \in 1 .. Len(s) |-> Utf8(s[k])] \in Seq(Seq(Byte))
  BY <1>1, <1>2, IsASeq
<1>4. Bytes(s) = [k \in 1 .. Len(s) |-> Utf8(s[k])]
  BY <1>1 DEF Bytes
<1> QED BY <1>1, <1>3, <1>4

LEMMA TextTyped ==
  ASSUME NEW s \in Seq(Encodable)
  PROVE  Text(s) \in Seq(Byte)
BY BytesTyped, FlattenTyped DEF Text

LEMMA TextEmpty == Text(<<>>) = <<>>
<1>1. Bytes(<<>>) = <<>>
  BY EmptySeq DEF Bytes
<1> QED BY <1>1, FlattenEmpty DEF Text

LEMMA TextMore ==
  ASSUME NEW s \in Seq(Encodable), NEW c \in Encodable
  PROVE  Text(Append(s, c)) = Text(s) \o Utf8(c)
<1> DEFINE t == Append(s, c)
           n == Len(s)
           u == Bytes(t)
           b == Bytes(s)
           x == Utf8(c)
<1>1. n \in Nat /\ DOMAIN s = 1 .. n
  BY LenProperties
<1>2. t \in Seq(Encodable) /\ Len(t) = n + 1 /\ t[n + 1] = c /\ \A k \in 1 .. n : t[k] = s[k]
  BY AppendProperties
<1> HIDE DEF t
<1>3. u \in Seq(Seq(Byte)) /\ Len(u) = n + 1 /\ b \in Seq(Seq(Byte)) /\ Len(b) = n
  BY <1>2, BytesTyped
<1>4. x \in Seq(Byte)
  BY Utf8Typed
<1> DEFINE w == Append(b, x)
<1>5. w \in Seq(Seq(Byte)) /\ Len(w) = n + 1 /\ w[n + 1] = x /\ \A k \in 1 .. n : w[k] = b[k]
  <2> HIDE DEF b, x
  <2> QED BY <1>3, <1>4, AppendProperties
<1> HIDE DEF w
<1>6. DOMAIN t = 1 .. n + 1
  BY <1>2, LenProperties
<1>7. \A k \in 1 .. n + 1 : u[k] = w[k]
  <2> SUFFICES ASSUME NEW k \in 1 .. n + 1 PROVE u[k] = w[k]
    OBVIOUS
  <2>1. u[k] = Utf8(t[k])
    BY <1>6 DEF Bytes
  <2>2. CASE k = n + 1
    BY <1>2, <1>5, <2>1, <2>2
  <2>3. CASE k # n + 1
    <3>1. k \in 1 .. n
      BY <1>1, <2>3
    <3>2. b[k] = Utf8(s[k])
      BY <1>1, <3>1 DEF Bytes
    <3> QED BY <1>2, <1>5, <2>1, <3>1, <3>2
  <2> QED BY <2>2, <2>3
<1> HIDE DEF u, b, x
<1>8. u = w
  BY <1>3, <1>5, <1>7, SeqEqual
<1>9. FlattenSeq(w) = FlattenSeq(b) \o x
  BY <1>3, <1>4, FlattenAppend DEF w
<1> QED BY <1>8, <1>9 DEF Text, u, b, x, t

(* A string and its terminator.                                              *)
LEMMA TextEnds ==
  ASSUME NEW s \in Seq(Encodable)
  PROVE  FlattenSeq([k \in DOMAIN s |-> Utf8(s[k])] \o <<Utf8(End)>>) = Text(s) \o Utf8(End)
<1>1. End \in Encodable
  BY DEF Encodable
<1> DEFINE b == Bytes(s)
           x == Utf8(End)
<1>2. b \in Seq(Seq(Byte)) /\ x \in Seq(Byte)
  BY <1>1, BytesTyped, Utf8Typed
<1> HIDE DEF b, x
<1>3. b \o <<x>> = Append(b, x)
  BY <1>2, AppendIsConcat
<1>4. FlattenSeq(Append(b, x)) = FlattenSeq(b) \o x
  BY <1>2, FlattenAppend
<1> QED BY <1>3, <1>4 DEF b, x, Bytes, Text

(* What was held when the builder is copied begins the copy.                 *)
LEMMA HeldIsCopied ==
  ASSUME NEW s, Sound(s), Filled(s), NEW t \in Seq(Byte), Holds(s, t)
  PROVE  Contents(s) \in Seq(Byte) /\ IsPrefix(t, Contents(s))
<1> DEFINE u == Contents(s)
           n == s.length
           m == Len(t)
<1>1. n \in Nat /\ m \in Nat /\ m <= n
  BY LenProperties DEF Holds, Sound, Stream, StreamInBounds
<1>2. u = [i \in 1 .. n |-> s.mem[i - 1]]
  BY DEF Contents
<1>3. \A i \in 1 .. n : s.mem[i - 1] \in Byte
  BY ContentsFilled DEF Contents
<1> HIDE DEF n
<1>4. [i \in 1 .. n |-> s.mem[i - 1]] \in Seq(Byte)
  BY <1>1, <1>3, IsASeq
<1>5. u \in Seq(Byte) /\ Len(u) = n
  BY <1>1, <1>2, <1>4
<1>6. \A i \in 1 .. m : t[i] = u[i]
  BY <1>1, <1>2 DEF Holds
<1> HIDE DEF u, m
<1>7. SubSeq(t, 1, m) = SubSeq(u, 1, m)
  <2> DEFINE a == SubSeq(t, 1, m)
             b == SubSeq(u, 1, m)
  <2>0. Len(t) = m /\ (\A k \in 1 .. m : t[k] \in Byte) /\ (\A k \in 1 .. m : u[k] \in Byte)
    BY <1>1, <1>5, ElementOfSeq DEF m
  <2>a. (IF 1 <= m THEN m - 1 + 1 ELSE 0) = m /\ m - 1 + 1 = m /\ \A k \in 1 .. m : 1 + k - 1 = k
    BY <1>1
  <2>1. a \in Seq(Byte) /\ Len(a) = m /\ \A k \in 1 .. m : a[k] = t[1 + k - 1]
    BY <1>1, <2>0, <2>a, SubSeqProperties
  <2>2. b \in Seq(Byte) /\ Len(b) = m /\ \A k \in 1 .. m : b[k] = u[1 + k - 1]
    BY <1>1, <1>5, <2>0, <2>a, SubSeqProperties
  <2> HIDE DEF a, b
  <2>3. \A k \in 1 .. m : a[k] = b[k]
    BY <1>6, <2>1, <2>2, <2>a
  <2>4. a = b
    BY <2>1, <2>2, <2>3, SeqEqual
  <2> QED BY <2>4 DEF a, b
<1>8. IsPrefix(t, u)
  BY <1>1, <1>5, <1>7 DEF IsPrefix, m
<1> QED BY <1>5, <1>8 DEF u

-----------------------------------------------------------------------------
(* Where the tokens of a line start.                                         *)
StartsOf(l) == WordStarts(l, Stops(l)) \cup OperatorStarts(l, Stops(l))
Below(l, p) == {h \in StartsOf(l) : h < p}

LEMMA StopsAre ==
  ASSUME NEW l \in Seq(Chars), NEW i
  PROVE  i \in Stops(l) <=> i \in 1 .. Len(l) /\ Reading(l)[i] = "plain" /\ l[i] \in Space \cup Delimiters
BY LenProperties DEF Stops

LEMMA StartsAre ==
  ASSUME NEW l \in Seq(Chars)
  PROVE  /\ StartsOf(l) \subseteq 1 .. Len(l) /\ IsFiniteSet(StartsOf(l))
         /\ WordStarts(l, Stops(l)) \cap Stops(l) = {}
         /\ OperatorStarts(l, Stops(l)) \subseteq Stops(l)
<1>1. Len(l) \in Nat /\ DOMAIN l = 1 .. Len(l)
  BY LenProperties
<1>2. Stops(l) \subseteq 1 .. Len(l)
  BY StopsAre
<1>3. WordStarts(l, Stops(l)) \subseteq 1 .. Len(l) /\ WordStarts(l, Stops(l)) \cap Stops(l) = {}
  BY <1>1 DEF WordStarts
<1>4. OperatorStarts(l, Stops(l)) \subseteq Stops(l)
  BY DEF OperatorStarts
<1>5. StartsOf(l) \subseteq 1 .. Len(l)
  BY <1>2, <1>3, <1>4 DEF StartsOf
<1>6. IsFiniteSet(1 .. Len(l))
  BY <1>1, FS_Interval
<1>7. IsFiniteSet(StartsOf(l))
  BY <1>5, <1>6, FS_Subset
<1> QED BY <1>3, <1>4, <1>5, <1>7

LEMMA BelowFacts ==
  ASSUME NEW l \in Seq(Chars), NEW p \in Nat
  PROVE  /\ IsFiniteSet(Below(l, p)) /\ Cardinality(Below(l, p)) \in Nat
         /\ p \in StartsOf(l) => Cardinality(Below(l, p + 1)) = Cardinality(Below(l, p)) + 1
         /\ p \notin StartsOf(l) => Below(l, p + 1) = Below(l, p)
<1>1. StartsOf(l) \subseteq 1 .. Len(l) /\ IsFiniteSet(StartsOf(l)) /\ Len(l) \in Nat
  BY StartsAre, LenProperties
<1>2. Below(l, p) \subseteq StartsOf(l) /\ p \notin Below(l, p)
  BY <1>1 DEF Below
<1>3. IsFiniteSet(Below(l, p))
  BY <1>1, <1>2, FS_Subset
<1>4. \A h \in StartsOf(l) : h < p + 1 <=> h < p \/ h = p
  BY <1>1
<1>5. CASE p \in StartsOf(l)
  <2>1. Below(l, p + 1) = Below(l, p) \cup {p}
    BY <1>4, <1>5 DEF Below
  <2>2. Cardinality(Below(l, p) \cup {p}) = Cardinality(Below(l, p)) + 1
    BY <1>2, <1>3, FS_AddElement
  <2> QED BY <1>3, <1>5, <2>1, <2>2, FS_CardinalityType
<1>6. CASE p \notin StartsOf(l)
  <2>1. Below(l, p + 1) = Below(l, p)
    BY <1>4, <1>6 DEF Below
  <2> QED BY <1>3, <1>6, <2>1, FS_CardinalityType
<1> QED BY <1>5, <1>6

(* Nothing starts between two places.                                        *)
LEMMA BelowSame ==
  ASSUME NEW l \in Seq(Chars), NEW p \in Nat, NEW q \in Nat, p <= q,
         \A h \in StartsOf(l) : ~ (p <= h /\ h < q)
  PROVE  Below(l, q) = Below(l, p)
<1>1. StartsOf(l) \subseteq 1 .. Len(l)
  BY StartsAre
<1>2. \A h \in StartsOf(l) : h < q <=> h < p
  BY <1>1, LenProperties
<1> QED BY <1>2 DEF Below

LEMMA BelowEnds ==
  ASSUME NEW l \in Seq(Chars)
  PROVE  Below(l, 1) = {} /\ Below(l, Len(l) + 1) = StartsOf(l)
<1>1. StartsOf(l) \subseteq 1 .. Len(l) /\ Len(l) \in Nat
  BY StartsAre, LenProperties
<1>2. \A h \in StartsOf(l) : h < Len(l) + 1 /\ ~ (h < 1)
  BY <1>1
<1> QED BY <1>2 DEF Below

(* The start that so many are below is the one.                              *)
Rank(l, j) == Cardinality({h \in StartsOf(l) : h <= j})

LEMMA RankIs ==
  ASSUME NEW l \in Seq(Chars), NEW i \in StartsOf(l)
  PROVE  /\ Rank(l, i) = Cardinality(Below(l, i)) + 1
         /\ Rank(l, i) <= Cardinality(StartsOf(l))
         /\ \A j \in StartsOf(l) : Rank(l, j) = Rank(l, i) => j = i
<1>1. StartsOf(l) \subseteq 1 .. Len(l) /\ IsFiniteSet(StartsOf(l)) /\ Len(l) \in Nat
  BY StartsAre, LenProperties
<1>2. \A j \in StartsOf(l) : j \in Nat /\ IsFiniteSet({h \in StartsOf(l) : h <= j})
  <2> SUFFICES ASSUME NEW j \in StartsOf(l) PROVE j \in Nat /\ IsFiniteSet({h \in StartsOf(l) : h <= j})
    OBVIOUS
  <2>1. {h \in StartsOf(l) : h <= j} \subseteq StartsOf(l)
    OBVIOUS
  <2> QED BY <1>1, <2>1, FS_Subset
<1>3. Rank(l, i) = Cardinality(Below(l, i)) + 1
  <2>1. {h \in StartsOf(l) : h <= i} = Below(l, i + 1)
    BY <1>1 DEF Below
  <2> QED BY <1>2, <2>1, BelowFacts DEF Rank
<1>4. Rank(l, i) <= Cardinality(StartsOf(l))
  <2>1. {h \in StartsOf(l) : h <= i} \subseteq StartsOf(l)
    OBVIOUS
  <2> QED BY <1>1, <2>1, FS_Subset DEF Rank
<1>5. ASSUME NEW j \in StartsOf(l), NEW k \in StartsOf(l), j < k PROVE Rank(l, j) # Rank(l, k)
  <2> DEFINE a == {h \in StartsOf(l) : h <= j}
             b == {h \in StartsOf(l) : h <= k}
  <2>1. a \subseteq b /\ k \in b /\ k \notin a
    BY <1>1, <1>2, <1>5
  <2>2. a # b /\ IsFiniteSet(b)
    BY <1>2, <2>1
  <2> HIDE DEF a, b
  <2>3. Cardinality(a) # Cardinality(b)
    BY <2>1, <2>2, FS_Subset
  <2> QED BY <2>3 DEF Rank, a, b
<1>6. ASSUME NEW j \in StartsOf(l), Rank(l, j) = Rank(l, i) PROVE j = i
  <2>1. j \in Nat /\ i \in Nat
    BY <1>2
  <2>2. j < i \/ i < j \/ j = i
    BY <2>1
  <2> QED BY <1>5, <1>6, <2>2
<1> QED BY <1>3, <1>4, <1>6

(* The tokens of a line by where they start.                                 *)
LEMMA TokenAt ==
  ASSUME NEW l \in Seq(Chars), NEW i \in StartsOf(l), NEW n, n = Cardinality(Below(l, i))
  PROVE  TokenOf(l, n + 1) = IF i \in WordStarts(l, Stops(l))
                             THEN [token |-> "ARG", text |-> WordAt(l, Stops(l), i)]
                             ELSE [token |-> OperatorAt(l, i), text |-> <<>>]
<1>1. /\ Rank(l, i) = n + 1 /\ Rank(l, i) <= Cardinality(StartsOf(l))
      /\ \A j \in StartsOf(l) : Rank(l, j) = Rank(l, i) => j = i
  BY RankIs
<1>2. n \in Nat /\ Cardinality(StartsOf(l)) \in Nat
  <2>1. i \in Nat
    BY StartsAre, LenProperties
  <2> QED BY <2>1, BelowFacts, StartsAre, FS_CardinalityType
<1>3. ~ (n + 1 > Cardinality(StartsOf(l)))
  BY <1>1, <1>2
<1> DEFINE c == CHOOSE j \in StartsOf(l) : Cardinality({h \in StartsOf(l) : h <= j}) = n + 1
<1>4. c \in StartsOf(l) /\ Rank(l, c) = n + 1
  <2>1. \E j \in StartsOf(l) : Cardinality({h \in StartsOf(l) : h <= j}) = n + 1
    BY <1>1 DEF Rank
  <2> QED BY <2>1 DEF Rank
<1>5. c = i
  BY <1>1, <1>4
<1>6. TokenOf(l, n + 1) = IF n + 1 > Cardinality(StartsOf(l)) THEN [token |-> "EOF", text |-> <<>>]
                          ELSE IF c \in WordStarts(l, Stops(l))
                               THEN [token |-> "ARG", text |-> WordAt(l, Stops(l), c)]
                               ELSE [token |-> OperatorAt(l, c), text |-> <<>>]
  BY DEF TokenOf, StartsOf
<1> HIDE DEF c
<1> QED BY <1>3, <1>5, <1>6

LEMMA TokenAtEnd ==
  ASSUME NEW l \in Seq(Chars), NEW n, n = Cardinality(StartsOf(l))
  PROVE  TokenOf(l, n + 1).token = "EOF"
<1>1. n \in Nat
  BY StartsAre, FS_CardinalityType
<1>2. n + 1 > Cardinality(StartsOf(l))
  BY <1>1
<1>3. n + 1 > Cardinality(WordStarts(l, Stops(l)) \cup OperatorStarts(l, Stops(l)))
  BY <1>2 DEF StartsOf
<1>4. TokenOf(l, n + 1) = [token |-> "EOF", text |-> <<>>]
  BY <1>3 DEF TokenOf
<1> QED BY <1>4

-----------------------------------------------------------------------------
(* A word that nothing stops up to p, and that ends there.                   *)
LEMMA WordAtIs ==
  ASSUME NEW l \in Seq(Chars), NEW i \in Nat, NEW p \in Nat, 1 <= i, i < p, p <= Len(l) + 1,
         \A j \in i .. p - 1 : j \notin Stops(l),
         p = Len(l) + 1 \/ p \in Stops(l)
  PROVE  WordAt(l, Stops(l), i) = WordTo(l, i, p - i)
<1>1. Len(l) \in Nat
  BY LenProperties
<1> DEFINE stops == Stops(l)
           w == {j \in i .. Len(l) : (i .. j) \cap stops = {}}
<1>2. w = i .. p - 1
  <2>1. ASSUME NEW j \in i .. p - 1 PROVE j \in w
    <3>1. j \in i .. Len(l)
      BY <1>1
    <3>2. \A k \in i .. j : k \in i .. p - 1
      OBVIOUS
    <3>3. (i .. j) \cap stops = {}
      BY <3>2
    <3> QED BY <3>1, <3>3
  <2>2. ASSUME NEW j \in w PROVE j \in i .. p - 1
    <3>1. j \in Int /\ i <= j /\ j <= Len(l)
      BY <1>1
    <3>2. ~ (p <= j)
      <4> SUFFICES ASSUME p <= j PROVE FALSE
        OBVIOUS
      <4>1. p \in i .. j
        BY <3>1
      <4>2. p \in Stops(l)
        BY <1>1, <3>1
      <4> QED BY <4>1, <4>2
    <3> QED BY <3>1, <3>2
  <2> HIDE DEF w
  <2> QED BY <2>1, <2>2
<1>3. WordLength(l, stops, i) = p - i
  <2>1. Cardinality(i .. p - 1) = p - i
    <3>1. p - 1 \in Int /\ i \in Int /\ ~ (i > p - 1) /\ p - 1 - i + 1 = p - i
      OBVIOUS
    <3>2. Cardinality(i .. p - 1) = IF i > p - 1 THEN 0 ELSE p - 1 - i + 1
      BY <3>1, FS_Interval
    <3> QED BY <3>1, <3>2
  <2> QED BY <1>2, <2>1 DEF WordLength
<1> HIDE DEF stops
<1>4. WordAt(l, stops, i) = FlattenSeq([k \in 1 .. p - i |-> Meant(l[i + k - 1], Reading(l)[i + k - 1])])
  BY <1>3 DEF WordAt
<1> QED BY <1>4 DEF WordTo, MeantFrom, stops

-----------------------------------------------------------------------------
(* Equal operator characters in a row.                                       *)
RunSize(l, i) == Cardinality(RunBefore(l, Stops(l), i))

LEMMA RunFinite ==
  ASSUME NEW l, NEW i \in Nat
  PROVE  IsFiniteSet(RunBefore(l, Stops(l), i)) /\ RunSize(l, i) \in Nat
<1>1. RunBefore(l, Stops(l), i) \subseteq 1 .. i - 1
  BY DEF RunBefore
<1>2. IsFiniteSet(1 .. i - 1)
  BY FS_Interval
<1> QED BY <1>1, <1>2, FS_Subset, FS_CardinalityType DEF RunSize

LEMMA RunEmpty ==
  ASSUME NEW l, NEW i \in Nat, i = 1 \/ i - 1 \notin Stops(l) \/ l[i - 1] # l[i]
  PROVE  RunSize(l, i) = 0
<1>1. RunBefore(l, Stops(l), i) = {}
  <2> SUFFICES ASSUME NEW j \in 1 .. i - 1, \A k \in j .. i - 1 : k \in Stops(l) /\ l[k] = l[i]
               PROVE  FALSE
    BY DEF RunBefore
  <2>1. i - 1 \in j .. i - 1 /\ i # 1
    OBVIOUS
  <2>2. i - 1 \in Stops(l) /\ l[i - 1] = l[i]
    BY <2>1
  <2> QED BY <2>1, <2>2
<1> QED BY <1>1, FS_EmptySet DEF RunSize

LEMMA RunMore ==
  ASSUME NEW l, NEW i \in Nat, 1 <= i, i \in Stops(l), l[i + 1] = l[i]
  PROVE  RunSize(l, i + 1) = RunSize(l, i) + 1
<1> DEFINE a == RunBefore(l, Stops(l), i)
           b == RunBefore(l, Stops(l), i + 1)
<1>0. i + 1 - 1 = i /\ i \in 1 .. i
  OBVIOUS
<1>1. a = {j \in 1 .. i - 1 : \A k \in j .. i - 1 : k \in Stops(l) /\ l[k] = l[i]}
  BY DEF RunBefore
<1>2. b = {j \in 1 .. i : \A k \in j .. i : k \in Stops(l) /\ l[k] = l[i]}
  BY <1>0 DEF RunBefore
<1> HIDE DEF a, b
<1>3. i \in b
  <2>1. \A k \in i .. i : k = i
    OBVIOUS
  <2> QED BY <1>0, <1>2, <2>1
<1>4. ASSUME NEW j \in a PROVE j \in b
  <2>1. j \in 1 .. i - 1 /\ j \in 1 .. i /\ \A k \in j .. i - 1 : k \in Stops(l) /\ l[k] = l[i]
    BY <1>1
  <2>2. \A k \in j .. i : k = i \/ k \in j .. i - 1
    OBVIOUS
  <2> QED BY <1>2, <2>1, <2>2
<1>5. ASSUME NEW j \in b, j # i PROVE j \in a
  <2>1. j \in 1 .. i /\ j \in 1 .. i - 1 /\ \A k \in j .. i : k \in Stops(l) /\ l[k] = l[i]
    BY <1>2, <1>5
  <2>2. \A k \in j .. i - 1 : k \in j .. i
    OBVIOUS
  <2> QED BY <1>1, <2>1, <2>2
<1>6. b = a \cup {i}
  BY <1>3, <1>4, <1>5
<1>7. i \notin a
  BY <1>1
<1>8. IsFiniteSet(a)
  BY RunFinite DEF a
<1>9. Cardinality(a \cup {i}) = Cardinality(a) + 1
  BY <1>7, <1>8, FS_AddElement
<1> QED BY <1>6, <1>9 DEF RunSize, a, b

-----------------------------------------------------------------------------
(* Between two tokens, n of them found: where the reader stands, at p.       *)
Ready(l, p, n) ==
  /\ p \in 1 .. Len(l) + 1
  /\ p = Len(l) + 1 \/ Reading(l)[p] = "plain"
  /\ p = Len(l) + 1 \/ p \in Stops(l) \/ p = 1 \/ p - 1 \in Stops(l)
  /\ p \in Stops(l) /\ l[p] \in {"&", "|"} => RunSize(l, p) % 2 = 0
  /\ Cardinality(Below(l, p)) = n

LEMMA ReadyStart ==
  ASSUME NEW l \in Seq(Chars)
  PROVE  Ready(l, 1, 0)
<1>1. Len(l) \in Nat /\ Reading(l)[1] = "plain"
  BY LineRead
<1>2. Cardinality(Below(l, 1)) = 0
  BY BelowEnds, FS_EmptySet
<1>3. RunSize(l, 1) % 2 = 0
  <2>1. RunSize(l, 1) = 0
    BY RunEmpty
  <2> QED BY <2>1
<1> QED BY <1>1, <1>2, <1>3 DEF Ready

LEMMA ReadySpace ==
  ASSUME NEW l \in Seq(Chars), NEW p, NEW n, Ready(l, p, n), p # Len(l) + 1, l[p] \in Space
  PROVE  Ready(l, p + 1, n)
<1>1. Len(l) \in Nat /\ p \in 1 .. Len(l) /\ p \in Nat /\ p + 1 \in 1 .. Len(l) + 1 /\ p + 1 - 1 = p
  BY LenProperties DEF Ready
<1>2. Reading(l)[p] = "plain"
  BY <1>1 DEF Ready
<1>3. p \in Stops(l)
  BY <1>1, <1>2, StopsAre
<1>4. l[p] \notin {"\\", "\"", "'"} /\ l[p] \notin Delimiters
  BY DEF Space, Delimiters
<1>5. Reading(l)[p + 1] = "plain"
  <2>1. Reading(l)[p + 1] = ReadAfter(Reading(l)[p], l[p])
    BY <1>1, LineRead
  <2> QED BY <1>2, <1>4, <2>1 DEF ReadAfter
<1>6. p \notin StartsOf(l)
  BY <1>3, <1>4 DEF StartsOf, WordStarts, OperatorStarts
<1>7. Cardinality(Below(l, p + 1)) = n
  BY <1>1, <1>6, BelowFacts DEF Ready
<1>8. l[p + 1] \in {"&", "|"} => RunSize(l, p + 1) % 2 = 0
  <2> SUFFICES ASSUME l[p + 1] \in {"&", "|"} PROVE RunSize(l, p + 1) % 2 = 0
    OBVIOUS
  <2>1. l[p] # l[p + 1]
    BY <1>4 DEF Delimiters
  <2>2. RunSize(l, p + 1) = 0
    <3> DEFINE q == p + 1
    <3>1. q \in Nat /\ q - 1 = p
      BY <1>1
    <3>2. l[q - 1] # l[q]
      BY <2>1, <3>1
    <3> HIDE DEF q
    <3>3. RunSize(l, q) = 0
      BY <3>1, <3>2, RunEmpty
    <3> QED BY <3>3 DEF q
  <2> QED BY <2>2
<1> QED BY <1>1, <1>3, <1>5, <1>7, <1>8 DEF Ready

(* An operator starts where the reader finds one.                            *)
LEMMA OperatorStarting ==
  ASSUME NEW l \in Seq(Chars), NEW p, NEW n, Ready(l, p, n), p # Len(l) + 1, l[p] \in Delimiters
  PROVE  /\ p \in 1 .. Len(l) /\ p \in Nat /\ Len(l) \in Nat
         /\ p \in Stops(l) /\ p \in OperatorStarts(l, Stops(l)) /\ p \in StartsOf(l)
         /\ p \notin WordStarts(l, Stops(l))
         /\ Reading(l)[p + 1] = "plain"
         /\ Cardinality(Below(l, p + 1)) = n + 1
         /\ TokenOf(l, n + 1).token = OperatorAt(l, p)
<1>1. Len(l) \in Nat /\ p \in 1 .. Len(l) /\ p \in Nat
  BY LenProperties DEF Ready
<1>2. Reading(l)[p] = "plain"
  BY <1>1 DEF Ready
<1>3. p \in Stops(l)
  BY <1>1, <1>2, StopsAre
<1>4. l[p] \notin {"\\", "\"", "'"}
  BY DEF Delimiters
<1>5. Reading(l)[p + 1] = "plain"
  <2>1. Reading(l)[p + 1] = ReadAfter(Reading(l)[p], l[p])
    BY <1>1, LineRead
  <2> QED BY <1>2, <1>4, <2>1 DEF ReadAfter
<1>6. p \in OperatorStarts(l, Stops(l))
  BY <1>3 DEF OperatorStarts, Ready, RunSize
<1>7. p \in StartsOf(l) /\ p \notin WordStarts(l, Stops(l))
  BY <1>3, <1>6, StartsAre DEF StartsOf
<1>8. Cardinality(Below(l, p)) = n /\ Cardinality(Below(l, p + 1)) = n + 1
  BY <1>1, <1>7, BelowFacts DEF Ready
<1>9. TokenOf(l, n + 1) = [token |-> OperatorAt(l, p), text |-> <<>>]
  BY <1>7, <1>8, TokenAt
<1> QED BY <1>1, <1>3, <1>5, <1>6, <1>7, <1>8, <1>9

LEMMA ReadyOnce ==
  ASSUME NEW l \in Seq(Chars), NEW p, NEW n, Ready(l, p, n), p # Len(l) + 1, l[p] \in Delimiters,
         l[p] \notin {"&", "|"} \/ p = Len(l) \/ l[p + 1] # l[p]
  PROVE  Ready(l, p + 1, n + 1)
<1>1. /\ p \in 1 .. Len(l) /\ p \in Nat /\ Len(l) \in Nat /\ p \in Stops(l)
      /\ Reading(l)[p + 1] = "plain" /\ Cardinality(Below(l, p + 1)) = n + 1
  BY OperatorStarting
<1> DEFINE q == p + 1
<1>2. q \in 1 .. Len(l) + 1 /\ q \in Nat /\ q - 1 = p
  BY <1>1
<1>3. q \in Stops(l) /\ l[q] \in {"&", "|"} => RunSize(l, q) % 2 = 0
  <2> SUFFICES ASSUME q \in Stops(l), l[q] \in {"&", "|"} PROVE RunSize(l, q) % 2 = 0
    OBVIOUS
  <2>1. q <= Len(l)
    BY <1>1, StopsAre
  <2>2. p # Len(l)
    BY <1>1, <2>1
  <2>3. l[q - 1] # l[q]
    BY <1>2, <2>2
  <2> HIDE DEF q
  <2>4. RunSize(l, q) = 0
    BY <1>2, <2>3, RunEmpty
  <2> QED BY <2>4
<1>4. Reading(l)[q] = "plain" /\ q - 1 \in Stops(l) /\ Cardinality(Below(l, q)) = n + 1
  BY <1>1, <1>2
<1> HIDE DEF q
<1>5. Ready(l, q, n + 1)
  BY <1>2, <1>3, <1>4 DEF Ready
<1> QED BY <1>5 DEF q

LEMMA ReadyTwice ==
  ASSUME NEW l \in Seq(Chars), NEW p, NEW n, Ready(l, p, n), p # Len(l) + 1, p # Len(l),
         l[p] \in {"&", "|"}, l[p + 1] = l[p]
  PROVE  Ready(l, p + 1 + 1, n + 1)
<1>0. l[p] \in Delimiters
  BY DEF Delimiters
<1>1. /\ p \in 1 .. Len(l) /\ p \in Nat /\ Len(l) \in Nat /\ p \in Stops(l)
      /\ Reading(l)[p + 1] = "plain" /\ Cardinality(Below(l, p + 1)) = n + 1
  BY <1>0, OperatorStarting
<1> DEFINE q == p + 1
           r == q + 1
<1>2. /\ q \in 1 .. Len(l) /\ q \in Nat /\ q - 1 = p /\ q = p + 1 /\ 1 <= p /\ 1 <= q
      /\ r \in 1 .. Len(l) + 1 /\ r \in Nat /\ r - 1 = q /\ r = q + 1
  BY <1>1
<1>3. Reading(l)[q] = "plain" /\ l[q] = l[p] /\ Cardinality(Below(l, q)) = n + 1
  BY <1>1
<1> HIDE DEF q, r
<1>4. q \in Stops(l)
  BY <1>0, <1>2, <1>3, StopsAre
<1>5. Reading(l)[r] = "plain"
  <2>1. Reading(l)[q + 1] = ReadAfter(Reading(l)[q], l[q])
    BY <1>2, LineRead
  <2>2. l[q] \notin {"\\", "\"", "'"}
    BY <1>3
  <2> QED BY <1>2, <1>3, <2>1, <2>2 DEF ReadAfter
<1>6. RunSize(l, p) % 2 = 0 /\ RunSize(l, p) \in Nat
  BY <1>1, RunFinite DEF Ready
<1>7. RunSize(l, q) = RunSize(l, p) + 1
  <2>1. l[p + 1] = l[p]
    OBVIOUS
  <2>2. RunSize(l, p + 1) = RunSize(l, p) + 1
    BY <1>1, <1>2, RunMore
  <2> QED BY <1>2, <2>2
<1>a. \A x \in Nat : x % 2 = 0 => (x + 1) % 2 # 0 /\ (x + 1 + 1) % 2 = 0
  OBVIOUS
<1>8. q \notin StartsOf(l)
  <2>1. RunSize(l, q) % 2 # 0
    BY <1>6, <1>7, <1>a
  <2>2. l[q] \in {"&", "|"}
    BY <1>3
  <2>3. q \notin OperatorStarts(l, Stops(l))
    BY <2>1, <2>2 DEF OperatorStarts, RunSize
  <2> QED BY <1>4, <2>3, StartsAre DEF StartsOf
<1>9. Cardinality(Below(l, r)) = n + 1
  <2>1. Below(l, q + 1) = Below(l, q)
    BY <1>2, <1>8, BelowFacts
  <2> QED BY <1>2, <1>3, <2>1
<1>10. RunSize(l, r) % 2 = 0
  <2>1. CASE l[r] = l[q]
    <3>1. l[q + 1] = l[q]
      BY <1>2, <2>1
    <3>2. RunSize(l, q + 1) = RunSize(l, q) + 1
      BY <1>2, <1>4, <3>1, RunMore
    <3> QED BY <1>2, <1>6, <1>7, <1>a, <3>2
  <2>2. CASE l[r] # l[q]
    <3>1. l[r - 1] # l[r]
      BY <1>2, <2>2
    <3>2. RunSize(l, r) = 0
      BY <1>2, <3>1, RunEmpty
    <3> QED BY <3>2
  <2> QED BY <2>1, <2>2
<1>11. Ready(l, r, n + 1)
  BY <1>2, <1>4, <1>5, <1>9, <1>10 DEF Ready
<1>12. r = p + 1 + 1
  BY <1>2
<1> QED BY <1>11, <1>12

-----------------------------------------------------------------------------
(* Inside the word that starts at i, n tokens found before it.               *)
InWord(l, i, p, n) ==
  /\ i \in WordStarts(l, Stops(l)) /\ Cardinality(Below(l, i)) = n
  /\ p \in 1 .. Len(l) + 1 /\ i <= p
  /\ \A j \in i .. p - 1 : j \notin Stops(l)

LEMMA InWordFacts ==
  ASSUME NEW l \in Seq(Chars), NEW i, NEW p, NEW n, InWord(l, i, p, n)
  PROVE  /\ Len(l) \in Nat /\ i \in 1 .. Len(l) /\ i \in Nat /\ i \in Nat \ {0} /\ p \in Nat
         /\ p - i \in Nat /\ i + (p - i) = p /\ i \notin Stops(l) /\ i \in StartsOf(l)
<1>1. i \in StartsOf(l) /\ i \notin Stops(l)
  BY StartsAre DEF InWord, StartsOf
<1>2. i \in 1 .. Len(l) /\ Len(l) \in Nat
  BY <1>1, StartsAre, LenProperties
<1> QED BY <1>1, <1>2 DEF InWord

LEMMA WordStarting ==
  ASSUME NEW l \in Seq(Chars), NEW p, NEW n, Ready(l, p, n), p # Len(l) + 1,
         l[p] \notin Space \cup Delimiters
  PROVE  InWord(l, p, p, n) /\ Reading(l)[p] = "plain"
<1>1. Len(l) \in Nat /\ p \in 1 .. Len(l) /\ p \in Nat /\ DOMAIN l = 1 .. Len(l)
  BY LenProperties DEF Ready
<1>2. Reading(l)[p] = "plain"
  BY <1>1 DEF Ready
<1>3. p \notin Stops(l)
  BY StopsAre
<1>4. p \in WordStarts(l, Stops(l))
  BY <1>1, <1>3 DEF WordStarts, Ready
<1>5. \A j \in p .. p - 1 : j \notin Stops(l)
  BY <1>1
<1> QED BY <1>1, <1>2, <1>4, <1>5 DEF InWord, Ready

LEMMA WordGoesOn ==
  ASSUME NEW l \in Seq(Chars), NEW i, NEW p, NEW n, InWord(l, i, p, n), p # Len(l) + 1, p \notin Stops(l)
  PROVE  InWord(l, i, p + 1, n)
<1>1. Len(l) \in Nat /\ i \in Nat /\ p \in Nat
  BY InWordFacts
<1>2. p + 1 \in 1 .. Len(l) + 1 /\ i <= p + 1
  BY <1>1 DEF InWord
<1>3. \A j \in i .. p + 1 - 1 : j = p \/ j \in i .. p - 1
  BY <1>1
<1>4. \A j \in i .. p + 1 - 1 : j \notin Stops(l)
  BY <1>3 DEF InWord
<1> QED BY <1>2, <1>4 DEF InWord

(* The word ends, one token more is found: it is this word.                  *)
LEMMA WordEnding ==
  ASSUME NEW l \in Seq(Chars), NEW i, NEW p, NEW n, InWord(l, i, p, n),
         p = Len(l) + 1 \/ p \in Stops(l)
  PROVE  /\ Ready(l, p, n + 1)
         /\ TokenOf(l, n + 1) = [token |-> "ARG", text |-> WordTo(l, i, p - i)]
<1>1. /\ Len(l) \in Nat /\ i \in 1 .. Len(l) /\ i \in Nat /\ p \in Nat /\ i \notin Stops(l)
      /\ i \in StartsOf(l)
  BY InWordFacts
<1>2. p \in 1 .. Len(l) + 1 /\ i <= p /\ \A j \in i .. p - 1 : j \notin Stops(l)
  BY DEF InWord
<1>3. i < p
  BY <1>1, <1>2
<1>4. TokenOf(l, n + 1) = [token |-> "ARG", text |-> WordTo(l, i, p - i)]
  <2>1. WordAt(l, Stops(l), i) = WordTo(l, i, p - i)
    BY <1>1, <1>2, <1>3, WordAtIs
  <2>2. TokenOf(l, n + 1) = [token |-> "ARG", text |-> WordAt(l, Stops(l), i)]
    BY <1>1, TokenAt DEF InWord
  <2> QED BY <2>1, <2>2
<1>5. Cardinality(Below(l, p)) = n + 1
  <2>1. Cardinality(Below(l, i + 1)) = n + 1
    BY <1>1, BelowFacts DEF InWord
  <2>2. \A h \in StartsOf(l) : ~ (i + 1 <= h /\ h < p)
    <3> SUFFICES ASSUME NEW h \in StartsOf(l), i + 1 <= h, h < p PROVE FALSE
      OBVIOUS
    <3>1. h \in 1 .. Len(l)
      BY StartsAre
    <3>2. h \in i .. p - 1 /\ h - 1 \in i .. p - 1 /\ h # 1
      BY <1>1, <3>1
    <3>3. h \notin Stops(l) /\ h - 1 \notin Stops(l)
      BY <1>2, <3>2
    <3>4. h \notin WordStarts(l, Stops(l))
      BY <3>2, <3>3 DEF WordStarts
    <3>5. h \notin OperatorStarts(l, Stops(l))
      BY <3>3, StartsAre
    <3> QED BY <3>4, <3>5 DEF StartsOf
  <2>3. i + 1 \in Nat /\ i + 1 <= p
    BY <1>1, <1>3
  <2>4. Below(l, p) = Below(l, i + 1)
    <3> DEFINE q == i + 1
    <3>1. q \in Nat /\ q <= p /\ \A h \in StartsOf(l) : ~ (q <= h /\ h < p)
      BY <2>2, <2>3
    <3> HIDE DEF q
    <3>2. Below(l, p) = Below(l, q)
      BY <1>1, <3>1, BelowSame
    <3> QED BY <3>2 DEF q
  <2> QED BY <2>1, <2>4
<1>6. p = Len(l) + 1 \/ Reading(l)[p] = "plain"
  BY StopsAre
<1>7. RunSize(l, p) % 2 = 0
  <2>1. p - 1 \in i .. p - 1
    BY <1>1, <1>3
  <2>2. p - 1 \notin Stops(l)
    BY <1>2, <2>1
  <2>3. RunSize(l, p) = 0
    BY <1>1, <2>2, RunEmpty
  <2> QED BY <2>3
<1> QED BY <1>2, <1>4, <1>5, <1>6, <1>7 DEF Ready

(* Nothing is left to start.                                                 *)
LEMMA ReadyEnds ==
  ASSUME NEW l \in Seq(Chars), NEW n, Ready(l, Len(l) + 1, n)
  PROVE  TokenOf(l, n + 1).token = "EOF"
<1>1. Cardinality(StartsOf(l)) = n
  BY BelowEnds DEF Ready
<1> QED BY <1>1, TokenAtEnd

-----------------------------------------------------------------------------
(* What the builder holds of a word.                                         *)
LEMMA MappableEncodable == Mappable \subseteq Encodable /\ Chars \subseteq Encodable /\ End \in Encodable
BY DEF Mappable, Encodable

LEMMA SeqGrows ==
  ASSUME NEW S, NEW T, S \subseteq T, NEW s \in Seq(S)
  PROVE  s \in Seq(T)
<1>1. s = [i \in 1 .. Len(s) |-> s[i]] /\ Len(s) \in Nat /\ \A i \in 1 .. Len(s) : s[i] \in S
  OBVIOUS
<1>2. \A i \in 1 .. Len(s) : s[i] \in T
  BY <1>1
<1> QED BY <1>1, <1>2, IsASeq

BuiltTo(s, l, i, p) == Holds(s, Text(WordTo(l, i, p - i)))

LEMMA BuiltTyped ==
  ASSUME NEW l \in Seq(Chars), NEW i, NEW p, NEW n, InWord(l, i, p, n)
  PROVE  /\ WordTo(l, i, p - i) \in Seq(Encodable)
         /\ Text(WordTo(l, i, p - i)) \in Seq(Byte)
<1> DEFINE m == p - i
<1>1. i \in Nat \ {0} /\ m \in Nat /\ i + m <= Len(l) + 1
  BY InWordFacts DEF InWord
<1> HIDE DEF m
<1>2. WordTo(l, i, m) \in Seq(Encodable)
  BY <1>1, WordTyped, MappableEncodable, SeqGrows
<1>3. Text(WordTo(l, i, m)) \in Seq(Byte)
  BY <1>2, TextTyped
<1> QED BY <1>2, <1>3 DEF m

LEMMA BuiltMore ==
  ASSUME NEW l \in Seq(Chars), NEW i, NEW p, NEW n, InWord(l, i, p, n), p # Len(l) + 1
  PROVE  WordTo(l, i, (p + 1) - i) = WordTo(l, i, p - i) \o Meant(l[p], Reading(l)[p])
<1> DEFINE m == p - i
<1>1. i \in Nat \ {0} /\ m \in Nat /\ i + m <= Len(l) /\ i + m = p /\ (p + 1) - i = m + 1
  BY InWordFacts DEF InWord
<1> HIDE DEF m
<1>2. WordTo(l, i, m + 1) = WordTo(l, i, m) \o Meant(l[i + m], Reading(l)[i + m])
  BY <1>1, WordMore
<1> QED BY <1>1, <1>2 DEF m

(* A character that means nothing is stepped over, one that means something  *)
(* encoded.                                                                  *)
LEMMA NothingBuilt ==
  ASSUME NEW s, NEW l \in Seq(Chars), NEW i, NEW p, NEW n, InWord(l, i, p, n), p # Len(l) + 1,
         BuiltTo(s, l, i, p), Meant(l[p], Reading(l)[p]) = <<>>
  PROVE  BuiltTo(s, l, i, p + 1)
<1>1. WordTo(l, i, (p + 1) - i) = WordTo(l, i, p - i) \o <<>>
  BY BuiltMore
<1>2. WordTo(l, i, p - i) \o <<>> = WordTo(l, i, p - i)
  BY BuiltTyped, ConcatEmptySeq
<1> QED BY <1>1, <1>2 DEF BuiltTo

LEMMA CharBuilt ==
  ASSUME Sound(builder), NEW l \in Seq(Chars), NEW i, NEW p, NEW n, InWord(l, i, p, n),
         p # Len(l) + 1, BuiltTo(builder, l, i, p), NEW c \in Encodable,
         Meant(l[p], Reading(l)[p]) = <<c>>
  PROVE  BuiltTo(Encoded(c), l, i, p + 1)
<1> DEFINE w == WordTo(l, i, p - i)
<1>1. w \in Seq(Encodable) /\ Text(w) \in Seq(Byte) /\ Holds(builder, Text(w))
  BY BuiltTyped DEF BuiltTo
<1>2. WordTo(l, i, (p + 1) - i) = w \o <<c>>
  BY BuiltMore
<1> HIDE DEF w
<1>3. w \o <<c>> = Append(w, c)
  BY <1>1, AppendIsConcat
<1>4. Text(Append(w, c)) = Text(w) \o Utf8(c)
  BY <1>1, TextMore
<1>5. Holds(Encoded(c), Text(w) \o Utf8(c))
  BY <1>1, EncodedHolds
<1>6. Text(WordTo(l, i, (p + 1) - i)) = Text(w) \o Utf8(c)
  BY <1>2, <1>3, <1>4
<1> QED BY <1>5, <1>6 DEF BuiltTo

LEMMA NothingYet ==
  ASSUME NEW s, Sound(s), NEW l, NEW i \in Nat
  PROVE  BuiltTo(MemStreamReset(s), l, i, i)
<1>1. WordTo(l, i, 0) = <<>> /\ i - i = 0
  BY WordStart
<1>2. Text(WordTo(l, i, i - i)) = <<>>
  BY <1>1, TextEmpty
<1>3. MemStreamReset(s).offs = 0
  BY DEF MemStreamReset, Sound, Stream
<1>4. Len(<<>>) = 0
  OBVIOUS
<1>5. Holds(MemStreamReset(s), <<>>)
  BY <1>3, <1>4 DEF Holds
<1> QED BY <1>2, <1>5 DEF BuiltTo

(* The terminator, and the copy.                                             *)
LEMMA TextCopied ==
  ASSUME Sound(builder), Filled(builder), NEW l \in Seq(Chars), NEW i, NEW p, NEW n, InWord(l, i, p, n),
         BuiltTo(builder, l, i, p)
  PROVE  Contents(Encoded(End)) \in Seq(Byte) /\ IsText(Contents(Encoded(End)), WordTo(l, i, p - i))
<1> DEFINE w == WordTo(l, i, p - i)
           e == Encoded(End)
           t == Text(w) \o Utf8(End)
<1>1. w \in Seq(Encodable) /\ Text(w) \in Seq(Byte) /\ Holds(builder, Text(w))
  BY BuiltTyped DEF BuiltTo
<1>2. End \in Encodable
  BY MappableEncodable
<1> HIDE DEF w
<1>3. t \in Seq(Byte)
  BY <1>1, <1>2, Utf8Typed, ConcatProperties
<1>4. Holds(e, t)
  BY <1>1, <1>2, EncodedHolds
<1>5. Sound(e) /\ Filled(e)
  BY <1>2, EncodedSound, EncodedFilled
<1>6. FlattenSeq([k \in DOMAIN w |-> Utf8(w[k])] \o <<Utf8(End)>>) = t
  BY <1>1, TextEnds
<1> HIDE DEF e, t
<1>7. Contents(e) \in Seq(Byte) /\ IsPrefix(t, Contents(e))
  BY <1>3, <1>4, <1>5, HeldIsCopied
<1>8. IsText(Contents(e), w)
  BY <1>6, <1>7 DEF IsText
<1> QED BY <1>7, <1>8 DEF e, w

-----------------------------------------------------------------------------
(* The invariant: where the reader stands in the line read as a whole.       *)
Tokens == [token : TokenTypes, text : Seq(Byte)]

LastRight(l, found) ==
  LET last == found[Len(found)] expected == TokenOf(l, Len(found)) IN
  /\ last.token = expected.token
  /\ last.token = "ARG" => IsText(last.text, expected.text)

Built(l, p, s, n) == \E i : InWord(l, i, p, n) /\ BuiltTo(s, l, i, p)

ReadsAs(l, p, a, q, s, t, found) ==
  /\ found \in Seq(Tokens)
  /\ a = "next" => Ready(l, p, Len(found))
  /\ a \in {"arg", "quoted"} => Built(l, p, s, Len(found))
  /\ a = "arg" => p = Len(l) + 1 \/ Reading(l)[p] = "plain"
  /\ a = "quoted" => q \in {"\"", "'"} /\ (p = Len(l) + 1 \/ Reading(l)[p] = q)
  /\ a = "token" => LastRight(l, found) /\ (t # "EOF" => Ready(l, p, Len(found)))

AsRead == ReadsAs(psz, utf8.next - 1, at, quote, builder, token, read)

LEMMA DecoderAt ==
  ASSUME psz \in Seq(Chars), NEW u, Decoder(u), NEW p, p = u.next - 1
  PROVE  /\ Len(psz) \in Nat /\ p \in 1 .. Len(psz) + 1 /\ p \in Nat
         /\ u.codepoint = End <=> p = Len(psz) + 1
         /\ p # Len(psz) + 1 => /\ p \in 1 .. Len(psz) /\ u.codepoint = psz[p]
                                /\ NextChar(u).next - 1 = p + 1
         /\ p = Len(psz) + 1 => NextChar(u) = u
<1>1. Len(psz) \in Nat /\ u.next \in 2 .. Len(psz) + 2 /\ u.next = p + 1
  BY LenProperties DEF Decoder
<1>2. p \in 1 .. Len(psz) + 1 /\ p \in Nat
  BY <1>1
<1>3. CASE p = Len(psz) + 1
  <2>1. u.codepoint = End
    BY <1>1, <1>3 DEF Decoder
  <2> QED BY <1>1, <1>2, <1>3, <2>1 DEF NextChar
<1>4. CASE p # Len(psz) + 1
  <2>1. p \in 1 .. Len(psz) /\ u.codepoint = psz[p]
    BY <1>1, <1>4 DEF Decoder
  <2>2. u.codepoint # End
    BY <2>1, ElementOfSeq, LinesAssumption
  <2>3. NextChar(u).next = u.next + 1
    BY <2>2 DEF NextChar
  <2>4. NextChar(u).next - 1 = p + 1
    BY <1>1, <2>3
  <2> QED BY <1>1, <1>2, <1>4, <2>1, <2>2, <2>4
<1> QED BY <1>3, <1>4

LEMMA FoundMore ==
  ASSUME NEW found \in Seq(Tokens), NEW e \in Tokens
  PROVE  /\ Append(found, e) \in Seq(Tokens) /\ Len(Append(found, e)) = Len(found) + 1
         /\ Append(found, e)[Len(Append(found, e))] = e /\ Len(found) \in Nat
BY AppendProperties, LenProperties

LEMMA InitAsRead == Init => AsRead
<1> SUFFICES ASSUME Init PROVE AsRead
  OBVIOUS
<1>1. psz \in Seq(Chars)
  BY LinesAssumption DEF Init
<1>2. utf8.next = 2 /\ at = "next" /\ read = <<>>
  BY DEF Init, NextChar, Before, End
<1>3. utf8.next - 1 = 1
  BY <1>2
<1>4. Ready(psz, 1, 0)
  BY <1>1, ReadyStart
<1>5. read \in Seq(Tokens) /\ Len(read) = 0
  BY <1>2, EmptySeq
<1>6. Ready(psz, utf8.next - 1, Len(read))
  BY <1>3, <1>4, <1>5
<1> QED BY <1>2, <1>5, <1>6 DEF AsRead, ReadsAs

-----------------------------------------------------------------------------
(* Between words.                                                            *)
LEMMA SkipSpaceAsRead == ASSUME IInv, AsRead, SkipSpace PROVE AsRead'
<1> DEFINE p == utf8.next - 1
           n == Len(read)
<1>0. psz \in Seq(Chars) /\ Decoder(utf8)
  BY DEF IInv
<1>1. /\ at = "next" /\ utf8.codepoint \in Space /\ utf8' = NextChar(utf8)
      /\ psz' = psz /\ at' = at /\ read' = read
  BY DEF SkipSpace, Advance, Codepoint
<1>2. utf8.codepoint # End
  BY <1>1 DEF Space, End
<1>3. p # Len(psz) + 1 /\ psz[p] \in Space /\ utf8'.next - 1 = p + 1
  BY <1>0, <1>1, <1>2, DecoderAt
<1>4. Ready(psz, p, n) /\ read \in Seq(Tokens)
  BY <1>1 DEF AsRead, ReadsAs
<1> HIDE DEF p, n
<1>5. Ready(psz, p + 1, n)
  BY <1>0, <1>3, <1>4, ReadySpace
<1>6. Ready(psz', utf8'.next - 1, Len(read'))
  BY <1>1, <1>3, <1>5 DEF n
<1> QED BY <1>1, <1>4, <1>6 DEF AsRead, ReadsAs

(* A token found that the line has next.                                     *)
LEMMA FoundAsRead ==
  ASSUME AsRead, at = "next", NEW t \in TokenTypes, Found(t), t # "ARG",
         TokenOf(psz, Len(read) + 1).token = t,
         t = "EOF" \/ Ready(psz, utf8'.next - 1, Len(read) + 1)
  PROVE  AsRead'
<1> DEFINE e == [token |-> t, text |-> <<>>]
<1>1. at' = "token" /\ token' = t /\ psz' = psz /\ read' = Append(read, e) /\ read \in Seq(Tokens)
  BY DEF Found, AsRead, ReadsAs
<1>2. e \in Tokens /\ e.token = t
  BY EmptySeq DEF Tokens
<1> HIDE DEF e
<1>3. read' \in Seq(Tokens) /\ Len(read') = Len(read) + 1 /\ read'[Len(read')] = e
  BY <1>1, <1>2, FoundMore
<1>4. LastRight(psz, read')
  BY <1>2, <1>3 DEF LastRight
<1>5. t # "EOF" => Ready(psz, utf8'.next - 1, Len(read'))
  BY <1>3
<1> QED BY <1>1, <1>3, <1>4, <1>5 DEF AsRead, ReadsAs

LEMMA EndOfLineAsRead == ASSUME IInv, AsRead, EndOfLine PROVE AsRead'
<1>0. psz \in Seq(Chars) /\ Decoder(utf8)
  BY DEF IInv
<1>1. at = "next" /\ utf8.codepoint = End /\ Found("EOF")
  BY DEF EndOfLine, Codepoint
<1>2. utf8.next - 1 = Len(psz) + 1
  BY <1>0, <1>1, DecoderAt
<1>3. Ready(psz, Len(psz) + 1, Len(read))
  BY <1>1, <1>2 DEF AsRead, ReadsAs
<1>4. TokenOf(psz, Len(read) + 1).token = "EOF"
  BY <1>0, <1>3, ReadyEnds
<1> QED BY <1>1, <1>4, FoundAsRead DEF TokenTypes

LEMMA SingleAsRead ==
  ASSUME IInv, AsRead, NEW c \in {";", "(", ")"}, NEW t \in TokenTypes, Single(c, t),
         <<c, t>> \in {<<";", "SEMICOLON">>, <<"(", "OPENROUND">>, <<")", "CLOSEROUND">>}
  PROVE  AsRead'
<1> DEFINE p == utf8.next - 1
           n == Len(read)
<1>0. psz \in Seq(Chars) /\ Decoder(utf8)
  BY DEF IInv
<1>1. at = "next" /\ utf8.codepoint = c /\ utf8' = NextChar(utf8) /\ Found(t)
  BY DEF Single, Codepoint, Advance
<1>2. c # End /\ c \in Delimiters /\ c \notin {"&", "|"} /\ t # "ARG" /\ t # "EOF"
  BY DEF End, Delimiters
<1>3. p # Len(psz) + 1 /\ psz[p] = c /\ utf8'.next - 1 = p + 1
  BY <1>0, <1>1, <1>2, DecoderAt
<1>4. Ready(psz, p, n)
  BY <1>1 DEF AsRead, ReadsAs
<1> HIDE DEF p, n
<1>5. Ready(psz, p + 1, n + 1)
  BY <1>0, <1>2, <1>3, <1>4, ReadyOnce
<1>6. TokenOf(psz, n + 1).token = OperatorAt(psz, p)
  BY <1>0, <1>2, <1>3, <1>4, OperatorStarting
<1>7. OperatorAt(psz, p) = t
  BY <1>3 DEF OperatorAt
<1>8. TokenOf(psz, Len(read) + 1).token = t /\ Ready(psz, utf8'.next - 1, Len(read) + 1)
  BY <1>3, <1>5, <1>6, <1>7 DEF n
<1> QED BY <1>1, <1>2, <1>8, FoundAsRead

LEMMA DoubledAsRead ==
  ASSUME IInv, AsRead, NEW c \in {"&", "|"}, NEW once \in TokenTypes, NEW twice \in TokenTypes,
         Doubled(c, once, twice),
         <<c, once, twice>> \in {<<"&", "BG", "LOGICAL_AND">>, <<"|", "PIPE", "LOGICAL_OR">>}
  PROVE  AsRead'
<1> DEFINE p == utf8.next - 1
           n == Len(read)
           second == NextChar(utf8)
<1>0. psz \in Seq(Chars) /\ Decoder(utf8) /\ Decoder(second)
  BY DecoderAdvances DEF IInv
<1>1. /\ at = "next" /\ utf8.codepoint = c
      /\ \/ second.codepoint = c /\ utf8' = NextChar(second) /\ Found(twice)
         \/ second.codepoint # c /\ utf8' = second /\ Found(once)
  BY DEF Doubled, Codepoint
<1>2. c # End /\ c \in Delimiters /\ {once, twice} \cap {"ARG", "EOF"} = {}
  BY DEF End, Delimiters
<1>3. p # Len(psz) + 1 /\ psz[p] = c /\ second.next - 1 = p + 1 /\ p \in Nat /\ Len(psz) \in Nat
  BY <1>0, <1>1, <1>2, DecoderAt
<1>4. Ready(psz, p, n)
  BY <1>1 DEF AsRead, ReadsAs
<1> HIDE DEF p, n, second
<1>5. TokenOf(psz, n + 1).token = OperatorAt(psz, p) /\ p \in 1 .. Len(psz)
  BY <1>0, <1>2, <1>3, <1>4, OperatorStarting
<1> DEFINE q == p + 1
<1>q. q = p + 1 /\ q = second.next - 1 /\ (p < Len(psz) <=> q # Len(psz) + 1)
  BY <1>3, <1>5
<1> HIDE DEF q
<1>6. /\ second.codepoint = End <=> q = Len(psz) + 1
      /\ q # Len(psz) + 1 => second.codepoint = psz[q] /\ NextChar(second).next - 1 = q + 1
  BY <1>0, <1>q, DecoderAt
<1>7. CASE second.codepoint = c /\ utf8' = NextChar(second) /\ Found(twice)
  <2>1. q # Len(psz) + 1 /\ psz[q] = c /\ NextChar(second).next - 1 = q + 1
    BY <1>2, <1>6, <1>7
  <2>2. p # Len(psz) /\ p < Len(psz) /\ psz[p + 1] = psz[p]
    BY <1>3, <1>5, <1>q, <2>1
  <2>3. Ready(psz, p + 1 + 1, n + 1)
    BY <1>0, <1>3, <1>4, <2>2, ReadyTwice
  <2>4. OperatorAt(psz, p) = twice
    BY <1>3, <2>2 DEF OperatorAt
  <2>5. utf8'.next - 1 = p + 1 + 1
    BY <1>7, <1>q, <2>1
  <2>6. TokenOf(psz, Len(read) + 1).token = twice /\ Ready(psz, utf8'.next - 1, Len(read) + 1)
    BY <1>5, <2>3, <2>4, <2>5 DEF n
  <2>7. twice # "ARG" /\ Found(twice)
    BY <1>2, <1>7
  <2> QED BY <1>1, <2>6, <2>7, FoundAsRead
<1>8. CASE second.codepoint # c /\ utf8' = second /\ Found(once)
  <2>1. p = Len(psz) \/ psz[p + 1] # psz[p]
    BY <1>3, <1>5, <1>6, <1>8, <1>q
  <2>2. Ready(psz, p + 1, n + 1)
    BY <1>0, <1>2, <1>3, <1>4, <2>1, ReadyOnce
  <2>3. OperatorAt(psz, p) = once
    <3>1. ~ (p < Len(psz) /\ psz[p + 1] = psz[p])
      BY <1>3, <1>5, <2>1
    <3> QED BY <1>3, <3>1 DEF OperatorAt
  <2>4. TokenOf(psz, Len(read) + 1).token = once /\ Ready(psz, utf8'.next - 1, Len(read) + 1)
    BY <1>3, <1>5, <1>8, <2>2, <2>3 DEF n
  <2>5. once # "ARG" /\ Found(once)
    BY <1>2, <1>8
  <2> QED BY <1>1, <2>4, <2>5, FoundAsRead
<1> QED BY <1>1, <1>7, <1>8

LEMMA OperatorAsRead == ASSUME IInv, AsRead, Operator PROVE AsRead'
<1>1. {"SEMICOLON", "OPENROUND", "CLOSEROUND", "BG", "LOGICAL_AND", "PIPE", "LOGICAL_OR"} \subseteq TokenTypes
  BY DEF TokenTypes
<1>2. CASE Single(";", "SEMICOLON")
  BY <1>1, <1>2, SingleAsRead
<1>3. CASE Single("(", "OPENROUND")
  BY <1>1, <1>3, SingleAsRead
<1>4. CASE Single(")", "CLOSEROUND")
  BY <1>1, <1>4, SingleAsRead
<1>5. CASE Doubled("&", "BG", "LOGICAL_AND")
  BY <1>1, <1>5, DoubledAsRead
<1>6. CASE Doubled("|", "PIPE", "LOGICAL_OR")
  BY <1>1, <1>6, DoubledAsRead
<1> QED BY <1>2, <1>3, <1>4, <1>5, <1>6 DEF Operator

LEMMA CallAsRead == ASSUME AsRead, Call PROVE AsRead'
<1>1. /\ at = "token" /\ token # "EOF" /\ at' = "next"
      /\ psz' = psz /\ utf8' = utf8 /\ read' = read
  BY DEF Call
<1>2. Ready(psz, utf8.next - 1, Len(read)) /\ read \in Seq(Tokens)
  BY <1>1 DEF AsRead, ReadsAs
<1> QED BY <1>1, <1>2 DEF AsRead, ReadsAs

-----------------------------------------------------------------------------
(* Inside words.                                                             *)
LEMMA StartArgAsRead == ASSUME IInv, AsRead, StartArg PROVE AsRead'
<1> DEFINE p == utf8.next - 1
           n == Len(read)
<1>0. psz \in Seq(Chars) /\ Decoder(utf8)
  BY DEF IInv
<1>1. /\ at = "next" /\ utf8.codepoint \notin Space \cup Delimiters \cup {End}
      /\ builder' = MemStreamReset(builder) /\ at' = "arg"
      /\ psz' = psz /\ utf8' = utf8 /\ read' = read
  BY DEF StartArg, Codepoint
<1>2. p # Len(psz) + 1 /\ psz[p] \notin Space \cup Delimiters /\ p \in Nat
  BY <1>0, <1>1, DecoderAt
<1>3. Ready(psz, p, n) /\ read \in Seq(Tokens)
  BY <1>1 DEF AsRead, ReadsAs
<1>4. Sound(builder)
  BY <1>1 DEF IInv
<1>5. utf8'.next - 1 = p /\ Len(read') = n
  BY <1>1
<1> HIDE DEF p, n
<1>6. InWord(psz, p, p, n) /\ Reading(psz)[p] = "plain"
  BY <1>0, <1>2, <1>3, WordStarting
<1>7. BuiltTo(builder', psz, p, p)
  BY <1>1, <1>2, <1>4, NothingYet
<1>8. Built(psz, p, builder', n)
  BY <1>6, <1>7 DEF Built
<1> QED BY <1>1, <1>3, <1>5, <1>6, <1>8 DEF AsRead, ReadsAs

LEMMA InsideWord ==
  ASSUME IInv, AsRead, at \in {"arg", "quoted"}, NEW p, p = utf8.next - 1, NEW n, n = Len(read)
  PROVE  /\ psz \in Seq(Chars) /\ Decoder(utf8) /\ Sound(builder) /\ read \in Seq(Tokens)
         /\ Built(psz, p, builder, n)
         /\ at = "arg" => p = Len(psz) + 1 \/ Reading(psz)[p] = "plain"
         /\ at = "quoted" => quote \in {"\"", "'"} /\ (p = Len(psz) + 1 \/ Reading(psz)[p] = quote)
<1>1. psz \in Seq(Chars) /\ Decoder(utf8) /\ Sound(builder)
  BY DEF IInv
<1> QED BY <1>1 DEF AsRead, ReadsAs

(* A character that is part of the word and means nothing, and one that is   *)
(* encoded: read as at p, read on as at p + 1.                               *)
LEMMA SteppedOver ==
  ASSUME psz \in Seq(Chars), NEW p \in 1 .. Len(psz), NEW n, NEW s, Built(psz, p, s, n),
         p \notin Stops(psz), Meant(psz[p], Reading(psz)[p]) = <<>>
  PROVE  Built(psz, p + 1, s, n)
<1>1. PICK i : InWord(psz, i, p, n) /\ BuiltTo(s, psz, i, p)
  BY DEF Built
<1>2. p # Len(psz) + 1
  BY LenProperties
<1>3. InWord(psz, i, p + 1, n)
  BY <1>1, <1>2, WordGoesOn
<1>4. BuiltTo(s, psz, i, p + 1)
  BY <1>1, <1>2, NothingBuilt
<1> QED BY <1>3, <1>4 DEF Built

LEMMA WrittenDown ==
  ASSUME Sound(builder), psz \in Seq(Chars), NEW p \in 1 .. Len(psz), NEW n,
         Built(psz, p, builder, n), p \notin Stops(psz), NEW c \in Encodable,
         Meant(psz[p], Reading(psz)[p]) = <<c>>
  PROVE  Built(psz, p + 1, Encoded(c), n)
<1>1. PICK i : InWord(psz, i, p, n) /\ BuiltTo(builder, psz, i, p)
  BY DEF Built
<1>2. p # Len(psz) + 1
  BY LenProperties
<1>3. InWord(psz, i, p + 1, n)
  BY <1>1, <1>2, WordGoesOn
<1>4. BuiltTo(Encoded(c), psz, i, p + 1)
  BY <1>1, <1>2, CharBuilt
<1> QED BY <1>3, <1>4 DEF Built

LEMMA PlainCharAsRead == ASSUME IInv, AsRead, PlainChar PROVE AsRead'
<1> DEFINE p == utf8.next - 1
           n == Len(read)
           c == utf8.codepoint
<1>1. /\ at = "arg" /\ c \notin Space \cup Delimiters \cup {End, "\\", "\"", "'"}
      /\ builder' = Encoded(Mapped(c)) /\ utf8' = NextChar(utf8)
      /\ psz' = psz /\ at' = "arg" /\ read' = read
  BY DEF PlainChar, Codepoint, Advance
<1>2. /\ psz \in Seq(Chars) /\ Decoder(utf8) /\ Sound(builder) /\ read \in Seq(Tokens)
      /\ Built(psz, p, builder, n)
      /\ p = Len(psz) + 1 \/ Reading(psz)[p] = "plain"
  BY <1>1, InsideWord
<1>3. /\ p # Len(psz) + 1 /\ p \in 1 .. Len(psz) /\ psz[p] = c /\ utf8'.next - 1 = p + 1
  BY <1>1, <1>2, DecoderAt
<1>4. Len(read') = n
  BY <1>1
<1> HIDE DEF p, n, c
<1>5. Reading(psz)[p] = "plain" /\ p \notin Stops(psz)
  BY <1>1, <1>2, <1>3, StopsAre
<1>6. Meant(psz[p], Reading(psz)[p]) = <<Mapped(c)>>
  BY <1>1, <1>3, <1>5 DEF Meant
<1>7. Mapped(c) \in Encodable
  <2>1. c \in Chars
    BY <1>2, <1>3, ElementOfSeq
  <2> QED BY <2>1 DEF Mapped, Encodable
<1>8. Built(psz, p + 1, builder', n)
  BY <1>1, <1>2, <1>3, <1>5, <1>6, <1>7, WrittenDown
<1>9. Reading(psz)[p + 1] = "plain"
  <2>1. Reading(psz)[p + 1] = ReadAfter(Reading(psz)[p], psz[p])
    BY <1>2, <1>3, LineRead
  <2> QED BY <1>1, <1>3, <1>5, <2>1 DEF ReadAfter
<1> QED BY <1>1, <1>2, <1>3, <1>4, <1>8, <1>9 DEF AsRead, ReadsAs

LEMMA EscapedCharAsRead == ASSUME IInv, AsRead, EscapedChar PROVE AsRead'
<1> DEFINE p == utf8.next - 1
           n == Len(read)
           escaped == NextChar(utf8)
<1>1. /\ at = "arg" /\ utf8.codepoint = "\\"
      /\ IF escaped.codepoint = End
         THEN utf8' = escaped /\ builder' = builder
         ELSE utf8' = NextChar(escaped) /\ builder' = Encoded(escaped.codepoint)
      /\ psz' = psz /\ at' = "arg" /\ read' = read
  BY DEF EscapedChar, Codepoint
<1>2. /\ psz \in Seq(Chars) /\ Decoder(utf8) /\ Sound(builder) /\ read \in Seq(Tokens)
      /\ Built(psz, p, builder, n)
      /\ p = Len(psz) + 1 \/ Reading(psz)[p] = "plain"
  BY <1>1, InsideWord
<1>3. "\\" # End /\ "\\" \notin Space \cup Delimiters
  BY DEF End, Space, Delimiters
<1>4. p # Len(psz) + 1 /\ p \in 1 .. Len(psz) /\ psz[p] = "\\" /\ escaped.next - 1 = p + 1
  BY <1>1, <1>2, <1>3, DecoderAt
<1>5. Len(read') = n /\ Decoder(escaped)
  BY <1>1, <1>2, DecoderAdvances
<1> HIDE DEF p, n, escaped
<1>6. Reading(psz)[p] = "plain" /\ p \notin Stops(psz)
  BY <1>2, <1>3, <1>4, StopsAre
<1>7. Meant(psz[p], Reading(psz)[p]) = <<>>
  BY <1>4, <1>6 DEF Meant
<1> DEFINE q == p + 1
<1>8. Built(psz, q, builder, n)
  BY <1>2, <1>4, <1>6, <1>7, SteppedOver
<1>9. Reading(psz)[q] = "escaped"
  <2>1. Reading(psz)[p + 1] = ReadAfter(Reading(psz)[p], psz[p])
    BY <1>2, <1>4, LineRead
  <2> QED BY <1>4, <1>6, <2>1 DEF ReadAfter
<1>10. q = escaped.next - 1
  BY <1>4
<1> HIDE DEF q
<1>11. /\ escaped.codepoint = End <=> q = Len(psz) + 1
       /\ q # Len(psz) + 1 => /\ q \in 1 .. Len(psz) /\ escaped.codepoint = psz[q]
                              /\ NextChar(escaped).next - 1 = q + 1
  BY <1>2, <1>5, <1>10, DecoderAt
<1>12. CASE escaped.codepoint = End
  <2>1. utf8'.next - 1 = Len(psz) + 1 /\ builder' = builder
    BY <1>1, <1>10, <1>11, <1>12
  <2>2. Built(psz, utf8'.next - 1, builder', n)
    BY <1>8, <1>11, <1>12, <2>1
  <2> QED BY <1>1, <1>2, <1>5, <2>1, <2>2 DEF AsRead, ReadsAs
<1>13. CASE escaped.codepoint # End
  <2> DEFINE c == escaped.codepoint
  <2>1. q \in 1 .. Len(psz) /\ c = psz[q] /\ utf8'.next - 1 = q + 1 /\ builder' = Encoded(c)
    BY <1>1, <1>11, <1>13
  <2>2. c \in Encodable
    BY <1>2, <2>1, ElementOfSeq, MappableEncodable
  <2> HIDE DEF c
  <2>3. q \notin Stops(psz)
    BY <1>2, <1>9, StopsAre
  <2>4. Meant(psz[q], Reading(psz)[q]) = <<c>>
    BY <1>9, <2>1 DEF Meant
  <2>5. Built(psz, q + 1, builder', n)
    BY <1>2, <1>8, <2>1, <2>2, <2>3, <2>4, WrittenDown
  <2>6. Reading(psz)[q + 1] = "plain"
    <3>1. Reading(psz)[q + 1] = ReadAfter(Reading(psz)[q], psz[q])
      BY <1>2, <2>1, LineRead
    <3> QED BY <1>9, <3>1 DEF ReadAfter
  <2> QED BY <1>1, <1>2, <1>5, <2>1, <2>5, <2>6 DEF AsRead, ReadsAs
<1> QED BY <1>12, <1>13

LEMMA OpenQuoteAsRead == ASSUME IInv, AsRead, OpenQuote PROVE AsRead'
<1> DEFINE p == utf8.next - 1
           n == Len(read)
           c == utf8.codepoint
<1>1. /\ at = "arg" /\ c \in {"\"", "'"} /\ quote' = c /\ utf8' = NextChar(utf8)
      /\ builder' = builder /\ psz' = psz /\ at' = "quoted" /\ read' = read
  BY DEF OpenQuote, Codepoint, Advance
<1>2. /\ psz \in Seq(Chars) /\ Decoder(utf8) /\ Sound(builder) /\ read \in Seq(Tokens)
      /\ Built(psz, p, builder, n)
      /\ p = Len(psz) + 1 \/ Reading(psz)[p] = "plain"
  BY <1>1, InsideWord
<1>3. c # End /\ c \notin Space \cup Delimiters
  BY <1>1 DEF End, Space, Delimiters
<1>4. p # Len(psz) + 1 /\ p \in 1 .. Len(psz) /\ psz[p] = c /\ utf8'.next - 1 = p + 1
  BY <1>1, <1>2, <1>3, DecoderAt
<1>5. Len(read') = n
  BY <1>1
<1> HIDE DEF p, n, c
<1>6. Reading(psz)[p] = "plain" /\ p \notin Stops(psz)
  BY <1>2, <1>3, <1>4, StopsAre
<1>7. Meant(psz[p], Reading(psz)[p]) = <<>>
  BY <1>1, <1>4, <1>6 DEF Meant
<1>8. Built(psz, p + 1, builder', n)
  BY <1>1, <1>2, <1>4, <1>6, <1>7, SteppedOver
<1>9. Reading(psz)[p + 1] = quote'
  <2>1. Reading(psz)[p + 1] = ReadAfter(Reading(psz)[p], psz[p])
    BY <1>2, <1>4, LineRead
  <2>2. ReadAfter("plain", c) = c
    BY <1>1 DEF ReadAfter
  <2> QED BY <1>1, <1>4, <1>6, <2>1, <2>2
<1> QED BY <1>1, <1>2, <1>4, <1>5, <1>8, <1>9 DEF AsRead, ReadsAs

LEMMA QuotedCharAsRead == ASSUME IInv, AsRead, QuotedChar PROVE AsRead'
<1> DEFINE p == utf8.next - 1
           n == Len(read)
           c == utf8.codepoint
<1>1. /\ at = "quoted" /\ c \notin {quote, End} /\ builder' = Encoded(c)
      /\ utf8' = NextChar(utf8) /\ quote' = quote /\ psz' = psz /\ at' = "quoted" /\ read' = read
  BY DEF QuotedChar, Codepoint, Advance
<1>2. /\ psz \in Seq(Chars) /\ Decoder(utf8) /\ Sound(builder) /\ read \in Seq(Tokens)
      /\ Built(psz, p, builder, n) /\ quote \in {"\"", "'"}
      /\ p = Len(psz) + 1 \/ Reading(psz)[p] = quote
  BY <1>1, InsideWord
<1>3. p # Len(psz) + 1 /\ p \in 1 .. Len(psz) /\ psz[p] = c /\ utf8'.next - 1 = p + 1
  BY <1>1, <1>2, DecoderAt
<1>4. Len(read') = n
  BY <1>1
<1> HIDE DEF p, n, c
<1>5. Reading(psz)[p] = quote /\ p \notin Stops(psz)
  BY <1>2, <1>3, StopsAre
<1>6. Meant(psz[p], Reading(psz)[p]) = <<c>>
  BY <1>1, <1>2, <1>3, <1>5 DEF Meant
<1>7. c \in Encodable
  BY <1>2, <1>3, ElementOfSeq, MappableEncodable
<1>8. Built(psz, p + 1, builder', n)
  BY <1>1, <1>2, <1>3, <1>5, <1>6, <1>7, WrittenDown
<1>9. Reading(psz)[p + 1] = quote'
  <2>1. Reading(psz)[p + 1] = ReadAfter(Reading(psz)[p], psz[p])
    BY <1>2, <1>3, LineRead
  <2>2. ReadAfter(quote, c) = quote
    BY <1>1, <1>2 DEF ReadAfter
  <2> QED BY <1>1, <1>3, <1>5, <2>1, <2>2
<1> QED BY <1>1, <1>2, <1>3, <1>4, <1>8, <1>9 DEF AsRead, ReadsAs

LEMMA CloseQuoteAsRead == ASSUME IInv, AsRead, CloseQuote PROVE AsRead'
<1> DEFINE p == utf8.next - 1
           n == Len(read)
           c == utf8.codepoint
<1>1. /\ at = "quoted" /\ c \in {quote, End} /\ builder' = builder
      /\ utf8' = NextChar(utf8) /\ psz' = psz /\ at' = "arg" /\ read' = read
  BY DEF CloseQuote, Codepoint, Advance
<1>2. /\ psz \in Seq(Chars) /\ Decoder(utf8) /\ Sound(builder) /\ read \in Seq(Tokens)
      /\ Built(psz, p, builder, n) /\ quote \in {"\"", "'"}
      /\ p = Len(psz) + 1 \/ Reading(psz)[p] = quote
  BY <1>1, InsideWord
<1>3. /\ p # Len(psz) + 1 => p \in 1 .. Len(psz) /\ psz[p] = c /\ utf8'.next - 1 = p + 1 /\ c # End
      /\ p = Len(psz) + 1 => utf8' = utf8
  BY <1>1, <1>2, DecoderAt
<1>4. Len(read') = n
  BY <1>1
<1>5. CASE p = Len(psz) + 1
  <2>1. utf8'.next - 1 = p
    BY <1>3, <1>5
  <2> HIDE DEF p, n, c
  <2> QED BY <1>1, <1>2, <1>4, <1>5, <2>1 DEF AsRead, ReadsAs
<1>6. CASE p # Len(psz) + 1
  <2> HIDE DEF p, n, c
  <2>1. p \in 1 .. Len(psz) /\ psz[p] = quote /\ utf8'.next - 1 = p + 1
    BY <1>1, <1>3, <1>6
  <2>2. Reading(psz)[p] = quote /\ p \notin Stops(psz)
    BY <1>2, <1>6, StopsAre
  <2>3. Meant(psz[p], Reading(psz)[p]) = <<>>
    BY <1>2, <2>1, <2>2 DEF Meant
  <2>4. Built(psz, p + 1, builder', n)
    BY <1>1, <1>2, <2>1, <2>2, <2>3, SteppedOver
  <2>5. Reading(psz)[p + 1] = "plain"
    <3>1. Reading(psz)[p + 1] = ReadAfter(Reading(psz)[p], psz[p])
      BY <1>2, <2>1, LineRead
    <3>2. ReadAfter(quote, quote) = "plain"
      BY <1>2 DEF ReadAfter
    <3> QED BY <2>1, <2>2, <3>1, <3>2
  <2> QED BY <1>1, <1>2, <1>4, <2>1, <2>4, <2>5 DEF AsRead, ReadsAs
<1> QED BY <1>5, <1>6

LEMMA EndArgAsRead == ASSUME IInv, Typed, AsRead, EndArg PROVE AsRead'
<1> DEFINE p == utf8.next - 1
           n == Len(read)
           text == Contents(Encoded(End))
           e == [token |-> "ARG", text |-> text]
<1>1. /\ at = "arg" /\ utf8.codepoint \in Space \cup Delimiters \cup {End}
      /\ read' = Append(read, e) /\ token' = "ARG" /\ at' = "token" /\ psz' = psz /\ utf8' = utf8
  BY DEF EndArg, Codepoint
<1>2. /\ psz \in Seq(Chars) /\ Decoder(utf8) /\ Sound(builder) /\ read \in Seq(Tokens)
      /\ Built(psz, p, builder, n)
      /\ p = Len(psz) + 1 \/ Reading(psz)[p] = "plain"
  BY <1>1, InsideWord
<1>3. Filled(builder)
  BY <1>1 DEF Typed
<1>4. p # Len(psz) + 1 => p \in 1 .. Len(psz) /\ utf8.codepoint = psz[p] /\ utf8.codepoint # End
  BY <1>2, DecoderAt
<1>5. utf8'.next - 1 = p
  BY <1>1
<1> HIDE DEF p, n
<1>6. p = Len(psz) + 1 \/ p \in Stops(psz)
  BY <1>1, <1>2, <1>4, StopsAre
<1>7. PICK i : InWord(psz, i, p, n) /\ BuiltTo(builder, psz, i, p)
  BY <1>2 DEF Built
<1>8. Ready(psz, p, n + 1) /\ TokenOf(psz, n + 1) = [token |-> "ARG", text |-> WordTo(psz, i, p - i)]
  BY <1>2, <1>6, <1>7, WordEnding
<1>9. text \in Seq(Byte) /\ IsText(text, WordTo(psz, i, p - i))
  BY <1>2, <1>3, <1>7, TextCopied
<1> HIDE DEF text
<1>10. e \in Tokens /\ e.token = "ARG" /\ e.text = text
  BY <1>9 DEF Tokens, TokenTypes
<1> HIDE DEF e
<1>11. read' \in Seq(Tokens) /\ Len(read') = n + 1 /\ read'[Len(read')] = e
  BY <1>1, <1>2, <1>10, FoundMore DEF n
<1>12. LastRight(psz, read')
  <2>1. read'[Len(read')].token = "ARG" /\ read'[Len(read')].text = text
    BY <1>10, <1>11
  <2>2. TokenOf(psz, Len(read')) = [token |-> "ARG", text |-> WordTo(psz, i, p - i)]
    BY <1>8, <1>11
  <2> QED BY <1>9, <2>1, <2>2 DEF LastRight
<1> QED BY <1>1, <1>5, <1>8, <1>11, <1>12 DEF AsRead, ReadsAs

-----------------------------------------------------------------------------
LEMMA NextAsRead == IInv /\ Typed /\ AsRead /\ [Next]_vars => AsRead'
<1> SUFFICES ASSUME IInv, Typed, AsRead, [Next]_vars PROVE AsRead'
  OBVIOUS
<1>1. CASE SkipSpace
  BY <1>1, SkipSpaceAsRead
<1>2. CASE EndOfLine
  BY <1>2, EndOfLineAsRead
<1>3. CASE Operator
  BY <1>3, OperatorAsRead
<1>4. CASE ParseArg
  BY <1>4, StartArgAsRead, PlainCharAsRead, EscapedCharAsRead, OpenQuoteAsRead, QuotedCharAsRead,
     CloseQuoteAsRead, EndArgAsRead DEF ParseArg
<1>5. CASE Call
  BY <1>5, CallAsRead
<1>6. CASE Close
  BY <1>6 DEF Close, AsRead, ReadsAs
<1>7. CASE UNCHANGED vars
  BY <1>7 DEF vars, AsRead, ReadsAs
<1> QED BY <1>1, <1>2, <1>3, <1>4, <1>5, <1>6, <1>7 DEF Next, Step

(* Every token that tokenizer_next finds, a character ahead and in a buffer  *)
(* that moves as it grows, is the next one of the line read as a whole: with *)
(* its type, and with its text as one terminated string.  For all lines, of  *)
(* any characters in any quoting.                                            *)
THEOREM TokenizerReads == Spec => []TokensAsRead
<1>1. AsRead => TokensAsRead
  BY DEF AsRead, ReadsAs, LastRight, TokensAsRead
<1> QED BY <1>1, InitIInv, NextIInv, InitTyped, NextTyped, InitAsRead, NextAsRead, PTL DEF Spec
=============================================================================
