------------------------------ MODULE MemStream ------------------------------
(* src/src/memstream.c: a block of memory that grows as it is written to.    *)
(* What the shell uses of it: streams that own their block and are written   *)
(* at their end, reset and closed.  realloc does not fail here: what the     *)
(* callers do with a NULL is undefined.                                      *)
EXTENDS Integers, Sequences

CONSTANT GrowthLimit   \* 0x10000: a smaller block doubles, others grow by it

ASSUME GrowthAssumption == GrowthLimit \in Nat \ {0}

(* A byte that nothing was written to.                                       *)
Junk == <<"junk", 0>>

(* The bytes of a block are a function, so that one that is written behind   *)
(* the end of the block shows.                                               *)
MemStreamNew(size) ==
  [owned |-> TRUE, cb |-> size, offs |-> 0, length |-> 0,
   mem |-> [i \in 0 .. size - 1 |-> Junk]]

MemStreamReset(s) == [s EXCEPT !.offs = 0, !.length = 0]

MemStreamClose(s) == [s EXCEPT !.owned = FALSE, !.cb = 0, !.mem = <<>>]

Grown(s, n) ==
  LET newSize == IF s.cb < GrowthLimit THEN s.cb * 2 ELSE s.cb + GrowthLimit
  IN IF s.offs + n > newSize THEN s.offs + n ELSE newSize

(* realloc: what was in the block stays, the rest is not initialised.        *)
Resized(s, size) ==
  [s EXCEPT !.cb = size,
            !.mem = [i \in 0 .. size - 1 |-> IF i < s.cb THEN s.mem[i] ELSE Junk]]

WithRoom(s, n) == IF s.offs + n > s.cb THEN Resized(s, Grown(s, n)) ELSE s

(* The bytes from the position on are the caller's to write, and part of the *)
(* stream, written or not.                                                   *)
MemStreamReserve(s, n) ==
  [WithRoom(s, n) EXCEPT !.length = IF s.offs + n > @ THEN s.offs + n ELSE @]

MemStreamAlloc(s, n) == [MemStreamReserve(s, n) EXCEPT !.offs = @ + n]

(* What a caller writes to the pointer it was given.                         *)
Poked(s, bytes) ==
  LET written == s.offs .. s.offs + Len(bytes) - 1 IN
  [s EXCEPT !.mem = [i \in DOMAIN s.mem \cup written |->
                       IF i \in written THEN bytes[i - s.offs + 1] ELSE s.mem[i]]]

(* The bytes of the stream, as the callers copy them.                        *)
Contents(s) == [i \in 1 .. s.length |-> s.mem[i - 1]]

(* The position and the length lie in the block, and nothing was written     *)
(* behind it.                                                                *)
StreamInBounds(s) ==
  /\ s.offs \in 0 .. s.length
  /\ s.length \in 0 .. s.cb
  /\ DOMAIN s.mem = 0 .. s.cb - 1
=============================================================================
