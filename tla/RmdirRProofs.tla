---------------------------- MODULE RmdirRProofs ----------------------------
(* f_rmdir_r stays inside its argument: whatever the trees, however many     *)
(* entries the table of open objects has, whatever the medium and the host   *)
(* do, no path outside the subtree is touched, and the volume loses one leaf *)
(* at a time.  And it keeps its books: each active call finds its own path   *)
(* in the one buffer, and the table of open objects holds exactly the host's *)
(* files and the directories that the active calls believe to be open; from  *)
(* this follows what stops it.                                               *)
EXTENDS RmdirR, FatFsFacts, FiniteSetTheorems

-----------------------------------------------------------------------------
(* The stack of calls.  All but the innermost wait for the call they made;   *)
(* the lengths they recorded lie between the length of the outermost         *)
(* argument and that of the buffer, and grow inwards.                        *)
Waiting == {"child", "retry"}

Nested(st, base, len) ==
  \A i \in DOMAIN st :
    /\ i # Len(st) => st[i].at \in Waiting
    /\ st[i].at # "open" => base <= st[i].pszEnd /\ st[i].pszEnd <= len
    /\ \A j \in DOMAIN st : i < j /\ st[j].at # "open" => st[i].pszEnd <= st[j].pszEnd

LEMMA FrameLength == \A fr \in Frame : fr.pszEnd \in Nat
BY DEF Frame

(* The innermost call returns, and the buffer is as long as before or as     *)
(* long as that call found it.                                               *)
LEMMA NestedFront ==
  ASSUME NEW st \in Seq(Frame), st # <<>>, NEW base \in Nat, NEW len \in Nat,
         Nested(st, base, len),
         NEW new \in Nat, new = len \/ (Last(st).at # "open" /\ new = Last(st).pszEnd)
  PROVE  Front(st) \in Seq(Frame) /\ Nested(Front(st), base, new)
<1>1. Len(st) \in Nat /\ Len(st) >= 1 /\ DOMAIN st = 1 .. Len(st)
  BY EmptySeq, LenProperties
<1>2. /\ Front(st) \in Seq(Frame) /\ Len(Front(st)) = Len(st) - 1
      /\ \A i \in 1 .. Len(st) - 1 : Front(st)[i] = st[i]
  BY FrontFacts
<1>3. DOMAIN Front(st) = 1 .. Len(st) - 1
  BY <1>2, LenProperties
<1>4. ASSUME NEW i \in 1 .. Len(st) - 1
      PROVE  st[i].at \in Waiting /\ base <= st[i].pszEnd /\ st[i].pszEnd <= new
  <2>1. i \in DOMAIN st /\ i < Len(st) /\ Len(st) \in DOMAIN st
    BY <1>1
  <2>2. st[i].at \in Waiting /\ base <= st[i].pszEnd /\ st[i].pszEnd <= len
    BY <2>1, <1>1 DEF Nested, Waiting
  <2>3. Last(st).at # "open" => st[i].pszEnd <= Last(st).pszEnd
    BY <2>1 DEF Nested, Last
  <2> QED BY <2>2, <2>3
<1>5. \A i, j \in 1 .. Len(st) - 1 : i < j => st[i].pszEnd <= st[j].pszEnd
  BY <1>1, <1>4 DEF Nested, Waiting
<1> DEFINE u == Front(st)
<1>6. /\ u \in Seq(Frame) /\ DOMAIN u = 1 .. Len(st) - 1
      /\ \A i \in 1 .. Len(st) - 1 : u[i] = st[i]
  BY <1>2, <1>3
<1> HIDE DEF u
<1>7. ASSUME NEW i \in DOMAIN u
      PROVE  /\ u[i].at \in Waiting /\ base <= u[i].pszEnd /\ u[i].pszEnd <= new
             /\ \A j \in DOMAIN u : i < j => u[i].pszEnd <= u[j].pszEnd
  BY <1>4, <1>5, <1>6
<1>8. Nested(u, base, new)
  BY <1>7 DEF Nested
<1> QED BY <1>6, <1>8 DEF u

(* The innermost call goes on; it may open its directory, at a length that   *)
(* no other call's exceeds.                                                  *)
LEMMA NestedSetTop ==
  ASSUME NEW st \in Seq(Frame), st # <<>>, NEW base \in Nat, NEW len \in Nat,
         Nested(st, base, len),
         NEW fr \in Frame, fr.at # "open", NEW new \in Nat,
         base <= fr.pszEnd, fr.pszEnd <= new,
         \A i \in 1 .. Len(st) - 1 : st[i].pszEnd <= fr.pszEnd
  PROVE  /\ [st EXCEPT ![Len(st)] = fr] \in Seq(Frame)
         /\ Len([st EXCEPT ![Len(st)] = fr]) = Len(st)
         /\ [st EXCEPT ![Len(st)] = fr][Len(st)] = fr
         /\ Nested([st EXCEPT ![Len(st)] = fr], base, new)
<1> DEFINE st2 == [st EXCEPT ![Len(st)] = fr]
<1>1. Len(st) \in Nat /\ Len(st) >= 1 /\ DOMAIN st = 1 .. Len(st)
  BY EmptySeq, LenProperties
<1>2. /\ st2 \in Seq(Frame) /\ Len(st2) = Len(st)
      /\ st2[Len(st)] = fr
      /\ \A j \in 1 .. Len(st) - 1 : st2[j] = st[j]
  <2>1. Len(st) \in DOMAIN st /\ Len(st) \in 1 .. Len(st)
    BY <1>1
  <2>2. st2 \in Seq(Frame) /\ Len(st2) = Len(st)
    BY <2>1, ExceptSeq
  <2>3. st2[Len(st)] = fr
    BY <2>1
  <2>4. ASSUME NEW j \in 1 .. Len(st) - 1 PROVE st2[j] = st[j]
    <3>1. j \in DOMAIN st /\ j # Len(st)
      BY LenProperties
    <3> QED BY <3>1
  <2> HIDE DEF st2
  <2> QED BY <2>2, <2>3, <2>4
<1> HIDE DEF st2
<1>3. DOMAIN st2 = 1 .. Len(st)
  BY <1>2, LenProperties
<1>4. fr.pszEnd \in Nat /\ \A i \in 1 .. Len(st) : st[i].pszEnd \in Nat
  BY <1>1, ElementOfSeq, FrameLength
<1>5. ASSUME NEW i \in 1 .. Len(st) - 1
      PROVE  st[i].at \in Waiting /\ base <= st[i].pszEnd /\ st[i].pszEnd <= fr.pszEnd
  BY <1>1 DEF Nested, Waiting
<1>6. ASSUME NEW i \in 1 .. Len(st) - 1, NEW j \in 1 .. Len(st) - 1, i < j
      PROVE  st[i].pszEnd <= st[j].pszEnd
  <2>1. i \in DOMAIN st /\ j \in DOMAIN st
    BY <1>1
  <2>2. st[j].at # "open"
    BY <1>5 DEF Waiting
  <2> QED BY <2>1, <2>2, <1>6 DEF Nested
<1>7. Nested(st2, base, new)
  <2>1. ASSUME NEW i \in DOMAIN st2
        PROVE  /\ i # Len(st2) => st2[i].at \in Waiting
               /\ base <= st2[i].pszEnd /\ st2[i].pszEnd <= fr.pszEnd
    <3>1. CASE i = Len(st)
      BY <3>1, <1>1, <1>2, <1>4
    <3>2. CASE i \in 1 .. Len(st) - 1
      <4>1. st2[i] = st[i]
        BY <3>2, <1>1, <1>2
      <4> QED BY <4>1, <3>2, <1>5
    <3>3. i = Len(st) \/ i \in 1 .. Len(st) - 1
      BY <1>1, <1>3
    <3> QED BY <3>1, <3>2, <3>3
  <2>2. ASSUME NEW i \in DOMAIN st2, NEW j \in DOMAIN st2, i < j
        PROVE  st2[i].pszEnd <= st2[j].pszEnd
    <3>1. i \in 1 .. Len(st) - 1
      BY <2>2, <1>1, <1>3
    <3>2. st2[i] = st[i]
      BY <3>1, <1>1, <1>2
    <3>3. CASE j = Len(st)
      <4>1. st2[j] = fr
        BY <3>3, <1>1, <1>2
      <4> QED BY <4>1, <3>1, <3>2, <1>5
    <3>4. CASE j \in 1 .. Len(st) - 1
      <4>1. st2[j] = st[j]
        BY <3>4, <1>1, <1>2
      <4> QED BY <4>1, <3>1, <3>2, <3>4, <2>2, <1>6
    <3>5. j = Len(st) \/ j \in 1 .. Len(st) - 1
      BY <1>1, <1>3
    <3> QED BY <3>3, <3>4, <3>5
  <2>3. ASSUME NEW i \in DOMAIN st2 PROVE st2[i].pszEnd \in Nat
    BY <1>2, <1>3, ElementOfSeq, FrameLength
  <2>4. ASSUME NEW i \in DOMAIN st2 PROVE st2[i].pszEnd <= new
    BY <2>1, <2>3, <1>4
  <2> QED BY <2>1, <2>2, <2>4 DEF Nested
<1> QED BY <1>1, <1>2, <1>7 DEF st2

(* It calls itself.                                                          *)
LEMMA NestedPush ==
  ASSUME NEW st \in Seq(Frame), st # <<>>, NEW base \in Nat, NEW len \in Nat,
         Nested(st, base, len), st[Len(st)].at \in Waiting
  PROVE  /\ Append(st, NewFrame) \in Seq(Frame)
         /\ Append(st, NewFrame) # <<>>
         /\ Nested(Append(st, NewFrame), base, len)
<1> DEFINE st2 == Append(st, NewFrame)
<1>1. Len(st) \in Nat /\ Len(st) >= 1 /\ DOMAIN st = 1 .. Len(st)
  BY EmptySeq, LenProperties
<1>2. NewFrame \in Frame /\ NewFrame.at = "open"
  BY EmptySeq DEF NewFrame, Frame
<1>3. /\ st2 \in Seq(Frame) /\ st2 # <<>> /\ Len(st2) = Len(st) + 1
      /\ \A i \in 1 .. Len(st) : st2[i] = st[i]
      /\ st2[Len(st) + 1] = NewFrame
  BY <1>2, AppendProperties
<1> HIDE DEF st2
<1>4. DOMAIN st2 = 1 .. Len(st) + 1
  BY <1>3, LenProperties
<1>5. \A i \in 1 .. Len(st) : st[i].at \in Waiting
  BY <1>1 DEF Nested
<1>6. Nested(st2, base, len)
  BY <1>1, <1>2, <1>3, <1>4, <1>5 DEF Nested, Waiting
<1> QED BY <1>3, <1>6 DEF st2

-----------------------------------------------------------------------------
(* The part of the invariant that is about the calls and their buffer: it    *)
(* never gets shorter than the argument of the outermost call, and begins    *)
(* with it.                                                                  *)
Contained ==
  /\ psz \in Seq(Names) /\ stack \in Seq(Frame) /\ call.target \in Seq(Names)
  /\ Nested(stack, Len(call.target), Len(psz))
  /\ stack # <<>> => IsPrefix(call.target, psz)

LEMMA StackFacts ==
  ASSUME Contained, stack # <<>>
  PROVE  /\ Len(stack) \in DOMAIN stack /\ Top \in Frame /\ Top = stack[Len(stack)]
         /\ Top.pszEnd \in Nat /\ Len(psz) \in Nat /\ Len(call.target) \in Nat
         /\ Len(call.target) <= Len(psz)
         /\ Top.at # "open" => /\ Len(call.target) <= Top.pszEnd /\ Top.pszEnd <= Len(psz)
                               /\ \A i \in 1 .. Len(stack) - 1 : stack[i].pszEnd <= Top.pszEnd
         /\ \A i \in 1 .. Len(stack) - 1 :
              i \in DOMAIN stack /\ stack[i].at \in Waiting /\ stack[i].pszEnd <= Len(psz)
<1>1. Len(stack) \in Nat /\ Len(stack) >= 1 /\ DOMAIN stack = 1 .. Len(stack)
  BY EmptySeq, LenProperties DEF Contained
<1>2. Len(stack) \in DOMAIN stack /\ Top \in Frame /\ Top = stack[Len(stack)]
  BY <1>1, ElementOfSeq DEF Contained, Top, Last
<1>3. Top.pszEnd \in Nat /\ Len(psz) \in Nat /\ Len(call.target) \in Nat
  BY <1>2, FrameLength, LenProperties DEF Contained
<1>4. Len(call.target) <= Len(psz)
  BY DEF Contained, IsPrefix
<1>5. ASSUME NEW i \in 1 .. Len(stack) - 1
      PROVE  /\ stack[i].pszEnd <= Len(psz)
             /\ Top.at # "open" => stack[i].pszEnd <= Top.pszEnd
  <2>1. i \in DOMAIN stack /\ i < Len(stack)
    BY <1>1
  <2> QED BY <2>1, <1>2, LenProperties DEF Contained, Nested, Waiting
<1>6. Top.at # "open" => Len(call.target) <= Top.pszEnd /\ Top.pszEnd <= Len(psz)
  BY <1>2 DEF Contained, Nested
<1>7. \A i \in 1 .. Len(stack) - 1 : i \in DOMAIN stack /\ stack[i].at \in Waiting
  BY <1>1 DEF Contained, Nested
<1> QED BY <1>2, <1>3, <1>4, <1>5, <1>6, <1>7

(* The buffer after "*pszEnd = '\0'".                                        *)
LEMMA TrimmedBuffer ==
  ASSUME Contained, stack # <<>>, Top.at # "open"
  PROVE  /\ Trimmed \in Seq(Names) /\ Len(Trimmed) = Top.pszEnd
         /\ IsPrefix(call.target, Trimmed)
BY StackFacts, PrefixOfTrimmed DEF Contained, Trimmed

(* A call returns.                                                           *)
LEMMA ReturnContained ==
  ASSUME Contained, stack # <<>>, stack' = Front(stack), call' = call,
         psz' = psz \/ (Top.at # "open" /\ psz' = Trimmed)
  PROVE  Contained'
<1>1. psz' \in Seq(Names) /\ IsPrefix(call.target, psz')
  BY TrimmedBuffer DEF Contained
<1>2. Len(psz') = Len(psz) \/ (Last(stack).at # "open" /\ Len(psz') = Last(stack).pszEnd)
  BY TrimmedBuffer DEF Top
<1>3. Len(psz') \in Nat
  BY <1>1, LenProperties
<1>4. Front(stack) \in Seq(Frame) /\ Nested(Front(stack), Len(call.target), Len(psz'))
  BY <1>2, <1>3, StackFacts, NestedFront DEF Contained
<1> QED BY <1>1, <1>4 DEF Contained

(* A call goes on, with a buffer that is as it was, trimmed, or longer.      *)
LEMMA SetTopContained ==
  ASSUME Contained, stack # <<>>, NEW fr \in Frame, fr.at # "open", SetTop(fr), call' = call,
         \/ Top.at # "open" /\ fr.pszEnd = Top.pszEnd
         \/ fr.pszEnd = Len(psz),
         \/ psz' = psz
         \/ psz' = Trimmed /\ Top.at # "open" /\ fr.pszEnd = Top.pszEnd
         \/ \E e \in Names : psz' = Append(psz, e)
  PROVE  Contained' /\ stack' # <<>> /\ stack'[Len(stack')] = fr
<1>1. psz' \in Seq(Names) /\ IsPrefix(call.target, psz')
  BY TrimmedBuffer, PrefixOfLonger DEF Contained
<1>2. fr.pszEnd \in Nat /\ Len(call.target) <= fr.pszEnd
  BY StackFacts, FrameLength
<1>3. fr.pszEnd <= Len(psz') /\ Len(psz') \in Nat
  <2>1. CASE psz' = psz
    BY <2>1, StackFacts
  <2>2. CASE psz' = Trimmed /\ Top.at # "open" /\ fr.pszEnd = Top.pszEnd
    BY <2>2, <1>2, TrimmedBuffer
  <2>3. ASSUME NEW e \in Names, psz' = Append(psz, e)
        PROVE  fr.pszEnd <= Len(psz') /\ Len(psz') \in Nat
    <3>1. Len(psz') = Len(psz) + 1
      BY <2>3, AppendProperties DEF Contained
    <3> QED BY <3>1, <1>2, StackFacts
  <2> QED BY <2>1, <2>2, <2>3
<1>4. \A i \in 1 .. Len(stack) - 1 : stack[i].pszEnd <= fr.pszEnd
  BY StackFacts
<1>5. /\ stack' \in Seq(Frame) /\ Len(stack') = Len(stack) /\ stack'[Len(stack)] = fr
      /\ Nested(stack', Len(call.target), Len(psz'))
  BY <1>2, <1>3, <1>4, StackFacts, NestedSetTop DEF Contained, SetTop
<1>6. stack' # <<>>
  BY <1>5, EmptySeq DEF Contained
<1> QED BY <1>1, <1>5, <1>6 DEF Contained

(* A call calls itself.                                                      *)
LEMMA SuspendContained ==
  ASSUME Contained, stack # <<>>, Top.at # "open",
         NEW fr \in Frame, fr.at \in Waiting, fr.pszEnd = Top.pszEnd,
         Suspend(fr), call' = call,
         psz' = psz \/ \E e \in Names : psz' = Append(psz, e)
  PROVE  Contained' /\ stack' # <<>>
<1> DEFINE st == [stack EXCEPT ![Len(stack)] = fr]
<1>1. psz' \in Seq(Names) /\ IsPrefix(call.target, psz')
  BY PrefixOfLonger DEF Contained
<1>2. Len(psz') \in Nat /\ Len(psz) <= Len(psz')
  <2>1. ASSUME NEW e \in Names, psz' = Append(psz, e)
        PROVE  Len(psz') = Len(psz) + 1
    BY <2>1, AppendProperties DEF Contained
  <2> QED BY <2>1, StackFacts
<1>3. fr.pszEnd \in Nat /\ Len(call.target) <= fr.pszEnd /\ fr.pszEnd <= Len(psz')
  BY <1>2, StackFacts
<1>4. \A i \in 1 .. Len(stack) - 1 : stack[i].pszEnd <= fr.pszEnd
  BY StackFacts
<1>5. /\ st \in Seq(Frame) /\ Len(st) = Len(stack) /\ st[Len(stack)] = fr
      /\ Nested(st, Len(call.target), Len(psz'))
  BY <1>2, <1>3, <1>4, StackFacts, NestedSetTop DEF Contained, Waiting
<1>6. stack' = Append(st, NewFrame)
  BY DEF Suspend
<1> HIDE DEF st
<1>7. st # <<>> /\ st[Len(st)].at \in Waiting
  BY <1>5, EmptySeq DEF Contained
<1>8. Len(call.target) \in Nat /\ Len(psz') \in Nat
  BY <1>2, StackFacts
<1>9. /\ Append(st, NewFrame) # <<>> /\ Append(st, NewFrame) \in Seq(Frame)
      /\ Nested(Append(st, NewFrame), Len(call.target), Len(psz'))
  <2>1. PICK base \in Nat, len \in Nat : base = Len(call.target) /\ len = Len(psz')
    BY <1>8
  <2>2. st \in Seq(Frame) /\ st # <<>> /\ Nested(st, base, len) /\ st[Len(st)].at \in Waiting
    BY <1>5, <1>7, <2>1
  <2>3. /\ Append(st, NewFrame) # <<>> /\ Append(st, NewFrame) \in Seq(Frame)
        /\ Nested(Append(st, NewFrame), base, len)
    BY <2>2, NestedPush
  <2> QED BY <2>1, <2>3
<1>10. stack' # <<>> /\ stack' \in Seq(Frame) /\ Nested(stack', Len(call.target), Len(psz'))
  BY <1>6, <1>9
<1> QED BY <1>1, <1>10 DEF Contained

-----------------------------------------------------------------------------
(* The part that ties a call that is about to remove its directory to the    *)
(* buffer, and that knows what a call that returned has returned.            *)
Anchored ==
  stack # <<>> =>
    /\ IF stack[1].at = "open" THEN Len(psz) = Len(call.target)
                               ELSE stack[1].pszEnd = Len(call.target)
    /\ Top.at \in {"progress", "read", "rmdir"} => Len(psz) = Top.pszEnd
    /\ Top.at \in Waiting => ret \in Results

LEMMA ReturnAnchored ==
  ASSUME Contained, Anchored, stack # <<>>, stack' = Front(stack), call' = call, ret' \in Results
  PROVE  Anchored'
<1>1. stack \in Seq(Frame)
  BY DEF Contained
<1>2. /\ Len(stack') = Len(stack) - 1 /\ \A i \in 1 .. Len(stack) - 1 : stack'[i] = stack[i]
      /\ stack' # <<>> => Len(stack) - 1 >= 1
  BY <1>1, FrontFacts
<1>3. Len(stack) \in Nat
  BY <1>1, LenProperties
<1> SUFFICES ASSUME stack' # <<>> PROVE Anchored'
  BY DEF Anchored
<1>4. 1 \in 1 .. Len(stack) - 1 /\ Len(stack) - 1 \in 1 .. Len(stack) - 1
  BY <1>2, <1>3
<1>5. stack'[1] = stack[1] /\ stack[1].at \in Waiting
  BY <1>2, <1>4, StackFacts
<1>6. Top' = stack[Len(stack) - 1]
  <2>1. Top' = stack'[Len(stack')]
    BY DEF Top, Last
  <2>2. stack'[Len(stack) - 1] = stack[Len(stack) - 1]
    BY <1>2, <1>4
  <2> QED BY <2>1, <2>2, <1>2
<1>7. stack[Len(stack) - 1].at \in Waiting
  BY <1>4, StackFacts
<1> QED BY <1>5, <1>6, <1>7 DEF Anchored, Waiting

LEMMA SetTopAnchored ==
  ASSUME Contained, Anchored, stack # <<>>, NEW fr \in Frame, SetTop(fr), call' = call,
         IF Top.at = "open" THEN fr.pszEnd = Len(psz) ELSE fr.pszEnd = Top.pszEnd,
         fr.at # "open", fr.at \notin Waiting,
         fr.at \in {"progress", "read", "rmdir"} => Len(psz') = fr.pszEnd
  PROVE  Anchored'
<1>1. Len(stack) \in Nat /\ Len(stack) >= 1 /\ DOMAIN stack = 1 .. Len(stack)
  BY EmptySeq, LenProperties DEF Contained
<1>2. stack' = [stack EXCEPT ![Len(stack)] = fr]
  BY DEF SetTop
<1>3. Len(stack') = Len(stack) /\ stack'[Len(stack)] = fr
  BY <1>1, <1>2, ExceptSeq DEF Contained
<1>4. Top' = fr
  BY <1>3 DEF Top, Last
<1>5. stack'[1].at # "open" /\ stack'[1].pszEnd = Len(call.target)
  <2>1. CASE Len(stack) = 1
    BY <2>1, <1>3 DEF Anchored, Top, Last
  <2>2. CASE Len(stack) # 1
    <3>1. 1 \in 1 .. Len(stack) - 1
      BY <2>2, <1>1
    <3>2. stack'[1] = stack[1]
      BY <2>2, <1>1, <1>2
    <3>3. stack[1].at \in Waiting
      BY <3>1, StackFacts
    <3> QED BY <3>2, <3>3 DEF Anchored, Waiting
  <2> QED BY <2>1, <2>2
<1> QED BY <1>4, <1>5 DEF Anchored

LEMMA SuspendAnchored ==
  ASSUME Contained, Anchored, stack # <<>>, Top.at # "open",
         NEW fr \in Frame, fr.at \in Waiting, fr.pszEnd = Top.pszEnd,
         Suspend(fr), call' = call
  PROVE  Anchored'
<1>1. Len(stack) \in Nat /\ Len(stack) >= 1 /\ DOMAIN stack = 1 .. Len(stack)
  BY EmptySeq, LenProperties DEF Contained
<1> DEFINE st == [stack EXCEPT ![Len(stack)] = fr]
<1>2. st \in Seq(Frame) /\ Len(st) = Len(stack) /\ st[Len(stack)] = fr
  BY <1>1, ExceptSeq DEF Contained
<1>3. st[1] = IF Len(stack) = 1 THEN fr ELSE stack[1]
  BY <1>1
<1>4. NewFrame \in Frame /\ NewFrame.at = "open"
  BY EmptySeq DEF NewFrame, Frame
<1>5. stack' = Append(st, NewFrame)
  BY DEF Suspend
<1> HIDE DEF st
<1>6. Len(stack') = Len(stack) + 1 /\ stack'[1] = st[1] /\ stack'[Len(stack) + 1] = NewFrame
  BY <1>1, <1>2, <1>4, <1>5, AppendProperties
<1>7. Top' = NewFrame
  BY <1>6 DEF Top, Last
<1>8. stack'[1].at # "open" /\ stack'[1].pszEnd = Len(call.target)
  <2>1. CASE Len(stack) = 1
    BY <2>1, <1>3, <1>6 DEF Anchored, Waiting, Top, Last
  <2>2. CASE Len(stack) # 1
    <3>1. 1 \in 1 .. Len(stack) - 1
      BY <2>2, <1>1
    <3>2. stack[1].at \in Waiting
      BY <3>1, StackFacts
    <3> QED BY <2>2, <3>2, <1>3, <1>6 DEF Anchored, Waiting
  <2> QED BY <2>1, <2>2
<1> QED BY <1>4, <1>7, <1>8 DEF Anchored, Waiting

-----------------------------------------------------------------------------
(* What one step of the calls does to the rest.                              *)

Volume == IsTree(tree) /\ DOMAIN tree \subseteq Seq(Names)

RemovesBuffer == UnlinkResult(tree, files, psz) = "FR_OK" /\ tree' = Without(tree, psz)

Effect ==
  /\ call' = call
  /\ tree' = tree \/ RemovesBuffer
  /\ stack' = <<>> => /\ ret' \in Results
                      /\ ret' = "FR_OK" => RemovesBuffer /\ psz = call.target

Preserved == Contained' /\ Anchored' /\ Effect

LEMMA OpenFrame ==
  ASSUME NEW path \in Seq(Names)
  PROVE  LET fr == [at |-> "progress", dir |-> path, dirOpen |-> TRUE,
                    seen |-> {}, pszEnd |-> Len(path)]
         IN  fr \in Frame /\ fr.at = "progress" /\ fr.pszEnd = Len(path)
BY LenProperties DEF Frame

Places == {"open", "progress", "read", "unlink", "child", "retry", "rmdir"}

LEMMA FrameMoves ==
  ASSUME NEW fr \in Frame, NEW place \in Places, NEW open \in BOOLEAN
  PROVE  LET fr2 == [fr EXCEPT !.at = place]
             fr3 == [fr EXCEPT !.at = place, !.dirOpen = open]
         IN  /\ fr2 \in Frame /\ fr2.at = place /\ fr2.pszEnd = fr.pszEnd
             /\ fr3 \in Frame /\ fr3.at = place /\ fr3.pszEnd = fr.pszEnd
BY DEF Frame, Places

LEMMA FrameReads ==
  ASSUME NEW fr \in Frame, NEW name \in Names, NEW place \in Places
  PROVE  LET fr2 == [[fr EXCEPT !.seen = @ \cup {name}] EXCEPT !.at = place]
         IN  fr2 \in Frame /\ fr2.at = place /\ fr2.pszEnd = fr.pszEnd
BY DEF Frame, Places

LEMMA FrameReopens ==
  ASSUME NEW fr \in Frame, NEW path \in Seq(Names)
  PROVE  LET fr2 == [fr EXCEPT !.at = "progress", !.dirOpen = TRUE, !.dir = path, !.seen = {}]
         IN  fr2 \in Frame /\ fr2.at = "progress" /\ fr2.pszEnd = fr.pszEnd
BY DEF Frame

LEMMA OpendirReturns ==
  ASSUME NEW t, NEW f, NEW p, NEW faulty, NEW o \in Opendir(t, f, p, faulty)
  PROVE  o.res \in Results
<1>1. OpendirResult(t, f, p) \in Results
  BY DEF OpendirResult, Results
<1> QED BY <1>1 DEF Opendir, Results

LEMMA UnlinkReturns ==
  ASSUME NEW t, NEW f, NEW p, NEW faulty, NEW o \in Unlink(t, f, p, faulty)
  PROVE  o.res \in Results
<1>1. FollowPath(t, p) \in Results
  BY DEF FollowPath, Results
<1>2. UnlinkResult(t, f, p) \in Results
  BY <1>1 DEF UnlinkResult, Results
<1> QED BY <1>2, UnlinkOutcome DEF Results

(* A return with an error, the buffer as it is or trimmed.                   *)
LEMMA ReturnPreserved ==
  ASSUME Contained, Anchored, stack # <<>>, NEW res \in Results, Return(res),
         call' = call, tree' = tree \/ RemovesBuffer,
         psz' = psz \/ (Top.at # "open" /\ psz' = Trimmed),
         res = "FR_OK" => RemovesBuffer /\ psz = call.target
  PROVE  Preserved
<1>1. stack' = Front(stack) /\ ret' \in Results
  BY DEF Return
<1>2. Contained'
  BY <1>1, ReturnContained
<1>3. Anchored'
  BY <1>1, ReturnAnchored
<1> QED BY <1>1, <1>2, <1>3 DEF Preserved, Effect, Return

(* The innermost call goes on.                                               *)
LEMMA SetTopPreserved ==
  ASSUME Contained, Anchored, stack # <<>>, NEW fr \in Frame, SetTop(fr),
         fr.at \in {"progress", "read", "unlink", "rmdir"},
         call' = call, tree' = tree \/ RemovesBuffer,
         IF Top.at = "open" THEN fr.pszEnd = Len(psz) ELSE fr.pszEnd = Top.pszEnd,
         \/ psz' = psz /\ (fr.at # "unlink" => fr.pszEnd = Len(psz))
         \/ psz' = Trimmed /\ Top.at # "open"
         \/ fr.at = "unlink" /\ \E e \in Names : psz' = Append(psz, e)
  PROVE  Preserved
<1>1. fr.at # "open" /\ fr.at \notin Waiting
  BY DEF Waiting
<1>2. Contained' /\ stack' # <<>>
  BY <1>1, SetTopContained
<1>3. fr.at \in {"progress", "read", "rmdir"} => Len(psz') = fr.pszEnd
  BY TrimmedBuffer
<1>4. Anchored'
  BY <1>1, <1>3, SetTopAnchored
<1> QED BY <1>2, <1>4 DEF Preserved, Effect

LEMMA SuspendPreserved ==
  ASSUME Contained, Anchored, stack # <<>>, Top.at # "open",
         NEW fr \in Frame, fr.at \in Waiting, fr.pszEnd = Top.pszEnd,
         Suspend(fr), call' = call, tree' = tree,
         psz' = psz \/ \E e \in Names : psz' = Append(psz, e)
  PROVE  Preserved
<1>1. Contained' /\ stack' # <<>>
  BY SuspendContained
<1>2. Anchored'
  BY SuspendAnchored
<1> QED BY <1>1, <1>2 DEF Preserved, Effect

-----------------------------------------------------------------------------
(* One lemma per action.                                                     *)

LEMMA OpenDirStep ==
  ASSUME Contained, Anchored, OpenDir
  PROVE  Preserved
<1>1. stack # <<>> /\ Top.at = "open" /\ tree' = tree /\ call' = call /\ psz' = psz
  BY DEF OpenDir, AtTop
<1>2. PICK o \in Opendir(tree, files, psz, Faulty) :
        IF o.res = "FR_OK"
          THEN SetTop([at |-> "progress", dir |-> psz, dirOpen |-> TRUE,
                       seen |-> {}, pszEnd |-> Len(psz)])
          ELSE Return(o.res)
  BY DEF OpenDir
<1>3. CASE o.res = "FR_OK"
  <2> DEFINE fr == [at |-> "progress", dir |-> psz, dirOpen |-> TRUE,
                    seen |-> {}, pszEnd |-> Len(psz)]
  <2>1. fr \in Frame /\ fr.at = "progress" /\ fr.pszEnd = Len(psz)
    BY OpenFrame DEF Contained
  <2>2. SetTop(fr)
    BY <1>2, <1>3
  <2> HIDE DEF fr
  <2> QED BY <1>1, <2>1, <2>2, SetTopPreserved
<1>4. CASE o.res # "FR_OK"
  BY <1>1, <1>2, <1>4, OpendirReturns, ReturnPreserved
<1> QED BY <1>3, <1>4

LEMMA ProgressStep ==
  ASSUME Contained, Anchored, Progress
  PROVE  Preserved
<1> DEFINE fr == [Top EXCEPT !.at = "read"]
<1>1. /\ stack # <<>> /\ Top.at = "progress" /\ SetTop(fr)
      /\ tree' = tree /\ call' = call /\ psz' = psz
  BY DEF Progress, AtTop
<1>2. fr \in Frame /\ fr.at = "read" /\ fr.pszEnd = Top.pszEnd
  BY <1>1, StackFacts, FrameMoves DEF Places
<1>3. Top.pszEnd = Len(psz)
  BY <1>1 DEF Anchored
<1> HIDE DEF fr
<1> QED BY <1>1, <1>2, <1>3, SetTopPreserved

LEMMA ReadFailsStep ==
  ASSUME Contained, Anchored, ReadFails
  PROVE  Preserved
<1>1. /\ stack # <<>> /\ Return("FR_DISK_ERR")
      /\ tree' = tree /\ call' = call /\ psz' = psz
  BY DEF ReadFails, AtTop
<1>2. "FR_DISK_ERR" \in Results
  BY DEF Results
<1> QED BY <1>1, <1>2, ReturnPreserved

LEMMA ReadEndStep ==
  ASSUME Contained, Anchored, ReadEnd
  PROVE  Preserved
<1> DEFINE fr == [Top EXCEPT !.at = "rmdir", !.dirOpen = FALSE]
<1>1. /\ stack # <<>> /\ Top.at = "read" /\ SetTop(fr)
      /\ tree' = tree /\ call' = call /\ psz' = psz
  BY DEF ReadEnd, AtTop
<1>2. fr \in Frame /\ fr.at = "rmdir" /\ fr.pszEnd = Top.pszEnd
  BY <1>1, StackFacts, FrameMoves DEF Places
<1>3. Top.pszEnd = Len(psz)
  BY <1>1 DEF Anchored
<1> HIDE DEF fr
<1> QED BY <1>1, <1>2, <1>3, SetTopPreserved

LEMMA ReadEntryStep ==
  ASSUME Contained, Anchored, Volume, ReadEntry
  PROVE  Preserved
<1>1. stack # <<>> /\ Top.at = "read" /\ tree' = tree /\ call' = call
  BY DEF ReadEntry, AtTop
<1>2. PICK p \in Unread :
        /\ psz' = Append(psz, Last(p))
        /\ IF tree[p].dir
             THEN Suspend([[Top EXCEPT !.seen = @ \cup {Last(p)}] EXCEPT !.at = "child"])
             ELSE SetTop([[Top EXCEPT !.seen = @ \cup {Last(p)}] EXCEPT !.at = "unlink"])
  BY DEF ReadEntry
<1>3. Last(p) \in Names
  <2>1. p \in Seq(Names) /\ p # <<>>
    BY DEF Unread, Children, Volume
  <2> QED BY <2>1, NonEmpty, ElementOfSeq DEF Last
<1>4. Top \in Frame
  BY <1>1, StackFacts
<1>5. CASE tree[p].dir
  <2> DEFINE fr == [[Top EXCEPT !.seen = @ \cup {Last(p)}] EXCEPT !.at = "child"]
  <2>1. fr \in Frame /\ fr.at = "child" /\ fr.pszEnd = Top.pszEnd
    BY <1>3, <1>4, FrameReads DEF Places
  <2>2. Suspend(fr)
    BY <1>2, <1>5
  <2> HIDE DEF fr
  <2> QED BY <1>1, <1>2, <1>3, <2>1, <2>2, SuspendPreserved DEF Waiting
<1>6. CASE ~ tree[p].dir
  <2> DEFINE fr == [[Top EXCEPT !.seen = @ \cup {Last(p)}] EXCEPT !.at = "unlink"]
  <2>1. fr \in Frame /\ fr.at = "unlink" /\ fr.pszEnd = Top.pszEnd
    BY <1>3, <1>4, FrameReads DEF Places
  <2>2. SetTop(fr)
    BY <1>2, <1>6
  <2> HIDE DEF fr
  <2> QED BY <1>1, <1>2, <1>3, <2>1, <2>2, SetTopPreserved
<1> QED BY <1>5, <1>6

(* The end of an iteration, common to two actions.                           *)
LEMMA NextEntryPreserved ==
  ASSUME Contained, Anchored, stack # <<>>, Top.at # "open",
         NEW res \in Results, NextEntry(res),
         call' = call, tree' = tree \/ RemovesBuffer
  PROVE  Preserved
<1>1. psz' = Trimmed
  BY DEF NextEntry
<1>2. CASE res = "FR_OK"
  <2> DEFINE fr == [Top EXCEPT !.at = "progress"]
  <2>1. fr \in Frame /\ fr.at = "progress" /\ fr.pszEnd = Top.pszEnd
    BY StackFacts, FrameMoves DEF Places
  <2>2. SetTop(fr)
    BY <1>2 DEF NextEntry
  <2> HIDE DEF fr
  <2> QED BY <1>1, <2>1, <2>2, SetTopPreserved
<1>3. CASE res # "FR_OK"
  <2>1. Return(res)
    BY <1>3 DEF NextEntry
  <2> QED BY <1>1, <1>3, <2>1, ReturnPreserved
<1> QED BY <1>2, <1>3

LEMMA UnlinkFileStep ==
  ASSUME Contained, Anchored, UnlinkFile
  PROVE  Preserved
<1>1. stack # <<>> /\ Top.at = "unlink" /\ call' = call
  BY DEF UnlinkFile, AtTop
<1>2. PICK o \in Unlink(tree, files, psz, Faulty) : tree' = o.tree /\ NextEntry(o.res)
  BY DEF UnlinkFile
<1>3. tree' = tree \/ RemovesBuffer
  BY <1>2, UnlinkOutcome DEF RemovesBuffer
<1>4. o.res \in Results
  BY UnlinkReturns
<1> QED BY <1>1, <1>2, <1>3, <1>4, NextEntryPreserved

LEMMA ChildReturnedStep ==
  ASSUME Contained, Anchored, ChildReturned
  PROVE  Preserved
<1>1. /\ stack # <<>> /\ Top.at = "child" /\ NextEntry(ret)
      /\ tree' = tree /\ call' = call
  BY DEF ChildReturned, AtTop
<1>2. ret \in Results
  BY <1>1 DEF Anchored, Waiting
<1> QED BY <1>1, <1>2, NextEntryPreserved

LEMMA ChildStarvedStep ==
  ASSUME Contained, Anchored, ChildStarved
  PROVE  Preserved
<1> DEFINE fr == [Top EXCEPT !.at = "retry", !.dirOpen = FALSE]
<1>1. /\ stack # <<>> /\ Top.at = "child" /\ Suspend(fr)
      /\ tree' = tree /\ call' = call /\ psz' = psz
  BY DEF ChildStarved, AtTop
<1>2. fr \in Frame /\ fr.at = "retry" /\ fr.pszEnd = Top.pszEnd
  BY <1>1, StackFacts, FrameMoves DEF Places
<1> HIDE DEF fr
<1> QED BY <1>1, <1>2, SuspendPreserved DEF Waiting

LEMMA RetryReturnedStep ==
  ASSUME Contained, Anchored, RetryReturned
  PROVE  Preserved
<1>1. /\ stack # <<>> /\ Top.at = "retry" /\ psz' = Trimmed
      /\ tree' = tree /\ call' = call
  BY DEF RetryReturned, AtTop
<1>2. ret \in Results
  BY <1>1 DEF Anchored, Waiting
<1>3. CASE ret # "FR_OK"
  <2>1. Return(ret)
    BY <1>3 DEF RetryReturned
  <2> QED BY <1>1, <1>2, <1>3, <2>1, ReturnPreserved
<1>4. CASE ret = "FR_OK"
  <2> DEFINE fr == [Top EXCEPT !.at = "progress", !.dirOpen = TRUE, !.dir = Trimmed, !.seen = {}]
  <2>1. PICK o \in Opendir(tree, files, Trimmed, Faulty) :
          IF o.res = "FR_OK" THEN SetTop(fr) ELSE Return(o.res)
    BY <1>4 DEF RetryReturned
  <2>2. CASE o.res = "FR_OK"
    <3>1. fr \in Frame /\ fr.at = "progress" /\ fr.pszEnd = Top.pszEnd
      BY <1>1, StackFacts, TrimmedBuffer, FrameReopens
    <3>2. SetTop(fr)
      BY <2>1, <2>2
    <3> HIDE DEF fr
    <3> QED BY <1>1, <3>1, <3>2, SetTopPreserved
  <2>3. CASE o.res # "FR_OK"
    <3>1. o.res \in Results /\ Return(o.res)
      BY <2>1, <2>3, OpendirReturns
    <3> HIDE DEF fr
    <3> QED BY <1>1, <2>3, <3>1, ReturnPreserved
  <2> QED BY <2>2, <2>3
<1> QED BY <1>3, <1>4

LEMMA RemoveSelfStep ==
  ASSUME Contained, Anchored, RemoveSelf
  PROVE  Preserved
<1>1. /\ stack # <<>> /\ Top.at = "rmdir" /\ psz' = psz /\ call' = call
  BY DEF RemoveSelf, AtTop
<1>2. PICK o \in Unlink(tree, files, psz, Faulty) : tree' = o.tree /\ Return(o.res)
  BY DEF RemoveSelf
<1>3. tree' = tree \/ RemovesBuffer
  BY <1>2, UnlinkOutcome DEF RemovesBuffer
<1>4. o.res = "FR_OK" => RemovesBuffer
  BY <1>2, UnlinkOutcome DEF RemovesBuffer
<1>5. stack' = Front(stack) /\ ret' = o.res /\ o.res \in Results
  BY <1>2, UnlinkReturns DEF Return
<1>6. Contained' /\ Anchored'
  BY <1>1, <1>5, ReturnContained, ReturnAnchored
<1>7. stack' = <<>> => psz = call.target
  <2> SUFFICES ASSUME stack' = <<>> PROVE psz = call.target
    OBVIOUS
  <2>1. Len(stack) = 1
    <3>1. Len(stack) \in Nat /\ Len(Front(stack)) = Len(stack) - 1
      BY <1>1, FrontFacts, NonEmpty DEF Contained
    <3>2. Len(Front(stack)) = 0
      BY <1>5
    <3> QED BY <3>1, <3>2
  <2>2. Len(psz) = Len(call.target)
    BY <1>1, <2>1 DEF Anchored, Top, Last
  <2> QED BY <1>1, <2>2, PrefixPointwise, SeqEqual DEF Contained
<1> QED BY <1>1, <1>3, <1>4, <1>5, <1>6, <1>7 DEF Preserved, Effect

-----------------------------------------------------------------------------
(* The inductive invariant.                                                  *)

IInv == Contained /\ Anchored /\ Volume /\ OutsideUntouched

LEMMA Initially == Init => IInv
<1> SUFFICES ASSUME Init PROVE IInv
  OBVIOUS
<1>1. tree \in InitTrees /\ psz = <<>> /\ stack = <<>> /\ call.target = <<>> /\ call.tree = tree
  BY DEF Init
<1>2. Volume
  BY <1>1, RmdirAssumption DEF Volume
<1>3. Contained
  BY <1>1, EmptySeq DEF Contained, Nested
<1> QED BY <1>1, <1>2, <1>3 DEF IInv, Anchored, OutsideUntouched

LEMMA StepPreserves ==
  ASSUME Contained, Anchored, Volume, Step
  PROVE  Preserved
BY OpenDirStep, ProgressStep, ReadFailsStep, ReadEndStep, ReadEntryStep, UnlinkFileStep,
   ChildReturnedStep, ChildStarvedStep, RetryReturnedStep, RemoveSelfStep DEF Step

(* The abstract module speaks of the volume with operators of the same       *)
(* definitions.                                                              *)
LEMMA SameVolume ==
  ASSUME NEW t, NEW p
  PROVE  /\ Removal!IsDir(t, p) = IsDir(t, p)
         /\ Removal!Children(t, p) = Children(t, p)
         /\ Removal!Subtree(t, p) = Subtree(t, p)
         /\ Removal!Without(t, p) = Without(t, p)
BY DEF IsDir, Removal!IsDir, Children, Removal!Children, Front, Removal!Front,
       Subtree, Removal!Subtree, IsPrefix, Removal!IsPrefix,
       Without, Removal!Without, Restrict, Removal!Restrict

(* What a step of the calls takes away is a leaf of the subtree.             *)
LEMMA RemovedLeaf ==
  ASSUME Contained, stack # <<>>, RemovesBuffer
  PROVE  psz \in Removal!Leaves /\ tree' = Without(tree, psz)
<1>1. /\ psz \in DOMAIN tree /\ psz # <<>> /\ ~ tree[psz].rdo
      /\ Children(tree, psz) = {} /\ tree' = Without(tree, psz)
  BY UnlinkedLeaf DEF RemovesBuffer
<1>2. psz \in Subtree(tree, call.target)
  BY <1>1 DEF Contained, Subtree
<1> QED BY <1>1, <1>2, SameVolume DEF Removal!Leaves

LEMMA StepBusy == Step => stack # <<>>
BY DEF Step, OpenDir, Progress, ReadFails, ReadEnd, ReadEntry, UnlinkFile, ChildReturned,
       ChildStarved, RetryReturned, RemoveSelf, AtTop

LEMMA StepKeeps ==
  ASSUME IInv, Step
  PROVE  IInv'
<1>1. Preserved /\ stack # <<>>
  BY StepPreserves, StepBusy DEF IInv
<1>2. Contained' /\ Anchored' /\ call' = call
  BY <1>1 DEF Preserved, Effect
<1>3. CASE tree' = tree
  BY <1>2, <1>3 DEF IInv, Volume, OutsideUntouched
<1>4. CASE RemovesBuffer
  <2>1. psz \in DOMAIN tree /\ psz # <<>> /\ Children(tree, psz) = {} /\ tree' = Without(tree, psz)
    BY <1>4, UnlinkedLeaf DEF RemovesBuffer
  <2>2. /\ DOMAIN tree' = DOMAIN tree \ {psz}
        /\ \A q \in DOMAIN tree \ {psz} : tree'[q] = tree[q]
    BY <2>1, WithoutOne
  <2>3. Volume'
    BY <2>1, <2>2, LeafRemoved DEF IInv, Volume
  <2>4. IsPrefix(call.target, psz)
    BY <1>1 DEF IInv, Contained
  <2>5. OutsideUntouched'
    BY <1>2, <2>2, <2>4 DEF IInv, OutsideUntouched
  <2> QED BY <1>2, <2>3, <2>5 DEF IInv
<1> QED BY <1>1, <1>3, <1>4 DEF Preserved, Effect

LEMMA CallKeeps ==
  ASSUME IInv, NEW p \in DOMAIN tree, Call(p)
  PROVE  IInv'
<1>1. /\ psz' = p /\ stack' = <<NewFrame>> /\ tree' = tree
      /\ call'.target = p /\ call'.tree = tree
  BY DEF Call
<1>2. p \in Seq(Names) /\ Len(p) \in Nat
  BY LenProperties DEF IInv, Volume
<1>3. NewFrame \in Frame /\ NewFrame.at = "open"
  BY EmptySeq DEF NewFrame, Frame
<1> DEFINE st == <<NewFrame>>
<1>4. st \in Seq(Frame) /\ Len(st) = 1 /\ DOMAIN st = {1} /\ st[1] = NewFrame
  BY <1>3
<1> HIDE DEF st
<1>5. Nested(st, Len(p), Len(p))
  BY <1>3, <1>4 DEF Nested
<1>6. stack' = st
  BY <1>1 DEF st
<1>7. Contained'
  BY <1>1, <1>2, <1>4, <1>5, <1>6, PrefixOfItself DEF Contained
<1>8. Top' = NewFrame
  BY <1>4, <1>6 DEF Top, Last
<1>9. Anchored'
  BY <1>1, <1>3, <1>4, <1>6, <1>8 DEF Anchored, Waiting
<1>10. Volume' /\ OutsideUntouched'
  BY <1>1 DEF IInv, Volume, OutsideUntouched
<1> QED BY <1>7, <1>9, <1>10 DEF IInv

LEMMA StutterKeeps ==
  ASSUME IInv, UNCHANGED <<tree, psz, stack, ret, call>>
  PROVE  IInv'
BY DEF IInv, Contained, Anchored, Volume, OutsideUntouched, Top

LEMMA NextKeeps == IInv /\ [Next]_vars => IInv'
<1> SUFFICES ASSUME IInv, [Next]_vars PROVE IInv'
  OBVIOUS
<1>1. CASE Step
  BY <1>1, StepKeeps
<1>2. CASE HostBetween
  BY <1>2, StutterKeeps DEF HostBetween
<1>3. ASSUME NEW p \in DOMAIN tree, Call(p) PROVE IInv'
  BY <1>3, CallKeeps
<1>4. CASE UNCHANGED vars
  BY <1>4, StutterKeeps DEF vars
<1> QED BY <1>1, <1>2, <1>3, <1>4 DEF Next

LEMMA Invariance == Spec => []IInv
BY Initially, NextKeeps, PTL DEF Spec

(* Whatever f_rmdir_r is asked to remove and however it is interrupted,      *)
(* every path that is not below its argument keeps its node.                 *)
THEOREM RemovalContained == Spec => []OutsideUntouched
<1>1. IInv => OutsideUntouched
  BY DEF IInv
<1> QED BY <1>1, Invariance, PTL

(* The volume is a tree of directories before and after every step.          *)
THEOREM VolumeStaysTree == Spec => []IsTree(tree)
<1>1. IInv => IsTree(tree)
  BY DEF IInv, Volume
<1> QED BY <1>1, Invariance, PTL

LEMMA Refines ==
  ASSUME IInv, [Next]_vars
  PROVE  [Removal!Next]_(Removal!vars)
<1> DEFINE busy   == ~ Idle
           result == IF Idle THEN ret ELSE ""
<1>1. CASE Step
  <2>1. Preserved /\ stack # <<>>
    BY <1>1, StepPreserves, StepBusy DEF IInv
  <2>2. call' = call /\ busy /\ result = ""
    BY <2>1 DEF Preserved, Effect, Idle
  <2>3. tree' = tree \/ Removal!RemoveLeaf
    BY <2>1, RemovedLeaf, SameVolume DEF IInv, Preserved, Effect, Removal!RemoveLeaf
  <2>4. CASE stack' # <<>>
    <3>1. busy' /\ result' = ""
      BY <2>4 DEF Idle
    <3> QED BY <2>2, <2>3, <3>1 DEF Removal!Next, Removal!Work, Removal!vars
  <2>5. CASE stack' = <<>>
    <3>1. ~ busy' /\ result' = ret' /\ ret' \in Results
      BY <2>1, <2>5 DEF Preserved, Effect, Idle
    <3>2. ret' # ""
      BY <3>1 DEF Results
    <3>3. ret' = "FR_OK" => Subtree(tree', call.target) = {}
      <4> SUFFICES ASSUME ret' = "FR_OK" PROVE Subtree(tree', call.target) = {}
        OBVIOUS
      <4>1. RemovesBuffer /\ psz = call.target
        BY <2>1, <2>5 DEF Preserved, Effect
      <4>2. /\ psz \in DOMAIN tree /\ psz # <<>> /\ Children(tree, psz) = {}
            /\ tree' = Without(tree, psz)
        BY <4>1, UnlinkedLeaf DEF RemovesBuffer
      <4> QED BY <4>1, <4>2, LeafRemoved DEF IInv, Volume
    <3>4. Removal!End
      BY <2>2, <2>3, <3>1, <3>2, <3>3, SameVolume DEF Removal!End
    <3> QED BY <3>4 DEF Removal!Next
  <2> QED BY <2>4, <2>5
<1>2. ASSUME NEW p \in DOMAIN tree, Call(p) PROVE Removal!Next
  <2>1. /\ stack = <<>> /\ stack' # <<>> /\ IsDir(tree, p)
        /\ call'.target = p /\ tree' = tree
    BY <1>2 DEF Call, Idle
  <2>2. Removal!Begin(p)
    BY <2>1, SameVolume DEF Removal!Begin, Idle
  <2> QED BY <2>2 DEF Removal!Next
<1>3. CASE HostBetween
  BY <1>3 DEF HostBetween, Removal!vars, Idle
<1>4. CASE UNCHANGED vars
  BY <1>4 DEF vars, Removal!vars, Idle
<1> QED BY <1>1, <1>2, <1>3, <1>4 DEF Next

(* f_rmdir_r implements the abstract removal of SubtreeRemoval: every step   *)
(* removes one leaf of the argument's subtree or nothing, and a call that    *)
(* reports success has left nothing of it.  (That every call returns is the  *)
(* part of the abstract specification that the model checker checks.)        *)
THEOREM RemovalRefined == Spec => Removal!Init /\ [][Removal!Next]_(Removal!vars)
<1>1. Init => Removal!Init
  BY DEF Init, Removal!Init, Idle
<1>2. IInv /\ [Next]_vars => [Removal!Next]_(Removal!vars)
  BY Refines
<1> QED BY <1>1, <1>2, Invariance, PTL DEF Spec

-----------------------------------------------------------------------------
(* The books of f_rmdir_r: its path buffer and the table of open objects.    *)

(* The table, with the files h of the host and the directories D.            *)
Exact(f, h, D) ==
  /\ DOMAIN f = {Entry(p) : p \in h} \cup {Cluster(d) : d \in D \ {<<>>}}
  /\ \A o \in DOMAIN f : f[o] = 1
  /\ IsFiniteSet(DOMAIN f)
  /\ Cardinality(DOMAIN f) <= FF_FS_LOCK

LEMMA Objects ==
  ASSUME NEW p, NEW q
  PROVE  Entry(p) # Cluster(q) /\ (Entry(p) = Entry(q) => p = q) /\ (Cluster(p) = Cluster(q) => p = q)
BY DEF Entry, Cluster

(* An object more, while there is a free entry; one less.                    *)
LEMMA OneMore ==
  ASSUME NEW f, \A o \in DOMAIN f : f[o] = 1, IsFiniteSet(DOMAIN f),
         Cardinality(DOMAIN f) <= FF_FS_LOCK, FreeSlots(f) # 0,
         NEW obj, obj \notin DOMAIN f
  PROVE  LET g == IncShare(f, obj, 0)
         IN  /\ DOMAIN g = DOMAIN f \cup {obj}
             /\ \A o \in DOMAIN g : g[o] = 1
             /\ IsFiniteSet(DOMAIN g)
             /\ Cardinality(DOMAIN g) <= FF_FS_LOCK
<1> DEFINE g == IncShare(f, obj, 0)
<1>1. DOMAIN g = DOMAIN f \cup {obj} /\ \A o \in DOMAIN g : g[o] = 1
  BY DEF IncShare, With
<1> HIDE DEF g
<1>2. IsFiniteSet(DOMAIN g) /\ Cardinality(DOMAIN g) = Cardinality(DOMAIN f) + 1
  BY <1>1, FS_AddElement
<1>3. Cardinality(DOMAIN f) \in Nat /\ FF_FS_LOCK \in Nat
  BY FS_CardinalityType, SlotsAssumption
<1>4. Cardinality(DOMAIN g) <= FF_FS_LOCK
  BY <1>2, <1>3 DEF FreeSlots
<1> QED BY <1>1, <1>2, <1>4 DEF g

LEMMA OneLess ==
  ASSUME NEW f, \A o \in DOMAIN f : f[o] = 1, IsFiniteSet(DOMAIN f),
         Cardinality(DOMAIN f) <= FF_FS_LOCK,
         NEW obj \in DOMAIN f
  PROVE  LET g == DecShare(f, obj)
         IN  /\ DOMAIN g = DOMAIN f \ {obj}
             /\ \A o \in DOMAIN g : g[o] = 1
             /\ IsFiniteSet(DOMAIN g)
             /\ Cardinality(DOMAIN g) <= FF_FS_LOCK
<1> DEFINE g == DecShare(f, obj)
<1>1. DOMAIN g = DOMAIN f \ {obj} /\ \A o \in DOMAIN g : g[o] = 1
  <2>1. f[obj] \in {1, Writing}
    OBVIOUS
  <2>2. g = Without(f, obj)
    BY <2>1 DEF DecShare
  <2> HIDE DEF g
  <2>3. DOMAIN g = DOMAIN f \ {obj}
    BY <2>2, WithoutOne
  <2>4. \A q \in DOMAIN f \ {obj} : g[q] = f[q]
    BY <2>2, WithoutOne
  <2>5. \A q \in DOMAIN f \ {obj} : f[q] = 1
    OBVIOUS
  <2> QED BY <2>3, <2>4, <2>5
<1> HIDE DEF g
<1>2. IsFiniteSet(DOMAIN g) /\ Cardinality(DOMAIN g) = Cardinality(DOMAIN f) - 1
  BY <1>1, FS_RemoveElement
<1>3. Cardinality(DOMAIN f) \in Nat /\ FF_FS_LOCK \in Nat
  BY FS_CardinalityType, SlotsAssumption
<1>4. Cardinality(DOMAIN g) <= FF_FS_LOCK
  BY <1>2, <1>3
<1> QED BY <1>1, <1>2, <1>4 DEF g

(* A directory is opened that was not open, or an open one is closed.        *)
LEMMA ExactOpendir ==
  ASSUME NEW f, NEW h, NEW D, Exact(f, h, D), NEW t, NEW d, d \notin D,
         NEW o \in Opendir(t, f, d, Faulty)
  PROVE  /\ o.res = "FR_OK" => Exact(o.files, h, D \cup {d})
         /\ o.res # "FR_OK" => o.files = f
<1>1. CASE o.res # "FR_OK"
  BY <1>1 DEF Opendir
<1>2. CASE o.res = "FR_OK"
  <2>1. OpendirResult(t, f, d) = "FR_OK"
    BY <1>2 DEF Opendir
  <2>2. CASE d = <<>>
    <3>1. o.files = f
      BY <1>2, <2>2 DEF Opendir
    <3> QED BY <1>2, <2>2, <3>1 DEF Exact
  <2>3. CASE d # <<>>
    <3>1. Cluster(d) \notin DOMAIN f
      BY Objects DEF Exact
    <3>2. FreeSlots(f) # 0
      BY <2>1, <2>3, <3>1 DEF OpendirResult
    <3>3. o.files = IncShare(f, Cluster(d), 0)
      BY <1>2, <2>1, <2>3 DEF Opendir
    <3> DEFINE g == IncShare(f, Cluster(d), 0)
    <3>4. /\ DOMAIN g = DOMAIN f \cup {Cluster(d)} /\ \A x \in DOMAIN g : g[x] = 1
          /\ IsFiniteSet(DOMAIN g) /\ Cardinality(DOMAIN g) <= FF_FS_LOCK
      BY <3>1, <3>2, OneMore DEF Exact
    <3> HIDE DEF g
    <3>5. DOMAIN g = {Entry(p) : p \in h} \cup {Cluster(x) : x \in (D \cup {d}) \ {<<>>}}
      BY <2>3, <3>4 DEF Exact
    <3>6. Exact(g, h, D \cup {d})
      BY <3>4, <3>5 DEF Exact
    <3> QED BY <1>2, <3>3, <3>6 DEF g
  <2> QED BY <2>2, <2>3
<1> QED BY <1>1, <1>2

LEMMA ExactClosedir ==
  ASSUME NEW f, NEW h, NEW D, NEW d, d \notin D, Exact(f, h, D \cup {d})
  PROVE  Exact(Closedir(f, d), h, D)
<1>1. CASE d = <<>>
  BY <1>1 DEF Closedir, Exact
<1>2. CASE d # <<>>
  <2> DEFINE g == DecShare(f, Cluster(d))
  <2>1. Cluster(d) \in DOMAIN f
    BY <1>2 DEF Exact
  <2>2. /\ DOMAIN g = DOMAIN f \ {Cluster(d)} /\ \A x \in DOMAIN g : g[x] = 1
        /\ IsFiniteSet(DOMAIN g) /\ Cardinality(DOMAIN g) <= FF_FS_LOCK
    BY <2>1, OneLess DEF Exact
  <2> HIDE DEF g
  <2>3. DOMAIN g = {Entry(p) : p \in h} \cup {Cluster(x) : x \in D \ {<<>>}}
    <3>1. \A p : Entry(p) # Cluster(d)
      BY Objects
    <3>2. \A x \in D : Cluster(x) # Cluster(d)
      BY Objects
    <3> QED BY <1>2, <2>2, <3>1, <3>2 DEF Exact
  <2>4. Exact(g, h, D)
    BY <2>2, <2>3 DEF Exact
  <2> QED BY <1>2, <2>4 DEF Closedir, g
<1> QED BY <1>1, <1>2

(* What the host does.                                                       *)
LEMMA ExactHost ==
  ASSUME NEW D, Exact(files, host, D), HostActs
  PROVE  Exact(files', host', D)
<1>1. ASSUME NEW p, p \notin host, ChkShare(files, Entry(p), 0) = "FR_OK",
             host' = host \cup {p}, files' = IncShare(files, Entry(p), 0)
      PROVE  Exact(files', host', D)
  <2>1. Entry(p) \notin DOMAIN files
    BY <1>1, Objects DEF Exact
  <2>2. FreeSlots(files) # 0
    BY <1>1, <2>1 DEF ChkShare
  <2> DEFINE g == IncShare(files, Entry(p), 0)
  <2>3. /\ DOMAIN g = DOMAIN files \cup {Entry(p)} /\ \A x \in DOMAIN g : g[x] = 1
        /\ IsFiniteSet(DOMAIN g) /\ Cardinality(DOMAIN g) <= FF_FS_LOCK
    BY <2>1, <2>2, OneMore DEF Exact
  <2> HIDE DEF g
  <2>4. DOMAIN g = {Entry(q) : q \in host \cup {p}} \cup {Cluster(x) : x \in D \ {<<>>}}
    BY <2>3 DEF Exact
  <2>5. Exact(g, host \cup {p}, D)
    BY <2>3, <2>4 DEF Exact
  <2> QED BY <1>1, <2>5 DEF g
<1>2. ASSUME NEW p \in host, host' = host \ {p}, files' = DecShare(files, Entry(p))
      PROVE  Exact(files', host', D)
  <2> DEFINE g == DecShare(files, Entry(p))
  <2>1. Entry(p) \in DOMAIN files
    BY DEF Exact
  <2>2. /\ DOMAIN g = DOMAIN files \ {Entry(p)} /\ \A x \in DOMAIN g : g[x] = 1
        /\ IsFiniteSet(DOMAIN g) /\ Cardinality(DOMAIN g) <= FF_FS_LOCK
    BY <2>1, OneLess DEF Exact
  <2> HIDE DEF g
  <2>3. DOMAIN g = {Entry(q) : q \in host \ {p}} \cup {Cluster(x) : x \in D \ {<<>>}}
    <3>1. \A x : Entry(p) # Cluster(x)
      BY Objects
    <3>2. \A q \in host \ {p} : Entry(q) # Entry(p)
      BY Objects
    <3> QED BY <2>2, <3>1, <3>2 DEF Exact
  <2>4. Exact(g, host \ {p}, D)
    BY <2>2, <2>3 DEF Exact
  <2> QED BY <1>2, <2>4 DEF g
<1>3. CASE HostOpens
  <2>1. PICK p \in DOMAIN tree \ host : /\ ChkShare(files, Entry(p), 0) = "FR_OK"
                                        /\ host' = host \cup {p}
                                        /\ files' = IncShare(files, Entry(p), 0)
    BY <1>3 DEF HostOpens
  <2> QED BY <2>1, <1>1
<1>4. CASE HostCloses
  BY <1>4, <1>2 DEF HostCloses
<1> QED BY <1>3, <1>4 DEF HostActs

-----------------------------------------------------------------------------
(* What the active calls know of the buffer.  A call that has opened its     *)
(* directory finds its path at the start of the buffer, one name below that  *)
(* of its caller.  The innermost call has just its path there, except while  *)
(* it works on an entry: then it is the path of the entry.                   *)
InEntry == {"unlink", "child", "retry"}
InDirectory == {"progress", "read", "rmdir"}

Agree(st, ps) ==
  /\ \A i \in DOMAIN st : st[i].at # "open" =>
       /\ Len(st[i].dir) = st[i].pszEnd /\ IsPrefix(st[i].dir, ps)
       /\ i > 1 => st[i].dir # <<>> /\ Front(st[i].dir) = st[i-1].dir
  /\ st # <<>> =>
       /\ Last(st).at \in InDirectory => ps = Last(st).dir
       /\ Last(st).at \in InEntry => ps # <<>> /\ Front(ps) = Last(st).dir
       /\ Last(st).at = "open" /\ Len(st) > 1 => ps # <<>> /\ Front(ps) = st[Len(st)-1].dir

(* The directories of the calls that wait; they are all shorter than that of *)
(* the innermost, and so different from it.                                  *)
Ordered(st, ps) ==
  /\ \A i, j \in DOMAIN st : i < j /\ st[j].at # "open" => Len(st[i].dir) < Len(st[j].dir)
  /\ st # <<>> /\ Last(st).at = "open" =>
       \A i \in DOMAIN st : i < Len(st) => Len(st[i].dir) < Len(ps)

Holding == {"progress", "read", "unlink", "child"}
OpenAsTheyKnow(st) == \A i \in DOMAIN st : st[i].dirOpen <=> st[i].at \in Holding

Below(st) == {st[i].dir : i \in {j \in 1 .. Len(st) - 1 : st[j].dirOpen}}
Dirs(st) == {st[i].dir : i \in {j \in DOMAIN st : st[j].dirOpen}}
Held(fr) == IF fr.dirOpen THEN {fr.dir} ELSE {}

LEMMA StackShape ==
  ASSUME NEW st \in Seq(Frame), st # <<>>
  PROVE  /\ Len(st) \in Nat /\ Len(st) >= 1 /\ DOMAIN st = 1 .. Len(st)
         /\ Last(st) = st[Len(st)] /\ Last(st) \in Frame
         /\ \A i \in 1 .. Len(st) : st[i] \in Frame /\ st[i].dir \in Seq(Names)
                                    /\ Len(st[i].dir) \in Nat /\ st[i].pszEnd \in Nat
<1>1. Len(st) \in Nat /\ Len(st) >= 1 /\ DOMAIN st = 1 .. Len(st)
  BY EmptySeq, LenProperties
<1>2. \A i \in 1 .. Len(st) : st[i] \in Frame
  BY <1>1, ElementOfSeq
<1>3. \A fr \in Frame : fr.dir \in Seq(Names) /\ Len(fr.dir) \in Nat /\ fr.pszEnd \in Nat
  BY LenProperties DEF Frame
<1> QED BY <1>1, <1>2, <1>3 DEF Last

LEMMA DirsOf ==
  ASSUME NEW st \in Seq(Frame), st # <<>>
  PROVE  Dirs(st) = Below(st) \cup Held(Last(st))
<1>1. Len(st) \in Nat /\ Len(st) >= 1 /\ DOMAIN st = 1 .. Len(st) /\ Last(st) = st[Len(st)]
  BY StackShape
<1>2. ASSUME NEW d \in Dirs(st) PROVE d \in Below(st) \cup Held(Last(st))
  <2>1. PICK i \in 1 .. Len(st) : st[i].dirOpen /\ d = st[i].dir
    BY <1>1 DEF Dirs
  <2>2. CASE i = Len(st)
    BY <2>1, <2>2, <1>1 DEF Held
  <2>3. CASE i # Len(st)
    <3>1. \A n \in Nat : \A k \in 1 .. n : k # n => k \in 1 .. n - 1
      OBVIOUS
    <3>2. i \in 1 .. Len(st) - 1
      BY <2>3, <3>1, <1>1
    <3> QED BY <2>1, <3>2 DEF Below
  <2> QED BY <2>2, <2>3
<1>3. Below(st) \subseteq Dirs(st)
  <2>1. \A i \in 1 .. Len(st) - 1 : i \in DOMAIN st
    BY <1>1
  <2> QED BY <2>1 DEF Below, Dirs
<1>4. Held(Last(st)) \subseteq Dirs(st)
  <2>1. Len(st) \in DOMAIN st
    BY <1>1
  <2> QED BY <2>1, <1>1 DEF Held, Dirs
<1> QED BY <1>2, <1>3, <1>4

(* The innermost call's directory, once it has one, and the path it is about *)
(* to open are no other call's.                                              *)
LEMMA NewToTheRest ==
  ASSUME NEW st \in Seq(Frame), st # <<>>, NEW ps, Ordered(st, ps)
  PROVE  IF Last(st).at = "open" THEN ps \notin Below(st) ELSE Last(st).dir \notin Below(st)
<1>1. /\ Len(st) \in Nat /\ Len(st) >= 1 /\ DOMAIN st = 1 .. Len(st) /\ Last(st) = st[Len(st)]
      /\ \A i \in 1 .. Len(st) : Len(st[i].dir) \in Nat
  BY StackShape
<1>2. ASSUME NEW i \in 1 .. Len(st) - 1
      PROVE  IF Last(st).at = "open" THEN Len(st[i].dir) < Len(ps)
                                     ELSE Len(st[i].dir) < Len(Last(st).dir)
  <2>1. i \in DOMAIN st /\ Len(st) \in DOMAIN st /\ i < Len(st)
    BY <1>1
  <2> QED BY <2>1, <1>1 DEF Ordered
<1>3. \A i \in 1 .. Len(st) - 1 : IF Last(st).at = "open" THEN st[i].dir # ps
                                                       ELSE st[i].dir # Last(st).dir
  <2>1. \A i \in 1 .. Len(st) - 1 : i \in 1 .. Len(st)
    BY <1>1
  <2> QED BY <1>1, <1>2, <2>1
<1> QED BY <1>3 DEF Below

-----------------------------------------------------------------------------
(* How a step of the innermost call changes what the calls know.             *)
Shape(st, ps) == Agree(st, ps) /\ Ordered(st, ps) /\ OpenAsTheyKnow(st)

(* A path that is a prefix of the old buffer, and at most as long as one     *)
(* that is a prefix of the old and of the new, is a prefix of the new.       *)
LEMMA PrefixCarried ==
  ASSUME NEW S, NEW s \in Seq(S), NEW m \in Seq(S), NEW t \in Seq(S), NEW u \in Seq(S),
         IsPrefix(s, t), IsPrefix(m, t), IsPrefix(m, u), Len(s) <= Len(m)
  PROVE  IsPrefix(s, u)
<1>1. Len(s) \in Nat /\ Len(m) \in Nat /\ Len(t) \in Nat /\ Len(u) \in Nat
  BY LenProperties
<1>2. \A k \in 1 .. Len(s) : s[k] = t[k]
  BY PrefixToPoints
<1>3. Len(m) <= Len(t) /\ \A k \in 1 .. Len(m) : m[k] = t[k]
  BY PrefixToPoints
<1>4. Len(m) <= Len(u) /\ \A k \in 1 .. Len(m) : m[k] = u[k]
  BY PrefixToPoints
<1>5. \A k \in 1 .. Len(s) : k \in 1 .. Len(m)
  BY <1>1
<1>6. Len(s) <= Len(u) /\ \A k \in 1 .. Len(s) : s[k] = u[k]
  BY <1>1, <1>2, <1>3, <1>4, <1>5
<1> QED BY <1>6, PrefixFromPoints

(* The path of the innermost call: what it opened, or is about to open.      *)
OwnPath(st, ps) == IF Last(st).at = "open" THEN ps ELSE Last(st).dir

LEMMA OwnPathFacts ==
  ASSUME NEW st \in Seq(Frame), st # <<>>, NEW ps \in Seq(Names), Shape(st, ps)
  PROVE  /\ OwnPath(st, ps) \in Seq(Names) /\ IsPrefix(OwnPath(st, ps), ps)
         /\ Len(st) > 1 => /\ OwnPath(st, ps) # <<>>
                           /\ Front(OwnPath(st, ps)) = st[Len(st)-1].dir
         /\ \A i \in 1 .. Len(st) - 1 : Len(st[i].dir) < Len(OwnPath(st, ps))
<1>1. /\ Len(st) \in Nat /\ Len(st) >= 1 /\ DOMAIN st = 1 .. Len(st)
      /\ Last(st) = st[Len(st)] /\ Last(st).dir \in Seq(Names)
  BY StackShape
<1>2. Len(st) \in DOMAIN st /\ \A i \in 1 .. Len(st) - 1 : i \in DOMAIN st /\ i < Len(st)
  BY <1>1
<1>3. CASE Last(st).at = "open"
  <2>1. IsPrefix(ps, ps)
    BY PrefixOfItself
  <2> QED BY <1>1, <1>2, <1>3, <2>1 DEF OwnPath, Shape, Agree, Ordered
<1>4. CASE Last(st).at # "open"
  BY <1>1, <1>2, <1>4 DEF OwnPath, Shape, Agree, Ordered
<1> QED BY <1>3, <1>4

LEMMA Indices ==
  ASSUME NEW n \in Nat, NEW i \in 1 .. n
  PROVE  /\ i = n \/ i \in 1 .. n - 1
         /\ i > 1 => i - 1 \in 1 .. n - 1
OBVIOUS

LEMMA LowerIndices ==
  ASSUME NEW n \in Nat, NEW i \in 1 .. n - 1
  PROVE  i \in 1 .. n /\ i < n /\ i # n
OBVIOUS

(* Its next statement.                                                       *)
LEMMA TopReplaced ==
  ASSUME NEW st \in Seq(Frame), st # <<>>, NEW fr \in Frame
  PROVE  LET st2 == [st EXCEPT ![Len(st)] = fr]
         IN  /\ st2 \in Seq(Frame) /\ st2 # <<>> /\ Len(st2) = Len(st) /\ Last(st2) = fr
             /\ DOMAIN st2 = 1 .. Len(st) /\ st2[Len(st)] = fr
             /\ \A i \in 1 .. Len(st) - 1 : st2[i] = st[i]
<1> DEFINE st2 == [st EXCEPT ![Len(st)] = fr]
<1>1. Len(st) \in Nat /\ Len(st) >= 1 /\ DOMAIN st = 1 .. Len(st)
  BY StackShape
<1>2. Len(st) \in DOMAIN st /\ Len(st) \in 1 .. Len(st)
  BY <1>1
<1>3. st2 \in Seq(Frame) /\ Len(st2) = Len(st)
  BY <1>2, ExceptSeq
<1>4. st2[Len(st)] = fr
  BY <1>2
<1>5. ASSUME NEW i \in 1 .. Len(st) - 1 PROVE st2[i] = st[i]
  <2>1. i \in DOMAIN st /\ i # Len(st)
    BY <1>1, LowerIndices
  <2>2. \A j \in DOMAIN st : j # Len(st) => st2[j] = st[j]
    OBVIOUS
  <2> HIDE DEF st2
  <2> QED BY <2>1, <2>2
<1> HIDE DEF st2
<1>6. DOMAIN st2 = 1 .. Len(st) /\ st2 # <<>>
  <2>1. DOMAIN st2 = 1 .. Len(st2)
    BY <1>3, LenProperties
  <2>2. Len(st2) # 0
    BY <1>1, <1>3
  <2> QED BY <1>3, <2>1, <2>2, EmptySeq
<1>7. Last(st2) = fr
  BY <1>3, <1>4 DEF Last
<1> QED BY <1>3, <1>4, <1>5, <1>6, <1>7 DEF st2

LEMMA BelowSame ==
  ASSUME NEW st, NEW st2, Len(st2) = Len(st), \A i \in 1 .. Len(st) - 1 : st2[i] = st[i]
  PROVE  Below(st2) = Below(st)
BY DEF Below

LEMMA ShapeSetTop ==
  ASSUME NEW st \in Seq(Frame), st # <<>>, NEW ps \in Seq(Names), Shape(st, ps),
         \A i \in 1 .. Len(st) - 1 : st[i].at \in Waiting,
         NEW fr \in Frame, NEW ps2 \in Seq(Names), fr.at # "open",
         fr.dir = OwnPath(st, ps), Len(fr.dir) = fr.pszEnd, IsPrefix(fr.dir, ps2),
         fr.at \in InDirectory => ps2 = fr.dir,
         fr.at \in InEntry => ps2 # <<>> /\ Front(ps2) = fr.dir,
         fr.dirOpen <=> fr.at \in Holding
  PROVE  LET st2 == [st EXCEPT ![Len(st)] = fr]
         IN  st2 \in Seq(Frame) /\ st2 # <<>> /\ Shape(st2, ps2) /\ Dirs(st2) = Below(st) \cup Held(fr)
<1> DEFINE st2 == [st EXCEPT ![Len(st)] = fr]
<1>1. /\ Len(st) \in Nat /\ Len(st) >= 1 /\ DOMAIN st = 1 .. Len(st)
      /\ \A i \in 1 .. Len(st) : st[i].dir \in Seq(Names) /\ Len(st[i].dir) \in Nat
      /\ fr.dir \in Seq(Names) /\ Len(fr.dir) \in Nat
  BY StackShape, LenProperties DEF Frame
<1>2. /\ st2 \in Seq(Frame) /\ st2 # <<>> /\ Len(st2) = Len(st) /\ Last(st2) = fr
      /\ DOMAIN st2 = 1 .. Len(st) /\ st2[Len(st)] = fr
      /\ \A i \in 1 .. Len(st) - 1 : st2[i] = st[i]
  BY TopReplaced
<1> HIDE DEF st2
<1>3. /\ IsPrefix(fr.dir, ps)
      /\ Len(st) > 1 => fr.dir # <<>> /\ Front(fr.dir) = st[Len(st)-1].dir
      /\ \A i \in 1 .. Len(st) - 1 : Len(st[i].dir) < Len(fr.dir)
  BY OwnPathFacts
<1>4. ASSUME NEW i \in 1 .. Len(st) - 1
      PROVE  /\ Len(st[i].dir) = st[i].pszEnd /\ IsPrefix(st[i].dir, ps)
             /\ i > 1 => st[i].dir # <<>> /\ Front(st[i].dir) = st[i-1].dir
  <2>1. i \in DOMAIN st
    BY <1>1, LowerIndices
  <2>2. st[i].at # "open"
    BY DEF Waiting
  <2> QED BY <2>1, <2>2 DEF Shape, Agree
<1>5. ASSUME NEW i \in 1 .. Len(st) - 1 PROVE IsPrefix(st[i].dir, ps2)
  <2>1. i \in 1 .. Len(st)
    BY <1>1, LowerIndices
  <2>2. st[i].dir \in Seq(Names) /\ Len(st[i].dir) <= Len(fr.dir)
    BY <2>1, <1>1, <1>3
  <2>3. IsPrefix(st[i].dir, ps) /\ IsPrefix(fr.dir, ps) /\ IsPrefix(fr.dir, ps2)
    BY <1>3, <1>4
  <2> QED BY <2>2, <2>3, <1>1, PrefixCarried
<1>6. Agree(st2, ps2)
  <2>1. ASSUME NEW i \in 1 .. Len(st)
        PROVE  /\ Len(st2[i].dir) = st2[i].pszEnd /\ IsPrefix(st2[i].dir, ps2)
               /\ i > 1 => st2[i].dir # <<>> /\ Front(st2[i].dir) = st2[i-1].dir
    <3>1. CASE i = Len(st)
      <4>1. i > 1 => st2[i-1] = st[i-1]
        BY <1>1, <1>2, Indices
      <4>2. st2[i] = fr
        BY <3>1, <1>2
      <4>3. Len(st) > 1 => fr.dir # <<>> /\ Front(fr.dir) = st[Len(st)-1].dir
        BY <1>3
      <4> QED BY <4>1, <4>2, <4>3, <3>1
    <3>2. CASE i \in 1 .. Len(st) - 1
      <4>1. i > 1 => st2[i-1] = st[i-1]
        BY <1>1, <1>2, Indices
      <4>2. st2[i] = st[i]
        BY <3>2, <1>2
      <4> QED BY <4>1, <4>2, <3>2, <1>4, <1>5
    <3> QED BY <3>1, <3>2, <1>1, Indices
  <2> QED BY <2>1, <1>2 DEF Agree
<1>7. Ordered(st2, ps2)
  <2>1. ASSUME NEW i \in 1 .. Len(st), NEW j \in 1 .. Len(st), i < j
        PROVE  Len(st2[i].dir) < Len(st2[j].dir)
    <3>1. i \in 1 .. Len(st) - 1 /\ st2[i] = st[i]
      BY <2>1, <1>1, <1>2
    <3>2. CASE j = Len(st)
      BY <3>1, <3>2, <1>2, <1>3
    <3>3. CASE j \in 1 .. Len(st) - 1
      <4>1. st2[j] = st[j] /\ st[j].at # "open"
        BY <3>3, <1>2 DEF Waiting
      <4> QED BY <4>1, <3>1, <2>1, <1>1 DEF Shape, Ordered
    <3> QED BY <3>2, <3>3, <1>1, Indices
  <2> QED BY <2>1, <1>2 DEF Ordered
<1>8. OpenAsTheyKnow(st2)
  <2>1. ASSUME NEW i \in 1 .. Len(st) PROVE st2[i].dirOpen <=> st2[i].at \in Holding
    <3>1. CASE i = Len(st)
      BY <3>1, <1>2
    <3>2. CASE i \in 1 .. Len(st) - 1
      BY <3>2, <1>1, <1>2 DEF Shape, OpenAsTheyKnow
    <3> QED BY <3>1, <3>2, <1>1, Indices
  <2> QED BY <2>1, <1>2 DEF OpenAsTheyKnow
<1>9. Dirs(st2) = Below(st) \cup Held(fr)
  BY <1>2, DirsOf, BelowSame
<1> QED BY <1>2, <1>6, <1>7, <1>8, <1>9 DEF Shape, st2

(* It calls itself.                                                          *)
LEMMA ShapePush ==
  ASSUME NEW st \in Seq(Frame), st # <<>>, NEW ps \in Seq(Names), Shape(st, ps),
         \A i \in 1 .. Len(st) : st[i].at \in Waiting
  PROVE  LET st2 == Append(st, NewFrame)
         IN  st2 \in Seq(Frame) /\ st2 # <<>> /\ Shape(st2, ps) /\ Dirs(st2) = Dirs(st)
<1> DEFINE st2 == Append(st, NewFrame)
           n   == Len(st)
<1>1. /\ n \in Nat /\ n >= 1 /\ DOMAIN st = 1 .. n
      /\ Last(st) = st[n] /\ Last(st).dir \in Seq(Names)
      /\ \A i \in 1 .. n : Len(st[i].dir) \in Nat
  BY StackShape
<1>2. NewFrame \in Frame /\ NewFrame.at = "open" /\ NewFrame.dirOpen = FALSE
  BY EmptySeq DEF NewFrame, Frame
<1>3. /\ st2 \in Seq(Frame) /\ Len(st2) = n + 1 /\ st2[n + 1] = NewFrame
      /\ \A i \in 1 .. n : st2[i] = st[i]
  BY <1>2, AppendProperties
<1> HIDE DEF st2, n
<1>4. DOMAIN st2 = 1 .. n + 1 /\ st2 # <<>> /\ Last(st2) = NewFrame
  <2>1. DOMAIN st2 = 1 .. n + 1
    BY <1>3, LenProperties
  <2>2. Len(st2) # 0
    BY <1>1, <1>3
  <2> QED BY <1>3, <2>1, <2>2, EmptySeq DEF Last
<1>5. \A i \in 1 .. n + 1 : i = n + 1 \/ i \in 1 .. n
  BY <1>1
<1>6. \A i \in 1 .. n : i > 1 => i - 1 \in 1 .. n
  BY <1>1
<1>7. n \in 1 .. n /\ n # n + 1 /\ (n + 1) - 1 = n /\ n + 1 > 1
  BY <1>1
<1>8. Last(st).at \in InEntry /\ Last(st).at # "open"
  BY <1>1, <1>7 DEF n, Waiting, InEntry
<1>9. ps # <<>> /\ Front(ps) = st[n].dir
  BY <1>1, <1>8 DEF Shape, Agree
<1>10. \A i \in 1 .. n : st[i].at # "open"
  BY DEF n, Waiting
<1>11. Agree(st2, ps)
  <2>1. ASSUME NEW i \in 1 .. n
        PROVE  /\ Len(st2[i].dir) = st2[i].pszEnd /\ IsPrefix(st2[i].dir, ps)
               /\ i > 1 => st2[i].dir # <<>> /\ Front(st2[i].dir) = st2[i-1].dir
    <3>1. st2[i] = st[i] /\ i \in DOMAIN st /\ st[i].at # "open"
      BY <1>1, <1>3, <1>10
    <3>2. i > 1 => st2[i-1] = st[i-1]
      BY <1>3, <1>6
    <3> QED BY <3>1, <3>2 DEF Shape, Agree
  <2>2. \A i \in DOMAIN st2 : st2[i].at # "open" => i \in 1 .. n
    BY <1>2, <1>3, <1>4, <1>5
  <2>3. Last(st2).at = "open" /\ st2[Len(st2) - 1] = st[n]
    BY <1>2, <1>3, <1>4, <1>7
  <2>4. Last(st2).at \notin InDirectory /\ Last(st2).at \notin InEntry
    BY <2>3 DEF InDirectory, InEntry
  <2> QED BY <2>1, <2>2, <2>3, <2>4, <1>9 DEF Agree
<1>12. Ordered(st2, ps)
  <2>1. \A i, j \in 1 .. n : i < j => Len(st[i].dir) < Len(st[j].dir)
    BY <1>1, <1>10 DEF Shape, Ordered
  <2>2. Len(st[n].dir) < Len(ps)
    BY <1>9, FrontFacts, NonEmpty
  <2>3. ASSUME NEW i \in 1 .. n PROVE Len(st[i].dir) < Len(ps)
    <3>1. CASE i = n
      BY <2>2, <3>1
    <3>2. CASE i # n
      <4>1. i < n
        BY <3>2, <1>1
      <4>2. Len(st[i].dir) < Len(st[n].dir)
        BY <4>1, <2>1, <1>7
      <4> QED BY <4>2, <2>2, <1>1, <1>7, LenProperties
    <3> QED BY <3>1, <3>2
  <2>4. \A i, j \in DOMAIN st2 : i < j /\ st2[j].at # "open" => i \in 1 .. n /\ j \in 1 .. n
    BY <1>1, <1>2, <1>3, <1>4, <1>5
  <2>5. \A i \in DOMAIN st2 : i < Len(st2) => i \in 1 .. n
    BY <1>1, <1>3, <1>4
  <2> QED BY <2>1, <2>3, <2>4, <2>5, <1>3 DEF Ordered
<1>13. OpenAsTheyKnow(st2)
  <2>1. ASSUME NEW i \in 1 .. n PROVE st2[i].dirOpen <=> st2[i].at \in Holding
    BY <1>1, <1>3 DEF Shape, OpenAsTheyKnow
  <2>2. st2[n + 1].dirOpen <=> st2[n + 1].at \in Holding
    BY <1>2, <1>3 DEF Holding
  <2> QED BY <2>1, <2>2, <1>4, <1>5 DEF OpenAsTheyKnow
<1>14. Dirs(st2) = Dirs(st)
  <2>1. \A i \in DOMAIN st2 : st2[i].dirOpen => i \in 1 .. n
    BY <1>2, <1>3, <1>4, <1>5
  <2>2. \A i \in 1 .. n : i \in DOMAIN st2 /\ st2[i] = st[i]
    BY <1>1, <1>3, <1>4
  <2> QED BY <2>1, <2>2, <1>1 DEF Dirs
<1> QED BY <1>3, <1>4, <1>11, <1>12, <1>13, <1>14 DEF Shape, st2

(* It returns, and leaves its own path in the buffer.                        *)
LEMMA ShapePop ==
  ASSUME NEW st \in Seq(Frame), st # <<>>, NEW ps \in Seq(Names), Shape(st, ps),
         \A i \in 1 .. Len(st) - 1 : st[i].at \in Waiting
  PROVE  Shape(Front(st), OwnPath(st, ps)) /\ Dirs(Front(st)) = Below(st)
<1> DEFINE st2 == Front(st)
           n   == Len(st) - 1
           own == OwnPath(st, ps)
<1>1. /\ Len(st) \in Nat /\ Len(st) >= 1 /\ DOMAIN st = 1 .. Len(st)
      /\ \A i \in 1 .. Len(st) : st[i].dir \in Seq(Names) /\ Len(st[i].dir) \in Nat
  BY StackShape
<1>2. st2 \in Seq(Frame) /\ Len(st2) = n /\ \A i \in 1 .. n : st2[i] = st[i]
  BY FrontFacts
<1>3. /\ own \in Seq(Names) /\ IsPrefix(own, ps)
      /\ Len(st) > 1 => own # <<>> /\ Front(own) = st[n].dir
      /\ \A i \in 1 .. n : Len(st[i].dir) < Len(own)
  BY OwnPathFacts
<1>4. n \in Nat /\ Len(st) = n + 1
  BY <1>1
<1>5. /\ \A i \in 1 .. n : i \in 1 .. Len(st)
      /\ \A i \in 1 .. n : i > 1 => i - 1 \in 1 .. n
      /\ n >= 1 => n \in 1 .. n /\ Len(st) > 1
  BY <1>1
<1>6. DOMAIN st2 = 1 .. n
  BY <1>2, LenProperties
<1>7. \A i \in 1 .. n : st[i].at \in Waiting /\ st[i].at # "open"
  BY DEF Waiting
<1> HIDE DEF st2, n, own
<1>8. st2 # <<>> => n >= 1 /\ Last(st2) = st[n] /\ Last(st2).at \in Waiting
  <2>1. st2 # <<>> => n >= 1
    BY <1>2, <1>4, NonEmpty
  <2> QED BY <2>1, <1>2, <1>5, <1>7 DEF Last
<1>9. ASSUME NEW i \in 1 .. n
      PROVE  /\ st2[i] = st[i]
             /\ Len(st[i].dir) = st[i].pszEnd /\ IsPrefix(st[i].dir, own)
             /\ i > 1 => st2[i].dir # <<>> /\ Front(st2[i].dir) = st2[i-1].dir
  <2>1. i \in DOMAIN st /\ st[i].at # "open" /\ st2[i] = st[i]
    BY <1>1, <1>2, <1>5, <1>7
  <2>2. i > 1 => st2[i-1] = st[i-1]
    BY <1>2, <1>5
  <2>3. /\ Len(st[i].dir) = st[i].pszEnd /\ IsPrefix(st[i].dir, ps)
        /\ i > 1 => st[i].dir # <<>> /\ Front(st[i].dir) = st[i-1].dir
    BY <2>1 DEF Shape, Agree
  <2>4. st[i].dir \in Seq(Names) /\ Len(st[i].dir) <= Len(own)
    BY <1>1, <1>3, <1>5, LenProperties
  <2>5. IsPrefix(own, own)
    BY <1>3, PrefixOfItself
  <2>6. IsPrefix(st[i].dir, own)
    BY <2>3, <2>4, <2>5, <1>3, PrefixCarried
  <2> QED BY <2>1, <2>2, <2>3, <2>6
<1>10. Agree(st2, own)
  <2>1. st2 # <<>> => own # <<>> /\ Front(own) = Last(st2).dir
    BY <1>3, <1>5, <1>8
  <2>2. \A w \in Waiting : w \notin InDirectory /\ w # "open"
    BY DEF Waiting, InDirectory
  <2> QED BY <2>1, <2>2, <1>6, <1>8, <1>9 DEF Agree
<1>11. Ordered(st2, own)
  <2>1. ASSUME NEW i \in 1 .. n, NEW j \in 1 .. n, i < j PROVE Len(st[i].dir) < Len(st[j].dir)
    BY <2>1, <1>1, <1>5, <1>7 DEF Shape, Ordered
  <2> QED BY <2>1, <1>2, <1>3, <1>6 DEF Ordered
<1>12. OpenAsTheyKnow(st2)
  BY <1>1, <1>2, <1>5, <1>6 DEF Shape, OpenAsTheyKnow
<1>13. Dirs(st2) = Below(st)
  BY <1>2, <1>6 DEF Dirs, Below, n
<1> QED BY <1>10, <1>11, <1>12, <1>13 DEF Shape, st2, own

-----------------------------------------------------------------------------
(* The invariant: what the calls know, and the table.                        *)
Books == Shape(stack, psz) /\ Exact(files, host, Dirs(stack))

(* The innermost call and the table.                                         *)
LEMMA TopFacts ==
  ASSUME Contained, Books, stack # <<>>
  PROVE  /\ stack \in Seq(Frame) /\ psz \in Seq(Names) /\ Top \in Frame /\ Top.dir \in Seq(Names)
         /\ \A i \in 1 .. Len(stack) - 1 : stack[i].at \in Waiting
         /\ OwnPath(stack, psz) = IF Top.at = "open" THEN psz ELSE Top.dir
         /\ OwnPath(stack, psz) \notin Below(stack)
         /\ Top.dirOpen <=> Top.at \in Holding
         /\ Exact(files, host, Below(stack) \cup Held(Top))
<1>1. stack \in Seq(Frame) /\ psz \in Seq(Names)
  BY DEF Contained
<1>2. /\ Len(stack) \in DOMAIN stack /\ Top \in Frame /\ Top = stack[Len(stack)]
      /\ \A i \in 1 .. Len(stack) - 1 : stack[i].at \in Waiting
  BY StackFacts
<1>3. Top.dir \in Seq(Names)
  BY <1>2 DEF Frame
<1>4. OwnPath(stack, psz) = IF Top.at = "open" THEN psz ELSE Top.dir
  BY DEF OwnPath, Top
<1>5. OwnPath(stack, psz) \notin Below(stack)
  BY <1>1, NewToTheRest DEF Books, Shape, OwnPath
<1>6. Top.dirOpen <=> Top.at \in Holding
  BY <1>2 DEF Books, Shape, OpenAsTheyKnow
<1>7. Exact(files, host, Below(stack) \cup Held(Top))
  BY <1>1, DirsOf DEF Books, Top
<1> QED BY <1>1, <1>2, <1>3, <1>4, <1>5, <1>6, <1>7

LEMMA OwnBuffer ==
  ASSUME Contained, Books, stack # <<>>, Top.at # "open"
  PROVE  /\ Len(Top.dir) = Top.pszEnd /\ IsPrefix(Top.dir, psz)
         /\ Trimmed = Top.dir
         /\ Top.at \in InDirectory => psz = Top.dir
<1>1. Len(stack) \in DOMAIN stack /\ Top = stack[Len(stack)] /\ Top = Last(stack)
  BY StackFacts DEF Top
<1>2. /\ Len(Top.dir) = Top.pszEnd /\ IsPrefix(Top.dir, psz)
      /\ Top.at \in InDirectory => psz = Top.dir
  BY <1>1 DEF Books, Shape, Agree
<1>3. Top.dir \in Seq(Names)
  BY TopFacts
<1>4. SubSeq(Top.dir, 1, Len(Top.dir)) = Top.dir
  BY <1>3, SubSeqFull
<1> QED BY <1>2, <1>4 DEF IsPrefix, Trimmed

(* Its directory closed.                                                     *)
LEMMA ClosedTable ==
  ASSUME Contained, Books, stack # <<>>, Top.at \in Holding
  PROVE  Exact(Closed, host, Below(stack))
<1>1. Held(Top) = {Top.dir}
  BY TopFacts DEF Held
<1>2. Top.at # "open"
  BY DEF Holding
<1>3. Top.dir \notin Below(stack) /\ Exact(files, host, Below(stack) \cup {Top.dir})
  BY <1>1, <1>2, TopFacts
<1> QED BY <1>3, ExactClosedir DEF Closed

LEMMA ReturnBooks ==
  ASSUME Contained, Books, stack # <<>>, stack' = Front(stack),
         psz' = OwnPath(stack, psz), Exact(files', host', Below(stack))
  PROVE  Books'
<1>1. Shape(stack', psz') /\ Dirs(stack') = Below(stack)
  BY TopFacts, ShapePop DEF Books
<1> QED BY <1>1 DEF Books

LEMMA SetTopBooks ==
  ASSUME Contained, Books, stack # <<>>, psz' \in Seq(Names),
         NEW fr \in Frame, SetTop(fr), fr.at # "open",
         fr.dir = OwnPath(stack, psz), Len(fr.dir) = fr.pszEnd, IsPrefix(fr.dir, psz'),
         fr.at \in InDirectory => psz' = fr.dir,
         fr.at \in InEntry => psz' # <<>> /\ Front(psz') = fr.dir,
         fr.dirOpen <=> fr.at \in Holding,
         Exact(files', host', Below(stack) \cup Held(fr))
  PROVE  Books'
<1>1. stack' = [stack EXCEPT ![Len(stack)] = fr]
  BY DEF SetTop
<1>2. Shape(stack', psz') /\ Dirs(stack') = Below(stack) \cup Held(fr)
  BY <1>1, TopFacts, ShapeSetTop DEF Books
<1> QED BY <1>2 DEF Books

LEMMA SuspendBooks ==
  ASSUME Contained, Books, stack # <<>>, Top.at # "open", psz' \in Seq(Names),
         NEW fr \in Frame, Suspend(fr), fr.at \in Waiting,
         fr.dir = Top.dir, fr.pszEnd = Top.pszEnd,
         IsPrefix(fr.dir, psz'), psz' # <<>>, Front(psz') = fr.dir,
         fr.dirOpen <=> fr.at \in Holding,
         Exact(files', host', Below(stack) \cup Held(fr))
  PROVE  Books'
<1> DEFINE st == [stack EXCEPT ![Len(stack)] = fr]
<1>1. stack' = Append(st, NewFrame)
  BY DEF Suspend
<1>2. /\ fr.dir = OwnPath(stack, psz) /\ Len(fr.dir) = fr.pszEnd
      /\ fr.at # "open" /\ fr.at \notin InDirectory
  BY TopFacts, OwnBuffer DEF Waiting, InDirectory
<1>3. /\ stack \in Seq(Frame) /\ psz \in Seq(Names) /\ Shape(stack, psz)
      /\ \A i \in 1 .. Len(stack) - 1 : stack[i].at \in Waiting
  BY TopFacts DEF Books
<1>4. st \in Seq(Frame) /\ st # <<>> /\ Shape(st, psz') /\ Dirs(st) = Below(stack) \cup Held(fr)
  BY <1>2, <1>3, ShapeSetTop
<1>5. \A i \in 1 .. Len(st) : st[i].at \in Waiting
  <2>1. /\ Len(st) = Len(stack) /\ st[Len(stack)] = fr
        /\ \A i \in 1 .. Len(stack) - 1 : st[i] = stack[i]
    BY <1>3, TopReplaced
  <2>2. Len(stack) \in Nat
    BY <1>3, LenProperties
  <2> HIDE DEF st
  <2> QED BY <2>1, <2>2, <1>3, Indices
<1> HIDE DEF st
<1>6. Shape(stack', psz') /\ Dirs(stack') = Below(stack) \cup Held(fr)
  BY <1>1, <1>4, <1>5, ShapePush
<1> QED BY <1>6 DEF Books

-----------------------------------------------------------------------------
(* The steps.                                                                *)

LEMMA OpenDirBooks ==
  ASSUME Contained, Books, OpenDir
  PROVE  Books'
<1>1. stack # <<>> /\ Top.at = "open" /\ psz' = psz /\ host' = host
  BY DEF OpenDir, AtTop
<1>2. PICK o \in Opendir(tree, files, psz, Faulty) :
        /\ files' = o.files
        /\ IF o.res = "FR_OK"
             THEN SetTop([at |-> "progress", dir |-> psz, dirOpen |-> TRUE,
                          seen |-> {}, pszEnd |-> Len(psz)])
             ELSE Return(o.res)
  BY DEF OpenDir
<1>3. Held(Top) = {}
  BY <1>1, TopFacts DEF Held, Holding
<1>4. OwnPath(stack, psz) = psz /\ psz \notin Below(stack) /\ Exact(files, host, Below(stack))
  BY <1>1, <1>3, TopFacts
<1>5. /\ o.res = "FR_OK" => Exact(o.files, host, Below(stack) \cup {psz})
      /\ o.res # "FR_OK" => o.files = files
  <2>1. o \in Opendir(tree, files, psz, Faulty)
    BY <1>2
  <2> QED BY <2>1, <1>4, ExactOpendir
<1>6. CASE o.res = "FR_OK"
  <2> DEFINE fr == [at |-> "progress", dir |-> psz, dirOpen |-> TRUE,
                    seen |-> {}, pszEnd |-> Len(psz)]
  <2>1. fr \in Frame /\ fr.at = "progress" /\ fr.pszEnd = Len(psz)
    BY OpenFrame DEF Contained
  <2>2. fr.dir = psz /\ fr.dirOpen = TRUE
    OBVIOUS
  <2>3. SetTop(fr)
    BY <1>2, <1>6
  <2> HIDE DEF fr
  <2>4. Held(fr) = {psz} /\ psz' \in Seq(Names) /\ IsPrefix(psz, psz')
    BY <1>1, <2>2, PrefixOfItself DEF Held, Contained
  <2>5. Exact(files', host', Below(stack) \cup Held(fr))
    BY <1>1, <1>2, <1>5, <1>6, <2>4
  <2> QED BY <1>1, <1>4, <2>1, <2>2, <2>3, <2>4, <2>5, SetTopBooks DEF Holding, InEntry
<1>7. CASE o.res # "FR_OK"
  <2>1. stack' = Front(stack)
    BY <1>2, <1>7 DEF Return
  <2>2. Exact(files', host', Below(stack))
    BY <1>1, <1>2, <1>4, <1>5, <1>7
  <2> QED BY <1>1, <1>4, <2>1, <2>2, ReturnBooks
<1> QED BY <1>6, <1>7

LEMMA ProgressBooks ==
  ASSUME Contained, Books, Progress
  PROVE  Books'
<1> DEFINE fr == [Top EXCEPT !.at = "read"]
<1>1. stack # <<>> /\ Top.at = "progress" /\ SetTop(fr) /\ psz' = psz
  BY DEF Progress, AtTop
<1>2. Top \in Frame /\ Top.dirOpen /\ OwnPath(stack, psz) = Top.dir /\ psz \in Seq(Names)
  BY <1>1, TopFacts DEF Holding
<1>3. Len(Top.dir) = Top.pszEnd /\ IsPrefix(Top.dir, psz) /\ psz = Top.dir
  BY <1>1, OwnBuffer DEF InDirectory
<1>4. fr \in Frame /\ fr.at = "read" /\ fr.pszEnd = Top.pszEnd
  BY <1>2, FrameMoves DEF Places
<1>5. fr.dir = Top.dir /\ fr.dirOpen = Top.dirOpen
  BY <1>2 DEF Frame
<1> HIDE DEF fr
<1>6. Held(fr) = Held(Top)
  BY <1>5 DEF Held
<1>7. Exact(files', host', Below(stack) \cup Held(fr))
  <2>1. Exact(files, host, Below(stack) \cup Held(fr))
    BY <1>1, <1>6, TopFacts
  <2>2. HostActs \/ UNCHANGED <<files, host>>
    BY DEF Progress
  <2> QED BY <2>1, <2>2, ExactHost
<1> QED BY <1>1, <1>2, <1>3, <1>4, <1>5, <1>7, SetTopBooks DEF Holding, InEntry

LEMMA ReadFailsBooks ==
  ASSUME Contained, Books, ReadFails
  PROVE  Books'
<1>1. /\ stack # <<>> /\ Top.at = "read" /\ stack' = Front(stack)
      /\ files' = Closed /\ host' = host /\ psz' = psz
  BY DEF ReadFails, AtTop, Return
<1>2. psz = Top.dir /\ OwnPath(stack, psz) = Top.dir
  BY <1>1, OwnBuffer, TopFacts DEF InDirectory
<1>3. Exact(Closed, host, Below(stack))
  BY <1>1, ClosedTable DEF Holding
<1> QED BY <1>1, <1>2, <1>3, ReturnBooks

LEMMA ReadEndBooks ==
  ASSUME Contained, Books, ReadEnd
  PROVE  Books'
<1> DEFINE fr == [Top EXCEPT !.at = "rmdir", !.dirOpen = FALSE]
<1>1. /\ stack # <<>> /\ Top.at = "read" /\ SetTop(fr)
      /\ psz' = psz /\ files' = Closed /\ host' = host
  BY DEF ReadEnd, AtTop
<1>2. Top \in Frame /\ OwnPath(stack, psz) = Top.dir /\ psz \in Seq(Names)
  BY <1>1, TopFacts
<1>3. Len(Top.dir) = Top.pszEnd /\ IsPrefix(Top.dir, psz) /\ psz = Top.dir
  BY <1>1, OwnBuffer DEF InDirectory
<1>4. fr \in Frame /\ fr.at = "rmdir" /\ fr.pszEnd = Top.pszEnd
  BY <1>2, FrameMoves DEF Places
<1>5. fr.dir = Top.dir /\ fr.dirOpen = FALSE
  BY <1>2 DEF Frame
<1> HIDE DEF fr
<1>6. Held(fr) = {}
  BY <1>5 DEF Held
<1>7. Exact(files', host', Below(stack) \cup Held(fr))
  BY <1>1, <1>6, ClosedTable DEF Holding
<1> QED BY <1>1, <1>2, <1>3, <1>4, <1>5, <1>7, SetTopBooks DEF Holding, InEntry

LEMMA Appended ==
  ASSUME NEW path \in Seq(Names), NEW name \in Names
  PROVE  LET longer == Append(path, name)
         IN  longer \in Seq(Names) /\ longer # <<>> /\ Front(longer) = path /\ IsPrefix(path, longer)
<1> DEFINE longer == Append(path, name)
<1>1. /\ longer \in Seq(Names) /\ Len(longer) = Len(path) + 1
      /\ \A k \in 1 .. Len(path) : longer[k] = path[k]
  BY AppendProperties
<1>2. IsPrefix(path, longer)
  BY PrefixOfItself, PrefixOfLonger
<1> HIDE DEF longer
<1>3. longer # <<>>
  BY <1>1, EmptySeq, LenProperties
<1>4. Front(longer) \in Seq(Names) /\ Len(Front(longer)) = Len(path)
      /\ \A k \in 1 .. Len(path) : Front(longer)[k] = path[k]
  BY <1>1, <1>3, FrontFacts, LenProperties
<1>5. Front(longer) = path
  BY <1>4, SeqEqual
<1> QED BY <1>1, <1>2, <1>3, <1>5 DEF longer

LEMMA ReadEntryBooks ==
  ASSUME Contained, Books, Volume, ReadEntry
  PROVE  Books'
<1>1. stack # <<>> /\ Top.at = "read" /\ files' = files /\ host' = host
  BY DEF ReadEntry, AtTop
<1>2. PICK p \in Unread :
        /\ psz' = Append(psz, Last(p))
        /\ IF tree[p].dir
             THEN Suspend([[Top EXCEPT !.seen = @ \cup {Last(p)}] EXCEPT !.at = "child"])
             ELSE SetTop([[Top EXCEPT !.seen = @ \cup {Last(p)}] EXCEPT !.at = "unlink"])
  BY DEF ReadEntry
<1>3. Last(p) \in Names
  <2>1. p \in Seq(Names) /\ p # <<>>
    BY DEF Unread, Children, Volume
  <2> QED BY <2>1, NonEmpty, ElementOfSeq DEF Last
<1>4. /\ Top \in Frame /\ Top.dirOpen /\ OwnPath(stack, psz) = Top.dir /\ psz \in Seq(Names)
      /\ Exact(files, host, Below(stack) \cup Held(Top))
  BY <1>1, TopFacts DEF Holding
<1>5. Len(Top.dir) = Top.pszEnd /\ psz = Top.dir
  BY <1>1, OwnBuffer DEF InDirectory
<1>6. psz' \in Seq(Names) /\ psz' # <<>> /\ Front(psz') = Top.dir /\ IsPrefix(Top.dir, psz')
  BY <1>2, <1>3, <1>4, <1>5, Appended
<1>7. CASE tree[p].dir
  <2> DEFINE fr == [[Top EXCEPT !.seen = @ \cup {Last(p)}] EXCEPT !.at = "child"]
  <2>1. fr \in Frame /\ fr.at = "child" /\ fr.pszEnd = Top.pszEnd
    BY <1>3, <1>4, FrameReads DEF Places
  <2>2. fr.dir = Top.dir /\ fr.dirOpen = Top.dirOpen
    BY <1>4 DEF Frame
  <2>3. Suspend(fr)
    BY <1>2, <1>7
  <2> HIDE DEF fr
  <2>4. Exact(files', host', Below(stack) \cup Held(fr))
    BY <1>1, <1>4, <2>2 DEF Held
  <2> QED BY <1>1, <1>4, <1>6, <2>1, <2>2, <2>3, <2>4, SuspendBooks DEF Waiting, Holding
<1>8. CASE ~ tree[p].dir
  <2> DEFINE fr == [[Top EXCEPT !.seen = @ \cup {Last(p)}] EXCEPT !.at = "unlink"]
  <2>1. fr \in Frame /\ fr.at = "unlink" /\ fr.pszEnd = Top.pszEnd
    BY <1>3, <1>4, FrameReads DEF Places
  <2>2. fr.dir = Top.dir /\ fr.dirOpen = Top.dirOpen
    BY <1>4 DEF Frame
  <2>3. SetTop(fr)
    BY <1>2, <1>8
  <2> HIDE DEF fr
  <2>4. Exact(files', host', Below(stack) \cup Held(fr))
    BY <1>1, <1>4, <2>2 DEF Held
  <2> QED BY <1>1, <1>4, <1>5, <1>6, <2>1, <2>2, <2>3, <2>4, SetTopBooks DEF Holding, InDirectory
<1> QED BY <1>7, <1>8

LEMMA NextEntryBooks ==
  ASSUME Contained, Books, stack # <<>>, Top.at \in {"unlink", "child"},
         NEW res, NextEntry(res), host' = host
  PROVE  Books'
<1>1. Top.at # "open" /\ Top.at \in Holding
  BY DEF Holding
<1>2. /\ Top \in Frame /\ Top.dir \in Seq(Names) /\ Top.dirOpen /\ OwnPath(stack, psz) = Top.dir
      /\ Exact(files, host, Below(stack) \cup Held(Top))
  BY <1>1, TopFacts
<1>3. Len(Top.dir) = Top.pszEnd /\ psz' = Top.dir /\ IsPrefix(Top.dir, psz')
  BY <1>1, <1>2, OwnBuffer, PrefixOfItself DEF NextEntry
<1>4. CASE res = "FR_OK"
  <2> DEFINE fr == [Top EXCEPT !.at = "progress"]
  <2>1. fr \in Frame /\ fr.at = "progress" /\ fr.pszEnd = Top.pszEnd
    BY <1>2, FrameMoves DEF Places
  <2>2. fr.dir = Top.dir /\ fr.dirOpen = Top.dirOpen
    BY <1>2 DEF Frame
  <2>3. SetTop(fr) /\ files' = files
    BY <1>4 DEF NextEntry
  <2> HIDE DEF fr
  <2>4. Exact(files', host', Below(stack) \cup Held(fr))
    BY <1>2, <2>2, <2>3 DEF Held
  <2> QED BY <1>2, <1>3, <2>1, <2>2, <2>3, <2>4, SetTopBooks DEF Holding, InEntry
<1>5. CASE res # "FR_OK"
  <2>1. files' = Closed /\ stack' = Front(stack)
    BY <1>5 DEF NextEntry, Return
  <2> QED BY <1>1, <1>2, <1>3, <2>1, ClosedTable, ReturnBooks
<1> QED BY <1>4, <1>5

LEMMA UnlinkFileBooks ==
  ASSUME Contained, Books, UnlinkFile
  PROVE  Books'
<1>1. stack # <<>> /\ Top.at = "unlink" /\ host' = host
  BY DEF UnlinkFile, AtTop
<1>2. PICK o \in Unlink(tree, files, psz, Faulty) : NextEntry(o.res)
  BY DEF UnlinkFile
<1> QED BY <1>1, <1>2, NextEntryBooks

LEMMA ChildReturnedBooks ==
  ASSUME Contained, Books, ChildReturned
  PROVE  Books'
<1>1. stack # <<>> /\ Top.at = "child" /\ NextEntry(ret) /\ host' = host
  BY DEF ChildReturned, AtTop
<1> QED BY <1>1, NextEntryBooks

LEMMA ChildStarvedBooks ==
  ASSUME Contained, Books, ChildStarved
  PROVE  Books'
<1> DEFINE fr == [Top EXCEPT !.at = "retry", !.dirOpen = FALSE]
<1>1. /\ stack # <<>> /\ Top.at = "child" /\ Suspend(fr)
      /\ files' = Closed /\ host' = host /\ psz' = psz
  BY DEF ChildStarved, AtTop
<1>2. Top \in Frame /\ psz \in Seq(Names)
  BY <1>1, TopFacts
<1>3. IsPrefix(Top.dir, psz) /\ psz # <<>> /\ Front(psz) = Top.dir
  <2>1. Last(stack).at \in InEntry /\ Top = Last(stack)
    BY <1>1 DEF Top, InEntry
  <2>2. psz # <<>> /\ Front(psz) = Top.dir
    BY <1>1, <2>1 DEF Books, Shape, Agree
  <2> QED BY <1>1, <2>2, OwnBuffer
<1>4. fr \in Frame /\ fr.at = "retry" /\ fr.pszEnd = Top.pszEnd
  BY <1>2, FrameMoves DEF Places
<1>5. fr.dir = Top.dir /\ fr.dirOpen = FALSE
  BY <1>2 DEF Frame
<1> HIDE DEF fr
<1>6. Held(fr) = {}
  BY <1>5 DEF Held
<1>7. Exact(files', host', Below(stack) \cup Held(fr))
  BY <1>1, <1>6, ClosedTable DEF Holding
<1> QED BY <1>1, <1>2, <1>3, <1>4, <1>5, <1>7, SuspendBooks DEF Waiting, Holding

LEMMA RetryReturnedBooks ==
  ASSUME Contained, Books, RetryReturned
  PROVE  Books'
<1>1. stack # <<>> /\ Top.at = "retry" /\ psz' = Trimmed /\ host' = host
  BY DEF RetryReturned, AtTop
<1>2. /\ Top \in Frame /\ Top.dir \in Seq(Names) /\ OwnPath(stack, psz) = Top.dir
      /\ Top.dir \notin Below(stack) /\ ~ Top.dirOpen
      /\ Exact(files, host, Below(stack) \cup Held(Top))
  BY <1>1, TopFacts DEF Holding
<1>3. /\ Len(Top.dir) = Top.pszEnd /\ Trimmed = Top.dir /\ psz' = Top.dir
      /\ IsPrefix(Top.dir, psz')
  BY <1>1, <1>2, OwnBuffer, PrefixOfItself
<1>4. Exact(files, host, Below(stack))
  BY <1>2 DEF Held
<1>5. CASE ret # "FR_OK"
  <2>1. stack' = Front(stack) /\ files' = files
    BY <1>5 DEF RetryReturned, Return
  <2> QED BY <1>1, <1>2, <1>3, <1>4, <2>1, ReturnBooks
<1>6. CASE ret = "FR_OK"
  <2> DEFINE fr == [Top EXCEPT !.at = "progress", !.dirOpen = TRUE, !.dir = Trimmed, !.seen = {}]
  <2>1. PICK o \in Opendir(tree, files, Trimmed, Faulty) :
          files' = o.files /\ IF o.res = "FR_OK" THEN SetTop(fr) ELSE Return(o.res)
    BY <1>6 DEF RetryReturned
  <2>2. /\ o.res = "FR_OK" => Exact(o.files, host, Below(stack) \cup {Top.dir})
        /\ o.res # "FR_OK" => o.files = files
    <3>1. o \in Opendir(tree, files, Top.dir, Faulty)
      BY <2>1, <1>3
    <3>2. Exact(files, host, Below(stack)) /\ Top.dir \notin Below(stack)
      BY <1>2, <1>4
    <3> HIDE DEF fr
    <3> QED BY <3>1, <3>2, ExactOpendir
  <2>3. CASE o.res = "FR_OK"
    <3>1. fr \in Frame /\ fr.at = "progress" /\ fr.pszEnd = Top.pszEnd
      BY <1>2, <1>3, FrameReopens
    <3>2. fr.dir = Top.dir /\ fr.dirOpen = TRUE
      BY <1>2, <1>3 DEF Frame
    <3>3. SetTop(fr)
      BY <2>1, <2>3
    <3> HIDE DEF fr
    <3>4. Exact(files', host', Below(stack) \cup Held(fr))
      BY <1>1, <2>1, <2>2, <2>3, <3>2 DEF Held
    <3> QED BY <1>1, <1>2, <1>3, <3>1, <3>2, <3>3, <3>4, SetTopBooks DEF Holding, InEntry
  <2>4. CASE o.res # "FR_OK"
    <3>1. stack' = Front(stack)
      BY <2>1, <2>4 DEF Return
    <3>2. Exact(files', host', Below(stack))
      BY <1>1, <1>4, <2>1, <2>2, <2>4
    <3> HIDE DEF fr
    <3> QED BY <1>1, <1>2, <1>3, <3>1, <3>2, ReturnBooks
  <2> QED BY <2>3, <2>4
<1> QED BY <1>5, <1>6

LEMMA RemoveSelfBooks ==
  ASSUME Contained, Books, RemoveSelf
  PROVE  Books'
<1>1. /\ stack # <<>> /\ Top.at = "rmdir" /\ stack' = Front(stack)
      /\ psz' = psz /\ files' = files /\ host' = host
  BY DEF RemoveSelf, AtTop, Return
<1>2. psz = Top.dir
  BY <1>1, OwnBuffer DEF InDirectory
<1>3. OwnPath(stack, psz) = Top.dir /\ ~ Top.dirOpen /\ Exact(files, host, Below(stack) \cup Held(Top))
  BY <1>1, TopFacts DEF Holding
<1>4. Exact(files, host, Below(stack))
  BY <1>3 DEF Held
<1> QED BY <1>1, <1>2, <1>3, <1>4, ReturnBooks

LEMMA StepBooks ==
  ASSUME IInv, Books, Step
  PROVE  Books'
BY OpenDirBooks, ProgressBooks, ReadFailsBooks, ReadEndBooks, ReadEntryBooks, UnlinkFileBooks,
   ChildReturnedBooks, ChildStarvedBooks, RetryReturnedBooks, RemoveSelfBooks DEF Step, IInv

(* Between the calls, and when the outermost call begins.                    *)
LEMMA BetweenBooks ==
  ASSUME Books, HostBetween
  PROVE  Books'
<1>1. HostActs /\ stack' = stack /\ psz' = psz
  BY DEF HostBetween
<1>2. Exact(files', host', Dirs(stack))
  BY <1>1, ExactHost DEF Books
<1> QED BY <1>1, <1>2 DEF Books

LEMMA CallBooks ==
  ASSUME Books, NEW p, Call(p)
  PROVE  Books'
<1>1. stack = <<>> /\ stack' = <<NewFrame>> /\ psz' = p /\ files' = files /\ host' = host
  BY DEF Call, Idle
<1> DEFINE st == <<NewFrame>>
<1>2. NewFrame.at = "open" /\ NewFrame.dirOpen = FALSE
  BY DEF NewFrame
<1>3. Len(st) = 1 /\ DOMAIN st = {1} /\ st[1] = NewFrame /\ st # <<>> /\ Last(st) = NewFrame
  BY DEF Last
<1> HIDE DEF st
<1>4. Agree(st, p)
  BY <1>2, <1>3 DEF Agree, InDirectory, InEntry
<1>5. Ordered(st, p)
  BY <1>2, <1>3 DEF Ordered
<1>6. OpenAsTheyKnow(st)
  BY <1>2, <1>3 DEF OpenAsTheyKnow, Holding
<1>7. Dirs(st) = {}
  BY <1>2, <1>3 DEF Dirs
<1>8. Dirs(stack) = {}
  BY <1>1, EmptySeq DEF Dirs
<1> QED BY <1>1, <1>4, <1>5, <1>6, <1>7, <1>8 DEF Books, Shape, st

LEMMA InitBooks == Init => Books
<1> SUFFICES ASSUME Init PROVE Books
  OBVIOUS
<1>1. files = [o \in {} |-> 0] /\ host = {} /\ stack = <<>>
  BY DEF Init
<1>2. DOMAIN stack = {} /\ Dirs(stack) = {}
  BY <1>1 DEF Dirs
<1>3. Shape(stack, psz)
  BY <1>1, <1>2 DEF Shape, Agree, Ordered, OpenAsTheyKnow
<1>4. DOMAIN files = {}
  BY <1>1
<1>5. IsFiniteSet(DOMAIN files) /\ Cardinality(DOMAIN files) = 0
  BY <1>4, FS_EmptySet
<1>6. Exact(files, host, Dirs(stack))
  BY <1>1, <1>2, <1>4, <1>5, SlotsAssumption DEF Exact
<1> QED BY <1>3, <1>6 DEF Books

LEMMA NextBooks == IInv /\ Books /\ [Next]_vars => Books'
<1> SUFFICES ASSUME IInv, Books, [Next]_vars PROVE Books'
  OBVIOUS
<1>1. CASE Step
  BY <1>1, StepBooks
<1>2. CASE HostBetween
  BY <1>2, BetweenBooks
<1>3. ASSUME NEW p \in DOMAIN tree, Call(p) PROVE Books'
  BY <1>3, CallBooks
<1>4. CASE UNCHANGED vars
  BY <1>4 DEF vars, Books
<1> QED BY <1>1, <1>2, <1>3, <1>4 DEF Next

LEMMA BooksInvariance == Spec => [](IInv /\ Books)
BY Initially, InitBooks, NextKeeps, NextBooks, PTL DEF Spec

-----------------------------------------------------------------------------
(* f_rmdir_r and the table Files[]: for every tree, every size of the table  *)
(* and every failure, the table holds the host's files and the directories   *)
(* of the active calls that have dirOpen set, each once, and nothing else.   *)
THEOREM TableKept == Spec => []TableExact
<1>1. Books => TableExact
  <2> SUFFICES ASSUME Books PROVE TableExact
    OBVIOUS
  <2>1. Dirs(stack) = OpenDirs
    BY DEF Dirs, OpenDirs
  <2> QED BY <2>1 DEF Books, Exact, TableExact
<1> QED BY <1>1, BooksInvariance, PTL

(* f_rmdir_r and its one path buffer: whatever the callees appended, every   *)
(* active call finds the path of the directory it opened below its pszEnd,   *)
(* one name longer than its caller's.                                        *)
THEOREM BufferKept == Spec => []BufferAgrees
<1>1. IInv /\ Books => BufferAgrees
  <2> SUFFICES ASSUME IInv, Books, NEW i \in DOMAIN stack, stack[i].at # "open"
               PROVE  /\ SubSeq(psz, 1, stack[i].pszEnd) = stack[i].dir
                      /\ i > 1 => Front(stack[i].dir) = stack[i-1].dir
                      /\ i = Len(stack) /\ stack[i].at \in {"progress", "read", "rmdir"}
                           => psz = stack[i].dir
    BY DEF BufferAgrees
  <2>1. stack \in Seq(Frame) /\ stack # <<>> /\ Last(stack) = stack[Len(stack)]
    BY EmptySeq DEF IInv, Contained, Last
  <2>2. /\ Len(stack[i].dir) = stack[i].pszEnd /\ IsPrefix(stack[i].dir, psz)
        /\ i > 1 => Front(stack[i].dir) = stack[i-1].dir
    BY DEF Books, Shape, Agree
  <2>3. SubSeq(stack[i].dir, 1, Len(stack[i].dir)) = stack[i].dir
    <3>1. stack[i].dir \in Seq(Names)
      BY <2>1, StackShape
    <3> QED BY <3>1, SubSeqFull
  <2>4. SubSeq(psz, 1, stack[i].pszEnd) = stack[i].dir
    BY <2>2, <2>3 DEF IsPrefix
  <2>5. i = Len(stack) /\ stack[i].at \in {"progress", "read", "rmdir"} => psz = stack[i].dir
    BY <2>1 DEF Books, Shape, Agree, InDirectory
  <2> QED BY <2>2, <2>4, <2>5
<1> QED BY <1>1, BooksInvariance, PTL

-----------------------------------------------------------------------------
(* What is left of the shape of the state: the host's files and the results. *)
Answers == host \subseteq Seq(Names) /\ ret \in Results \cup {""}

LEMMA StepAnswers ==
  ASSUME Anchored, ret \in Results \cup {""}, Step
  PROVE  ret' \in Results \cup {""}
<1> USE DEF AtTop
<1>1. CASE OpenDir
  BY <1>1, OpendirReturns DEF OpenDir, Return
<1>2. CASE Progress
  BY <1>2 DEF Progress
<1>3. CASE ReadFails
  BY <1>3 DEF ReadFails, Return, Results
<1>4. CASE ReadEnd
  BY <1>4 DEF ReadEnd
<1>5. CASE ReadEntry
  BY <1>5 DEF ReadEntry, Suspend
<1>6. CASE UnlinkFile
  BY <1>6, UnlinkReturns DEF UnlinkFile, NextEntry, Return
<1>7. CASE ChildReturned
  BY <1>7 DEF ChildReturned, NextEntry, Return
<1>8. CASE ChildStarved
  BY <1>8 DEF ChildStarved, Suspend
<1>9. CASE RetryReturned
  BY <1>9, OpendirReturns DEF RetryReturned, Return
<1>10. CASE RemoveSelf
  BY <1>10, UnlinkReturns DEF RemoveSelf, Return
<1> QED BY <1>1, <1>2, <1>3, <1>4, <1>5, <1>6, <1>7, <1>8, <1>9, <1>10 DEF Step

LEMMA HostKnown ==
  ASSUME Volume, host \subseteq Seq(Names), HostActs \/ UNCHANGED <<files, host>>
  PROVE  host' \subseteq Seq(Names)
BY DEF Volume, HostActs, HostOpens, HostCloses

LEMMA NextAnswers == IInv /\ Answers /\ [Next]_vars => Answers'
<1> SUFFICES ASSUME IInv, Answers, [Next]_vars PROVE Answers'
  OBVIOUS
<1>1. Volume /\ Anchored /\ host \subseteq Seq(Names) /\ ret \in Results \cup {""}
  BY DEF IInv, Answers
<1>2. CASE Step
  <2>1. HostActs \/ UNCHANGED host
    BY <1>2 DEF Step, OpenDir, Progress, ReadFails, ReadEnd, ReadEntry, UnlinkFile, ChildReturned,
                ChildStarved, RetryReturned, RemoveSelf
  <2>2. host' \subseteq Seq(Names)
    BY <1>1, <2>1 DEF Volume, HostActs, HostOpens, HostCloses
  <2> QED BY <1>1, <1>2, <2>2, StepAnswers DEF Answers
<1>3. CASE HostBetween
  BY <1>1, <1>3, HostKnown DEF HostBetween, Answers
<1>4. ASSUME NEW p \in DOMAIN tree, Call(p) PROVE Answers'
  BY <1>1, <1>4 DEF Call, Answers
<1>5. CASE UNCHANGED vars
  BY <1>1, <1>5 DEF vars, Answers
<1> QED BY <1>2, <1>3, <1>4, <1>5 DEF Next

LEMMA AllInvariance == Spec => [](IInv /\ Books /\ Answers)
<1>1. Init => Answers
  BY DEF Init, Answers
<1> QED BY <1>1, Initially, InitBooks, NextKeeps, NextBooks, NextAnswers, PTL DEF Spec

(* f_rmdir_r: the shape of the state.  That every registered object is an    *)
(* entry or a directory of the volume's names follows from the books.        *)
THEOREM TypesKept == Spec => []TypeOK
<1>1. IInv /\ Books /\ Answers => TypeOK
  <2> SUFFICES ASSUME IInv, Books, Answers PROVE TypeOK
    OBVIOUS
  <2>1. /\ IsTree(tree) /\ DOMAIN tree \subseteq Seq(Names)
        /\ psz \in Seq(Names) /\ stack \in Seq(Frame) /\ call.target \in Seq(Names)
    BY DEF IInv, Volume, Contained
  <2>2. host \subseteq Seq(Names) /\ ret \in Results \cup {""}
    BY DEF Answers
  <2>3. Dirs(stack) \subseteq Seq(Names)
    <3>1. \A i \in DOMAIN stack : stack[i] \in Frame
      BY <2>1, ElementOfSeq, LenProperties
    <3> QED BY <3>1 DEF Dirs, Frame
  <2>4. ASSUME NEW o \in DOMAIN files
        PROVE  o[1] \in {"entry", "cluster"} /\ o[2] \in Seq(Names) /\ files[o] \in Nat
    <3>1. files[o] = 1
      BY DEF Books, Exact
    <3>2. \/ \E p \in host : o = <<"entry", p>>
          \/ \E d \in Dirs(stack) : o = <<"cluster", d>>
      BY DEF Books, Exact, Entry, Cluster
    <3>3. \A p : <<"entry", p>>[1] = "entry" /\ <<"entry", p>>[2] = p
      OBVIOUS
    <3>4. \A d : <<"cluster", d>>[1] = "cluster" /\ <<"cluster", d>>[2] = d
      OBVIOUS
    <3>5. o[1] \in {"entry", "cluster"} /\ o[2] \in Seq(Names)
      <4>1. ASSUME NEW p \in host, o = <<"entry", p>>
            PROVE  o[1] = "entry" /\ o[2] = p
        BY <4>1, <3>3, Zenon
      <4>2. ASSUME NEW d \in Dirs(stack), o = <<"cluster", d>>
            PROVE  o[1] = "cluster" /\ o[2] = d
        BY <4>2, <3>4, Zenon
      <4> QED BY <2>2, <2>3, <3>2, <4>1, <4>2, Zenon
    <3> QED BY <3>1, <3>5
  <2> QED BY <2>1, <2>2, <2>4 DEF TypeOK
<1> QED BY <1>1, AllInvariance, PTL

-----------------------------------------------------------------------------
(* What stops a removal: one that begins with a free entry of the table      *)
(* never ends for want of one, and it never tries to remove a directory it   *)
(* has not emptied.                                                          *)

(* The invariant, for a call with one free entry and not on the root.  The   *)
(* directories of the active calls are there (Stand); what a call has read   *)
(* is gone, except the entry it is at (Emptied); a second try and a last     *)
(* f_rmdir find an entry of the table free (Room); and what a call returned  *)
(* is one of the errors a removal may end with, or the want of an entry that *)
(* its caller can do something about (AtWork).                               *)
Given == call.target # <<>> /\ call.free > 0

Fine == {"FR_OK", "FR_LOCKED", "FR_DENIED", "FR_DISK_ERR"}
ReadOnlyLeft == \E p \in Subtree(tree, call.target) : tree[p].rdo
Explained(res) == res \in Fine /\ (res = "FR_DENIED" => ReadOnlyLeft)
Room == FreeSlots(files) # 0

Stand == \A i \in DOMAIN stack : stack[i].at # "open" => IsDir(tree, stack[i].dir)

Emptied ==
  \A i \in DOMAIN stack : \A name \in stack[i].seen :
    Append(stack[i].dir, name) \in DOMAIN tree => IsPrefix(Append(stack[i].dir, name), psz)

SecondTry == Len(stack) = 1 \/ stack[Len(stack)-1].at = "retry"

AtWork ==
  stack # <<>> =>
    /\ Top.at = "open" => IsDir(tree, psz) /\ (SecondTry => Room)
    /\ Top.at = "unlink" => psz \in DOMAIN tree /\ ~ tree[psz].dir
    /\ Top.at = "rmdir" => Children(tree, Top.dir) = {} /\ Room
    /\ Top.at = "retry" => Room
    /\ Top.at \in Waiting =>
         \/ Explained(ret) /\ (ret = "FR_OK" => psz \notin DOMAIN tree)
         \/ ret = "FR_TOO_MANY_OPEN_FILES" /\ Top.at = "child" /\ IsDir(tree, psz)

Outcome == stack = <<>> => ret = "" \/ Explained(ret)

Sound == Stand /\ Emptied /\ AtWork /\ Outcome

-----------------------------------------------------------------------------
(* The volume only shrinks.                                                  *)
Shrinks == DOMAIN tree' \subseteq DOMAIN tree /\ \A q \in DOMAIN tree' : tree'[q] = tree[q]

LEMMA WithoutGone == \A t, p : p \notin DOMAIN Without(t, p)
<1> SUFFICES ASSUME NEW t, NEW p PROVE p \notin DOMAIN Without(t, p)
  OBVIOUS
<1>1. DOMAIN Without(t, p) = DOMAIN t \ {p}
  BY WithoutOne
<1> QED BY <1>1

LEMMA RemovedShrinks ==
  ASSUME NEW p, tree' = tree \/ tree' = Without(tree, p)
  PROVE  Shrinks /\ \A q \in DOMAIN tree : q # p => q \in DOMAIN tree'
<1>1. CASE tree' = tree
  BY <1>1 DEF Shrinks
<1>2. CASE tree' = Without(tree, p)
  <2>1. DOMAIN tree' = DOMAIN tree \ {p} /\ \A q \in DOMAIN tree \ {p} : tree'[q] = tree[q]
    BY <1>2, WithoutOne
  <2> QED BY <2>1 DEF Shrinks
<1> QED BY <1>1, <1>2

LEMMA StillDir ==
  ASSUME Shrinks, NEW p, IsDir(tree, p), p \in DOMAIN tree'
  PROVE  IsDir(tree', p)
BY DEF Shrinks, IsDir

(* The path of the innermost call is not the root.                           *)
LEMMA NotRoot ==
  ASSUME Contained, Books, Given, stack # <<>>
  PROVE  OwnPath(stack, psz) # <<>> /\ IsPrefix(call.target, OwnPath(stack, psz))
<1>1. IsPrefix(call.target, OwnPath(stack, psz))
  <2>1. CASE Top.at = "open"
    BY <2>1, TopFacts DEF Contained
  <2>2. CASE Top.at # "open"
    BY <2>2, TopFacts, OwnBuffer, TrimmedBuffer
  <2> QED BY <2>1, <2>2
<1>2. /\ call.target \in Seq(Names) /\ call.target # <<>> /\ stack \in Seq(Frame) /\ psz \in Seq(Names)
      /\ Shape(stack, psz)
  BY DEF Contained, Given, Books
<1>3. OwnPath(stack, psz) \in Seq(Names)
  BY <1>2, OwnPathFacts
<1>4. Len(call.target) >= 1 /\ Len(call.target) <= Len(OwnPath(stack, psz))
  BY <1>1, <1>2, <1>3, NonEmpty, PrefixToPoints
<1>5. OwnPath(stack, psz) # <<>>
  BY <1>3, <1>4, EmptySeq, LenProperties
<1> QED BY <1>1, <1>5

(* Closing the own directory leaves an entry free.                           *)
LEMMA ClosedRoom ==
  ASSUME Contained, Books, Given, stack # <<>>, Top.at \in Holding
  PROVE  FreeSlots(Closed) # 0
<1>1. Top.dir # <<>> /\ Top.dirOpen /\ Exact(files, host, Below(stack) \cup Held(Top))
  BY NotRoot, TopFacts DEF Holding
<1>2. /\ Cluster(Top.dir) \in DOMAIN files /\ \A o \in DOMAIN files : files[o] = 1
      /\ IsFiniteSet(DOMAIN files) /\ Cardinality(DOMAIN files) <= FF_FS_LOCK
  BY <1>1 DEF Exact, Held
<1>3. Closed = DecShare(files, Cluster(Top.dir))
  BY <1>1 DEF Closed, Closedir
<1>4. DOMAIN Closed = DOMAIN files \ {Cluster(Top.dir)}
  BY <1>2, <1>3, OneLess
<1>5. Cardinality(DOMAIN Closed) = Cardinality(DOMAIN files) - 1
  BY <1>2, <1>4, FS_RemoveElement
<1>6. Cardinality(DOMAIN files) \in Nat /\ FF_FS_LOCK \in Nat
  BY <1>2, FS_CardinalityType, SlotsAssumption
<1> QED BY <1>2, <1>5, <1>6 DEF FreeSlots

(* A directory that is there can be opened when an entry is free.            *)
LEMMA OpendirWorks ==
  ASSUME NEW t, NEW f, NEW d, IsDir(t, d), NEW o \in Opendir(t, f, d, Faulty)
  PROVE  /\ o.res \in {"FR_OK", "FR_TOO_MANY_OPEN_FILES", "FR_DISK_ERR"}
         /\ o.res = "FR_TOO_MANY_OPEN_FILES" => FreeSlots(f) = 0
         /\ o.res # "FR_OK" => o.files = f
<1>1. OpendirResult(t, f, d) \in {"FR_OK", "FR_TOO_MANY_OPEN_FILES"}
  BY DEF OpendirResult
<1>2. OpendirResult(t, f, d) = "FR_TOO_MANY_OPEN_FILES" => FreeSlots(f) = 0
  BY DEF OpendirResult
<1>3. o.res = OpendirResult(t, f, d) \/ o.res = "FR_DISK_ERR"
  BY DEF Opendir
<1>4. o.res # "FR_OK" => o.files = f
  BY DEF Opendir
<1> QED BY <1>1, <1>2, <1>3, <1>4

(* What f_unlink answers for something that is there and has nothing in it.  *)
LEMMA UnlinkWorks ==
  ASSUME NEW t, NEW f, NEW p \in DOMAIN t, p # <<>>, Children(t, p) = {},
         NEW o \in Unlink(t, f, p, Faulty)
  PROVE  /\ o.tree = t \/ o.tree = Without(t, p)
         /\ o.res \in Fine
         /\ o.res = "FR_OK" => o.tree = Without(t, p)
         /\ o.res = "FR_DENIED" => o.tree = t /\ t[p].rdo
<1>1. FollowPath(t, p) = "FR_OK"
  BY DEF FollowPath
<1>2. UnlinkResult(t, f, p) \in {"FR_OK", "FR_LOCKED", "FR_DENIED"}
  BY <1>1 DEF UnlinkResult
<1>3. UnlinkResult(t, f, p) = "FR_DENIED" => t[p].rdo
  BY <1>1 DEF UnlinkResult
<1> QED BY <1>2, <1>3, UnlinkOutcome DEF Fine

(* A file has nothing below it.                                              *)
LEMMA FileChildless ==
  ASSUME NEW t, IsTree(t), DOMAIN t \subseteq Seq(Names), NEW p \in DOMAIN t, ~ t[p].dir
  PROVE  Children(t, p) = {}
<1> SUFFICES ASSUME NEW q \in Children(t, p) PROVE FALSE
  OBVIOUS
<1>1. q \in DOMAIN t /\ q \in Seq(Names) /\ q # <<>> /\ Front(q) = p
  BY DEF Children
<1>2. Len(q) \in Nat /\ Len(q) >= 1
  BY <1>1, NonEmpty
<1>3. Len(q) - 1 \in 0 .. Len(q) - 1
  BY <1>2
<1>4. IsDir(t, SubSeq(q, 1, Len(q) - 1))
  BY <1>1, <1>3 DEF IsTree
<1> QED BY <1>1, <1>4 DEF Front, IsDir

-----------------------------------------------------------------------------
(* How a step of the innermost call keeps it.                                *)

(* The entries the waiting calls are at stay in the buffer, as long as the   *)
(* path of the innermost call does.                                          *)
LEMMA WaitingEntries ==
  ASSUME Contained, Books, Emptied, stack # <<>>, Shrinks,
         psz' \in Seq(Names), IsPrefix(OwnPath(stack, psz), psz'),
         NEW i \in 1 .. Len(stack) - 1, NEW name \in stack[i].seen,
         Append(stack[i].dir, name) \in DOMAIN tree'
  PROVE  IsPrefix(Append(stack[i].dir, name), psz')
<1> DEFINE path == Append(stack[i].dir, name)
<1>1. stack \in Seq(Frame) /\ psz \in Seq(Names) /\ Shape(stack, psz)
  BY TopFacts DEF Books
<1>2. Len(stack) \in Nat /\ DOMAIN stack = 1 .. Len(stack)
  BY <1>1, StackShape
<1>3. i \in DOMAIN stack /\ stack[i].dir \in Seq(Names) /\ name \in Names
  <2>1. i \in 1 .. Len(stack)
    BY <1>2, LowerIndices
  <2>2. stack[i] \in Frame
    BY <1>1, <2>1, ElementOfSeq
  <2> QED BY <1>2, <2>1, <2>2 DEF Frame
<1>4. path \in Seq(Names) /\ Len(path) = Len(stack[i].dir) + 1
  BY <1>3, AppendProperties
<1>5. path \in DOMAIN tree
  BY DEF Shrinks
<1>6. IsPrefix(path, psz)
  BY <1>3, <1>5 DEF Emptied
<1>7. /\ OwnPath(stack, psz) \in Seq(Names) /\ IsPrefix(OwnPath(stack, psz), psz)
      /\ Len(stack[i].dir) < Len(OwnPath(stack, psz))
  BY <1>1, OwnPathFacts
<1> HIDE DEF path
<1>8. Len(path) <= Len(OwnPath(stack, psz))
  BY <1>3, <1>4, <1>7, LenProperties
<1>9. IsPrefix(path, psz')
  BY <1>1, <1>4, <1>6, <1>7, <1>8, PrefixCarried
<1> QED BY <1>9 DEF path

LEMMA ReturnSound ==
  ASSUME Contained, Books, Stand, Emptied, stack # <<>>, Shrinks, call' = call,
         NEW res, Return(res), psz' = OwnPath(stack, psz),
         \A i \in 1 .. Len(stack) - 1 : stack[i].dir \in DOMAIN tree',
         ~ SecondTry \/ Room' \/ Len(stack) = 1,
         \/ /\ res \in Fine
            /\ res = "FR_OK" => psz' \notin DOMAIN tree'
            /\ res = "FR_DENIED" => ReadOnlyLeft'
         \/ res = "FR_TOO_MANY_OPEN_FILES" /\ ~ SecondTry /\ IsDir(tree', psz')
  PROVE  Sound'
<1>1. stack \in Seq(Frame) /\ psz \in Seq(Names) /\ Shape(stack, psz)
  BY TopFacts DEF Books
<1>2. Len(stack) \in Nat /\ Len(stack) >= 1 /\ DOMAIN stack = 1 .. Len(stack)
  BY <1>1, StackShape
<1>3. /\ stack' = Front(stack) /\ stack' \in Seq(Frame) /\ Len(stack') = Len(stack) - 1
      /\ \A i \in 1 .. Len(stack) - 1 : stack'[i] = stack[i]
      /\ ret' = res
  BY <1>1, FrontFacts DEF Return
<1>4. DOMAIN stack' = 1 .. Len(stack) - 1
  BY <1>3, LenProperties
<1>5. Stand'
  <2>1. ASSUME NEW i \in DOMAIN stack', stack'[i].at # "open" PROVE IsDir(tree', stack'[i].dir)
    <3>1. i \in 1 .. Len(stack) - 1 /\ stack'[i] = stack[i] /\ i \in DOMAIN stack
      BY <1>2, <1>3, <1>4, LowerIndices
    <3>2. IsDir(tree, stack[i].dir) /\ stack[i].dir \in DOMAIN tree'
      BY <2>1, <3>1 DEF Stand
    <3> QED BY <3>1, <3>2, StillDir
  <2> QED BY <2>1 DEF Stand
<1>6. Emptied'
  <2>1. psz' \in Seq(Names) /\ IsPrefix(OwnPath(stack, psz), psz')
    BY <1>1, OwnPathFacts, PrefixOfItself
  <2>2. ASSUME NEW i \in DOMAIN stack', NEW name \in stack'[i].seen,
               Append(stack'[i].dir, name) \in DOMAIN tree'
        PROVE  IsPrefix(Append(stack'[i].dir, name), psz')
    BY <1>3, <1>4, <2>1, <2>2, WaitingEntries
  <2> QED BY <2>2 DEF Emptied
<1>7. ASSUME stack' # <<>>
      PROVE  /\ Len(stack) # 1 /\ Top' = stack[Len(stack)-1] /\ Top'.at \in Waiting
             /\ Top'.at = "retry" => Room'
             /\ ~ SecondTry => Top'.at = "child"
  <2>1. Len(stack) - 1 >= 1
    BY <1>1, <1>3, <1>7, FrontFacts
  <2>2. Len(stack) - 1 \in 1 .. Len(stack) - 1
    BY <1>2, <2>1
  <2>3. Top' = stack[Len(stack)-1]
    BY <1>3, <2>2 DEF Top, Last
  <2>4. Top'.at \in Waiting
    BY <2>2, <2>3, TopFacts
  <2> QED BY <1>2, <2>1, <2>3, <2>4 DEF SecondTry, Waiting
<1>8. AtWork'
  <2> SUFFICES ASSUME stack' # <<>>
               PROVE /\ Top'.at \notin {"open", "unlink", "rmdir"}
                     /\ Top'.at = "retry" => Room'
                     /\ \/ Explained(ret)' /\ (ret' = "FR_OK" => psz' \notin DOMAIN tree')
                        \/ ret' = "FR_TOO_MANY_OPEN_FILES" /\ Top'.at = "child" /\ IsDir(tree', psz')
    BY DEF AtWork
  <2> QED BY <1>3, <1>7 DEF Explained, Waiting
<1>9. Outcome'
  <2>1. stack' = <<>> => Len(stack') = 0
    BY EmptySeq
  <2>2. \A n \in Nat : n - 1 = 0 => n = 1
    OBVIOUS
  <2>3. Len(stack') = 0 => Len(stack) = 1
    <3>1. Len(stack) \in Nat /\ Len(stack') = Len(stack) - 1
      BY <1>2, <1>3
    <3> QED BY <3>1, <2>2
  <2> QED BY <1>3, <2>1, <2>3 DEF Outcome, Explained, SecondTry
<1> QED BY <1>5, <1>6, <1>8, <1>9 DEF Sound

LEMMA SetTopSound ==
  ASSUME Contained, Books, Stand, Emptied, stack # <<>>, Shrinks, call' = call,
         psz' \in Seq(Names), NEW fr \in Frame, SetTop(fr),
         fr.at \in {"progress", "read", "unlink", "rmdir"},
         fr.dir = OwnPath(stack, psz), IsPrefix(fr.dir, psz'), IsDir(tree', fr.dir),
         \A i \in 1 .. Len(stack) - 1 : stack[i].dir \in DOMAIN tree',
         \A name \in fr.seen : Append(fr.dir, name) \in DOMAIN tree' =>
                                IsPrefix(Append(fr.dir, name), psz'),
         fr.at = "unlink" => psz' \in DOMAIN tree' /\ ~ tree'[psz'].dir,
         fr.at = "rmdir" => Children(tree', fr.dir) = {} /\ Room'
  PROVE  Sound'
<1>1. stack \in Seq(Frame) /\ stack' = [stack EXCEPT ![Len(stack)] = fr]
  BY TopFacts DEF SetTop
<1>2. Len(stack) \in Nat /\ Len(stack) >= 1 /\ DOMAIN stack = 1 .. Len(stack)
  BY <1>1, StackShape
<1>3. /\ Len(stack') = Len(stack) /\ Last(stack') = fr /\ DOMAIN stack' = 1 .. Len(stack)
      /\ stack'[Len(stack)] = fr /\ stack' # <<>>
      /\ \A i \in 1 .. Len(stack) - 1 : stack'[i] = stack[i]
  <2> DEFINE st == [stack EXCEPT ![Len(stack)] = fr]
  <2>1. /\ Len(st) = Len(stack) /\ Last(st) = fr /\ DOMAIN st = 1 .. Len(stack)
        /\ st[Len(stack)] = fr /\ st # <<>>
        /\ \A i \in 1 .. Len(stack) - 1 : st[i] = stack[i]
    <3>1. stack \in Seq(Frame)
      BY <1>1
    <3> QED BY <3>1, TopReplaced
  <2>2. stack' = st
    BY <1>1
  <2> HIDE DEF st
  <2> QED BY <2>1, <2>2
<1>4. Top' = fr
  BY <1>3 DEF Top
<1>5. Stand'
  <2>1. ASSUME NEW i \in 1 .. Len(stack), stack'[i].at # "open" PROVE IsDir(tree', stack'[i].dir)
    <3>1. CASE i = Len(stack)
      BY <3>1, <1>3
    <3>2. CASE i \in 1 .. Len(stack) - 1
      <4>1. IsDir(tree, stack[i].dir) /\ stack[i].dir \in DOMAIN tree'
        BY <2>1, <3>2, <1>2, <1>3 DEF Stand
      <4> QED BY <4>1, <3>2, <1>3, StillDir
    <3> QED BY <3>1, <3>2, <1>2, Indices
  <2> QED BY <2>1, <1>3 DEF Stand
<1>6. Emptied'
  <2>1. ASSUME NEW i \in 1 .. Len(stack), NEW name \in stack'[i].seen,
               Append(stack'[i].dir, name) \in DOMAIN tree'
        PROVE  IsPrefix(Append(stack'[i].dir, name), psz')
    <3>1. CASE i = Len(stack)
      BY <2>1, <3>1, <1>3
    <3>2. CASE i \in 1 .. Len(stack) - 1
      BY <2>1, <3>2, <1>3, WaitingEntries
    <3> QED BY <3>1, <3>2, <1>2, Indices
  <2> QED BY <2>1, <1>3 DEF Emptied
<1>7. AtWork'
  BY <1>4 DEF AtWork, Waiting
<1>8. Outcome'
  BY <1>3 DEF Outcome
<1> QED BY <1>5, <1>6, <1>7, <1>8 DEF Sound

LEMMA SuspendSound ==
  ASSUME Contained, Books, Stand, Emptied, stack # <<>>, Top.at # "open",
         tree' = tree, call' = call, psz' \in Seq(Names),
         NEW fr \in Frame, Suspend(fr), fr.at \in Waiting, fr.dir = Top.dir,
         IsPrefix(fr.dir, psz'), IsDir(tree, psz'),
         \A name \in fr.seen : Append(fr.dir, name) \in DOMAIN tree =>
                                IsPrefix(Append(fr.dir, name), psz'),
         fr.at = "retry" => Room'
  PROVE  Sound'
<1> DEFINE st == [stack EXCEPT ![Len(stack)] = fr]
           n  == Len(stack)
<1>1. stack \in Seq(Frame) /\ stack' = Append(st, NewFrame) /\ OwnPath(stack, psz) = Top.dir
  BY TopFacts DEF Suspend
<1>2. n \in Nat /\ n >= 1 /\ DOMAIN stack = 1 .. n /\ Top = stack[n]
  BY <1>1, StackShape DEF Top
<1>3. /\ st \in Seq(Frame) /\ Len(st) = n /\ DOMAIN st = 1 .. n /\ st[n] = fr
      /\ \A i \in 1 .. n - 1 : st[i] = stack[i]
  BY <1>1, TopReplaced
<1>4. NewFrame.at = "open" /\ NewFrame.seen = {} /\ NewFrame \in Frame
  BY EmptySeq DEF NewFrame, Frame
<1> HIDE DEF st, n
<1>5. /\ stack' \in Seq(Frame) /\ Len(stack') = n + 1 /\ stack'[n + 1] = NewFrame
      /\ \A i \in 1 .. n : stack'[i] = st[i]
  BY <1>1, <1>3, <1>4, AppendProperties
<1>6. DOMAIN stack' = 1 .. n + 1
  BY <1>5, LenProperties
<1>7. /\ \A i \in 1 .. n + 1 : i = n + 1 \/ i \in 1 .. n
      /\ n \in 1 .. n /\ (n + 1) - 1 = n /\ n + 1 # 1
  BY <1>2
<1>8. Shrinks
  BY DEF Shrinks
<1>9. IsDir(tree, Top.dir)
  BY <1>2, <1>7 DEF Stand
<1>10. Stand'
  <2>1. ASSUME NEW i \in 1 .. n PROVE IsDir(tree, st[i].dir)
    <3>1. CASE i = n
      BY <3>1, <1>3, <1>9
    <3>2. CASE i \in 1 .. n - 1
      <4>1. st[i] = stack[i] /\ i \in DOMAIN stack /\ stack[i].at \in Waiting
        BY <3>2, <1>2, <1>3, TopFacts DEF n
      <4> QED BY <4>1 DEF Stand, Waiting
    <3> QED BY <3>1, <3>2, <1>2, Indices
  <2> QED BY <2>1, <1>4, <1>5, <1>6, <1>7 DEF Stand
<1>11. Emptied'
  <2>1. ASSUME NEW i \in 1 .. n, NEW name \in st[i].seen,
               Append(st[i].dir, name) \in DOMAIN tree
        PROVE  IsPrefix(Append(st[i].dir, name), psz')
    <3>1. CASE i = n
      BY <2>1, <3>1, <1>3
    <3>2. CASE i \in 1 .. n - 1
      BY <2>1, <3>2, <1>1, <1>3, <1>8, WaitingEntries DEF n
    <3> QED BY <3>1, <3>2, <1>2, Indices
  <2> QED BY <2>1, <1>4, <1>5, <1>6, <1>7 DEF Emptied
<1>12. Top' = NewFrame /\ SecondTry' = (fr.at = "retry")
  BY <1>3, <1>5, <1>7 DEF Top, Last, SecondTry
<1>13. AtWork'
  BY <1>4, <1>12 DEF AtWork, Waiting
<1>14. Outcome'
  <2>1. stack' # <<>>
    BY <1>1, <1>3, <1>4, AppendProperties
  <2> QED BY <2>1 DEF Outcome
<1> QED BY <1>10, <1>11, <1>13, <1>14 DEF Sound

-----------------------------------------------------------------------------
(* What the invariant says of the innermost call.                            *)

LEMMA SameLengthPrefix ==
  ASSUME NEW S, NEW s \in Seq(S), NEW t \in Seq(S), IsPrefix(s, t), Len(s) = Len(t)
  PROVE  s = t
BY PrefixToPoints, SeqEqual

LEMMA DirsThere ==
  ASSUME Contained, Books, Stand, stack # <<>>
  PROVE  /\ \A i \in 1 .. Len(stack) - 1 : /\ IsDir(tree, stack[i].dir)
                                           /\ stack[i].dir # OwnPath(stack, psz)
         /\ Top.at # "open" => IsDir(tree, Top.dir)
<1>1. /\ stack \in Seq(Frame) /\ psz \in Seq(Names) /\ Shape(stack, psz)
      /\ \A i \in 1 .. Len(stack) - 1 : stack[i].at \in Waiting
  BY TopFacts DEF Books
<1>2. /\ Len(stack) \in Nat /\ DOMAIN stack = 1 .. Len(stack)
      /\ \A i \in 1 .. Len(stack) : Len(stack[i].dir) \in Nat
  BY <1>1, StackShape
<1>3. ASSUME NEW i \in 1 .. Len(stack) - 1
      PROVE  IsDir(tree, stack[i].dir) /\ stack[i].dir # OwnPath(stack, psz)
  <2>1. i \in 1 .. Len(stack) /\ i \in DOMAIN stack /\ stack[i].at # "open"
    BY <1>1, <1>2, LowerIndices DEF Waiting
  <2>2. Len(stack[i].dir) < Len(OwnPath(stack, psz))
    BY <1>1, OwnPathFacts
  <2>3. Len(stack[i].dir) # Len(OwnPath(stack, psz))
    BY <2>1, <2>2, <1>2
  <2> QED BY <2>1, <2>3 DEF Stand
<1>4. Top.at # "open" => IsDir(tree, Top.dir)
  BY StackFacts DEF Stand
<1> QED BY <1>3, <1>4

(* Between two entries all that was read is gone; at an entry, all but it.   *)
LEMMA ReadIsGone ==
  ASSUME Contained, Books, Emptied, stack # <<>>, Top.at # "open"
  PROVE  \A name \in Top.seen : Append(Top.dir, name) \in DOMAIN tree =>
           Top.at \in InEntry /\ Append(Top.dir, name) = psz
<1> SUFFICES ASSUME NEW name \in Top.seen, Append(Top.dir, name) \in DOMAIN tree
             PROVE  Top.at \in InEntry /\ Append(Top.dir, name) = psz
  OBVIOUS
<1> DEFINE path == Append(Top.dir, name)
<1>1. /\ Len(stack) \in DOMAIN stack /\ Top = stack[Len(stack)] /\ Top = Last(stack)
      /\ Top \in Frame /\ psz \in Seq(Names)
  BY StackFacts DEF Top, Contained
<1>2. Top.dir \in Seq(Names) /\ name \in Names
  BY <1>1 DEF Frame
<1>3. path \in Seq(Names) /\ Len(path) = Len(Top.dir) + 1 /\ Len(Top.dir) \in Nat
  BY <1>2, AppendProperties, LenProperties
<1>4. IsPrefix(path, psz)
  BY <1>1 DEF Emptied
<1> HIDE DEF path
<1>5. Len(path) <= Len(psz)
  BY <1>1, <1>3, <1>4, PrefixToPoints
<1>6. CASE Top.at \in InDirectory
  <2>1. psz = Top.dir
    BY <1>6, OwnBuffer
  <2> QED BY <2>1, <1>3, <1>5
<1>7. CASE Top.at \in InEntry
  <2>1. psz # <<>> /\ Front(psz) = Top.dir
    BY <1>1, <1>7 DEF Books, Shape, Agree
  <2>2. Len(Top.dir) = Len(psz) - 1 /\ Len(psz) \in Nat
    BY <1>1, <2>1, FrontFacts, LenProperties
  <2>3. Len(path) = Len(psz)
    BY <1>3, <2>2
  <2>4. path = psz
    BY <1>1, <1>3, <1>4, <2>3, SameLengthPrefix
  <2> QED BY <1>7, <2>4 DEF path
<1>8. Top.at \in InDirectory \/ Top.at \in InEntry
  BY <1>1 DEF Frame, InDirectory, InEntry
<1> QED BY <1>6, <1>7, <1>8

-----------------------------------------------------------------------------
(* The steps.                                                                *)
Sure == Contained /\ Anchored /\ Volume /\ Books /\ Given /\ Sound

LEMMA OpenDirSound ==
  ASSUME Sure, OpenDir
  PROVE  Sound'
<1> USE DEF Sure
<1>1. stack # <<>> /\ Top.at = "open" /\ psz' = psz /\ tree' = tree /\ call' = call
  BY DEF OpenDir, AtTop
<1>2. PICK o \in Opendir(tree, files, psz, Faulty) :
        /\ files' = o.files
        /\ IF o.res = "FR_OK"
             THEN SetTop([at |-> "progress", dir |-> psz, dirOpen |-> TRUE,
                          seen |-> {}, pszEnd |-> Len(psz)])
             ELSE Return(o.res)
  BY DEF OpenDir
<1>3. IsDir(tree, psz) /\ (SecondTry => Room)
  BY <1>1 DEF Sound, AtWork
<1>4. /\ o.res \in {"FR_OK", "FR_TOO_MANY_OPEN_FILES", "FR_DISK_ERR"}
      /\ o.res = "FR_TOO_MANY_OPEN_FILES" => FreeSlots(files) = 0
      /\ o.res # "FR_OK" => o.files = files
  <2>1. o \in Opendir(tree, files, psz, Faulty)
    BY <1>2
  <2> QED BY <2>1, <1>3, OpendirWorks
<1>5. OwnPath(stack, psz) = psz /\ psz \in Seq(Names)
  BY <1>1, TopFacts
<1>6. Shrinks /\ \A i \in 1 .. Len(stack) - 1 : stack[i].dir \in DOMAIN tree'
  BY <1>1, DirsThere DEF Shrinks, IsDir, Sound
<1>7. CASE o.res = "FR_OK"
  <2> DEFINE fr == [at |-> "progress", dir |-> psz, dirOpen |-> TRUE,
                    seen |-> {}, pszEnd |-> Len(psz)]
  <2>1. fr \in Frame /\ fr.at = "progress"
    BY OpenFrame DEF Contained
  <2>2. fr.dir = psz /\ fr.seen = {}
    OBVIOUS
  <2>3. SetTop(fr)
    BY <1>2, <1>7
  <2> HIDE DEF fr
  <2>4. psz' \in Seq(Names) /\ IsPrefix(psz, psz')
    BY <1>1, <1>5, PrefixOfItself
  <2> QED BY <1>1, <1>3, <1>5, <1>6, <2>1, <2>2, <2>3, <2>4, SetTopSound DEF Sound
<1>8. CASE o.res # "FR_OK"
  <2>1. Return(o.res) /\ (SecondTry => Room')
    BY <1>2, <1>3, <1>4, <1>8 DEF Room
  <2>2. o.res = "FR_DISK_ERR" \/ (o.res = "FR_TOO_MANY_OPEN_FILES" /\ ~ SecondTry)
    BY <1>3, <1>4, <1>8 DEF Room
  <2>3. IsDir(tree', psz')
    BY <1>1, <1>3
  <2> QED BY <1>1, <1>5, <1>6, <2>1, <2>2, <2>3, ReturnSound DEF Sound, Fine
<1> QED BY <1>7, <1>8

(* The steps within one call that leave the volume and the buffer alone.     *)
LEMMA StaysSound ==
  ASSUME Sure, stack # <<>>, Top.at \in InDirectory, NEW fr \in Frame, SetTop(fr),
         fr.at \in {"read", "rmdir"}, fr.dir = Top.dir, fr.seen = Top.seen,
         fr.at = "rmdir" => Children(tree, fr.dir) = {} /\ Room',
         psz' = psz, tree' = tree, call' = call
  PROVE  Sound'
<1> USE DEF Sure
<1>1. Top.at # "open" /\ Top.at \notin InEntry
  BY DEF InDirectory, InEntry
<1>2. OwnPath(stack, psz) = Top.dir /\ Top.dir \in Seq(Names) /\ psz' \in Seq(Names)
  BY <1>1, TopFacts
<1>3. IsPrefix(fr.dir, psz')
  BY <1>1, OwnBuffer
<1>4. Shrinks /\ IsDir(tree', fr.dir) /\ \A i \in 1 .. Len(stack) - 1 : stack[i].dir \in DOMAIN tree'
  BY <1>1, DirsThere DEF Shrinks, IsDir, Sound
<1>5. \A name \in fr.seen : Append(fr.dir, name) \notin DOMAIN tree'
  BY <1>1, ReadIsGone DEF Sound
<1> QED BY <1>2, <1>3, <1>4, <1>5, SetTopSound DEF Sound

LEMMA ProgressSound ==
  ASSUME Sure, Progress
  PROVE  Sound'
<1> USE DEF Sure
<1> DEFINE fr == [Top EXCEPT !.at = "read"]
<1>1. /\ stack # <<>> /\ Top.at = "progress" /\ SetTop(fr)
      /\ psz' = psz /\ tree' = tree /\ call' = call
  BY DEF Progress, AtTop
<1>2. Top \in Frame
  BY <1>1, TopFacts
<1>3. fr \in Frame /\ fr.at = "read"
  BY <1>2, FrameMoves DEF Places
<1>4. fr.dir = Top.dir /\ fr.seen = Top.seen
  BY <1>2 DEF Frame
<1> HIDE DEF fr
<1> QED BY <1>1, <1>3, <1>4, StaysSound DEF InDirectory

LEMMA ReadFailsSound ==
  ASSUME Sure, ReadFails
  PROVE  Sound'
<1> USE DEF Sure
<1>1. /\ stack # <<>> /\ Top.at = "read" /\ Return("FR_DISK_ERR") /\ files' = Closed
      /\ psz' = psz /\ tree' = tree /\ call' = call
  BY DEF ReadFails, AtTop
<1>2. psz = OwnPath(stack, psz)
  BY <1>1, TopFacts, OwnBuffer DEF InDirectory
<1>3. Room'
  BY <1>1, ClosedRoom DEF Holding, Room
<1>4. Shrinks /\ \A i \in 1 .. Len(stack) - 1 : stack[i].dir \in DOMAIN tree'
  BY <1>1, DirsThere DEF Shrinks, IsDir, Sound
<1> QED BY <1>1, <1>2, <1>3, <1>4, ReturnSound DEF Sound, Fine

(* At the end of the directory nothing is left in it.                        *)
LEMMA ReadEndSound ==
  ASSUME Sure, ReadEnd
  PROVE  Sound'
<1> USE DEF Sure
<1> DEFINE fr == [Top EXCEPT !.at = "rmdir", !.dirOpen = FALSE]
<1>1. /\ stack # <<>> /\ Top.at = "read" /\ SetTop(fr) /\ Unread = {}
      /\ files' = Closed /\ psz' = psz /\ tree' = tree /\ call' = call
  BY DEF ReadEnd, AtTop
<1>2. Top \in Frame
  BY <1>1, TopFacts
<1>3. fr \in Frame /\ fr.at = "rmdir"
  BY <1>2, FrameMoves DEF Places
<1>4. fr.dir = Top.dir /\ fr.seen = Top.seen
  BY <1>2 DEF Frame
<1> HIDE DEF fr
<1>5. Children(tree, Top.dir) = {}
  <2> SUFFICES ASSUME NEW q \in Children(tree, Top.dir) PROVE FALSE
    OBVIOUS
  <2>1. q \in DOMAIN tree /\ q \in Seq(Names) /\ q # <<>> /\ Front(q) = Top.dir
    BY DEF Children, Volume
  <2>2. Last(q) \in Top.seen
    BY <1>1 DEF Unread
  <2>3. Append(Top.dir, Last(q)) = q
    BY <2>1, FrontAndLast
  <2>4. Top.at \notin InEntry
    BY <1>1 DEF InEntry
  <2> QED BY <1>1, <2>1, <2>2, <2>3, <2>4, ReadIsGone DEF Sound
<1>6. Room'
  BY <1>1, ClosedRoom DEF Holding, Room
<1> QED BY <1>1, <1>3, <1>4, <1>5, <1>6, StaysSound DEF InDirectory

LEMMA ReadEntrySound ==
  ASSUME Sure, ReadEntry
  PROVE  Sound'
<1> USE DEF Sure
<1>1. stack # <<>> /\ Top.at = "read" /\ tree' = tree /\ files' = files /\ call' = call
  BY DEF ReadEntry, AtTop
<1>2. PICK p \in Unread :
        /\ psz' = Append(psz, Last(p))
        /\ IF tree[p].dir
             THEN Suspend([[Top EXCEPT !.seen = @ \cup {Last(p)}] EXCEPT !.at = "child"])
             ELSE SetTop([[Top EXCEPT !.seen = @ \cup {Last(p)}] EXCEPT !.at = "unlink"])
  BY DEF ReadEntry
<1>3. p \in DOMAIN tree /\ p \in Seq(Names) /\ p # <<>> /\ Front(p) = Top.dir
  BY DEF Unread, Children, Volume
<1>4. Last(p) \in Names /\ Append(Top.dir, Last(p)) = p
  BY <1>3, FrontAndLast
<1>5. /\ Top \in Frame /\ Top.at # "open" /\ Top.at \notin InEntry
      /\ OwnPath(stack, psz) = Top.dir /\ Top.dir \in Seq(Names) /\ psz = Top.dir
  BY <1>1, TopFacts, OwnBuffer DEF InDirectory, InEntry
<1>6. psz' = p
  BY <1>2, <1>4, <1>5
<1>7. psz' \in Seq(Names) /\ IsPrefix(Top.dir, psz')
  BY <1>2, <1>4, <1>5, Appended
<1>8. \A name \in Top.seen \cup {Last(p)} :
        Append(Top.dir, name) \in DOMAIN tree' => IsPrefix(Append(Top.dir, name), psz')
  <2>1. \A name \in Top.seen : Append(Top.dir, name) \notin DOMAIN tree'
    BY <1>1, <1>5, ReadIsGone DEF Sound
  <2>2. IsPrefix(Append(Top.dir, Last(p)), psz')
    BY <1>3, <1>4, <1>6, PrefixOfItself
  <2> QED BY <2>1, <2>2
<1>9. CASE tree[p].dir
  <2> DEFINE fr == [[Top EXCEPT !.seen = @ \cup {Last(p)}] EXCEPT !.at = "child"]
  <2>1. fr \in Frame /\ fr.at = "child"
    BY <1>4, <1>5, FrameReads DEF Places
  <2>2. fr.dir = Top.dir /\ fr.seen = Top.seen \cup {Last(p)}
    BY <1>5 DEF Frame
  <2>3. Suspend(fr)
    BY <1>2, <1>9
  <2> HIDE DEF fr
  <2>4. IsDir(tree, psz')
    BY <1>3, <1>6, <1>9 DEF IsDir
  <2> QED BY <1>1, <1>5, <1>7, <1>8, <2>1, <2>2, <2>3, <2>4, SuspendSound DEF Sound, Waiting
<1>10. CASE ~ tree[p].dir
  <2> DEFINE fr == [[Top EXCEPT !.seen = @ \cup {Last(p)}] EXCEPT !.at = "unlink"]
  <2>1. fr \in Frame /\ fr.at = "unlink"
    BY <1>4, <1>5, FrameReads DEF Places
  <2>2. fr.dir = Top.dir /\ fr.seen = Top.seen \cup {Last(p)}
    BY <1>5 DEF Frame
  <2>3. SetTop(fr)
    BY <1>2, <1>10
  <2> HIDE DEF fr
  <2>4. psz' \in DOMAIN tree' /\ ~ tree'[psz'].dir
    BY <1>1, <1>3, <1>6, <1>10
  <2>5. /\ Shrinks /\ IsDir(tree', fr.dir)
        /\ \A i \in 1 .. Len(stack) - 1 : stack[i].dir \in DOMAIN tree'
    BY <1>1, <1>5, <2>2, DirsThere DEF Shrinks, IsDir, Sound
  <2> QED BY <1>1, <1>5, <1>7, <1>8, <2>1, <2>2, <2>3, <2>4, <2>5, SetTopSound DEF Sound
<1> QED BY <1>9, <1>10

(* The end of an iteration: the entry is gone, or the error is explained.    *)
LEMMA NextEntrySound ==
  ASSUME Sure, stack # <<>>, Top.at \in {"unlink", "child"}, call' = call,
         NEW res \in Fine, NextEntry(res), Shrinks,
         \A i \in 1 .. Len(stack) - 1 : stack[i].dir \in DOMAIN tree',
         Top.dir \in DOMAIN tree',
         res = "FR_OK" => psz \notin DOMAIN tree',
         res = "FR_DENIED" => ReadOnlyLeft'
  PROVE  Sound'
<1> USE DEF Sure
<1>1. Top.at # "open" /\ Top.at \in Holding
  BY DEF Holding
<1>2. Top \in Frame /\ Top.dir \in Seq(Names) /\ OwnPath(stack, psz) = Top.dir
  BY <1>1, TopFacts
<1>3. psz' = Top.dir /\ IsPrefix(Top.dir, psz')
  BY <1>1, <1>2, OwnBuffer, PrefixOfItself DEF NextEntry
<1>4. IsDir(tree', Top.dir)
  BY <1>1, DirsThere, StillDir DEF Sound
<1>5. CASE res = "FR_OK"
  <2> DEFINE fr == [Top EXCEPT !.at = "progress"]
  <2>1. fr \in Frame /\ fr.at = "progress"
    BY <1>2, FrameMoves DEF Places
  <2>2. fr.dir = Top.dir /\ fr.seen = Top.seen
    BY <1>2 DEF Frame
  <2>3. SetTop(fr)
    BY <1>5 DEF NextEntry
  <2> HIDE DEF fr
  <2>4. \A name \in fr.seen : Append(fr.dir, name) \notin DOMAIN tree'
    <3>1. \A name \in Top.seen : Append(Top.dir, name) \in DOMAIN tree => Append(Top.dir, name) = psz
      BY <1>1, ReadIsGone DEF Sound
    <3> QED BY <1>5, <2>2, <3>1 DEF Shrinks
  <2> QED BY <1>2, <1>3, <1>4, <2>1, <2>2, <2>3, <2>4, SetTopSound DEF Sound
<1>6. CASE res # "FR_OK"
  <2>1. Return(res) /\ files' = Closed
    BY <1>6 DEF NextEntry
  <2>2. Room'
    BY <1>1, <2>1, ClosedRoom DEF Room
  <2> QED BY <1>2, <1>3, <1>6, <2>1, <2>2, ReturnSound DEF Sound
<1> QED BY <1>5, <1>6

LEMMA UnlinkFileSound ==
  ASSUME Sure, UnlinkFile
  PROVE  Sound'
<1> USE DEF Sure
<1>1. stack # <<>> /\ Top.at = "unlink" /\ call' = call
  BY DEF UnlinkFile, AtTop
<1>2. PICK o \in Unlink(tree, files, psz, Faulty) : tree' = o.tree /\ NextEntry(o.res)
  BY DEF UnlinkFile
<1>3. psz \in DOMAIN tree /\ ~ tree[psz].dir
  BY <1>1 DEF Sound, AtWork
<1>4. psz # <<>> /\ Children(tree, psz) = {}
  BY <1>3, FileChildless DEF Volume, IsTree, IsDir
<1>5. /\ tree' = tree \/ tree' = Without(tree, psz)
      /\ o.res \in Fine
      /\ o.res = "FR_OK" => tree' = Without(tree, psz)
      /\ o.res = "FR_DENIED" => tree' = tree /\ tree[psz].rdo
  <2>1. o \in Unlink(tree, files, psz, Faulty) /\ tree' = o.tree
    BY <1>2
  <2> QED BY <2>1, <1>3, <1>4, UnlinkWorks
<1>6. Shrinks /\ \A q \in DOMAIN tree : q # psz => q \in DOMAIN tree'
  BY <1>5, RemovedShrinks
<1>7. /\ Top.dir \in DOMAIN tree'
      /\ \A i \in 1 .. Len(stack) - 1 : stack[i].dir \in DOMAIN tree'
  BY <1>1, <1>3, <1>6, DirsThere DEF Sound, IsDir
<1>8. o.res = "FR_OK" => psz \notin DOMAIN tree'
  BY <1>5, WithoutGone
<1>9. o.res = "FR_DENIED" => ReadOnlyLeft'
  BY <1>1, <1>3, <1>5 DEF ReadOnlyLeft, Subtree, Contained
<1> QED BY <1>1, <1>2, <1>5, <1>6, <1>7, <1>8, <1>9, NextEntrySound

LEMMA SameTree ==
  ASSUME Contained, Books, Stand, stack # <<>>, tree' = tree
  PROVE  /\ Shrinks /\ \A i \in 1 .. Len(stack) - 1 : stack[i].dir \in DOMAIN tree'
         /\ Top.at # "open" => Top.dir \in DOMAIN tree' /\ IsDir(tree', Top.dir)
BY DirsThere DEF Shrinks, IsDir

LEMMA ChildReturnedSound ==
  ASSUME Sure, ChildReturned
  PROVE  Sound'
<1> USE DEF Sure
<1>1. /\ stack # <<>> /\ Top.at = "child" /\ Top.at # "open" /\ NextEntry(ret)
      /\ ret # "FR_TOO_MANY_OPEN_FILES" /\ tree' = tree /\ call' = call
  BY DEF ChildReturned, AtTop
<1>2. Explained(ret) /\ (ret = "FR_OK" => psz \notin DOMAIN tree)
  BY <1>1 DEF Sound, AtWork, Waiting
<1>3. ret \in Fine /\ (ret = "FR_DENIED" => ReadOnlyLeft')
  BY <1>1, <1>2 DEF Explained, ReadOnlyLeft
<1>4. /\ Shrinks /\ Top.dir \in DOMAIN tree'
      /\ \A i \in 1 .. Len(stack) - 1 : stack[i].dir \in DOMAIN tree'
  BY <1>1, SameTree DEF Sound
<1> QED BY <1>1, <1>2, <1>3, <1>4, NextEntrySound

LEMMA ChildStarvedSound ==
  ASSUME Sure, ChildStarved
  PROVE  Sound'
<1> USE DEF Sure
<1> DEFINE fr == [Top EXCEPT !.at = "retry", !.dirOpen = FALSE]
<1>1. /\ stack # <<>> /\ Top.at = "child" /\ Top.at # "open" /\ Suspend(fr)
      /\ ret = "FR_TOO_MANY_OPEN_FILES"
      /\ files' = Closed /\ tree' = tree /\ psz' = psz /\ call' = call
  BY DEF ChildStarved, AtTop
<1>2. Top \in Frame /\ psz' \in Seq(Names)
  BY <1>1, TopFacts
<1>3. IsPrefix(Top.dir, psz')
  BY <1>1, OwnBuffer
<1>4. IsDir(tree, psz')
  BY <1>1 DEF Sound, AtWork, Waiting, Explained, Fine
<1>5. Room'
  BY <1>1, ClosedRoom DEF Holding, Room
<1>6. fr \in Frame /\ fr.at = "retry"
  BY <1>2, FrameMoves DEF Places
<1>7. fr.dir = Top.dir /\ fr.seen = Top.seen
  BY <1>2 DEF Frame
<1> HIDE DEF fr
<1>8. \A name \in fr.seen : Append(fr.dir, name) \in DOMAIN tree => IsPrefix(Append(fr.dir, name), psz')
  <2>1. \A name \in Top.seen : Append(Top.dir, name) \in DOMAIN tree => Append(Top.dir, name) = psz
    BY <1>1, ReadIsGone DEF Sound
  <2>2. IsPrefix(psz, psz')
    BY <1>1, <1>2, PrefixOfItself
  <2> QED BY <1>7, <2>1, <2>2
<1> QED BY <1>1, <1>2, <1>3, <1>4, <1>5, <1>6, <1>7, <1>8, SuspendSound DEF Sound, Waiting

LEMMA RetryReturnedSound ==
  ASSUME Sure, RetryReturned
  PROVE  Sound'
<1> USE DEF Sure
<1>1. /\ stack # <<>> /\ Top.at = "retry" /\ Top.at # "open" /\ psz' = Trimmed
      /\ tree' = tree /\ call' = call
  BY DEF RetryReturned, AtTop
<1>2. Top \in Frame /\ Top.dir \in Seq(Names) /\ OwnPath(stack, psz) = Top.dir
  BY <1>1, TopFacts
<1>3. Trimmed = Top.dir /\ psz' = Top.dir /\ IsPrefix(Top.dir, psz')
  BY <1>1, <1>2, OwnBuffer, PrefixOfItself
<1>4. /\ Shrinks /\ IsDir(tree', Top.dir)
      /\ \A i \in 1 .. Len(stack) - 1 : stack[i].dir \in DOMAIN tree'
  BY <1>1, SameTree DEF Sound
<1>5. Room /\ Explained(ret)
  BY <1>1 DEF Sound, AtWork, Waiting
<1>6. CASE ret # "FR_OK"
  <2>1. Return(ret) /\ files' = files
    BY <1>6 DEF RetryReturned
  <2>2. Room' /\ ret \in Fine /\ (ret = "FR_DENIED" => ReadOnlyLeft')
    BY <1>1, <1>5, <2>1 DEF Room, Explained, ReadOnlyLeft
  <2> QED BY <1>1, <1>2, <1>3, <1>4, <1>6, <2>1, <2>2, ReturnSound DEF Sound
<1>7. CASE ret = "FR_OK"
  <2> DEFINE fr == [Top EXCEPT !.at = "progress", !.dirOpen = TRUE, !.dir = Trimmed, !.seen = {}]
  <2>1. PICK o \in Opendir(tree, files, Trimmed, Faulty) :
          files' = o.files /\ IF o.res = "FR_OK" THEN SetTop(fr) ELSE Return(o.res)
    BY <1>7 DEF RetryReturned
  <2>2. /\ o.res = "FR_OK" \/ o.res = "FR_DISK_ERR"
        /\ o.res # "FR_OK" => o.files = files
    <3>1. o \in Opendir(tree, files, Top.dir, Faulty) /\ IsDir(tree, Top.dir)
      BY <1>1, <1>3, <1>4, <2>1
    <3> HIDE DEF fr
    <3>2. /\ o.res \in {"FR_OK", "FR_TOO_MANY_OPEN_FILES", "FR_DISK_ERR"}
          /\ o.res = "FR_TOO_MANY_OPEN_FILES" => FreeSlots(files) = 0
          /\ o.res # "FR_OK" => o.files = files
      BY <3>1, OpendirWorks
    <3> QED BY <3>2, <1>5 DEF Room
  <2>3. CASE o.res = "FR_OK"
    <3>1. fr \in Frame /\ fr.at = "progress"
      BY <1>2, <1>3, FrameReopens
    <3>2. fr.dir = Top.dir /\ fr.seen = {}
      BY <1>2, <1>3 DEF Frame
    <3>3. SetTop(fr)
      BY <2>1, <2>3
    <3> HIDE DEF fr
    <3> QED BY <1>1, <1>2, <1>3, <1>4, <3>1, <3>2, <3>3, SetTopSound DEF Sound
  <2>4. CASE o.res # "FR_OK"
    <3>1. Return(o.res) /\ o.res = "FR_DISK_ERR" /\ Room'
      BY <1>5, <2>1, <2>2, <2>4 DEF Room
    <3> HIDE DEF fr
    <3> QED BY <1>1, <1>2, <1>3, <1>4, <3>1, ReturnSound DEF Sound, Fine
  <2> QED BY <2>3, <2>4
<1> QED BY <1>6, <1>7

LEMMA RemoveSelfSound ==
  ASSUME Sure, RemoveSelf
  PROVE  Sound'
<1> USE DEF Sure
<1>1. /\ stack # <<>> /\ Top.at = "rmdir" /\ Top.at # "open"
      /\ psz' = psz /\ files' = files /\ call' = call
  BY DEF RemoveSelf, AtTop
<1>2. PICK o \in Unlink(tree, files, psz, Faulty) : tree' = o.tree /\ Return(o.res)
  BY DEF RemoveSelf
<1>3. psz = Top.dir /\ psz = OwnPath(stack, psz)
  BY <1>1, TopFacts, OwnBuffer DEF InDirectory
<1>4. psz # <<>> /\ IsPrefix(call.target, psz)
  BY <1>1, <1>3, NotRoot
<1>5. Children(tree, psz) = {} /\ Room
  BY <1>1, <1>3 DEF Sound, AtWork
<1>6. psz \in DOMAIN tree
  BY <1>1, <1>3, DirsThere DEF Sound, IsDir
<1>7. /\ tree' = tree \/ tree' = Without(tree, psz)
      /\ o.res \in Fine
      /\ o.res = "FR_OK" => tree' = Without(tree, psz)
      /\ o.res = "FR_DENIED" => tree' = tree /\ tree[psz].rdo
  <2>1. o \in Unlink(tree, files, psz, Faulty) /\ tree' = o.tree
    BY <1>2
  <2> QED BY <2>1, <1>4, <1>5, <1>6, UnlinkWorks
<1>8. Shrinks /\ \A q \in DOMAIN tree : q # psz => q \in DOMAIN tree'
  BY <1>7, RemovedShrinks
<1>9. \A i \in 1 .. Len(stack) - 1 : stack[i].dir \in DOMAIN tree'
  BY <1>1, <1>3, <1>8, DirsThere DEF Sound, IsDir
<1>10. o.res = "FR_OK" => psz' \notin DOMAIN tree'
  BY <1>1, <1>7, WithoutGone
<1>11. o.res = "FR_DENIED" => ReadOnlyLeft'
  BY <1>1, <1>4, <1>6, <1>7 DEF ReadOnlyLeft, Subtree
<1>12. Room'
  BY <1>1, <1>5 DEF Room
<1> QED BY <1>1, <1>2, <1>3, <1>7, <1>8, <1>9, <1>10, <1>11, <1>12, ReturnSound DEF Sound

LEMMA StepSound ==
  ASSUME Sure, Step
  PROVE  Sound'
BY OpenDirSound, ProgressSound, ReadFailsSound, ReadEndSound, ReadEntrySound, UnlinkFileSound,
   ChildReturnedSound, ChildStarvedSound, RetryReturnedSound, RemoveSelfSound DEF Step

-----------------------------------------------------------------------------
(* A call that begins with a free entry; the host between two calls.         *)
LEMMA CallSound ==
  ASSUME IInv, NEW p \in DOMAIN tree, Call(p), Given'
  PROVE  Sound'
<1> DEFINE st == <<NewFrame>>
<1>1. /\ stack' = st /\ psz' = p /\ tree' = tree /\ files' = files /\ IsDir(tree, p)
      /\ call'.free = FreeSlots(files)
  BY DEF Call
<1>2. NewFrame.at = "open" /\ NewFrame.seen = {}
  BY DEF NewFrame
<1>3. Len(st) = 1 /\ DOMAIN st = {1} /\ st[1] = NewFrame /\ st # <<>> /\ Last(st) = NewFrame
  BY DEF Last
<1> HIDE DEF st
<1>4. Room'
  BY <1>1 DEF Given, Room
<1>5. Top' = NewFrame
  BY <1>1, <1>3 DEF Top
<1>6. Stand'
  BY <1>1, <1>2, <1>3 DEF Stand
<1>7. Emptied'
  BY <1>1, <1>2, <1>3 DEF Emptied
<1>8. AtWork'
  BY <1>1, <1>2, <1>4, <1>5 DEF AtWork, Waiting
<1>9. Outcome'
  BY <1>1, <1>3 DEF Outcome
<1> QED BY <1>6, <1>7, <1>8, <1>9 DEF Sound

LEMMA BetweenSound ==
  ASSUME Sound, HostBetween
  PROVE  Sound'
<1>1. stack = <<>> /\ stack' = stack /\ tree' = tree /\ ret' = ret /\ call' = call
  BY DEF HostBetween, Idle
<1>2. DOMAIN stack' = {}
  BY <1>1
<1>3. Stand' /\ Emptied' /\ AtWork'
  BY <1>1, <1>2 DEF Stand, Emptied, AtWork
<1>4. Outcome'
  BY <1>1 DEF Sound, Outcome, Explained, ReadOnlyLeft
<1> QED BY <1>3, <1>4 DEF Sound

Reasons == Given => Sound

LEMMA NextReasons == IInv /\ Books /\ Reasons /\ [Next]_vars => Reasons'
<1> SUFFICES ASSUME IInv, Books, Reasons, [Next]_vars, Given' PROVE Sound'
  BY DEF Reasons
<1>1. CASE Step
  <2>1. call' = call
    BY <1>1 DEF Step, OpenDir, Progress, ReadFails, ReadEnd, ReadEntry, UnlinkFile, ChildReturned,
                ChildStarved, RetryReturned, RemoveSelf
  <2>2. Given
    BY <2>1 DEF Given
  <2>3. Sure
    BY <2>2 DEF Sure, IInv, Reasons
  <2> QED BY <1>1, <2>3, StepSound
<1>2. CASE HostBetween
  BY <1>2, BetweenSound DEF HostBetween, Given, Reasons
<1>3. ASSUME NEW p \in DOMAIN tree, Call(p) PROVE Sound'
  BY <1>3, CallSound
<1>4. CASE UNCHANGED vars
  <2>1. Given /\ Sound
    BY <1>4 DEF vars, Given, Reasons
  <2> QED BY <1>4, <2>1 DEF vars, Sound, Stand, Emptied, AtWork, Outcome, Top, SecondTry, Room,
                            Explained, ReadOnlyLeft
<1> QED BY <1>1, <1>2, <1>3, <1>4 DEF Next

(* f_rmdir_r, which closes its own directory and tries again when a deeper   *)
(* one finds the table full: for every tree of any depth, table size, host   *)
(* and failure, a removal that begins with one free entry ends with success, *)
(* a locked file, a disk error, or FR_DENIED with a read-only entry of the   *)
(* subtree still there; never for want of an entry and never because it      *)
(* tried to remove a directory it had not emptied.                           *)
THEOREM OnlyFilesStop == Spec => []OnlyFilesStopIt
<1>1. Init => Reasons
  <2> SUFFICES ASSUME Init PROVE ~ Given
    BY DEF Reasons
  <2>1. call = [target |-> <<>>, tree |-> tree, free |-> FF_FS_LOCK]
    BY DEF Init
  <2>2. call.target = <<>>
    BY <2>1
  <2> QED BY <2>2 DEF Given
<1>2. Reasons => OnlyFilesStopIt
  <2> SUFFICES ASSUME Reasons, Given, stack = <<>>
               PROVE  ret \in Fine \cup {""} /\ (ret = "FR_DENIED" => ReadOnlyLeft)
    BY DEF Given, Fine, ReadOnlyLeft, OnlyFilesStopIt, Idle
  <2>1. ret = "" \/ Explained(ret)
    BY DEF Reasons, Sound, Outcome
  <2> QED BY <2>1 DEF Explained
<1> QED BY <1>1, <1>2, Initially, InitBooks, NextKeeps, NextBooks, NextReasons, PTL DEF Spec

=============================================================================
