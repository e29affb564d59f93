---------------------------- MODULE MemPoolProofs ----------------------------
(* The memory pool hands out blocks that are inside their buckets, aligned   *)
(* and apart, whatever the sizes asked for and however many buckets there    *)
(* are.                                                                      *)
EXTENDS MemPool, TLAPS

(* The inductive invariant: a new block begins where `used` says, so what    *)
(* is known of `used` (BucketsSound) is what makes the blocks sound.         *)
IInv == TypeOK /\ BucketsSound /\ BlocksInside /\ BlocksApart

(* Rounding up yields a multiple of the pointer size that is large enough.   *)
LEMMA RoundedUp ==
  ASSUME NEW cb \in Nat, cb # 0
  PROVE  /\ Rounded(cb) \in Nat /\ Rounded(cb) > 0
         /\ cb <= Rounded(cb) /\ Rounded(cb) % Ptr = 0
<1>1. CASE Ptr = 4 BY <1>1 DEF Rounded
<1>2. CASE Ptr = 8 BY <1>2 DEF Rounded
<1>3. QED BY <1>1, <1>2, PtrAssumption

LEMMA HeaderFacts == Header \in Nat /\ Header > 0 /\ Header % Ptr = 0 /\ 2 * Header <= BucketSize
<1>1. CASE Ptr = 4 BY <1>1, BucketAssumption DEF Header
<1>2. CASE Ptr = 8 BY <1>2, BucketAssumption DEF Header
<1>3. QED BY <1>1, <1>2, PtrAssumption

LEMMA SumOfMultiples ==
  ASSUME NEW m \in Nat, NEW n \in Nat, m % Ptr = 0, n % Ptr = 0
  PROVE  (m + n) % Ptr = 0
<1>1. CASE Ptr = 4 BY <1>1
<1>2. CASE Ptr = 8 BY <1>2
<1>3. QED BY <1>1, <1>2, PtrAssumption

LEMMA GrownBucket ==
  ASSUME NEW r \in Bucket, NEW n \in Nat
  PROVE  LET grown == [r EXCEPT !.used = r.used + n]
         IN  grown \in Bucket /\ grown.size = r.size /\ grown.used = r.used + n
BY DEF Bucket

LEMMA Initially == Init => IInv
BY DEF Init, IInv, TypeOK, BucketsSound, BlocksInside, BlocksApart, Bucket, Block

(* A block carved from the bucket that has room for it.                      *)
LEMMA FromBucketKeeps ==
  ASSUME IInv, NEW cb \in Requests, AllocFromBucket(cb)
  PROVE  IInv'
<1> DEFINE n == Rounded(cb)
<1>1. PICK i \in DOMAIN buckets :
        /\ HasRoom(i, n)
        /\ buckets' = [buckets EXCEPT ![i].used = @ + n]
        /\ Give(i, buckets[i].used, n, cb)
  BY DEF AllocFromBucket
<1>2. n \in Nat /\ n > 0 /\ cb <= n /\ n % Ptr = 0 /\ cb \in Nat
  BY RoundedUp, RequestAssumption DEF AllocFromBucket
<1>3. buckets \in Seq(Bucket) /\ i \in Nat /\ buckets[i] \in Bucket
  BY <1>1 DEF IInv, TypeOK
<1> HIDE DEF n
<1> DEFINE grown == [buckets[i] EXCEPT !.used = buckets[i].used + n]
<1>4. /\ DOMAIN buckets' = DOMAIN buckets
      /\ buckets'[i].size = buckets[i].size
      /\ buckets'[i].used = buckets[i].used + n
      /\ \A j \in DOMAIN buckets : j # i => buckets'[j] = buckets[j]
      /\ buckets' \in Seq(Bucket)
  <2>1. grown \in Bucket /\ grown.size = buckets[i].size /\ grown.used = buckets[i].used + n
    BY <1>2, <1>3, GrownBucket
  <2>2. buckets' = [buckets EXCEPT ![i] = grown]
    BY <1>1
  <2>3. buckets \in [1 .. Len(buckets) -> Bucket] /\ Len(buckets) \in Nat
    BY <1>3
  <2> HIDE DEF grown
  <2>4. buckets' \in [1 .. Len(buckets) -> Bucket]
    BY <2>1, <2>2, <2>3
  <2>5. buckets' \in Seq(Bucket)
    BY <2>3, <2>4
  <2> QED BY <1>1, <2>1, <2>2, <2>3, <2>5
<1>5. PICK new \in Block :
        /\ new.bucket = i /\ new.off = buckets[i].used /\ new.len = n /\ new.asked = cb
        /\ blocks' = blocks \cup {new} /\ last' = {new}
  <2> DEFINE new == [bucket |-> i, off |-> buckets[i].used, len |-> n, asked |-> cb]
  <2>1. new \in Block
    BY <1>2, <1>3 DEF Block, Bucket
  <2> QED BY <2>1, <1>1 DEF Give
<1>6. TypeOK'
  BY <1>4, <1>5 DEF IInv, TypeOK
<1>7. BucketsSound'
  <2>1. buckets[i].used + n < buckets[i].size /\ Header <= buckets[i].used
        /\ buckets[i].used % Ptr = 0 /\ buckets[i].used \in Nat /\ buckets[i].size \in Nat
    BY <1>1, <1>3 DEF HasRoom, IInv, BucketsSound, Bucket
  <2>2. (buckets[i].used + n) % Ptr = 0
    BY <2>1, <1>2, SumOfMultiples
  <2>3. /\ Header <= buckets'[i].used /\ buckets'[i].used <= buckets'[i].size
        /\ buckets'[i].used % Ptr = 0
    BY <2>1, <2>2, <1>2, <1>4, HeaderFacts
  <2>4. ASSUME NEW j \in DOMAIN buckets, j # i
        PROVE  /\ Header <= buckets'[j].used /\ buckets'[j].used <= buckets'[j].size
               /\ buckets'[j].used % Ptr = 0
    BY <2>4, <1>4 DEF IInv, BucketsSound
  <2> QED BY <2>3, <2>4, <1>4 DEF BucketsSound
<1>8. ASSUME NEW b \in blocks
      PROVE  Inside(b)' /\ b.off % Ptr = 0 /\ b.asked <= b.len
  <2>1. Inside(b) /\ b.off % Ptr = 0 /\ b.asked <= b.len /\ b \in Block
    BY DEF IInv, BlocksInside, TypeOK
  <2>2. /\ b.off \in Nat /\ b.len \in Nat
        /\ buckets[i].used \in Nat /\ buckets'[i].used <= buckets'[i].size
    BY <2>1, <1>3, <1>4, <1>7 DEF Block, Bucket, BucketsSound
  <2>3. CASE b.bucket = i
    BY <2>1, <2>2, <2>3, <1>2, <1>4 DEF Inside
  <2>4. CASE b.bucket # i
    BY <2>1, <2>4, <1>4 DEF Inside
  <2> QED BY <2>1, <2>3, <2>4
<1>9. Inside(new)' /\ new.off % Ptr = 0 /\ new.asked <= new.len
  <2>1. buckets[i].used \in Nat /\ buckets[i].size \in Nat
    BY <1>3 DEF Bucket
  <2>2. /\ buckets[i].used % Ptr = 0 /\ Header <= buckets[i].used
        /\ buckets'[i].used <= buckets'[i].size
    BY <1>1, <1>4, <1>7 DEF IInv, BucketsSound
  <2>3. new.off + new.len <= buckets'[i].used
    BY <2>1, <1>2, <1>4, <1>5
  <2> QED BY <2>2, <2>3, <1>2, <1>4, <1>5 DEF Inside
<1>10. BlocksInside'
  BY <1>5, <1>8, <1>9 DEF BlocksInside, Inside
<1>11. \A b \in blocks : Apart(b, new) /\ Apart(new, b)
  <2>1. ASSUME NEW b \in blocks, b.bucket = i PROVE b.off + b.len <= buckets[i].used
    BY <2>1 DEF IInv, BlocksInside, Inside
  <2> QED BY <2>1, <1>5 DEF Apart
<1>12. BlocksApart'
  BY <1>5, <1>11 DEF IInv, BlocksApart, Apart
<1>13. QED BY <1>6, <1>7, <1>10, <1>12 DEF IInv

(* A block at the start of a bucket that was made for it.                    *)
LEMMA NewBucketKeeps ==
  ASSUME IInv, NEW cb \in Requests, AllocNewBucket(cb)
  PROVE  IInv'
<1> DEFINE n    == Rounded(cb)
           size == IF n < BucketSize \div 2 THEN BucketSize ELSE n + Header
           k    == Len(buckets) + 1
<1>1. n \in Nat /\ n > 0 /\ cb <= n /\ n % Ptr = 0 /\ cb \in Nat
  BY RoundedUp, RequestAssumption DEF AllocNewBucket, NoRoom
<1>2. size \in Nat /\ Header + n <= size
  BY <1>1, HeaderFacts, BucketAssumption
<1>3. buckets' = Append(buckets, [size |-> size, used |-> Header + n])
  BY DEF AllocNewBucket
<1>4. PICK new \in Block :
        /\ new.bucket = k /\ new.off = Header /\ new.len = n /\ new.asked = cb
        /\ blocks' = blocks \cup {new} /\ last' = {new}
  <2> DEFINE new == [bucket |-> k, off |-> Header, len |-> n, asked |-> cb]
  <2>1. new \in Block
    BY <1>1, HeaderFacts DEF Block, IInv, TypeOK
  <2> QED BY <2>1 DEF AllocNewBucket, Give
<1> HIDE DEF n, size
<1>5. buckets \in Seq(Bucket) /\ [size |-> size, used |-> Header + n] \in Bucket
  BY <1>1, <1>2, HeaderFacts DEF IInv, TypeOK, Bucket
<1>6. /\ buckets' \in Seq(Bucket)
      /\ DOMAIN buckets' = DOMAIN buckets \cup {k}
      /\ buckets'[k] = [size |-> size, used |-> Header + n]
      /\ \A j \in DOMAIN buckets : buckets'[j] = buckets[j] /\ j # k
  BY <1>3, <1>5
<1>7. TypeOK'
  BY <1>4, <1>6 DEF IInv, TypeOK
<1>8. (Header + n) % Ptr = 0
  BY <1>1, HeaderFacts, SumOfMultiples
<1>9. BucketsSound'
  BY <1>1, <1>2, <1>6, <1>8, HeaderFacts DEF IInv, BucketsSound
<1>10. BlocksInside'
  <2>1. \A b \in blocks : Inside(b)' /\ b.off % Ptr = 0 /\ b.asked <= b.len
    BY <1>6 DEF IInv, BlocksInside, Inside
  <2>2. Inside(new)' /\ new.off % Ptr = 0 /\ new.asked <= new.len
    BY <1>1, <1>2, <1>4, <1>6, HeaderFacts DEF Inside
  <2> QED BY <2>1, <2>2, <1>4 DEF BlocksInside, Inside
<1>11. \A b \in blocks : b.bucket # k
  BY <1>6 DEF IInv, BlocksInside, Inside
<1>12. BlocksApart'
  BY <1>4, <1>11 DEF IInv, BlocksApart, Apart
<1>13. QED BY <1>7, <1>9, <1>10, <1>12 DEF IInv

LEMMA StepKeeps == IInv /\ [Next]_vars => IInv'
<1> SUFFICES ASSUME IInv, [Next]_vars PROVE IInv'
  OBVIOUS
<1>1. CASE Release
  BY <1>1 DEF Release, IInv, TypeOK, BucketsSound, BlocksInside, BlocksApart, Bucket, Block
<1>2. ASSUME NEW cb \in Requests, AllocFromBucket(cb) PROVE IInv'
  BY <1>2, FromBucketKeeps
<1>3. ASSUME NEW cb \in Requests, AllocNewBucket(cb) PROVE IInv'
  BY <1>3, NewBucketKeeps
<1>4. ASSUME NEW cb \in Requests, AllocNothing(cb) PROVE IInv'
  BY <1>4 DEF AllocNothing, IInv, TypeOK, BucketsSound, BlocksInside, Inside, BlocksApart, Apart
<1>5. CASE UNCHANGED vars
  BY <1>5 DEF vars, IInv, TypeOK, BucketsSound, BlocksInside, Inside, BlocksApart, Apart
<1>6. QED BY <1>1, <1>2, <1>3, <1>4, <1>5 DEF Next, Alloc

LEMMA Invariance == Spec => []IInv
BY Initially, StepKeeps, PTL DEF Spec

(* The shape of a pool's state, after any sequence of calls.                 *)
THEOREM PoolTypes == Spec => []TypeOK
<1>1. IInv => TypeOK BY DEF IInv
<1>2. QED BY <1>1, Invariance, PTL

(* mempool_alloc: every block is inside its bucket, behind the header,       *)
(* aligned, and as long as was asked, and what a bucket has given out ends   *)
(* at or before its end, for every bucket size of at least two headers and   *)
(* every sequence of calls.                                                  *)
THEOREM PoolBlocksInside == Spec => [](BucketsSound /\ BlocksInside)
<1>1. IInv => BucketsSound /\ BlocksInside BY DEF IInv
<1>2. QED BY <1>1, Invariance, PTL

(* mempool_alloc: no byte is given out twice before mempool_release.         *)
THEOREM PoolBlocksApart == Spec => []BlocksApart
<1>1. IInv => BlocksApart BY DEF IInv
<1>2. QED BY <1>1, Invariance, PTL

=============================================================================
