------------------------------- MODULE MemPool -------------------------------
(* src/src/mempool.c: memory that is given out piecewise from buckets and    *)
(* taken back only all at once.  A bucket is one block of malloc; its header *)
(* (struct MEMPOOL_BUCKET) is at its start, and `used` is the offset of its  *)
(* first free byte.                                                          *)
EXTENDS Integers, Sequences, FiniteSets

CONSTANTS
  Ptr,          \* sizeof(void*), which is sizeof(size_t) too
  BucketSize,   \* the bucket_size of mempool_init
  Requests,     \* the sizes that are asked for
  MaxBuckets    \* malloc fails when there are this many buckets (a bound)

ASSUME PtrAssumption == Ptr \in {4, 8}
(* Every pool of the code has buckets of 4096 bytes; a bucket too small for  *)
(* two headers would be given out beyond its end.                            *)
ASSUME BucketAssumption == BucketSize \in Nat /\ BucketSize >= 6 * Ptr
ASSUME RequestAssumption == Requests \subseteq Nat
ASSUME MaxAssumption == MaxBuckets \in Nat

Header == 3 * Ptr   \* sizeof(struct MEMPOOL_BUCKET)

VARIABLES
  buckets,  \* the buckets, the oldest first: the code's list read from its end
  blocks,   \* the memory given out: [bucket, off, len, asked] records
  last      \* what the last call returned: a block, or the set {} for NULL

vars == <<buckets, blocks, last>>

Init == buckets = <<>> /\ blocks = {} /\ last = {}

(* "Keep allocations aligned to pointer size".                               *)
Rounded(cb) == IF cb % Ptr # 0 THEN cb + (Ptr - (cb % Ptr)) ELSE cb

(* Any free byte taken for room enough.                                      *)
HasAny(i, n) == buckets[i].used < buckets[i].size

HasRoom(i, n) == buckets[i].used + n < buckets[i].size

Give(i, off, n, cb) ==
  /\ blocks' = blocks \cup {[bucket |-> i, off |-> off, len |-> n, asked |-> cb]}
  /\ last' = {[bucket |-> i, off |-> off, len |-> n, asked |-> cb]}

(* The bucket advanced by what was asked for, not by what was given.         *)
AllocShort(cb) ==
  /\ cb # 0
  /\ \E i \in DOMAIN buckets :
       /\ HasRoom(i, Rounded(cb))
       /\ buckets' = [buckets EXCEPT ![i].used = @ + cb]
       /\ Give(i, buckets[i].used, Rounded(cb), cb)

(* The first bucket of the list with room: the newest.                       *)
AllocFromBucket(cb) ==
  /\ cb # 0
  /\ \E i \in DOMAIN buckets :
       LET n == Rounded(cb) IN
       /\ HasRoom(i, n)
       /\ \A j \in DOMAIN buckets : j > i => ~ HasRoom(j, n)
       /\ buckets' = [buckets EXCEPT ![i].used = @ + n]
       /\ Give(i, buckets[i].used, n, cb)

NoRoom(cb) == cb # 0 /\ \A i \in DOMAIN buckets : ~ HasRoom(i, Rounded(cb))

(* A new bucket: of the usual size, or just large enough for a large block.  *)
AllocNewBucket(cb) ==
  LET n    == Rounded(cb)
      size == IF n < BucketSize \div 2 THEN BucketSize ELSE n + Header
  IN
  /\ NoRoom(cb)
  /\ Len(buckets) < MaxBuckets
  /\ buckets' = Append(buckets, [size |-> size, used |-> Header + n])
  /\ Give(Len(buckets) + 1, Header, n, cb)

(* NULL: nothing was asked for, or malloc has nothing more.                  *)
AllocNothing(cb) ==
  /\ cb = 0 \/ (NoRoom(cb) /\ Len(buckets) >= MaxBuckets)
  /\ last' = {}
  /\ UNCHANGED <<buckets, blocks>>

(* mempool_release.                                                          *)
Release ==
  /\ buckets' = <<>> /\ blocks' = {} /\ last' = {}

Alloc(cb) == AllocFromBucket(cb) \/ AllocNewBucket(cb) \/ AllocNothing(cb)

Next == Release \/ \E cb \in Requests : Alloc(cb)

Spec == Init /\ [][Next]_vars

-----------------------------------------------------------------------------
(* Properties.                                                               *)

Bucket == [size : Nat, used : Nat]
Block == [bucket : Nat, off : Nat, len : Nat, asked : Nat]

(* The shape of the state.                                                   *)
TypeOK ==
  /\ buckets \in Seq(Bucket)
  /\ blocks \in SUBSET Block
  /\ last \in SUBSET Block

(* A block lies in its bucket behind the header, starts at a pointer's       *)
(* alignment and has the bytes that were asked for.                          *)
Inside(b) ==
  /\ b.bucket \in DOMAIN buckets
  /\ Header <= b.off
  /\ b.off + b.len <= buckets[b.bucket].used
  /\ buckets[b.bucket].used <= buckets[b.bucket].size

BlocksInside ==
  \A b \in blocks : Inside(b) /\ b.off % Ptr = 0 /\ b.asked <= b.len

(* Nothing given out is given out again before the pool is released.         *)
Apart(b, c) == b.bucket # c.bucket \/ b.off + b.len <= c.off \/ c.off + c.len <= b.off

BlocksApart == \A b, c \in blocks : b # c => Apart(b, c)

(* The buckets themselves: the free part begins behind the header, at a      *)
(* pointer's alignment, and never beyond the end.                            *)
BucketsSound ==
  \A i \in DOMAIN buckets :
    /\ Header <= buckets[i].used
    /\ buckets[i].used <= buckets[i].size
    /\ buckets[i].used % Ptr = 0

=============================================================================
