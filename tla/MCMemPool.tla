------------------------------ MODULE MCMemPool ------------------------------
(* A pool of 64-byte buckets: blocks that share a bucket, blocks that fill   *)
(* one to the last byte but one, and blocks that get one of their own.       *)
EXTENDS MemPool

MCRequests == {0, 1, 8, 9, 24, 31, 32, 50}
=============================================================================
