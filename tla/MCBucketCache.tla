--------------------------- MODULE MCBucketCache ----------------------------
(* Three files, the first of one index and the others of a second one.     *)
(* The two hashes have two values, so that the four buckets meet in the    *)
(* first table, use the overflow table and collide there.                  *)
EXTENDS BucketCache

TwoIndexes == [f \in 1..MaxFile |-> IF f = 1 THEN 0 ELSE 1]

LowHash == [b \in Bucket |-> IF 3 \in b THEN 1 ELSE 0]

HighHash == [b \in Bucket |-> IF 2 \in b THEN 1 ELSE 0]
=============================================================================
