------------------------------- MODULE TokenBucket -------------------------------
(***************************************************************************)
(* What a rate limiter promises: every address has one bucket, for ever.   *)
(* A request that passes takes a token, a tick of the clock puts one into  *)
(* every bucket that is not full, and a request without a token is refused *)
(* and changes nothing.                                                    *)
(***************************************************************************)
EXTENDS Naturals

CONSTANTS Addresses, Burst

VARIABLE bucket

Pass(a) == bucket[a] > 0 /\ bucket' = [bucket EXCEPT ![a] = @ - 1]

Refill == bucket' = [a \in Addresses |-> IF bucket[a] < Burst THEN bucket[a] + 1 ELSE Burst]

BucketInit == bucket = [a \in Addresses |-> Burst]

BucketNext == Refill \/ \E a \in Addresses : Pass(a)

BucketSpec == BucketInit /\ [][BucketNext]_bucket
=============================================================================
