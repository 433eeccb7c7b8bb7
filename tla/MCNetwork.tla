------------------------------ MODULE MCNetwork ------------------------------
(***************************************************************************)
(* Instances of IpAllowList and TokenBucket for TLC.  The two share no     *)
(* state and no step: a behaviour is one of either machine, so that the    *)
(* states are the sum of the two, not the product.                         *)
(***************************************************************************)
EXTENDS IpAllowList, TokenBucket, TLC

CONSTANTS client1, proxy, net, outer

VARIABLE machine

\* Both networks hold the client; the proxy is trusted and in neither.
MCCovers == {<<net, client1>>, <<outer, client1>>}

Symmetry == Permutations(Adds) \cup Permutations(Limited)

NetworkInit ==
    /\ machine \in {"allow list", "token bucket"}
    /\ Init
    /\ BucketInit

NetworkNext ==
    \/ machine = "allow list" /\ Next /\ UNCHANGED <<machine, bucketVars>>
    \/ machine = "token bucket" /\ BucketNext /\ UNCHANGED <<machine, vars>>

NetworkSpec == NetworkInit /\ [][NetworkNext]_<<machine, vars, bucketVars>>

=============================================================================
