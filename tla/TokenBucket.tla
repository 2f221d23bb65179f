----------------------------- MODULE TokenBucket -----------------------------
(***************************************************************************)
(* What a rate limiter promises its clients: each has a bucket of its own, *)
(* full at first, which gets Refill back per tick up to Full; a request    *)
(* takes Cost, or is turned away where there is less.  Nobody ever looks   *)
(* at how many clients there are.                                          *)
(***************************************************************************)
EXTENDS Naturals

CONSTANTS Clients, Full, Cost

VARIABLES
    level,   \* [Clients -> what is in the bucket]
    verdict  \* [client, allowed]: the last request

bucketVars == <<level, verdict>>

Init ==
    /\ level = [c \in Clients |-> Full]
    /\ verdict \in [client : Clients, allowed : {TRUE}]

Tick ==
    /\ level' = [c \in Clients |-> IF level[c] < Full THEN level[c] + 1 ELSE Full]
    /\ UNCHANGED verdict

Ask(c) ==
    /\ verdict' = [client |-> c, allowed |-> level[c] >= Cost]
    /\ level' = [level EXCEPT ![c] = IF @ >= Cost THEN @ - Cost ELSE @]

Next == Tick \/ \E c \in Clients : Ask(c)

Spec == Init /\ [][Next]_bucketVars
=============================================================================
