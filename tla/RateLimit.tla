------------------------------ MODULE RateLimit ------------------------------
(***************************************************************************)
(* The rate limiter of src/internal/ratelimit: one token bucket per client *)
(* address, made when the client is first seen and swept away when there   *)
(* are many and it has not been seen for a while.                          *)
(*                                                                         *)
(* The unit of time is a tick, and a bucket is measured in ticks of        *)
(* refilling: main.go gives authLimit a Cost of ten seconds, aiLimit of    *)
(* twenty and adminLimit of two.  Taking the bucket and asking it are one  *)
(* step: the fifteen minutes of the sweep do not pass between them.        *)
(***************************************************************************)
EXTENDS Naturals, FiniteSets, Sequences, SequencesExt

CONSTANTS
    Clients,      \* addresses, "" among what headers may say but not here
    Hops,         \* what X-Forwarded-For may hold: sequences of addresses and ""
    Burst,        \* requests a full bucket is good for
    Cost,         \* ticks a token takes to come back
    Kept,         \* 15 minutes: how long a client is kept that is not seen
    MaxVisitors,  \* 10000: clients above which there is a sweep
    MaxNow        \* bound: the clock

ASSUME RateLimitAssumption ==
    /\ {Burst, Cost} \subseteq Nat \ {0} /\ {Kept, MaxVisitors, MaxNow} \subseteq Nat
    /\ "" \notin Clients /\ Clients # {} /\ Hops \subseteq Seq(Clients \cup {""})
    /\ Kept + 1 >= Burst * Cost

VARIABLES
    visitors,  \* the clients that have a bucket
    bucket,    \* [Clients -> [level, last]]: what was in it when it was last asked, and when
    now,
    answer     \* [client, allowed]: the last request, and whether it was passed on

limiterVars == <<visitors, bucket, now, answer>>

Full    == Burst * Cost
Capped(n) == IF n < Full THEN n ELSE Full

\* rate.NewLimiter, and what its bucket holds by now.
NewLimiter == [level |-> Full, last |-> now]
Held(b)    == Capped(b.level + (now - b.last))

LimiterTypeOK ==
    /\ visitors \subseteq Clients
    /\ bucket \in [Clients -> [level : 0..Full, last : 0..now]]
    /\ now \in Nat
    /\ answer \in [client : Clients, allowed : BOOLEAN]

LimiterInit ==
    /\ now = 0
    /\ visitors = {}
    /\ bucket = [c \in Clients |-> NewLimiter]
    /\ answer \in [client : Clients, allowed : {TRUE}]

\* clientIP: the last hop, which the tunnel appended, or the peer.
clientIP(hops, peer) == IF hops # <<>> /\ Last(hops) # "" THEN Last(hops) ELSE peer

\* Mutant: whoever has not been seen since the last tick is swept.
SweptSoon == IF Cardinality(visitors) > MaxVisitors THEN {c \in visitors : now - bucket[c].last <= 0} ELSE visitors

\* The clients a sweep leaves.
Swept == IF Cardinality(visitors) > MaxVisitors THEN {c \in visitors : now - bucket[c].last <= Kept} ELSE visitors

\* get, and Allow.
Middleware(hops, peer) ==
    LET c    == clientIP(hops, peer)
        held == IF c \in Swept THEN Held(bucket[c]) ELSE Full
        ok   == held >= Cost
    IN  /\ visitors' = Swept \cup {c}
        /\ bucket' = [bucket EXCEPT ![c] = [level |-> IF ok THEN held - Cost ELSE held, last |-> now]]
        /\ answer' = [client |-> c, allowed |-> ok]
        /\ UNCHANGED now

Pass == now' = now + 1 /\ UNCHANGED <<visitors, bucket, answer>>

LimiterNext ==
    \/ now < MaxNow /\ Pass
    \/ \E hops \in Hops, peer \in Clients : Middleware(hops, peer)

LimiterSpec == LimiterInit /\ [][LimiterNext]_limiterVars

-----------------------------------------------------------------------------
(* Properties *)

\* What each client's bucket holds, whether or not the limiter keeps it.
Level == [c \in Clients |-> IF c \in visitors THEN Held(bucket[c]) ELSE Full]

Promise == INSTANCE TokenBucket WITH level <- Level, verdict <- answer

\* The limiter keeps the promise of TokenBucket to every client: nobody gets more than its
\* bucket because it was swept meanwhile, and nobody is turned away for another.
KeepsPromise == Promise!Spec
=============================================================================
