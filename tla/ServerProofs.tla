----------------------------- MODULE ServerProofs -----------------------------
(***************************************************************************)
(* Proofs about Server, for any number of requests, accounts, learners and *)
(* clients.  The rate limiter keeps the promise of TokenBucket; a request  *)
(* acts as the one who opened its session, and no account is left half     *)
(* made; a migration cut short is finished; the counters of a learner add  *)
(* up, and boards, months and ranks are exact.                             *)
(***************************************************************************)
EXTENDS Server, FiniteSetTheorems, SequenceTheorems, WellFoundedInduction, TLAPS

-----------------------------------------------------------------------------
(* The limiter *)

LEMMA LimiterConstants ==
    Full \in Nat /\ Cost \in Nat /\ Cost > 0 /\ Kept \in Nat /\ Kept + 1 >= Full
<1>1. /\ {Burst, Cost} \subseteq Nat \ {0} /\ {Kept, MaxVisitors, MaxNow} \subseteq Nat
      /\ Kept + 1 >= Full
  BY RateLimitAssumption, Zenon DEF Full
<1>2. Burst \in Nat /\ Cost \in Nat \ {0} /\ Kept \in Nat
  BY <1>1
<1>3. \A x, y \in Nat : x * y \in Nat
  OBVIOUS
<1>4. Full \in Nat
  BY <1>2, <1>3, Zenon DEF Full
<1>5. QED
  BY <1>1, <1>2, <1>4

\* The address a request is counted under is one of the clients'.
LEMMA ClientIPType ==
    ASSUME NEW hops \in Hops, NEW peer \in Clients
    PROVE  clientIP(hops, peer) \in Clients
<1>1. hops \in Seq(Clients \cup {""})
  BY RateLimitAssumption
<1>2. ASSUME hops # <<>> PROVE hops[Len(hops)] \in Clients \cup {""}
  <2>1. hops \in [1..Len(hops) -> Clients \cup {""}]
    BY <1>1, LenProperties
  <2>2. Len(hops) \in Nat \ {0}
    BY <1>1, <1>2, EmptySeq
  <2>3. Len(hops) \in 1..Len(hops)
    BY <2>2
  <2>4. QED
    BY <2>1, <2>3
<1>3. QED
  BY <1>2 DEF clientIP, Last

LEMMA HeldType ==
    ASSUME NEW b \in [level : 0..Full, last : 0..now], now \in Nat
    PROVE  /\ Held(b) \in 0..Full
           /\ now - b.last >= Full => Held(b) = Full
           /\ b.last = now => Held(b) = b.level
BY LimiterConstants DEF Held, Capped

\* Whoever is swept has a full bucket by then.
LEMMA SweptFull ==
    ASSUME LimiterTypeOK, NEW c \in visitors, c \notin Swept
    PROVE  Held(bucket[c]) = Full
<1>1. c \in Clients /\ bucket[c] \in [level : 0..Full, last : 0..now] /\ now \in Nat
  BY DEF LimiterTypeOK
<1>2. now - bucket[c].last > Kept
  <2>1. bucket[c].last \in 0..now
    BY <1>1
  <2>2. ~(now - bucket[c].last <= Kept)
    BY DEF Swept
  <2>3. QED
    BY <1>1, <2>1, <2>2, LimiterConstants
<1>3. now - bucket[c].last >= Full
  BY <1>1, <1>2, LimiterConstants
<1>4. QED
  BY <1>1, <1>3, HeldType

LEMMA SweptVisits == Swept \subseteq visitors
BY DEF Swept

\* What the limiter finds in a client's bucket is what the client is entitled to.
LEMMA FoundIsLevel ==
    ASSUME LimiterTypeOK, NEW c \in Clients
    PROVE  /\ Level[c] = IF c \in Swept THEN Held(bucket[c]) ELSE Full
           /\ Level[c] \in 0..Full
<1>1. bucket[c] \in [level : 0..Full, last : 0..now] /\ now \in Nat
  BY DEF LimiterTypeOK
<1>2. Held(bucket[c]) \in 0..Full /\ Full \in 0..Full
  BY <1>1, HeldType, LimiterConstants
<1>3. Level[c] = IF c \in visitors THEN Held(bucket[c]) ELSE Full
  BY DEF Level
<1>4. QED
  BY <1>2, <1>3, SweptFull, SweptVisits

\* A request takes from the bucket of its client and from no other.
LEMMA MiddlewareAsks ==
    ASSUME LimiterTypeOK, NEW hops \in Hops, NEW peer \in Clients, Middleware(hops, peer)
    PROVE  /\ LimiterTypeOK'
           /\ \E c \in Clients : Promise!Ask(c)
<1> DEFINE c    == clientIP(hops, peer)
           held == IF c \in Swept THEN Held(bucket[c]) ELSE Full
           ok   == held >= Cost
           b    == [level |-> IF ok THEN held - Cost ELSE held, last |-> now]
<1>1. c \in Clients
  BY ClientIPType
<1>2. /\ visitors \subseteq Clients /\ now \in Nat
      /\ bucket \in [Clients -> [level : 0..Full, last : 0..now]]
  BY DEF LimiterTypeOK
<1>3. /\ visitors' = Swept \cup {c} /\ bucket' = [bucket EXCEPT ![c] = b]
      /\ answer' = [client |-> c, allowed |-> ok] /\ now' = now
  BY DEF Middleware
<1>4. Level[c] = held /\ held \in 0..Full /\ ok \in BOOLEAN
  BY <1>1, FoundIsLevel
<1>5. b \in [level : 0..Full, last : 0..now] /\ b.last = now
      /\ b.level = IF ok THEN held - Cost ELSE held
  BY <1>2, <1>4, LimiterConstants
<1> HIDE DEF b, ok, held, c
<1>6. LimiterTypeOK'
  BY <1>1, <1>2, <1>3, <1>4, <1>5, SweptVisits DEF LimiterTypeOK
<1>7. bucket'[c] = b /\ \A d \in Clients \ {c} : bucket'[d] = bucket[d]
  BY <1>1, <1>2, <1>3
<1>8. Level'[c] = b.level
  <2>1. Held(bucket[c])' = Held(b)
    BY <1>3, <1>7 DEF Held, Capped, Full
  <2>2. Held(b) = b.level
    BY <1>2, <1>5, HeldType
  <2>3. QED
    BY <1>1, <1>3, <2>1, <2>2 DEF Level
<1>9. \A d \in Clients \ {c} : Level'[d] = Level[d]
  <2> SUFFICES ASSUME NEW d \in Clients \ {c} PROVE Level'[d] = Level[d]
    OBVIOUS
  <2>1. Level'[d] = IF d \in visitors' THEN Held(bucket[d])' ELSE Full'
    BY DEF Level
  <2>2. Held(bucket[d])' = Held(bucket[d]) /\ Full' = Full
    BY <1>3, <1>7 DEF Held, Capped, Full
  <2>3. d \in visitors' <=> d \in Swept
    BY <1>3
  <2>4. QED
    BY <2>1, <2>2, <2>3, FoundIsLevel
<1>10. Level' = [Level EXCEPT ![c] = IF @ >= Cost THEN @ - Cost ELSE @]
  <2>1. Level = [d \in Clients |-> Level[d]] /\ Level' = [d \in Clients |-> Level'[d]]
    BY DEF Level
  <2>2. Level'[c] = IF Level[c] >= Cost THEN Level[c] - Cost ELSE Level[c]
    BY <1>4, <1>5, <1>8 DEF ok
  <2>3. QED
    BY <1>1, <1>9, <2>1, <2>2
<1>11. Promise!Ask(c)
  BY <1>3, <1>4, <1>10 DEF Promise!Ask, ok
<1>12. QED
  BY <1>1, <1>6, <1>11

\* The clock fills every bucket.
LEMMA PassTicks ==
    ASSUME LimiterTypeOK, Pass
    PROVE  LimiterTypeOK' /\ Promise!Tick
<1>1. /\ visitors \subseteq Clients /\ now \in Nat
      /\ bucket \in [Clients -> [level : 0..Full, last : 0..now]]
      /\ answer \in [client : Clients, allowed : BOOLEAN]
  BY DEF LimiterTypeOK
<1>2. now' = now + 1 /\ visitors' = visitors /\ bucket' = bucket /\ answer' = answer
  BY DEF Pass
<1>3. LimiterTypeOK'
  BY <1>1, <1>2 DEF LimiterTypeOK, Full
<1>4. \A c \in Clients : Level'[c] = IF Level[c] < Full THEN Level[c] + 1 ELSE Full
  <2> SUFFICES ASSUME NEW c \in Clients
               PROVE  Level'[c] = IF Level[c] < Full THEN Level[c] + 1 ELSE Full
    OBVIOUS
  <2>1. bucket[c].level \in 0..Full /\ bucket[c].last \in 0..now
    BY <1>1
  <2>2. Held(bucket[c])' = Capped(bucket[c].level + (now + 1 - bucket[c].last))
    <3>1. Full' = Full
      BY DEF Full
    <3>2. Held(bucket[c])' = IF bucket'[c].level + (now' - bucket'[c].last) < Full
                             THEN bucket'[c].level + (now' - bucket'[c].last) ELSE Full
      BY <3>1, Zenon DEF Held, Capped
    <3>3. QED
      BY <1>1, <1>2, <2>1, <3>2, LimiterConstants DEF Capped
  <2>3. Level[c] = (IF c \in visitors THEN Held(bucket[c]) ELSE Full)
    BY Zenon DEF Level
  <2>4. Level'[c] = (IF c \in visitors THEN Capped(bucket[c].level + (now + 1 - bucket[c].last)) ELSE Full)
    BY <1>2, <2>2 DEF Level, Full
  <2> DEFINE n == bucket[c].level + (now - bucket[c].last)
  <2>6. n \in Nat /\ bucket[c].level + (now + 1 - bucket[c].last) = n + 1
    BY <1>1, <2>1, LimiterConstants
  <2>7. Held(bucket[c]) = Capped(n)
    BY DEF Held
  <2> HIDE DEF n
  <2>8. Capped(n + 1) = IF Capped(n) < Full THEN Capped(n) + 1 ELSE Full
    BY <2>6, LimiterConstants DEF Capped
  <2>9. QED
    BY <2>3, <2>4, <2>6, <2>7, <2>8, LimiterConstants
<1>5. Level' = [c \in Clients |-> IF Level[c] < Full THEN Level[c] + 1 ELSE Full]
  BY <1>4 DEF Level
<1>6. QED
  BY <1>2, <1>3, <1>5 DEF Promise!Tick

LEMMA LimiterStays ==
    ASSUME LimiterTypeOK, UNCHANGED limiterVars
    PROVE  LimiterTypeOK' /\ UNCHANGED <<Level, answer>>
BY DEF LimiterTypeOK, limiterVars, Level, Held, Capped, Full

LEMMA LimiterBegins ==
    ASSUME LimiterInit
    PROVE  LimiterTypeOK /\ Promise!Init
<1>1. /\ now = 0 /\ visitors = {} /\ bucket = [c \in Clients |-> [level |-> Full, last |-> 0]]
      /\ answer \in [client : Clients, allowed : {TRUE}]
  BY DEF LimiterInit, NewLimiter
<1>2. LimiterTypeOK
  <2>1. [level |-> Full, last |-> 0] \in [level : 0..Full, last : 0..0] /\ 0..0 = 0..now
    BY <1>1, LimiterConstants
  <2>2. QED
    BY <1>1, <2>1 DEF LimiterTypeOK
<1>3. Level = [c \in Clients |-> Full]
  BY <1>1 DEF Level
<1>4. QED
  BY <1>1, <1>2, <1>3 DEF Promise!Init

\* The limiter gives every client the bucket TokenBucket describes, however many there are
\* and whichever of them it forgets (ratelimit.go, where get sweeps the visitors).
THEOREM LimiterHonest == Spec => KeepsPromise
<1>1. Init => LimiterTypeOK /\ Promise!Init
  BY LimiterBegins DEF Init
<1>2. ASSUME LimiterTypeOK, [Next]_serverVars
      PROVE  LimiterTypeOK' /\ [Promise!Next]_(<<Level, answer>>)
  <2>1. CASE LimiterNext
    <3>1. CASE now < MaxNow /\ Pass
      BY <1>2, <3>1, PassTicks DEF Promise!Next
    <3>2. CASE \E hops \in Hops, peer \in Clients : Middleware(hops, peer)
      BY <1>2, <3>2, MiddlewareAsks DEF Promise!Next
    <3>3. QED
      BY <2>1, <3>1, <3>2 DEF LimiterNext
  <2>2. CASE UNCHANGED limiterVars
    BY <1>2, <2>2, LimiterStays
  <2>3. QED
    BY <1>2, <2>1, <2>2 DEF Next, serverVars
<1>3. QED
  BY <1>1, <1>2, PTL DEF Spec, KeepsPromise, Promise!Spec, Promise!bucketVars

-----------------------------------------------------------------------------
(* Whom a request acts as *)

IdentityTypes ==
    /\ users \in [Ids -> Emails \cup {NoOne}]
    /\ sessions \in [Sids -> Session]
    /\ minted \in [user : 0..MaxUsers, session : 0..MaxSessions]
    /\ cookies \in [Browsers -> Cookie]
    /\ req \in [Requests -> Request]
    /\ server \in [up : BOOLEAN, secret : Nat, boots : Nat]
    /\ clock \in Nat

\* An id belongs to whoever it was made for, or to nobody.
Belongs(u, e) == u <= minted.user /\ (u \in Accounts => users[u] = e)

AccountsMinted == \A u \in Accounts : u <= minted.user
SessionsTrue   == \A s \in Sids : Belongs(sessions[s].user, sessions[s].opener)
RequestTrue(r) ==
    /\ req[r].pc = "user" => Belongs(req[r].id, req[r].opener)
    /\ req[r].pc \in Making \cup {"open"} => Belongs(req[r].id, req[r].email)
    /\ req[r].pc = "act" => req[r].email = req[r].opener
RequestsTrue   == \A r \in Requests : RequestTrue(r)

\* What makes ServedAsThemselves inductive: ids are handed out once, so that whoever is found
\* under the id of a session or of a request is the one who was there when it was written down.
IdentityInv == IdentityTypes /\ AccountsMinted /\ SessionsTrue /\ RequestsTrue

LEMMA AccountsConstants ==
    /\ {Tags, MaxUsers, MaxSessions, SessionTTL} \subseteq Nat \ {0} /\ MaxTime \in Nat
    /\ Browsers # {} /\ Emails # {} /\ NoOne \notin Emails
BY AccountsAssumption

LEMMA IdleType ==
    /\ Idle \in Request /\ Idle.pc = "idle" /\ Idle.id = 0 /\ Idle.opener = NoOne
    /\ NoSession \in Session /\ NoSession.user = 0 /\ NoCookie \in Cookie
<1>1. (CHOOSE b \in Browsers : TRUE) \in Browsers /\ (CHOOSE e \in Emails : TRUE) \in Emails
  BY AccountsConstants
<1>2. 0 \in 0..MaxUsers /\ 0 \in 0..Tags /\ 0 \in 0..MaxSessions /\ 0 \in Nat
  BY AccountsConstants
<1>3. QED
  BY <1>1, <1>2 DEF Idle, Request, NoSession, Session, NoCookie, Cookie

LEMMA MintedUserType ==
    ASSUME IdentityTypes
    PROVE  /\ MintedUser = minted.user + 1 /\ minted.user \in 0..MaxUsers /\ MaxUsers \in Nat
           /\ \A u \in Ids : u \in Nat /\ u # 0
BY AccountsConstants DEF IdentityTypes, MintedUser, Ids

\* Nobody's id changes hands where accounts are only deleted, or made under a new id.
OnlyNewIds ==
    /\ minted'.user \in 0..MaxUsers /\ minted.user <= minted'.user
    /\ \A u \in Ids : u <= minted.user => users'[u] \in {users[u], NoOne}
    /\ \A u \in Ids : u > minted'.user => users'[u] = NoOne

LEMMA BelongsStays ==
    ASSUME IdentityTypes, OnlyNewIds, NEW u \in 0..MaxUsers, NEW e \in Emails \cup {NoOne}, Belongs(u, e)
    PROVE  u <= minted'.user /\ (u \in Accounts' => users'[u] = e)
BY MintedUserType DEF Belongs, OnlyNewIds, Accounts, Ids, IdentityTypes

LEMMA AccountsMintedStays ==
    ASSUME IdentityTypes, OnlyNewIds
    PROVE  AccountsMinted'
BY MintedUserType DEF OnlyNewIds, AccountsMinted, Accounts, Ids, IdentityTypes

LEMMA RequestStays ==
    ASSUME IdentityTypes, OnlyNewIds, NEW r \in Requests, RequestTrue(r), req'[r] = req[r]
    PROVE  RequestTrue(r)'
<1>1. req[r] \in Request
  BY DEF IdentityTypes
<1>2. req[r].id \in 0..MaxUsers /\ req[r].email \in Emails \cup {NoOne} /\ req[r].opener \in Emails \cup {NoOne}
  BY <1>1 DEF Request
<1>3. QED
  BY <1>2, BelongsStays DEF RequestTrue, Belongs

LEMMA SessionsStay ==
    ASSUME IdentityTypes, OnlyNewIds, SessionsTrue,
           \A s \in Sids : sessions'[s] = sessions[s] \/ sessions'[s] = NoSession
    PROVE  SessionsTrue'
<1> SUFFICES ASSUME NEW s \in Sids
             PROVE  /\ sessions'[s].user <= minted'.user
                    /\ sessions'[s].user \in Accounts' => users'[sessions'[s].user] = sessions'[s].opener
  BY DEF SessionsTrue, Belongs
<1>1. CASE sessions'[s] = NoSession
  <2>1. 0 \notin Accounts'
    BY MintedUserType DEF Accounts
  <2>2. QED
    BY <1>1, <2>1, IdleType DEF OnlyNewIds
<1>2. CASE sessions'[s] = sessions[s]
  <2>1. sessions[s] \in Session /\ Belongs(sessions[s].user, sessions[s].opener)
    BY DEF IdentityTypes, SessionsTrue
  <2>2. QED
    BY <1>2, <2>1, BelongsStays DEF Session
<1>3. QED
  BY <1>1, <1>2

\* Where no account and no session changes, only the request that runs is to be looked at.
LEMMA OneRequest ==
    ASSUME IdentityInv, UNCHANGED <<users, sessions, minted>>,
           NEW r \in Requests, NEW q \in Request, req' = [req EXCEPT ![r] = q],
           q.pc = "user" => Belongs(q.id, q.opener),
           q.pc \in Making \cup {"open"} => Belongs(q.id, q.email),
           q.pc = "act" => q.email = q.opener,
           cookies' = cookies \/ cookies' \in [Browsers -> Cookie],
           server' = server, clock' = clock
    PROVE  IdentityInv'
<1>1. OnlyNewIds
  <2>1. \A u \in Ids : u > minted.user => users[u] = NoOne
    BY MintedUserType DEF IdentityInv, AccountsMinted, Accounts
  <2>2. QED
    BY <2>1, MintedUserType DEF IdentityInv, OnlyNewIds
<1>2. IdentityTypes'
  BY DEF IdentityInv, IdentityTypes
<1>3. AccountsMinted' /\ SessionsTrue'
  BY <1>1, AccountsMintedStays, SessionsStay DEF IdentityInv
<1>4. req \in [Requests -> Request]
  BY DEF IdentityInv, IdentityTypes
<1>5. \A p \in Requests : RequestTrue(p)'
  <2> SUFFICES ASSUME NEW p \in Requests PROVE RequestTrue(p)'
    OBVIOUS
  <2>1. CASE p = r
    <3>1. req'[p] = q
      BY <1>4, <2>1
    <3>2. QED
      BY <3>1 DEF RequestTrue, Belongs, Accounts, Ids
  <2>2. CASE p # r
    <3>1. req'[p] = req[p]
      BY <1>4, <2>2
    <3>2. QED
      BY <1>1, <3>1, RequestStays DEF IdentityInv, RequestsTrue
  <2>3. QED
    BY <2>1, <2>2
<1>6. QED
  BY <1>2, <1>3, <1>5 DEF IdentityInv, RequestsTrue

\* A set of numbers that is not empty has a least one.
LEMMA LeastIn ==
    ASSUME NEW S \in SUBSET Nat, S # {}
    PROVE  \E x \in S : \A y \in S : x <= y
<1> DEFINE R == {p \in Nat \X Nat : p[1] < p[2]}
<1>1. IsWellFoundedOn(R, Nat)
  <2>1. R = OpToRel(<, Nat)
    BY DEF OpToRel
  <2>2. QED
    BY <2>1, NatLessThanWellFounded
<1> HIDE DEF R
<1>2. PICK x \in S : \A y \in S : ~ (<<y, x>> \in R)
  BY <1>1, WFMin
<1>3. ASSUME NEW y \in S PROVE x <= y
  <2>1. ~ (y < x)
    BY <1>2 DEF R
  <2>2. QED
    BY <2>1
<1>4. QED
  BY <1>3

\* The tag a registration finds is one of those there are.
LEMMA TagType ==
    ASSUME NEW ps, NEW u \in Nat, NEW name
    PROVE  allocatePublicTag(ps, u, name) \in 0..Tags
<1> DEFINE free == {i \in 0..Tags - 1 : Candidate(u, i) \notin TakenBy(ps, u, name)}
<1>1. allocatePublicTag(ps, u, name) =
          IF free = {} THEN 0 ELSE Candidate(u, CHOOSE i \in free : \A j \in free : i <= j)
  BY DEF allocatePublicTag
<1>2. Tags \in Nat \ {0}
  BY AccountsConstants
<1>3. free \subseteq Nat /\ free \subseteq 0..Tags - 1
  BY <1>2
<1>4. ASSUME NEW i \in 0..Tags - 1 PROVE Candidate(u, i) \in 0..Tags
  <2>1. \A k \in Nat : k % Tags \in 0..Tags - 1
    BY <1>2
  <2>2. Preferred(u) \in Nat \ {0}
    BY <1>2, <2>1 DEF Preferred
  <2>3. Preferred(u) + i - 1 \in Nat
    BY <1>2, <2>2
  <2>4. QED
    BY <1>2, <2>1, <2>3 DEF Candidate
<1> HIDE DEF free
<1>5. CASE free = {}
  BY <1>1, <1>2, <1>5
<1>6. CASE free # {}
  <2>1. PICK x \in free : \A y \in free : x <= y
    BY <1>3, <1>6, LeastIn
  <2>3. \E i \in free : \A j \in free : i <= j
    BY <2>1
  <2>4. (CHOOSE i \in free : \A j \in free : i <= j) \in 0..Tags - 1
    BY <1>3, <2>3
  <2>5. QED
    BY <1>1, <1>4, <1>6, <2>4
<1>7. QED
  BY <1>5, <1>6

LEMMA RequestFields ==
    ASSUME IdentityInv, NEW r \in Requests
    PROVE  /\ req[r] \in Request /\ req[r].id \in 0..MaxUsers /\ req[r].browser \in Browsers
           /\ req[r].email \in Emails /\ RequestTrue(r)
BY DEF IdentityInv, IdentityTypes, RequestsTrue, Request

\* A request that ends, or goes on with what it knows.
LEMMA EndsStays ==
    ASSUME IdentityInv, NEW r \in Requests, Ends(r), UNCHANGED <<users, sessions, minted, server, clock>>,
           cookies' = cookies \/ cookies' \in [Browsers -> Cookie]
    PROVE  IdentityInv'
<1>1. req' = [req EXCEPT ![r] = Idle]
  BY DEF Ends
<1>2. Idle \in Request /\ Idle.pc = "idle"
  BY IdleType
<1>3. QED
  BY <1>1, <1>2, OneRequest DEF Making

LEMMA GoesStays ==
    ASSUME IdentityInv, NEW r \in Requests, NEW pc \in {"insert", "update"} \cup Making,
           pc \in Making => req[r].pc \in Making,
           NEW tag \in 0..Tags,
           req' = [req EXCEPT ![r].pc = pc, ![r].tag = tag],
           UNCHANGED <<users, sessions, minted, cookies, server, clock>>
    PROVE  IdentityInv'
<1> DEFINE q == [req[r] EXCEPT !.pc = pc, !.tag = tag]
<1>1. req[r] \in Request /\ RequestTrue(r)
  BY RequestFields
<1>2. q \in Request /\ q.pc = pc /\ q.id = req[r].id /\ q.email = req[r].email
  BY <1>1 DEF Request, Making
<1>3. req' = [req EXCEPT ![r] = q]
  OBVIOUS
<1> HIDE DEF q
<1>4. q.pc \in Making \cup {"open"} => Belongs(q.id, q.email)
  BY <1>1, <1>2 DEF RequestTrue, Making
<1>5. q.pc # "user" /\ q.pc # "act"
  BY <1>2 DEF Making
<1>6. QED
  BY <1>2, <1>3, <1>4, <1>5, OneRequest

\* What a request does that neither makes nor deletes an account or a session.
LEMMA ReadingStays ==
    ASSUME IdentityInv, NEW r \in Requests,
           \/ Begin(r) \/ Refused(r) \/ Find(r) \/ Tag(r) \/ InsertProfile(r) \/ SetQuota(r) \/ Undoes(r)
           \/ Account(r) \/ ReadSession(r) \/ ReadUser(r) \/ ProfileUpdate(r) \/ Update(r)
    PROVE  IdentityInv'
<1> USE RequestFields DEF dbVars
<1>1. req[r].tag \in 0..Tags /\ 0 \in 0..Tags
  BY AccountsConstants DEF Request
<1>2. CASE Begin(r)
  <2>1. PICK b \in Browsers, e \in Emails, pc \in {"find", "account", "cookie"} :
            req' = [req EXCEPT ![r] = [Idle EXCEPT !.pc = pc, !.browser = b, !.email = e]]
    BY <1>2 DEF Begin
  <2> DEFINE q == [Idle EXCEPT !.pc = pc, !.browser = b, !.email = e]
  <2>2. q \in Request /\ q.pc = pc
    BY IdleType DEF Request
  <2>3. req' = [req EXCEPT ![r] = q]
    BY <2>1
  <2> HIDE DEF q
  <2>4. q.pc \notin {"user", "act", "open"} \cup Making
    BY <2>2 DEF Making
  <2>5. QED
    BY <1>2, <2>2, <2>3, <2>4, OneRequest DEF Begin
<1>3. CASE Refused(r)
  BY <1>3, EndsStays DEF Refused, Fails
<1>4. CASE Find(r)
  <2>1. CASE Ends(r)
    BY <1>4, <2>1, EndsStays DEF Find
  <2>2. CASE Goes(r, "insert")
    <3>1. req' = [req EXCEPT ![r].pc = "insert", ![r].tag = req[r].tag]
      BY <2>2 DEF Goes, IdentityInv, IdentityTypes, Request
    <3>2. QED
      BY <1>1, <1>4, <3>1, GoesStays DEF Find, Making
  <2>3. QED
    BY <1>4, <2>1, <2>2 DEF Find
<1>5. CASE Tag(r)
  <2> DEFINE tag == allocatePublicTag(profiles, req[r].id, "user")
  <2>1. tag \in 0..Tags
    BY TagType, AccountsConstants
  <2>2. CASE Goes(r, "undo")
    <3>1. req' = [req EXCEPT ![r].pc = "undo", ![r].tag = req[r].tag]
      BY <2>2 DEF Goes, IdentityInv, IdentityTypes, Request
    <3>2. QED
      BY <1>1, <1>5, <3>1, GoesStays DEF Tag, Making
  <2>3. CASE req' = [req EXCEPT ![r].pc = "profile", ![r].tag = tag]
    <3> HIDE DEF tag
    <3>1. QED
      BY <1>5, <2>1, <2>3, GoesStays DEF Tag, Making
  <2>4. QED
    BY <1>5, <2>2, <2>3 DEF Tag
<1>6. CASE InsertProfile(r)
  BY <1>1, <1>6, GoesStays DEF InsertProfile, Making
<1>7. CASE SetQuota(r)
  <2>1. req' = [req EXCEPT ![r].pc = "session", ![r].tag = req[r].tag]
    BY <1>7 DEF SetQuota, Goes, IdentityInv, IdentityTypes, Request
  <2>2. QED
    BY <1>1, <1>7, <2>1, GoesStays DEF SetQuota, Making
<1>8. CASE Undoes(r)
  BY <1>1, <1>8, GoesStays DEF Undoes, Making
<1>9. CASE Account(r)
  <2>1. PICK u \in Accounts : users[u] = req[r].email /\ req' = [req EXCEPT ![r].pc = "open", ![r].id = u]
    BY <1>9 DEF Account
  <2> DEFINE q == [req[r] EXCEPT !.pc = "open", !.id = u]
  <2>2. u \in 0..MaxUsers /\ u <= minted.user
    BY AccountsConstants DEF Accounts, Ids, IdentityInv, AccountsMinted
  <2>3. q \in Request /\ q.pc = "open" /\ q.id = u /\ q.email = req[r].email
    BY <2>2 DEF Request
  <2>4. req' = [req EXCEPT ![r] = q]
    BY <2>1
  <2> HIDE DEF q
  <2>5. Belongs(q.id, q.email) /\ q.pc \notin {"user", "act"}
    BY <2>1, <2>2, <2>3 DEF Belongs
  <2>6. QED
    BY <1>9, <2>3, <2>4, <2>5, OneRequest DEF Account
<1>10. CASE ReadSession(r)
  <2> DEFINE s == SessionID(req[r].browser)
             q == [req[r] EXCEPT !.pc = "user", !.sid = s, !.id = sessions[s].user,
                                 !.opener = sessions[s].opener]
  <2>1. CASE Get(s)
    <3>1. s \in 0..MaxSessions
      BY AccountsConstants DEF SessionID, IdentityInv, IdentityTypes, Cookie
    <3>2. s \in Sids
      BY <2>1, <3>1, AccountsConstants DEF Get, Sids
    <3>3. sessions[s] \in Session /\ Belongs(sessions[s].user, sessions[s].opener)
      BY <3>2 DEF IdentityInv, IdentityTypes, SessionsTrue
    <3>4. req' = [req EXCEPT ![r] = q]
      BY <1>10, <2>1 DEF ReadSession
    <3> HIDE DEF s
    <3>5. q \in Request /\ q.pc = "user" /\ q.id = sessions[s].user /\ q.opener = sessions[s].opener
      BY <3>1, <3>3 DEF Request, Session
    <3> HIDE DEF q
    <3>6. q.pc \notin Making \cup {"open", "act"}
      BY <3>5 DEF Making
    <3>7. QED
      BY <1>10, <3>3, <3>4, <3>5, <3>6, OneRequest DEF ReadSession
  <2>2. CASE ~Get(s)
    BY <1>10, <2>2, EndsStays DEF ReadSession
  <2>3. QED
    BY <2>1, <2>2
<1>11. CASE ReadUser(r)
  <2>1. CASE req[r].id \in Accounts
    <3> DEFINE q == [req[r] EXCEPT !.pc = "act", !.email = users[req[r].id]]
    <3>1. users[req[r].id] = req[r].opener
      BY <1>11, <2>1 DEF ReadUser, RequestTrue, Belongs
    <3>2. users[req[r].id] \in Emails
      BY <2>1 DEF Accounts, IdentityInv, IdentityTypes
    <3>3. q \in Request /\ q.pc = "act" /\ q.email = users[req[r].id] /\ q.opener = req[r].opener
      BY <3>2 DEF Request
    <3>4. req' = [req EXCEPT ![r] = q]
      BY <1>11, <2>1 DEF ReadUser
    <3> HIDE DEF q
    <3>5. q.pc \notin Making \cup {"open", "user"} /\ q.email = q.opener
      BY <3>1, <3>3 DEF Making
    <3>6. QED
      BY <1>11, <3>3, <3>4, <3>5, OneRequest DEF ReadUser
  <2>2. CASE req[r].id \notin Accounts
    BY <1>11, <2>2, EndsStays DEF ReadUser
  <2>3. QED
    BY <2>1, <2>2
<1>12. CASE ProfileUpdate(r)
  <2>1. req' = [req EXCEPT ![r].pc = "update", ![r].tag = req[r].tag]
    BY <1>12 DEF ProfileUpdate, Goes, IdentityInv, IdentityTypes, Request
  <2>2. QED
    BY <1>1, <1>12, <2>1, GoesStays DEF ProfileUpdate, Making
<1>13. CASE Update(r)
  BY <1>13, EndsStays DEF Update
<1>14. QED
  BY <1>2, <1>3, <1>4, <1>5, <1>6, <1>7, <1>8, <1>9, <1>10, <1>11, <1>12, <1>13

\* An account is made under an id nothing refers to yet.
LEMMA InsertStays ==
    ASSUME IdentityInv, NEW r \in Requests, Insert(r)
    PROVE  IdentityInv'
<1>1. /\ MintedUser = minted.user + 1 /\ MintedUser \in Ids /\ MintedUser \in 0..MaxUsers
      /\ minted.user \in 0..MaxUsers /\ \A u \in Ids : u \in Nat /\ u # 0
  BY MintedUserType, AccountsConstants DEF IdentityInv, Insert, Ids
<1>2. /\ req[r] \in Request /\ req[r].email \in Emails
      /\ req' = [req EXCEPT ![r].pc = "tag", ![r].id = MintedUser]
      /\ users' = [users EXCEPT ![MintedUser] = req[r].email]
      /\ minted' = [minted EXCEPT !.user = MintedUser]
      /\ sessions' = sessions /\ cookies' = cookies /\ server' = server /\ clock' = clock
  BY RequestFields DEF Insert
<1>3. IdentityTypes
  BY DEF IdentityInv
<1>4. minted' \in [user : 0..MaxUsers, session : 0..MaxSessions] /\ minted'.user = MintedUser
  BY <1>1, <1>2, <1>3 DEF IdentityTypes
<1>5. OnlyNewIds
  <2>1. \A u \in Ids : u # MintedUser => users'[u] = users[u]
    BY <1>2, <1>3 DEF IdentityTypes
  <2>2. \A u \in Ids : u > minted.user => users[u] = NoOne
    BY <1>1 DEF IdentityInv, AccountsMinted, Accounts
  <2>3. \A u \in Ids : u <= minted.user => users'[u] = users[u]
    BY <1>1, <2>1
  <2>4. \A u \in Ids : u > minted'.user => users'[u] = NoOne
    BY <1>1, <1>4, <2>1, <2>2
  <2>5. minted'.user \in 0..MaxUsers /\ minted.user <= minted'.user
    BY <1>1, <1>4
  <2>6. QED
    BY <2>3, <2>4, <2>5 DEF OnlyNewIds
<1> DEFINE q == [req[r] EXCEPT !.pc = "tag", !.id = MintedUser]
<1>6. q \in Request /\ q.pc = "tag" /\ q.id = MintedUser /\ q.email = req[r].email
  BY <1>1, <1>2 DEF Request, Making
<1>7. req' = [req EXCEPT ![r] = q]
  BY <1>2
<1> HIDE DEF q
<1>8. req' \in [Requests -> Request] /\ req'[r] = q /\ \A p \in Requests \ {r} : req'[p] = req[p]
  BY <1>3, <1>6, <1>7 DEF IdentityTypes
<1>9. users' \in [Ids -> Emails \cup {NoOne}] /\ users'[MintedUser] = req[r].email
  BY <1>1, <1>2, <1>3 DEF IdentityTypes
<1>10. IdentityTypes'
  BY <1>2, <1>3, <1>4, <1>8, <1>9 DEF IdentityTypes, Ids, Sids, Session, Cookie, Request, Making
<1>11. AccountsMinted' /\ SessionsTrue'
  BY <1>2, <1>3, <1>5, AccountsMintedStays, SessionsStay DEF IdentityInv
<1>12. RequestTrue(r)'
  BY <1>1, <1>4, <1>6, <1>8, <1>9 DEF RequestTrue, Belongs
<1>13. \A p \in Requests \ {r} : RequestTrue(p)'
  BY <1>3, <1>5, <1>8, RequestStays DEF IdentityInv, RequestsTrue
<1>14. QED
  BY <1>10, <1>11, <1>12, <1>13 DEF IdentityInv, RequestsTrue

\* Accounts and sessions go, and the request that deleted them ends.
LEMMA DeletingStays ==
    ASSUME IdentityInv, NEW r \in Requests, Ends(r), UNCHANGED <<minted, server, clock>>,
           users' \in [Ids -> Emails \cup {NoOne}], \A u \in Ids : users'[u] \in {users[u], NoOne},
           sessions' \in [Sids -> Session],
           \A s \in Sids : sessions'[s] = sessions[s] \/ sessions'[s] = NoSession,
           cookies' \in [Browsers -> Cookie]
    PROVE  IdentityInv'
<1>1. IdentityTypes /\ minted.user \in 0..MaxUsers
  BY DEF IdentityInv, IdentityTypes
<1>2. OnlyNewIds
  BY <1>1, MintedUserType DEF IdentityInv, AccountsMinted, Accounts, OnlyNewIds
<1>3. req' \in [Requests -> Request] /\ req'[r] = Idle /\ \A p \in Requests \ {r} : req'[p] = req[p]
  BY <1>1, IdleType DEF Ends, IdentityTypes
<1>4. IdentityTypes'
  BY <1>1, <1>3 DEF IdentityTypes
<1>5. AccountsMinted' /\ SessionsTrue'
  BY <1>1, <1>2, AccountsMintedStays, SessionsStay DEF IdentityInv
<1>6. RequestTrue(r)'
  BY <1>3, IdleType DEF RequestTrue, Making
<1>7. \A p \in Requests \ {r} : RequestTrue(p)'
  BY <1>1, <1>2, <1>3, RequestStays DEF IdentityInv, RequestsTrue
<1>8. QED
  BY <1>4, <1>5, <1>6, <1>7 DEF IdentityInv, RequestsTrue

\* ON DELETE CASCADE, as DeletingStays wants it.
LEMMA DeletedRows ==
    ASSUME IdentityTypes, NEW u, Deleted(u)
    PROVE  /\ users' \in [Ids -> Emails \cup {NoOne}] /\ \A v \in Ids : users'[v] \in {users[v], NoOne}
           /\ sessions' \in [Sids -> Session]
           /\ \A s \in Sids : sessions'[s] = sessions[s] \/ sessions'[s] = NoSession
BY IdleType DEF Deleted, IdentityTypes

LEMMA LeavingStays ==
    ASSUME IdentityInv, NEW r \in Requests, Undo(r) \/ Logout(r) \/ Administer(r)
    PROVE  IdentityInv'
<1>1. IdentityTypes
  BY DEF IdentityInv
<1>2. CASE Undo(r)
  <2>1. CASE Deleted(req[r].id)
    BY <1>1, <1>2, <2>1, DeletedRows, DeletingStays DEF Undo, IdentityTypes
  <2>2. CASE UNCHANGED <<users, sessions>>
    BY <1>1, <1>2, <2>2, DeletingStays DEF Undo, IdentityTypes
  <2>3. QED
    BY <1>2, <2>1, <2>2 DEF Undo
<1>3. CASE Logout(r)
  <2>1. cookies' \in [Browsers -> Cookie]
    BY <1>1, <1>3, IdleType DEF Logout, IdentityTypes
  <2>2. sessions' \in [Sids -> Session] /\ \A s \in Sids : sessions'[s] = sessions[s] \/ sessions'[s] = NoSession
    BY <1>1, <1>3, IdleType DEF Logout, IdentityTypes
  <2>3. QED
    BY <1>1, <1>3, <2>1, <2>2, DeletingStays DEF Logout, IdentityTypes
<1>4. CASE Administer(r)
  <2>1. PICK u \in Accounts : Deleted(u) \/ UNCHANGED <<users, sessions>>
    BY <1>4 DEF Administer
  <2>2. CASE Deleted(u)
    BY <1>1, <1>4, <2>2, DeletedRows, DeletingStays DEF Administer, IdentityTypes
  <2>3. CASE UNCHANGED <<users, sessions>>
    BY <1>1, <1>4, <2>3, DeletingStays DEF Administer, IdentityTypes
  <2>4. QED
    BY <2>1, <2>2, <2>3
<1>5. QED
  BY <1>2, <1>3, <1>4

\* A session is of the account that is there, under whose email it is opened.
LEMMA OpenStays ==
    ASSUME IdentityInv, NEW r \in Requests, Open(r)
    PROVE  IdentityInv'
<1> DEFINE s == minted.session + 1
           q == [user |-> req[r].id, until |-> clock + SessionTTL, opener |-> req[r].email]
<1>1. /\ s \in Sids /\ sessions' = [sessions EXCEPT ![s] = q] /\ minted' = [minted EXCEPT !.session = s]
      /\ SetSessionCookie(req[r].browser, s) /\ Ends(r) /\ users' = users /\ server' = server /\ clock' = clock
      /\ req[r].pc \in {"session", "open"} /\ req[r].id \in Accounts
  BY DEF Open
<1>2. IdentityTypes /\ minted.user \in 0..MaxUsers
  BY DEF IdentityInv, IdentityTypes
<1>3. s \in 0..MaxSessions /\ clock + SessionTTL \in Nat
  BY <1>1, <1>2, AccountsConstants DEF Sids, IdentityTypes
<1>4. q \in Session /\ q.user = req[r].id /\ q.opener = req[r].email /\ Belongs(req[r].id, req[r].email)
  BY <1>1, <1>3, RequestFields DEF Session, RequestTrue, Making
<1> HIDE DEF q
<1>5. sessions' \in [Sids -> Session] /\ sessions'[s] = q /\ \A t \in Sids \ {s} : sessions'[t] = sessions[t]
  BY <1>1, <1>2, <1>4 DEF IdentityTypes
<1>6. minted' \in [user : 0..MaxUsers, session : 0..MaxSessions] /\ minted'.user = minted.user
  BY <1>1, <1>2, <1>3 DEF IdentityTypes
<1>7. cookies' \in [Browsers -> Cookie]
  <2>1. [sid |-> s, secret |-> server.secret] \in Cookie
    BY <1>2, <1>3 DEF IdentityTypes, Cookie
  <2>2. QED
    BY <1>1, <1>2, <2>1, Zenon DEF SetSessionCookie, IdentityTypes
<1> HIDE DEF s
<1>8. req' \in [Requests -> Request] /\ req'[r] = Idle /\ \A p \in Requests \ {r} : req'[p] = req[p]
  BY <1>1, <1>2, IdleType DEF Ends, IdentityTypes
<1>9. IdentityTypes'
  BY <1>1, <1>2, <1>5, <1>6, <1>7, <1>8 DEF IdentityTypes, Ids, Sids, Session, Cookie, Request, Making
<1>10. OnlyNewIds
  BY <1>1, <1>2, <1>6, MintedUserType DEF IdentityInv, AccountsMinted, Accounts, OnlyNewIds
<1>11. AccountsMinted'
  BY <1>2, <1>10, AccountsMintedStays
<1>12. \A u \in 0..MaxUsers, e \in Emails \cup {NoOne} : Belongs(u, e)' <=> Belongs(u, e)
  BY <1>1, <1>6 DEF Belongs, Accounts, Ids
<1>13. SessionsTrue'
  <2> SUFFICES ASSUME NEW t \in Sids
               PROVE  Belongs(sessions[t].user, sessions[t].opener)'
    BY DEF SessionsTrue, Sids
  <2>1. CASE t = s
    BY <1>1, <1>4, <1>5, <1>6, <2>1 DEF Belongs, Accounts, Ids
  <2>2. CASE t # s
    BY <1>1, <1>5, <1>6, <2>2 DEF IdentityInv, SessionsTrue, Belongs, Accounts, Ids
  <2>3. QED
    BY <2>1, <2>2
<1>14. RequestTrue(r)'
  BY <1>8, IdleType DEF RequestTrue, Making
<1>15. \A p \in Requests \ {r} : RequestTrue(p)'
  BY <1>2, <1>8, <1>10, RequestStays DEF IdentityInv, RequestsTrue
<1>16. QED
  BY <1>9, <1>11, <1>13, <1>14, <1>15 DEF IdentityInv, RequestsTrue

LEMMA ProcessStays ==
    ASSUME IdentityInv, Crash \/ Boot \/ Tick
    PROVE  IdentityInv'
<1>1. IdentityTypes /\ minted.user \in 0..MaxUsers
  BY DEF IdentityInv, IdentityTypes
<1>2. OnlyNewIds
  BY <1>1, MintedUserType DEF Crash, Boot, Tick, dbVars, IdentityInv, AccountsMinted, Accounts, OnlyNewIds
<1>3. users' = users /\ minted' = minted /\ cookies' = cookies
  BY DEF Crash, Boot, Tick, dbVars
<1>4. sessions' \in [Sids -> Session] /\ \A s \in Sids : sessions'[s] = sessions[s] \/ sessions'[s] = NoSession
  <2>1. Purged \in [Sids -> Session] /\ \A s \in Sids : Purged[s] = sessions[s] \/ Purged[s] = NoSession
    BY <1>1, IdleType DEF Purged, IdentityTypes
  <2>2. sessions' \in {sessions, Purged}
    BY DEF Crash, Boot, Tick, dbVars
  <2>3. QED
    BY <1>1, <2>1, <2>2 DEF IdentityTypes
<1>5. clock' \in Nat
  BY <1>1 DEF Crash, Boot, Tick, IdentityTypes
<1>6. server' \in [up : BOOLEAN, secret : Nat, boots : Nat]
  <2>1. server \in [up : BOOLEAN, secret : Nat, boots : Nat]
    BY <1>1 DEF IdentityTypes
  <2>2. CASE Boot
    <3>1. PICK n \in 0..MaxUsers, secret \in {server.secret, server.secret + 1} \ {0} :
              server' = [up |-> n = MaxUsers, secret |-> secret, boots |-> server.boots + 1]
      BY <2>2 DEF Boot
    <3>2. secret \in Nat /\ server.boots + 1 \in Nat
      BY <2>1
    <3>3. QED
      BY <3>1, <3>2
  <2>3. CASE Crash
    BY <2>1, <2>3 DEF Crash
  <2>4. CASE Tick
    BY <2>1, <2>4 DEF Tick
  <2>5. QED
    BY <2>2, <2>3, <2>4
<1>7. (req' = req \/ req' = [r \in Requests |-> Idle]) /\ req' \in [Requests -> Request]
  BY <1>1, IdleType DEF Crash, Boot, Tick, IdentityTypes
<1>8. IdentityTypes'
  BY <1>1, <1>3, <1>4, <1>5, <1>6, <1>7 DEF IdentityTypes
<1>9. AccountsMinted' /\ SessionsTrue'
  BY <1>1, <1>2, <1>4, AccountsMintedStays, SessionsStay DEF IdentityInv
<1>10. \A p \in Requests : RequestTrue(p)'
  <2>1. CASE req' = req
    BY <1>1, <1>2, <2>1, RequestStays DEF IdentityInv, RequestsTrue
  <2>2. CASE req' = [r \in Requests |-> Idle]
    BY <2>2, IdleType DEF RequestTrue, Making
  <2>3. QED
    BY <1>7, <2>1, <2>2
<1>11. QED
  BY <1>8, <1>9, <1>10 DEF IdentityInv, RequestsTrue

LEMMA IdentityBegins == AccountsInit => IdentityInv
<1> SUFFICES ASSUME AccountsInit PROVE IdentityInv
  OBVIOUS
<1>1. PICK owners \in {{}, {1}} :
          /\ users = [u \in Ids |-> IF u \in owners THEN CHOOSE e \in Emails : TRUE ELSE NoOne]
          /\ minted = [user |-> Cardinality(owners), session |-> 0]
  BY DEF AccountsInit
<1>2. Cardinality({}) = 0 /\ Cardinality({1}) = 1
  BY FS_EmptySet, FS_Singleton
<1>3. minted \in [user : 0..MaxUsers, session : 0..MaxSessions] /\ \A u \in owners : u <= minted.user
  BY <1>1, <1>2, AccountsConstants
<1>4. (CHOOSE e \in Emails : TRUE) \in Emails
  BY AccountsConstants
<1>5. users \in [Ids -> Emails \cup {NoOne}]
  BY <1>1, <1>4
<1>6. /\ sessions = [s \in Sids |-> NoSession] /\ cookies = [b \in Browsers |-> NoCookie]
      /\ req = [r \in Requests |-> Idle] /\ server = [up |-> FALSE, secret |-> 0, boots |-> 0] /\ clock = 0
  BY DEF AccountsInit
<1>7. IdentityTypes
  BY <1>3, <1>5, <1>6, IdleType DEF IdentityTypes
<1>8. AccountsMinted
  <2>1. Accounts \subseteq owners
    BY <1>1 DEF Accounts
  <2>2. QED
    BY <1>3, <2>1 DEF AccountsMinted
<1>9. SessionsTrue
  <2>1. 0 \notin Ids /\ 0 <= minted.user
    BY <1>3 DEF Ids
  <2>2. QED
    BY <1>6, <2>1, IdleType DEF SessionsTrue, Belongs, Accounts
<1>10. RequestsTrue
  BY <1>6, IdleType DEF RequestsTrue, RequestTrue, Making
<1>11. QED
  BY <1>7, <1>8, <1>9, <1>10 DEF IdentityInv

\* A request acts as the one who opened the session its cookie names, however accounts come
\* and go between its reads (auth.Middleware, which reads the session and then the user).
THEOREM Themselves == Spec => []ServedAsThemselves
<1>1. Init => IdentityInv
  BY IdentityBegins DEF Init
<1>2. IdentityInv /\ [Next]_serverVars => IdentityInv'
  <2> SUFFICES ASSUME IdentityInv, [Next]_serverVars PROVE IdentityInv'
    OBVIOUS
  <2>1. CASE AccountsNext
    BY <2>1, ReadingStays, InsertStays, LeavingStays, OpenStays, ProcessStays DEF AccountsNext
  <2>2. CASE UNCHANGED accountVars
    BY <2>2 DEF accountVars, IdentityInv, IdentityTypes, AccountsMinted, SessionsTrue, RequestsTrue,
                RequestTrue, Belongs, Accounts, Ids, Sids, Session, Cookie, Request, Making
  <2>3. QED
    BY <2>1, <2>2 DEF Next, serverVars
<1>3. IdentityInv => ServedAsThemselves
  BY DEF IdentityInv, RequestsTrue, RequestTrue, ServedAsThemselves
<1>4. QED
  BY <1>1, <1>2, <1>3, PTL DEF Spec

-----------------------------------------------------------------------------
(* Accounts are whole *)

\* A function that is given by its value at 0 and by a step from each number to the next.
HasSteps(N, X, b, step) ==
    \E g \in [0..N -> X] : g[0] = b /\ \A n \in 1..N : g[n] = step[n][g[n - 1]]

LEMMA StepsExist ==
    ASSUME NEW N \in Nat, NEW X, NEW b \in X, NEW step \in [1..N -> [X -> X]]
    PROVE  HasSteps(N, X, b, step)
<1> DEFINE Reaches(k) == \E g \in [0..k -> X] : g[0] = b /\ \A n \in 1..k : g[n] = step[n][g[n - 1]]
           Bad        == {k \in 0..N : ~Reaches(k)}
<1>1. Reaches(0)
  <2> DEFINE g == [n \in 0..0 |-> b]
  <2>1. g \in [0..0 -> X] /\ g[0] = b /\ 1..0 = {}
    OBVIOUS
  <2> HIDE DEF g
  <2>2. \A n \in 1..0 : g[n] = step[n][g[n - 1]]
    BY <2>1
  <2>3. QED
    BY <2>1, <2>2
<1>2. ASSUME NEW k \in 1..N, Reaches(k - 1) PROVE Reaches(k)
  <2>1. PICK g \in [0..(k - 1) -> X] : g[0] = b /\ \A n \in 1..(k - 1) : g[n] = step[n][g[n - 1]]
    BY <1>2
  <2> DEFINE h == [n \in 0..k |-> IF n = k THEN step[k][g[k - 1]] ELSE g[n]]
  <2>2. k \in Nat /\ k - 1 \in 0..(k - 1) /\ 0 \in 0..k /\ 0 # k
    OBVIOUS
  <2>3. step[k] \in [X -> X] /\ g[k - 1] \in X
    BY <2>2
  <2>4. step[k][g[k - 1]] \in X
    BY <2>3
  <2>5. \A n \in 0..k : n # k => n \in 0..(k - 1) /\ g[n] \in X
    BY <2>2
  <2>6. h \in [0..k -> X]
    BY <2>4, <2>5
  <2>7. h[0] = b
    BY <2>1, <2>2
  <2>8. ASSUME NEW n \in 1..k PROVE h[n] = step[n][h[n - 1]]
    <3>1. n - 1 \in 0..k /\ n - 1 # k /\ n \in 0..k
      BY <2>2
    <3>2. h[n - 1] = g[n - 1]
      BY <3>1
    <3>3. CASE n = k
      BY <3>1, <3>2, <3>3
    <3>4. CASE n # k
      <4>1. n \in 1..(k - 1)
        BY <3>4, <2>2
      <4>2. QED
        BY <2>1, <3>1, <3>2, <3>4, <4>1
    <3>5. QED
      BY <3>3, <3>4
  <2> HIDE DEF h
  <2>9. QED
    BY <2>6, <2>7, <2>8
<1> HIDE DEF Reaches
<1>3. Bad = {}
  <2> SUFFICES ASSUME Bad # {} PROVE FALSE
    OBVIOUS
  <2> Bad \in SUBSET Nat
    OBVIOUS
  <2> HIDE DEF Bad
  <2>1. PICK k \in Bad : \A j \in Bad : k <= j
    BY LeastIn
  <2> USE DEF Bad
  <2>2. k \in 1..N /\ k - 1 \in 0..N /\ k - 1 < k
    BY <1>1
  <2>3. k - 1 \notin Bad
    BY <2>1, <2>2
  <2>4. QED
    BY <1>2, <2>2, <2>3
<1>4. Reaches(N)
  BY <1>3
<1>5. QED
  BY <1>4 DEF Reaches, HasSteps

ProfileRows == [name : Names \cup {"", "user"}, tag : Nat, changed : Nat]
Tables      == [Ids -> ProfileRows]

LEMMA EnsuredRow ==
    ASSUME NEW ps \in Tables, NEW u \in Ids, NEW qs \in Ensured(ps, u)
    PROVE  /\ qs \in Tables /\ qs[u].name # ""
           /\ \A v \in Ids : v # u => qs[v] = ps[v]
<1> DEFINE p    == ps[u]
           name == IF NormalizedName(p.name) THEN p.name ELSE "user"
           tag  == IF NormalizedName(p.name) /\ validPublicTag(p.tag) THEN p.tag ELSE allocatePublicTag(ps, u, name)
           q    == [name |-> name, tag |-> tag, changed |-> p.changed]
<1>1. p \in ProfileRows
  BY DEF Tables
<1>2. name \in Names \cup {"user"} /\ name # ""
  BY <1>1, AccountsAssumption DEF ProfileRows, NormalizedName
<1> HIDE DEF name
<1>3. u \in Nat /\ Tags \in Nat
  BY AccountsConstants DEF Ids
<1>4. tag \in Nat
  <2>1. p.tag \in Nat
    BY <1>1 DEF ProfileRows
  <2>2. allocatePublicTag(ps, u, name) \in 0..Tags
    BY <1>3, TagType
  <2>3. allocatePublicTag(ps, u, name) \in Nat
    BY <1>3, <2>2
  <2> HIDE DEF p
  <2>4. QED
    BY <2>1, <2>3, Zenon
<1> HIDE DEF tag
<1>5. q \in ProfileRows /\ q.name # ""
  BY <1>1, <1>2, <1>4 DEF ProfileRows
<1>6. qs = [ps EXCEPT ![u] = q]
  BY Zenon DEF Ensured, name, tag
<1> HIDE DEF q
<1>7. QED
  BY <1>5, <1>6 DEF Tables

\* What a boot that came as far as account n leaves: a name for every account up to n, and
\* nothing where there is no account.
LEMMA EnsuredNames ==
    ASSUME profiles \in Tables, NEW n \in 0..MaxUsers, NEW qs \in EnsuredUpTo[n]
    PROVE  /\ qs \in Tables
           /\ \A u \in Accounts : u <= n => qs[u].name # ""
           /\ \A u \in Ids : profiles[u].name # "" => qs[u].name # ""
           /\ \A u \in Ids \ Accounts : qs[u] = profiles[u]
<1> DEFINE Onward(T, k) == IF k \notin Accounts THEN T ELSE UNION {Ensured(ps, k) : ps \in T}
           X    == SUBSET Tables
           step == [k \in 1..MaxUsers |-> [T \in X |-> Onward(T, k)]]
           E    == EnsuredUpTo
<1>1. MaxUsers \in Nat /\ Ids = 1..MaxUsers /\ Accounts \subseteq Ids
  BY AccountsConstants DEF Ids, Accounts
<1>2. step \in [1..MaxUsers -> [X -> X]]
  <2> SUFFICES ASSUME NEW k \in 1..MaxUsers, NEW T \in X PROVE Onward(T, k) \in X
    OBVIOUS
  <2>1. \A ps \in T : Ensured(ps, k) \in SUBSET Tables
    BY <1>1, EnsuredRow
  <2> HIDE DEF X
  <2>2. UNION {Ensured(ps, k) : ps \in T} \in SUBSET Tables
    BY <2>1
  <2>3. QED
    BY <2>2 DEF X
<1>3. PICK g \in [0..MaxUsers -> X] :
          g[0] = {profiles} /\ \A k \in 1..MaxUsers : g[k] = step[k][g[k - 1]]
  <2>1. {profiles} \in X
    OBVIOUS
  <2> HIDE DEF step, X
  <2>2. HasSteps(MaxUsers, X, {profiles}, step)
    BY <1>1, <1>2, <2>1, StepsExist
  <2>3. QED
    BY <2>2 DEF HasSteps
<1>4. \A k \in 0..MaxUsers : g[k] = IF k = 0 THEN {profiles} ELSE Onward(g[k - 1], k)
  <2> SUFFICES ASSUME NEW k \in 0..MaxUsers, k # 0 PROVE g[k] = Onward(g[k - 1], k)
    BY <1>3
  <2>1. k \in 1..MaxUsers /\ k - 1 \in 0..MaxUsers
    BY <1>1
  <2>2. g[k - 1] \in X
    BY <2>1
  <2>3. QED
    BY <1>3, <2>1, <2>2
<1>5. g = [k \in 0..MaxUsers |-> IF k = 0 THEN {profiles}
                                 ELSE IF k \notin Accounts THEN g[k - 1]
                                 ELSE UNION {Ensured(ps, k) : ps \in g[k - 1]}]
  BY <1>4
<1>6. E = [k \in 0..MaxUsers |-> IF k = 0 THEN {profiles}
                                 ELSE IF k \notin Accounts THEN E[k - 1]
                                 ELSE UNION {Ensured(ps, k) : ps \in E[k - 1]}]
  <2> HIDE DEF step, X
  <2>1. QED
    BY <1>5 DEF EnsuredUpTo
<1> HIDE DEF E
<1> DEFINE Good(k) == \A ps \in E[k] :
                          /\ ps \in Tables
                          /\ \A u \in Accounts : u <= k => ps[u].name # ""
                          /\ \A u \in Ids : profiles[u].name # "" => ps[u].name # ""
                          /\ \A u \in Ids \ Accounts : ps[u] = profiles[u]
           Bad     == {k \in 0..MaxUsers : ~Good(k)}
<1>7. Good(0)
  <2>1. E[0] = {profiles}
    BY <1>1, <1>6
  <2>2. \A u \in Accounts : ~ (u <= 0)
    BY <1>1
  <2>3. QED
    BY <2>1, <2>2
<1>8. ASSUME NEW k \in 1..MaxUsers, Good(k - 1) PROVE Good(k)
  <2> SUFFICES ASSUME NEW ps \in E[k]
               PROVE  /\ ps \in Tables
                      /\ \A u \in Accounts : u <= k => ps[u].name # ""
                      /\ \A u \in Ids : profiles[u].name # "" => ps[u].name # ""
                      /\ \A u \in Ids \ Accounts : ps[u] = profiles[u]
    OBVIOUS
  <2>1. k \in 0..MaxUsers /\ k # 0 /\ k \in Ids /\ k \in Nat
    BY <1>1
  <2>2. E[k] = IF k \notin Accounts THEN E[k - 1] ELSE UNION {Ensured(qq, k) : qq \in E[k - 1]}
    BY <1>6, <2>1, Zenon
  <2>3. CASE k \notin Accounts
    <3>1. \A u \in Accounts : u <= k => u <= k - 1
      BY <1>1, <2>1, <2>3
    <3>2. QED
      BY <1>8, <2>2, <2>3, <3>1
  <2>4. CASE k \in Accounts
    <3>1. PICK qq \in E[k - 1] : ps \in Ensured(qq, k)
      BY <2>2, <2>4
    <3>2. /\ qq \in Tables
          /\ \A u \in Accounts : u <= k - 1 => qq[u].name # ""
          /\ \A u \in Ids : profiles[u].name # "" => qq[u].name # ""
          /\ \A u \in Ids \ Accounts : qq[u] = profiles[u]
      BY <1>8, <3>1
    <3>3. ps \in Tables /\ ps[k].name # "" /\ \A v \in Ids : v # k => ps[v] = qq[v]
      BY <2>1, <3>1, <3>2, EnsuredRow
    <3>4. \A u \in Accounts : u <= k => u = k \/ u <= k - 1
      BY <1>1, <2>1
    <3>5. \A u \in Ids \ Accounts : ps[u] = profiles[u]
      BY <2>4, <3>2, <3>3
    <3>6. QED
      BY <1>1, <3>2, <3>3, <3>4, <3>5
  <2>5. QED
    BY <2>3, <2>4
<1> HIDE DEF Good
<1>9. Bad = {}
  <2> SUFFICES ASSUME Bad # {} PROVE FALSE
    OBVIOUS
  <2> Bad \in SUBSET Nat
    OBVIOUS
  <2> HIDE DEF Bad
  <2>1. PICK k \in Bad : \A j \in Bad : k <= j
    BY LeastIn
  <2> USE DEF Bad
  <2>2. k \in 1..MaxUsers /\ k - 1 \in 0..MaxUsers /\ k - 1 < k
    BY <1>1, <1>7
  <2>3. k - 1 \notin Bad
    BY <2>1, <2>2
  <2>4. QED
    BY <1>8, <2>2, <2>3
<1>10. Good(n)
  BY <1>9
<1>11. QED
  BY <1>10 DEF Good, E

Named(u) == profiles[u].name # ""

\* How far a registration has come with the account it makes.
MadeSoFar(r) ==
    req[r].id \in Accounts =>
        /\ req[r].pc \in {"quota", "session"} => Named(req[r].id)
        /\ req[r].pc = "session" => req[r].id \in quotas

\* What makes AccountsWhole inductive: an account has its quota even while the server is
\* down, unless a deletion of it failed or a crash cut its making short; and a registration
\* ends well only behind its last statement.
WholeInv ==
    /\ profiles \in Tables /\ left \in [Ids -> {"no", "now", "booted"}]
    /\ server.up => \A u \in Accounts : ~BeingMade(u) /\ left[u] # "now" => Named(u)
    /\ \A u \in Accounts : ~BeingMade(u) /\ left[u] = "no" => u \in quotas
    /\ \A r \in Requests : MadeSoFar(r)
    /\ ~server.up => \A r \in Requests : req[r].pc = "idle"

\* A request goes on, and no account comes or goes: what it was making it goes on making,
\* or has made.
LEMMA WholeOneRequest ==
    ASSUME IdentityInv, WholeInv, server.up, UNCHANGED <<users, server, left>>,
           NEW r \in Requests, NEW q \in Request, req' = [req EXCEPT ![r] = q],
           profiles' \in Tables, \A u \in Ids : Named(u) => Named(u)', quotas \subseteq quotas',
           \/ req[r].pc \notin Making
           \/ q.pc \in Making /\ q.id = req[r].id
           \/ req[r].id \in Accounts => profiles'[req[r].id].name # "" /\ req[r].id \in quotas',
           q.id \in Accounts => /\ q.pc \in {"quota", "session"} => profiles'[q.id].name # ""
                                /\ q.pc = "session" => q.id \in quotas'
    PROVE  WholeInv'
<1>1. Accounts' = Accounts /\ Accounts \subseteq Ids
  BY DEF Accounts, Ids
<1>2. req'[r] = q /\ \A p \in Requests \ {r} : req'[p] = req[p]
  BY DEF IdentityInv, IdentityTypes
<1>3. ASSUME NEW u \in Accounts, BeingMade(u), ~BeingMade(u)'
      PROVE  Named(u)' /\ u \in quotas'
  <2>1. PICK p \in Requests : req[p].id = u /\ req[p].pc \in Making
    BY <1>3 DEF BeingMade
  <2>2. req'[p].id # u \/ req'[p].pc \notin Making
    BY <1>3 DEF BeingMade, Making
  <2>3. p = r
    BY <1>2, <2>1, <2>2
  <2>4. QED
    BY <1>2, <2>1, <2>2, <2>3 DEF Named
<1>4. ASSUME NEW u \in Accounts, ~BeingMade(u)', left'[u] # "now"
      PROVE  Named(u)' /\ (left'[u] = "no" => u \in quotas')
  <2>1. CASE BeingMade(u)
    BY <1>3, <1>4, <2>1
  <2>2. CASE ~BeingMade(u)
    BY <1>1, <1>4, <2>2 DEF WholeInv
  <2>3. QED
    BY <2>1, <2>2
<1>5. ASSUME NEW p \in Requests, req'[p].id \in Accounts
      PROVE  /\ req'[p].pc \in {"quota", "session"} => profiles'[req'[p].id].name # ""
             /\ req'[p].pc = "session" => req'[p].id \in quotas'
  <2>1. CASE p = r
    <3>1. req'[p] = q
      BY <1>2, <2>1
    <3>2. QED
      BY <1>5, <3>1
  <2>2. CASE p # r
    <3>1. req'[p] = req[p]
      BY <1>2, <2>2
    <3>2. QED
      BY <1>1, <1>5, <3>1 DEF WholeInv, MadeSoFar, Named
  <2>3. QED
    BY <2>1, <2>2
<1>6. left' \in [Ids -> {"no", "now", "booted"}] /\ server'.up
  BY DEF WholeInv
<1>7. \A u \in Accounts' : ~BeingMade(u)' /\ left'[u] = "no" => u \in quotas'
  BY <1>1, <1>4
<1>8. \A p \in Requests : MadeSoFar(p)'
  BY <1>1, <1>5 DEF MadeSoFar, Named
<1>9. QED
  BY <1>1, <1>4, <1>6, <1>7, <1>8 DEF WholeInv, Tables, ProfileRows, Ids

LEMMA WholeEnds ==
    ASSUME IdentityInv, WholeInv, server.up, NEW r \in Requests, Ends(r), req[r].pc \notin Making,
           UNCHANGED <<users, server, left>>,
           profiles' \in Tables, \A u \in Ids : Named(u) => Named(u)', quotas \subseteq quotas'
    PROVE  WholeInv'
<1>1. req' = [req EXCEPT ![r] = Idle]
  BY DEF Ends
<1>2. Idle \in Request /\ Idle.pc = "idle"
  BY IdleType
<1>3. QED
  BY <1>1, <1>2, WholeOneRequest

\* A request that only reads, in the table of accounts and their sessions at least.
LEMMA WholeReading ==
    ASSUME IdentityInv, WholeInv, NEW r \in Requests,
           \/ Begin(r) \/ Refused(r) \/ Find(r) \/ Tag(r) \/ SetQuota(r) \/ Undoes(r)
           \/ Account(r) \/ Open(r) \/ ReadSession(r) \/ ReadUser(r) \/ Logout(r) \/ ProfileUpdate(r)
    PROVE  WholeInv'
<1> USE RequestFields DEF dbVars
<1>1. /\ server.up /\ UNCHANGED <<users, server, left, profiles>> /\ quotas \subseteq quotas'
      /\ profiles' \in Tables /\ \A u \in Ids : Named(u) => Named(u)'
  BY DEF Begin, Refused, Fails, Find, Tag, SetQuota, Undoes, Account, Open, ReadSession, ReadUser, Logout,
         ProfileUpdate, WholeInv, Named, Tables, ProfileRows, Ids
<1>2. CASE Ends(r) /\ req[r].pc \notin Making
  BY <1>1, <1>2, WholeEnds
<1>3. CASE \E q \in Request : /\ req' = [req EXCEPT ![r] = q]
                              /\ req[r].pc \notin Making /\ q.pc \notin {"quota", "session"}
  BY <1>1, <1>3, WholeOneRequest
<1>4. CASE \E q \in Request : /\ req' = [req EXCEPT ![r] = q]
                              /\ q.pc \in Making \ {"quota", "session"} /\ q.id = req[r].id
  BY <1>1, <1>4, WholeOneRequest
<1>5. CASE Begin(r)
  <2>1. PICK b \in Browsers, e \in Emails, pc \in {"find", "account", "cookie"} :
            req' = [req EXCEPT ![r] = [Idle EXCEPT !.pc = pc, !.browser = b, !.email = e]]
    BY <1>5 DEF Begin
  <2> DEFINE q == [Idle EXCEPT !.pc = pc, !.browser = b, !.email = e]
  <2>2. q \in Request /\ q.pc \notin {"quota", "session"}
    BY IdleType DEF Request
  <2>3. req[r].pc \notin Making
    BY <1>5 DEF Begin, Making
  <2>4. QED
    BY <1>3, <2>1, <2>2, <2>3
<1>6. CASE Refused(r) \/ Logout(r) \/ (Open(r) /\ req[r].pc = "open")
  <2>1. Ends(r) /\ req[r].pc \notin Making
    BY <1>6 DEF Refused, Fails, Logout, Open, Making
  <2>2. QED
    BY <1>2, <2>1
<1>7. CASE Open(r) /\ req[r].pc = "session"
  <2>1. req[r].id \in Accounts /\ req' = [req EXCEPT ![r] = Idle]
    BY <1>7 DEF Open, Ends
  <2>2. Named(req[r].id) /\ req[r].id \in quotas /\ req[r].id \in Ids
    BY <1>7, <2>1 DEF WholeInv, MadeSoFar, Accounts
  <2>3. Idle \in Request /\ Idle.pc = "idle"
    BY IdleType
  <2>4. profiles'[req[r].id].name # "" /\ req[r].id \in quotas'
    BY <1>1, <2>2 DEF Named
  <2>5. QED
    BY <1>1, <2>1, <2>3, <2>4, WholeOneRequest
<1>8. CASE Find(r) \/ Account(r) \/ ReadSession(r) \/ ReadUser(r) \/ ProfileUpdate(r)
  <2>1. req[r].pc \notin Making
    BY <1>8 DEF Find, Account, ReadSession, ReadUser, ProfileUpdate, Making
  <2>2. CASE Ends(r)
    BY <1>2, <2>1, <2>2
  <2>3. CASE ~Ends(r)
    <3>1. req'[r] \in Request
      BY <1>8, ReadingStays DEF IdentityInv, IdentityTypes
    <3>2. req' = [req EXCEPT ![r] = req'[r]] /\ req'[r].pc \in {"insert", "open", "user", "act", "update"}
      BY <1>8, <2>3 DEF Find, Account, ReadSession, ReadUser, ProfileUpdate, Goes, IdentityInv, IdentityTypes, Request
    <3>3. \E q \in Request : req' = [req EXCEPT ![r] = q] /\ q.pc \in {"insert", "open", "user", "act", "update"}
      BY <3>1, <3>2
    <3>4. QED
      BY <1>3, <2>1, <3>3
  <2>4. QED
    BY <2>2, <2>3
<1>9. CASE Tag(r) \/ Undoes(r)
  <2>1. req'[r] \in Request
    BY <1>9, ReadingStays DEF IdentityInv, IdentityTypes
  <2>2. /\ req' = [req EXCEPT ![r] = req'[r]] /\ req'[r].pc \in Making \ {"quota", "session"}
        /\ req'[r].id = req[r].id
    BY <1>9 DEF Tag, Undoes, Goes, IdentityInv, IdentityTypes, Request, Making
  <2>3. \E q \in Request : /\ req' = [req EXCEPT ![r] = q] /\ q.pc \in Making \ {"quota", "session"}
                           /\ q.id = req[r].id
    BY <2>1, <2>2
  <2>4. QED
    BY <1>4, <2>3
<1>10. CASE SetQuota(r)
  <2> DEFINE q == [req[r] EXCEPT !.pc = "session"]
  <2>1. req[r].pc = "quota" /\ req' = [req EXCEPT ![r] = q] /\ quotas' = quotas \cup {req[r].id}
    BY <1>10 DEF SetQuota, Goes
  <2>2. q \in Request /\ q.pc = "session" /\ q.id = req[r].id /\ q.pc \in Making
    BY DEF Request, Making
  <2>3. req[r].id \in Accounts => Named(req[r].id) /\ req[r].id \in Ids
    BY <2>1 DEF WholeInv, MadeSoFar, Accounts
  <2>4. req[r].id \in Accounts => profiles'[req[r].id].name # ""
    BY <1>1, <2>3 DEF Named
  <2> HIDE DEF q
  <2>5. QED
    BY <1>1, <2>1, <2>2, <2>4, WholeOneRequest
<1>11. QED
  BY <1>5, <1>6, <1>7, <1>8, <1>9, <1>10 DEF Open

\* The two statements that write a profile.
LEMMA WholeWriting ==
    ASSUME IdentityInv, WholeInv, NEW r \in Requests, InsertProfile(r) \/ Update(r)
    PROVE  WholeInv'
<1>1. CASE InsertProfile(r)
  <2> DEFINE u == req[r].id
             p == [name |-> "user", tag |-> req[r].tag, changed |-> 0]
  <2>1. PICK pc \in {"quota", "undo"} : req' = [req EXCEPT ![r].pc = pc, ![r].tag = 0]
    BY <1>1 DEF InsertProfile
  <2>2. /\ server.up /\ u \in Accounts /\ profiles' = [profiles EXCEPT ![u] = p] /\ quotas' = quotas
        /\ UNCHANGED <<users, server, left>>
    BY <1>1 DEF InsertProfile
  <2>3. req[r] \in Request /\ u \in Ids
    BY <2>2, RequestFields DEF Accounts
  <2>4. p \in ProfileRows /\ p.name # ""
    BY <2>3, AccountsConstants DEF ProfileRows, Request
  <2> DEFINE q == [req[r] EXCEPT !.pc = pc, !.tag = 0]
  <2>5. q \in Request /\ q.pc = pc /\ q.id = u /\ req' = [req EXCEPT ![r] = q]
    <3>1. 0 \in 0..Tags
      BY AccountsConstants
    <3>2. QED
      BY <2>1, <2>3, <3>1 DEF Request, Making
  <2> HIDE DEF p, q
  <2>6. profiles' \in Tables /\ profiles'[u] = p /\ \A v \in Ids : v # u => profiles'[v] = profiles[v]
    BY <2>2, <2>3, <2>4 DEF WholeInv, Tables
  <2>7. \A v \in Ids : Named(v) => Named(v)'
    BY <2>4, <2>6 DEF Named
  <2>8. q.pc \in Making /\ q.pc # "session" /\ profiles'[q.id].name # ""
    BY <2>4, <2>5, <2>6 DEF Making
  <2>9. QED
    BY <2>2, <2>5, <2>6, <2>7, <2>8, WholeOneRequest
<1>2. CASE Update(r)
  <2> DEFINE u == req[r].id
  <2>1. PICK name \in Names : profiles' = [profiles EXCEPT ![u] = [name |-> name, tag |-> profiles[u].tag, changed |-> clock + 1]]
    BY <1>2 DEF Update
  <2> DEFINE p == [name |-> name, tag |-> profiles[u].tag, changed |-> clock + 1]
  <2>2. /\ server.up /\ u \in Ids /\ Ends(r) /\ req[r].pc \notin Making /\ quotas' = quotas
        /\ UNCHANGED <<users, server, left>>
    BY <1>2 DEF Update, Accounts, Making
  <2>3. p \in ProfileRows /\ p.name # ""
    <3>1. profiles[u].tag \in Nat
      BY <2>2 DEF WholeInv, Tables, ProfileRows
    <3>2. clock + 1 \in Nat
      BY DEF IdentityInv, IdentityTypes
    <3>3. "" \notin Names
      BY AccountsAssumption
    <3>4. QED
      BY <3>1, <3>2, <3>3 DEF ProfileRows
  <2>4. profiles' = [profiles EXCEPT ![u] = p]
    BY <2>1
  <2> HIDE DEF p
  <2>5. profiles' \in Tables /\ profiles'[u] = p /\ \A v \in Ids : v # u => profiles'[v] = profiles[v]
    BY <2>2, <2>3, <2>4 DEF WholeInv, Tables
  <2>6. \A v \in Ids : Named(v) => Named(v)'
    BY <2>3, <2>5 DEF Named
  <2>7. QED
    BY <2>2, <2>5, <2>6, WholeEnds
<1>3. QED
  BY <1>1, <1>2

\* A request that waits, while its account stays or goes.
LEMMA MadeSoFarStays ==
    ASSUME NEW p, req'[p] = req[p], MadeSoFar(p),
           \A i : i \in Accounts' /\ i = req[p].id =>
               i \in Accounts /\ profiles'[i] = profiles[i] /\ (i \in quotas => i \in quotas')
    PROVE  MadeSoFar(p)'
<1>1. PICK i : i = req[p].id
  OBVIOUS
<1>2. CASE i \notin Accounts'
  BY <1>1, <1>2 DEF MadeSoFar
<1>3. CASE i \in Accounts'
  <2>1. i \in Accounts /\ profiles'[i] = profiles[i] /\ (i \in quotas => i \in quotas')
    BY <1>1, <1>3
  <2>2. /\ req[p].pc \in {"quota", "session"} => profiles[i].name # ""
        /\ req[p].pc = "session" => i \in quotas
    BY <1>1, <2>1 DEF MadeSoFar, Named
  <2>3. QED
    BY <1>1, <2>1, <2>2 DEF MadeSoFar, Named
<1>4. QED
  BY <1>2, <1>3

\* A new account is being made by the request that inserted its row.
LEMMA WholeInsert ==
    ASSUME IdentityInv, WholeInv, NEW r \in Requests, Insert(r)
    PROVE  WholeInv'
<1> PICK n \in Ids : n = MintedUser
  BY DEF Insert
<1> PICK q \in Request : q = [req[r] EXCEPT !.pc = "tag", !.id = n]
  <2>1. n \in 0..MaxUsers
    BY AccountsConstants DEF Ids
  <2>2. QED
    BY <2>1, RequestFields DEF Request, Making
<1>1. /\ n = minted.user + 1 /\ minted.user \in Nat
      /\ users' = [users EXCEPT ![n] = req[r].email] /\ req' = [req EXCEPT ![r] = q]
      /\ server.up /\ req[r].pc = "insert" /\ UNCHANGED <<profiles, quotas, left, server>>
  <2>1. n = minted.user + 1 /\ minted.user \in Nat
    BY MintedUserType DEF IdentityInv
  <2>2. QED
    BY <2>1 DEF Insert
<1>2. q.pc = "tag" /\ q.id = n
  BY RequestFields DEF Request, Making
<1>3. /\ \A v \in Ids : v # n => users'[v] = users[v]
      /\ req'[r] = q /\ \A p \in Requests \ {r} : req'[p] = req[p]
  BY <1>1 DEF IdentityInv, IdentityTypes
<1>4. \A u \in Accounts' : u = n \/ (u \in Accounts /\ u # n)
  BY <1>3 DEF Accounts, Ids
<1>5. BeingMade(n)'
  BY <1>2, <1>3 DEF BeingMade, Making
<1>6. ASSUME NEW u, BeingMade(u) PROVE BeingMade(u)'
  <2>1. PICK p \in Requests : req[p].id = u /\ req[p].pc \in Making
    BY <1>6 DEF BeingMade
  <2>2. p # r
    BY <1>1, <2>1 DEF Making
  <2>3. req'[p] = req[p]
    BY <1>3, <2>2
  <2>4. QED
    BY <2>1, <2>3 DEF BeingMade, Making
<1>7. ASSUME NEW p \in Requests PROVE MadeSoFar(p)'
  <2>1. CASE p = r
    BY <1>2, <1>3, <2>1 DEF MadeSoFar
  <2>2. CASE p # r /\ req[p].pc \in {"quota", "session"}
    <3>1. req[p].id <= minted.user /\ req[p].id \in Nat
      BY <2>2, RequestFields, MintedUserType DEF IdentityInv, RequestTrue, Belongs, Making
    <3>2. req[p].id # n
      BY <1>1, <3>1
    <3>3. req'[p] = req[p]
      BY <1>3, <2>2
    <3>4. MadeSoFar(p)
      BY DEF WholeInv
    <3>5. \A i : i \in Accounts' /\ i = req[p].id => i \in Accounts
      BY <1>4, <3>2
    <3>6. QED
      BY <1>1, <3>3, <3>4, <3>5, MadeSoFarStays
  <2>3. CASE p # r /\ req[p].pc \notin {"quota", "session"}
    <3>1. req'[p] = req[p]
      BY <1>3, <2>3
    <3>2. QED
      BY <2>3, <3>1 DEF MadeSoFar
  <2>4. QED
    BY <2>1, <2>2, <2>3
<1>8. \A u \in Accounts' : ~BeingMade(u)' => u \in Accounts /\ ~BeingMade(u)
  BY <1>4, <1>5, <1>6
<1>9. profiles' \in Tables /\ left' \in [Ids -> {"no", "now", "booted"}] /\ server'.up
  BY <1>1 DEF WholeInv
<1>10. \A u \in Accounts' : ~BeingMade(u)' /\ left'[u] # "now" => Named(u)'
  BY <1>1, <1>8 DEF WholeInv, Named
<1>11. \A u \in Accounts' : ~BeingMade(u)' /\ left'[u] = "no" => u \in quotas'
  BY <1>1, <1>8 DEF WholeInv
<1>12. QED
  BY <1>7, <1>9, <1>10, <1>11 DEF WholeInv, Tables, ProfileRows, Ids

\* An account goes with all its rows, or another one stays half made; what is left of the
\* others is as it was.
LEMMA WholeDeleting ==
    ASSUME IdentityInv, WholeInv, server.up, NEW r \in Requests, Ends(r), server' = server,
           NEW u \in 0..MaxUsers, req[r].pc \in Making => req[r].id = u,
           \/ Deleted(u)
           \/ left' = [left EXCEPT ![u] = "now"] /\ UNCHANGED <<users, profiles, quotas>>
    PROVE  WholeInv'
<1>1. req'[r] = Idle /\ \A p \in Requests \ {r} : req'[p] = req[p]
  BY DEF Ends, IdentityInv, IdentityTypes
<1>2. users \in [Ids -> Emails \cup {NoOne}] /\ NoProfile \in ProfileRows
  <2>1. Tags \in Nat
    BY AccountsConstants
  <2>2. QED
    BY <2>1 DEF IdentityInv, IdentityTypes, NoProfile, ProfileRows
<1>3. /\ profiles' \in Tables /\ left' \in [Ids -> {"no", "now", "booted"}]
      /\ Accounts' \subseteq Accounts
      /\ \A v \in Accounts' : v # u => /\ profiles'[v] = profiles[v] /\ left'[v] = left[v]
                                       /\ v \in quotas => v \in quotas'
      /\ u \in Accounts' => left'[u] = "now" /\ profiles'[u] = profiles[u] /\ (u \in quotas => u \in quotas')
  <2>1. CASE Deleted(u)
    BY <1>2, <2>1 DEF Deleted, WholeInv, Tables, Accounts, Ids
  <2>2. CASE left' = [left EXCEPT ![u] = "now"] /\ UNCHANGED <<users, profiles, quotas>>
    BY <2>2 DEF WholeInv, Tables, ProfileRows, Accounts, Ids
  <2>3. QED
    BY <2>1, <2>2
<1>4. ASSUME NEW v \in Accounts', v # u, ~BeingMade(v)' PROVE v \in Accounts /\ ~BeingMade(v)
  <2> SUFFICES ASSUME BeingMade(v) PROVE FALSE
    BY <1>3
  <2>1. PICK p \in Requests : req[p].id = v /\ req[p].pc \in Making
    BY DEF BeingMade
  <2>2. p # r
    BY <1>4, <2>1
  <2>3. req'[p] = req[p]
    BY <1>1, <2>2
  <2>4. QED
    BY <1>4, <2>1, <2>3 DEF BeingMade, Making
<1>5. ASSUME NEW p \in Requests PROVE MadeSoFar(p)'
  <2>1. CASE p = r
    BY <1>1, <2>1, IdleType DEF MadeSoFar
  <2>2. CASE p # r
    <3>1. req'[p] = req[p] /\ MadeSoFar(p)
      BY <1>1, <2>2 DEF WholeInv
    <3>2. \A i \in Accounts' : i \in Accounts /\ profiles'[i] = profiles[i] /\ (i \in quotas => i \in quotas')
      BY <1>3
    <3>3. QED
      BY <3>1, <3>2, MadeSoFarStays
  <2>3. QED
    BY <2>1, <2>2
<1>6. \A v \in Accounts' : ~BeingMade(v)' /\ left'[v] # "now" => Named(v)'
  BY <1>3, <1>4 DEF WholeInv, Named
<1>7. \A v \in Accounts' : ~BeingMade(v)' /\ left'[v] = "no" => v \in quotas'
  BY <1>3, <1>4 DEF WholeInv
<1>8. QED
  BY <1>3, <1>5, <1>6, <1>7 DEF WholeInv, Tables, ProfileRows, Ids

LEMMA WholeLeaving ==
    ASSUME IdentityInv, WholeInv, NEW r \in Requests, Undo(r) \/ Administer(r)
    PROVE  WholeInv'
<1>1. req[r].id \in 0..MaxUsers
  BY RequestFields
<1>2. CASE Undo(r)
  BY <1>1, <1>2, WholeDeleting DEF Undo
<1>3. CASE Administer(r)
  <2>1. /\ server.up /\ Ends(r) /\ server' = server /\ req[r].pc \notin Making
    BY <1>3 DEF Administer, Making
  <2>2. PICK u \in Accounts : \/ Deleted(u)
                              \/ quotas' = quotas \cup {u} /\ UNCHANGED <<users, profiles, sessions, left>>
    BY <1>3 DEF Administer
  <2>3. u \in 0..MaxUsers
    BY AccountsConstants DEF Accounts, Ids
  <2>4. CASE Deleted(u)
    BY <2>1, <2>3, <2>4, WholeDeleting
  <2>5. CASE quotas' = quotas \cup {u} /\ UNCHANGED <<users, profiles, sessions, left>>
    <3>1. /\ quotas \subseteq quotas' /\ UNCHANGED <<users, server, left>> /\ profiles' \in Tables
          /\ \A v \in Ids : Named(v) => Named(v)'
      BY <2>1, <2>5 DEF WholeInv, Named, Tables, ProfileRows, Ids
    <3>2. QED
      BY <2>1, <3>1, WholeEnds
  <2>6. QED
    BY <2>2, <2>4, <2>5
<1>4. QED
  BY <1>2, <1>3

\* Whom a crash interrupts is marked, and a boot serves when it has been through them all.
LEMMA WholeProcess ==
    ASSUME IdentityInv, WholeInv, Crash \/ Boot \/ Tick
    PROVE  WholeInv'
<1>1. Accounts' = Accounts /\ Accounts \subseteq Ids
  BY DEF Crash, Boot, Tick, dbVars, Accounts, Ids
<1>2. CASE Crash
  <2>1. /\ ~server'.up /\ req' = [r \in Requests |-> Idle] /\ UNCHANGED <<profiles, quotas>>
        /\ left' = [u \in Ids |-> IF \E r \in Requests : /\ req[r].id = u /\ req[r].pc \in Making
                                                         /\ u \in Accounts
                                  THEN "now" ELSE left[u]]
    BY <1>2 DEF Crash, IdentityInv, IdentityTypes
  <2>2. \A u \in Accounts : left'[u] = "no" => ~BeingMade(u) /\ left[u] = "no"
    BY <1>1, <2>1 DEF BeingMade
  <2>3. \A r \in Requests : req'[r].pc = "idle" /\ MadeSoFar(r)'
    BY <2>1, IdleType DEF MadeSoFar
  <2>4. left' \in [Ids -> {"no", "now", "booted"}] /\ profiles' \in Tables
    BY <2>1 DEF WholeInv
  <2>5. \A u \in Accounts' : left'[u] = "no" => u \in quotas'
    BY <1>1, <2>1, <2>2 DEF WholeInv
  <2>6. QED
    BY <2>1, <2>3, <2>4, <2>5 DEF WholeInv, Tables, ProfileRows, Ids
<1>3. CASE Boot
  <2>1. /\ ~server.up /\ UNCHANGED <<quotas, req>>
        /\ \E n \in 0..MaxUsers :
              /\ profiles' \in EnsuredUpTo[n] /\ server'.up = (n = MaxUsers)
              /\ n < MaxUsers => left' = left
              /\ n = MaxUsers => left' = [u \in Ids |-> IF left[u] = "no" THEN "no" ELSE "booted"]
    <3>1. MaxUsers \in Nat
      BY AccountsConstants
    <3>2. QED
      BY <1>3, <3>1 DEF Boot
  <2>2. PICK n \in 0..MaxUsers :
              /\ profiles' \in EnsuredUpTo[n] /\ server'.up = (n = MaxUsers)
              /\ n < MaxUsers => left' = left
              /\ n = MaxUsers => left' = [u \in Ids |-> IF left[u] = "no" THEN "no" ELSE "booted"]
    BY <2>1
  <2>3. /\ profiles' \in Tables
        /\ \A u \in Accounts : u <= n => profiles'[u].name # ""
    <3>1. profiles \in Tables
      BY DEF WholeInv
    <3>2. PICK qs \in EnsuredUpTo[n] : profiles' = qs
      BY <2>2
    <3>3. qs \in Tables /\ \A u \in Accounts : u <= n => qs[u].name # ""
      BY <3>1, <3>2, EnsuredNames
    <3>4. QED
      BY <3>2, <3>3
  <2>4. server'.up => \A u \in Accounts : profiles'[u].name # ""
    <3>1. \A u \in Accounts : u <= MaxUsers
      BY <1>1, AccountsConstants DEF Ids
    <3>2. QED
      BY <2>2, <2>3, <3>1
  <2>5. left' \in [Ids -> {"no", "now", "booted"}] /\ \A u \in Ids : left'[u] = "no" => left[u] = "no"
    <3>1. n < MaxUsers \/ n = MaxUsers
      BY AccountsConstants
    <3>2. QED
      BY <2>2, <3>1 DEF WholeInv
  <2>6. \A r \in Requests : req'[r].pc = "idle" /\ MadeSoFar(r)'
    BY <2>1 DEF WholeInv, MadeSoFar
  <2>7. \A u \in Accounts' : left'[u] = "no" => u \in quotas'
    <3>1. \A u \in Accounts : ~BeingMade(u)
      BY <2>1 DEF WholeInv, BeingMade, Making
    <3>2. QED
      BY <1>1, <2>1, <2>5, <3>1 DEF WholeInv
  <2>8. \A u \in Accounts' : server'.up => Named(u)'
    BY <1>1, <2>4 DEF Named
  <2>9. QED
    BY <2>3, <2>5, <2>6, <2>7, <2>8 DEF WholeInv, Tables, ProfileRows, Ids
<1>4. CASE Tick
  BY <1>1, <1>4 DEF Tick, dbVars, WholeInv, Tables, ProfileRows, Ids, MadeSoFar, Named, BeingMade, Making
<1>5. QED
  BY <1>2, <1>3, <1>4

LEMMA WholeStutters ==
    ASSUME WholeInv, UNCHANGED accountVars
    PROVE  WholeInv'
<1>1. Accounts' = Accounts
  BY DEF accountVars, Accounts, Ids
<1>2. UNCHANGED <<profiles, left, server, req, quotas>>
  BY DEF accountVars
<1>3. \A u : (BeingMade(u)' <=> BeingMade(u)) /\ (Named(u)' <=> Named(u))
  BY <1>2 DEF BeingMade, Named, Making
<1>4. \A r \in Requests : MadeSoFar(r)'
  BY <1>1, <1>2 DEF WholeInv, MadeSoFar, Named
<1>5. QED
  BY <1>1, <1>2, <1>3, <1>4 DEF WholeInv, Tables, ProfileRows, Ids

LEMMA WholeBegins == AccountsInit => WholeInv
<1> SUFFICES ASSUME AccountsInit PROVE WholeInv
  OBVIOUS
<1>1. PICK owners \in {{}, {1}} :
          /\ users = [u \in Ids |-> IF u \in owners THEN CHOOSE e \in Emails : TRUE ELSE NoOne]
          /\ profiles = [u \in Ids |-> IF u \in owners THEN OldProfile ELSE NoProfile]
          /\ quotas = owners
  BY DEF AccountsInit
<1>2. /\ req = [r \in Requests |-> Idle] /\ server = [up |-> FALSE, secret |-> 0, boots |-> 0]
      /\ left = [u \in Ids |-> "no"]
  BY DEF AccountsInit
<1>3. profiles \in Tables
  <2>1. Tags \in Nat
    BY AccountsConstants
  <2>2. OldProfile \in ProfileRows /\ NoProfile \in ProfileRows
    BY <2>1 DEF OldProfile, NoProfile, ProfileRows
  <2>3. QED
    BY <1>1, <2>2 DEF Tables
<1>4. Accounts \subseteq quotas
  BY <1>1 DEF Accounts
<1>5. \A r \in Requests : req[r].pc = "idle" /\ MadeSoFar(r)
  BY <1>2, IdleType DEF MadeSoFar
<1>6. QED
  BY <1>2, <1>3, <1>4, <1>5 DEF WholeInv

\* What makes NothingOutlives inductive: it is so as it stands, for the ids without an account.
Gone(u) == profiles[u] = NoProfile /\ u \notin quotas /\ \A s \in Sids : sessions[s].user # u
GoneInv == \A u \in Ids \ Accounts : Gone(u)

\* Where no account goes, a row may be written to one that is there.
LEMMA GoneKept ==
    ASSUME GoneInv, Accounts \subseteq Accounts',
           \A u \in Ids \ Accounts' : /\ profiles'[u] = profiles[u]
                                      /\ u \in quotas' => u \in quotas
                                      /\ \A s \in Sids : sessions'[s].user = u => sessions[s].user = u
    PROVE  GoneInv'
<1> SUFFICES ASSUME NEW u \in Ids \ Accounts' PROVE Gone(u)'
  BY DEF GoneInv, Ids
<1>1. Gone(u)
  BY DEF GoneInv
<1>2. QED
  BY <1>1 DEF Gone, NoProfile, Sids

\* An account goes with all its rows.
LEMMA GoneDeleted ==
    ASSUME IdentityTypes, profiles \in Tables, GoneInv, NEW u, Deleted(u)
    PROVE  GoneInv'
<1> SUFFICES ASSUME NEW v \in Ids \ Accounts' PROVE Gone(v)'
  BY DEF GoneInv, Ids
<1>1. v # 0
  BY MintedUserType
<1>2. profiles'[v] = NoProfile /\ v \notin quotas'
  <2>1. CASE v = u
    BY <2>1 DEF Deleted, Tables
  <2>2. CASE v # u
    <3>1. v \notin Accounts
      BY <2>2 DEF Deleted, Accounts, IdentityTypes
    <3>2. QED
      BY <2>2, <3>1 DEF Deleted, Tables, GoneInv, Gone
  <2>3. QED
    BY <2>1, <2>2
<1>3. ASSUME NEW s \in Sids PROVE sessions'[s].user # v
  <2>1. CASE sessions[s].user = u
    BY <1>1, <2>1, IdleType DEF Deleted
  <2>2. CASE sessions[s].user # u
    <3>1. sessions'[s] = sessions[s]
      BY <2>2 DEF Deleted
    <3>2. v # u => v \notin Accounts
      BY DEF Deleted, Accounts, IdentityTypes
    <3>3. QED
      BY <2>2, <3>1, <3>2 DEF GoneInv, Gone
  <2>3. QED
    BY <2>1, <2>2
<1>4. QED
  BY <1>2, <1>3 DEF Gone, NoProfile, Sids

\* The statements of a request: those that write a row do so only of an account there is.
LEMMA GoneRequests ==
    ASSUME IdentityInv, WholeInv, GoneInv, NEW r \in Requests,
           \/ Begin(r) \/ Refused(r) \/ Find(r) \/ Tag(r) \/ SetQuota(r) \/ Undoes(r)
           \/ Account(r) \/ Open(r) \/ ReadSession(r) \/ ReadUser(r) \/ Logout(r) \/ ProfileUpdate(r)
           \/ InsertProfile(r) \/ Update(r) \/ Insert(r)
    PROVE  GoneInv'
<1>1. IdentityTypes /\ profiles \in Tables
  BY DEF IdentityInv, WholeInv
<1>2. CASE \/ Begin(r) \/ Refused(r) \/ Find(r) \/ Tag(r) \/ Undoes(r)
           \/ Account(r) \/ ReadSession(r) \/ ReadUser(r) \/ ProfileUpdate(r)
  <2>1. UNCHANGED <<users, profiles, quotas, sessions>>
    BY <1>2 DEF Begin, Refused, Find, Tag, Undoes, Account, ReadSession, ReadUser, ProfileUpdate, dbVars
  <2>2. QED
    BY <2>1, GoneKept DEF Accounts, Ids
<1>3. CASE SetQuota(r)
  <2>1. UNCHANGED <<users, profiles, sessions>> /\ req[r].id \in Accounts /\ quotas' = quotas \cup {req[r].id}
    BY <1>3 DEF SetQuota
  <2>2. Accounts' = Accounts
    BY <2>1 DEF Accounts, Ids
  <2>3. QED
    BY <2>1, <2>2, GoneKept
<1>4. CASE InsertProfile(r) \/ Update(r)
  <2>1. UNCHANGED <<users, quotas, sessions>> /\ req[r].id \in Accounts
    BY <1>4 DEF InsertProfile, Update
  <2>2. \A u \in Ids \ {req[r].id} : profiles'[u] = profiles[u]
    BY <1>1, <1>4 DEF InsertProfile, Update, Tables
  <2>3. Accounts' = Accounts
    BY <2>1 DEF Accounts, Ids
  <2>4. QED
    BY <2>1, <2>2, <2>3, GoneKept
<1>5. CASE Insert(r)
  <2>1. /\ UNCHANGED <<profiles, quotas, sessions>> /\ users' = [users EXCEPT ![MintedUser] = req[r].email]
        /\ req[r].email \in Emails
    BY <1>5, RequestFields DEF Insert
  <2>2. NoOne \notin Emails
    BY AccountsConstants
  <2>3. Accounts \subseteq Accounts'
    BY <1>1, <2>1, <2>2 DEF Accounts, Ids, IdentityTypes
  <2>4. QED
    BY <2>1, <2>3, GoneKept
<1>6. CASE Open(r)
  <2>1. UNCHANGED <<users, profiles, quotas>> /\ req[r].id \in Accounts
    BY <1>6 DEF Open
  <2>2. PICK s \in Sids : sessions' = [sessions EXCEPT ![s] = [user   |-> req[r].id, until |-> clock + SessionTTL,
                                                               opener |-> req[r].email]]
    BY <1>6 DEF Open
  <2>3. \A z \in Sids : sessions'[z].user \in {sessions[z].user, req[r].id}
    BY <1>1, <2>2 DEF IdentityTypes
  <2>4. Accounts' = Accounts
    BY <2>1 DEF Accounts, Ids
  <2>5. QED
    BY <2>1, <2>3, <2>4, GoneKept
<1>7. CASE Logout(r)
  <2>1. UNCHANGED <<users, profiles, quotas>>
    BY <1>7 DEF Logout
  <2>2. \A z \in Sids : sessions'[z] = sessions[z] \/ sessions'[z] = NoSession
    BY <1>1, <1>7 DEF Logout, IdentityTypes
  <2>3. \A u \in Ids, z \in Sids : sessions'[z].user = u => sessions[z].user = u
    BY <1>1, <2>2, IdleType, MintedUserType
  <2>4. Accounts' = Accounts
    BY <2>1 DEF Accounts, Ids
  <2>5. QED
    BY <2>1, <2>3, <2>4, GoneKept
<1>8. QED
  BY <1>2, <1>3, <1>4, <1>5, <1>6, <1>7

LEMMA GoneLeaving ==
    ASSUME IdentityInv, WholeInv, GoneInv, NEW r \in Requests, Undo(r) \/ Administer(r)
    PROVE  GoneInv'
<1>1. IdentityTypes /\ profiles \in Tables
  BY DEF IdentityInv, WholeInv
<1>2. CASE Undo(r)
  <2>1. CASE Deleted(req[r].id)
    BY <1>1, <2>1, GoneDeleted
  <2>2. CASE UNCHANGED <<users, profiles, quotas, sessions>>
    BY <2>2, GoneKept DEF Accounts, Ids
  <2>3. QED
    BY <1>2, <2>1, <2>2 DEF Undo
<1>3. CASE Administer(r)
  <2>1. PICK u \in Accounts : \/ Deleted(u)
                              \/ quotas' = quotas \cup {u} /\ UNCHANGED <<users, profiles, sessions, left>>
    BY <1>3 DEF Administer
  <2>2. CASE Deleted(u)
    BY <1>1, <2>2, GoneDeleted
  <2>3. CASE quotas' = quotas \cup {u} /\ UNCHANGED <<users, profiles, sessions, left>>
    <3>1. Accounts' = Accounts
      BY <2>3 DEF Accounts, Ids
    <3>2. QED
      BY <2>1, <2>3, <3>1, GoneKept
  <2>4. QED
    BY <2>1, <2>2, <2>3
<1>4. QED
  BY <1>2, <1>3

LEMMA GoneProcess ==
    ASSUME IdentityInv, WholeInv, GoneInv, Crash \/ Boot \/ Tick
    PROVE  GoneInv'
<1>1. CASE Crash \/ Tick
  <2>1. UNCHANGED <<users, profiles, quotas, sessions>>
    BY <1>1 DEF Crash, Tick, dbVars
  <2>2. QED
    BY <2>1, GoneKept DEF Accounts, Ids
<1>2. CASE Boot
  <2>1. UNCHANGED <<users, quotas>> /\ Accounts' = Accounts
    BY <1>2 DEF Boot, Accounts, Ids
  <2>2. \A s \in Sids : sessions'[s] = sessions[s] \/ sessions'[s] = NoSession
    BY <1>2 DEF Boot, Purged
  <2>3. \A u \in Ids, s \in Sids : sessions'[s].user = u => sessions[s].user = u
    <3>1. \A u \in Ids : u # 0
      BY MintedUserType DEF IdentityInv
    <3>2. QED
      BY <2>2, <3>1, IdleType
  <2>4. PICK n \in 0..MaxUsers : profiles' \in EnsuredUpTo[n]
    BY <1>2 DEF Boot
  <2>5. \A u \in Ids \ Accounts : profiles'[u] = profiles[u]
    <3>1. PICK qs \in EnsuredUpTo[n] : profiles' = qs
      BY <2>4
    <3>2. \A u \in Ids \ Accounts : qs[u] = profiles[u]
      BY <3>1, EnsuredNames DEF WholeInv
    <3>3. QED
      BY <3>1, <3>2
  <2>6. QED
    BY <2>1, <2>3, <2>5, GoneKept
<1>3. QED
  BY <1>1, <1>2

LEMMA GoneBegins == AccountsInit => GoneInv
<1> SUFFICES ASSUME AccountsInit, NEW u \in Ids \ Accounts PROVE Gone(u)
  BY DEF GoneInv
<1>1. PICK owners \in {{}, {1}} :
          /\ users = [v \in Ids |-> IF v \in owners THEN CHOOSE e \in Emails : TRUE ELSE NoOne]
          /\ profiles = [v \in Ids |-> IF v \in owners THEN OldProfile ELSE NoProfile]
          /\ quotas = owners
  BY DEF AccountsInit
<1>2. (CHOOSE e \in Emails : TRUE) # NoOne
  BY AccountsConstants
<1>3. u \notin owners
  BY <1>1, <1>2 DEF Accounts
<1>4. \A s \in Sids : sessions[s].user = 0
  BY IdleType DEF AccountsInit
<1>5. u # 0
  BY AccountsConstants DEF Ids
<1>6. QED
  BY <1>1, <1>3, <1>4, <1>5 DEF Gone

\* All rows of an account or none.  An account that nobody is making has its profile and its
\* quota, whichever statement of a registration failed and whoever registered at the same
\* time; what is left out are the accounts that a failed deletion in RegisterSubmit or a crash
\* left behind, of which it is only stated that they have a profile again once the server has
\* been started (ensureExistingUserMetadata) - nothing in the code gives them a quota.  And
\* where there is no account, or none any more, there is no profile, quota or session of one.
THEOREM WholeUnlessLeft == Spec => []AccountsWhole
<1> DEFINE Inv == IdentityInv /\ WholeInv /\ GoneInv
<1>1. Init => Inv
  BY IdentityBegins, WholeBegins, GoneBegins DEF Init
<1>2. Inv /\ [Next]_serverVars => Inv'
  <2> SUFFICES ASSUME IdentityInv, WholeInv, GoneInv, [Next]_serverVars
               PROVE  IdentityInv' /\ WholeInv' /\ GoneInv'
    OBVIOUS
  <2>1. CASE AccountsNext
    <3>1. IdentityInv'
      BY <2>1, ReadingStays, InsertStays, LeavingStays, OpenStays, ProcessStays DEF AccountsNext
    <3>2. WholeInv'
      BY <2>1, WholeReading, WholeWriting, WholeInsert, WholeLeaving, WholeProcess DEF AccountsNext
    <3>3. GoneInv'
      BY <2>1, GoneRequests, GoneLeaving, GoneProcess DEF AccountsNext
    <3>4. QED
      BY <3>1, <3>2, <3>3
  <2>2. CASE UNCHANGED accountVars
    <3>1. IdentityInv'
      BY <2>2 DEF accountVars, IdentityInv, IdentityTypes, AccountsMinted, SessionsTrue, RequestsTrue,
                  RequestTrue, Belongs, Accounts, Ids, Sids, Session, Cookie, Request, Making
    <3>2. UNCHANGED <<users, profiles, quotas, sessions>>
      BY <2>2 DEF accountVars
    <3>3. GoneInv'
      BY <3>2, GoneKept DEF Accounts, Ids
    <3>4. QED
      BY <2>2, <3>1, <3>3, WholeStutters
  <2>3. QED
    BY <2>1, <2>2 DEF Next, serverVars
<1>3. Inv => AccountsWhole
  <2> SUFFICES ASSUME WholeInv, GoneInv PROVE Complete /\ NothingOutlives
    BY DEF AccountsWhole
  <2>1. NoProfile.name = "" /\ OldProfile.name = ""
    BY DEF NoProfile, OldProfile
  <2>2. Complete
    BY <2>1 DEF WholeInv, Named, Complete
  <2>3. NothingOutlives
    BY DEF GoneInv, Gone, NothingOutlives
  <2>4. QED
    BY <2>2, <2>3
<1>4. QED
  BY <1>1, <1>2, <1>3, PTL DEF Spec

-----------------------------------------------------------------------------
(* The migration *)

\* What may be in the table chats of a study: a chat that was carried over, or a new one.
Carriable == {<<>>} \cup {Carried(s) : s \in Studies}

\* An attempt that is under a test is under one of its kind, and those of a kind are
\* together; until they are gathered, which is one statement, no attempt is under one.
Kinds ==
    \/ Unlinked = Attempts
    \/ /\ \A a \in Attempts : attempts[a].test \in DOMAIN defined /\ defined[attempts[a].test] = attempts[a].of
       /\ \A a, b \in Attempts : attempts[a].of = attempts[b].of => attempts[a].test = attempts[b].test

\* Before attempts are gathered there is a test for each kind, and afterwards none is left.
Progress ==
    /\ boot.at = "link" => \A a \in Unlinked : \E i \in DOMAIN defined : defined[i] = attempts[a].of
    /\ boot.at \in {"handles", "accounts", "up"} => Unlinked = {}

MigrationInv ==
    /\ attempts \in [Attempts -> [of : Tests, test : Nat]]
    /\ defined \in Seq(Tests)
    /\ chats \in [Studies -> Seq(Carriable)]
    /\ boot \in [at : Steps, starts : Nat]
    /\ Kinds /\ Progress /\ CarriedOnce

\* A chat is added or removed: a conversation of old is carried over into an empty list only.
LEMMA ChatsStay ==
    ASSUME MigrationInv, UNCHANGED old, NEW s \in Studies, NEW h \in Seq(Carriable),
           chats' = [chats EXCEPT ![s] = h],
           \/ h = <<Carried(s)>> \/ h = Append(chats[s], <<>>)
           \/ chats[s] # <<>> /\ h = Tail(chats[s])
    PROVE  chats' \in [Studies -> Seq(Carriable)]' /\ CarriedOnce'
<1>1. \A t \in Studies : Carried(t)' = Carried(t)
  BY DEF Carried
<1>2. Carriable' = Carriable
  BY <1>1 DEF Carriable
<1>3. /\ chats \in [Studies -> Seq(Carriable)] /\ chats[s] \in Seq(Carriable)
      /\ chats' \in [Studies -> Seq(Carriable)] /\ chats'[s] = h
      /\ \A t \in Studies \ {s} : chats'[t] = chats[t]
  BY DEF MigrationInv
<1>4. ASSUME Carried(s) # <<>>, NEW i \in DOMAIN h, NEW j \in DOMAIN h, h[i] = Carried(s), h[j] = Carried(s)
      PROVE  i = j
  <2>1. /\ DOMAIN chats[s] = 1..Len(chats[s]) /\ Len(chats[s]) \in Nat
        /\ DOMAIN h = 1..Len(h) /\ Len(h) \in Nat
    BY <1>3
  <2>2. \A k, l \in DOMAIN chats[s] : chats[s][k] = Carried(s) /\ chats[s][l] = Carried(s) => k = l
    BY <1>4 DEF MigrationInv, CarriedOnce
  <2>3. CASE h = <<Carried(s)>>
    <3>1. Len(h) = 1
      BY <2>3
    <3>2. QED
      BY <1>4, <2>1, <3>1
  <2>4. CASE h = Append(chats[s], <<>>)
    <3>1. /\ Len(h) = Len(chats[s]) + 1 /\ h[Len(chats[s]) + 1] = <<>>
          /\ \A k \in 1..Len(chats[s]) : h[k] = chats[s][k]
      BY <1>3, <2>4
    <3>2. i \in 1..Len(chats[s]) /\ j \in 1..Len(chats[s])
      BY <1>4, <2>1, <3>1
    <3>3. QED
      BY <1>4, <2>1, <2>2, <3>1, <3>2
  <2>5. CASE chats[s] # <<>> /\ h = Tail(chats[s])
    <3>1. Len(h) = Len(chats[s]) - 1 /\ \A k \in 1..Len(h) : h[k] = chats[s][k + 1]
      BY <1>3, <2>5, HeadTailProperties
    <3>2. /\ i \in Nat /\ j \in Nat /\ i + 1 \in DOMAIN chats[s] /\ j + 1 \in DOMAIN chats[s]
          /\ chats[s][i + 1] = Carried(s) /\ chats[s][j + 1] = Carried(s)
      BY <1>4, <2>1, <3>1
    <3>3. i + 1 = j + 1
      BY <2>2, <3>2
    <3>4. QED
      BY <3>2, <3>3
  <2>6. QED
    BY <2>3, <2>4, <2>5
<1>5. CarriedOnce'
  <2> SUFFICES ASSUME NEW t \in Studies, Carried(t) # <<>>,
                      NEW i \in DOMAIN chats'[t], NEW j \in DOMAIN chats'[t],
                      chats'[t][i] = Carried(t), chats'[t][j] = Carried(t)
               PROVE  i = j
    BY <1>1 DEF CarriedOnce
  <2>1. CASE t = s
    BY <1>3, <1>4, <2>1
  <2>2. CASE t # s
    BY <1>3, <2>2 DEF MigrationInv, CarriedOnce
  <2>3. QED
    BY <2>1, <2>2
<1>6. QED
  BY <1>2, <1>3, <1>5

\* Where chats and what was carried over stay as they are.
LEMMA ChatsKept ==
    ASSUME MigrationInv, UNCHANGED <<old, chats>>
    PROVE  chats' \in [Studies -> Seq(Carriable)]' /\ CarriedOnce'
<1>1. \A t \in Studies : Carried(t)' = Carried(t)
  BY DEF Carried
<1>2. Carriable' = Carriable
  BY <1>1 DEF Carriable
<1>3. CarriedOnce'
  BY <1>1 DEF MigrationInv, CarriedOnce
<1>4. QED
  BY <1>2, <1>3 DEF MigrationInv

\* Rows are added to the tests, and attempts stay where they are.
LEMMA TestsAdded ==
    ASSUME MigrationInv, NEW rows \in Seq(Tests), defined' = defined \o rows, UNCHANGED attempts
    PROVE  /\ defined' \in Seq(Tests) /\ Kinds' /\ Unlinked' = Unlinked
           /\ \A i \in DOMAIN rows : \E j \in DOMAIN defined' : defined'[j] = rows[i]
<1>1. /\ defined \in Seq(Tests) /\ Len(defined) \in Nat /\ DOMAIN defined = 1..Len(defined)
      /\ Len(rows) \in Nat /\ DOMAIN rows = 1..Len(rows)
  BY DEF MigrationInv
<1>2. /\ defined' \in Seq(Tests) /\ Len(defined') = Len(defined) + Len(rows)
      /\ \A i \in 1..Len(defined) + Len(rows) :
            defined'[i] = IF i <= Len(defined) THEN defined[i] ELSE rows[i - Len(defined)]
  BY <1>1, ConcatProperties
<1>3. DOMAIN defined' = 1..Len(defined) + Len(rows)
  BY <1>2
<1>4. \A i \in DOMAIN defined : i \in DOMAIN defined' /\ defined'[i] = defined[i]
  BY <1>1, <1>2, <1>3
<1>5. Unlinked' = Unlinked
  BY DEF Unlinked
<1>6. Kinds'
  BY <1>4, <1>5 DEF MigrationInv, Kinds
<1>7. ASSUME NEW i \in DOMAIN rows PROVE \E j \in DOMAIN defined' : defined'[j] = rows[i]
  <2> DEFINE j == Len(defined) + i
  <2>1. j \in 1..Len(defined) + Len(rows) /\ ~ (j <= Len(defined)) /\ j - Len(defined) = i
    BY <1>1, <1>7
  <2>2. QED
    BY <1>2, <1>3, <2>1
<1>8. QED
  BY <1>2, <1>5, <1>6, <1>7

\* A list with as many different members as a finite set has has them all.
LEMMA ListsAll ==
    ASSUME NEW S, IsFiniteSet(S), NEW rows \in SetToSeqs(S)
    PROVE  rows \in Seq(S) /\ \A x \in S : \E i \in DOMAIN rows : rows[i] = x
<1> DEFINE n == Cardinality(S)
<1>1. n \in Nat
  BY FS_CardinalityType
<1>2. rows \in [1..n -> S] /\ \A i, j \in 1..n : i # j => rows[i] # rows[j]
  BY DEF SetToSeqs
<1>3. rows \in Injection(1..n, S)
  BY <1>2 DEF Injection, IsInjective
<1>4. Cardinality(1..n) = n
  BY <1>1, FS_Interval
<1>5. rows \in Surjection(1..n, S)
  BY <1>3, <1>4, FS_Injection
<1>6. \A x \in S : \E i \in 1..n : rows[i] = x
  BY <1>5 DEF Surjection
<1>7. rows \in Seq(S)
  BY <1>1, <1>2, IsASeq
<1>8. QED
  BY <1>2, <1>6, <1>7

LEMMA OrphansFinite == MigrationInv => IsFiniteSet(Orphans) /\ Orphans \subseteq Tests
<1> SUFFICES ASSUME MigrationInv PROVE IsFiniteSet(Orphans) /\ Orphans \subseteq Tests
  OBVIOUS
<1> DEFINE f == [a \in Unlinked |-> attempts[a].of]
<1>1. Unlinked \subseteq Attempts /\ IsFiniteSet(Unlinked)
  BY MigrationsAssumption, FS_Subset DEF Unlinked
<1>2. f \in Surjection(Unlinked, Orphans)
  BY DEF Orphans, Surjection
<1>3. IsFiniteSet(Orphans)
  BY <1>1, <1>2, FS_Surjection
<1>4. QED
  BY <1>1, <1>3 DEF Orphans, MigrationInv

\* Every attempt of old goes under the first test of its kind.
LEMMA LinkStays ==
    ASSUME MigrationInv, Link
    PROVE  MigrationInv'
<1>1. /\ boot.at = "link" /\ boot' = [boot EXCEPT !.at = "handles"] /\ UNCHANGED <<columns, defined, old, chats>>
      /\ attempts' \in [Attempts -> [of : Tests, test : 1..Len(defined)]]
      /\ \A a \in Unlinked : attempts'[a].of = attempts[a].of /\ attempts'[a].test = Min(LinkedAny(a))
      /\ \A a \in Attempts \ Unlinked : attempts'[a] = attempts[a]
  BY DEF Link, At, OnTo, Linked, Unlinked
<1>2. /\ defined \in Seq(Tests) /\ Len(defined) \in Nat /\ DOMAIN defined = 1..Len(defined)
      /\ attempts \in [Attempts -> [of : Tests, test : Nat]]
  BY DEF MigrationInv
<1>3. ASSUME NEW a \in Unlinked PROVE Min(LinkedAny(a)) \in LinkedAny(a)
  <2>1. LinkedAny(a) # {} /\ LinkedAny(a) \subseteq Nat
    BY <1>1, <1>2, <1>3 DEF MigrationInv, Progress, LinkedAny
  <2>2. \E x \in LinkedAny(a) : \A y \in LinkedAny(a) : x =< y
    BY <2>1, LeastIn
  <2>3. QED
    BY <2>2 DEF Min
<1>4. \A a, b \in Unlinked : attempts[a].of = attempts[b].of => LinkedAny(a) = LinkedAny(b)
  BY DEF LinkedAny
<1>5. \A a \in Attempts : attempts'[a].test # 0
  BY <1>1, <1>2
<1>6. Unlinked' = {}
  BY <1>5 DEF Unlinked
<1>7. Kinds'
  <2>1. CASE Unlinked = Attempts
    <3>1. \A a \in Attempts : /\ attempts'[a].test \in DOMAIN defined'
                              /\ defined'[attempts'[a].test] = attempts'[a].of
      BY <1>1, <1>3, <2>1 DEF LinkedAny
    <3>2. \A a, b \in Attempts : attempts'[a].of = attempts'[b].of => attempts'[a].test = attempts'[b].test
      BY <1>1, <1>4, <2>1
    <3>3. QED
      BY <3>1, <3>2 DEF Kinds
  <2>2. CASE /\ \A a \in Attempts : /\ attempts[a].test \in DOMAIN defined
                                    /\ defined[attempts[a].test] = attempts[a].of
             /\ \A a, b \in Attempts : attempts[a].of = attempts[b].of => attempts[a].test = attempts[b].test
    <3>1. Unlinked = {}
      BY <1>2, <2>2 DEF Unlinked
    <3>2. \A a \in Attempts : attempts'[a] = attempts[a]
      BY <1>1, <3>1
    <3>3. QED
      BY <1>1, <2>2, <3>2 DEF Kinds
  <2>3. QED
    BY <2>1, <2>2 DEF MigrationInv, Kinds
<1>8. boot' \in [at : Steps, starts : Nat] /\ boot'.at = "handles"
  BY <1>1 DEF MigrationInv, Steps
<1>9. Progress'
  BY <1>6, <1>8 DEF Progress
<1>10. attempts' \in [Attempts -> [of : Tests, test : Nat]]
  BY <1>1, <1>2
<1>11. QED
  BY <1>1, <1>2, <1>7, <1>8, <1>9, <1>10, ChatsKept DEF MigrationInv

LEMMA MigrationStays ==
    ASSUME MigrationInv, [MigrationsNext]_migrationVars
    PROVE  MigrationInv'
<1>1. /\ attempts \in [Attempts -> [of : Tests, test : Nat]] /\ defined \in Seq(Tests)
      /\ chats \in [Studies -> Seq(Carriable)]
      /\ boot \in [at : Steps, starts : Nat] /\ Kinds /\ Progress
  BY DEF MigrationInv
\* The start goes on to another statement.
<1>2. ASSUME NEW at \in Steps, NEW n \in Nat, boot' = [at |-> at, starts |-> n], UNCHANGED <<attempts, defined, old, chats>>,
             at = "link" => boot.at = "link",
             at \in {"handles", "accounts", "up"} => boot.at \in {"handles", "accounts", "up"}
      PROVE  MigrationInv'
  <2>1. Unlinked' = Unlinked /\ Kinds'
    BY <1>1, <1>2 DEF Unlinked, Kinds
  <2>2. Progress'
    BY <1>1, <1>2, <2>1 DEF Progress
  <2>3. boot' \in [at : Steps, starts : Nat]
    BY <1>2
  <2>4. QED
    BY <1>1, <1>2, <2>1, <2>2, <2>3, ChatsKept DEF MigrationInv
<1>3. \A at : boot' = [boot EXCEPT !.at = at] => boot' = [at |-> at, starts |-> boot.starts]
  BY <1>1
<1>4. CASE Start
  BY <1>1, <1>2, <1>4 DEF Start, Steps
<1>5. CASE Die
  BY <1>1, <1>2, <1>3, <1>5 DEF Die, OnTo, Steps
<1>6. CASE CarryOver
  <2>1. CASE Pending = {}
    BY <1>1, <1>2, <1>3, <1>6, <2>1 DEF CarryOver, OnTo, Steps, At
  <2>2. CASE Pending # {}
    <3>1. PICK s \in Pending : chats' = [chats EXCEPT ![s] = <<Carried(s)>>]
      BY <1>6, <2>2 DEF CarryOver
    <3>2. s \in Studies /\ <<Carried(s)>> \in Seq(Carriable)
      BY DEF Pending, Carriable
    <3>3. UNCHANGED <<attempts, defined, boot, old>>
      BY <1>6, <2>2 DEF CarryOver
    <3>4. chats' \in [Studies -> Seq(Carriable)]' /\ CarriedOnce'
      BY <3>1, <3>2, <3>3, ChatsStay
    <3>5. Kinds' /\ Progress'
      BY <1>1, <3>3 DEF Kinds, Progress, Unlinked
    <3>6. QED
      BY <1>1, <3>3, <3>4, <3>5 DEF MigrationInv
  <2>3. QED
    BY <2>1, <2>2
<1>7. CASE AddColumns
  <2>1. PICK step \in {"learning", "leaderboard", "tests", "handles"} :
           /\ boot.at = step /\ UNCHANGED <<attempts, defined, old, chats>>
           /\ UNCHANGED boot \/ boot' = [boot EXCEPT !.at = After(step)]
    BY <1>7 DEF AddColumns, At, OnTo, Adds
  <2>2. After(step) \in {"leaderboard", "tests", "define"} \/ (step = "handles" /\ After(step) = "accounts")
    BY DEF After
  <2>3. CASE UNCHANGED boot
    <3>1. boot' = [at |-> boot.at, starts |-> boot.starts] /\ boot.at \in Steps
      BY <1>1, <2>3
    <3>2. QED
      BY <1>1, <1>2, <2>1, <3>1
  <2>4. CASE boot' = [boot EXCEPT !.at = After(step)]
    <3>1. boot' = [at |-> After(step), starts |-> boot.starts] /\ After(step) \in Steps /\ boot.starts \in Nat
      BY <1>1, <1>3, <2>2, <2>4 DEF Steps
    <3>2. QED
      BY <1>2, <2>1, <2>2, <3>1
  <2>5. QED
    BY <2>1, <2>3, <2>4
<1>8. CASE Define
  <2>1. PICK rows \in SetToSeqs(Orphans) : defined' = defined \o rows
    BY <1>8 DEF Define
  <2>2. /\ UNCHANGED <<attempts, old, chats>> /\ boot' = [at |-> "link", starts |-> boot.starts]
    BY <1>3, <1>8 DEF Define, OnTo
  <2>3. /\ IsFiniteSet(Orphans) /\ rows \in Seq(Tests)
        /\ \A x \in Orphans : \E i \in DOMAIN rows : rows[i] = x
    <3>1. IsFiniteSet(Orphans) /\ Orphans \subseteq Tests
      BY OrphansFinite
    <3>2. rows \in Seq(Orphans) /\ \A x \in Orphans : \E i \in DOMAIN rows : rows[i] = x
      BY <3>1, ListsAll
    <3>3. QED
      BY <3>1, <3>2
  <2>4. /\ defined' \in Seq(Tests) /\ Kinds' /\ Unlinked' = Unlinked
        /\ \A i \in DOMAIN rows : \E j \in DOMAIN defined' : defined'[j] = rows[i]
    BY <2>1, <2>2, <2>3, TestsAdded
  <2>5. Progress'
    <3>1. \A a \in Unlinked : \E i \in DOMAIN defined' : defined'[i] = attempts[a].of
      BY <2>3, <2>4 DEF Orphans
    <3>2. QED
      BY <2>2, <2>4, <3>1 DEF Progress
  <2>6. boot' \in [at : Steps, starts : Nat]
    BY <1>1, <2>2 DEF Steps
  <2>7. QED
    BY <1>1, <2>2, <2>4, <2>5, <2>6, ChatsKept DEF MigrationInv
<1>9. CASE Link
  BY <1>9, LinkStays
<1>10. CASE Serve
  BY <1>1, <1>2, <1>3, <1>10 DEF Serve, OnTo, At, Steps
<1>11. CASE CreateTest
  <2>1. PICK t \in Tests : defined' = Append(defined, t)
    BY <1>11 DEF CreateTest
  <2>2. boot.at = "up" /\ UNCHANGED <<attempts, old, chats, boot>>
    BY <1>11 DEF CreateTest, At
  <2>3. <<t>> \in Seq(Tests) /\ defined' = defined \o <<t>>
    BY <1>1, <2>1, AppendProperties
  <2>4. defined' \in Seq(Tests) /\ Kinds' /\ Unlinked' = Unlinked
    BY <2>2, <2>3, TestsAdded
  <2>5. Progress'
    BY <1>1, <2>2, <2>4 DEF Progress
  <2>6. QED
    BY <1>1, <2>2, <2>4, <2>5, ChatsKept DEF MigrationInv
<1>12. CASE Converse
  <2>1. UNCHANGED <<attempts, defined, old, boot>>
    BY <1>12 DEF Converse
  <2>2. PICK s \in Studies : \/ chats' = [chats EXCEPT ![s] = Append(chats[s], <<>>)]
                             \/ chats[s] # <<>> /\ chats' = [chats EXCEPT ![s] = Tail(chats[s])]
    BY <1>12 DEF Converse
  <2>3. chats[s] \in Seq(Carriable) /\ <<>> \in Carriable
    BY <1>1 DEF Carriable
  <2>4. /\ Append(chats[s], <<>>) \in Seq(Carriable)
        /\ chats[s] # <<>> => Tail(chats[s]) \in Seq(Carriable)
    BY <2>3, HeadTailProperties, AppendProperties
  <2>5. chats' \in [Studies -> Seq(Carriable)]' /\ CarriedOnce'
    <3>1. CASE chats' = [chats EXCEPT ![s] = Append(chats[s], <<>>)]
      BY <2>1, <2>4, <3>1, ChatsStay
    <3>2. CASE chats[s] # <<>> /\ chats' = [chats EXCEPT ![s] = Tail(chats[s])]
      BY <2>1, <2>4, <3>2, ChatsStay
    <3>3. QED
      BY <2>2, <3>1, <3>2
  <2>6. Kinds' /\ Progress'
    BY <1>1, <2>1 DEF Kinds, Progress, Unlinked
  <2>7. QED
    BY <1>1, <2>1, <2>5, <2>6 DEF MigrationInv
<1>13. CASE UNCHANGED migrationVars
  <2>1. UNCHANGED <<attempts, defined, old, chats, boot>>
    BY <1>13 DEF migrationVars
  <2>2. Kinds' /\ Progress'
    BY <1>1, <2>1 DEF Kinds, Progress, Unlinked
  <2>3. QED
    BY <1>1, <2>1, <2>2, ChatsKept DEF MigrationInv
<1>14. QED
  BY <1>4, <1>5, <1>6, <1>7, <1>8, <1>9, <1>10, <1>11, <1>12, <1>13 DEF MigrationsNext

LEMMA MigrationBegins == MigrationsInit => MigrationInv
<1> SUFFICES ASSUME MigrationsInit PROVE MigrationInv
  OBVIOUS
<1>1. attempts \in [Attempts -> [of : Tests, test : {0}]]
  BY DEF MigrationsInit
<1>2. attempts \in [Attempts -> [of : Tests, test : Nat]] /\ Unlinked = Attempts
  BY <1>1 DEF Unlinked
<1>3. defined \in Seq(Tests)
  <2>1. <<>> \in Seq(Tests) /\ \A t \in Tests : <<t>> \in Seq(Tests)
    OBVIOUS
  <2>2. QED
    BY <2>1 DEF MigrationsInit
<1>4. chats \in [Studies -> Seq(Carriable)] /\ \A s \in Studies : chats[s] = <<>>
  <2>1. <<>> \in Seq(Carriable)
    OBVIOUS
  <2>2. QED
    BY <2>1 DEF MigrationsInit
<1>5. boot \in [at : Steps, starts : Nat] /\ boot.at = "off"
  BY DEF MigrationsInit, Steps
<1>6. CarriedOnce
  <2>1. DOMAIN <<>> = {}
    OBVIOUS
  <2>2. QED
    BY <1>4, <2>1 DEF CarriedOnce
<1>7. QED
  BY <1>2, <1>3, <1>4, <1>5, <1>6 DEF MigrationInv, Kinds, Progress

\* The chats of a study its learner has not touched: none yet, or the conversation of old.
Untouched(s) ==
    /\ chats[s] = <<>> \/ (Carried(s) # <<>> /\ chats[s] = <<Carried(s)>>)
    /\ boot.at \notin {"off", "chats"} /\ Carried(s) # <<>> => chats[s] # <<>>

CarryInv == \A s \in Studies \ touched : Untouched(s)

LEMMA CarryStays ==
    ASSUME MigrationInv, CarryInv, [MigrationsNext]_migrationVars
    PROVE  CarryInv'
<1>1. chats \in [Studies -> Seq(Carriable)] /\ boot \in [at : Steps, starts : Nat]
  BY DEF MigrationInv
<1>2. UNCHANGED old /\ \A s \in Studies : Carried(s)' = Carried(s)
  BY DEF MigrationsNext, Start, Die, CarryOver, AddColumns, Define, Link, Serve, CreateTest, Converse,
         migrationVars, Carried
\* Most steps touch no chat, and lead past the step that carries over from there only.
<1>3. ASSUME UNCHANGED <<chats, touched>>, boot'.at \in {"off", "chats"} \/ boot.at \notin {"off", "chats"}
      PROVE  CarryInv'
  BY <1>2, <1>3 DEF CarryInv, Untouched
<1>4. CASE Start \/ Die \/ Serve \/ Define \/ Link \/ CreateTest \/ UNCHANGED migrationVars
  <2>1. UNCHANGED <<chats, touched>>
    BY <1>4 DEF Start, Die, Serve, Define, Link, CreateTest, migrationVars
  <2>2. boot'.at \in {"off", "chats"} \/ boot.at \notin {"off", "chats"}
    BY <1>1, <1>4 DEF Start, Die, Serve, Define, Link, CreateTest, migrationVars, At, OnTo
  <2>3. QED
    BY <1>3, <2>1, <2>2
<1>5. CASE AddColumns
  BY <1>3, <1>5 DEF AddColumns, At, Adds
\* The step ends when no conversation is left, and takes them up one by one.
<1>6. CASE CarryOver
  <2>1. CASE Pending = {}
    <3>1. UNCHANGED <<chats, touched>> /\ \A s \in Studies : Carried(s) # <<>> => chats[s] # <<>>
      BY <1>6, <2>1 DEF CarryOver, Pending
    <3>2. QED
      BY <1>2, <3>1 DEF CarryInv, Untouched
  <2>2. CASE Pending # {}
    <3>1. PICK s \in Pending : chats' = [chats EXCEPT ![s] = <<Carried(s)>>]
      BY <1>6, <2>2 DEF CarryOver
    <3>2. UNCHANGED <<boot, touched>> /\ s \in Studies /\ Carried(s) # <<>> /\ <<Carried(s)>> # <<>>
      BY <1>6, <2>2 DEF CarryOver, Pending
    <3>3. chats'[s] = <<Carried(s)>> /\ \A t \in Studies \ {s} : chats'[t] = chats[t]
      BY <1>1, <3>1, <3>2
    <3>4. QED
      BY <1>2, <3>2, <3>3 DEF CarryInv, Untouched
  <2>3. QED
    BY <2>1, <2>2
<1>7. CASE Converse
  <2>1. PICK s \in Studies : /\ touched' = touched \cup {s}
                             /\ \A t \in Studies \ {s} : chats'[t] = chats[t]
    BY <1>1, <1>7 DEF Converse
  <2>2. UNCHANGED boot
    BY <1>7 DEF Converse
  <2>3. QED
    BY <1>2, <2>1, <2>2 DEF CarryInv, Untouched
<1>8. QED
  BY <1>4, <1>5, <1>6, <1>7 DEF MigrationsNext

\* A start that serves has gathered every attempt of old under a test of its kind and has
\* carried every conversation of old over into the chat of its study, if its learner has
\* not touched the chats since; and no conversation is carried over next to the chat made
\* of it before, however often starts were cut short (db.Migrate).
THEOREM MigrationFinished == Spec => []Migrated
<1>1. Init => MigrationInv /\ CarryInv
  BY MigrationBegins DEF Init, MigrationsInit, CarryInv, Untouched
<1>2. MigrationInv /\ CarryInv /\ [Next]_serverVars => MigrationInv' /\ CarryInv'
  <2>1. [Next]_serverVars => [MigrationsNext]_migrationVars
    BY DEF Next, serverVars
  <2>2. QED
    BY <2>1, MigrationStays, CarryStays
<1>3. MigrationInv /\ CarryInv => Migrated
  <2> SUFFICES ASSUME MigrationInv, CarryInv PROVE Migrated
    OBVIOUS
  <2>1. ASSUME At("up") PROVE Gathered
    <3>1. Unlinked = {} /\ Kinds
      BY <2>1 DEF MigrationInv, Progress, At
    <3>2. \A a \in Attempts : attempts[a].test # 0
      BY <3>1 DEF Unlinked
    <3>3. QED
      BY <3>1, <3>2 DEF Kinds, Gathered
  <2>2. CarriedOver
    BY DEF CarryInv, Untouched, CarriedOver
  <2>3. QED
    BY <2>1, <2>2 DEF MigrationInv, Migrated
<1>4. QED
  BY <1>1, <1>2, <1>3, PTL DEF Spec

-----------------------------------------------------------------------------
(* Sums over finite sets *)

\* A family of subsets of a finite set has one from which nothing can be taken.
LEMMA LeastSet ==
    ASSUME NEW S, IsFiniteSet(S), NEW Family \in SUBSET SUBSET S, Family # {}
    PROVE  \E T \in Family : \A x \in T : T \ {x} \notin Family
<1> DEFINE Sizes == {Cardinality(T) : T \in Family}
<1>1. \A T \in SUBSET S : IsFiniteSet(T) /\ Cardinality(T) \in Nat
  BY FS_Subset, FS_CardinalityType
<1>2. Sizes \in SUBSET Nat /\ Sizes # {}
  BY <1>1
<1> HIDE DEF Sizes
<1>3. PICK n \in Sizes : \A k \in Sizes : n <= k
  BY <1>2, LeastIn
<1> USE DEF Sizes
<1>4. PICK T \in Family : Cardinality(T) = n
  OBVIOUS
<1>5. ASSUME NEW x \in T PROVE T \ {x} \notin Family
  <2>1. Cardinality(T \ {x}) = Cardinality(T) - 1
    BY <1>1, FS_RemoveElement
  <2>2. T \ {x} \in Family => n <= Cardinality(T) - 1
    BY <1>3, <2>1
  <2>3. QED
    BY <1>1, <1>4, <2>2
<1>6. QED
  BY <1>4, <1>5

FirstOf(T) == CHOOSE x \in T : TRUE

\* What a sum is of every part of a set.
Sums(h, f, S) ==
    \A T \in SUBSET S : h[T] = IF T = {} THEN 0 ELSE f[FirstOf(T)] + h[T \ {FirstOf(T)}]

IsSum(h, f, S) == h \in [SUBSET S -> Nat] /\ Sums(h, f, S)

LEMMA FirstOfIn ==
    \A T : T # {} => FirstOf(T) \in T
BY DEF FirstOf

LEMMA SumExists ==
    ASSUME NEW S, IsFiniteSet(S), NEW f, \A x \in S : f[x] \in Nat
    PROVE  \E h : IsSum(h, f, S)
<1> DEFINE X == [SUBSET S -> Nat]
           One(h) == [T \in SUBSET S |-> IF T = {} THEN 0 ELSE f[FirstOf(T)] + h[T \ {FirstOf(T)}]]
           N == Cardinality(S)
           b == [T \in SUBSET S |-> 0]
           step == [n \in 1..N |-> [h \in X |-> One(h)]]
<1>1. \A T \in SUBSET S : IsFiniteSet(T) /\ Cardinality(T) \in 0..N
  BY FS_Subset, FS_CardinalityType
<1>2. N \in Nat /\ b \in X
  BY FS_CardinalityType
<1>3. ASSUME NEW h \in X PROVE One(h) \in X
  <2>1. ASSUME NEW T \in SUBSET S, T # {} PROVE f[FirstOf(T)] + h[T \ {FirstOf(T)}] \in Nat
    <3>1. FirstOf(T) \in S /\ T \ {FirstOf(T)} \in SUBSET S
      BY <2>1, FirstOfIn
    <3>2. f[FirstOf(T)] \in Nat /\ h[T \ {FirstOf(T)}] \in Nat
      BY <3>1
    <3>3. QED
      BY <3>2
  <2>2. QED
    BY <2>1
<1>4. step \in [1..N -> [X -> X]]
  BY <1>3
<1> HIDE DEF X, N, b, step
<1>5. HasSteps(N, X, b, step)
  BY <1>2, <1>4, StepsExist
<1>6. PICK g \in [0..N -> X] : g[0] = b /\ \A n \in 1..N : g[n] = step[n][g[n - 1]]
  BY <1>5 DEF HasSteps
<1> USE DEF X, b, step
<1> DEFINE h == [T \in SUBSET S |-> g[Cardinality(T)][T]]
<1>7. h \in [SUBSET S -> Nat]
  BY <1>1
<1>8. ASSUME NEW T \in SUBSET S, T # {}
      PROVE  h[T] = f[FirstOf(T)] + h[T \ {FirstOf(T)}]
  <2> DEFINE n == Cardinality(T)
             U == T \ {FirstOf(T)}
  <2>1. FirstOf(T) \in T /\ U \in SUBSET S
    BY <1>8, FirstOfIn
  <2>2. Cardinality(U) = n - 1
    BY <1>1, <2>1, FS_RemoveElement
  <2>3. n # 0
    BY <1>1, <1>8, FS_EmptySet
  <2>4. n \in 1..N /\ n - 1 \in 0..N
    BY <1>1, <1>2, <2>3
  <2>5. g[n - 1] \in X
    BY <2>4
  <2>6. g[n] = One(g[n - 1])
    BY <1>6, <2>4, <2>5
  <2> HIDE DEF n
  <2>7. g[n][T] = f[FirstOf(T)] + g[n - 1][U]
    BY <1>8, <2>6
  <2> USE DEF n
  <2>8. QED
    BY <2>1, <2>2, <2>7
<1>9. h[{}] = 0
  <2>1. Cardinality({}) = 0 /\ {} \in SUBSET S
    BY FS_EmptySet
  <2>2. QED
    BY <1>6, <2>1
<1> HIDE DEF h
<1>10. IsSum(h, f, S)
  BY <1>7, <1>8, <1>9 DEF IsSum, Sums
<1>11. QED
  BY <1>10

LEMMA SumsAgree ==
    ASSUME NEW S, IsFiniteSet(S), NEW T \in SUBSET S, NEW f,
           NEW h, Sums(h, f, S), NEW k, Sums(k, f, T)
    PROVE  \A U \in SUBSET T : h[U] = k[U]
<1> DEFINE Bad == {U \in SUBSET T : h[U] # k[U]}
<1>1. SUFFICES ASSUME Bad # {} PROVE FALSE
  OBVIOUS
<1>2. Bad \in SUBSET SUBSET T /\ IsFiniteSet(T)
  BY FS_Subset
<1> HIDE DEF Bad
<1>3. PICK U \in Bad : \A x \in U : U \ {x} \notin Bad
  BY <1>1, <1>2, LeastSet
<1> USE DEF Bad
<1>4. U \in SUBSET S /\ U \in SUBSET T
  OBVIOUS
<1>5. CASE U = {}
  BY <1>4, <1>5 DEF Sums
<1>6. CASE U # {}
  <2>1. FirstOf(U) \in U
    BY <1>6, FirstOfIn
  <2>2. h[U \ {FirstOf(U)}] = k[U \ {FirstOf(U)}]
    BY <1>3, <1>4, <2>1
  <2>3. /\ h[U] = f[FirstOf(U)] + h[U \ {FirstOf(U)}]
        /\ k[U] = f[FirstOf(U)] + k[U \ {FirstOf(U)}]
    BY <1>4, <1>6 DEF Sums
  <2>4. QED
    BY <2>2, <2>3
<1>7. QED
  BY <1>5, <1>6

\* What SumFunctionOnSet computes.
LEMMA SumIs ==
    ASSUME NEW S, IsFiniteSet(S), NEW f, \A x \in S : f[x] \in Nat
    PROVE  \E h : IsSum(h, f, S) /\ SumFunctionOnSet(f, S) = h[S]
<1> DEFINE iter[s \in SUBSET S] == IF s = {} THEN 0 ELSE LET x == CHOOSE y \in s : TRUE IN f[x] + iter[s \ {x}]
<1>1. SumFunctionOnSet(f, S) = iter[S]
  BY DEF SumFunctionOnSet, FoldFunctionOnSet, MapThenFoldSet
<1>2. PICK h : IsSum(h, f, S)
  BY SumExists
<1>3. h = [s \in SUBSET S |-> IF s = {} THEN 0 ELSE LET x == CHOOSE y \in s : TRUE IN f[x] + h[s \ {x}]]
  BY <1>2 DEF IsSum, Sums, FirstOf
<1>4. iter = [s \in SUBSET S |-> IF s = {} THEN 0 ELSE LET x == CHOOSE y \in s : TRUE IN f[x] + iter[s \ {x}]]
  BY <1>3 DEF iter
<1> HIDE DEF iter
<1>5. Sums(iter, f, S)
  BY <1>4 DEF Sums, FirstOf
<1>6. iter[S] = h[S]
  BY <1>2, <1>5, SumsAgree DEF IsSum
<1>7. QED
  BY <1>1, <1>2, <1>6

\* And the same of every part.
LEMMA SumParts ==
    ASSUME NEW S, IsFiniteSet(S), NEW f, \A x \in S : f[x] \in Nat
    PROVE  /\ \A T \in SUBSET S : SumFunctionOnSet(f, T) \in Nat
           /\ SumFunctionOnSet(f, {}) = 0
           /\ \A T \in SUBSET S : T # {} =>
                 SumFunctionOnSet(f, T) = f[FirstOf(T)] + SumFunctionOnSet(f, T \ {FirstOf(T)})
<1>1. PICK h : IsSum(h, f, S)
  BY SumExists
<1>2. ASSUME NEW T \in SUBSET S PROVE SumFunctionOnSet(f, T) = h[T]
  <2>1. IsFiniteSet(T) /\ \A x \in T : f[x] \in Nat
    BY FS_Subset
  <2>2. PICK k : IsSum(k, f, T) /\ SumFunctionOnSet(f, T) = k[T]
    BY <2>1, SumIs
  <2>3. Sums(h, f, S) /\ Sums(k, f, T)
    BY <1>1, <2>2 DEF IsSum
  <2>4. h[T] = k[T]
    BY <2>3, SumsAgree
  <2>5. QED
    BY <2>2, <2>4
<1>3. ASSUME NEW T \in SUBSET S, T # {}
      PROVE  SumFunctionOnSet(f, T) = f[FirstOf(T)] + SumFunctionOnSet(f, T \ {FirstOf(T)})
  <2>1. h[T] = f[FirstOf(T)] + h[T \ {FirstOf(T)}]
    BY <1>1, <1>3 DEF IsSum, Sums
  <2>2. QED
    BY <1>2, <2>1
<1>4. h[{}] = 0
  BY <1>1 DEF IsSum, Sums
<1>5. QED
  BY <1>1, <1>2, <1>3, <1>4 DEF IsSum

\* One element apart.
LEMMA SumApart ==
    ASSUME NEW S, IsFiniteSet(S), NEW f, \A x \in S : f[x] \in Nat, NEW x \in S
    PROVE  SumFunctionOnSet(f, S) = f[x] + SumFunctionOnSet(f, S \ {x})
<1> DEFINE Sum(T) == SumFunctionOnSet(f, T)
           Bad    == {T \in SUBSET S : \E y \in T : Sum(T) # f[y] + Sum(T \ {y})}
<1> HIDE DEF Sum
<1>1. \A T \in SUBSET S : Sum(T) \in Nat
  BY SumParts DEF Sum
<1>2. ASSUME NEW T \in SUBSET S, T # {} PROVE Sum(T) = f[FirstOf(T)] + Sum(T \ {FirstOf(T)})
  BY <1>2, SumParts DEF Sum
<1>3. Bad = {}
  <2> SUFFICES ASSUME Bad # {} PROVE FALSE
    OBVIOUS
  <2>1. Bad \in SUBSET SUBSET S
    OBVIOUS
  <2> HIDE DEF Bad
  <2>2. PICK T \in Bad : \A y \in T : T \ {y} \notin Bad
    BY <2>1, LeastSet
  <2> USE DEF Bad
  <2>3. PICK y \in T : Sum(T) # f[y] + Sum(T \ {y})
    OBVIOUS
  <2> DEFINE z == FirstOf(T)
  <2>4. T \in SUBSET S /\ z \in T
    BY <2>3, FirstOfIn
  <2>5. Sum(T) = f[z] + Sum(T \ {z})
    BY <1>2, <2>3, <2>4
  <2> HIDE DEF z
  <2>6. y # z
    BY <2>3, <2>5
  <2>7. Sum(T \ {z}) = f[y] + Sum((T \ {z}) \ {y})
    BY <2>2, <2>4, <2>6
  <2>8. Sum(T \ {y}) = f[z] + Sum((T \ {y}) \ {z})
    BY <2>2, <2>4, <2>6
  <2>9. (T \ {z}) \ {y} = (T \ {y}) \ {z}
    OBVIOUS
  <2>10. f[y] \in Nat /\ f[z] \in Nat /\ Sum((T \ {z}) \ {y}) \in Nat
    BY <1>1, <2>4
  <2>11. QED
    BY <2>3, <2>5, <2>7, <2>8, <2>9, <2>10
<1>4. Sum(S) = f[x] + Sum(S \ {x})
  BY <1>3
<1>5. QED
  BY <1>4 DEF Sum

LEMMA SumType ==
    ASSUME NEW S, IsFiniteSet(S), NEW f, \A x \in S : f[x] \in Nat
    PROVE  SumFunctionOnSet(f, S) \in Nat /\ SumFunctionOnSet(f, {}) = 0
BY SumParts

LEMMA SumEqual ==
    ASSUME NEW S, IsFiniteSet(S), NEW f, \A x \in S : f[x] \in Nat,
           NEW g, \A x \in S : g[x] = f[x]
    PROVE  SumFunctionOnSet(g, S) = SumFunctionOnSet(f, S)
<1>1. \A x \in S : g[x] \in Nat
  OBVIOUS
<1>2. PICK h : IsSum(h, f, S) /\ SumFunctionOnSet(f, S) = h[S]
  BY SumIs
<1>3. PICK k : IsSum(k, g, S) /\ SumFunctionOnSet(g, S) = k[S]
  BY <1>1, SumIs
<1>4. ASSUME NEW T \in SUBSET S PROVE k[T] = IF T = {} THEN 0 ELSE f[FirstOf(T)] + k[T \ {FirstOf(T)}]
  <2>1. T # {} => FirstOf(T) \in S
    BY FirstOfIn
  <2>2. k[T] = IF T = {} THEN 0 ELSE g[FirstOf(T)] + k[T \ {FirstOf(T)}]
    BY <1>3 DEF IsSum, Sums
  <2>3. QED
    BY <2>1, <2>2
<1>5. Sums(k, f, S) /\ Sums(h, f, S)
  BY <1>2, <1>4 DEF IsSum, Sums
<1>6. k[S] = h[S]
  BY <1>5, SumsAgree
<1>7. QED
  BY <1>2, <1>3, <1>6

\* A change at one place.
LEMMA SumChanged ==
    ASSUME NEW S, IsFiniteSet(S), NEW f, \A y \in S : f[y] \in Nat,
           NEW x \in S, NEW g, g[x] \in Nat, \A y \in S \ {x} : g[y] = f[y]
    PROVE  SumFunctionOnSet(g, S) + f[x] = SumFunctionOnSet(f, S) + g[x]
<1>1. IsFiniteSet(S \ {x}) /\ \A y \in S : g[y] \in Nat
  BY FS_RemoveElement
<1>2. /\ SumFunctionOnSet(f, S) = f[x] + SumFunctionOnSet(f, S \ {x})
      /\ SumFunctionOnSet(g, S) = g[x] + SumFunctionOnSet(g, S \ {x})
  BY <1>1, SumApart
<1>3. \A y \in S \ {x} : f[y] \in Nat
  OBVIOUS
<1>4. SumFunctionOnSet(g, S \ {x}) = SumFunctionOnSet(f, S \ {x})
  BY <1>1, <1>3, SumEqual
<1>5. SumFunctionOnSet(f, S \ {x}) \in Nat
  BY <1>1, <1>3, SumType
<1>6. QED
  BY <1>2, <1>4, <1>5

LEMMA TimesPlus ==
    \A a, b, c \in Nat : a * (b + c) = a * b + a * c /\ a * b \in Nat
BY SMT

\* What holds of each term holds of the sum.
LEMMA SumAtLeast ==
    ASSUME NEW S, IsFiniteSet(S), NEW f, \A x \in S : f[x] \in Nat,
           NEW g, \A x \in S : g[x] \in Nat,
           NEW c \in Nat, \A x \in S : c * g[x] <= f[x]
    PROVE  c * SumFunctionOnSet(g, S) <= SumFunctionOnSet(f, S)
<1> DEFINE F(T) == SumFunctionOnSet(f, T)
           G(T) == SumFunctionOnSet(g, T)
           Bad  == {T \in SUBSET S : ~ (c * G(T) <= F(T))}
<1> HIDE DEF F, G
<1>1. Bad = {}
  <2> SUFFICES ASSUME Bad # {} PROVE FALSE
    OBVIOUS
  <2>1. Bad \in SUBSET SUBSET S
    OBVIOUS
  <2> HIDE DEF Bad
  <2>2. PICK T \in Bad : \A x \in T : T \ {x} \notin Bad
    BY <2>1, LeastSet
  <2> USE DEF Bad
  <2>3. T \in SUBSET S /\ IsFiniteSet(T) /\ ~ (c * G(T) <= F(T))
    BY FS_Subset
  <2>4. CASE T = {}
    <3>1. F(T) = 0 /\ G(T) = 0
      BY <2>4, SumType DEF F, G
    <3>2. QED
      BY <2>3, <3>1
  <2>5. CASE T # {}
    <3>1. PICK x \in T : TRUE
      BY <2>5
    <3>2. F(T) = f[x] + F(T \ {x}) /\ G(T) = g[x] + G(T \ {x})
      BY <2>3, <3>1, SumApart DEF F, G
    <3>3. c * G(T \ {x}) <= F(T \ {x})
      BY <2>2, <2>3, <3>1
    <3>4. IsFiniteSet(T \ {x}) /\ \A y \in T \ {x} : f[y] \in Nat /\ g[y] \in Nat
      BY <2>3, FS_RemoveElement
    <3>5. F(T \ {x}) \in Nat /\ G(T \ {x}) \in Nat
      BY <3>4, SumType DEF F, G
    <3>6. x \in S /\ f[x] \in Nat /\ g[x] \in Nat /\ c * g[x] <= f[x]
      BY <2>3, <3>1
    <3>7. c * G(T) = c * g[x] + c * G(T \ {x}) /\ c * g[x] \in Nat /\ c * G(T \ {x}) \in Nat
      BY <3>2, <3>5, <3>6, TimesPlus
    <3>8. c * G(T) <= F(T)
      BY <3>2, <3>3, <3>5, <3>6, <3>7
    <3>9. QED
      BY <2>3, <3>8
  <2>6. QED
    BY <2>4, <2>5
<1>2. c * G(S) <= F(S)
  BY <1>1
<1>3. QED
  BY <1>2 DEF F, G

\* What is nothing adds nothing.
LEMMA SumWithin ==
    ASSUME NEW S, IsFiniteSet(S), NEW f, \A x \in S : f[x] \in Nat,
           NEW T \in SUBSET S, \A x \in S \ T : f[x] = 0
    PROVE  SumFunctionOnSet(f, S) = SumFunctionOnSet(f, T)
<1> DEFINE F(U) == SumFunctionOnSet(f, U)
           Bad  == {U \in SUBSET S : T \subseteq U /\ F(U) # F(T)}
<1> HIDE DEF F
<1>1. Bad = {}
  <2> SUFFICES ASSUME Bad # {} PROVE FALSE
    OBVIOUS
  <2>1. Bad \in SUBSET SUBSET S
    OBVIOUS
  <2> HIDE DEF Bad
  <2>2. PICK U \in Bad : \A x \in U : U \ {x} \notin Bad
    BY <2>1, LeastSet
  <2> USE DEF Bad
  <2>3. PICK x \in U : x \notin T
    OBVIOUS
  <2>4. U \in SUBSET S /\ IsFiniteSet(U) /\ f[x] = 0 /\ T \subseteq U \ {x}
    BY <2>3, FS_Subset
  <2>5. F(U) = f[x] + F(U \ {x})
    BY <2>3, <2>4, SumApart DEF F
  <2>6. IsFiniteSet(U \ {x}) /\ \A y \in U \ {x} : f[y] \in Nat
    BY <2>4, FS_RemoveElement
  <2>7. F(U \ {x}) \in Nat
    BY <2>6, SumType DEF F
  <2>8. F(U) = F(U \ {x})
    BY <2>4, <2>5, <2>7
  <2>9. F(U \ {x}) = F(T)
    BY <2>2, <2>3, <2>4
  <2>10. QED
    BY <2>8, <2>9
<1>2. F(S) = F(T)
  BY <1>1
<1>3. QED
  BY <1>2 DEF F

\* The sum of the sums over the classes of a partition.
LEMMA SumOfClasses ==
    ASSUME NEW S, IsFiniteSet(S), NEW f, \A x \in S : f[x] \in Nat,
           NEW M, IsFiniteSet(M), NEW class \in [S -> M]
    PROVE  SumFunctionOnSet([m \in M |-> SumFunctionOnSet(f, {x \in S : class[x] = m})], M)
              = SumFunctionOnSet(f, S)
<1> DEFINE F(T)    == SumFunctionOnSet(f, T)
           Class(T, m) == {x \in T : class[x] = m}
           G(T)    == [m \in M |-> F(Class(T, m))]
           Good(T) == SumFunctionOnSet(G(T), M) = F(T)
           Bad     == {T \in SUBSET S : ~Good(T)}
<1> HIDE DEF F
<1>1. ASSUME NEW T \in SUBSET S PROVE /\ IsFiniteSet(T) /\ F(T) \in Nat
                                      /\ \A m \in M : G(T)[m] \in Nat
  <2>1. \A U \in SUBSET S : F(U) \in Nat
    BY SumParts DEF F
  <2>2. QED
    BY <2>1, FS_Subset
<1>2. Good({})
  <2>1. F({}) = 0
    BY SumType DEF F
  <2>2. \A m \in M : G({})[m] = 0
    BY <2>1
  <2> HIDE DEF G
  <2>3. SumFunctionOnSet(G({}), M) = SumFunctionOnSet(G({}), {}) /\ SumFunctionOnSet(G({}), {}) = 0
    BY <2>2, SumWithin, SumType
  <2>4. QED
    BY <2>1, <2>3
<1>3. ASSUME NEW T \in SUBSET S, NEW x \in T, Good(T \ {x}) PROVE Good(T)
  <2> DEFINE U == T \ {x}
             k == class[x]
  <2>1. k \in M /\ U \in SUBSET S /\ x \in S
    OBVIOUS
  <2>2. F(T) = f[x] + F(U)
    BY <1>1, SumApart DEF F
  <2>3. \A m \in M \ {k} : Class(T, m) = Class(U, m)
    OBVIOUS
  <2>4. Class(T, k) \in SUBSET S /\ x \in Class(T, k) /\ Class(T, k) \ {x} = Class(U, k)
    OBVIOUS
  <2>5. F(Class(T, k)) = f[x] + F(Class(U, k))
    <3> HIDE DEF Class
    <3>1. IsFiniteSet(Class(T, k)) /\ \A y \in Class(T, k) : f[y] \in Nat
      BY <1>1, <2>4
    <3>2. F(Class(T, k)) = f[x] + F(Class(T, k) \ {x})
      BY <2>4, <3>1, SumApart DEF F
    <3>3. QED
      BY <2>4, <3>2
  <2>6. /\ \A m \in M \ {k} : G(T)[m] = G(U)[m]
        /\ G(T)[k] = f[x] + G(U)[k]
    BY <2>1, <2>3, <2>5
  <2>7. (\A m \in M : G(U)[m] \in Nat) /\ G(T)[k] \in Nat /\ f[x] \in Nat /\ F(U) \in Nat
    BY <1>1, <2>1
  <2>8. SumFunctionOnSet(G(U), M) = F(U)
    BY <1>3
  <2> HIDE DEF G, U, k
  <2>9. SumFunctionOnSet(G(T), M) + G(U)[k] = SumFunctionOnSet(G(U), M) + G(T)[k]
    BY <2>1, <2>6, <2>7, SumChanged
  <2>10. SumFunctionOnSet(G(T), M) \in Nat
    <3>1. \A m \in M : G(T)[m] \in Nat
      BY <1>1 DEF G
    <3>2. QED
      BY <3>1, SumType
  <2>11. SumFunctionOnSet(G(T), M) = f[x] + F(U)
    BY <2>1, <2>6, <2>7, <2>8, <2>9, <2>10
  <2>12. QED
    BY <2>2, <2>11
<1> HIDE DEF Good
<1>4. Bad = {}
  <2> SUFFICES ASSUME Bad # {} PROVE FALSE
    OBVIOUS
  <2>1. Bad \in SUBSET SUBSET S
    OBVIOUS
  <2> HIDE DEF Bad
  <2>2. PICK T \in Bad : \A x \in T : T \ {x} \notin Bad
    BY <2>1, LeastSet
  <2> USE DEF Bad
  <2>3. T \in SUBSET S /\ ~Good(T)
    OBVIOUS
  <2>4. PICK x \in T : TRUE
    BY <1>2, <2>3
  <2>5. Good(T \ {x})
    BY <2>2, <2>3, <2>4
  <2>6. QED
    BY <1>3, <2>3, <2>4, <2>5
<1>5. Good(S)
  BY <1>4
<1>6. QED
  BY <1>5 DEF Good, F

-----------------------------------------------------------------------------
(* The counters of a learner *)

IsTable(B, X) == IsABag(B) /\ IsFiniteSet(DOMAIN B) /\ DOMAIN B \subseteq X

Added(B, e) == B (+) SetToBag({e})

\* A row is added.
LEMMA TableAdds ==
    ASSUME NEW B, NEW X, IsTable(B, X), NEW e \in X
    PROVE  /\ IsTable(Added(B, e), X) /\ DOMAIN Added(B, e) = DOMAIN B \cup {e}
           /\ \A r \in DOMAIN B \ {e} : Added(B, e)[r] = B[r]
           /\ Added(B, e)[e] = IF e \in DOMAIN B THEN B[e] + 1 ELSE 1
           /\ \A r \in DOMAIN B : B[r] \in Nat
<1> DEFINE C == Added(B, e)
<1>1. C = [r \in DOMAIN B \cup {e} |-> (IF r \in DOMAIN B THEN B[r] ELSE 0) + (IF r \in {e} THEN 1 ELSE 0)]
  BY DEF Added, (+), SetToBag
<1>2. \A r \in DOMAIN B : B[r] \in Nat /\ B[r] > 0
  BY DEF IsTable, IsABag
<1>3. DOMAIN C = DOMAIN B \cup {e}
  BY <1>1
<1> HIDE DEF C
<1> DEFINE had(r) == IF r \in DOMAIN B THEN B[r] ELSE 0
           one(r) == IF r \in {e} THEN 1 ELSE 0
<1>counts. \A r \in DOMAIN B \cup {e} : C[r] = had(r) + one(r)
  BY <1>1
<1>4. ASSUME NEW r \in DOMAIN B \ {e} PROVE C[r] = B[r]
  <2>1. had(r) = B[r] /\ one(r) = 0 /\ C[r] = had(r) + one(r)
    BY <1>counts
  <2>2. B[r] \in Nat
    BY <1>2
  <2> HIDE DEF had, one
  <2>3. QED
    BY <2>1, <2>2
<1>5. C[e] = IF e \in DOMAIN B THEN B[e] + 1 ELSE 1
  <2>1. one(e) = 1 /\ C[e] = had(e) + one(e) /\ had(e) = IF e \in DOMAIN B THEN B[e] ELSE 0
    BY <1>counts
  <2> HIDE DEF had, one
  <2>2. QED
    BY <1>2, <2>1
<1>6. \A r \in DOMAIN C : C[r] \in {n \in Nat : n > 0}
  BY <1>2, <1>3, <1>4, <1>5
<1>7. C \in [DOMAIN C -> {n \in Nat : n > 0}]
  BY <1>1, <1>3, <1>6
<1>8. IsFiniteSet(DOMAIN C)
  BY <1>3, FS_AddElement DEF IsTable
<1>9. QED
  BY <1>2, <1>3, <1>4, <1>5, <1>7, <1>8 DEF IsTable, IsABag, C

LEMMA TableWithout ==
    ASSUME NEW B, NEW X, IsTable(B, X), NEW l
    PROVE  /\ IsTable(Without(B, l), X) /\ \A r \in DOMAIN Without(B, l) : r.user # l
           /\ DOMAIN Without(B, l) \subseteq DOMAIN B
           /\ \A k, p : k # l => Rows(Without(B, l), k, p) = Rows(B, k, p)
<1> DEFINE D == {r \in DOMAIN B : r.user # l}
           W == Without(B, l)
<1>1. W = [r \in D |-> B[r]] /\ D \in SUBSET DOMAIN B
  BY DEF Without
<1>2. IsFiniteSet(D) /\ W \in [D -> {n \in Nat : n > 0}]
  BY <1>1, FS_Subset DEF IsTable, IsABag
<1>3. ASSUME NEW k, NEW p, k # l PROVE Rows(W, k, p) = Rows(B, k, p)
  <2>1. {r \in D : r.user = k /\ In(r, p)} = {r \in DOMAIN B : r.user = k /\ In(r, p)}
    BY <1>3
  <2> HIDE DEF W
  <2>2. \A r \in {r \in D : r.user = k /\ In(r, p)} : W[r] = B[r]
    BY <1>1
  <2>3. DOMAIN W = D
    BY <1>1
  <2>4. QED
    BY <2>1, <2>2, <2>3 DEF Rows
<1>4. DOMAIN W = D
  BY <1>1
<1>5. IsTable(W, X)
  BY <1>1, <1>2, <1>4 DEF IsTable, IsABag
<1>6. QED
  BY <1>1, <1>3, <1>4, <1>5

\* The rows of a learner, and what a bag of rows weighs.
Part(B, l, p)   == {r \in DOMAIN B : r.user = l /\ In(r, p)}
TokensIn(B, R)  == SumFunctionOnSet([r \in R |-> r.tokens * B[r]], R)

LEMMA TokensOfRows ==
    ASSUME NEW B, NEW l, NEW p
    PROVE  Tokens(Rows(B, l, p)) = TokensIn(B, Part(B, l, p))
<1> DEFINE R == Part(B, l, p)
           F == Rows(B, l, p)
<1>1. F = [r \in R |-> B[r]]
  BY DEF Rows, Part
<1> HIDE DEF F, R
<1>2. DOMAIN F = R /\ \A r \in R : F[r] = B[r]
  BY <1>1
<1>3. [r \in DOMAIN F |-> r.tokens * F[r]] = [r \in R |-> r.tokens * B[r]]
  BY <1>2
<1>4. DOMAIN [r \in R |-> r.tokens * B[r]] = R
  OBVIOUS
<1>5. Tokens(F) = TokensIn(B, R)
  BY <1>3, <1>4, Zenon DEF Tokens, TokensIn, SumFunction
<1>6. QED
  BY <1>5 DEF F, R

LogRows == [user : Learners, tokens : Calls, at : 0..MaxToday]

Spent(B, l) == Tokens(Rows(B, l, AllTime))

LEMMA InAllTime == \A row : In(row, AllTime)
BY DEF In

LEMMA SpentType ==
    ASSUME NEW B, IsTable(B, LogRows), NEW l
    PROVE  Spent(B, l) \in Nat
<1> DEFINE R == Part(B, l, AllTime)
           f == [r \in R |-> r.tokens * B[r]]
<1>1. Calls \subseteq Nat /\ R \in SUBSET DOMAIN B
  BY StandingsAssumption DEF Part
<1>2. IsFiniteSet(R)
  BY <1>1, FS_Subset DEF IsTable
<1>3. ASSUME NEW r \in R PROVE f[r] \in Nat
  <2>1. r.tokens \in Nat /\ B[r] \in Nat
    BY <1>1 DEF IsTable, IsABag, LogRows
  <2>2. QED
    BY <2>1, TimesPlus
<1> HIDE DEF f, R
<1>4. SumFunctionOnSet(f, R) \in Nat
  BY <1>2, <1>3, SumType
<1>5. QED
  BY <1>4, TokensOfRows DEF Spent, TokensIn, f, R

\* A row that is added adds its tokens, to those of its learner.
LEMMA SpentAdds ==
    ASSUME NEW B, IsTable(B, LogRows), NEW e \in LogRows,
           NEW C, C = Added(B, e), NEW l
    PROVE  Spent(C, l) = IF e.user = l THEN Spent(B, l) + e.tokens ELSE Spent(B, l)
<1> DEFINE R == Part(B, l, AllTime)
           Q == Part(C, l, AllTime)
           f == [r \in R |-> r.tokens * B[r]]
           g == [r \in Q |-> r.tokens * C[r]]
<1> HIDE DEF R, Q, f, g
<1>1. /\ IsTable(C, LogRows) /\ DOMAIN C = DOMAIN B \cup {e}
      /\ \A r \in DOMAIN B \ {e} : C[r] = B[r]
      /\ C[e] = IF e \in DOMAIN B THEN B[e] + 1 ELSE 1
      /\ \A r \in DOMAIN B : B[r] \in Nat
  BY TableAdds
<1> USE DEF R, Q, f, g
<1>2. Q = IF e.user = l THEN R \cup {e} ELSE R
  BY <1>1, InAllTime DEF Part
<1>3. R \subseteq DOMAIN B /\ (e.user # l => e \notin R) /\ (e.user = l => (e \in R <=> e \in DOMAIN B))
  BY InAllTime DEF Part
<1>4. IsFiniteSet(R) /\ IsFiniteSet(Q)
  <2>1. R \in SUBSET DOMAIN B /\ Q \in SUBSET DOMAIN C
    BY DEF Part
  <2>2. QED
    BY <1>1, <2>1, FS_Subset DEF IsTable
<1>5. Calls \subseteq Nat /\ e.tokens \in Nat
  BY StandingsAssumption DEF LogRows
<1> HIDE DEF R, Q
<1>6. ASSUME NEW r \in R PROVE f[r] \in Nat
  <2>1. r.tokens \in Nat /\ B[r] \in Nat
    BY <1>1, <1>3, <1>5 DEF IsTable, LogRows
  <2>2. QED
    BY <2>1, TimesPlus
<1>7. \A r \in R \ {e} : r \in Q /\ g[r] = f[r]
  BY <1>1, <1>2, <1>3
<1>8. Spent(B, l) = SumFunctionOnSet(f, R) /\ Spent(C, l) = SumFunctionOnSet(g, Q)
  BY TokensOfRows DEF Spent, TokensIn, R, Q
<1>9. CASE e.user # l
  <2>1. Q = R /\ \A r \in R : g[r] = f[r]
    BY <1>2, <1>3, <1>7, <1>9
  <2> HIDE DEF f, g
  <2>2. SumFunctionOnSet(g, Q) = SumFunctionOnSet(f, R)
    BY <1>4, <1>6, <2>1, SumEqual
  <2>3. QED
    BY <1>8, <1>9, <2>2
<1>10. CASE e.user = l /\ e \in R
  <2>1. Q = R /\ C[e] = B[e] + 1 /\ B[e] \in Nat
    BY <1>1, <1>2, <1>3, <1>10
  <2>2. g[e] = f[e] + e.tokens /\ g[e] \in Nat
    <3>1. g[e] = e.tokens * (B[e] + 1) /\ f[e] = e.tokens * B[e]
      BY <1>10, <2>1
    <3>2. e.tokens * (B[e] + 1) = e.tokens * B[e] + e.tokens * 1 /\ e.tokens * 1 = e.tokens
      BY <1>5, <2>1, TimesPlus
    <3>3. f[e] \in Nat
      BY <1>6, <1>10
    <3> HIDE DEF f, g
    <3>4. QED
      BY <3>1, <3>2, <3>3, <1>5
  <2> HIDE DEF f, g
  <2>3. SumFunctionOnSet(g, R) + f[e] = SumFunctionOnSet(f, R) + g[e]
    BY <1>4, <1>6, <1>7, <1>10, <2>2, SumChanged
  <2>4. SumFunctionOnSet(f, R) \in Nat /\ f[e] \in Nat
    BY <1>4, <1>6, <1>10, SumType
  <2>5. SumFunctionOnSet(g, R) \in Nat
    <3>1. \A r \in R : g[r] \in Nat
      BY <1>6, <1>7, <2>2
    <3>2. QED
      BY <1>4, <3>1, SumType
  <2>6. QED
    BY <1>5, <1>8, <1>10, <2>1, <2>2, <2>3, <2>4, <2>5
<1>11. CASE e.user = l /\ e \notin R
  <2>1. Q = R \cup {e} /\ Q \ {e} = R
    BY <1>2, <1>11
  <2>once. C[e] = 1
    BY <1>1, <1>3, <1>11
  <2>2. g[e] = e.tokens /\ \A r \in R : g[r] = f[r]
    BY <1>5, <1>7, <1>11, <2>1, <2>once
  <2> HIDE DEF f, g
  <2>3. \A r \in Q : g[r] \in Nat
    BY <1>5, <1>6, <2>1, <2>2
  <2>4. SumFunctionOnSet(g, Q) = g[e] + SumFunctionOnSet(g, Q \ {e})
    BY <1>4, <2>1, <2>3, SumApart
  <2>5. SumFunctionOnSet(f, R) \in Nat
    BY <1>4, <1>6, SumType
  <2>same. SumFunctionOnSet(g, R) = SumFunctionOnSet(f, R)
    BY <1>4, <1>6, <2>2, SumEqual
  <2>6. SumFunctionOnSet(g, Q) = e.tokens + SumFunctionOnSet(f, R)
    BY <2>1, <2>2, <2>4, <2>same
  <2>7. Spent(C, l) = Spent(B, l) + e.tokens
    BY <1>5, <1>8, <2>5, <2>6
  <2>8. QED
    BY <1>11, <2>7
<1>12. QED
  BY <1>9, <1>10, <1>11

\* What a writer has yet to record of a learner, and what all of them have.
Entries == [of : SUBSET Learners, delta : Delta]

DueOf(e, l)        == IF l \in e.of THEN e.delta ELSE Nothing
StudiesDue(wr, l)  == SumFunctionOnSet([w \in Writers |-> DueOf(wr[w], l).studies], Writers)
TokensDue(wr, l)   == SumFunctionOnSet([w \in Writers |-> DueOf(wr[w], l).tokens], Writers)
AllDue(wr, l)      == [studies |-> StudiesDue(wr, l), tokens |-> TokensDue(wr, l)]

LEMMA DueOfType ==
    ASSUME NEW e \in Entries, NEW l
    PROVE  DueOf(e, l) \in Delta /\ DueOf(e, l).studies \in Nat /\ DueOf(e, l).tokens \in Nat
BY DEF DueOf, Entries, Delta, Nothing

LEMMA DueTypes ==
    ASSUME NEW wr \in [Writers -> Entries], NEW l
    PROVE  AllDue(wr, l) \in Delta /\ StudiesDue(wr, l) \in Nat /\ TokensDue(wr, l) \in Nat
<1> DEFINE f == [w \in Writers |-> DueOf(wr[w], l).studies]
           g == [w \in Writers |-> DueOf(wr[w], l).tokens]
<1>1. \A w \in Writers : f[w] \in Nat /\ g[w] \in Nat
  BY DueOfType
<1>2. IsFiniteSet(Writers)
  BY StandingsAssumption
<1> HIDE DEF f, g
<1>3. SumFunctionOnSet(f, Writers) \in Nat /\ SumFunctionOnSet(g, Writers) \in Nat
  BY <1>1, <1>2, SumType
<1>4. QED
  BY <1>3 DEF f, g, StudiesDue, TokensDue, AllDue, Delta

LEMMA DueChanges ==
    ASSUME NEW wr \in [Writers -> Entries], NEW new \in [Writers -> Entries],
           NEW w \in Writers, NEW l, \A x \in Writers \ {w} : new[x] = wr[x]
    PROVE  /\ StudiesDue(new, l) + DueOf(wr[w], l).studies = StudiesDue(wr, l) + DueOf(new[w], l).studies
           /\ TokensDue(new, l) + DueOf(wr[w], l).tokens = TokensDue(wr, l) + DueOf(new[w], l).tokens
<1> DEFINE f1 == [x \in Writers |-> DueOf(wr[x], l).studies]
           f2 == [x \in Writers |-> DueOf(new[x], l).studies]
           g1 == [x \in Writers |-> DueOf(wr[x], l).tokens]
           g2 == [x \in Writers |-> DueOf(new[x], l).tokens]
<1>1. \A x \in Writers : f1[x] \in Nat /\ g1[x] \in Nat
  BY DueOfType
<1>2. f2[w] = DueOf(new[w], l).studies /\ g2[w] = DueOf(new[w], l).tokens /\ f2[w] \in Nat /\ g2[w] \in Nat
  BY DueOfType
<1>3. \A x \in Writers \ {w} : f2[x] = f1[x] /\ g2[x] = g1[x]
  OBVIOUS
<1>4. f1[w] = DueOf(wr[w], l).studies /\ g1[w] = DueOf(wr[w], l).tokens
  OBVIOUS
<1>5. IsFiniteSet(Writers)
  BY StandingsAssumption
<1> HIDE DEF f1, f2, g1, g2
<1>6. SumFunctionOnSet(f2, Writers) + f1[w] = SumFunctionOnSet(f1, Writers) + f2[w]
  BY <1>1, <1>2, <1>3, <1>5, SumChanged
<1>7. SumFunctionOnSet(g2, Writers) + g1[w] = SumFunctionOnSet(g1, Writers) + g2[w]
  BY <1>1, <1>2, <1>3, <1>5, SumChanged
<1>8. /\ SumFunctionOnSet(f1, Writers) = StudiesDue(wr, l) /\ SumFunctionOnSet(f2, Writers) = StudiesDue(new, l)
      /\ SumFunctionOnSet(g1, Writers) = TokensDue(wr, l) /\ SumFunctionOnSet(g2, Writers) = TokensDue(new, l)
  BY DEF f1, f2, g1, g2, StudiesDue, TokensDue
<1>9. QED
  BY <1>2, <1>4, <1>6, <1>7, <1>8

LEMMA DueNone ==
    ASSUME NEW wr \in [Writers -> Entries], NEW l, \A w \in Writers : l \notin wr[w].of
    PROVE  AllDue(wr, l) = Nothing
<1> DEFINE f == [w \in Writers |-> DueOf(wr[w], l).studies]
           g == [w \in Writers |-> DueOf(wr[w], l).tokens]
<1>1. \A w \in Writers : f[w] = 0 /\ g[w] = 0
  BY DEF DueOf, Nothing
<1>2. IsFiniteSet(Writers)
  BY StandingsAssumption
<1> HIDE DEF f, g
<1>3. /\ SumFunctionOnSet(f, Writers) = SumFunctionOnSet(f, {})
      /\ SumFunctionOnSet(g, Writers) = SumFunctionOnSet(g, {})
  BY <1>1, <1>2, SumWithin
<1>4. SumFunctionOnSet(f, {}) = 0 /\ SumFunctionOnSet(g, {}) = 0
  BY <1>1, <1>2, SumType
<1>5. QED
  BY <1>3, <1>4 DEF f, g, StudiesDue, TokensDue, AllDue, Nothing

LEMMA UnrecordedAll ==
    \A l : Unrecorded(l, Writers) = AllDue(writer, l)
BY Zenon DEF Unrecorded, AllDue, StudiesDue, TokensDue, DueOf, SumFunction

LEMMA UnrecordedOne ==
    ASSUME writer \in [Writers -> Entries], NEW w \in Writers, NEW l
    PROVE  Unrecorded(l, {w}) = DueOf(writer[w], l)
<1> DEFINE f == [x \in {w} |-> DueOf(writer[x], l).studies]
           g == [x \in {w} |-> DueOf(writer[x], l).tokens]
<1>1. Unrecorded(l, {w}) = [studies |-> SumFunctionOnSet(f, {w}), tokens |-> SumFunctionOnSet(g, {w})]
  BY Zenon DEF Unrecorded, DueOf, SumFunction
<1>2. /\ f[w] = DueOf(writer[w], l).studies /\ f[w] \in Nat
      /\ g[w] = DueOf(writer[w], l).tokens /\ g[w] \in Nat
  BY DueOfType
<1> HIDE DEF f, g
<1>3. IsFiniteSet({w}) /\ {w} \ {w} = {}
  BY FS_Singleton
<1>4. SumFunctionOnSet(f, {w}) = f[w] + SumFunctionOnSet(f, {w} \ {w})
  BY <1>2, <1>3, SumApart
<1>5. SumFunctionOnSet(g, {w}) = g[w] + SumFunctionOnSet(g, {w} \ {w})
  BY <1>2, <1>3, SumApart
<1>6. SumFunctionOnSet(f, {}) = 0 /\ SumFunctionOnSet(g, {}) = 0
  BY <1>2, <1>3, SumType
<1>7. SumFunctionOnSet(f, {w}) = DueOf(writer[w], l).studies /\ SumFunctionOnSet(g, {w}) = DueOf(writer[w], l).tokens
  BY <1>2, <1>3, <1>4, <1>5, <1>6
<1>8. DueOf(writer[w], l) \in Delta
  BY DueOfType
<1>9. QED
  BY <1>1, <1>7, <1>8 DEF Delta

\* How a learner's row of counters, if there is one, relates to what was created and spent.
Balanced(up, studies, t, s, due, spent) ==
    /\ studies <= t.ever
    /\ s.row => /\ t.ever <= s.studies + t.lost.studies + due.studies
                /\ s.studies + t.lost.studies + due.studies <= t.ever + t.early.studies
                /\ spent <= s.tokens + t.lost.tokens + due.tokens
                /\ s.tokens + t.lost.tokens + due.tokens <= spent + t.early.tokens
    /\ ~s.row => /\ s.studies = 0 /\ s.tokens = 0
                 /\ t.lost.tokens + due.tokens = spent /\ t.early.tokens = spent
                 /\ \/ t.lost.studies + due.studies = t.ever /\ t.early.studies = t.ever
                    \/ ~up /\ studies = t.ever /\ t.lost.studies = 0 /\ due.studies = 0

Tally == [ever : Nat, early : Delta, lost : Delta]
Stats == [studies : Nat, tokens : Nat, row : BOOLEAN]
RankedRows == [user : Learners, score : Nat, weighted : Nat, at : 0..MaxToday]

StandingTypes ==
    /\ account \in [Learners -> {"none", "row", "shown", "gone"}]
    /\ kept \in [Learners -> Nat]
    /\ IsTable(log, LogRows) /\ IsTable(ranked, RankedRows)
    /\ stats \in [Learners -> Stats]
    /\ writer \in [Writers -> Entries]
    /\ today \in 0..MaxToday
    /\ tally \in [Learners -> Tally]

LearnerBalanced(l) ==
    Exists(l) => Balanced(serving, kept[l], tally[l], stats[l], AllDue(writer, l), Spent(log, l))

Unseen(l) ==
    account[l] = "none" =>
        /\ kept[l] = 0 /\ stats[l] = NoStats /\ tally[l] = NewTally /\ Spent(log, l) = 0
        /\ \A w \in Writers : l \notin writer[w].of

CountersInv ==
    /\ StandingTypes
    /\ ~serving => making = {} /\ writer = [w \in Writers |-> Resting]
    /\ \A w \in Writers : \A k, l \in writer[w].of : k = l
    /\ \A l \in Learners : Unseen(l) /\ LearnerBalanced(l)

LEMMA BalancedCounted ==
    ASSUME NEW up \in BOOLEAN, NEW k \in Nat, NEW t \in Tally, NEW s \in Stats, NEW d \in Delta, NEW n \in Nat,
           Balanced(up, k, t, s, d, n),
           NEW c, c = IF s.row THEN s ELSE [row |-> TRUE, studies |-> k, tokens |-> n]
    PROVE  Balanced(up, k, t, c, d, n) /\ Balanced(TRUE, k, t, c, d, n)
<1>1. /\ t.ever \in Nat /\ t.lost.studies \in Nat /\ t.lost.tokens \in Nat
      /\ t.early.studies \in Nat /\ t.early.tokens \in Nat
      /\ d.studies \in Nat /\ d.tokens \in Nat
  BY DEF Tally, Delta
<1>2. CASE s.row
  BY <1>2 DEF Balanced, Stats
<1>3. CASE ~s.row
  <2>1. c.row /\ c.studies = k /\ c.tokens = n
    BY <1>3
  <2>2. \/ t.lost.studies + d.studies = t.ever /\ t.early.studies = t.ever
        \/ k = t.ever /\ t.lost.studies = 0 /\ d.studies = 0
    BY <1>3 DEF Balanced
  <2>3. k <= t.ever /\ t.lost.tokens + d.tokens = n /\ t.early.tokens = n
    BY <1>3 DEF Balanced
  <2>4. /\ t.ever <= k + t.lost.studies + d.studies
        /\ k + t.lost.studies + d.studies <= t.ever + t.early.studies
    <3>1. ASSUME NEW e \in Nat, NEW lo \in Nat, NEW du \in Nat, NEW y \in Nat,
                 k <= e, (lo + du = e /\ y = e) \/ (k = e /\ lo = 0 /\ du = 0)
          PROVE  e <= k + lo + du /\ k + lo + du <= e + y
      BY <3>1
    <3>2. QED
      BY <1>1, <2>2, <2>3, <3>1
  <2>5. n <= n + t.lost.tokens + d.tokens /\ n + t.lost.tokens + d.tokens <= n + t.early.tokens
    BY <1>1, <2>3
  <2>6. QED
    BY <2>1, <2>3, <2>4, <2>5 DEF Balanced
<1>4. QED
  BY <1>2, <1>3

LEMMA ConstantsOfStandings ==
    /\ IsFiniteSet(Learners) /\ IsFiniteSet(Writers) /\ Calls \subseteq Nat
    /\ MonthLength \in Nat \ {0} /\ MinimumRankedQuizzes \in Nat \ {0} /\ Limit \in Nat \ {0}
    /\ MaxToday \in Nat /\ MaxStudies \in Nat /\ Learners \subseteq Nat
<1>1. /\ {MonthLength, MinimumRankedQuizzes, Limit} \subseteq Nat \ {0}
      /\ {MaxStudies, MaxCalls, MaxResults, MaxToday} \subseteq Nat
  BY StandingsAssumption
<1>2. QED
  BY <1>1, StandingsAssumption

LEMMA NothingTypes ==
    /\ Nothing \in Delta /\ AStudy \in Delta /\ Resting \in Entries
    /\ NoStats \in Stats /\ NewTally \in Tally
BY DEF Nothing, AStudy, Resting, Delta, Entries, NoStats, Stats, NewTally, Tally

\* One who has just come has done nothing and has no counters: that balances.
LEMMA UnseenBalances ==
    ASSUME CountersInv, NEW l \in Learners, account[l] = "none"
    PROVE  Balanced(serving, kept[l], tally[l], stats[l], AllDue(writer, l), Spent(log, l))
<1>1. kept[l] = 0 /\ stats[l] = NoStats /\ tally[l] = NewTally /\ Spent(log, l) = 0
  BY DEF CountersInv, Unseen
<1>2. AllDue(writer, l) = Nothing
  BY DueNone DEF CountersInv, StandingTypes, Unseen
<1>3. QED
  BY <1>1, <1>2 DEF Balanced, NoStats, NewTally, Nothing

\* Steps that touch neither a counter nor what is counted.
LEMMA CountersFrame ==
    ASSUME CountersInv, UNCHANGED <<kept, log, stats, writer, tally, serving>>,
           account' \in [Learners -> {"none", "row", "shown", "gone"}],
           \A l \in Learners : account'[l] = "none" => account[l] = "none",
           \A l \in Learners : account[l] = "gone" => account'[l] = "gone",
           ~serving => making' = {},
           IsTable(ranked', RankedRows), today' \in 0..MaxToday
    PROVE  CountersInv'
<1>1. StandingTypes'
  BY DEF CountersInv, StandingTypes
<1>2. ASSUME NEW l \in Learners PROVE Unseen(l)'
  BY <1>2 DEF CountersInv, Unseen
<1>3. ASSUME NEW l \in Learners PROVE LearnerBalanced(l)'
  <2>1. SUFFICES ASSUME Exists(l)'
                 PROVE  Balanced(serving, kept[l], tally[l], stats[l], AllDue(writer, l), Spent(log, l))
    BY DEF LearnerBalanced
  <2>2. account[l] \in {"none", "row", "shown"}
    BY <2>1, <1>3 DEF CountersInv, StandingTypes, Exists, Is
  <2>3. CASE account[l] = "none"
    BY <2>3, UnseenBalances
  <2>4. CASE Exists(l)
    BY <2>4 DEF CountersInv, LearnerBalanced
  <2>5. QED
    BY <2>2, <2>3, <2>4 DEF Exists, Is
<1>4. QED
  BY <1>1, <1>2, <1>3 DEF CountersInv

TallyNumbers(t) ==
    /\ t.ever \in Nat /\ t.lost.studies \in Nat /\ t.lost.tokens \in Nat
    /\ t.early.studies \in Nat /\ t.early.tokens \in Nat

LEMMA Numbers ==
    /\ \A t \in Tally : TallyNumbers(t)
    /\ \A d \in Delta : d.studies \in Nat /\ d.tokens \in Nat
    /\ \A s \in Stats : s.studies \in Nat /\ s.tokens \in Nat /\ s.row \in BOOLEAN
BY DEF Tally, Delta, Stats, TallyNumbers

\* Something is created or spent, and a writer has it to record.
LEMMA BalancedGrows ==
    ASSUME NEW k \in Nat, NEW t \in Tally, NEW s \in Stats, NEW d \in Delta, NEW n \in Nat, NEW x \in Delta,
           NEW t2 \in Tally, NEW d2 \in Delta,
           Balanced(TRUE, k, t, s, d, n),
           t2.ever = t.ever + x.studies, t2.lost = t.lost,
           t2.early = IF s.row THEN t.early ELSE Plus(t.early, x),
           d2.studies = d.studies + x.studies, d2.tokens = d.tokens + x.tokens
    PROVE  Balanced(TRUE, k + x.studies, t2, s, d2, n + x.tokens)
<1>1. /\ TallyNumbers(t) /\ d.studies \in Nat /\ d.tokens \in Nat /\ x.studies \in Nat /\ x.tokens \in Nat
      /\ s.studies \in Nat /\ s.tokens \in Nat
  BY Numbers
<1>2. CASE s.row
  <2>1. t2.early = t.early
    BY <1>2
  <2>2. QED
    BY <1>1, <1>2, <2>1 DEF Balanced, TallyNumbers
<1>3. CASE ~s.row
  <2>1. t2.early.studies = t.early.studies + x.studies /\ t2.early.tokens = t.early.tokens + x.tokens
    BY <1>3 DEF Plus
  <2>2. t.lost.studies + d.studies = t.ever /\ t.early.studies = t.ever
    BY <1>3 DEF Balanced
  <2>3. t2.lost.studies + d2.studies = t2.ever /\ t2.early.studies = t2.ever
    BY <1>1, <2>1, <2>2 DEF TallyNumbers
  <2>4. t.lost.tokens + d.tokens = n /\ t.early.tokens = n /\ k <= t.ever /\ s.studies = 0 /\ s.tokens = 0
    BY <1>3 DEF Balanced
  <2>5. t2.lost.tokens + d2.tokens = n + x.tokens /\ t2.early.tokens = n + x.tokens
    BY <1>1, <2>1, <2>4 DEF TallyNumbers
  <2>6. k + x.studies <= t2.ever
    BY <1>1, <2>4 DEF TallyNumbers
  <2>7. QED
    BY <1>3, <2>3, <2>4, <2>5, <2>6 DEF Balanced
<1>4. QED
  BY <1>2, <1>3

\* A writer records what it had to.
LEMMA BalancedRecords ==
    ASSUME NEW k \in Nat, NEW t \in Tally, NEW s \in Stats, NEW d \in Delta, NEW n \in Nat, NEW x \in Delta,
           NEW s2, NEW d2 \in Delta,
           Balanced(TRUE, k, t, s, d, n),
           s2.row, s2.studies = s.studies + x.studies, s2.tokens = s.tokens + x.tokens,
           d2.studies + x.studies = d.studies, d2.tokens + x.tokens = d.tokens
    PROVE  Balanced(TRUE, k, t, s2, d2, n)
<1>1. /\ TallyNumbers(t) /\ d2.studies \in Nat /\ d2.tokens \in Nat /\ x.studies \in Nat /\ x.tokens \in Nat
      /\ s.studies \in Nat /\ s.tokens \in Nat
  BY Numbers
<1>2. CASE s.row
  BY <1>1, <1>2 DEF Balanced, TallyNumbers
<1>3. CASE ~s.row
  <2>1. t.lost.studies + d.studies = t.ever /\ t.early.studies = t.ever
    BY <1>3 DEF Balanced
  <2>2. t.lost.tokens + d.tokens = n /\ t.early.tokens = n /\ k <= t.ever /\ s.studies = 0 /\ s.tokens = 0
    BY <1>3 DEF Balanced
  <2>3. s2.studies + t.lost.studies + d2.studies = t.ever
    BY <1>1, <2>1, <2>2 DEF TallyNumbers
  <2>4. s2.tokens + t.lost.tokens + d2.tokens = n
    BY <1>1, <2>1, <2>2 DEF TallyNumbers
  <2>5. t.ever <= t.ever + t.early.studies /\ n <= n + t.early.tokens /\ t.ever <= t.ever /\ n <= n
    BY <1>1 DEF TallyNumbers
  <2>6. QED
    BY <2>2, <2>3, <2>4, <2>5 DEF Balanced
<1>4. QED
  BY <1>2, <1>3

\* Or it does not, and it is lost.
LEMMA BalancedLoses ==
    ASSUME NEW k \in Nat, NEW t \in Tally, NEW s \in Stats, NEW d \in Delta, NEW n \in Nat, NEW x \in Delta,
           NEW up, NEW t2 \in Tally, NEW d2 \in Delta,
           Balanced(TRUE, k, t, s, d, n), t2.ever = t.ever, t2.early = t.early,
           t2.lost = Plus(t.lost, x),
           d2.studies + x.studies = d.studies, d2.tokens + x.tokens = d.tokens
    PROVE  Balanced(up, k, t2, s, d2, n)
<1>1. /\ TallyNumbers(t) /\ d2.studies \in Nat /\ d2.tokens \in Nat /\ x.studies \in Nat /\ x.tokens \in Nat
      /\ s.studies \in Nat /\ s.tokens \in Nat
  BY Numbers
<1>2. t2.lost.studies = t.lost.studies + x.studies /\ t2.lost.tokens = t.lost.tokens + x.tokens
  BY DEF Plus
<1>3. /\ t2.lost.studies + d2.studies = t.lost.studies + d.studies
      /\ t2.lost.tokens + d2.tokens = t.lost.tokens + d.tokens
  BY <1>1, <1>2 DEF TallyNumbers
<1>4. /\ s.studies + t2.lost.studies + d2.studies = s.studies + t.lost.studies + d.studies
      /\ s.tokens + t2.lost.tokens + d2.tokens = s.tokens + t.lost.tokens + d.tokens
  BY <1>1, <1>2 DEF TallyNumbers
<1>5. QED
  BY <1>3, <1>4 DEF Balanced

LEMMA BalancedShrinks ==
    ASSUME NEW k \in Nat, NEW t \in Tally, NEW s, NEW d, NEW n, NEW j \in Nat,
           Balanced(TRUE, k, t, s, d, n), j <= k
    PROVE  Balanced(TRUE, j, t, s, d, n)
<1>1. t.ever \in Nat
  BY Numbers DEF TallyNumbers
<1>2. j <= t.ever
  BY <1>1 DEF Balanced
<1>3. QED
  BY <1>2 DEF Balanced

\* Steps that touch one learner, and one writer of that learner.
LEMMA WriterChanges ==
    ASSUME CountersInv, NEW w \in Writers,
           writer' \in [Writers -> Entries], \A x \in Writers \ {w} : writer'[x] = writer[x], NEW l
    PROVE  /\ AllDue(writer, l) \in Delta /\ AllDue(writer', l) \in Delta
           /\ AllDue(writer', l).studies + DueOf(writer[w], l).studies
                 = AllDue(writer, l).studies + DueOf(writer'[w], l).studies
           /\ AllDue(writer', l).tokens + DueOf(writer[w], l).tokens
                 = AllDue(writer, l).tokens + DueOf(writer'[w], l).tokens
<1>1. writer \in [Writers -> Entries]
  BY DEF CountersInv, StandingTypes
<1>2. AllDue(writer, l) \in Delta /\ AllDue(writer', l) \in Delta
  BY <1>1, DueTypes
<1>3. /\ StudiesDue(writer', l) + DueOf(writer[w], l).studies = StudiesDue(writer, l) + DueOf(writer'[w], l).studies
      /\ TokensDue(writer', l) + DueOf(writer[w], l).tokens = TokensDue(writer, l) + DueOf(writer'[w], l).tokens
  BY <1>1, DueChanges
<1>4. QED
  BY <1>2, <1>3 DEF AllDue

\* A writer takes something on, which changes what is due of its learner and of no other.
LEMMA WriterTakes ==
    ASSUME CountersInv, NEW w \in Writers, NEW l \in Learners, NEW x \in Delta, Writes(w, l, x)
    PROVE  /\ serving /\ Exists(l) /\ writer' \in [Writers -> Entries]
           /\ \A y \in Writers : writer'[y].of = writer[y].of \/ writer'[y].of = {l}
           /\ \A k \in Learners \ {l} : AllDue(writer', k) = AllDue(writer, k)
           /\ AllDue(writer', l).studies = AllDue(writer, l).studies + x.studies
           /\ AllDue(writer', l).tokens = AllDue(writer, l).tokens + x.tokens
<1>1. writer \in [Writers -> Entries] /\ writer[w] = Resting
  BY DEF CountersInv, StandingTypes, Writes
<1>2. [of |-> {l}, delta |-> x] \in Entries
  BY DEF Entries
<1>3. /\ writer' \in [Writers -> Entries] /\ writer'[w] = [of |-> {l}, delta |-> x]
      /\ \A y \in Writers \ {w} : writer'[y] = writer[y]
  BY <1>1, <1>2 DEF Writes
<1>4. \A k : DueOf(writer[w], k) = Nothing
  BY <1>1 DEF DueOf, Resting
<1>5. DueOf(writer'[w], l) = x /\ \A k \in Learners \ {l} : DueOf(writer'[w], k) = Nothing
  BY <1>3 DEF DueOf
<1>6. \A k : /\ AllDue(writer, k) \in Delta /\ AllDue(writer', k) \in Delta
             /\ AllDue(writer', k).studies + DueOf(writer[w], k).studies
                   = AllDue(writer, k).studies + DueOf(writer'[w], k).studies
             /\ AllDue(writer', k).tokens + DueOf(writer[w], k).tokens
                   = AllDue(writer, k).tokens + DueOf(writer'[w], k).tokens
  BY <1>3, WriterChanges
<1>7. ASSUME NEW k \in Learners \ {l} PROVE AllDue(writer', k) = AllDue(writer, k)
  <2>1. AllDue(writer', k).studies + 0 = AllDue(writer, k).studies + 0
    BY <1>4, <1>5, <1>6 DEF Nothing
  <2>2. AllDue(writer', k).tokens + 0 = AllDue(writer, k).tokens + 0
    BY <1>4, <1>5, <1>6 DEF Nothing
  <2>3. /\ AllDue(writer', k).studies \in Nat /\ AllDue(writer', k).tokens \in Nat
        /\ AllDue(writer, k).studies \in Nat /\ AllDue(writer, k).tokens \in Nat
    BY <1>6, Numbers
  <2>4. AllDue(writer', k).studies = AllDue(writer, k).studies /\ AllDue(writer', k).tokens = AllDue(writer, k).tokens
    BY <2>1, <2>2, <2>3
  <2>5. QED
    BY <2>4, Zenon DEF AllDue
<1>8. /\ AllDue(writer', l).studies \in Nat /\ AllDue(writer', l).tokens \in Nat
      /\ AllDue(writer, l).studies \in Nat /\ AllDue(writer, l).tokens \in Nat
  BY <1>6, Numbers
<1>9. AllDue(writer', l).studies + 0 = AllDue(writer, l).studies + x.studies
  BY <1>4, <1>5, <1>6 DEF Nothing
<1>10. AllDue(writer', l).tokens + 0 = AllDue(writer, l).tokens + x.tokens
  BY <1>4, <1>5, <1>6 DEF Nothing
<1>11. x.studies \in Nat /\ x.tokens \in Nat
  BY Numbers
<1>12. /\ AllDue(writer', l).studies = AllDue(writer, l).studies + x.studies
       /\ AllDue(writer', l).tokens = AllDue(writer, l).tokens + x.tokens
  BY <1>8, <1>9, <1>10, <1>11
<1>13. \A y \in Writers : writer'[y].of = writer[y].of \/ writer'[y].of = {l}
  BY <1>3
<1>14. serving /\ Exists(l)
  BY DEF Writes
<1>15. QED
  BY <1>3, <1>7, <1>12, <1>13, <1>14

\* A writer is done, and nothing of its is due.
LEMMA WriterRests ==
    ASSUME CountersInv, NEW w \in Writers, writer' \in [Writers -> Entries], writer'[w] = Resting,
           \A x \in Writers \ {w} : writer'[x] = writer[x], NEW l
    PROVE  /\ AllDue(writer', l) \in Delta /\ AllDue(writer, l) \in Delta /\ DueOf(writer[w], l) \in Delta
           /\ AllDue(writer', l).studies + DueOf(writer[w], l).studies = AllDue(writer, l).studies
           /\ AllDue(writer', l).tokens + DueOf(writer[w], l).tokens = AllDue(writer, l).tokens
<1>1. DueOf(writer'[w], l) = Nothing
  BY DEF DueOf, Resting
<1>2. writer[w] \in Entries
  BY DEF CountersInv, StandingTypes
<1>3. DueOf(writer[w], l) \in Delta
  BY <1>2, DueOfType
<1>4. /\ AllDue(writer, l) \in Delta /\ AllDue(writer', l) \in Delta
      /\ AllDue(writer', l).studies + DueOf(writer[w], l).studies
            = AllDue(writer, l).studies + DueOf(writer'[w], l).studies
      /\ AllDue(writer', l).tokens + DueOf(writer[w], l).tokens
            = AllDue(writer, l).tokens + DueOf(writer'[w], l).tokens
  BY WriterChanges
<1>5. DueOf(writer'[w], l).studies = 0 /\ DueOf(writer'[w], l).tokens = 0
  BY <1>1 DEF Nothing
<1>6. AllDue(writer, l).studies \in Nat /\ AllDue(writer, l).tokens \in Nat
  BY <1>4, Numbers
<1>7. QED
  BY <1>3, <1>4, <1>5, <1>6

\* A learner creates or spends something.
LEMMA CountersGrow ==
    ASSUME CountersInv, NEW w \in Writers, NEW l \in Learners, NEW x \in Delta, Writes(w, l, x),
           kept' \in [Learners -> Nat], kept'[l] = kept[l] + x.studies,
           \A k \in Learners \ {l} : kept'[k] = kept[k],
           IsTable(log', LogRows), Spent(log', l) = Spent(log, l) + x.tokens,
           \A k \in Learners \ {l} : Spent(log', k) = Spent(log, k),
           tally' \in [Learners -> Tally], \A k \in Learners \ {l} : tally'[k] = tally[k],
           tally'[l].ever = tally[l].ever + x.studies, tally'[l].lost = tally[l].lost,
           tally'[l].early = IF stats[l].row THEN tally[l].early ELSE Plus(tally[l].early, x),
           UNCHANGED <<account, making, ranked, stats, today, serving>>
    PROVE  CountersInv'
<1>1. /\ serving /\ Exists(l) /\ writer' \in [Writers -> Entries]
      /\ \A y \in Writers : writer'[y].of = writer[y].of \/ writer'[y].of = {l}
      /\ \A k \in Learners \ {l} : AllDue(writer', k) = AllDue(writer, k)
      /\ AllDue(writer', l).studies = AllDue(writer, l).studies + x.studies
      /\ AllDue(writer', l).tokens = AllDue(writer, l).tokens + x.tokens
  BY WriterTakes
<1>2. StandingTypes'
  BY <1>1 DEF CountersInv, StandingTypes
<1>3. \A y \in Writers : \A j, k \in writer'[y].of : j = k
  BY <1>1 DEF CountersInv
<1>4. ASSUME NEW k \in Learners PROVE Unseen(k)'
  <2>1. SUFFICES ASSUME account[k] = "none"
                 PROVE  /\ kept'[k] = 0 /\ stats[k] = NoStats /\ tally'[k] = NewTally /\ Spent(log', k) = 0
                        /\ \A y \in Writers : k \notin writer'[y].of
    BY DEF Unseen
  <2>2. k # l
    BY <1>1, <2>1 DEF Exists, Is
  <2>3. /\ kept[k] = 0 /\ stats[k] = NoStats /\ tally[k] = NewTally /\ Spent(log, k) = 0
        /\ \A y \in Writers : k \notin writer[y].of
    BY <2>1 DEF CountersInv, Unseen
  <2>4. QED
    BY <1>1, <2>2, <2>3
<1>5. ASSUME NEW k \in Learners PROVE LearnerBalanced(k)'
  <2>1. SUFFICES ASSUME Exists(k)
                 PROVE  Balanced(serving, kept'[k], tally'[k], stats[k], AllDue(writer', k), Spent(log', k))
    BY DEF LearnerBalanced, Exists, Is
  <2>2. Balanced(serving, kept[k], tally[k], stats[k], AllDue(writer, k), Spent(log, k))
    BY <2>1 DEF CountersInv, LearnerBalanced
  <2>3. CASE k # l
    BY <1>1, <2>2, <2>3
  <2>4. CASE k = l
    <3>1. /\ kept[l] \in Nat /\ tally[l] \in Tally /\ stats[l] \in Stats /\ tally'[l] \in Tally
          /\ IsTable(log, LogRows) /\ writer \in [Writers -> Entries]
      BY DEF CountersInv, StandingTypes
    <3>2. Spent(log, l) \in Nat /\ AllDue(writer, l) \in Delta /\ AllDue(writer', l) \in Delta
      BY <1>1, <3>1, SpentType, DueTypes
    <3>3. Balanced(TRUE, kept[l], tally[l], stats[l], AllDue(writer, l), Spent(log, l)) /\ serving = TRUE
      BY <1>1, <2>2, <2>4 DEF Balanced
    <3>4. Balanced(TRUE, kept[l] + x.studies, tally'[l], stats[l], AllDue(writer', l), Spent(log, l) + x.tokens)
      <4>1. /\ tally'[l].ever = tally[l].ever + x.studies /\ tally'[l].lost = tally[l].lost
            /\ tally'[l].early = IF stats[l].row THEN tally[l].early ELSE Plus(tally[l].early, x)
        OBVIOUS
      <4> DEFINE k0 == kept[l]
                 t0 == tally[l]
                 t1 == tally'[l]
                 s0 == stats[l]
                 d0 == AllDue(writer, l)
                 d1 == AllDue(writer', l)
                 n0 == Spent(log, l)
      <4>2. /\ k0 \in Nat /\ t0 \in Tally /\ t1 \in Tally /\ s0 \in Stats /\ d0 \in Delta /\ d1 \in Delta /\ n0 \in Nat
            /\ Balanced(TRUE, k0, t0, s0, d0, n0)
            /\ t1.ever = t0.ever + x.studies /\ t1.lost = t0.lost
            /\ t1.early = IF s0.row THEN t0.early ELSE Plus(t0.early, x)
            /\ d1.studies = d0.studies + x.studies /\ d1.tokens = d0.tokens + x.tokens
        BY <1>1, <3>1, <3>2, <3>3, <4>1
      <4> HIDE DEF k0, t0, t1, s0, d0, d1, n0
      <4>3. Balanced(TRUE, k0 + x.studies, t1, s0, d1, n0 + x.tokens)
        BY <4>2, BalancedGrows
      <4>4. QED
        BY <4>3 DEF k0, t0, t1, s0, d0, d1, n0
    <3>5. QED
      BY <2>4, <3>3, <3>4
  <2>5. QED
    BY <2>3, <2>4
<1>6. (~serving => making = {} /\ writer = [w1 \in Writers |-> Resting])'
  BY <1>1
<1>7. QED
  BY <1>2, <1>3, <1>4, <1>5, <1>6 DEF CountersInv

LEMMA CountersCreate ==
    ASSUME CountersInv, NEW w \in Writers, NEW l \in Learners, CreateStudy(w, l)
    PROVE  CountersInv'
<1>1. Writes(w, l, AStudy) /\ AStudy \in Delta /\ AStudy.studies = 1 /\ AStudy.tokens = 0
  BY NothingTypes DEF CreateStudy, AStudy
<1>2. /\ kept \in [Learners -> Nat] /\ tally \in [Learners -> Tally] /\ IsTable(log, LogRows)
      /\ stats \in [Learners -> Stats]
  BY DEF CountersInv, StandingTypes
<1>3. /\ kept' = [kept EXCEPT ![l] = @ + 1]
      /\ tally' = [tally EXCEPT ![l].ever = @ + 1, ![l].early = Early(l, AStudy)]
      /\ UNCHANGED <<account, making, log, ranked, stats, today, serving>>
  BY DEF CreateStudy
<1>4. kept' \in [Learners -> Nat] /\ kept'[l] = kept[l] + 1 /\ \A k \in Learners \ {l} : kept'[k] = kept[k]
  BY <1>2, <1>3
<1>5. Early(l, AStudy) \in Delta
  BY <1>1, <1>2, Numbers DEF Early, Plus, Tally, Delta
<1>6. /\ tally' \in [Learners -> Tally] /\ \A k \in Learners \ {l} : tally'[k] = tally[k]
      /\ tally'[l].ever = tally[l].ever + 1 /\ tally'[l].lost = tally[l].lost
      /\ tally'[l].early = Early(l, AStudy)
  <2> DEFINE q == [tally[l] EXCEPT !.ever = @ + 1, !.early = Early(l, AStudy)]
  <2>1. tally[l] \in Tally /\ tally[l].ever + 1 \in Nat
    BY <1>2, Numbers DEF TallyNumbers
  <2>2. q \in Tally /\ q.ever = tally[l].ever + 1 /\ q.lost = tally[l].lost /\ q.early = Early(l, AStudy)
    BY <1>5, <2>1 DEF Tally
  <2>3. tally' = [tally EXCEPT ![l] = q]
    BY <1>3
  <2> HIDE DEF q
  <2>4. QED
    BY <1>2, <2>2, <2>3
<1>7. tally'[l].early = IF stats[l].row THEN tally[l].early ELSE Plus(tally[l].early, AStudy)
  BY <1>6 DEF Early
<1>8. Spent(log, l) \in Nat
  BY <1>2, SpentType
<1>9. /\ IsTable(log', LogRows) /\ Spent(log', l) = Spent(log, l) + AStudy.tokens
      /\ \A k \in Learners \ {l} : Spent(log', k) = Spent(log, k)
  BY <1>1, <1>2, <1>3, <1>8
<1>10. kept'[l] = kept[l] + AStudy.studies /\ tally'[l].ever = tally[l].ever + AStudy.studies
  BY <1>1, <1>4, <1>6
<1>11. UNCHANGED <<account, making, ranked, stats, today, serving>>
  BY <1>3
<1>12. QED
  BY <1>1, <1>4, <1>6, <1>7, <1>9, <1>10, <1>11, CountersGrow

LEMMA CountersUsage ==
    ASSUME CountersInv, NEW w \in Writers, NEW l \in Learners, NEW tokens \in Calls, AddUsage(w, l, tokens)
    PROVE  CountersInv'
<1> DEFINE x == [studies |-> 0, tokens |-> tokens]
           e == [user |-> l, tokens |-> tokens, at |-> today]
<1>1. x \in Delta /\ x.studies = 0 /\ x.tokens = tokens
  BY ConstantsOfStandings DEF Delta
<1>2. /\ kept \in [Learners -> Nat] /\ tally \in [Learners -> Tally] /\ IsTable(log, LogRows)
      /\ stats \in [Learners -> Stats] /\ today \in 0..MaxToday
  BY DEF CountersInv, StandingTypes
<1>3. e \in LogRows /\ e.user = l /\ e.tokens = tokens
  BY <1>2 DEF LogRows
<1>4. /\ Writes(w, l, x) /\ log' = Added(log, e)
      /\ tally' = [tally EXCEPT ![l].early = Early(l, x)]
      /\ UNCHANGED <<account, making, kept, ranked, stats, today, serving>>
  BY DEF AddUsage, Added
<1> HIDE DEF x, e
<1>5. Early(l, x) \in Delta
  BY <1>1, <1>2, Numbers DEF Early, Plus, Tally, Delta
<1>6. /\ tally' \in [Learners -> Tally] /\ \A k \in Learners \ {l} : tally'[k] = tally[k]
      /\ tally'[l].ever = tally[l].ever /\ tally'[l].lost = tally[l].lost
      /\ tally'[l].early = Early(l, x)
  BY <1>2, <1>4, <1>5 DEF Tally
<1>7. tally'[l].early = IF stats[l].row THEN tally[l].early ELSE Plus(tally[l].early, x)
  BY <1>6 DEF Early
<1>8. IsTable(Added(log, e), LogRows)
  BY <1>2, <1>3, TableAdds
<1>9. \A k : Spent(Added(log, e), k) = IF e.user = k THEN Spent(log, k) + e.tokens ELSE Spent(log, k)
  BY <1>2, <1>3, SpentAdds
<1>10. /\ IsTable(log', LogRows) /\ Spent(log', l) = Spent(log, l) + x.tokens
       /\ \A k \in Learners \ {l} : Spent(log', k) = Spent(log, k)
  BY <1>1, <1>3, <1>4, <1>8, <1>9
<1>11. kept[l] \in Nat /\ tally[l].ever \in Nat
  BY <1>2, Numbers DEF TallyNumbers
<1>12. kept'[l] = kept[l] + x.studies /\ tally'[l].ever = tally[l].ever + x.studies
  BY <1>1, <1>4, <1>6, <1>11
<1>13. /\ kept' \in [Learners -> Nat] /\ \A k \in Learners \ {l} : kept'[k] = kept[k]
       /\ UNCHANGED <<account, making, ranked, stats, today, serving>>
  BY <1>2, <1>4
<1>14. QED
  BY <1>1, <1>4, <1>6, <1>7, <1>10, <1>12, <1>13, CountersGrow

LEMMA CountersRecord ==
    ASSUME CountersInv, NEW w \in Writers, Record(w)
    PROVE  CountersInv'
<1>1. PICK l \in writer[w].of :
          /\ Exists(l)
          /\ stats' = [stats EXCEPT ![l] = [row     |-> TRUE,
                                            studies |-> @.studies + writer[w].delta.studies,
                                            tokens  |-> @.tokens + writer[w].delta.tokens]]
  BY DEF Record
<1>2. /\ serving /\ writer' = [writer EXCEPT ![w] = Resting]
      /\ UNCHANGED <<account, making, kept, log, ranked, today, serving, tally>>
  BY DEF Record
<1>3. /\ writer \in [Writers -> Entries] /\ stats \in [Learners -> Stats]
      /\ kept \in [Learners -> Nat] /\ tally \in [Learners -> Tally] /\ IsTable(log, LogRows)
  BY DEF CountersInv, StandingTypes
<1>4. l \in Learners /\ writer[w].delta \in Delta /\ DueOf(writer[w], l) = writer[w].delta
  BY <1>3 DEF Entries, DueOf
<1>5. /\ writer' \in [Writers -> Entries] /\ writer'[w] = Resting
      /\ \A x \in Writers \ {w} : writer'[x] = writer[x]
  BY <1>2, <1>3, NothingTypes
<1>6. \A k \in Learners \ {l} : DueOf(writer[w], k) = Nothing
  BY DEF CountersInv, DueOf
<1>7. \A k : /\ AllDue(writer', k) \in Delta /\ AllDue(writer, k) \in Delta
             /\ AllDue(writer', k).studies + DueOf(writer[w], k).studies = AllDue(writer, k).studies
             /\ AllDue(writer', k).tokens + DueOf(writer[w], k).tokens = AllDue(writer, k).tokens
  BY <1>5, WriterRests
<1>8. ASSUME NEW k \in Learners \ {l} PROVE AllDue(writer', k) = AllDue(writer, k)
  <2>1. AllDue(writer', k).studies + 0 = AllDue(writer, k).studies
    BY <1>6, <1>7 DEF Nothing
  <2>2. AllDue(writer', k).tokens + 0 = AllDue(writer, k).tokens
    BY <1>6, <1>7 DEF Nothing
  <2>3. /\ AllDue(writer', k).studies \in Nat /\ AllDue(writer', k).tokens \in Nat
        /\ AllDue(writer, k).studies \in Nat /\ AllDue(writer, k).tokens \in Nat
    BY <1>7, Numbers
  <2>4. AllDue(writer', k).studies = AllDue(writer, k).studies /\ AllDue(writer', k).tokens = AllDue(writer, k).tokens
    BY <2>1, <2>2, <2>3
  <2>5. QED
    BY <2>4, Zenon DEF AllDue
<1>9. /\ stats'[l].row /\ stats'[l].studies = stats[l].studies + writer[w].delta.studies
      /\ stats'[l].tokens = stats[l].tokens + writer[w].delta.tokens
      /\ \A k \in Learners \ {l} : stats'[k] = stats[k]
  BY <1>1, <1>3, <1>4
<1>10. stats' \in [Learners -> Stats]
  <2>1. /\ stats[l].studies + writer[w].delta.studies \in Nat
        /\ stats[l].tokens + writer[w].delta.tokens \in Nat
    BY <1>3, <1>4, Numbers
  <2>2. QED
    BY <1>1, <1>3, <1>4, <2>1 DEF Stats
<1>11. StandingTypes'
  BY <1>2, <1>5, <1>10 DEF CountersInv, StandingTypes
<1>12. \A y \in Writers : \A j, k \in writer'[y].of : j = k
  BY <1>5 DEF CountersInv, Resting
<1>13. ASSUME NEW k \in Learners PROVE Unseen(k)'
  <2>1. SUFFICES ASSUME account[k] = "none"
                 PROVE  /\ kept[k] = 0 /\ stats'[k] = NoStats /\ tally[k] = NewTally /\ Spent(log, k) = 0
                        /\ \A y \in Writers : k \notin writer'[y].of
    BY <1>2 DEF Unseen
  <2>2. k # l
    BY <1>1, <2>1 DEF Exists, Is
  <2>3. /\ kept[k] = 0 /\ stats[k] = NoStats /\ tally[k] = NewTally /\ Spent(log, k) = 0
        /\ \A y \in Writers : k \notin writer[y].of
    BY <2>1 DEF CountersInv, Unseen
  <2>4. QED
    BY <1>5, <1>9, <2>2, <2>3 DEF Resting
<1>14. ASSUME NEW k \in Learners PROVE LearnerBalanced(k)'
  <2>1. SUFFICES ASSUME Exists(k)
                 PROVE  Balanced(serving, kept[k], tally[k], stats'[k], AllDue(writer', k), Spent(log, k))
    BY <1>2 DEF LearnerBalanced, Exists, Is
  <2>2. Balanced(serving, kept[k], tally[k], stats[k], AllDue(writer, k), Spent(log, k))
    BY <2>1 DEF CountersInv, LearnerBalanced
  <2>3. CASE k # l
    BY <1>8, <1>9, <2>2, <2>3
  <2>4. CASE k = l
    <3> DEFINE k0 == kept[l]
               t0 == tally[l]
               s0 == stats[l]
               s1 == stats'[l]
               d0 == AllDue(writer, l)
               d1 == AllDue(writer', l)
               n0 == Spent(log, l)
               x == writer[w].delta
    <3>1. /\ k0 \in Nat /\ t0 \in Tally /\ s0 \in Stats /\ d0 \in Delta /\ d1 \in Delta /\ n0 \in Nat /\ x \in Delta
      BY <1>3, <1>4, <1>7, SpentType
    <3>2. Balanced(TRUE, k0, t0, s0, d0, n0) /\ serving = TRUE
      BY <1>2, <2>2, <2>4 DEF Balanced
    <3>3. /\ s1.row /\ s1.studies = s0.studies + x.studies /\ s1.tokens = s0.tokens + x.tokens
          /\ d1.studies + x.studies = d0.studies /\ d1.tokens + x.tokens = d0.tokens
      BY <1>4, <1>7, <1>9
    <3> HIDE DEF k0, t0, s0, s1, d0, d1, n0, x
    <3>4. Balanced(TRUE, k0, t0, s1, d1, n0)
      BY <3>1, <3>2, <3>3, BalancedRecords
    <3>5. QED
      BY <2>4, <3>2, <3>4 DEF k0, t0, s0, s1, d0, d1, n0
  <2>5. QED
    BY <2>3, <2>4
<1>15. (~serving => making = {} /\ writer = [w1 \in Writers |-> Resting])'
  BY <1>2
<1>16. QED
  BY <1>11, <1>12, <1>13, <1>14, <1>15 DEF CountersInv

\* Telemetry is lost: what was due of a learner is counted as lost.
LEMMA CountersLose ==
    ASSUME CountersInv, serving, NEW x \in [Learners -> Delta],
           writer' \in [Writers -> Entries], \A w \in Writers : writer'[w] = writer[w] \/ writer'[w] = Resting,
           \A l \in Learners : /\ AllDue(writer', l).studies + x[l].studies = AllDue(writer, l).studies
                               /\ AllDue(writer', l).tokens + x[l].tokens = AllDue(writer, l).tokens,
           \A l \in Learners : account[l] = "none" => x[l] = Nothing,
           tally' = [l \in Learners |-> [tally[l] EXCEPT !.lost = Plus(@, x[l])]],
           ~serving' => making' = {} /\ writer' = [w \in Writers |-> Resting],
           UNCHANGED <<account, kept, log, ranked, stats, today>>
    PROVE  CountersInv'
<1>1. /\ writer \in [Writers -> Entries] /\ stats \in [Learners -> Stats]
      /\ kept \in [Learners -> Nat] /\ tally \in [Learners -> Tally] /\ IsTable(log, LogRows)
  BY DEF CountersInv, StandingTypes
<1>2. ASSUME NEW l \in Learners
      PROVE  /\ tally'[l] \in Tally /\ tally'[l].ever = tally[l].ever /\ tally'[l].early = tally[l].early
             /\ tally'[l].lost = Plus(tally[l].lost, x[l])
             /\ x[l] = Nothing => tally'[l] = tally[l]
  <2> DEFINE t == tally[l]
             q == [t EXCEPT !.lost = Plus(@, x[l])]
  <2>1. tally'[l] = q
    OBVIOUS
  <2>2. t \in Tally /\ x[l] \in Delta
    BY <1>1
  <2> HIDE DEF t
  <2>3. t.lost \in Delta /\ Plus(t.lost, x[l]) \in Delta
    <3>1. t.lost \in Delta
      BY <2>2 DEF Tally
    <3>2. /\ t.lost.studies \in Nat /\ t.lost.tokens \in Nat /\ x[l].studies \in Nat /\ x[l].tokens \in Nat
      BY <2>2, <3>1, Numbers
    <3>3. QED
      BY <3>1, <3>2 DEF Plus, Delta
  <2>4. q \in Tally /\ q.ever = t.ever /\ q.early = t.early /\ q.lost = Plus(t.lost, x[l])
    BY <2>2, <2>3 DEF Tally
  <2>5. ASSUME x[l] = Nothing PROVE q = t
    <3>1. Plus(t.lost, x[l]) = t.lost
      BY <2>3, <2>5 DEF Plus, Nothing, Delta
    <3>2. QED
      BY <2>2, <3>1 DEF Tally
  <2> HIDE DEF q
  <2>6. QED
    BY <2>1, <2>4, <2>5 DEF t
<1>3. tally' \in [Learners -> Tally]
  BY <1>2
<1>4. StandingTypes'
  BY <1>3 DEF CountersInv, StandingTypes
<1>5. \A y \in Writers : \A j, k \in writer'[y].of : j = k
  BY DEF CountersInv, Resting
<1>6. ASSUME NEW l \in Learners PROVE Unseen(l)'
  BY <1>2 DEF CountersInv, Unseen, Resting
<1>7. ASSUME NEW l \in Learners PROVE LearnerBalanced(l)'
  <2>1. SUFFICES ASSUME Exists(l)
                 PROVE  Balanced(serving', kept[l], tally'[l], stats[l], AllDue(writer', l), Spent(log, l))
    BY DEF LearnerBalanced, Exists, Is
  <2> DEFINE k0 == kept[l]
             t0 == tally[l]
             t1 == tally'[l]
             s0 == stats[l]
             d0 == AllDue(writer, l)
             d1 == AllDue(writer', l)
             n0 == Spent(log, l)
             y == x[l]
             up == serving'
  <2>2. /\ k0 \in Nat /\ t0 \in Tally /\ t1 \in Tally /\ s0 \in Stats /\ d0 \in Delta /\ d1 \in Delta
        /\ n0 \in Nat /\ y \in Delta
    BY <1>1, <1>2, SpentType, DueTypes
  <2>3. Balanced(TRUE, k0, t0, s0, d0, n0)
    <3>1. Balanced(serving, k0, t0, s0, d0, n0)
      BY <2>1 DEF CountersInv, LearnerBalanced
    <3>2. QED
      BY <3>1 DEF Balanced
  <2>4. /\ t1.ever = t0.ever /\ t1.early = t0.early /\ t1.lost = Plus(t0.lost, y)
        /\ d1.studies + y.studies = d0.studies /\ d1.tokens + y.tokens = d0.tokens
    BY <1>2
  <2> HIDE DEF k0, t0, t1, s0, d0, d1, n0, y, up
  <2>5. Balanced(up, k0, t1, s0, d1, n0)
    BY <2>2, <2>3, <2>4, BalancedLoses
  <2>6. QED
    BY <2>5 DEF up, k0, t1, s0, d1, n0
<1>8. QED
  BY <1>4, <1>5, <1>6, <1>7 DEF CountersInv

LEMMA CountersFail ==
    ASSUME CountersInv, NEW w \in Writers, RecordFails(w)
    PROVE  CountersInv'
<1> DEFINE x == [l \in Learners |-> DueOf(writer[w], l)]
<1>1. writer \in [Writers -> Entries]
  BY DEF CountersInv, StandingTypes
<1>2. /\ serving /\ writer' = [y \in Writers |-> IF y \in {w} THEN Resting ELSE writer[y]]
      /\ tally' = [l \in Learners |-> [tally[l] EXCEPT !.lost = Plus(@, Unrecorded(l, {w}))]]
      /\ UNCHANGED <<account, making, kept, log, ranked, stats, today, serving>>
  BY DEF RecordFails, Lost
<1>3. tally' = [l \in Learners |-> [tally[l] EXCEPT !.lost = Plus(@, x[l])]]
  BY <1>1, <1>2, UnrecordedOne
<1>4. x \in [Learners -> Delta]
  BY <1>1, DueOfType
<1>5. /\ writer' \in [Writers -> Entries] /\ writer'[w] = Resting
      /\ \A y \in Writers \ {w} : writer'[y] = writer[y]
  BY <1>1, <1>2, NothingTypes
<1>6. \A l \in Learners : /\ AllDue(writer', l).studies + x[l].studies = AllDue(writer, l).studies
                          /\ AllDue(writer', l).tokens + x[l].tokens = AllDue(writer, l).tokens
  BY <1>5, WriterRests
<1>7. \A l \in Learners : account[l] = "none" => x[l] = Nothing
  BY DEF CountersInv, Unseen, DueOf
<1> HIDE DEF x
<1>8. QED
  BY <1>2, <1>3, <1>4, <1>5, <1>6, <1>7, CountersLose

LEMMA CountersStop ==
    ASSUME CountersInv, Stop
    PROVE  CountersInv'
<1> DEFINE x == [l \in Learners |-> AllDue(writer, l)]
<1>1. writer \in [Writers -> Entries]
  BY DEF CountersInv, StandingTypes
<1>2. /\ serving /\ ~serving' /\ making' = {} /\ writer' = [y \in Writers |-> Resting]
      /\ tally' = [l \in Learners |-> [tally[l] EXCEPT !.lost = Plus(@, Unrecorded(l, Writers))]]
      /\ UNCHANGED <<account, kept, log, ranked, stats, today>>
  BY DEF Stop, Lost
<1>3. tally' = [l \in Learners |-> [tally[l] EXCEPT !.lost = Plus(@, x[l])]]
  BY <1>2, UnrecordedAll
<1>4. x \in [Learners -> Delta]
  BY <1>1, DueTypes
<1>5. writer' \in [Writers -> Entries] /\ \A y \in Writers : writer'[y] = Resting
  BY <1>1, <1>2, NothingTypes
<1>6. \A l : AllDue(writer', l) = Nothing
  BY <1>5, DueNone DEF Resting
<1>7. \A l \in Learners : /\ AllDue(writer', l).studies + x[l].studies = AllDue(writer, l).studies
                          /\ AllDue(writer', l).tokens + x[l].tokens = AllDue(writer, l).tokens
  <2> TAKE l \in Learners
  <2>1. x[l].studies \in Nat /\ x[l].tokens \in Nat /\ x[l] = AllDue(writer, l)
    BY <1>4, Numbers
  <2>2. AllDue(writer', l).studies = 0 /\ AllDue(writer', l).tokens = 0
    BY <1>6 DEF Nothing
  <2> HIDE DEF x
  <2>3. QED
    BY <2>1, <2>2
<1>8. \A l \in Learners : account[l] = "none" => x[l] = Nothing
  BY <1>1, DueNone DEF CountersInv, Unseen
<1> HIDE DEF x
<1>9. QED
  BY <1>2, <1>3, <1>4, <1>5, <1>7, <1>8, CountersLose

LEMMA CountersDelete ==
    ASSUME CountersInv, NEW l \in Learners, DeleteStudy(l)
    PROVE  CountersInv'
<1>1. /\ serving /\ Exists(l) /\ kept[l] > 0 /\ kept' = [kept EXCEPT ![l] = @ - 1]
      /\ UNCHANGED <<account, making, log, ranked, stats, writer, today, serving, tally>>
  BY DEF DeleteStudy
<1>2. kept \in [Learners -> Nat] /\ tally \in [Learners -> Tally]
  BY DEF CountersInv, StandingTypes
<1>3. /\ kept' \in [Learners -> Nat] /\ kept'[l] <= kept[l]
      /\ \A k \in Learners \ {l} : kept'[k] = kept[k]
  BY <1>1, <1>2
<1>4. StandingTypes'
  BY <1>1, <1>3 DEF CountersInv, StandingTypes
<1>5. ASSUME NEW k \in Learners PROVE Unseen(k)'
  <2>1. account[k] = "none" => k # l
    BY <1>1 DEF Exists, Is
  <2>2. QED
    BY <1>1, <1>3, <2>1 DEF CountersInv, Unseen
<1>6. ASSUME NEW k \in Learners PROVE LearnerBalanced(k)'
  <2>1. SUFFICES ASSUME Exists(k)
                 PROVE  Balanced(serving, kept'[k], tally[k], stats[k], AllDue(writer, k), Spent(log, k))
    BY <1>1 DEF LearnerBalanced, Exists, Is
  <2> DEFINE t0 == tally[k]
             s0 == stats[k]
             d0 == AllDue(writer, k)
             n0 == Spent(log, k)
             k0 == kept[k]
             k1 == kept'[k]
  <2>2. k0 \in Nat /\ k1 \in Nat /\ t0 \in Tally /\ k1 <= k0
    BY <1>2, <1>3
  <2>3. Balanced(serving, k0, t0, s0, d0, n0)
    BY <2>1 DEF CountersInv, LearnerBalanced
  <2>4. Balanced(TRUE, k0, t0, s0, d0, n0)
    BY <1>1, <2>3 DEF Balanced
  <2> HIDE DEF t0, s0, d0, n0, k0, k1
  <2>5. Balanced(TRUE, k1, t0, s0, d0, n0)
    BY <2>2, <2>4, BalancedShrinks
  <2>6. Balanced(serving, k1, t0, s0, d0, n0)
    BY <1>1, <2>5 DEF Balanced
  <2>7. QED
    BY <2>6 DEF t0, s0, d0, n0, k1
<1>7. QED
  BY <1>1, <1>4, <1>5, <1>6 DEF CountersInv

LEMMA CountersForget ==
    ASSUME CountersInv, NEW l \in Learners, DeleteLearner(l)
    PROVE  CountersInv'
<1>1. /\ serving /\ Exists(l) /\ account' = [account EXCEPT ![l] = "gone"]
      /\ making' = making \ {l} /\ kept' = [kept EXCEPT ![l] = 0]
      /\ log' = Without(log, l) /\ ranked' = Without(ranked, l)
      /\ stats' = [stats EXCEPT ![l] = NoStats] /\ tally' = [tally EXCEPT ![l] = NewTally]
      /\ UNCHANGED <<writer, today, serving>>
  BY DEF DeleteLearner, Forgotten
<1>2. /\ account \in [Learners -> {"none", "row", "shown", "gone"}] /\ kept \in [Learners -> Nat]
      /\ tally \in [Learners -> Tally] /\ stats \in [Learners -> Stats]
      /\ IsTable(log, LogRows) /\ IsTable(ranked, RankedRows)
  BY DEF CountersInv, StandingTypes
<1>3. IsTable(Without(log, l), LogRows) /\ IsTable(Without(ranked, l), RankedRows)
  BY <1>2, TableWithout
<1>4. /\ account' \in [Learners -> {"none", "row", "shown", "gone"}] /\ kept' \in [Learners -> Nat]
      /\ tally' \in [Learners -> Tally] /\ stats' \in [Learners -> Stats]
  BY <1>1, <1>2, NothingTypes
<1>5. StandingTypes'
  BY <1>1, <1>3, <1>4 DEF CountersInv, StandingTypes
<1>6. ASSUME NEW k \in Learners, k # l
      PROVE  /\ account'[k] = account[k] /\ kept'[k] = kept[k] /\ tally'[k] = tally[k] /\ stats'[k] = stats[k]
             /\ Spent(log', k) = Spent(log, k)
  <2>1. Rows(Without(log, l), k, AllTime) = Rows(log, k, AllTime)
    BY <1>2, <1>6, TableWithout
  <2>2. Spent(log', k) = Spent(log, k)
    BY <1>1, <2>1 DEF Spent
  <2>3. QED
    BY <1>1, <1>2, <1>6, <2>2
<1>7. account'[l] = "gone"
  BY <1>1, <1>2
<1>8. ASSUME NEW k \in Learners PROVE Unseen(k)'
  <2>1. CASE k = l
    BY <1>7, <2>1 DEF Unseen
  <2>2. CASE k # l
    BY <1>1, <1>6, <2>2 DEF CountersInv, Unseen
  <2>3. QED
    BY <2>1, <2>2
<1>9. ASSUME NEW k \in Learners PROVE LearnerBalanced(k)'
  <2>1. CASE k = l
    BY <1>7, <2>1 DEF LearnerBalanced, Exists, Is
  <2>2. CASE k # l
    BY <1>1, <1>6, <2>2 DEF CountersInv, LearnerBalanced, Exists, Is
  <2>3. QED
    BY <2>1, <2>2
<1>10. QED
  BY <1>1, <1>5, <1>8, <1>9 DEF CountersInv

\* Rows of counters are made that count what is there, for some who exist.
LEMMA CountersCount ==
    ASSUME CountersInv, (serving' <=> serving) \/ serving',
           account' \in [Learners -> {"none", "row", "shown", "gone"}],
           \A l \in Learners : account'[l] = "none" <=> account[l] = "none",
           \A l \in Learners : account'[l] = "gone" <=> account[l] = "gone",
           stats' \in [Learners -> Stats],
           \A l \in Learners : \/ stats'[l] = stats[l] /\ (serving' <=> serving)
                               \/ account[l] = "gone" /\ stats'[l] = stats[l]
                               \/ account[l] = "none" /\ stats'[l] = stats[l]
                               \/ Exists(l) /\ stats'[l] = Counted(l),
           ~serving' => making' = {},
           UNCHANGED <<kept, log, ranked, writer, today, tally>>
    PROVE  CountersInv'
<1> DEFINE up == serving'
<1>1. StandingTypes'
  BY DEF CountersInv, StandingTypes
<1>2. /\ kept \in [Learners -> Nat] /\ tally \in [Learners -> Tally] /\ stats \in [Learners -> Stats]
      /\ IsTable(log, LogRows) /\ writer \in [Writers -> Entries]
  BY DEF CountersInv, StandingTypes
<1>3. ASSUME NEW l \in Learners PROVE Unseen(l)'
  <2>1. account[l] = "none" => stats'[l] = stats[l]
    BY DEF Exists, Is
  <2>2. QED
    BY <2>1 DEF CountersInv, Unseen
<1>4. ASSUME NEW l \in Learners PROVE LearnerBalanced(l)'
  <2>1. SUFFICES ASSUME Exists(l)'
                 PROVE  Balanced(up, kept[l], tally[l], stats'[l], AllDue(writer, l), Spent(log, l))
    BY DEF LearnerBalanced
  <2>2. Exists(l)
    <3>1. account'[l] # "none" /\ account'[l] # "gone"
      BY <2>1 DEF Exists, Is
    <3>2. account[l] # "none" /\ account[l] # "gone" /\ account[l] \in {"none", "row", "shown", "gone"}
      BY <3>1 DEF CountersInv, StandingTypes
    <3>3. QED
      BY <3>2 DEF Exists, Is
  <2> DEFINE t0 == tally[l]
             s0 == stats[l]
             s1 == stats'[l]
             d0 == AllDue(writer, l)
             n0 == Spent(log, l)
             k0 == kept[l]
  <2>3. Balanced(serving, k0, t0, s0, d0, n0)
    BY <2>2 DEF CountersInv, LearnerBalanced
  <2>4. k0 \in Nat /\ t0 \in Tally /\ s0 \in Stats /\ d0 \in Delta /\ n0 \in Nat
    BY <1>2, SpentType, DueTypes
  <2>5. CASE s1 = s0 /\ (up <=> serving)
    BY <2>3, <2>5 DEF Balanced
  <2>6. CASE stats'[l] = Counted(l)
    <3>1. s1 = IF s0.row THEN s0 ELSE [row |-> TRUE, studies |-> k0, tokens |-> n0]
      BY <2>6 DEF Counted, Logged, Spent
    <3> HIDE DEF t0, s0, s1, d0, n0, k0, up
    <3>2. Balanced(FALSE, k0, t0, s0, d0, n0)
      BY <2>3 DEF Balanced
    <3>3. Balanced(FALSE, k0, t0, s1, d0, n0) /\ Balanced(TRUE, k0, t0, s1, d0, n0)
      BY <2>4, <3>1, <3>2, BalancedCounted
    <3>4. Balanced(up, k0, t0, s1, d0, n0)
      BY <3>3 DEF Balanced
    <3>5. QED
      BY <3>4 DEF t0, s1, d0, n0, k0, up
  <2>7. QED
    BY <2>2, <2>5, <2>6 DEF Exists, Is
<1>5. ~serving' => making' = {} /\ writer' = [w \in Writers |-> Resting]
  BY DEF CountersInv
<1>6. \A w \in Writers : \A k, l \in writer'[w].of : k = l
  BY DEF CountersInv
<1>7. QED
  BY <1>1, <1>3, <1>4, <1>5, <1>6 DEF CountersInv

LEMMA CountedType ==
    ASSUME CountersInv, NEW l \in Learners
    PROVE  Counted(l) \in Stats
<1>1. kept[l] \in Nat /\ stats[l] \in Stats /\ IsTable(log, LogRows)
  BY DEF CountersInv, StandingTypes
<1>2. Spent(log, l) \in Nat
  BY <1>1, SpentType
<1>3. Counted(l) = IF stats[l].row THEN stats[l] ELSE [row |-> TRUE, studies |-> kept[l], tokens |-> Spent(log, l)]
  BY DEF Counted, Logged, Spent
<1>4. QED
  BY <1>1, <1>2, <1>3 DEF Stats

LEMMA CountersInsert ==
    ASSUME CountersInv, NEW l \in Learners, InsertStats(l)
    PROVE  CountersInv'
<1>1. /\ account[l] = "shown" /\ stats' = [stats EXCEPT ![l] = Counted(l)] /\ making' = making \ {l} /\ l \in making
      /\ UNCHANGED <<account, kept, log, ranked, writer, today, serving, tally>>
  BY DEF InsertStats
<1>2. stats \in [Learners -> Stats] /\ account \in [Learners -> {"none", "row", "shown", "gone"}]
  BY DEF CountersInv, StandingTypes
<1>3. Counted(l) \in Stats
  BY CountedType
<1>4. stats' \in [Learners -> Stats] /\ stats'[l] = Counted(l) /\ \A k \in Learners \ {l} : stats'[k] = stats[k]
  BY <1>1, <1>2, <1>3
<1>5. Exists(l) /\ (~serving => making' = {})
  BY <1>1 DEF Exists, Is, CountersInv
<1>6. \A k \in Learners : \/ stats'[k] = stats[k] /\ (serving' <=> serving)
                          \/ Exists(k) /\ stats'[k] = Counted(k)
  BY <1>1, <1>4, <1>5
<1>7. QED
  BY <1>1, <1>2, <1>4, <1>5, <1>6, CountersCount

LEMMA CountersRestart ==
    ASSUME CountersInv, Restart
    PROVE  CountersInv'
<1>1. /\ ~serving /\ serving' = TRUE
      /\ account' = [l \in Learners |-> IF account[l] = "row" THEN "shown" ELSE account[l]]
      /\ stats' = [l \in Learners |-> IF Exists(l) THEN Counted(l) ELSE stats[l]]
      /\ UNCHANGED <<making, kept, log, ranked, writer, today, tally>>
  BY DEF Restart, EnsuredStats
<1>2. stats \in [Learners -> Stats] /\ account \in [Learners -> {"none", "row", "shown", "gone"}]
  BY DEF CountersInv, StandingTypes
<1>3. /\ account' \in [Learners -> {"none", "row", "shown", "gone"}]
      /\ \A l \in Learners : account'[l] = "none" <=> account[l] = "none"
      /\ \A l \in Learners : account'[l] = "gone" <=> account[l] = "gone"
  BY <1>1, <1>2
<1>4. stats' \in [Learners -> Stats]
  BY <1>1, <1>2, CountedType
<1>5. \A l \in Learners : \/ account[l] = "gone" /\ stats'[l] = stats[l]
                          \/ account[l] = "none" /\ stats'[l] = stats[l]
                          \/ Exists(l) /\ stats'[l] = Counted(l)
  BY <1>1, <1>2 DEF Exists, Is
<1>6. QED
  BY <1>1, <1>3, <1>4, <1>5, CountersCount

LEMMA RankedTypes ==
    ASSUME NEW p \in Papers
    PROVE  ScoreCents(p) \in Nat /\ WeightedScoreCents(p) \in Nat
<1>1. p.correct \in 0..15 /\ p.preset \in {"moderate", "fast", "long"}
  BY StandingsAssumption
<1>2. /\ quizPreset(p.preset).count \in {5, 10, 15}
      /\ quizPreset(p.preset).weight \in {50, 100, 200}
  BY <1>1 DEF quizPreset
<1>3. ASSUME NEW c \in 0..15, NEW n \in {5, 10, 15} PROVE (c * 1000 + n \div 2) \div n \in Nat
  BY <1>3
<1>4. ScoreCents(p) \in Nat
  BY <1>1, <1>2, <1>3 DEF ScoreCents
<1>5. ASSUME NEW s \in Nat, NEW w \in {50, 100, 200} PROVE (s * w + 50) \div 100 \in Nat
  BY <1>5
<1>6. QED
  BY <1>2, <1>4, <1>5 DEF WeightedScoreCents

LEMMA CountersRanked ==
    ASSUME CountersInv, NEW l \in Learners, NEW p \in Papers, RecordRanked(l, p)
    PROVE  CountersInv'
<1> DEFINE e == [user |-> l, score |-> ScoreCents(p), weighted |-> WeightedScoreCents(p), at |-> today]
<1>1. /\ ranked' = Added(ranked, e)
      /\ UNCHANGED <<account, making, kept, log, stats, writer, today, serving, tally>>
  BY DEF RecordRanked, Added
<1>2. IsTable(ranked, RankedRows) /\ today \in 0..MaxToday
      /\ account \in [Learners -> {"none", "row", "shown", "gone"}]
  BY DEF CountersInv, StandingTypes
<1>3. e \in RankedRows
  BY <1>2, RankedTypes DEF RankedRows
<1> HIDE DEF e
<1>4. IsTable(Added(ranked, e), RankedRows)
  BY <1>2, <1>3, TableAdds
<1>5. IsTable(ranked', RankedRows)
  BY <1>1, <1>4
<1>6. ~serving => making' = {}
  BY <1>1 DEF CountersInv
<1>7. QED
  BY <1>1, <1>2, <1>5, <1>6, CountersFrame

LEMMA CountersStay ==
    ASSUME CountersInv, LearnersNext \/ WritersNext \/ BoardsNext \/ UNCHANGED standingVars
    PROVE  CountersInv'
<1>1. /\ account \in [Learners -> {"none", "row", "shown", "gone"}] /\ IsTable(ranked, RankedRows)
      /\ today \in 0..MaxToday /\ (~serving => making = {})
  BY DEF CountersInv, StandingTypes
<1>2. ASSUME NEW l \in Learners, Register(l) PROVE CountersInv'
  <2>1. /\ serving /\ account[l] = "none" /\ account' = [account EXCEPT ![l] = "row"]
        /\ UNCHANGED <<kept, log, ranked, stats, writer, today, serving, tally>>
    BY <1>2 DEF Register
  <2>2. QED
    BY <1>1, <2>1, CountersFrame
<1>3. ASSUME NEW l \in Learners, InsertIdentity(l) PROVE CountersInv'
  <2>1. /\ account[l] = "row" /\ account' = [account EXCEPT ![l] = "shown"]
        /\ UNCHANGED <<making, kept, log, ranked, stats, writer, today, serving, tally>>
    BY <1>3 DEF InsertIdentity
  <2>2. QED
    BY <1>1, <2>1, CountersFrame
<1>4. ASSUME NEW l \in Learners, GiveUp(l) PROVE CountersInv'
  <2>1. /\ making' = making \ {l}
        /\ UNCHANGED <<account, kept, log, ranked, stats, writer, today, serving, tally>>
    BY <1>4 DEF GiveUp
  <2>2. QED
    BY <1>1, <2>1, CountersFrame
<1>5. ASSUME NextDay PROVE CountersInv'
  <2>1. /\ today < MaxToday /\ today' = today + 1
        /\ UNCHANGED <<account, making, kept, log, ranked, stats, writer, serving, tally>>
    BY <1>5 DEF NextDay
  <2>2. today' \in 0..MaxToday
    BY <1>1, <2>1, ConstantsOfStandings
  <2>3. QED
    BY <1>1, <2>1, <2>2, CountersFrame
<1>6. ASSUME UNCHANGED standingVars PROVE CountersInv'
  <2>1. UNCHANGED <<account, making, kept, log, ranked, stats, writer, today, serving, tally>>
    BY <1>6 DEF standingVars
  <2>2. QED
    BY <1>1, <2>1, CountersFrame
<1>7. ASSUME LearnersNext PROVE CountersInv'
  BY <1>2, <1>3, <1>4, <1>5, <1>7, CountersInsert, CountersForget, CountersStop, CountersRestart DEF LearnersNext
<1>8. ASSUME WritersNext PROVE CountersInv'
  BY <1>8, CountersCreate, CountersUsage, CountersRecord, CountersFail, CountersDelete DEF WritersNext
<1>9. ASSUME BoardsNext PROVE CountersInv'
  BY <1>9, CountersRanked DEF BoardsNext
<1>10. QED
  BY <1>6, <1>7, <1>8, <1>9

LEMMA EmptyTable ==
    \A X : IsTable(EmptyBag, X) /\ \A l, p : Rows(EmptyBag, l, p) = EmptyBag
<1>1. EmptyBag = [e \in {} |-> 1] /\ DOMAIN EmptyBag = {}
  BY DEF EmptyBag, SetToBag
<1>2. IsFiniteSet({})
  BY FS_EmptySet
<1>3. \A X : IsTable(EmptyBag, X)
  BY <1>1, <1>2 DEF IsTable, IsABag
<1>4. ASSUME NEW l, NEW p PROVE Rows(EmptyBag, l, p) = EmptyBag
  <2>1. {r \in DOMAIN EmptyBag : r.user = l /\ In(r, p)} = {}
    BY <1>1
  <2>2. QED
    BY <1>1, <2>1 DEF Rows
<1>5. QED
  BY <1>3, <1>4

LEMMA SpentNothing ==
    \A l : Spent(EmptyBag, l) = 0
<1> TAKE l
<1> DEFINE f == [r \in {} |-> r.tokens * EmptyBag[r]]
<1>1. Part(EmptyBag, l, AllTime) = {}
  BY DEF Part, EmptyBag, SetToBag
<1>2. Spent(EmptyBag, l) = TokensIn(EmptyBag, {})
  BY <1>1, TokensOfRows DEF Spent
<1>3. TokensIn(EmptyBag, {}) = SumFunctionOnSet(f, {})
  BY DEF TokensIn
<1> HIDE DEF f
<1>4. SumFunctionOnSet(f, {}) = 0
  BY FS_EmptySet, SumType
<1>5. QED
  BY <1>2, <1>3, <1>4

LEMMA CountersBegin == StandingsInit => CountersInv
<1> SUFFICES ASSUME StandingsInit PROVE CountersInv
  OBVIOUS
<1>1. /\ account \in [Learners -> {"none", "row", "gone"}]
      /\ kept = [l \in Learners |-> IF Exists(l) /\ MaxStudies > 0 THEN 1 ELSE 0]
      /\ making = {} /\ log = EmptyBag /\ ranked = EmptyBag /\ today = 0 /\ ~serving
      /\ stats = [l \in Learners |-> NoStats]
      /\ writer = [w \in Writers |-> Resting]
      /\ tally = [l \in Learners |-> [NewTally EXCEPT !.ever = kept[l]]]
  BY DEF StandingsInit
<1>2. kept \in [Learners -> Nat]
  BY <1>1
<1>3. \A l \in Learners : tally[l] = [ever |-> kept[l], early |-> Nothing, lost |-> Nothing]
  BY <1>1 DEF NewTally
<1>4. tally \in [Learners -> Tally]
  BY <1>1, <1>2, <1>3, NothingTypes DEF Tally
<1>5. stats \in [Learners -> Stats] /\ writer \in [Writers -> Entries] /\ today \in 0..MaxToday
  BY <1>1, NothingTypes, ConstantsOfStandings
<1>6. IsTable(log, LogRows) /\ IsTable(ranked, RankedRows)
  BY <1>1, EmptyTable
<1>7. StandingTypes
  BY <1>1, <1>2, <1>4, <1>5, <1>6 DEF StandingTypes
<1>8. ASSUME NEW l \in Learners PROVE Spent(log, l) = 0 /\ AllDue(writer, l) = Nothing /\ \A w \in Writers : l \notin writer[w].of
  <2>1. \A w \in Writers : l \notin writer[w].of
    BY <1>1 DEF Resting
  <2>2. QED
    BY <1>1, <1>5, <2>1, SpentNothing, DueNone
<1>9. ASSUME NEW l \in Learners PROVE Unseen(l)
  <2>1. account[l] = "none" => kept[l] = 0
    BY <1>1 DEF Exists, Is
  <2>2. account[l] = "none" => tally[l] = NewTally
    BY <1>3, <2>1 DEF NewTally
  <2>3. stats[l] = NoStats
    BY <1>1
  <2>4. QED
    BY <1>8, <2>1, <2>2, <2>3 DEF Unseen
<1>10. ASSUME NEW l \in Learners PROVE LearnerBalanced(l)
  <2>1. stats[l] = NoStats /\ kept[l] \in Nat
    BY <1>1, <1>2
  <2>2. ~NoStats.row /\ NoStats.studies = 0 /\ NoStats.tokens = 0 /\ Nothing.studies = 0 /\ Nothing.tokens = 0
    BY DEF NoStats, Nothing
  <2>3. tally[l].ever = kept[l] /\ tally[l].lost = Nothing /\ tally[l].early = Nothing
    <3>1. tally[l] = [ever |-> kept[l], early |-> Nothing, lost |-> Nothing]
      BY <1>3, <1>10
    <3>2. QED
      BY <3>1
  <2>4. Balanced(serving, kept[l], tally[l], NoStats, Nothing, 0)
    BY <1>1, <2>1, <2>2, <2>3 DEF Balanced
  <2>5. QED
    BY <1>8, <2>1, <2>4 DEF LearnerBalanced
<1>11. \A w \in Writers : \A k, l \in writer[w].of : k = l
  BY <1>1 DEF Resting
<1>12. QED
  BY <1>1, <1>7, <1>9, <1>10, <1>11 DEF CountersInv

\* The counters of a learner and what they count add up, whichever telemetry was lost and
\* whenever the process stopped (TelemetryRepo.Record, ensureUserMetadata).
THEOREM CountersAddUp == Spec => []StatsAddUp
<1>1. Init => CountersInv
  BY CountersBegin DEF Init
<1>2. CountersInv /\ [Next]_serverVars => CountersInv'
  BY CountersStay DEF Next, serverVars, standingVars
<1>3. CountersInv => StatsAddUp
  <2> SUFFICES ASSUME CountersInv, serving, NEW l \in Learners, Exists(l)
               PROVE  LET ever    == [studies |-> tally[l].ever, tokens |-> Tokens(Logged(l, AllTime))]
                          written == Plus(Plus(View(l), tally[l].lost), Unrecorded(l, Writers))
                          most    == Plus(ever, tally[l].early)
                      IN  /\ ever.studies <= written.studies /\ written.studies <= most.studies
                          /\ ever.tokens <= written.tokens /\ written.tokens <= most.tokens
    BY DEF StatsAddUp
  <2> DEFINE t == tally[l]
             s == stats[l]
             d == AllDue(writer, l)
             n == Spent(log, l)
             k == kept[l]
             v == Plus(Plus(View(l), t.lost), d)
  <2>1. k \in Nat /\ t \in Tally /\ s \in Stats /\ d \in Delta /\ n \in Nat
    BY SpentType, DueTypes DEF CountersInv, StandingTypes
  <2>2. Balanced(TRUE, k, t, s, d, n)
    BY DEF CountersInv, LearnerBalanced, Balanced
  <2>3. View(l).studies = s.studies /\ View(l).tokens = s.tokens
    BY DEF View
  <2>4. Tokens(Logged(l, AllTime)) = n /\ Unrecorded(l, Writers) = d
    BY UnrecordedAll DEF Logged, Spent
  <2> HIDE DEF t, s, d, n, k
  <2>5. v.studies = (s.studies + t.lost.studies) + d.studies /\ v.tokens = (s.tokens + t.lost.tokens) + d.tokens
    BY <2>3 DEF Plus
  <2>6. /\ TallyNumbers(t) /\ d.studies \in Nat /\ d.tokens \in Nat /\ s.studies \in Nat /\ s.tokens \in Nat
    BY <2>1, Numbers
  <2> HIDE DEF v
  <2>7. /\ t.ever <= v.studies /\ v.studies <= t.ever + t.early.studies
        /\ n <= v.tokens /\ v.tokens <= n + t.early.tokens
    <3>1. CASE s.row
      BY <2>2, <2>5, <3>1 DEF Balanced
    <3>2. CASE ~s.row
      <4>1. /\ s.studies = 0 /\ s.tokens = 0 /\ t.lost.tokens + d.tokens = n
            /\ t.lost.studies + d.studies = t.ever
        BY <2>2, <3>2 DEF Balanced
      <4>2. v.studies = t.ever /\ v.tokens = n
        BY <2>5, <2>6, <4>1 DEF TallyNumbers
      <4>3. QED
        BY <2>1, <2>6, <4>2 DEF TallyNumbers
    <3>3. QED
      BY <3>1, <3>2
  <2>8. QED
    BY <2>4, <2>7 DEF Plus, v, t
<1>4. QED
  BY <1>1, <1>2, <1>3, PTL DEF Spec

-----------------------------------------------------------------------------
(* Months and ranks *)

LEMMA Division ==
    /\ \A a \in Nat, b \in Nat \ {0} : a \div b \in Nat /\ b * (a \div b) <= a /\ a < b * (a \div b) + b
    /\ \A a, q \in Nat, b \in Nat \ {0} : b * q <= a /\ a < b * q + b => a \div b = q
BY SMT

LEMMA TimesMore ==
    \A a, b, c \in Nat : a <= b => a * c <= b * c /\ c * a <= c * b
BY SMT

LEMMA TimesTurned ==
    \A a, b \in Nat : a * b = b * a
BY SMT

\* Every moment is in one month.
LEMMA MonthIs ==
    ASSUME NEW row, row.at \in 0..MaxToday
    PROVE  /\ row.at \div MonthLength \in Months
           /\ \A m \in Months : In(row, MonthOf(m)) <=> row.at \div MonthLength = m
<1>1. MonthLength \in Nat \ {0} /\ MaxToday \in Nat /\ row.at \in Nat /\ row.at <= MaxToday
  BY ConstantsOfStandings
<1> DEFINE at == row.at
           q == at \div MonthLength
           top == MaxToday \div MonthLength
<1>2. /\ q \in Nat /\ MonthLength * q <= at /\ at < MonthLength * q + MonthLength
      /\ top \in Nat /\ MonthLength * top <= MaxToday /\ MaxToday < MonthLength * top + MonthLength
  BY <1>1, Division
<1>3. q <= top
  <2>1. SUFFICES ASSUME top + 1 <= q PROVE FALSE
    BY <1>2
  <2> HIDE DEF q, top, at
  <2>2. MonthLength * (top + 1) <= MonthLength * q
    BY <1>1, <1>2, <2>1, TimesMore
  <2>3. MonthLength * (top + 1) = MonthLength * top + MonthLength * 1 /\ MonthLength * 1 = MonthLength
    BY <1>1, <1>2, TimesPlus
  <2>4. MonthLength * q \in Nat /\ MonthLength * top \in Nat /\ at \in Nat /\ at <= MaxToday
    BY <1>1, <1>2, TimesPlus DEF at
  <2>5. QED
    BY <1>1, <1>2, <2>2, <2>3, <2>4
<1>4. q \in Months
  BY <1>2, <1>3 DEF Months
<1>5. ASSUME NEW m \in Months PROVE In(row, MonthOf(m)) <=> q = m
  <2>1. m \in Nat
    BY <1>2 DEF Months
  <2>2. /\ m * MonthLength = MonthLength * m /\ (m + 1) * MonthLength = MonthLength * m + MonthLength
        /\ MonthLength * m \in Nat
    <3>1. (m + 1) * MonthLength = MonthLength * (m + 1) /\ m * MonthLength = MonthLength * m
      BY <1>1, <2>1, TimesTurned
    <3>2. MonthLength * (m + 1) = MonthLength * m + MonthLength * 1 /\ MonthLength * 1 = MonthLength
      BY <1>1, <2>1, TimesPlus
    <3>3. QED
      BY <1>1, <2>1, <3>1, <3>2, TimesPlus
  <2>3. MonthOf(m) # AllTime /\ MonthOf(m)[1] = m * MonthLength /\ MonthOf(m)[2] = (m + 1) * MonthLength
    BY DEF MonthOf, AllTime
  <2>4. In(row, MonthOf(m)) <=> MonthLength * m <= at /\ at < MonthLength * m + MonthLength
    BY <2>2, <2>3 DEF In
  <2>5. MonthLength * m <= at /\ at < MonthLength * m + MonthLength => q = m
    BY <1>1, <2>1, Division
  <2>6. q = m => MonthLength * m <= at /\ at < MonthLength * m + MonthLength
    BY <1>2
  <2>7. QED
    BY <2>4, <2>5, <2>6
<1>6. QED
  BY <1>4, <1>5

\* What each row adds to what a board lists.
Metrics == {"nota", "quizzes", "tokens"}

Table(metric) == IF metric = "tokens" THEN log ELSE ranked

Worth(metric, r) ==
    CASE metric = "nota"    -> r.weighted * ranked[r]
      [] metric = "quizzes" -> ranked[r]
      [] metric = "tokens"  -> r.tokens * log[r]

Worths(metric) == [r \in DOMAIN Table(metric) |-> Worth(metric, r)]

LEMMA WorthType ==
    ASSUME StandingTypes, NEW metric \in Metrics
    PROVE  /\ IsFiniteSet(DOMAIN Table(metric))
           /\ \A r \in DOMAIN Table(metric) : /\ Worths(metric)[r] = Worth(metric, r) /\ Worths(metric)[r] \in Nat
                                              /\ r.at \in 0..MaxToday
<1>1. /\ \A r \in DOMAIN ranked : /\ ranked[r] \in Nat /\ r.weighted \in Nat /\ r.at \in 0..MaxToday
      /\ \A r \in DOMAIN log : /\ log[r] \in Nat /\ r.tokens \in Nat /\ r.at \in 0..MaxToday
      /\ IsFiniteSet(DOMAIN ranked) /\ IsFiniteSet(DOMAIN log)
  BY ConstantsOfStandings DEF StandingTypes, IsTable, IsABag, RankedRows, LogRows
<1>2. /\ \A r \in DOMAIN ranked : r.weighted * ranked[r] \in Nat
      /\ \A r \in DOMAIN log : r.tokens * log[r] \in Nat
  BY <1>1, TimesPlus
<1>3. ASSUME NEW r \in DOMAIN Table(metric)
      PROVE  Worths(metric)[r] = Worth(metric, r) /\ Worth(metric, r) \in Nat /\ r.at \in 0..MaxToday
  <2>1. Worths(metric)[r] = Worth(metric, r)
    BY DEF Worths
  <2>2. CASE metric = "nota"
    BY <1>1, <1>2, <2>1, <2>2 DEF Worth, Table
  <2>3. CASE metric = "quizzes"
    BY <1>1, <2>1, <2>3 DEF Worth, Table
  <2>4. CASE metric = "tokens"
    BY <1>1, <1>2, <2>1, <2>4 DEF Worth, Table
  <2>5. QED
    BY <2>2, <2>3, <2>4 DEF Metrics
<1>4. IsFiniteSet(DOMAIN Table(metric))
  BY <1>1 DEF Table
<1>5. QED
  BY <1>3, <1>4

\* The value of a learner on a board is the worth of the rows it is made of.
LEMMA ValueIs ==
    ASSUME StandingTypes, NEW metric \in Metrics, NEW l, NEW p
    PROVE  /\ Value(metric, l, p) = SumFunctionOnSet(Worths(metric), Part(Table(metric), l, p))
           /\ Value(metric, l, p) \in Nat
<1> DEFINE R == Part(Table(metric), l, p)
           f == Worths(metric)
           F == Rows(Table(metric), l, p)
<1>1. R \in SUBSET DOMAIN Table(metric) /\ IsFiniteSet(R)
  BY WorthType, FS_Subset DEF Part
<1>2. \A r \in R : f[r] = Worth(metric, r) /\ f[r] \in Nat
  BY <1>1, WorthType
<1>3. DOMAIN F = R /\ F = [r \in R |-> Table(metric)[r]] /\ \A r \in R : F[r] = Table(metric)[r]
  BY DEF Rows, Part
<1> DEFINE g == CASE metric = "nota"    -> [r \in R |-> r.weighted * F[r]]
                  [] metric = "quizzes" -> F
                  [] metric = "tokens"  -> [r \in R |-> r.tokens * F[r]]
<1> HIDE DEF R, f, F
<1>4. Value(metric, l, p) = SumFunctionOnSet(g, R)
  <2>1. CASE metric = "nota"
    <3>1. Results(l, p) = F
      BY <2>1 DEF Results, Table, F
    <3>2. Value(metric, l, p) = Points(F)
      BY <2>1, <3>1 DEF Value
    <3>3. Points(F) = SumFunction([r \in R |-> r.weighted * F[r]])
      BY <1>3 DEF Points
    <3>4. g = [r \in R |-> r.weighted * F[r]]
      BY <2>1
    <3>5. DOMAIN g = R
      BY <3>4
    <3> HIDE DEF g
    <3>6. QED
      BY <3>2, <3>3, <3>4, <3>5 DEF SumFunction
  <2>2. CASE metric = "quizzes"
    <3>1. Results(l, p) = F
      BY <2>2 DEF Results, Table, F
    <3>2. Value(metric, l, p) = Count(F)
      BY <2>2, <3>1 DEF Value
    <3>3. g = F
      BY <2>2
    <3> HIDE DEF g
    <3>4. QED
      BY <1>3, <3>2, <3>3 DEF Count, SumFunction
  <2>3. CASE metric = "tokens"
    <3>1. Logged(l, p) = F
      BY <2>3 DEF Logged, Table, F
    <3>2. Value(metric, l, p) = Tokens(F)
      BY <2>3, <3>1 DEF Value
    <3>3. Tokens(F) = SumFunction([r \in R |-> r.tokens * F[r]])
      BY <1>3 DEF Tokens
    <3>4. g = [r \in R |-> r.tokens * F[r]]
      BY <2>3
    <3>5. DOMAIN g = R
      BY <3>4
    <3> HIDE DEF g
    <3>6. QED
      BY <3>2, <3>3, <3>4, <3>5 DEF SumFunction
  <2>4. QED
    BY <2>1, <2>2, <2>3 DEF Metrics
<1>5. \A r \in R : g[r] = f[r]
  <2>1. CASE metric = "nota"
    BY <1>2, <1>3, <2>1 DEF Worth, Table
  <2>2. CASE metric = "quizzes"
    BY <1>2, <1>3, <2>2 DEF Worth, Table
  <2>3. CASE metric = "tokens"
    BY <1>2, <1>3, <2>3 DEF Worth, Table
  <2>4. QED
    BY <2>1, <2>2, <2>3 DEF Metrics
<1> HIDE DEF g
<1>6. SumFunctionOnSet(g, R) = SumFunctionOnSet(f, R) /\ SumFunctionOnSet(f, R) \in Nat
  BY <1>1, <1>2, <1>5, SumEqual, SumType
<1>7. QED
  BY <1>4, <1>6 DEF f, R

LEMMA MonthsSum ==
    ASSUME StandingTypes
    PROVE  MonthsAddUp
<1> SUFFICES ASSUME NEW metric \in Metrics, NEW l
             PROVE  Value(metric, l, AllTime) = SumFunction([m \in Months |-> Value(metric, l, MonthOf(m))])
  BY DEF MonthsAddUp, Metrics
<1> DEFINE B == Table(metric)
           f == Worths(metric)
           S == Part(B, l, AllTime)
           class == [r \in S |-> r.at \div MonthLength]
           g == [m \in Months |-> SumFunctionOnSet(f, {r \in S : class[r] = m})]
<1>1. S \in SUBSET DOMAIN B /\ IsFiniteSet(S) /\ \A r \in S : f[r] \in Nat /\ r.at \in 0..MaxToday
  <2>1. S \in SUBSET DOMAIN B
    BY DEF Part
  <2>2. QED
    BY <2>1, WorthType, FS_Subset
<1>2. IsFiniteSet(Months)
  <2>1. MaxToday \div MonthLength \in Int /\ 0 \in Int
    BY ConstantsOfStandings, Division
  <2>2. QED
    BY <2>1, FS_Interval DEF Months
<1>3. class \in [S -> Months]
  BY <1>1, MonthIs
<1>4. ASSUME NEW m \in Months PROVE {r \in S : class[r] = m} = Part(B, l, MonthOf(m))
  <2>1. S = {r \in DOMAIN B : r.user = l}
    BY InAllTime DEF Part
  <2>2. \A r \in DOMAIN B : r.at \in 0..MaxToday
    BY WorthType
  <2>3. \A r \in DOMAIN B : In(r, MonthOf(m)) <=> r.at \div MonthLength = m
    BY <2>2, MonthIs
  <2>4. QED
    BY <2>1, <2>3 DEF Part
<1>5. ASSUME NEW m \in Months PROVE Value(metric, l, MonthOf(m)) = SumFunctionOnSet(f, {r \in S : class[r] = m})
  <2>1. Value(metric, l, MonthOf(m)) = SumFunctionOnSet(f, Part(B, l, MonthOf(m)))
    BY ValueIs
  <2> HIDE DEF f, B, S, class
  <2>2. QED
    BY <1>4, <2>1
<1>6. [m \in Months |-> Value(metric, l, MonthOf(m))] = g
  <2> HIDE DEF f, B, S, class
  <2>1. QED
    BY <1>5
<1>7. DOMAIN g = Months
  OBVIOUS
<1>8. SumFunctionOnSet(g, Months) = SumFunctionOnSet(f, S)
  <2> HIDE DEF f, B, S, class
  <2>1. QED
    BY <1>1, <1>2, <1>3, SumOfClasses
<1>9. Value(metric, l, AllTime) = SumFunctionOnSet(f, S)
  BY ValueIs
<1> HIDE DEF g, f, S, class
<1>10. QED
  BY <1>6, <1>7, <1>8, <1>9 DEF SumFunction

LEMMA RankSteps ==
    /\ DOMAIN profileRanks = 1..6 /\ profileRanks[6] = 0
    /\ \A i \in 1..6 : profileRanks[i] \in Nat
    /\ \A i, j \in 1..6 : i <= j => profileRanks[j] <= profileRanks[i]
<1>1. /\ profileRanks[1] = 950 /\ profileRanks[2] = 900 /\ profileRanks[3] = 850
      /\ profileRanks[4] = 750 /\ profileRanks[5] = 600 /\ profileRanks[6] = 0
  BY DEF profileRanks
<1>2. \A i \in 1..6 : i = 1 \/ i = 2 \/ i = 3 \/ i = 4 \/ i = 5 \/ i = 6
  OBVIOUS
<1>3. \A i \in 1..6 : profileRanks[i] \in Nat
  BY <1>1, <1>2
<1>4. ASSUME NEW i \in 1..6, NEW j \in 1..6, i <= j PROVE profileRanks[j] <= profileRanks[i]
  BY <1>1, <1>2, <1>4
<1>5. DOMAIN profileRanks = 1..6
  BY DEF profileRanks
<1>6. QED
  BY <1>1, <1>3, <1>4, <1>5

\* The rank of a learner with n results, which add up to sum.
LEMMA RankIs ==
    ASSUME NEW sum \in Nat, NEW n \in Nat
    PROVE  /\ RankFor(sum, n) \in Nat /\ Average(sum, n) \in Nat /\ RankFor(sum, n) <= Average(sum, n)
           /\ n >= MinimumRankedQuizzes =>
                /\ RankFor(sum, n) * n <= sum
                /\ \A i \in DOMAIN profileRanks : profileRanks[i] * n <= sum => RankFor(sum, n) >= profileRanks[i]
<1> DEFINE met  == {i \in DOMAIN profileRanks : sum >= profileRanks[i] * n}
           rank == profileRanks[Min(met)]
<1>1. MinimumRankedQuizzes \in Nat \ {0}
  BY ConstantsOfStandings
<1>2. CASE n < MinimumRankedQuizzes
  <2>1. RankFor(sum, n) = 0 /\ ~(n >= MinimumRankedQuizzes)
    BY <1>1, <1>2 DEF RankFor
  <2>2. Average(sum, n) \in Nat
    <3>1. n # 0 => n \in Nat \ {0} /\ n \div 2 \in Nat /\ sum + n \div 2 \in Nat
      BY Division
    <3>2. n # 0 => (sum + n \div 2) \div n \in Nat
      BY <3>1, Division
    <3>3. QED
      BY <3>2 DEF Average
  <2>3. QED
    BY <2>1, <2>2
<1>3. CASE n >= MinimumRankedQuizzes
  <2>1. n \in Nat \ {0} /\ RankFor(sum, n) = rank
    BY <1>1, <1>3 DEF RankFor
  <2>2. \A i \in 1..6 : profileRanks[i] * n \in Nat
    BY RankSteps, TimesPlus
  <2>3. met \in SUBSET (1..6) /\ 6 \in met
    BY RankSteps
  <2>4. PICK least \in met : \A i \in met : least <= i
    BY <2>3, LeastIn
  <2> HIDE DEF met
  <2>5. Min(met) \in met /\ \A i \in met : Min(met) <= i
    BY <2>3, <2>4 DEF Min
  <2>6. Min(met) \in 1..6
    BY <2>3, <2>5
  <2>7. rank \in Nat /\ \A i \in met : profileRanks[i] <= rank
    BY <2>3, <2>5, <2>6, RankSteps
  <2> USE DEF met
  <2>8. rank * n <= sum /\ rank * n \in Nat
    BY <2>2, <2>5, <2>6
  <2> HIDE DEF met, rank
  <2>9. \A i \in DOMAIN profileRanks : profileRanks[i] * n <= sum => rank >= profileRanks[i]
    BY <2>2, <2>7, RankSteps DEF met
  <2>10. Average(sum, n) \in Nat /\ rank <= Average(sum, n)
    <3> DEFINE half == n \div 2
               q == (sum + half) \div n
    <3>1. half \in Nat
      BY Division
    <3>2. q \in Nat /\ sum + half < n * q + n /\ n * q <= sum + half
      BY <2>1, <3>1, Division
    <3>3. Average(sum, n) = q
      BY <2>1 DEF Average
    <3> HIDE DEF half, q
    <3>4. SUFFICES ASSUME q + 1 <= rank PROVE FALSE
      BY <2>7, <3>2, <3>3
    <3>5. (q + 1) * n <= rank * n
      BY <2>7, <3>2, <3>4, TimesMore
    <3>6. (q + 1) * n = n * (q + 1) /\ n * (q + 1) = n * q + n * 1 /\ n * 1 = n
      BY <3>2, TimesTurned, TimesPlus
    <3>7. n * q \in Nat
      BY <3>2, TimesPlus
    <3>8. QED
      BY <2>8, <3>1, <3>2, <3>5, <3>6, <3>7
  <2>11. QED
    BY <2>1, <2>7, <2>8, <2>9, <2>10
<1>4. QED
  BY <1>1, <1>2, <1>3

\* A learner's results: how many there are, what they add up to, and what each is good for.
LEMMA ResultsAre ==
    ASSUME StandingTypes, NEW l
    PROVE  LET rows == Results(l, AllTime)
           IN  /\ Score(rows) \in Nat /\ Count(rows) \in Nat
               /\ \A c \in Nat : (\A r \in DOMAIN rows : r.score >= c) => c * Count(rows) <= Score(rows)
<1> DEFINE rows == Results(l, AllTime)
           R == DOMAIN rows
           f == [r \in R |-> r.score * rows[r]]
<1>1. R \in SUBSET DOMAIN ranked /\ \A r \in R : rows[r] = ranked[r]
  BY DEF Results, Rows
<1>2. /\ \A r \in DOMAIN ranked : ranked[r] \in Nat /\ r.score \in Nat
      /\ IsFiniteSet(DOMAIN ranked)
  BY DEF StandingTypes, IsTable, IsABag, RankedRows
<1>3. IsFiniteSet(R) /\ \A r \in R : rows[r] \in Nat /\ r.score \in Nat
  BY <1>1, <1>2, FS_Subset
<1>4. \A r \in R : f[r] = r.score * rows[r] /\ f[r] \in Nat
  BY <1>3, TimesPlus
<1>5. Score(rows) = SumFunctionOnSet(f, R) /\ Count(rows) = SumFunctionOnSet(rows, R)
  <2>1. DOMAIN f = R
    OBVIOUS
  <2> HIDE DEF rows
  <2>2. Score(rows) = SumFunction(f)
    BY DEF Score
  <2> HIDE DEF f, R
  <2>3. SumFunction(f) = SumFunctionOnSet(f, R)
    BY <2>1 DEF SumFunction
  <2>4. QED
    BY <2>2, <2>3 DEF Count, SumFunction, R
<1> HIDE DEF f, R, rows
<1>6. Score(rows) \in Nat /\ Count(rows) \in Nat
  BY <1>3, <1>4, <1>5, SumType
<1>7. ASSUME NEW c \in Nat, \A r \in R : r.score >= c
      PROVE  c * Count(rows) <= Score(rows)
  <2>1. \A r \in R : c * rows[r] <= f[r]
    BY <1>3, <1>4, <1>7, TimesMore
  <2>2. c * SumFunctionOnSet(rows, R) <= SumFunctionOnSet(f, R)
    BY <1>3, <1>4, <2>1, SumAtLeast
  <2>3. QED
    BY <1>5, <2>2
<1>8. QED
  BY <1>6, <1>7 DEF R, rows

LEMMA RanksAreEarned ==
    ASSUME StandingTypes
    PROVE  /\ RanksEarned
           /\ \A l \in Learners : View(l).rank \in Nat /\ View(l).rank <= View(l).average
<1> SUFFICES ASSUME NEW l \in Learners
             PROVE  LET rows == Results(l, AllTime)
                    IN  /\ View(l).rank \in Nat /\ View(l).rank <= View(l).average
                        /\ Count(rows) >= MinimumRankedQuizzes =>
                              /\ View(l).rank * Count(rows) <= Score(rows)
                              /\ View(l).rank <= View(l).average
                              /\ \A i \in DOMAIN profileRanks :
                                    (\A r \in DOMAIN rows : r.score >= profileRanks[i]) => View(l).rank >= profileRanks[i]
  BY DEF RanksEarned
<1> DEFINE rows == Results(l, AllTime)
           sum  == Score(rows)
           n    == Count(rows)
<1>1. /\ sum \in Nat /\ n \in Nat
      /\ \A c \in Nat : (\A r \in DOMAIN rows : r.score >= c) => c * n <= sum
  BY ResultsAre
<1>2. View(l).rank = RankFor(sum, n) /\ View(l).average = Average(sum, n)
  BY DEF View
<1> HIDE DEF sum, n, rows
<1>3. /\ RankFor(sum, n) \in Nat /\ RankFor(sum, n) <= Average(sum, n)
      /\ n >= MinimumRankedQuizzes =>
            /\ RankFor(sum, n) * n <= sum
            /\ \A i \in DOMAIN profileRanks : profileRanks[i] * n <= sum => RankFor(sum, n) >= profileRanks[i]
  BY <1>1, RankIs
<1>4. \A i \in DOMAIN profileRanks : (\A r \in DOMAIN rows : r.score >= profileRanks[i]) => profileRanks[i] * n <= sum
  BY <1>1, RankSteps
<1>5. QED
  BY <1>2, <1>3, <1>4 DEF sum, n, rows

-----------------------------------------------------------------------------
(* The boards *)

Entry == [user : Nat, value : Nat]

LEMMA BeforeOrders ==
    /\ \A a \in Entry : ~Before(a, a)
    /\ \A a, b, c \in Entry : Before(a, b) /\ Before(b, c) => Before(a, c)
    /\ \A a, b \in Entry : a # b => Before(a, b) \/ Before(b, a)
<1>1. ASSUME NEW a \in Entry, NEW b \in Entry, a # b PROVE a.user # b.user \/ a.value # b.value
  BY <1>1 DEF Entry
<1>2. \A a \in Entry : a.user \in Nat /\ a.value \in Nat
  BY DEF Entry
<1>3. QED
  BY <1>1, <1>2 DEF Before

\* Among some entries there is one that comes last.
LEMMA LastEntry ==
    ASSUME NEW T, IsFiniteSet(T), T \subseteq Entry, T # {}
    PROVE  \E z \in T : \A y \in T \ {z} : Before(y, z)
<1> DEFINE Behind(z) == {y \in T : Before(z, y)}
           Sizes == {Cardinality(Behind(z)) : z \in T}
<1>1. ASSUME NEW z \in T PROVE IsFiniteSet(Behind(z)) /\ Cardinality(Behind(z)) \in Nat
  <2>1. Behind(z) \in SUBSET T
    OBVIOUS
  <2>2. QED
    BY <2>1, FS_Subset, FS_CardinalityType
<1>2. Sizes \in SUBSET Nat /\ Sizes # {}
  BY <1>1
<1> HIDE DEF Sizes
<1>3. PICK n \in Sizes : \A k \in Sizes : n <= k
  BY <1>2, LeastIn
<1> USE DEF Sizes
<1>4. PICK z \in T : Cardinality(Behind(z)) = n
  OBVIOUS
<1>5. ASSUME NEW y \in T, Before(z, y) PROVE FALSE
  <2>1. Behind(y) \in SUBSET Behind(z) /\ y \in Behind(z) /\ y \notin Behind(y)
    BY <1>5, BeforeOrders
  <2>2. n <= Cardinality(Behind(y))
    BY <1>3
  <2> HIDE DEF Behind
  <2>3. Cardinality(Behind(y)) <= Cardinality(Behind(z)) /\ Cardinality(Behind(y)) # Cardinality(Behind(z))
    BY <1>1, <2>1, FS_Subset
  <2>4. QED
    BY <1>1, <1>4, <2>2, <2>3
<1>6. QED
  BY <1>4, <1>5, BeforeOrders

Sorts(s, T) ==
    /\ s \in [1..Cardinality(T) -> T]
    /\ \A i, j \in DOMAIN s : i < j => Before(s[i], s[j])

\* Finitely many entries can be sorted.
LEMMA Sorted ==
    ASSUME NEW E, IsFiniteSet(E), E \subseteq Entry
    PROVE  \E s : Sorts(s, E)
<1> DEFINE Bad == {T \in SUBSET E : ~ \E s : Sorts(s, T)}
<1>1. Bad = {}
  <2> SUFFICES ASSUME Bad # {} PROVE FALSE
    OBVIOUS
  <2>1. Bad \in SUBSET SUBSET E
    OBVIOUS
  <2> HIDE DEF Bad
  <2>2. PICK T \in Bad : \A x \in T : T \ {x} \notin Bad
    BY <2>1, LeastSet
  <2> USE DEF Bad
  <2>3. T \in SUBSET E /\ IsFiniteSet(T) /\ T \subseteq Entry /\ Cardinality(T) \in Nat
    BY FS_Subset, FS_CardinalityType
  <2> DEFINE n == Cardinality(T)
  <2>4. CASE T = {}
    <3>1. 1..n = {}
      BY <2>4, FS_EmptySet
    <3> HIDE DEF n
    <3> DEFINE s == [i \in 1..n |-> i]
    <3>2. s \in [1..n -> T] /\ DOMAIN s = {}
      BY <3>1
    <3>3. Sorts(s, T)
      BY <3>2 DEF Sorts, n
    <3>4. QED
      BY <3>3
  <2>5. CASE T # {}
    <3>1. PICK z \in T : \A y \in T \ {z} : Before(y, z)
      BY <2>3, <2>5, LastEntry
    <3>2. Cardinality(T \ {z}) = n - 1 /\ n # 0
      BY <2>3, <2>5, FS_RemoveElement, FS_EmptySet
    <3>3. PICK s : Sorts(s, T \ {z})
      BY <2>2, <2>3
    <3>4. s \in [1..n - 1 -> T \ {z}] /\ \A i, j \in 1..n - 1 : i < j => Before(s[i], s[j])
      BY <3>2, <3>3 DEF Sorts
    <3>5. n \in Nat
      BY <2>3
    <3> HIDE DEF n, Bad
    <3> DEFINE t == [i \in 1..n |-> IF i = n THEN z ELSE s[i]]
    <3>6. \A i \in 1..n : i # n => i \in 1..n - 1
      BY <3>5
    <3>7. t \in [1..n -> T]
      BY <3>4, <3>6
    <3>8. ASSUME NEW i \in 1..n, NEW j \in 1..n, i < j PROVE Before(t[i], t[j])
      <4>1. i \in 1..n - 1 /\ i # n /\ t[i] = s[i] /\ s[i] \in T \ {z}
        BY <3>4, <3>5, <3>8
      <4>2. CASE j = n
        BY <3>1, <4>1, <4>2
      <4>3. CASE j # n
        BY <3>4, <3>6, <3>8, <4>1, <4>3
      <4>4. QED
        BY <4>2, <4>3
    <3>9. DOMAIN t = 1..n
      OBVIOUS
    <3> HIDE DEF t
    <3>10. Sorts(t, T)
      BY <3>7, <3>8, <3>9 DEF Sorts, n
    <3>11. QED
      BY <3>10 DEF Bad
  <2>6. QED
    BY <2>4, <2>5
<1>2. E \in SUBSET E
  OBVIOUS
<1>3. QED
  BY <1>1, <1>2

\* And then everyone has a place.
LEMMA SortedPlaces ==
    ASSUME NEW E, IsFiniteSet(E), E \subseteq Entry, NEW s, Sorts(s, E)
    PROVE  s \in Bijection(1..Cardinality(E), E)
<1> DEFINE n == Cardinality(E)
<1>1. n \in Nat /\ IsFiniteSet(1..n) /\ Cardinality(1..n) = n
  BY FS_CardinalityType, FS_Interval
<1>2. s \in [1..n -> E] /\ \A i, j \in 1..n : i < j => Before(s[i], s[j])
  BY DEF Sorts
<1> HIDE DEF n
<1>3. ASSUME NEW i \in 1..n, NEW j \in 1..n, s[i] = s[j] PROVE i = j
  <2>1. ~(i < j) /\ ~(j < i)
    BY <1>2, <1>3, BeforeOrders
  <2>2. QED
    BY <1>1, <2>1
<1>4. s \in Injection(1..n, E)
  BY <1>2, <1>3 DEF Injection, IsInjective
<1>5. Cardinality(1..n) = Cardinality(E)
  BY <1>1 DEF n
<1>6. s \in Surjection(1..n, E)
  BY <1>4, <1>5, FS_Injection
<1>7. QED
  BY <1>4, <1>6 DEF Bijection, n

OnBoard(metric, p) == {l \in Learners : Listed(metric, l, p)}

\* u gives every learner a place, and the board shows the first m of them.
Placed(u, m, metric, p) ==
    LET n == Cardinality(OnBoard(metric, p))
    IN  /\ u \in Bijection(1..n, OnBoard(metric, p))
        /\ \A i, j \in 1..n : i < j => Value(metric, u[i], p) >= Value(metric, u[j], p)
        /\ m \in 0..n /\ m <= Limit /\ (m = n \/ m = Limit)
        /\ DOMAIN list(metric, p) = 1..m
        /\ \A i \in 1..m : list(metric, p)[i].user = u[i]

LEMMA BoardIsPlaced ==
    ASSUME StandingTypes, NEW metric \in Metrics, NEW p
    PROVE  \E u, m : Placed(u, m, metric, p)
<1> DEFINE S == OnBoard(metric, p)
           V(k) == Value(metric, k, p)
           E == {[user |-> l, value |-> V(l)] : l \in S}
           C == Cardinality(E)
           sorted == CHOOSE s \in [1..C -> E] : \A i, j \in DOMAIN s : i < j => Before(s[i], s[j])
           m == Min({Limit, C})
<1>1. S \subseteq Learners /\ S \subseteq Nat /\ IsFiniteSet(S)
  BY ConstantsOfStandings, FS_Subset DEF OnBoard
<1>2. \A k \in S : V(k) \in Nat
  BY ValueIs
<1> HIDE DEF V, S
<1> DEFINE pair == [l \in S |-> [user |-> l, value |-> V(l)]]
<1>3. pair \in Bijection(S, E)
  BY DEF Bijection, Injection, Surjection, IsInjective
<1>4. IsFiniteSet(E) /\ Cardinality(S) = C
  <2> HIDE DEF pair, E
  <2>1. IsFiniteSet(E) /\ Cardinality(E) = Cardinality(S)
    BY <1>1, <1>3, FS_Bijection DEF ExistsBijection
  <2>2. QED
    BY <2>1
<1>5. E \subseteq Entry
  BY <1>1, <1>2 DEF Entry
<1>6. list(metric, p) = SubSeq(sorted, 1, m)
  BY DEF list, S, V, OnBoard
<1>7. C \in Nat /\ Limit \in Nat
  BY <1>4, FS_CardinalityType, ConstantsOfStandings
<1> HIDE DEF C
<1>8. m \in 0..C /\ m <= Limit /\ (m = C \/ m = Limit)
  BY <1>7 DEF Min
<1> HIDE DEF m, E
<1>9. Sorts(sorted, E)
  <2>1. PICK s : Sorts(s, E)
    BY <1>4, <1>5, Sorted
  <2>2. s \in [1..C -> E] /\ \A i, j \in DOMAIN s : i < j => Before(s[i], s[j])
    BY <2>1 DEF Sorts, C
  <2>3. sorted \in [1..C -> E] /\ \A i, j \in DOMAIN sorted : i < j => Before(sorted[i], sorted[j])
    BY <2>2
  <2>4. QED
    BY <2>3 DEF Sorts, C
<1> HIDE DEF sorted
<1>10. sorted \in Bijection(1..C, E)
  BY <1>4, <1>5, <1>9, SortedPlaces DEF C
<1>11. sorted \in [1..C -> E] /\ \A i, j \in 1..C : i < j => Before(sorted[i], sorted[j])
  BY <1>9 DEF Sorts, C
<1> DEFINE u == [i \in 1..C |-> sorted[i].user]
<1>12. \A e \in E : e.user \in S /\ e.value = V(e.user) /\ e = [user |-> e.user, value |-> V(e.user)]
  BY DEF E
<1>13. \A i \in 1..C : u[i] \in S /\ sorted[i].value = V(u[i])
  BY <1>11, <1>12
<1>14. u \in Bijection(1..C, S)
  <2>1. u \in [1..C -> S]
    BY <1>13
  <2>2. ASSUME NEW i \in 1..C, NEW j \in 1..C, u[i] = u[j] PROVE i = j
    <3>1. sorted[i] = sorted[j]
      BY <1>11, <1>12, <2>2
    <3>2. QED
      BY <1>10, <3>1 DEF Bijection, Injection, IsInjective
  <2>3. ASSUME NEW l \in S PROVE \E i \in 1..C : u[i] = l
    <3>1. [user |-> l, value |-> V(l)] \in E
      BY DEF E
    <3>2. PICK i \in 1..C : sorted[i] = [user |-> l, value |-> V(l)]
      BY <1>10, <3>1 DEF Bijection, Surjection
    <3>3. QED
      BY <3>2
  <2> HIDE DEF u
  <2>4. QED
    BY <2>1, <2>2, <2>3 DEF Bijection, Injection, Surjection, IsInjective
<1>15. ASSUME NEW i \in 1..C, NEW j \in 1..C, i < j PROVE V(u[i]) >= V(u[j])
  <2>1. Before(sorted[i], sorted[j])
    BY <1>11, <1>15
  <2>2. V(u[i]) \in Nat /\ V(u[j]) \in Nat /\ sorted[i].value = V(u[i]) /\ sorted[j].value = V(u[j])
    BY <1>2, <1>13
  <2>3. QED
    BY <2>1, <2>2 DEF Before
<1>16. DOMAIN list(metric, p) = 1..m /\ \A i \in 1..m : list(metric, p)[i] = sorted[i]
  <2>1. sorted \in Seq(E) /\ Len(sorted) = C
    BY <1>7, <1>11
  <2>2. DOMAIN SubSeq(sorted, 1, m) = 1..m /\ \A i \in 1..m : SubSeq(sorted, 1, m)[i] = sorted[i]
    BY <1>7, <1>8, <2>1, SubSeqProperties
  <2>3. QED
    BY <1>6, <2>2
<1>17. \A i \in 1..m : list(metric, p)[i].user = u[i]
  BY <1>7, <1>8, <1>16
<1> HIDE DEF u
<1>18. Placed(u, m, metric, p)
  BY <1>4, <1>8, <1>14, <1>15, <1>16, <1>17 DEF Placed, S, V
<1>19. QED
  BY <1>18

\* The first j places are those of j learners.
LEMMA FirstPlaces ==
    ASSUME NEW S, IsFiniteSet(S), NEW n \in Nat, NEW u \in Bijection(1..n, S), NEW j \in 0..n
    PROVE  {u[k] : k \in 1..j} \in SUBSET S /\ Cardinality({u[k] : k \in 1..j}) = j
<1> DEFINE U == {u[k] : k \in 1..j}
           r == [k \in 1..j |-> u[k]]
<1>1. \A k \in 1..j : k \in 1..n
  OBVIOUS
<1>2. U \in SUBSET S
  BY <1>1 DEF Bijection, Injection
<1>3. r \in Bijection(1..j, U)
  BY <1>1 DEF Bijection, Injection, Surjection, IsInjective
<1>4. IsFiniteSet(1..j) /\ Cardinality(1..j) = j
  BY FS_Interval
<1> HIDE DEF U, r
<1>5. Cardinality(U) = j
  BY <1>3, <1>4, FS_Bijection DEF ExistsBijection
<1>6. QED
  BY <1>2, <1>5 DEF U

LEMMA BoardsAreFair ==
    ASSUME StandingTypes
    PROVE  BoardsFair
<1> SUFFICES ASSUME NEW metric \in Metrics, NEW p \in {AllTime} \cup {MonthOf(m) : m \in Months}
             PROVE  LET board    == leaderboardJSON(metric, p)
                        shown    == {l \in Learners : Listed(metric, l, p)}
                        Better(l) == {k \in shown : Value(metric, k, p) > Value(metric, l, p)}
                        Worse(l)  == {k \in shown : Value(metric, k, p) < Value(metric, l, p)}
                    IN  /\ \A l \in shown : (\A i \in DOMAIN board : board[i].user # l)
                                            => Len(board) = Limit /\ Cardinality(shown \ Worse(l)) > Limit
                        /\ \A i \in DOMAIN board :
                              /\ Cardinality(Better(board[i].user)) < board[i].rank
                              /\ board[i].rank <= Cardinality(shown \ Worse(board[i].user))
                              /\ board[i].key <= View(board[i].user).average
  BY DEF BoardsFair, Metrics
<1> DEFINE board == leaderboardJSON(metric, p)
           S == OnBoard(metric, p)
           V(k) == Value(metric, k, p)
           n == Cardinality(S)
           Better(l) == {k \in S : V(k) > V(l)}
           Worse(l)  == {k \in S : V(k) < V(l)}
<1>1. S \subseteq Learners /\ IsFiniteSet(S) /\ n \in Nat
  BY ConstantsOfStandings, FS_Subset, FS_CardinalityType DEF OnBoard
<1>2. \A k : V(k) \in Nat
  BY ValueIs
<1>3. PICK u, m : Placed(u, m, metric, p)
  BY BoardIsPlaced
<1>4. /\ u \in Bijection(1..n, S)
      /\ \A i, j \in 1..n : i < j => V(u[i]) >= V(u[j])
      /\ m \in 0..n /\ m <= Limit /\ (m = n \/ m = Limit)
  BY <1>3 DEF Placed
<1>5. /\ DOMAIN board = 1..m /\ Len(board) = m
      /\ \A i \in 1..m : board[i].user = u[i] /\ board[i].rank = i /\ board[i].key = View(u[i]).rank
  <2> DEFINE entries == list(metric, p)
             mark(i) == [rank |-> i, user |-> entries[i].user, value |-> entries[i].value,
                         key |-> View(entries[i].user).rank]
  <2>1. DOMAIN entries = 1..m /\ \A i \in 1..m : entries[i].user = u[i]
    BY <1>3 DEF Placed
  <2>2. board = [i \in DOMAIN entries |-> mark(i)]
    BY DEF leaderboardJSON
  <2>3. \A i \in 1..m : mark(i).rank = i /\ mark(i).user = u[i] /\ mark(i).key = View(u[i]).rank
    BY <2>1
  <2> HIDE DEF entries, mark, board
  <2>4. board = [i \in 1..m |-> mark(i)] /\ m \in Nat
    BY <1>1, <1>4, <2>1, <2>2
  <2>5. DOMAIN board = 1..m /\ Len(board) = m
    BY <2>4
  <2>6. \A i \in 1..m : board[i] = mark(i)
    BY <2>4
  <2>7. QED
    BY <2>3, <2>5, <2>6
<1> HIDE DEF V, S, board
<1>first. \A j \in 0..n : {u[k] : k \in 1..j} \in SUBSET S /\ Cardinality({u[k] : k \in 1..j}) = j
  <2> HIDE DEF n
  <2>1. ASSUME NEW j \in 0..n
        PROVE  {u[k] : k \in 1..j} \in SUBSET S /\ Cardinality({u[k] : k \in 1..j}) = j
    <3>1. Cardinality({u[k] : k \in 1..j}) = j
      BY <1>1, <1>4, FirstPlaces
    <3>2. \A k \in 1..j : u[k] \in S
      BY <1>1, <1>4 DEF Bijection, Injection
    <3>3. QED
      BY <3>1, <3>2
  <2>2. QED
    BY <2>1
<1>6. Limit \in Nat
  BY ConstantsOfStandings
<1>7. ASSUME NEW j \in 1..n
      PROVE  /\ u[j] \in S /\ {u[k] : k \in 1..j} \in SUBSET (S \ Worse(u[j]))
             /\ j <= Cardinality(S \ Worse(u[j]))
  <2>1. u[j] \in S /\ \A k \in 1..j : u[k] \in S
    BY <1>1, <1>4 DEF Bijection, Injection
  <2>2. \A k \in 1..j : V(u[k]) >= V(u[j])
    <3>1. ASSUME NEW k \in 1..j PROVE V(u[k]) >= V(u[j])
      <4>1. V(u[k]) \in Nat /\ k \in 1..n /\ (k = j \/ k < j)
        BY <1>1, <1>2
      <4>2. QED
        BY <1>4, <4>1
    <3>2. QED
      BY <3>1
  <2>3. \A k \in 1..j : u[k] \in S \ Worse(u[j])
    BY <1>2, <2>1, <2>2
  <2>4. IsFiniteSet(S \ Worse(u[j])) /\ Cardinality(S \ Worse(u[j])) \in Nat
    BY <1>1, FS_Subset, FS_CardinalityType
  <2> HIDE DEF Worse, n
  <2>5. Cardinality({u[k] : k \in 1..j}) = j
    BY <1>1, <1>first
  <2>6. {u[k] : k \in 1..j} \in SUBSET (S \ Worse(u[j]))
    BY <2>3
  <2>7. Cardinality({u[k] : k \in 1..j}) <= Cardinality(S \ Worse(u[j]))
    BY <2>4, <2>6, FS_Subset
  <2>8. QED
    BY <2>1, <2>5, <2>6, <2>7
<1>8. ASSUME NEW l \in S, \A i \in DOMAIN board : board[i].user # l
      PROVE  Len(board) = Limit /\ Cardinality(S \ Worse(l)) > Limit
  <2>1. PICK j \in 1..n : u[j] = l
    BY <1>4, <1>8 DEF Bijection, Surjection
  <2>2. j > m
    BY <1>1, <1>4, <1>5, <1>8, <2>1
  <2>3. m = Limit
    BY <1>1, <1>4, <2>2
  <2>4. j <= Cardinality(S \ Worse(l)) /\ Cardinality(S \ Worse(l)) \in Nat
    BY <1>1, <1>7, <2>1, FS_Subset, FS_CardinalityType
  <2>5. QED
    BY <1>1, <1>5, <1>6, <2>2, <2>3, <2>4
<1>9. ASSUME NEW i \in 1..m
      PROVE  /\ Cardinality(Better(board[i].user)) < board[i].rank
             /\ board[i].rank <= Cardinality(S \ Worse(board[i].user))
             /\ board[i].key <= View(board[i].user).average
  <2>1. i \in 1..n /\ board[i].user = u[i] /\ board[i].rank = i /\ board[i].key = View(u[i]).rank
    BY <1>1, <1>4, <1>5
  <2>2. i <= Cardinality(S \ Worse(u[i])) /\ u[i] \in S
    BY <1>7, <2>1
  <2>3. View(u[i]).rank <= View(u[i]).average
    BY <1>1, <2>2, RanksAreEarned
  <2>4. Cardinality(Better(u[i])) < i
    <3> DEFINE j == i - 1
    <3>1. j \in 0..n
      BY <1>1, <2>1
    <3>2. Better(u[i]) \subseteq {u[k] : k \in 1..j}
      <4>1. ASSUME NEW b \in Better(u[i]) PROVE \E k \in 1..j : b = u[k]
        <5>1. b \in S /\ V(b) > V(u[i])
          OBVIOUS
        <5>2. PICK k \in 1..n : u[k] = b
          BY <1>4, <5>1 DEF Bijection, Surjection
        <5>3. k # i /\ ~(i < k)
          BY <1>2, <1>4, <2>1, <5>1, <5>2
        <5>4. k \in 1..j
          BY <1>1, <2>1, <5>3
        <5>5. QED
          BY <5>2, <5>4
      <4>2. QED
        BY <4>1
    <3> HIDE DEF j, n, Better
    <3>3. {u[k] : k \in 1..j} \in SUBSET S /\ Cardinality({u[k] : k \in 1..j}) = j
      BY <1>first, <3>1
    <3>4. IsFiniteSet({u[k] : k \in 1..j})
      BY <1>1, <3>3, FS_Subset
    <3>5. Cardinality(Better(u[i])) <= j /\ Cardinality(Better(u[i])) \in Nat
      BY <3>2, <3>3, <3>4, FS_Subset, FS_CardinalityType
    <3>6. QED
      BY <2>1, <3>5 DEF j
  <2>5. QED
    BY <2>1, <2>2, <2>3, <2>4
<1>10. QED
  BY <1>5, <1>8, <1>9 DEF V, S, board, OnBoard

\* Boards, months and ranks are exact whatever was written, and whoever left: a learner's
\* place on a board is the one its rows give it (ListScore, ListQuizzes and ListTokens of
\* analytics.go), every row is in one month (periodWhere), and a rank is earned (rankFor).
THEOREM BoardsExact == Spec => []StandingsExact
<1>1. Init => CountersInv
  BY CountersBegin DEF Init
<1>2. CountersInv /\ [Next]_serverVars => CountersInv'
  BY CountersStay DEF Next, serverVars, standingVars
<1>3. CountersInv => StandingsExact
  BY MonthsSum, BoardsAreFair, RanksAreEarned DEF CountersInv, StandingsExact
<1>4. QED
  BY <1>1, <1>2, <1>3, PTL DEF Spec
=============================================================================
