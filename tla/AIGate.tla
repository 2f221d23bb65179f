-------------------------------- MODULE AIGate --------------------------------
(***************************************************************************)
(* The quota gate in front of the AI provider, shared by every endpoint    *)
(* that calls it: quotaFor and startAI/endAI of                            *)
(* src/internal/handlers/handlers.go, the tables of                        *)
(* src/internal/db/quota.go, and the five kinds of call.                   *)
(*                                                                         *)
(*    turn     processChatTurn      chat_turns.go                          *)
(*    quiz     QuizStart's job      handlers.go                            *)
(*    attempt  TestAttemptStart's   tests.go                               *)
(*    tutor    testTutorForAttempt  tests.go                               *)
(*    stream   ChatStream           chats.go                               *)
(*                                                                         *)
(* All look at the quota before they take the user's slot; only the turn's *)
(* worker looks again when it has it.  What a call does for its own        *)
(* feature is left out: ChatTurns and QuizAttempt are about that.          *)
(***************************************************************************)
EXTENDS Naturals, FiniteSets

CONSTANTS
    Users,
    Calls,      \* calls that may be served at the same time
    MaxCost,    \* the most tokens one call reports
    Allowances, \* quotas an admin grants
    Settings,   \* settings considered, see setting
    MaxMetered, \* bound: a user's calls report at most this many tokens
    None        \* the quota of a deleted user

Kinds  == {"turn", "quiz", "attempt", "tutor", "stream"}
Powers == {"raise", "lower", "reset", "delete"}

ASSUME AIGateAssumption ==
    /\ MaxCost \in Nat \ {0} /\ MaxMetered \in Nat
    /\ Allowances \subseteq Nat /\ Allowances # {}
    /\ Settings \subseteq [kinds : SUBSET Kinds, admin : SUBSET Powers, faulty : BOOLEAN]
    /\ None \notin [quota : Nat, used : Nat]

VARIABLES
    setting,   \* [kinds, admin, faulty]: the kinds of call made, what the admin does,
               \* whether the billing transaction may fail and the process crash; constant
    quota,     \* [Users -> [quota, used]]: table user_quota; None: the user is gone
    lifetime,  \* [Users -> Nat]: the sum of the user's usage_log
    inFlight,  \* aiInFlight: users with a call under way
    call,      \* [Calls -> [pc, kind, user, tokens]]
    metered    \* [Users -> Nat]: tokens the provider client has reported, billed or not

vars == <<setting, quota, lifetime, inFlight, call, metered>>

PCs     == {"idle", "gate", "slot", "recheck", "ready", "provider", "bill", "release"}
Holding == {"recheck", "ready", "provider", "bill", "release"}

TypeOK ==
    /\ setting \in Settings
    /\ quota \in [Users -> [quota : Nat, used : Nat] \cup {None}]
    /\ lifetime \in [Users -> Nat]
    /\ inFlight \subseteq Users
    /\ call \in [Calls -> [pc : PCs, kind : Kinds, user : Users, tokens : 0..MaxCost]]
    /\ metered \in [Users -> Nat]

Init ==
    /\ setting \in Settings
    /\ quota \in [Users -> [quota : Allowances, used : {0}]]
    /\ lifetime = [u \in Users |-> 0]
    /\ inFlight = {}
    /\ call \in [Calls -> [pc : {"idle"}, kind : setting.kinds, user : Users, tokens : {0}]]
    /\ metered = [u \in Users |-> 0]

At(c, l)  == call[c].pc = l
Goto(c, l) == call' = [call EXCEPT ![c].pc = l]

\* Mutant: an allowance used to its last token is not exhausted.
ExhaustedPast(u) == quota[u] = None \/ quota[u].used > quota[u].quota

\* Quota.Exhausted; a user without a row has no allowance.
Exhausted(u) == quota[u] = None \/ quota[u].used >= quota[u].quota

-----------------------------------------------------------------------------
(* A call *)

Request(c, k, u) ==
    /\ At(c, "idle") /\ quota[u] # None
    /\ call' = [call EXCEPT ![c] = [pc |-> "gate", kind |-> k, user |-> u, tokens |-> 0]]
    /\ UNCHANGED <<quota, lifetime, inFlight, metered>>

\* The endpoint looks at the quota (ChatTurnCreate for a turn).
Gate(c) ==
    /\ At(c, "gate")
    /\ Goto(c, IF Exhausted(call[c].user) THEN "idle" ELSE "slot")
    /\ UNCHANGED <<quota, lifetime, inFlight, metered>>

\* Mutant: the test and the set are not under one lock, so the test may be stale.
StartAIUnlocked(c) ==
    /\ At(c, "slot")
    /\ inFlight' = inFlight \cup {call[c].user}
    /\ Goto(c, IF call[c].kind = "turn" THEN "recheck" ELSE "ready")
    /\ UNCHANGED <<quota, lifetime, metered>>

startAI(c) ==
    /\ At(c, "slot")
    /\ IF call[c].user \in inFlight
       THEN Goto(c, "idle") /\ UNCHANGED inFlight
       ELSE /\ inFlight' = inFlight \cup {call[c].user}
            /\ Goto(c, IF call[c].kind = "turn" THEN "recheck" ELSE "ready")
    /\ UNCHANGED <<quota, lifetime, metered>>

\* Mutant: the worker trusts the look its request had at the quota.
RecheckSkipped(c) ==
    /\ At(c, "recheck")
    /\ Goto(c, "ready")
    /\ UNCHANGED <<quota, lifetime, inFlight, metered>>

\* processChatTurn looks again, now that no other call of the user can bill.
Recheck(c) ==
    /\ At(c, "recheck")
    /\ Goto(c, IF Exhausted(call[c].user) THEN "release" ELSE "ready")
    /\ UNCHANGED <<quota, lifetime, inFlight, metered>>

\* The call goes out; or the work before it fails (no study, no search key, the
\* message is not saved), which quiz and tutor do not have.
Send(c) ==
    /\ At(c, "ready")
    /\ Goto(c, "provider") \/ (call[c].kind \notin {"quiz", "tutor"} /\ Goto(c, "release"))
    /\ UNCHANGED <<quota, lifetime, inFlight, metered>>

Reported(c, n, l) ==
    /\ At(c, "provider") /\ metered[call[c].user] + n <= MaxMetered
    /\ call' = [call EXCEPT ![c].pc = l, ![c].tokens = n]
    /\ metered' = [metered EXCEPT ![call[c].user] = @ + n]
    /\ UNCHANGED <<quota, lifetime, inFlight>>

\* Mutant: only an answer is billed.
AnswerBilledOnSuccess(c, n) == Reported(c, n, "bill") \/ Reported(c, n, "release")

\* The provider answers or fails with n tokens reported.  A failed or unsaved attempt
\* is not billed, and neither is a tutor's call that fails or whose reply is blank
\* (both return before recordAIUsage); the other kinds bill every outcome.
Answer(c, n) ==
    \/ Reported(c, n, "bill")
    \/ call[c].kind \in {"attempt", "tutor"} /\ Reported(c, n, "release")

\* recordAIUsage: used and usage_log grow in one transaction, before the slot is
\* given back.  Its failure is logged: the store, an expired or cancelled context,
\* or the user is gone.
Bill(c) ==
    LET u == call[c].user IN
    /\ At(c, "bill")
    /\ \/ /\ quota[u] # None
          /\ quota' = [quota EXCEPT ![u].used = @ + call[c].tokens]
          /\ lifetime' = [lifetime EXCEPT ![u] = @ + call[c].tokens]
       \/ (setting.faulty \/ quota[u] = None) /\ UNCHANGED <<quota, lifetime>>
    /\ Goto(c, "release")
    /\ UNCHANGED <<inFlight, metered>>

endAI(c) ==
    /\ At(c, "release")
    /\ inFlight' = inFlight \ {call[c].user}
    /\ Goto(c, "idle")
    /\ UNCHANGED <<quota, lifetime, metered>>

-----------------------------------------------------------------------------
(* The admin, and the process *)

\* AdminSetQuota: the allowance changes and the consumption stays.
SetQuota(u, q) ==
    /\ quota[u] # None
    /\ \/ "raise" \in setting.admin /\ q > quota[u].quota
       \/ "lower" \in setting.admin /\ q < quota[u].quota
    /\ quota' = [quota EXCEPT ![u].quota = q]
    /\ UNCHANGED <<lifetime, inFlight, call, metered>>

\* AdminResetUsage: the consumption is forgiven and its log stays.
ResetUsage(u) ==
    /\ "reset" \in setting.admin /\ quota[u] # None
    /\ quota' = [quota EXCEPT ![u].used = 0]
    /\ UNCHANGED <<lifetime, inFlight, call, metered>>

\* AdminDeleteUser: quota and log go with the user, a call in flight does not.
DeleteUser(u) ==
    /\ "delete" \in setting.admin /\ quota[u] # None
    /\ quota' = [quota EXCEPT ![u] = None]
    /\ lifetime' = [lifetime EXCEPT ![u] = 0]
    /\ UNCHANGED <<inFlight, call, metered>>

\* The slots are in memory, and so are the calls.
Restart ==
    /\ setting.faulty /\ inFlight # {}
    /\ inFlight' = {}
    /\ call' = [c \in Calls |-> [call[c] EXCEPT !.pc = "idle"]]
    /\ UNCHANGED <<quota, lifetime, metered>>

Next ==
    /\ \/ \E c \in Calls :
             \/ \E k \in setting.kinds, u \in Users : Request(c, k, u)
             \/ Gate(c) \/ startAI(c) \/ Recheck(c) \/ Send(c)
             \/ \E n \in 0..MaxCost : Answer(c, n)
             \/ Bill(c) \/ endAI(c)
       \/ \E u \in Users :
             ResetUsage(u) \/ DeleteUser(u) \/ \E q \in Allowances : SetQuota(u, q)
       \/ Restart
    /\ UNCHANGED setting

Spec == Init /\ [][Next]_vars

-----------------------------------------------------------------------------
(* Properties *)

\* One call of a user at a time, from the slot to its bill, and no slot is lost or
\* given back twice: the users in aiInFlight are those of the calls that hold it.
SlotHeld ==
    /\ inFlight = {call[c].user : c \in {d \in Calls : call[d].pc \in Holding}}
    /\ \A c, d \in Calls : /\ call[c].pc \in Holding /\ call[d].pc \in Holding
                           /\ call[c].user = call[d].user
                           => c = d

\* "one in-flight AI call per user so concurrent requests cannot race the quota gate"
\* (handlers.go:51): while a call is at the provider its user has allowance left.
GateHolds ==
    \A c \in Calls : call[c].pc = "provider" => ~Exhausted(call[c].user)

\* The admin takes no allowance away.
Generous == setting.admin \subseteq {"raise", "reset"}

\* It is true of the chat turns, whose worker looks again holding the slot, whatever
\* the other kinds of call do, where the admin takes no allowance away.
TurnGateHolds ==
    Generous => \A c \in Calls :
        At(c, "provider") /\ call[c].kind = "turn" => ~Exhausted(call[c].user)

\* What a user can overdraw, where the admin takes nothing away: each request that
\* passed the gate before the last bill may cost once more.
OverdraftBounded ==
    Generous => \A u \in Users : quota[u] # None =>
        quota[u].used < quota[u].quota + Cardinality(Calls) * MaxCost

\* No bill fails, no user is deleted, and the two kinds that may return before their
\* bill are left out.
NothingLost ==
    ~setting.faulty /\ "delete" \notin setting.admin /\ setting.kinds \cap {"attempt", "tutor"} = {}

\* Every token reported is in the usage log or about to be, where nothing is lost: a
\* turn, a quiz or a stream that fails is billed too, and the next call waits for the
\* bill.
Accounted ==
    NothingLost => \A u \in Users :
        \/ metered[u] = lifetime[u]
        \/ \E c \in Calls : /\ call[c].pc = "bill" /\ call[c].user = u
                            /\ metered[u] = lifetime[u] + call[c].tokens

=============================================================================
