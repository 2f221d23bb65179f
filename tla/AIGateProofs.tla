---------------------------- MODULE AIGateProofs ----------------------------
(* Theorems about AIGate, for any users, concurrent calls and costs.          *)
EXTENDS AIGate, FiniteSetTheorems, TLAPS

-----------------------------------------------------------------------------
(* Types *)

CallType == [pc : PCs, kind : Kinds, user : Users, tokens : 0..MaxCost]

\* Every step leaves the setting alone.
LEMMA SameSetting == [Next]_vars => UNCHANGED setting
BY DEF Next, vars

\* What an admin grants is a quota.
LEMMA GrantedType ==
    ASSUME NEW g \in [quota : Allowances, used : {0}] PROVE g \in [quota : Nat, used : Nat]
<1>1. g.quota \in Allowances /\ g.used = 0 /\ g = [quota |-> g.quota, used |-> g.used]
  OBVIOUS
<1>2. g.quota \in Nat
  BY <1>1, AIGateAssumption, Zenon
<1>3. QED
  BY <1>1, <1>2

LEMMA InitType == Init => TypeOK
<1> SUFFICES ASSUME Init PROVE TypeOK
  OBVIOUS
<1>1. Allowances \subseteq Nat /\ 0 \in 0..MaxCost /\ "idle" \in PCs
  BY AIGateAssumption DEF PCs
<1>2. quota \in [Users -> [quota : Nat, used : Nat] \cup {None}]
  BY GrantedType DEF Init
<1>3. call \in [Calls -> CallType]
  <2>1. setting.kinds \subseteq Kinds
    BY AIGateAssumption DEF Init
  <2>2. QED
    BY <1>1, <2>1 DEF Init, CallType
<1>4. QED
  BY <1>2, <1>3 DEF Init, TypeOK, CallType

\* Moving a call keeps the calls well typed.
LEMMA GotoType ==
    ASSUME TypeOK, NEW c \in Calls, NEW l \in PCs, Goto(c, l)
    PROVE  /\ call' \in [Calls -> CallType]
           /\ call'[c].pc = l /\ call'[c].user = call[c].user /\ call'[c].kind = call[c].kind
           /\ call'[c].tokens = call[c].tokens
           /\ \A d \in Calls \ {c} : call'[d] = call[d]
BY DEF TypeOK, Goto, CallType

\* So does an answer of the provider, and the tokens are counted.
LEMMA ReportedType ==
    ASSUME TypeOK, NEW c \in Calls, NEW n \in 0..MaxCost, NEW l \in PCs, Reported(c, n, l)
    PROVE  /\ call' \in [Calls -> CallType]
           /\ call'[c].pc = l /\ call'[c].user = call[c].user /\ call'[c].kind = call[c].kind
           /\ \A d \in Calls \ {c} : call'[d] = call[d]
           /\ metered' \in [Users -> Nat]
<1>1. metered \in [Users -> Nat] /\ call[c].user \in Users /\ n \in Nat
  BY AIGateAssumption DEF TypeOK
<1>2. metered' \in [Users -> Nat]
  BY <1>1 DEF Reported
<1> DEFINE r == [call[c] EXCEPT !.pc = l, !.tokens = n]
<1>3. /\ r \in CallType /\ r.pc = l
      /\ r.user = call[c].user /\ r.kind = call[c].kind
  BY DEF TypeOK, CallType
<1>4. call' = [call EXCEPT ![c] = r]
  BY DEF Reported, TypeOK
<1> HIDE DEF r
<1>5. QED
  BY <1>2, <1>3, <1>4 DEF TypeOK, CallType

\* Every step keeps the types.
LEMMA TypeStep == TypeOK /\ [Next]_vars => TypeOK'
<1> SUFFICES ASSUME TypeOK, [Next]_vars PROVE TypeOK'
  OBVIOUS
<1>0. /\ quota \in [Users -> [quota : Nat, used : Nat] \cup {None}] /\ lifetime \in [Users -> Nat]
      /\ inFlight \subseteq Users /\ call \in [Calls -> CallType] /\ metered \in [Users -> Nat]
      /\ setting \in Settings /\ setting' \in Settings
  BY SameSetting DEF TypeOK, CallType
<1>1. ASSUME NEW c \in Calls, NEW k \in setting.kinds, NEW u \in Users, Request(c, k, u) PROVE TypeOK'
  <2>1. k \in Kinds /\ 0 \in 0..MaxCost /\ "gate" \in PCs
    BY <1>0, AIGateAssumption DEF PCs
  <2>2. [pc |-> "gate", kind |-> k, user |-> u, tokens |-> 0] \in CallType
    BY <2>1 DEF CallType
  <2>3. call' \in [Calls -> CallType]
    BY <1>0, <1>1, <2>2 DEF Request
  <2>4. QED
    BY <1>0, <1>1, <2>3 DEF Request, TypeOK, CallType
<1>2. ASSUME NEW c \in Calls, Gate(c) \/ startAI(c) \/ Recheck(c) \/ Send(c) \/ endAI(c)
      PROVE  TypeOK'
  <2>1. \E l \in PCs : Goto(c, l)
    BY <1>2 DEF Gate, startAI, Recheck, Send, endAI, PCs
  <2>2. call' \in [Calls -> CallType]
    BY <2>1, GotoType
  <2>3. inFlight' \subseteq Users /\ UNCHANGED <<quota, lifetime, metered>>
    BY <1>0, <1>2 DEF CallType, Gate, startAI, Recheck, Send, endAI
  <2>4. QED
    BY <1>0, <2>2, <2>3 DEF TypeOK, CallType
<1>3. ASSUME NEW c \in Calls, NEW n \in 0..MaxCost, Answer(c, n) PROVE TypeOK'
  <2>1. \E l \in PCs : Reported(c, n, l)
    BY <1>3 DEF Answer, PCs
  <2>2. UNCHANGED <<quota, lifetime, inFlight>>
    BY <2>1 DEF Reported
  <2>3. call' \in [Calls -> CallType] /\ metered' \in [Users -> Nat]
    BY <2>1, ReportedType
  <2>4. QED
    BY <1>0, <2>2, <2>3 DEF TypeOK, CallType
<1>4. ASSUME NEW c \in Calls, Bill(c) PROVE TypeOK'
  <2> DEFINE u == call[c].user
  <2>1. call' \in [Calls -> CallType]
    BY <1>4, GotoType DEF Bill, PCs
  <2>2. u \in Users /\ call[c].tokens \in Nat
    BY <1>0, AIGateAssumption DEF CallType
  <2>3. lifetime' \in [Users -> Nat]
    BY <1>0, <1>4, <2>2 DEF Bill
  <2>4. quota' \in [Users -> [quota : Nat, used : Nat] \cup {None}]
    <3>1. CASE UNCHANGED quota
      BY <1>0, <3>1
    <3>2. CASE quota[u] # None /\ quota' = [quota EXCEPT ![u].used = @ + call[c].tokens]
      <4>1. quota[u] \in [quota : Nat, used : Nat]
        BY <1>0, <2>2, <3>2
      <4>2. quota[u].used + call[c].tokens \in Nat
        BY <2>2, <4>1
      <4>3. QED
        BY <1>0, <3>2, <4>1, <4>2
    <3>3. QED
      BY <1>4, <3>1, <3>2 DEF Bill
  <2>5. QED
    BY <1>0, <1>4, <2>1, <2>3, <2>4 DEF Bill, TypeOK, CallType
<1>5. ASSUME NEW u \in Users, NEW q \in Allowances, SetQuota(u, q) PROVE TypeOK'
  <2>1. quota[u] \in [quota : Nat, used : Nat] /\ q \in Nat
    BY <1>0, <1>5, AIGateAssumption DEF SetQuota
  <2>2. quota' \in [Users -> [quota : Nat, used : Nat] \cup {None}]
    BY <1>0, <1>5, <2>1 DEF SetQuota
  <2>3. QED
    BY <1>0, <1>5, <2>2 DEF SetQuota, TypeOK, CallType
<1>6. ASSUME NEW u \in Users, ResetUsage(u) PROVE TypeOK'
  <2>1. quota[u] \in [quota : Nat, used : Nat]
    BY <1>0, <1>6 DEF ResetUsage
  <2>2. quota' \in [Users -> [quota : Nat, used : Nat] \cup {None}]
    BY <1>0, <1>6, <2>1 DEF ResetUsage
  <2>3. QED
    BY <1>0, <1>6, <2>2 DEF ResetUsage, TypeOK, CallType
<1>7. ASSUME NEW u \in Users, DeleteUser(u) PROVE TypeOK'
  BY <1>0, <1>7 DEF DeleteUser, TypeOK, CallType
<1>8. CASE Restart
  BY <1>0, <1>8 DEF Restart, TypeOK, CallType, PCs
<1>9. CASE UNCHANGED vars
  BY <1>0, <1>9 DEF vars, TypeOK, CallType
<1>10. QED
  BY <1>1, <1>2, <1>3, <1>4, <1>5, <1>6, <1>7, <1>8, <1>9 DEF Next

\* The tables, the slots and the calls keep their types.
THEOREM TypeCorrect == Spec => []TypeOK
BY InitType, TypeStep, PTL DEF Spec


-----------------------------------------------------------------------------
(* One slot for one call *)

\* A step of call c leaves the other calls' hold on their slots alone.
LEMMA SlotStep == TypeOK /\ SlotHeld /\ [Next]_vars => SlotHeld'
<1> SUFFICES ASSUME TypeOK, SlotHeld, [Next]_vars PROVE SlotHeld'
  OBVIOUS
<1>1. /\ \A c \in Calls : call[c].pc \in Holding => call[c].user \in inFlight
      /\ \A u \in inFlight : \E c \in Calls : call[c].pc \in Holding /\ call[c].user = u
      /\ \A c, d \in Calls : /\ call[c].pc \in Holding /\ call[d].pc \in Holding
                             /\ call[c].user = call[d].user
                             => c = d
  BY DEF SlotHeld
<1>2. ASSUME NEW c \in Calls, NEW k \in setting.kinds, NEW u \in Users, Request(c, k, u)
      PROVE  SlotHeld'
  <2>1. /\ call[c].pc \notin Holding /\ call'[c].pc \notin Holding
        /\ \A d \in Calls \ {c} : call'[d] = call[d]
        /\ inFlight' = inFlight
    BY <1>2 DEF Request, At, TypeOK, Holding
  <2>2. QED
    BY <1>1, <2>1 DEF SlotHeld
\* The steps that neither take nor give back the slot.
<1>3. ASSUME NEW c \in Calls, NEW l \in PCs,
             \/ Goto(c, l)
             \/ \E n \in 0..MaxCost : Reported(c, n, l),
             call[c].pc \in Holding <=> l \in Holding, inFlight' = inFlight
      PROVE  SlotHeld'
  <2>1. /\ call'[c].pc = l /\ call'[c].user = call[c].user
        /\ \A d \in Calls \ {c} : call'[d] = call[d]
    BY <1>3, GotoType, ReportedType
  <2>2. QED
    BY <1>1, <1>3, <2>1 DEF SlotHeld
<1>4. ASSUME NEW c \in Calls, startAI(c), call[c].user \notin inFlight PROVE SlotHeld'
  <2>1. PICK l \in {"recheck", "ready"} : Goto(c, l)
    BY <1>4 DEF startAI
  <2>2. /\ call'[c].pc \in Holding /\ call'[c].user = call[c].user
        /\ \A d \in Calls \ {c} : call'[d] = call[d]
    BY <2>1, GotoType DEF PCs, Holding
  <2>3. inFlight' = inFlight \cup {call[c].user} /\ call[c].pc \notin Holding
    BY <1>4 DEF startAI, At, Holding
  <2>4. QED
    BY <1>1, <1>4, <2>2, <2>3 DEF SlotHeld
<1>5. ASSUME NEW c \in Calls, endAI(c) PROVE SlotHeld'
  <2>1. /\ call'[c].pc \notin Holding /\ call'[c].user = call[c].user
        /\ \A d \in Calls \ {c} : call'[d] = call[d]
    BY <1>5, GotoType DEF endAI, PCs, Holding
  <2>2. inFlight' = inFlight \ {call[c].user} /\ call[c].pc \in Holding
    BY <1>5 DEF endAI, At, Holding
  <2>3. QED
    BY <1>1, <2>1, <2>2 DEF SlotHeld
<1>6. ASSUME NEW c \in Calls, Gate(c) \/ Recheck(c) \/ Send(c) \/ Bill(c) PROVE SlotHeld'
  <2>1. inFlight' = inFlight
    BY <1>6 DEF Gate, Recheck, Send, Bill
  <2>2. \E l \in PCs : Goto(c, l) /\ (call[c].pc \in Holding <=> l \in Holding)
    BY <1>6 DEF Gate, Recheck, Send, Bill, At, PCs, Holding
  <2>3. QED
    BY <1>3, <2>1, <2>2
<1>7. ASSUME NEW c \in Calls, startAI(c), call[c].user \in inFlight PROVE SlotHeld'
  <2>1. Goto(c, "idle") /\ inFlight' = inFlight /\ call[c].pc \notin Holding
        /\ "idle" \in PCs /\ "idle" \notin Holding
    BY <1>7 DEF startAI, At, Holding, PCs
  <2>2. QED
    BY <1>3, <2>1
<1>8. ASSUME NEW c \in Calls, NEW n \in 0..MaxCost, Answer(c, n) PROVE SlotHeld'
  <2>1. PICK l \in {"bill", "release"} : Reported(c, n, l)
    BY <1>8 DEF Answer
  <2>2. l \in PCs /\ l \in Holding /\ call[c].pc \in Holding /\ inFlight' = inFlight
    BY <2>1 DEF Reported, At, PCs, Holding
  <2>3. QED
    BY <1>3, <2>1, <2>2
<1>9. CASE Restart
  <2>1. inFlight' = {} /\ \A c \in Calls : call'[c].pc = "idle"
    BY <1>9 DEF Restart, TypeOK
  <2>2. QED
    BY <2>1 DEF SlotHeld, Holding
<1>10. CASE UNCHANGED <<inFlight, call>>
  BY <1>10 DEF SlotHeld
<1>11. \A u \in Users, q \in Allowances :
          SetQuota(u, q) \/ ResetUsage(u) \/ DeleteUser(u) => UNCHANGED <<inFlight, call>>
  BY DEF SetQuota, ResetUsage, DeleteUser
<1>12. QED
  BY <1>2, <1>4, <1>5, <1>6, <1>7, <1>8, <1>9, <1>10, <1>11, AIGateAssumption DEF Next, vars

\* One call of a user at a time, whatever the kinds of call, the admin and the faults.
THEOREM OneCallPerUser == Spec => []SlotHeld
<1>1. Init => SlotHeld
  BY DEF Init, SlotHeld, Holding
<1>2. QED
  BY <1>1, InitType, TypeStep, SlotStep, PTL DEF Spec

-----------------------------------------------------------------------------
(* The gate of the chat turns *)

\* From its second look at the quota on, a turn's user has allowance left.
Allowed == \A c \in Calls :
    call[c].kind = "turn" /\ call[c].pc \in {"ready", "provider"} => ~Exhausted(call[c].user)

LEMMA AllowedStep ==
    ASSUME Generous, TypeOK, SlotHeld, Allowed, [Next]_vars PROVE Allowed'
<1>0. quota \in [Users -> [quota : Nat, used : Nat] \cup {None}]
  BY DEF TypeOK
<1> DEFINE Past(r) == r.kind = "turn" /\ r.pc \in {"ready", "provider"}
\* A call that may move, where the quotas stay.
<1>1. ASSUME NEW c \in Calls, UNCHANGED quota, \A d \in Calls \ {c} : call'[d] = call[d],
             Past(call'[c]) => call'[c].user = call[c].user /\ ~Exhausted(call[c].user)
      PROVE  Allowed'
  BY <1>1 DEF Allowed, Exhausted
<1>2. ASSUME NEW c \in Calls, NEW k \in setting.kinds, NEW u \in Users, Request(c, k, u) PROVE Allowed'
  <2>1. UNCHANGED quota /\ call'[c].pc = "gate" /\ \A d \in Calls \ {c} : call'[d] = call[d]
    BY <1>2 DEF Request, TypeOK
  <2>2. QED
    BY <1>1, <2>1
<1>3. ASSUME NEW c \in Calls, Gate(c) \/ startAI(c) \/ endAI(c) \/ Recheck(c) \/ Send(c)
      PROVE  Allowed'
  <2>1. UNCHANGED quota
    BY <1>3 DEF Gate, startAI, endAI, Recheck, Send
  <2>2. PICK l \in PCs :
           /\ Goto(c, l)
           /\ call[c].kind = "turn" /\ l \in {"ready", "provider"} => ~Exhausted(call[c].user)
    BY <1>3 DEF Gate, startAI, endAI, Recheck, Send, At, Allowed, PCs
  <2>3. /\ call'[c].pc = l /\ call'[c].user = call[c].user /\ call'[c].kind = call[c].kind
        /\ \A d \in Calls \ {c} : call'[d] = call[d]
    BY <2>2, GotoType
  <2>4. QED
    BY <1>1, <2>1, <2>2, <2>3
<1>5. ASSUME NEW c \in Calls, NEW n \in 0..MaxCost, Answer(c, n) PROVE Allowed'
  <2>1. PICK l \in {"bill", "release"} : Reported(c, n, l)
    BY <1>5 DEF Answer
  <2>2. call'[c].pc = l /\ \A d \in Calls \ {c} : call'[d] = call[d]
    BY <2>1, ReportedType DEF PCs
  <2>3. UNCHANGED quota
    BY <2>1 DEF Reported
  <2>4. QED
    BY <1>1, <2>2, <2>3
\* The bill empties the allowance of its user only, and no other call of the user
\* holds the slot.
<1>6. ASSUME NEW c \in Calls, Bill(c) PROVE Allowed'
  <2>1. /\ call'[c].pc = "release" /\ \A d \in Calls \ {c} : call'[d] = call[d]
        /\ call[c].pc = "bill"
    BY <1>6, GotoType DEF Bill, At, PCs
  <2>2. \A v \in Users \ {call[c].user} : quota'[v] = quota[v]
    BY <1>0, <1>6 DEF Bill
  <2>3. ASSUME NEW d \in Calls, Past(call'[d])
        PROVE  /\ ~Exhausted(call[d].user) /\ call'[d] = call[d]
               /\ call[d].user \in Users \ {call[c].user}
    <3>1. d # c /\ call'[d] = call[d]
      BY <2>1, <2>3
    <3>2. call[d].user # call[c].user
      BY <2>1, <2>3, <3>1 DEF SlotHeld, Holding
    <3>3. QED
      BY <2>3, <3>1, <3>2 DEF Allowed, TypeOK
  <2>4. QED
    BY <2>2, <2>3 DEF Allowed, Exhausted
<1>7. ASSUME NEW u \in Users, UNCHANGED call, \A v \in Users \ {u} : quota'[v] = quota[v],
             ~Exhausted(u) => ~Exhausted(u)'
      PROVE  Allowed'
  BY <1>7 DEF Allowed, Exhausted, TypeOK
<1>8. ASSUME NEW u \in Users, NEW q \in Allowances, SetQuota(u, q) PROVE Allowed'
  <2>1. /\ quota[u] \in [quota : Nat, used : Nat] /\ q \in Nat /\ q > quota[u].quota
        /\ quota' = [quota EXCEPT ![u].quota = q] /\ UNCHANGED call
    BY <1>0, <1>8, AIGateAssumption DEF SetQuota, Generous
  <2>2. quota'[u].quota = q /\ quota'[u].used = quota[u].used /\ quota'[u] # None
    BY <1>0, <2>1, AIGateAssumption
  <2>3. ~Exhausted(u) => ~Exhausted(u)'
    BY <2>1, <2>2 DEF Exhausted
  <2>4. QED
    BY <1>0, <1>7, <2>1, <2>3
<1>9. ASSUME NEW u \in Users, ResetUsage(u) PROVE Allowed'
  <2>1. /\ quota[u] \in [quota : Nat, used : Nat]
        /\ quota' = [quota EXCEPT ![u].used = 0] /\ UNCHANGED call
    BY <1>0, <1>9 DEF ResetUsage
  <2>2. quota'[u].quota = quota[u].quota /\ quota'[u].used = 0 /\ quota'[u] # None
    BY <1>0, <2>1, AIGateAssumption
  <2>3. ~Exhausted(u) => ~Exhausted(u)'
    BY <2>1, <2>2 DEF Exhausted
  <2>4. QED
    BY <1>0, <1>7, <2>1, <2>3
<1>10. ASSUME NEW u \in Users, DeleteUser(u) PROVE FALSE
  BY <1>10 DEF DeleteUser, Generous
<1>11. CASE Restart
  BY <1>11 DEF Restart, Allowed, TypeOK
<1>12. CASE UNCHANGED vars
  BY <1>12 DEF vars, Allowed, Exhausted
<1>13. QED
  BY <1>2, <1>3, <1>5, <1>6, <1>8, <1>9, <1>10, <1>11, <1>12 DEF Next

\* "concurrent requests cannot race the quota gate" (handlers.go:51) is true of the
\* chat turns, which look at the quota holding the slot, next to any other calls.
THEOREM TurnsCannotRace == Spec => []TurnGateHolds
<1>1. Init => (Generous => Allowed) /\ SlotHeld
  BY DEF Init, Allowed, SlotHeld, Holding
<1>2. TypeOK /\ SlotHeld /\ (Generous => Allowed) /\ [Next]_vars => (Generous => Allowed)'
  BY AllowedStep, SameSetting DEF Generous
<1>3. (Generous => Allowed) => TurnGateHolds
  BY DEF Allowed, TurnGateHolds, At
<1>4. QED
  BY <1>1, <1>2, <1>3, InitType, TypeStep, SlotStep, PTL DEF Spec

-----------------------------------------------------------------------------
(* The accounts *)

\* The kinds of call are those of the setting.
KindsOfSetting == \A c \in Calls : call[c].kind \in setting.kinds

LEMMA KindsStep == KindsOfSetting /\ TypeOK /\ [Next]_vars => KindsOfSetting'
<1> SUFFICES ASSUME KindsOfSetting, TypeOK, [Next]_vars PROVE KindsOfSetting'
  OBVIOUS
<1>0. UNCHANGED setting /\ call \in [Calls -> CallType]
  BY SameSetting DEF TypeOK, CallType
<1>1. ASSUME NEW c \in Calls, NEW k \in setting.kinds, NEW u \in Users, Request(c, k, u)
      PROVE  KindsOfSetting'
  BY <1>0, <1>1 DEF Request, KindsOfSetting
<1>2. ASSUME NEW c \in Calls, NEW l \in PCs, Goto(c, l) PROVE KindsOfSetting'
  BY <1>0, <1>2, GotoType DEF KindsOfSetting, CallType, Goto
<1>3. ASSUME NEW c \in Calls, NEW n \in 0..MaxCost, NEW l \in PCs, Reported(c, n, l)
      PROVE  KindsOfSetting'
  BY <1>0, <1>3 DEF KindsOfSetting, CallType, Reported
<1>4. ASSUME NEW c \in Calls, Gate(c) \/ startAI(c) \/ Recheck(c) \/ Send(c) \/ Bill(c) \/ endAI(c)
      PROVE  KindsOfSetting'
  BY <1>2, <1>4 DEF Gate, startAI, Recheck, Send, Bill, endAI, PCs
<1>5. ASSUME NEW c \in Calls, NEW n \in 0..MaxCost, Answer(c, n) PROVE KindsOfSetting'
  BY <1>3, <1>5 DEF Answer, PCs
<1>6. ASSUME UNCHANGED call PROVE KindsOfSetting'
  BY <1>0, <1>6 DEF KindsOfSetting
<1>7. CASE Restart
  BY <1>0, <1>7 DEF Restart, KindsOfSetting, CallType
<1>8. QED
  BY <1>1, <1>4, <1>5, <1>6, <1>7 DEF Next, vars, SetQuota, ResetUsage, DeleteUser

\* A call about to bill owes exactly what the log of its user lacks; a user without
\* such a call has everything in the log.
Owes(c)   == metered[call[c].user] = lifetime[call[c].user] + call[c].tokens
Billing(u) == {c \in Calls : call[c].pc = "bill" /\ call[c].user = u}
Booked ==
    /\ \A u \in Users : quota[u] # None
    /\ \A u \in Users : Billing(u) = {} => metered[u] = lifetime[u]
    /\ \A c \in Calls : call[c].pc = "bill" => Owes(c)

\* Nothing but an answer or a bill moves the accounts.
LEMMA BookedMove ==
    ASSUME Booked, UNCHANGED <<lifetime, metered>>, \A u \in Users : quota'[u] # None,
           \A c \in Calls : call[c].pc = "bill" \/ call'[c].pc = "bill" => call'[c] = call[c]
    PROVE  Booked'
<1>1. \A u \in Users : Billing(u)' = Billing(u)
  BY DEF Billing
<1>2. \A c \in Calls : call'[c].pc = "bill" => call'[c] = call[c] /\ Owes(c)
  BY DEF Booked
<1>3. QED
  BY <1>1, <1>2 DEF Booked, Owes

LEMMA BookedStep ==
    ASSUME NothingLost, TypeOK, KindsOfSetting, SlotHeld, Booked, [Next]_vars PROVE Booked'
<1>0. /\ quota \in [Users -> [quota : Nat, used : Nat] \cup {None}]
      /\ call \in [Calls -> CallType]
      /\ lifetime \in [Users -> Nat] /\ metered \in [Users -> Nat]
      /\ \A u \in Users : quota[u] # None
  BY DEF TypeOK, CallType, Booked
<1>1. ASSUME NEW c \in Calls, NEW k \in setting.kinds, NEW u \in Users, Request(c, k, u) PROVE Booked'
  <2>1. /\ call[c].pc = "idle" /\ call'[c].pc = "gate" /\ \A d \in Calls \ {c} : call'[d] = call[d]
        /\ UNCHANGED <<quota, lifetime, metered>>
    BY <1>1 DEF Request, At, TypeOK
  <2>2. QED
    BY <1>0, <2>1, BookedMove
<1>2. ASSUME NEW c \in Calls, Gate(c) \/ startAI(c) \/ endAI(c) \/ Recheck(c) \/ Send(c)
      PROVE  Booked'
  <2>1. UNCHANGED <<quota, lifetime, metered>> /\ call[c].pc # "bill"
    BY <1>2 DEF Gate, startAI, endAI, Recheck, Send, At
  <2>2. PICK l \in PCs \ {"bill"} : Goto(c, l)
    BY <1>2 DEF Gate, startAI, endAI, Recheck, Send, PCs
  <2>3. call'[c].pc = l /\ \A d \in Calls \ {c} : call'[d] = call[d]
    BY <2>2, GotoType
  <2>4. QED
    BY <1>0, <2>1, <2>2, <2>3, BookedMove
\* The provider reports to the holder of the slot, so no bill of the user is open.
<1>3. ASSUME NEW c \in Calls, NEW n \in 0..MaxCost, Answer(c, n) PROVE Booked'
  <2> DEFINE u == call[c].user
  <2>1. Reported(c, n, "bill")
    BY <1>0, <1>3 DEF Answer, NothingLost, KindsOfSetting, CallType
  <2>2. /\ call'[c].pc = "bill" /\ call'[c].user = u /\ \A d \in Calls \ {c} : call'[d] = call[d]
        /\ call[c].pc = "provider"
    BY <2>1, ReportedType DEF PCs, Reported, At
  <2>3. /\ UNCHANGED <<quota, lifetime>> /\ n \in Nat /\ u \in Users
        /\ metered' = [metered EXCEPT ![u] = @ + n]
    BY <1>0, <2>1, AIGateAssumption DEF Reported, CallType
  <2>4. \A d \in Calls : call[d].pc = "bill" => d # c /\ call[d].user # u
    BY <2>2 DEF SlotHeld, Holding
  <2>5. metered[u] = lifetime[u] /\ metered'[u] = lifetime[u] + n
    BY <1>0, <2>3, <2>4 DEF Booked, Billing
  <2>6. \A v \in Users \ {u} : metered'[v] = metered[v] /\ Billing(v)' = Billing(v)
    BY <1>0, <2>2, <2>3 DEF Billing
  <2>7. call'[c].tokens = n
    BY <1>0, <2>1 DEF Reported, CallType
  <2>8. ASSUME NEW d \in Calls, call'[d].pc = "bill" PROVE Owes(d)'
    <3>1. CASE d = c
      BY <2>2, <2>3, <2>5, <2>7, <3>1 DEF Owes
    <3>2. CASE d # c
      <4>1. call'[d] = call[d] /\ call[d].pc = "bill" /\ call[d].user \in Users \ {u}
        BY <1>0, <2>2, <2>4, <2>8, <3>2 DEF CallType
      <4>2. QED
        BY <2>3, <2>6, <4>1 DEF Owes, Booked
    <3>3. QED
      BY <3>1, <3>2
  <2>9. ASSUME NEW v \in Users, Billing(v)' = {} PROVE metered'[v] = lifetime'[v]
    <3>1. v # u
      BY <2>2, <2>9 DEF Billing
    <3>2. QED
      BY <2>3, <2>6, <2>9, <3>1 DEF Booked
  <2>10. QED
    BY <1>0, <2>3, <2>8, <2>9 DEF Booked
\* The bill settles what its call owes, and no other call of the user owes anything.
<1>4. ASSUME NEW c \in Calls, Bill(c) PROVE Booked'
  <2> DEFINE u == call[c].user
  <2>1. /\ call'[c].pc = "release" /\ \A d \in Calls \ {c} : call'[d] = call[d]
        /\ call[c].pc = "bill"
    BY <1>4, GotoType DEF Bill, At, PCs
  <2>2. u \in Users /\ call[c].tokens \in Nat
    BY <1>0, AIGateAssumption DEF CallType
  <2>3. /\ lifetime' = [lifetime EXCEPT ![u] = @ + call[c].tokens]
        /\ quota' = [quota EXCEPT ![u].used = @ + call[c].tokens] /\ UNCHANGED metered
    BY <1>0, <1>4, <2>2 DEF Bill, NothingLost
  <2>4. \A v \in Users : quota'[v] # None
    <3>1. quota[u] \in [quota : Nat, used : Nat]
      BY <1>0, <2>2
    <3>2. quota[u].quota \in Nat /\ quota[u].used + call[c].tokens \in Nat
      BY <2>2, <3>1
    <3>3. quota'[u] \in [quota : Nat, used : Nat]
      BY <1>0, <2>2, <2>3, <3>1, <3>2
    <3>4. QED
      BY <1>0, <2>2, <2>3, <3>3, AIGateAssumption
  <2>5. \A d \in Calls : call'[d].pc = "bill" => call'[d] = call[d] /\ call[d].user # u
    BY <2>1 DEF SlotHeld, Holding
  <2>6. lifetime'[u] = lifetime[u] + call[c].tokens /\ metered[u] = lifetime[u] + call[c].tokens
    BY <1>0, <2>1, <2>2, <2>3 DEF Booked, Owes
  <2>7. \A v \in Users \ {u} : lifetime'[v] = lifetime[v] /\ Billing(v)' = Billing(v)
    BY <1>0, <2>1, <2>2, <2>3 DEF Billing
  <2>8. QED
    BY <1>0, <2>3, <2>4, <2>5, <2>6, <2>7 DEF Booked, Owes, CallType
<1>5. ASSUME NEW u \in Users, NEW q \in Allowances, SetQuota(u, q) PROVE Booked'
  <2>1. quota[u] \in [quota : Nat, used : Nat] /\ q \in Nat
    BY <1>0, AIGateAssumption
  <2>2. quota' = [quota EXCEPT ![u].quota = q] /\ UNCHANGED <<lifetime, metered, call>>
    BY <1>5 DEF SetQuota
  <2>3. \A v \in Users : quota'[v] # None
    BY <1>0, <2>1, <2>2, AIGateAssumption
  <2>4. QED
    BY <2>2, <2>3, BookedMove
<1>6. ASSUME NEW u \in Users, ResetUsage(u) PROVE Booked'
  <2>1. quota[u] \in [quota : Nat, used : Nat]
    BY <1>0
  <2>2. quota' = [quota EXCEPT ![u].used = 0] /\ UNCHANGED <<lifetime, metered, call>>
    BY <1>6 DEF ResetUsage
  <2>3. \A v \in Users : quota'[v] # None
    BY <1>0, <2>1, <2>2, AIGateAssumption
  <2>4. QED
    BY <2>2, <2>3, BookedMove
<1>7. \A u \in Users : ~DeleteUser(u)
  BY DEF DeleteUser, NothingLost
<1>8. ~Restart
  BY DEF Restart, NothingLost
<1>9. CASE UNCHANGED vars
  BY <1>0, <1>9, BookedMove DEF vars
<1>10. QED
  BY <1>1, <1>2, <1>3, <1>4, <1>5, <1>6, <1>7, <1>8, <1>9 DEF Next

\* Where no bill fails, no user is deleted and no attempt or tutor's call is made, every
\* token reported is logged or in the one bill about to be written, for any users, calls
\* and costs.
THEOREM EveryTokenBilled == Spec => []Accounted
<1> DEFINE Books == NothingLost => Booked
<1>1. Init => SlotHeld /\ KindsOfSetting
  BY DEF Init, SlotHeld, Holding, KindsOfSetting
<1>2. Init => Booked
  <2> SUFFICES ASSUME Init PROVE Booked
    OBVIOUS
  <2>1. \A u \in Users : quota[u] \in [quota : Allowances, used : {0}] /\ metered[u] = lifetime[u]
    BY DEF Init
  <2>2. \A u \in Users : quota[u] \in [quota : Nat, used : Nat]
    BY <2>1, GrantedType
  <2>3. \A c \in Calls : call[c].pc = "idle"
    BY DEF Init
  <2>4. QED
    BY <2>1, <2>2, <2>3, AIGateAssumption DEF Booked
<1>3. TypeOK /\ KindsOfSetting /\ SlotHeld /\ Books /\ [Next]_vars => Books'
  BY BookedStep, SameSetting DEF NothingLost
<1>4. Books => Accounted
  <2> SUFFICES ASSUME Booked, NEW u \in Users
               PROVE  \/ metered[u] = lifetime[u]
                      \/ \E c \in Calls : /\ call[c].pc = "bill" /\ call[c].user = u
                                          /\ metered[u] = lifetime[u] + call[c].tokens
    BY DEF Accounted
  <2>1. QED
    BY DEF Booked, Billing, Owes
<1>5. Init => Books
  BY <1>2
<1> HIDE DEF Books
<1>6. QED
  BY <1>1, <1>3, <1>4, <1>5, InitType, TypeStep, KindsStep, SlotStep, PTL DEF Spec

-----------------------------------------------------------------------------
(* The overdraft *)

\* The calls that passed the endpoint's gate and have not billed.
Past(u) == {c \in Calls : /\ call[c].user = u
                          /\ call[c].pc \in {"slot", "recheck", "ready", "provider", "bill"}}

\* Some calls, finitely many.
FewCalls == IsFiniteSet(Calls) /\ Calls # {}

\* Every call past the gate may still cost once, and one is past it only where there
\* was an allowance.
Covered(u) ==
    /\ quota[u].used + MaxCost * Cardinality(Past(u)) < quota[u].quota + MaxCost * Cardinality(Calls)
    /\ Past(u) # {} => quota[u].quota > 0
AllCovered == \A u \in Users : quota[u] # None => Covered(u)

LEMMA Times ==
    ASSUME NEW k \in Nat, NEW a \in Nat, NEW b \in Nat, a <= b
    PROVE  k * a \in Nat /\ k * b \in Nat /\ k * a <= k * b /\ k * (a + 1) = k * a + k
<1>1. PICK d \in Nat : b = a + d
  <2>1. b - a \in Nat /\ b = a + (b - a)
    OBVIOUS
  <2>2. QED
    BY <2>1
<1>2. k * d \in Nat /\ k * a \in Nat /\ k * b = k * a + k * d
  BY <1>1
<1>3. QED
  BY <1>2

\* The calls past the gate are some of the calls.
LEMMA PastSize ==
    ASSUME FewCalls, NEW S \in SUBSET Calls
    PROVE  /\ IsFiniteSet(S) /\ Cardinality(S) \in Nat /\ Cardinality(Calls) \in Nat
           /\ Cardinality(S) <= Cardinality(Calls)
           /\ MaxCost * Cardinality(S) \in Nat /\ MaxCost * Cardinality(Calls) \in Nat
           /\ MaxCost * Cardinality(S) <= MaxCost * Cardinality(Calls)
<1>1. /\ IsFiniteSet(S) /\ Cardinality(S) \in Nat /\ Cardinality(Calls) \in Nat
      /\ Cardinality(S) <= Cardinality(Calls)
  BY FS_Subset, FS_CardinalityType DEF FewCalls
<1>2. QED
  BY <1>1, Times, AIGateAssumption

\* One call fewer past the gate leaves room for one more cost.
LEMMA PastLess ==
    ASSUME FewCalls, NEW S \in SUBSET Calls, NEW c \in S
    PROVE  MaxCost * Cardinality(S) = MaxCost * Cardinality(S \ {c}) + MaxCost
<1>1. Cardinality(S \ {c}) = Cardinality(S) - 1 /\ S \ {c} \in SUBSET Calls
  BY PastSize, FS_RemoveElement
<1>2. Cardinality(S \ {c}) \in Nat /\ Cardinality(S) = Cardinality(S \ {c}) + 1
  BY <1>1, PastSize
<1>3. QED
  BY <1>2, Times, AIGateAssumption

\* Calls may leave the set, and the quota may be raised or its use forgiven.
LEMMA CoveredLess ==
    ASSUME FewCalls, NEW u \in Users, Covered(u),
           quota[u] \in [quota : Nat, used : Nat], quota'[u] \in [quota : Nat, used : Nat],
           quota'[u].quota >= quota[u].quota, quota'[u].used <= quota[u].used,
           Past(u)' \subseteq Past(u)
    PROVE  Covered(u)'
<1> DEFINE n == Cardinality(Past(u))
           m == Cardinality(Past(u)')
           all == MaxCost * Cardinality(Calls)
<1>1. Past(u) \in SUBSET Calls /\ Past(u)' \in SUBSET Calls
  BY DEF Past
<1>2. n \in Nat /\ m \in Nat /\ m <= n
  BY <1>1, PastSize, FS_Subset
<1>3. MaxCost * m \in Nat /\ MaxCost * n \in Nat /\ MaxCost * m <= MaxCost * n /\ all \in Nat
  BY <1>1, <1>2, PastSize, Times, AIGateAssumption
<1>4. quota[u].used + MaxCost * n < quota[u].quota + all
  BY DEF Covered
<1>5. Past(u)' # {} => quota[u].quota > 0
  BY DEF Covered
<1>6. /\ quota[u].used \in Nat /\ quota[u].quota \in Nat
      /\ quota'[u].used \in Nat /\ quota'[u].quota \in Nat
  OBVIOUS
<1> HIDE DEF n, m, all
<1>7. quota'[u].used + MaxCost * m < quota'[u].quota + all
  BY <1>3, <1>4, <1>6
<1>8. Past(u)' # {} => quota'[u].quota > 0
  BY <1>5, <1>6
<1>9. QED
  BY <1>7, <1>8 DEF Covered, n, m, all

\* A request passes the gate with allowance left.
LEMMA CoveredGate ==
    ASSUME FewCalls, NEW u \in Users, ~Exhausted(u), quota[u] \in [quota : Nat, used : Nat],
           UNCHANGED quota
    PROVE  Covered(u)'
<1> DEFINE m == MaxCost * Cardinality(Past(u)')
           all == MaxCost * Cardinality(Calls)
<1>1. Past(u)' \in SUBSET Calls
  BY DEF Past
<1>2. m \in Nat /\ all \in Nat /\ m <= all
  BY <1>1, PastSize
<1>3. quota[u].used < quota[u].quota /\ quota[u].used \in Nat /\ quota[u].quota \in Nat
  BY DEF Exhausted
<1> HIDE DEF m, all
<1>4. quota'[u].used + m < quota'[u].quota + all /\ quota'[u].quota > 0
  BY <1>2, <1>3
<1>5. QED
  BY <1>4 DEF Covered, m, all

\* A bill costs at most what its call had set aside.
LEMMA CoveredBill ==
    ASSUME FewCalls, TypeOK, AllCovered, NEW c \in Calls, Bill(c),
           NEW u \in Users, call[c].user = u, quota[u] # None
    PROVE  Covered(u)'
<1> DEFINE n == MaxCost * Cardinality(Past(u))
           m == MaxCost * Cardinality(Past(u)')
           all == MaxCost * Cardinality(Calls)
<1>1. /\ call'[c].pc = "release" /\ \A d \in Calls \ {c} : call'[d] = call[d]
      /\ call[c].pc = "bill" /\ call'[c].user = u
  BY GotoType DEF Bill, At, PCs
<1>2. c \in Past(u) /\ Past(u)' = Past(u) \ {c} /\ Past(u) \in SUBSET Calls
  BY <1>1 DEF Past
<1>3. n = m + MaxCost /\ m \in Nat /\ all \in Nat
  BY <1>2, PastSize, PastLess
<1>4. u \in Users /\ call[c].tokens \in 0..MaxCost
  BY DEF TypeOK
<1>5. quota[u] \in [quota : Nat, used : Nat] /\ Covered(u)
  BY <1>4 DEF TypeOK, AllCovered
<1>6. quota[u].used \in Nat /\ quota[u].quota \in Nat
  BY <1>5
<1>7. /\ quota'[u].quota = quota[u].quota
      /\ quota'[u].used \in {quota[u].used, quota[u].used + call[c].tokens}
  <2>1. CASE UNCHANGED quota
    BY <2>1
  <2>2. CASE quota' = [quota EXCEPT ![u].used = @ + call[c].tokens]
    BY <1>4, <1>5, <2>2 DEF TypeOK
  <2>3. QED
    BY <2>1, <2>2 DEF Bill
<1>8. quota[u].used + n < quota[u].quota + all /\ (Past(u)' # {} => quota[u].quota > 0)
  BY <1>2, <1>5 DEF Covered
<1> HIDE DEF n, m, all
<1>9. quota'[u].used + m < quota'[u].quota + all
  <2>1. quota'[u].used <= quota[u].used + MaxCost /\ quota'[u].used \in Nat
    BY <1>4, <1>6, <1>7, AIGateAssumption
  <2>2. QED
    BY <1>3, <1>6, <1>7, <1>8, <2>1, AIGateAssumption
<1>10. QED
  BY <1>7, <1>8, <1>9 DEF Covered, m, all

LEMMA CoveredStep ==
    ASSUME FewCalls, Generous, TypeOK, AllCovered, [Next]_vars PROVE AllCovered'
<1> SUFFICES ASSUME NEW u \in Users, quota'[u] # None PROVE Covered(u)'
  BY DEF AllCovered
<1>0. quota \in [Users -> [quota : Nat, used : Nat] \cup {None}] /\ TypeOK'
  BY TypeStep DEF TypeOK
<1>1. quota'[u] \in [quota : Nat, used : Nat]
  BY <1>0 DEF TypeOK
\* Where the row stays and nobody passes the gate.
<1>2. ASSUME quota'[u] = quota[u], Past(u)' \subseteq Past(u) PROVE Covered(u)'
  <2>1. quota[u] \in [quota : Nat, used : Nat] /\ Covered(u)
    BY <1>0, <1>2 DEF AllCovered
  <2>2. quota[u].quota \in Nat /\ quota[u].used \in Nat
    BY <2>1
  <2>3. quota'[u].quota >= quota[u].quota /\ quota'[u].used <= quota[u].used
    BY <1>2, <2>2
  <2>4. QED
    BY <1>1, <1>2, <2>1, <2>3, CoveredLess
<1>3. ASSUME NEW c \in Calls, UNCHANGED quota, \A d \in Calls \ {c} : call'[d] = call[d],
             \/ call'[c].pc \in {"idle", "gate", "release"}
             \/ c \in Past(call[c].user) /\ call'[c].user = call[c].user
      PROVE  Covered(u)'
  <2>1. Past(u)' \subseteq Past(u)
    BY <1>3 DEF Past
  <2>2. QED
    BY <1>2, <1>3, <2>1
<1>4. ASSUME NEW c \in Calls, NEW k \in setting.kinds, NEW v \in Users, Request(c, k, v)
      PROVE  Covered(u)'
  <2>1. UNCHANGED quota /\ call'[c].pc = "gate" /\ \A d \in Calls \ {c} : call'[d] = call[d]
    BY <1>4 DEF Request, TypeOK
  <2>2. QED
    BY <1>3, <2>1
<1>5. ASSUME NEW c \in Calls, Gate(c) PROVE Covered(u)'
  <2>1. UNCHANGED quota
    BY <1>5 DEF Gate
  <2>2. PICK l \in {"idle", "slot"} : Goto(c, l) /\ (l = "slot" => ~Exhausted(call[c].user))
    BY <1>5 DEF Gate
  <2>3. /\ call'[c].pc = l /\ call'[c].user = call[c].user
        /\ \A d \in Calls \ {c} : call'[d] = call[d]
    BY <2>2, GotoType DEF PCs
  <2>4. CASE l = "slot" /\ call[c].user = u
    BY <1>0, <1>1, <2>1, <2>2, <2>4, CoveredGate
  <2>5. CASE l = "idle"
    BY <1>3, <2>1, <2>3, <2>5
  <2>6. CASE call[c].user # u
    <3>1. Past(u)' \subseteq Past(u)
      BY <2>3, <2>6 DEF Past
    <3>2. QED
      BY <1>2, <2>1, <3>1
  <2>7. QED
    BY <2>2, <2>4, <2>5, <2>6
<1>6. ASSUME NEW c \in Calls, startAI(c) \/ Recheck(c) \/ Send(c) \/ endAI(c)
      PROVE  Covered(u)'
  <2>1. UNCHANGED quota
    BY <1>6 DEF startAI, Recheck, Send, endAI
  <2>2. PICK l \in PCs :
           Goto(c, l) /\ (l \in {"idle", "release"} \/ call[c].pc \in {"slot", "recheck", "ready"})
    BY <1>6 DEF startAI, Recheck, Send, endAI, At, PCs
  <2>3. /\ call'[c].pc = l /\ call'[c].user = call[c].user
        /\ \A d \in Calls \ {c} : call'[d] = call[d]
    BY <2>2, GotoType
  <2>4. QED
    BY <1>3, <2>1, <2>2, <2>3 DEF Past
<1>7. ASSUME NEW c \in Calls, NEW n \in 0..MaxCost, Answer(c, n) PROVE Covered(u)'
  <2>1. PICK l \in {"bill", "release"} : Reported(c, n, l)
    BY <1>7 DEF Answer
  <2>2. /\ call'[c].user = call[c].user /\ \A d \in Calls \ {c} : call'[d] = call[d]
    BY <2>1, ReportedType DEF PCs
  <2>3. UNCHANGED quota /\ call[c].pc = "provider"
    BY <2>1 DEF Reported, At
  <2>4. QED
    BY <1>3, <2>2, <2>3 DEF Past
<1>8. ASSUME NEW c \in Calls, Bill(c) PROVE Covered(u)'
  <2>1. /\ call'[c].pc = "release" /\ \A d \in Calls \ {c} : call'[d] = call[d]
    BY <1>8, GotoType DEF Bill, PCs
  <2>2. CASE call[c].user = u
    <3>1. quota[u] # None
      BY <1>8, <2>2 DEF Bill
    <3>2. QED
      BY <1>8, <2>2, <3>1, CoveredBill
  <2>3. CASE call[c].user # u
    <3>1. quota'[u] = quota[u] /\ Past(u)' \subseteq Past(u)
      BY <1>0, <1>8, <2>1, <2>3 DEF Bill, Past
    <3>2. QED
      BY <1>2, <3>1
  <2>4. QED
    BY <2>2, <2>3
<1>9. ASSUME NEW v \in Users, UNCHANGED call, quota[v] \in [quota : Nat, used : Nat],
             \A w \in Users \ {v} : quota'[w] = quota[w],
             quota'[v].quota >= quota[v].quota, quota'[v].used <= quota[v].used
      PROVE  Covered(u)'
  <2>1. Past(u)' = Past(u)
    BY <1>9 DEF Past
  <2>2. CASE u = v
    <3>1. Covered(u)
      BY <1>9, <2>2, AIGateAssumption DEF AllCovered
    <3>2. QED
      BY <1>1, <1>9, <2>1, <2>2, <3>1, CoveredLess
  <2>3. CASE u # v
    BY <1>2, <1>9, <2>1, <2>3
  <2>4. QED
    BY <2>2, <2>3
<1>10. ASSUME NEW v \in Users, NEW q \in Allowances, SetQuota(v, q) PROVE Covered(u)'
  <2>1. /\ quota[v] \in [quota : Nat, used : Nat] /\ q \in Nat /\ q > quota[v].quota
        /\ quota' = [quota EXCEPT ![v].quota = q] /\ UNCHANGED call
    BY <1>0, <1>10, AIGateAssumption DEF SetQuota, Generous
  <2>2. quota[v].used \in Nat /\ quota[v].quota \in Nat
    BY <2>1
  <2>3. quota'[v].quota = q /\ quota'[v].used = quota[v].used
    BY <1>0, <2>1
  <2>4. \A w \in Users \ {v} : quota'[w] = quota[w]
    BY <1>0, <2>1
  <2>5. quota'[v].quota >= quota[v].quota /\ quota'[v].used <= quota[v].used
    BY <2>1, <2>2, <2>3
  <2>6. QED
    BY <1>9, <2>1, <2>4, <2>5
<1>11. ASSUME NEW v \in Users, ResetUsage(v) PROVE Covered(u)'
  <2>1. /\ quota[v] \in [quota : Nat, used : Nat]
        /\ quota' = [quota EXCEPT ![v].used = 0] /\ UNCHANGED call
    BY <1>0, <1>11 DEF ResetUsage
  <2>2. quota[v].used \in Nat /\ quota[v].quota \in Nat
    BY <2>1
  <2>3. quota'[v].quota = quota[v].quota /\ quota'[v].used = 0
    BY <1>0, <2>1
  <2>4. \A w \in Users \ {v} : quota'[w] = quota[w]
    BY <1>0, <2>1
  <2>5. quota'[v].quota >= quota[v].quota /\ quota'[v].used <= quota[v].used
    BY <2>2, <2>3
  <2>6. QED
    BY <1>9, <2>1, <2>4, <2>5
<1>12. ASSUME NEW v \in Users, DeleteUser(v) PROVE FALSE
  BY <1>12 DEF DeleteUser, Generous
<1>13. CASE Restart
  <2>1. quota' = quota /\ Past(u)' \subseteq Past(u)
    BY <1>13 DEF Restart, Past, TypeOK
  <2>2. QED
    BY <1>2, <2>1
<1>14. CASE UNCHANGED vars
  <2>1. quota' = quota /\ Past(u)' \subseteq Past(u)
    BY <1>14 DEF vars, Past
  <2>2. QED
    BY <1>2, <2>1
<1>15. QED
  BY <1>4, <1>5, <1>6, <1>7, <1>8, <1>10, <1>11, <1>12, <1>13, <1>14 DEF Next

\* However many requests pass the gate before the bill of another lands, a quota is
\* overdrawn by less than what they can cost together.
THEOREM Overdraft == FewCalls => (Spec => []OverdraftBounded)
<1> SUFFICES ASSUME FewCalls PROVE Spec => []OverdraftBounded
  OBVIOUS
<1>0. Cardinality(Calls) \in Nat /\ Cardinality(Calls) # 0
  BY FS_EmptySet, FS_CardinalityType DEF FewCalls
<1> DEFINE all == MaxCost * Cardinality(Calls)
<1>1. all \in Nat /\ all > 0
  <2>1. Cardinality(Calls) >= 1 /\ MaxCost \in Nat /\ MaxCost * 1 = MaxCost /\ MaxCost > 0
    BY <1>0, AIGateAssumption
  <2>2. QED
    BY <1>0, <2>1, Times
<1>2. Init => AllCovered
  <2> SUFFICES ASSUME Init, NEW u \in Users, quota[u] # None PROVE Covered(u)
    BY DEF AllCovered
  <2>1. Past(u) = {}
    BY DEF Init, Past
  <2>2. MaxCost * Cardinality(Past(u)) = 0
    BY <2>1, FS_EmptySet, AIGateAssumption
  <2>3. quota[u] \in [quota : Allowances, used : {0}]
    BY DEF Init
  <2>4. quota[u].used = 0 /\ quota[u].quota \in Nat
    BY <2>3, GrantedType
  <2> HIDE DEF all
  <2>5. quota[u].used + 0 < quota[u].quota + all
    BY <1>1, <2>4
  <2>6. QED
    BY <2>1, <2>2, <2>5 DEF Covered, all
<1> DEFINE Bounds == Generous => AllCovered
<1>3. TypeOK /\ Bounds /\ [Next]_vars => Bounds'
  BY CoveredStep, SameSetting DEF Generous
<1>4. TypeOK /\ Bounds => OverdraftBounded
  <2> SUFFICES ASSUME TypeOK, AllCovered, NEW u \in Users, quota[u] # None
               PROVE  quota[u].used < quota[u].quota + Cardinality(Calls) * MaxCost
    BY DEF OverdraftBounded
  <2> DEFINE n == MaxCost * Cardinality(Past(u))
  <2>1. quota[u] \in [quota : Nat, used : Nat] /\ Past(u) \in SUBSET Calls
    BY DEF TypeOK, Past
  <2>2. quota[u].used \in Nat /\ quota[u].quota \in Nat /\ n \in Nat
    BY <2>1, PastSize
  <2>3. quota[u].used + n < quota[u].quota + all
    BY DEF AllCovered, Covered
  <2>4. Cardinality(Calls) * MaxCost = all
    BY <1>0, AIGateAssumption
  <2> HIDE DEF n, all
  <2>5. QED
    BY <1>1, <2>2, <2>3, <2>4
<1>5. Init => Bounds
  BY <1>2
<1> HIDE DEF all, Bounds
<1>6. QED
  BY <1>3, <1>4, <1>5, InitType, TypeStep, PTL DEF Spec

=============================================================================
