-------------------------------- MODULE Server --------------------------------
(***************************************************************************)
(* The process main.go starts: the migration of its database, the accounts *)
(* and sessions behind every page, the rate limiters in front of them, and *)
(* what it shows of its learners.  They share no state: a limiter knows    *)
(* addresses and not accounts, what the migration makes of tests and chats *)
(* concerns no account, and of an account the standings need no more than  *)
(* that it is there.  So a behaviour is about one of them; and of the      *)
(* standings, about the counters or about ranked results.                  *)
(***************************************************************************)
EXTENDS Accounts, RateLimit, Migrations, Standings

CONSTANT Focuses  \* what the behaviours are about

ASSUME ServerAssumption == Focuses \subseteq {"accounts", "limits", "migration", "counters", "boards"}

VARIABLE focus    \* what this behaviour is about

serverVars == <<accountVars, limiterVars, migrationVars, standingVars, focus>>

Init ==
    /\ AccountsInit /\ LimiterInit /\ MigrationsInit /\ StandingsInit /\ focus \in Focuses
    /\ focus # "accounts" => profiles[1] = NoProfile
    /\ focus # "limits" => answer.client = CHOOSE c \in Clients : TRUE
    /\ focus # "migration" =>
          /\ columns = {} /\ defined = <<>>
          /\ attempts = [a \in Attempts |-> [of |-> CHOOSE t \in Tests : TRUE, test |-> 0]]
          /\ old = [s \in Studies |-> CHOOSE t \in Talks : TRUE]
    /\ focus # "counters" => \A l \in Learners : account[l] = "none"
    /\ focus = "counters" => \A l \in Learners : account[l] # "gone" <=> l = CHOOSE k \in Learners : TRUE

Next ==
    /\ \/ focus = "accounts" /\ AccountsNext /\ UNCHANGED <<limiterVars, migrationVars, standingVars>>
       \/ focus = "limits" /\ LimiterNext /\ UNCHANGED <<accountVars, migrationVars, standingVars>>
       \/ focus = "migration" /\ MigrationsNext /\ UNCHANGED <<accountVars, limiterVars, standingVars>>
       \/ /\ \/ focus \in {"counters", "boards"} /\ LearnersNext
             \/ focus = "counters" /\ WritersNext
             \/ focus = "boards" /\ BoardsNext
          /\ UNCHANGED <<accountVars, limiterVars, migrationVars>>
    /\ UNCHANGED focus

Spec == Init /\ [][Next]_serverVars

TypeOK == AccountsTypeOK /\ LimiterTypeOK /\ MigrationsTypeOK /\ StandingsTypeOK /\ focus \in Focuses
=============================================================================
