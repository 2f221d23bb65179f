------------------------------ MODULE Migrations ------------------------------
(***************************************************************************)
(* What Migrate of src/internal/db/db.go does at every start to a database *)
(* an older Learnix may have left: columns are added, the chat that a      *)
(* study used to hold becomes a chat of the table chats, and attempts that *)
(* belonged to no test are gathered under one.  The process may die        *)
(* between any two statements, and starts again from the first.            *)
(*                                                                         *)
(* The scripts of migrations/ are CREATE ... IF NOT EXISTS but one, which  *)
(* lowers the case of emails that are lower-case already.                  *)
(***************************************************************************)
EXTENDS Naturals, Sequences, SequencesExt, FiniteSetsExt

CONSTANTS
    Attempts,   \* attempts that belong to no study
    Tests,      \* what an attempt was made of: user, topic, mode and preset
    Studies,    \* studies an older Learnix may have left
    Talks,      \* what chat_json may hold: sequences of "user", "ai" and other roles
    MaxTests,   \* bound: rows of test_definitions
    MaxStarts   \* bound: starts of the process

ASSUME MigrationsAssumption == IsFiniteSet(Attempts) /\ {MaxTests, MaxStarts} \subseteq Nat

VARIABLES
    columns,   \* the columns added so far
    attempts,  \* [Attempts -> [of, test]]: test = 0 where test_id is NULL
    defined,   \* test_definitions: what each row is of, by id
    old,       \* [Studies -> chat_json]
    chats,     \* [Studies -> Seq of the chats' messages]: the table chats
    touched,   \* history: studies whose chats a learner has made or deleted
    boot       \* [at, starts]: the statement the start is at, "up" when it serves

migrationVars == <<columns, attempts, defined, old, chats, touched, boot>>

\* The columns the later statements read, by the step that adds them.
Adds == [learning |-> {"elements_json"}, leaderboard |-> {"mode", "preset"},
         tests |-> {"test_id"}, handles |-> {"username", "tag"}]
Columns == UNION {Adds[s] : s \in DOMAIN Adds}
Steps   == {"off", "chats", "learning", "leaderboard", "tests", "define", "link", "handles", "accounts", "up"}
\* An assistant's message and a user's; other roles are not carried over.
Spoken  == {"user", "ai"}

MigrationsTypeOK ==
    /\ columns \subseteq Columns
    /\ attempts \in [Attempts -> [of : Tests, test : 0..MaxTests]]
    /\ defined \in Seq(Tests) /\ Len(defined) <= MaxTests
    /\ old \in [Studies -> Talks]
    /\ chats \in [Studies -> Seq(Seq(Spoken))]
    /\ touched \subseteq Studies
    /\ boot \in [at : Steps, starts : 0..MaxStarts]

\* A new database, or one that has seen any of the earlier versions.
MigrationsInit ==
    /\ columns \in {{}, Adds.learning, Adds.learning \cup Adds.leaderboard, Columns}
    /\ attempts \in [Attempts -> [of : Tests, test : {0}]]
    /\ defined \in {<<>>} \cup (IF columns = Columns THEN {<<t>> : t \in Tests} ELSE {})
    /\ old \in [Studies -> Talks]
    /\ chats = [s \in Studies |-> <<>>]
    /\ touched = {}
    /\ boot = [at |-> "off", starts |-> 0]

-----------------------------------------------------------------------------

At(step)   == boot.at = step
OnTo(step) == boot' = [boot EXCEPT !.at = step]

Start ==
    /\ At("off") /\ boot.starts < MaxStarts
    /\ boot' = [at |-> "chats", starts |-> boot.starts + 1]
    /\ UNCHANGED <<columns, attempts, defined, old, chats, touched>>

\* The process dies, or a statement fails and log.Fatalf ends it.
Die ==
    /\ ~At("off") /\ OnTo("off")
    /\ UNCHANGED <<columns, attempts, defined, old, chats, touched>>

\* What is carried over of a conversation, and migrateLegacyChats takes up the studies that
\* have one of old and no chat.
Carry(talk) == SelectSeq(talk, LAMBDA role : role \in Spoken)
Carried(s)  == Carry(old[s])
Pending     == {s \in Studies : Carried(s) # <<>> /\ chats[s] = <<>>}

\* insertLegacyChat, a transaction per study.
CarryOver ==
    /\ At("chats")
    /\ IF Pending = {} THEN OnTo("learning") /\ UNCHANGED chats
       ELSE /\ \E s \in Pending : chats' = [chats EXCEPT ![s] = <<Carried(s)>>]
            /\ UNCHANGED boot
    /\ UNCHANGED <<columns, attempts, defined, old, touched>>

\* The step after one that adds columns.
After(step) == CASE step = "learning"    -> "leaderboard"
                 [] step = "leaderboard" -> "tests"
                 [] step = "tests"       -> "define"
                 [] step = "handles"     -> "accounts"

\* ensureLearningElementColumns and ensureTableColumns add what is missing, in any order.
AddColumns ==
    \E step \in DOMAIN Adds :
        /\ At(step)
        /\ IF Adds[step] \subseteq columns THEN OnTo(After(step)) /\ UNCHANGED columns
           ELSE \E c \in Adds[step] \ columns : columns' = columns \cup {c} /\ UNCHANGED boot
        /\ UNCHANGED <<attempts, defined, old, chats, touched>>

Unlinked  == {a \in Attempts : attempts[a].test = 0}
Orphans   == {attempts[a].of : a \in Unlinked}

\* ensureTestColumns makes a test for each kind of attempt without one.
Define ==
    /\ At("define") /\ {"test_id", "mode", "preset"} \subseteq columns
    /\ Len(defined) + Cardinality(Orphans) <= MaxTests
    /\ \E rows \in SetToSeqs(Orphans) : defined' = defined \o rows
    /\ OnTo("link")
    /\ UNCHANGED <<columns, attempts, old, chats, touched>>

\* Mutant: any test that fits.
LinkedAny(a) == {i \in DOMAIN defined : defined[i] = attempts[a].of}

\* And puts each of these under the first test that fits it.
Linked(a) == {Min(LinkedAny(a))}

Link ==
    /\ At("link") /\ {"test_id", "mode", "preset"} \subseteq columns
    /\ attempts' \in {f \in [Attempts -> [of : Tests, test : 1..Len(defined)]] :
                        \A a \in Attempts : IF a \in Unlinked THEN f[a].of = attempts[a].of /\ f[a].test \in Linked(a)
                                                              ELSE f[a] = attempts[a]}
    /\ OnTo("handles")
    /\ UNCHANGED <<columns, defined, old, chats, touched>>

\* ensureExistingUserMetadata (module Accounts), and main goes on to serve.
Serve ==
    /\ At("accounts") /\ {"username", "tag"} \subseteq columns
    /\ OnTo("up")
    /\ UNCHANGED <<columns, attempts, defined, old, chats, touched>>

-----------------------------------------------------------------------------
(* What learners do to it meanwhile *)

\* TestCreate.
CreateTest ==
    /\ At("up") /\ Len(defined) < MaxTests
    /\ \E t \in Tests : defined' = Append(defined, t)
    /\ UNCHANGED <<columns, attempts, old, chats, touched, boot>>

\* ensureChats and ChatCreate; ChatDelete, after which a new chat may fail to be made.
Converse ==
    /\ At("up")
    /\ \E s \in Studies :
          /\ \/ Len(chats[s]) < 2 /\ chats' = [chats EXCEPT ![s] = Append(@, <<>>)]
             \/ chats[s] # <<>> /\ chats' = [chats EXCEPT ![s] = Tail(@)]
          /\ touched' = touched \cup {s}
    /\ UNCHANGED <<columns, attempts, defined, old, boot>>

MigrationsNext == Start \/ Die \/ CarryOver \/ AddColumns \/ Define \/ Link \/ Serve \/ CreateTest \/ Converse

-----------------------------------------------------------------------------
(* Properties *)

\* Every attempt of old has a test of its kind, and attempts of one kind are under one test.
Gathered ==
    /\ \A a \in Attempts : attempts[a].test # 0 /\ defined[attempts[a].test] = attempts[a].of
    /\ \A a, b \in Attempts : attempts[a].of = attempts[b].of => attempts[a].test = attempts[b].test

\* The conversation a study used to hold is in one chat at most.
CarriedOnce ==
    \A s \in Studies : Carried(s) # <<>> =>
        \A i, j \in DOMAIN chats[s] : chats[s][i] = Carried(s) /\ chats[s][j] = Carried(s) => i = j

\* Past its step every conversation of old that says something is the one chat of its study,
\* and no other study was given one, but for what its learner did to the chats since.
CarriedOver ==
    boot.at \notin {"off", "chats"} =>
        \A s \in Studies \ touched :
            chats[s] = IF Carried(s) = <<>> THEN <<>> ELSE <<Carried(s)>>

\* However often the migration was cut short between two statements, also between making the
\* tests and filling them: a server that serves has gathered the attempts of old and carried
\* every conversation over, and no start has carried one over again next to the chat it made
\* of it before.
Migrated == (At("up") => Gathered) /\ CarriedOver /\ CarriedOnce
=============================================================================
