------------------------------- MODULE Accounts -------------------------------
(***************************************************************************)
(* Accounts, sessions and public handles: RegisterSubmit, LoginSubmit and  *)
(* Logout of src/internal/handlers/auth.go, the middlewares of             *)
(* src/internal/auth, ProfileUpdate, the admin's AdminDeleteUser and       *)
(* AdminSetQuota, and what a boot does for the accounts it finds.          *)
(*                                                                         *)
(* A request is a sequence of statements, each of which may fail, and      *)
(* other requests run between them; a transaction is one step.  Passwords  *)
(* and signatures are left out but for their verdicts: a password may be   *)
(* wrong, and a cookie is good under the secret it was signed with.        *)
(***************************************************************************)
EXTENDS Naturals, FiniteSets

CONSTANTS
    Requests,     \* requests that may be served at the same time
    Browsers,     \* cookie jars
    Emails,       \* canonical, as RegisterSubmit and LoginSubmit make them
    Admin,        \* ADMIN_EMAIL
    Names,        \* usernames learners ask for
    Tags,         \* 10000: tags are tried from 1 to Tags, and Tags itself has five digits
    SessionTTL,   \* time a session is good for
    Month,        \* time a month lasts
    MaxUsers,     \* bound: ids AUTOINCREMENT hands out
    MaxSessions,  \* bound: sessions ever opened
    MaxTime,      \* bound: the clock
    MaxBoots,     \* bound: starts of the server
    NoOne         \* no account

ASSUME AccountsAssumption ==
    /\ Admin \in Emails /\ NoOne \notin Emails /\ "" \notin Names /\ Browsers # {}
    /\ {Tags, SessionTTL, Month, MaxUsers, MaxSessions} \subseteq Nat \ {0}
    /\ {MaxTime, MaxBoots} \subseteq Nat

VARIABLES
    users,     \* [Ids -> the email in table users, NoOne where there is no row]
    profiles,  \* [Ids -> the row of user_profiles]
    quotas,    \* the ids with a row in user_quota
    sessions,  \* [Sids -> the row of table sessions; user = 0 where there is none]
    minted,    \* the last ids handed out
    cookies,   \* [Browsers -> the session cookie]
    req,       \* [Requests -> what is being served]
    server,    \* [up, secret, boots]: secret is the number of the one it signs with
    clock,
    left       \* [Ids -> whether the request making the account left it half made]

accountVars == <<users, profiles, quotas, sessions, minted, cookies, req, server, clock, left>>

Ids     == 1..MaxUsers
Sids    == 1..MaxSessions
Profile == [name : Names \cup {"", "user"}, tag : 0..Tags, changed : 0..MaxTime + 1]
Session == [user : 0..MaxUsers, until : Nat, opener : Emails \cup {NoOne}]
Cookie  == [sid : 0..MaxSessions, secret : Nat]
Making  == {"tag", "profile", "quota", "session", "undo"}
Request == [pc : {"idle", "find", "insert", "account", "open", "cookie", "user", "act", "update"} \cup Making,
            browser : Browsers, email : Emails, opener : Emails \cup {NoOne}, id : 0..MaxUsers,
            tag : 0..Tags, sid : 0..MaxSessions]

\* changed = 0: slug_changed_at is NULL; otherwise it was set at time changed - 1.
NoProfile == [name |-> "", tag |-> Tags, changed |-> 0]
\* A profile of migration 0006, as the columns of 0008 found it.
OldProfile == [name |-> "", tag |-> 0, changed |-> 0]
NoSession  == [user |-> 0, until |-> 0, opener |-> NoOne]
NoCookie   == [sid |-> 0, secret |-> 0]

AccountsTypeOK ==
    /\ users \in [Ids -> Emails \cup {NoOne}] /\ profiles \in [Ids -> Profile] /\ quotas \subseteq Ids
    /\ sessions \in [Sids -> Session] /\ minted \in [user : 0..MaxUsers, session : 0..MaxSessions]
    /\ cookies \in [Browsers -> Cookie] /\ req \in [Requests -> Request]
    /\ server \in [up : BOOLEAN, secret : Nat, boots : 0..MaxBoots]
    /\ clock \in 0..MaxTime /\ left \in [Ids -> {"no", "now", "booted"}]

Accounts == {u \in Ids : users[u] # NoOne}
Idle     == [pc |-> "idle", browser |-> CHOOSE b \in Browsers : TRUE,
             email |-> CHOOSE e \in Emails : TRUE, opener |-> NoOne, id |-> 0, tag |-> 0, sid |-> 0]

\* A server that is about to boot on an empty database, or on one that had an account
\* before there were public handles.
AccountsInit ==
    /\ \E old \in {{}, {1}} :
          /\ users = [u \in Ids |-> IF u \in old THEN CHOOSE e \in Emails : TRUE ELSE NoOne]
          /\ profiles = [u \in Ids |-> IF u \in old THEN OldProfile ELSE NoProfile]
          /\ quotas = old
          /\ minted = [user |-> Cardinality(old), session |-> 0]
    /\ sessions = [s \in Sids |-> NoSession]
    /\ cookies = [b \in Browsers |-> NoCookie]
    /\ req = [r \in Requests |-> Idle]
    /\ server = [up |-> FALSE, secret |-> 0, boots |-> 0]
    /\ clock = 0
    /\ left = [u \in Ids |-> "no"]

-----------------------------------------------------------------------------
(* Public handles *)

validPublicTag(t)   == t < Tags
NormalizedName(n)   == n # ""
PublicHandle(p)     == IF NormalizedName(p.name) /\ validPublicTag(p.tag) THEN <<p.name, p.tag>> ELSE <<>>
CanChangeUsername(p) == p.changed = 0 \/ (p.changed - 1) \div Month # clock \div Month

TakenBy(ps, u, name) == {ps[v].tag : v \in {v \in Ids \ {u} : ps[v] # NoProfile /\ ps[v].name = name}}

\* The tags an account may get, in the order in which they are tried: its own first.
Preferred(u)    == IF u % Tags = 0 THEN 1 ELSE u % Tags
Candidate(u, i) == ((Preferred(u) + i - 1) % Tags) + 1

\* The first free one; 0 where there is none.
allocatePublicTag(ps, u, name) ==
    LET free == {i \in 0..Tags - 1 : Candidate(u, i) \notin TakenBy(ps, u, name)}
    IN  IF free = {} THEN 0 ELSE Candidate(u, CHOOSE i \in free : \A j \in free : i <= j)

\* UNIQUE(slug) and UNIQUE(username, tag).
Unique(ps, u, p) ==
    \A v \in Ids \ {u} : ps[v] # NoProfile =>
        /\ PublicHandle(ps[v]) # PublicHandle(p)
        /\ <<ps[v].name, ps[v].tag>> # <<p.name, p.tag>>

\* ensureUserMetadata of an account a boot finds: the profiles it leaves, {} if it fails.
Ensured(ps, u) ==
    LET p    == ps[u]
        name == IF NormalizedName(p.name) THEN p.name ELSE "user"
        tag  == IF NormalizedName(p.name) /\ validPublicTag(p.tag) THEN p.tag ELSE allocatePublicTag(ps, u, name)
        q    == [name |-> name, tag |-> tag, changed |-> p.changed]
    IN  IF tag = 0 \/ ~Unique(ps, u, q) THEN {} ELSE {[ps EXCEPT ![u] = q]}

-----------------------------------------------------------------------------
(* Statements *)

\* ON DELETE CASCADE.
Deleted(u) ==
    /\ users' = [users EXCEPT ![u] = NoOne]
    /\ profiles' = [profiles EXCEPT ![u] = NoProfile]
    /\ quotas' = quotas \ {u}
    /\ sessions' = [s \in Sids |-> IF sessions[s].user = u THEN NoSession ELSE sessions[s]]
    /\ left' = [left EXCEPT ![u] = "no"]

\* Mutant: ids are handed out again.
MintedUserAgain == 1 + CHOOSE n \in Accounts \cup {0} : \A m \in Accounts : m <= n

\* AUTOINCREMENT.
MintedUser == minted.user + 1

\* SessionRepo.Get: the row of a session that has not expired.
Get(s) == s # 0 /\ sessions[s].user # 0 /\ sessions[s].until > clock

\* SessionID: the session a cookie names, 0 where the signature is not this server's.
SessionID(b) == IF cookies[b].secret = server.secret THEN cookies[b].sid ELSE 0

\* A signed cookie for as long as the session lasts.
SetSessionCookie(b, s) == cookies' = [cookies EXCEPT ![b] = [sid |-> s, secret |-> server.secret]]

Goes(r, pc) == req' = [req EXCEPT ![r].pc = pc]
Ends(r)     == req' = [req EXCEPT ![r] = Idle]
Fails(r, pc) == server.up /\ req[r].pc = pc /\ Ends(r)

dbVars == <<users, profiles, quotas, sessions, minted, left>>

\* A page asks to register, to log in or to be served.  The bounds: none is begun that would
\* find no id left for its account or its session.
Begin(r) ==
    /\ server.up /\ req[r].pc = "idle"
    /\ \E b \in Browsers, e \in Emails, pc \in {"find", "account", "cookie"} :
          /\ pc = "cookie" => e = Idle.email
          /\ pc = "find" => minted.user < MaxUsers
          /\ pc = "account" => minted.session < MaxSessions
          /\ req' = [req EXCEPT ![r] = [Idle EXCEPT !.pc = pc, !.browser = b, !.email = e]]
    /\ UNCHANGED <<dbVars, cookies, server, clock>>

\* A statement fails where nothing needs to be undone, or a password is wrong.
Refused(r) ==
    /\ \E pc \in {"find", "insert", "account", "open", "cookie", "user", "act", "update"} : Fails(r, pc)
    /\ UNCHANGED <<dbVars, cookies, server, clock>>

-----------------------------------------------------------------------------
(* RegisterSubmit *)

Find(r) ==
    /\ server.up /\ req[r].pc = "find"
    /\ IF \E u \in Accounts : users[u] = req[r].email THEN Ends(r) ELSE Goes(r, "insert")
    /\ UNCHANGED <<dbVars, cookies, server, clock>>

\* UserRepo.Create inserts the row, unless the email is taken by now.
Insert(r) ==
    /\ server.up /\ req[r].pc = "insert" /\ \A u \in Accounts : users[u] # req[r].email
    /\ MintedUser \in Ids
    /\ users' = [users EXCEPT ![MintedUser] = req[r].email]
    /\ minted' = [minted EXCEPT !.user = MintedUser]
    /\ req' = [req EXCEPT ![r].pc = "tag", ![r].id = MintedUser]
    /\ UNCHANGED <<profiles, quotas, sessions, left, cookies, server, clock>>

\* ensureUserMetadata looks for a free tag.
Tag(r) ==
    /\ server.up /\ req[r].pc = "tag"
    /\ LET tag == allocatePublicTag(profiles, req[r].id, "user")
       IN  IF tag = 0 THEN Goes(r, "undo") ELSE req' = [req EXCEPT ![r].pc = "profile", ![r].tag = tag]
    /\ UNCHANGED <<dbVars, cookies, server, clock>>

\* And inserts the profile, then the row of counters, which is in Standings.
InsertProfile(r) ==
    /\ server.up /\ req[r].pc = "profile"
    /\ LET u == req[r].id
           p == [name |-> "user", tag |-> req[r].tag, changed |-> 0]
       IN  /\ u \in Accounts /\ Unique(profiles, u, p)
           /\ profiles' = [profiles EXCEPT ![u] = p]
    /\ \E pc \in {"quota", "undo"} : req' = [req EXCEPT ![r].pc = pc, ![r].tag = 0]
    /\ UNCHANGED <<users, quotas, sessions, minted, left, cookies, server, clock>>

SetQuota(r) ==
    /\ server.up /\ req[r].pc = "quota" /\ req[r].id \in Accounts
    /\ quotas' = quotas \cup {req[r].id}
    /\ Goes(r, "session")
    /\ UNCHANGED <<users, profiles, sessions, minted, left, cookies, server, clock>>

\* A statement fails, or the row it refers to is gone.
Undoes(r) ==
    /\ server.up /\ req[r].pc \in Making \ {"undo"}
    /\ req' = [req EXCEPT ![r].pc = "undo", ![r].tag = 0]
    /\ UNCHANGED <<dbVars, cookies, server, clock>>

\* Mutant: a registration whose quota or session cannot be written ends there.
UndoForgotten(r) ==
    /\ server.up /\ req[r].pc = "undo"
    /\ Ends(r)
    /\ UNCHANGED <<dbVars, cookies, server, clock>>

\* The account is deleted again; that its deletion fails is ignored.
Undo(r) ==
    /\ server.up /\ req[r].pc = "undo"
    /\ LET u == req[r].id
       IN  \/ Deleted(u)
           \/ /\ u \in Accounts /\ left' = [left EXCEPT ![u] = "now"]
              /\ UNCHANGED <<users, profiles, quotas, sessions>>
    /\ Ends(r)
    /\ UNCHANGED <<minted, cookies, server, clock>>

-----------------------------------------------------------------------------
(* LoginSubmit, Logout and the middlewares *)

Account(r) ==
    /\ server.up /\ req[r].pc = "account"
    /\ \E u \in Accounts :
          /\ users[u] = req[r].email
          /\ req' = [req EXCEPT ![r].pc = "open", ![r].id = u]
    /\ UNCHANGED <<dbVars, cookies, server, clock>>

\* A new session of the account, if it is still there, and its cookie.
Open(r) ==
    /\ server.up /\ req[r].pc \in {"session", "open"} /\ req[r].id \in Accounts
    /\ LET s == minted.session + 1
       IN  /\ s \in Sids
           /\ sessions' = [sessions EXCEPT ![s] = [user   |-> req[r].id, until |-> clock + SessionTTL,
                                                   opener |-> req[r].email]]
           /\ minted' = [minted EXCEPT !.session = s]
           /\ SetSessionCookie(req[r].browser, s)
    /\ Ends(r)
    /\ UNCHANGED <<users, profiles, quotas, left, server, clock>>

\* Middleware reads the session the cookie names.
ReadSession(r) ==
    /\ server.up /\ req[r].pc = "cookie"
    /\ LET s == SessionID(req[r].browser)
       IN  IF Get(s) THEN req' = [req EXCEPT ![r].pc = "user", ![r].sid = s,
                                         ![r].id = sessions[s].user, ![r].opener = sessions[s].opener]
                     ELSE Ends(r)
    /\ UNCHANGED <<dbVars, cookies, server, clock>>

\* And then the user it belongs to, as whom the handler acts.
ReadUser(r) ==
    /\ server.up /\ req[r].pc = "user"
    /\ IF req[r].id \in Accounts THEN req' = [req EXCEPT ![r].pc = "act", ![r].email = users[req[r].id]]
                                 ELSE Ends(r)
    /\ UNCHANGED <<dbVars, cookies, server, clock>>

\* The cookie is cleared whether or not the row could be deleted.
Logout(r) ==
    /\ server.up /\ req[r].pc = "act"
    /\ \/ sessions' = [sessions EXCEPT ![req[r].sid] = NoSession]
       \/ UNCHANGED sessions
    /\ cookies' = [cookies EXCEPT ![req[r].browser] = NoCookie]
    /\ Ends(r)
    /\ UNCHANGED <<users, profiles, quotas, minted, left, server, clock>>

\* ProfileUpdate: the profile whose page the form was on must be the viewer's by now.
ProfileUpdate(r) ==
    /\ server.up /\ req[r].pc = "act"
    /\ profiles[req[r].id] # NoProfile
    /\ Goes(r, "update")
    /\ UNCHANGED <<dbVars, cookies, server, clock>>

\* ProfileRepo.Update gives the account another username, in a transaction of its own; the
\* tag stays.  The details it saves with it are not modelled.
Update(r) ==
    /\ server.up /\ req[r].pc = "update"
    /\ LET u == req[r].id
           p == profiles[u]
       IN  /\ u \in Accounts /\ PublicHandle(p) # <<>> /\ CanChangeUsername(p)
           /\ \E name \in Names \ {p.name} :
                 LET q == [name |-> name, tag |-> p.tag, changed |-> clock + 1]
                 IN  Unique(profiles, u, q) /\ profiles' = [profiles EXCEPT ![u] = q]
    /\ Ends(r)
    /\ UNCHANGED <<users, quotas, sessions, minted, left, cookies, server, clock>>

\* AdminMiddleware lets the admin through: AdminDeleteUser and AdminSetQuota.
Administer(r) ==
    /\ server.up /\ req[r].pc = "act" /\ req[r].email = Admin
    /\ \E u \in Accounts :
          \/ u # req[r].id /\ Deleted(u)
          \/ quotas' = quotas \cup {u} /\ UNCHANGED <<users, profiles, sessions, left>>
    /\ Ends(r)
    /\ UNCHANGED <<minted, cookies, server, clock>>

-----------------------------------------------------------------------------
(* The process *)

\* Whatever was being served is lost; an account may stay half made.
Crash ==
    /\ server.up
    /\ server' = [server EXCEPT !.up = FALSE]
    /\ left' = [u \in Ids |-> IF \E r \in Requests : req[r].id = u /\ req[r].pc \in Making /\ u \in Accounts
                              THEN "now" ELSE left[u]]
    /\ req' = [r \in Requests |-> Idle]
    /\ UNCHANGED <<users, profiles, quotas, sessions, minted, cookies, clock>>

\* ensureExistingUserMetadata, account by account.
EnsuredUpTo[n \in 0..MaxUsers] ==
    IF n = 0 THEN {profiles}
    ELSE IF n \notin Accounts THEN EnsuredUpTo[n - 1]
    ELSE UNION {Ensured(ps, n) : ps \in EnsuredUpTo[n - 1]}

\* PurgeExpired.
Purged == [s \in Sids |-> IF sessions[s].until <= clock THEN NoSession ELSE sessions[s]]

\* A boot takes the secret it is given or a random one, goes through the accounts, purges
\* the sessions that have expired and begins to serve; or it fails at some account and
\* leaves those before it done.
Boot ==
    /\ ~server.up /\ server.boots < MaxBoots
    /\ \E n \in 0..MaxUsers :
          /\ profiles' \in EnsuredUpTo[n]
          /\ \E secret \in {server.secret, server.secret + 1} \ {0} :
                server' = [up |-> n = MaxUsers, secret |-> secret, boots |-> server.boots + 1]
          /\ IF n < MaxUsers THEN UNCHANGED <<sessions, left>>
             ELSE /\ sessions' \in {sessions, Purged}
                  /\ left' = [u \in Ids |-> IF left[u] = "no" THEN "no" ELSE "booted"]
    /\ UNCHANGED <<users, quotas, minted, cookies, req, clock>>

Tick == clock < MaxTime /\ clock' = clock + 1 /\ UNCHANGED <<dbVars, cookies, req, server>>

AccountsNext ==
    \/ \E r \in Requests : \/ Begin(r) \/ Refused(r) \/ Find(r) \/ Insert(r) \/ Tag(r) \/ InsertProfile(r)
                           \/ SetQuota(r) \/ Undoes(r) \/ Undo(r) \/ Account(r) \/ Open(r) \/ ReadSession(r)
                           \/ ReadUser(r) \/ Logout(r) \/ ProfileUpdate(r) \/ Update(r)
                           \/ Administer(r)
    \/ Crash \/ Boot \/ Tick

-----------------------------------------------------------------------------
(* Properties *)

BeingMade(u) == \E r \in Requests : req[r].id = u /\ req[r].pc \in Making

\* An account that is not being made has its profile and its quota, whatever failed on the
\* way and whoever registered next to it.  Left out are those whose deletion failed in Undo,
\* or that a crash cut short: they have a profile again once the server has been started,
\* and a quota when the admin gives them one.
Complete ==
    server.up => \A u \in Accounts : ~BeingMade(u) =>
        /\ left[u] # "now" => profiles[u] \notin {NoProfile, OldProfile}
        /\ left[u] = "no" => u \in quotas

\* An account that was undone or deleted has left nothing behind, although requests that
\* read it before go on to write.
NothingOutlives ==
    \A u \in Ids \ Accounts :
        profiles[u] = NoProfile /\ u \notin quotas /\ \A s \in Sids : sessions[s].user # u

\* All rows of an account or none, but for those Complete leaves out.
AccountsWhole == Complete /\ NothingOutlives

\* A request acts as the one who opened the session its cookie names, although session and
\* user are read one after the other, and accounts are deleted and made in between.
ServedAsThemselves ==
    \A r \in Requests : req[r].pc = "act" => req[r].email = req[r].opener
=============================================================================
