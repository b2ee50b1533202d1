---------------------------- MODULE UserAccounts ----------------------------
(***************************************************************************)
(* Who a request may act for: registration (app/auth/service.py), access   *)
(* tokens as login and refresh issue them, get_current_user                *)
(* (app/auth/deps.py), and GET /users/me with its lazily created profile   *)
(* (app/users).  The refresh-token half of login and refresh is the        *)
(* subject of AuthService.                                                 *)
(*                                                                         *)
(* As there, a step is one awaited SQL statement with the code up to the   *)
(* next, under READ COMMITTED: an INSERT waits for an open transaction     *)
(* that has inserted the same key of a unique index, and fails if the key  *)
(* is committed.  An email address stands for the row it identifies.       *)
(***************************************************************************)
EXTENDS Integers

CONSTANTS
    Session,    \* slots for concurrent requests
    UserId,     \* uuid4 values available as users.id
    Email,      \* email addresses
    None,       \* no user, no email
    AccessTtl,  \* access_token_expires_minutes, in clock units
    Leeway,     \* JwtSigner._leeway, in clock units
    MaxClock    \* bound on the clock

ASSUME ClockAssumption ==
    AccessTtl \in Nat /\ Leeway \in Nat /\ MaxClock \in Nat

ASSUME NoneAssumption == None \notin UserId \cup Email

VARIABLES
    clock,      \* SystemClock.now()
    users,      \* users.email of each committed row of users
    disabled,   \* users whose users.disabled column is TRUE
    profiles,   \* ids of the committed rows of user_profiles
    access,     \* access tokens signed: [user, exp]
    pc,         \* the statement a request is about to execute
    uid,        \* the user id it works on
    email,      \* the email it registers
    registered, \* [id, email] of every 201 given by /auth/register
    served      \* users who were given a profile by /users/me

vars == <<clock, users, disabled, profiles, access, pc, uid, email,
          registered, served>>

Init ==
    /\ clock = 0
    /\ users = [u \in UserId |-> None]
    /\ disabled = {}
    /\ profiles = {}
    /\ access = {}
    /\ pc = [s \in Session |-> "idle"]
    /\ uid = [s \in Session |-> None]
    /\ email = [s \in Session |-> None]
    /\ registered = {}
    /\ served = {}

Tables == <<users, disabled, profiles>>

Goto(s, label) == pc' = [pc EXCEPT ![s] = label]

\* The request ends with a response; its AsyncSession is closed, and what
\* it has not committed is rolled back.
End(s) ==
    /\ Goto(s, "idle")
    /\ uid' = [uid EXCEPT ![s] = None]
    /\ email' = [email EXCEPT ![s] = None]

-----------------------------------------------------------------------------
(* The tables.                                                             *)

\* Mutant: there is no unique index on users.email.
NoEmailIndex(e) == FALSE

\* A committed row of users has email e: what the SELECT of register finds, and
\* a committed entry of the unique index, which the INSERT meets.
EmailTaken(e) == \E u \in UserId : users[u] = e

\* An open transaction has inserted email e.
EmailPending(s, e) ==
    \E o \in Session \ {s} : pc[o] = "register_commit" /\ email[o] = e

\* An open transaction has inserted a profile of user u.
ProfilePending(s, u) ==
    \E o \in Session \ {s} : pc[o] = "me_respond" /\ uid[o] = u

\* uuid4() returns an id nobody has drawn.
FreshId(u) == users[u] = None /\ \A s \in Session : uid[s] # u

-----------------------------------------------------------------------------
(* register                                                                *)

\* Mutant: no id is drawn for the user.
RegisterWithoutId(s, e) ==
    /\ pc[s] = "idle"
    /\ ~EmailTaken(e)
    /\ email' = [email EXCEPT ![s] = e]
    /\ Goto(s, "register_insert")
    /\ UNCHANGED <<clock, Tables, access, uid, registered, served>>

\* get_user_by_email: 409 if there is one, else an id is drawn.
RegisterSelect(s, e) ==
    /\ pc[s] = "idle"
    /\ \/ /\ EmailTaken(e)
          /\ End(s)
       \/ /\ ~EmailTaken(e)
          /\ \E u \in UserId :
                /\ FreshId(u)
                /\ uid' = [uid EXCEPT ![s] = u]
          /\ email' = [email EXCEPT ![s] = e]
          /\ Goto(s, "register_insert")
    /\ UNCHANGED <<clock, Tables, access, registered, served>>

\* insert_user: IntegrityError, and so 500, if the email has been taken since.
RegisterInsert(s) ==
    /\ pc[s] = "register_insert"
    /\ ~EmailPending(s, email[s])
    /\ \/ /\ EmailTaken(email[s])
          /\ End(s)
       \/ /\ ~EmailTaken(email[s])
          /\ Goto(s, "register_commit")
          /\ UNCHANGED <<uid, email>>
    /\ UNCHANGED <<clock, Tables, access, registered, served>>

\* Mutant: the insert is flushed but not committed.
RegisterFlushed(s) ==
    /\ pc[s] = "register_commit"
    /\ registered' = registered \cup {[id |-> uid[s], email |-> email[s]]}
    /\ End(s)
    /\ UNCHANGED <<clock, Tables, access, served>>

RegisterCommit(s) ==
    /\ pc[s] = "register_commit"
    /\ users' = [users EXCEPT ![uid[s]] = email[s]]
    /\ registered' = registered \cup {[id |-> uid[s], email |-> email[s]]}
    /\ End(s)
    /\ UNCHANGED <<clock, disabled, profiles, access, served>>

-----------------------------------------------------------------------------
(* login and refresh, as far as the access token goes                      *)

\* Mutant: users.disabled is not looked at.
GrantToAnybody(s, u) ==
    /\ pc[s] = "idle"
    /\ users[u] # None
    /\ uid' = [uid EXCEPT ![s] = u]
    /\ Goto(s, "issue")
    /\ UNCHANGED <<clock, Tables, access, email, registered, served>>

\* get_user_by_email or get_user_by_id: 401 for a disabled user, else the
\* request goes on to grant tokens.
GrantSelect(s, u) ==
    /\ pc[s] = "idle"
    /\ users[u] # None
    /\ \/ /\ u \in disabled
          /\ End(s)
       \/ /\ u \notin disabled
          /\ uid' = [uid EXCEPT ![s] = u]
          /\ Goto(s, "issue")
          /\ UNCHANGED email
    /\ UNCHANGED <<clock, Tables, access, registered, served>>

\* _issue_tokens signs the access token, from the record read above.
Issue(s) ==
    /\ pc[s] = "issue"
    /\ access' = access \cup {[user |-> uid[s], exp |-> clock + AccessTtl]}
    /\ End(s)
    /\ UNCHANGED <<clock, Tables, registered, served>>

-----------------------------------------------------------------------------
(* GET /users/me                                                           *)

\* get_current_user looks at the token's claims and at no table: the claim
\* `active' was true when it was signed.  An expired token is a 401.
Authenticate(s, a) ==
    /\ pc[s] = "idle"
    /\ \/ /\ clock < a.exp + Leeway
          /\ uid' = [uid EXCEPT ![s] = a.user]
          /\ Goto(s, "me_select")
          /\ UNCHANGED email
       \/ /\ clock >= a.exp + Leeway
          /\ End(s)
    /\ UNCHANGED <<clock, Tables, access, registered, served>>

\* get_user_profile
MeSelect(s) ==
    /\ pc[s] = "me_select"
    /\ \/ /\ uid[s] \in profiles
          /\ served' = served \cup {uid[s]}
          /\ End(s)
       \/ /\ uid[s] \notin profiles
          /\ Goto(s, "me_insert")
          /\ UNCHANGED <<uid, email, served>>
    /\ UNCHANGED <<clock, Tables, access, registered>>

\* create_user_profile: an INSERT, flushed.
MeInsert(s) ==
    /\ pc[s] = "me_insert"
    /\ ~ProfilePending(s, uid[s])
    /\ \/ /\ uid[s] \in profiles
          /\ End(s)
       \/ /\ uid[s] \notin profiles
          /\ Goto(s, "me_respond")
          /\ UNCHANGED <<uid, email>>
    /\ UNCHANGED <<clock, Tables, access, registered, served>>

\* Mutant: the session is left open after the response.
MeLeaveOpen(s) ==
    /\ pc[s] = "me_respond"
    /\ served' = served \cup {uid[s]}
    /\ UNCHANGED <<clock, Tables, access, pc, uid, email, registered>>

\* The profile is returned; nobody commits the session it was flushed in.
MeRespond(s) ==
    /\ pc[s] = "me_respond"
    /\ served' = served \cup {uid[s]}
    /\ End(s)
    /\ UNCHANGED <<clock, Tables, access, registered>>

-----------------------------------------------------------------------------
(* The environment.                                                        *)

Tick ==
    /\ clock < MaxClock
    /\ clock' = clock + 1
    /\ UNCHANGED <<Tables, access, pc, uid, email, registered, served>>

\* No endpoint disables a user: an operator does, in the database.
DisableUser(u) ==
    /\ users[u] # None
    /\ disabled' = disabled \cup {u}
    /\ UNCHANGED <<clock, users, profiles, access, pc, uid, email,
                   registered, served>>

\* A row of user_profiles that this service did not create.
ProvisionProfile(u) ==
    /\ users[u] # None
    /\ \A s \in Session : ~ProfilePending(s, u)
    /\ profiles' = profiles \cup {u}
    /\ UNCHANGED <<clock, users, disabled, access, pc, uid, email,
                   registered, served>>

\* Crash, cancelled request, lost connection.
Abort(s) ==
    /\ pc[s] # "idle"
    /\ End(s)
    /\ UNCHANGED <<clock, Tables, access, registered, served>>

Begin(s) ==
    \/ \E e \in Email : RegisterSelect(s, e)
    \/ \E u \in UserId : GrantSelect(s, u)
    \/ \E a \in access : Authenticate(s, a)

Step(s) ==
    \/ RegisterInsert(s) \/ RegisterCommit(s)
    \/ Issue(s)
    \/ MeSelect(s) \/ MeInsert(s) \/ MeRespond(s)

Next ==
    \/ Tick
    \/ \E u \in UserId : DisableUser(u) \/ ProvisionProfile(u)
    \/ \E s \in Session : Begin(s) \/ Step(s) \/ Abort(s)

Spec == Init /\ [][Next]_vars

\* The event loop runs every request on; the database serves its waiters.
FairSpec == Spec /\ \A s \in Session : SF_vars(Step(s))

-----------------------------------------------------------------------------
(* Properties.                                                             *)

TypeOK ==
    /\ clock \in 0..MaxClock
    /\ users \in [UserId -> Email \cup {None}]
    /\ disabled \subseteq UserId
    /\ profiles \subseteq UserId
    /\ access \subseteq [user : UserId, exp : 0..(MaxClock + AccessTtl)]
    /\ pc \in [Session -> {"idle", "register_insert", "register_commit",
                           "issue", "me_select", "me_insert", "me_respond"}]
    /\ uid \in [Session -> UserId \cup {None}]
    /\ email \in [Session -> Email \cup {None}]
    /\ registered \subseteq [id : UserId, email : Email]
    /\ served \subseteq UserId

\* However registrations race, an email belongs to one user.
EmailsUnique ==
    \A u, v \in UserId : (users[u] = users[v] /\ users[u] # None) => u = v

\* Whoever was told 201 has an account, under the id and email of the answer.
RegistrationsStand == \A r \in registered : users[r.id] = r.email

\* Access tokens that get_current_user accepts for u.
ValidAccess(u) == {a \in access : a.user = u /\ clock < a.exp + Leeway}

\* No request holds a positive answer about u.
NoGrantRunning(u) == \A s \in Session : ~(pc[s] = "issue" /\ uid[s] = u)

LosesAccess(u) ==
    NoGrantRunning(u) =>
        NoGrantRunning(u)' /\ ValidAccess(u)' \subseteq ValidAccess(u)

\* Access that a disabled user still has dies out: once no grant that had
\* read the enabled record is running, no token is added to those that are
\* valid.
AccessDiesOut == [][\A u \in disabled : LosesAccess(u)]_vars

\* Every request ends, whatever others have inserted.
RequestsEnd == \A s \in Session : pc[s] # "idle" ~> pc[s] = "idle"

\* Whoever was given a profile has one: later calls return the same row.
ProfilesLast == served \subseteq profiles
=============================================================================
