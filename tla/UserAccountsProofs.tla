------------------------- MODULE UserAccountsProofs -------------------------
(***************************************************************************)
(* Proofs about UserAccounts: however registrations race, an email has one *)
(* user and an answer of 201 stands; and disabling a user is final for the *)
(* access tokens the service signs.                                        *)
(***************************************************************************)
EXTENDS UserAccounts, TLAPS

\* Requests that have drawn an id for a new user.
Registering == {"register_insert", "register_commit"}

\* What a request works on, statement by statement: the id of a new user
\* names no row, and the email it has inserted is nobody's.
SessionOK(s) ==
    /\ pc[s] # "idle" => uid[s] \in UserId
    /\ pc[s] \in Registering => email[s] \in Email /\ users[uid[s]] = None
    /\ pc[s] = "register_commit" => ~EmailTaken(email[s])

\* The unique index lets one open transaction at a time hold an email.
EmailsApart ==
    \A s, o \in Session :
        (pc[s] = "register_commit" /\ pc[o] = "register_commit"
            /\ email[s] = email[o]) => s = o

\* No id has been drawn twice.
IdsApart ==
    \A s, o \in Session :
        (pc[s] \in Registering /\ pc[o] \in Registering /\ uid[s] = uid[o])
            => s = o

UInv ==
    /\ TypeOK
    /\ EmailsUnique
    /\ RegistrationsStand
    /\ \A s \in Session : SessionOK(s)
    /\ EmailsApart
    /\ IdsApart

Same(o) == pc'[o] = pc[o] /\ uid'[o] = uid[o] /\ email'[o] = email[o]

OthersSame(s) == \A o \in Session \ {s} : Same(o)

\* A request moves on to `label' and keeps what it works on.
LEMMA GoneOn ==
    ASSUME TypeOK, NEW s \in Session,
           NEW label \in {"register_commit", "me_insert", "me_respond"},
           Goto(s, label), uid' = uid, email' = email
    PROVE  /\ OthersSame(s)
           /\ pc'[s] = label /\ uid'[s] = uid[s] /\ email'[s] = email[s]
           /\ pc' \in [Session -> {"idle", "register_insert",
                 "register_commit", "issue", "me_select", "me_insert",
                 "me_respond"}]
BY DEF TypeOK, Goto, OthersSame, Same

\* A request that has ended works on nothing.
LEMMA Ended ==
    ASSUME TypeOK, NEW s \in Session, End(s)
    PROVE  /\ OthersSame(s)
           /\ pc'[s] = "idle" /\ uid'[s] = None /\ email'[s] = None
           /\ SessionOK(s)'
           /\ pc' \in [Session -> {"idle", "register_insert",
                 "register_commit", "issue", "me_select", "me_insert",
                 "me_respond"}]
           /\ uid' \in [Session -> UserId \cup {None}]
           /\ email' \in [Session -> Email \cup {None}]
<1>1. /\ pc' = [pc EXCEPT ![s] = "idle"]
      /\ uid' = [uid EXCEPT ![s] = None]
      /\ email' = [email EXCEPT ![s] = None]
    BY DEF End, Goto
<1>2. /\ pc'[s] = "idle" /\ uid'[s] = None /\ email'[s] = None
      /\ OthersSame(s)
    BY <1>1 DEF TypeOK, OthersSame, Same
<1> QED
    BY <1>1, <1>2 DEF TypeOK, SessionOK, Registering

\* A step of s that commits no user.
LEMMA LocalStep ==
    ASSUME UInv, NEW s \in Session, OthersSame(s), TypeOK', SessionOK(s)',
           users' = users, registered' = registered,
           pc'[s] = "register_commit" =>
               \A o \in Session \ {s} :
                   ~(pc[o] = "register_commit" /\ email[o] = email'[s]),
           pc'[s] \in Registering =>
               \/ pc[s] \in Registering /\ uid'[s] = uid[s]
               \/ \A o \in Session : uid[o] # uid'[s]
    PROVE  UInv'
<1>1. \A o \in Session \ {s} : SessionOK(o)'
    BY DEF UInv, OthersSame, Same, SessionOK, EmailTaken
<1>2. EmailsUnique' /\ RegistrationsStand'
    BY DEF UInv, EmailsUnique, RegistrationsStand
<1>3. EmailsApart'
    BY DEF UInv, EmailsApart, OthersSame, Same
<1>4. IdsApart'
    BY DEF UInv, IdsApart, OthersSame, Same
<1> QED
    BY <1>1, <1>2, <1>3, <1>4 DEF UInv

LEMMA EndStep ==
    ASSUME UInv, NEW s \in Session, End(s), users' = users,
           registered' = registered,
           clock' \in 0..MaxClock, disabled' \subseteq UserId,
           profiles' \subseteq UserId, served' \subseteq UserId,
           access' \subseteq [user : UserId, exp : 0..(MaxClock + AccessTtl)]
    PROVE  UInv'
<1>1. TypeOK
    BY DEF UInv
<1>2. TypeOK'
    BY <1>1, Ended DEF TypeOK
<1> QED
    BY <1>1, <1>2, Ended, LocalStep DEF Registering

\* Nobody's request moves.
LEMMA EnvironmentStep ==
    ASSUME UInv, UNCHANGED <<users, pc, uid, email, registered>>, TypeOK'
    PROVE  UInv'
BY DEF UInv, SessionOK, EmailTaken, EmailsUnique, RegistrationsStand,
       EmailsApart, IdsApart

-----------------------------------------------------------------------------
(* The steps of a request.                                                 *)

LEMMA RegisterSelectStep ==
    ASSUME UInv, NEW s \in Session, NEW e \in Email, RegisterSelect(s, e)
    PROVE  UInv'
<1>0. TypeOK
    BY DEF UInv
<1>1. CASE End(s)
    BY <1>0, <1>1, EndStep DEF RegisterSelect, Tables, TypeOK
<1>2. CASE ~End(s)
  <2>1. PICK u \in UserId :
            /\ FreshId(u)
            /\ uid' = [uid EXCEPT ![s] = u]
            /\ email' = [email EXCEPT ![s] = e]
            /\ pc' = [pc EXCEPT ![s] = "register_insert"]
            /\ UNCHANGED <<clock, users, disabled, profiles, access,
                           registered, served>>
      BY <1>2 DEF RegisterSelect, Goto, Tables
  <2>2. /\ TypeOK' /\ OthersSame(s)
        /\ uid'[s] = u /\ email'[s] = e /\ pc'[s] = "register_insert"
      BY <1>0, <2>1 DEF TypeOK, OthersSame, Same
  <2>3. users[u] = None /\ \A o \in Session : uid[o] # u
      BY <2>1 DEF FreshId
  <2>4. SessionOK(s)'
      BY <2>1, <2>2, <2>3 DEF SessionOK
  <2> QED
      BY <2>1, <2>2, <2>3, <2>4, LocalStep
<1> QED
    BY <1>1, <1>2

LEMMA RegisterInsertStep ==
    ASSUME UInv, NEW s \in Session, RegisterInsert(s)
    PROVE  UInv'
<1>0. TypeOK /\ SessionOK(s) /\ pc[s] = "register_insert"
    BY DEF UInv, RegisterInsert
<1>1. CASE End(s)
    BY <1>0, <1>1, EndStep DEF RegisterInsert, Tables, TypeOK
<1>2. CASE ~End(s)
  <2>1. /\ ~EmailTaken(email[s]) /\ ~EmailPending(s, email[s])
        /\ Goto(s, "register_commit")
        /\ UNCHANGED <<clock, users, disabled, profiles, access, uid, email,
                       registered, served>>
      BY <1>2 DEF RegisterInsert, Tables
  <2>2. /\ OthersSame(s) /\ pc'[s] = "register_commit"
        /\ uid'[s] = uid[s] /\ email'[s] = email[s] /\ TypeOK'
      BY <1>0, <2>1, GoneOn DEF TypeOK
  <2>3. SessionOK(s)'
      BY <1>0, <2>1, <2>2 DEF SessionOK, EmailTaken, Registering
  <2> QED
      BY <1>0, <2>1, <2>2, <2>3, LocalStep DEF EmailPending, Registering
<1> QED
    BY <1>1, <1>2

\* The one step that adds a user: the id is new, and the email nobody's.
LEMMA RegisterCommitStep ==
    ASSUME UInv, NEW s \in Session, RegisterCommit(s)
    PROVE  UInv'
<1>0. TypeOK /\ SessionOK(s) /\ pc[s] = "register_commit"
    BY DEF UInv, RegisterCommit
<1> DEFINE u == uid[s]
           e == email[s]
<1>1. /\ u \in UserId /\ e \in Email /\ e # None /\ users[u] = None
      /\ \A v \in UserId : users[v] # e
    BY <1>0, NoneAssumption DEF SessionOK, Registering, EmailTaken
<1>2. /\ users' = [users EXCEPT ![u] = e]
      /\ registered' = registered \cup {[id |-> u, email |-> e]}
      /\ End(s)
      /\ UNCHANGED <<clock, disabled, profiles, access, served>>
    BY DEF RegisterCommit
<1> HIDE DEF u, e
<1>3. users'[u] = e /\ \A v \in UserId \ {u} : users'[v] = users[v]
    BY <1>0, <1>1, <1>2 DEF TypeOK
<1>4. TypeOK'
    BY <1>0, <1>1, <1>2, Ended DEF TypeOK
<1>5. EmailsUnique'
    BY <1>1, <1>3 DEF UInv, EmailsUnique
<1>6. RegistrationsStand'
  <2> SUFFICES ASSUME NEW r \in registered' PROVE users'[r.id] = r.email
      BY DEF RegistrationsStand
  <2>1. CASE r \in registered
    <3>1. r.id \in UserId /\ r.email \in Email /\ users[r.id] = r.email
        BY <1>0, <2>1 DEF TypeOK, UInv, RegistrationsStand
    <3> QED
        BY <1>1, <1>3, <3>1, NoneAssumption
  <2>2. CASE r = [id |-> u, email |-> e]
      BY <1>3, <2>2
  <2> QED
      BY <1>2, <2>1, <2>2
<1>7. \A o \in Session \ {s} : SessionOK(o)'
  <2> SUFFICES ASSUME NEW o \in Session \ {s} PROVE SessionOK(o)'
      OBVIOUS
  <2>1. Same(o) /\ SessionOK(o)
      BY <1>0, <1>2, Ended DEF UInv, OthersSame
  <2>2. pc[o] \in Registering => uid[o] # u
      BY <1>0 DEF UInv, IdsApart, Registering, u
  <2>3. pc[o] = "register_commit" => email[o] # e
      BY <1>0 DEF UInv, EmailsApart, e
  <2> QED
      BY <1>3, <2>1, <2>2, <2>3 DEF SessionOK, Same, EmailTaken, Registering
<1>8. EmailsApart' /\ IdsApart'
    BY <1>0, <1>2, Ended
       DEF UInv, EmailsApart, IdsApart, OthersSame, Same, Registering
<1> QED
    BY <1>0, <1>2, <1>4, <1>5, <1>6, <1>7, <1>8, Ended DEF UInv

\* A request begins to work on a user, and on no email.
LEMMA OnUserStep ==
    ASSUME UInv, NEW s \in Session, NEW u \in UserId,
           NEW label \in {"issue", "me_select"},
           uid' = [uid EXCEPT ![s] = u], Goto(s, label),
           UNCHANGED <<clock, users, disabled, profiles, access, email,
                       registered, served>>
    PROVE  UInv'
<1>0. TypeOK
    BY DEF UInv
<1>1. TypeOK' /\ OthersSame(s) /\ uid'[s] = u /\ pc'[s] = label
    BY <1>0 DEF TypeOK, Goto, OthersSame, Same
<1>2. SessionOK(s)'
    BY <1>1 DEF SessionOK, Registering
<1> QED
    BY <1>1, <1>2, LocalStep DEF Registering

LEMMA BeginStep ==
    ASSUME UInv, NEW s \in Session, Begin(s)
    PROVE  UInv'
<1>0. TypeOK
    BY DEF UInv
<1>1. ASSUME NEW e \in Email, RegisterSelect(s, e) PROVE UInv'
    BY <1>1, RegisterSelectStep
<1>2. ASSUME NEW u \in UserId, GrantSelect(s, u) PROVE UInv'
  <2>1. CASE End(s)
      BY <1>0, <1>2, <2>1, EndStep DEF GrantSelect, Tables, TypeOK
  <2>2. CASE ~End(s)
      BY <1>2, <2>2, OnUserStep DEF GrantSelect, Tables
  <2> QED
      BY <2>1, <2>2
<1>3. ASSUME NEW a \in access, Authenticate(s, a) PROVE UInv'
  <2>1. CASE End(s)
      BY <1>0, <1>3, <2>1, EndStep DEF Authenticate, Tables, TypeOK
  <2>2. CASE ~End(s)
    <3>1. a.user \in UserId
        BY <1>0 DEF TypeOK
    <3> QED
        BY <1>3, <2>2, <3>1, OnUserStep DEF Authenticate, Tables
  <2> QED
      BY <2>1, <2>2
<1> QED
    BY <1>1, <1>2, <1>3 DEF Begin

\* A profile is looked for, or inserted and not yet committed.
LEMMA ProfileStep ==
    ASSUME UInv, NEW s \in Session, pc[s] # "idle",
           NEW label \in {"me_insert", "me_respond"}, Goto(s, label),
           UNCHANGED <<clock, users, disabled, profiles, access, uid, email,
                       registered, served>>
    PROVE  UInv'
<1>0. TypeOK /\ SessionOK(s)
    BY DEF UInv
<1>1. /\ TypeOK' /\ OthersSame(s)
      /\ pc'[s] = label /\ uid'[s] = uid[s] /\ email'[s] = email[s]
    BY <1>0, GoneOn DEF TypeOK
<1>2. SessionOK(s)'
    BY <1>0, <1>1 DEF SessionOK, Registering
<1> QED
    BY <1>1, <1>2, LocalStep DEF Registering

LEMMA StatementStep ==
    ASSUME UInv, NEW s \in Session, Step(s)
    PROVE  UInv'
<1>0. TypeOK /\ SessionOK(s)
    BY DEF UInv
<1>1. CASE RegisterInsert(s) \/ RegisterCommit(s)
    BY <1>1, RegisterInsertStep, RegisterCommitStep
<1>2. CASE Issue(s)
  <2>1. uid[s] \in UserId /\ clock + AccessTtl \in 0..(MaxClock + AccessTtl)
      BY <1>0, <1>2, ClockAssumption DEF Issue, SessionOK, TypeOK
  <2> QED
      BY <1>0, <1>2, <2>1, EndStep DEF Issue, Tables, TypeOK
<1>3. CASE MeSelect(s) \/ MeInsert(s) \/ MeRespond(s)
  <2>1. uid[s] \in UserId /\ pc[s] # "idle"
      BY <1>0, <1>3 DEF MeSelect, MeInsert, MeRespond, SessionOK
  <2>2. CASE End(s)
      BY <1>0, <1>3, <2>1, <2>2, EndStep
         DEF MeSelect, MeInsert, MeRespond, Tables, TypeOK
  <2>3. CASE ~End(s)
      BY <1>3, <2>1, <2>3, ProfileStep DEF MeSelect, MeInsert, MeRespond, Tables
  <2> QED
      BY <2>2, <2>3
<1> QED
    BY <1>1, <1>2, <1>3 DEF Step

LEMMA InvariantInit == Init => UInv
<1> SUFFICES ASSUME Init PROVE UInv
    OBVIOUS
<1>1. TypeOK
    BY ClockAssumption DEF Init, TypeOK
<1> QED
    BY <1>1 DEF Init, UInv, EmailsUnique, RegistrationsStand, SessionOK,
                EmailsApart, IdsApart, Registering

LEMMA InvariantStep == UInv /\ [Next]_vars => UInv'
<1> SUFFICES ASSUME UInv, [Next]_vars PROVE UInv'
    OBVIOUS
<1>0. TypeOK
    BY DEF UInv
<1>1. CASE Tick
    BY <1>0, <1>1, ClockAssumption, EnvironmentStep DEF Tick, Tables, TypeOK
<1>2. ASSUME NEW u \in UserId, DisableUser(u) \/ ProvisionProfile(u)
      PROVE  UInv'
    BY <1>0, <1>2, EnvironmentStep DEF DisableUser, ProvisionProfile, TypeOK
<1>3. ASSUME NEW s \in Session, Begin(s) \/ Step(s)
      PROVE  UInv'
    BY <1>3, BeginStep, StatementStep
<1>4. ASSUME NEW s \in Session, Abort(s)
      PROVE  UInv'
    BY <1>0, <1>4, EndStep DEF Abort, Tables, TypeOK
<1>5. CASE UNCHANGED vars
    BY <1>0, <1>5, EnvironmentStep DEF vars, TypeOK
<1> QED
    BY <1>1, <1>2, <1>3, <1>4, <1>5 DEF Next

\* The invariant holds in every reachable state.
THEOREM AccountsInvariant == Spec => []UInv
BY InvariantInit, InvariantStep, PTL DEF Spec

\* Every variable keeps its type, for any number of requests and users.
THEOREM AccountsTyped == Spec => []TypeOK
<1>1. UInv => TypeOK
    BY DEF UInv
<1> QED
    BY <1>1, AccountsInvariant, PTL

\* Any number of racing registrations of one email leave it to one user.
THEOREM OneUserPerEmail == Spec => []EmailsUnique
<1>1. UInv => EmailsUnique
    BY DEF UInv
<1> QED
    BY <1>1, AccountsInvariant, PTL

\* An account answered with 201 is there for good.
THEOREM AccountsStand == Spec => []RegistrationsStand
<1>1. UInv => RegistrationsStand
    BY DEF UInv
<1> QED
    BY <1>1, AccountsInvariant, PTL

-----------------------------------------------------------------------------
(* Access tokens of disabled users.                                        *)

\* A grant for u begins only while u is enabled.
LEMMA GrantsBegin ==
    ASSUME UInv, [Next]_vars, NEW s \in Session, NEW u \in disabled,
           pc'[s] = "issue", uid'[s] = u
    PROVE  pc[s] = "issue" /\ uid[s] = u
<1>0. TypeOK
    BY DEF UInv
<1>1. CASE Same(s)
    BY <1>1 DEF Same
<1>2. CASE \E o \in Session : End(o)
    BY <1>0, <1>2, Ended DEF OthersSame, Same
<1>3. ASSUME NEW o \in Session, Begin(o)
      PROVE  pc[s] = "issue" /\ uid[s] = u
    BY <1>0, <1>2, <1>3 DEF Begin, RegisterSelect, GrantSelect, Authenticate,
                           Goto, TypeOK
<1>4. ASSUME NEW o \in Session, Step(o)
      PROVE  pc[s] = "issue" /\ uid[s] = u
    BY <1>0, <1>2, <1>4
       DEF Step, RegisterInsert, RegisterCommit, Issue, MeSelect, MeInsert,
           MeRespond, Goto, TypeOK
<1> QED
    BY <1>1, <1>2, <1>3, <1>4
       DEF Next, Tick, DisableUser, ProvisionProfile, Abort, Same, vars

\* Only a grant for u signs a token of u, and time makes none valid.
LEMMA NothingSigned ==
    ASSUME UInv, [Next]_vars, NEW u \in disabled, NoGrantRunning(u)
    PROVE  ValidAccess(u)' \subseteq ValidAccess(u)
<1> SUFFICES ASSUME NEW a \in access', a.user = u, clock' < a.exp + Leeway
             PROVE  a \in access /\ clock < a.exp + Leeway
    BY DEF ValidAccess
<1>0. TypeOK
    BY DEF UInv
<1> USE DEF Tables
<1>1. a \in access
  <2>1. CASE access' = access
      BY <2>1
  <2>2. ASSUME NEW s \in Session, Issue(s) PROVE a \in access
      BY <2>2 DEF Issue, NoGrantRunning
  <2>3. ASSUME NEW s \in Session, Begin(s) PROVE access' = access
      BY <2>3 DEF Begin, RegisterSelect, GrantSelect, Authenticate
  <2>4. ASSUME NEW s \in Session, Step(s), ~Issue(s) PROVE access' = access
      BY <2>4 DEF Step, RegisterInsert, RegisterCommit, MeSelect, MeInsert,
                  MeRespond
  <2> QED
      BY <2>1, <2>2, <2>3, <2>4
         DEF Next, Tick, DisableUser, ProvisionProfile, Abort, vars
<1>2. clock' = clock \/ clock' = clock + 1
  <2>1. ASSUME NEW s \in Session, Begin(s) PROVE clock' = clock
      BY <2>1 DEF Begin, RegisterSelect, GrantSelect, Authenticate
  <2>2. ASSUME NEW s \in Session, Step(s) PROVE clock' = clock
      BY <2>2 DEF Step, RegisterInsert, RegisterCommit, Issue, MeSelect,
                  MeInsert, MeRespond
  <2> QED
      BY <2>1, <2>2 DEF Next, Tick, DisableUser, ProvisionProfile, Abort, vars
<1>3. clock \in Nat /\ a.exp \in Nat /\ Leeway \in Nat
    BY <1>0, <1>1, ClockAssumption DEF TypeOK
<1> QED
    BY <1>1, <1>2, <1>3

\* Once no grant is running that read the record before, disabling a user
\* leaves nothing but the tokens that are valid, and they run out.
THEOREM DisabledLoseAccess == Spec => AccessDiesOut
<1>1. UInv /\ [Next]_vars => [\A u \in disabled : LosesAccess(u)]_vars
  <2> SUFFICES ASSUME UInv, [Next]_vars, NEW u \in disabled, NoGrantRunning(u)
               PROVE  NoGrantRunning(u)' /\ ValidAccess(u)' \subseteq ValidAccess(u)
      BY DEF LosesAccess
  <2>1. NoGrantRunning(u)'
      BY GrantsBegin DEF NoGrantRunning
  <2> QED
      BY <2>1, NothingSigned
<1> QED
    BY <1>1, AccountsInvariant, PTL DEF Spec, AccessDiesOut
=============================================================================
