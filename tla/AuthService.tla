---------------------------- MODULE AuthService ----------------------------
(***************************************************************************)
(* The refresh-token life cycle of app/auth/service.py: login, refresh     *)
(* (rotation and reuse detection) and logout, run by concurrent requests   *)
(* against the refresh_tokens table.                                       *)
(*                                                                         *)
(* One slot of Session is one HTTP request with its own AsyncSession.  A   *)
(* step is one awaited SQL statement together with the Python code that    *)
(* follows it up to the next await, so every interleaving of statements    *)
(* of different requests is a behaviour.  The engine is created with no    *)
(* isolation level, so PostgreSQL runs every transaction READ COMMITTED:   *)
(* a statement sees the rows committed when it starts, an UPDATE waits for *)
(* the transaction holding the row and then works on the newest version,   *)
(* and an INSERT waits for a transaction holding a conflicting entry of a  *)
(* unique index.                                                           *)
(*                                                                         *)
(* A signed token is represented by the id (jti) of its row: the row       *)
(* stores the hash of exactly that string, so the hash comparison of       *)
(* refresh succeeds.  Columns no decision of the service reads (issued_at, *)
(* the value of revoked_at, hash) are left out.                            *)
(***************************************************************************)
EXTENDS Integers, FiniteSets

CONSTANTS
    Session,     \* slots for concurrent requests
    User,        \* registered users
    TokenId,     \* uuid4 values available as refresh_tokens.id
    FamilyId,    \* uuid4 values available as refresh_tokens.family_id
    None,        \* Python's None / SQL's NULL
    NoRow,       \* "no such row"
    RefreshTtl,  \* refresh_token_expires_days, in clock units
    Leeway,      \* JwtSigner._leeway, in clock units
    MaxClock     \* bound on the clock

ASSUME ClockAssumption ==
    /\ RefreshTtl \in Nat
    /\ Leeway \in Nat
    /\ MaxClock \in Nat

VARIABLES
    clock,      \* SystemClock.now()
    disabled,   \* users whose users.disabled column is TRUE
    tokens,     \* committed contents of refresh_tokens
    writes,     \* writes[s][t]: version of row t written by s, not committed
    pc,         \* the statement a request is about to execute
    arg,        \* token id in the presented refresh token
    new,        \* uuid4 drawn for the token being issued
    row,        \* the row _issue_tokens is about to insert under it
    targets,    \* rows the family UPDATE found in its snapshot
    tails,      \* the unreplaced row of the family in that snapshot
    issued,     \* [id, from]: tokens delivered, and the token rotated
    reported    \* families for which RefreshReuseDetectedError was raised

vars == <<clock, disabled, tokens, writes, pc, arg, new, row, targets, tails,
          issued, reported>>

\* The table as its committed transactions promise to keep it.
Families == INSTANCE TokenFamilies WITH Time <- 0..(MaxClock + RefreshTtl)

Row == Families!Row

ASSUME ValuesAssumption ==
    /\ None \notin TokenId
    /\ NoRow \notin Row

locals == <<arg, new, row, targets, tails>>

history == <<issued, reported>>

Labels == {"idle", "login_insert", "login_commit",
           "refresh_user", "refresh_mark", "refresh_insert",
           "refresh_commit", "respond",
           "reuse_update", "reuse_apply", "reuse_commit",
           "logout_update", "logout_commit"}

NoWrites == [t \in TokenId |-> NoRow]

Init ==
    /\ clock = 0
    /\ disabled = {}
    /\ tokens = NoWrites
    /\ writes = [s \in Session |-> NoWrites]
    /\ pc = [s \in Session |-> "idle"]
    /\ arg = [s \in Session |-> None]
    /\ new = [s \in Session |-> None]
    /\ row = [s \in Session |-> NoRow]
    /\ targets = [s \in Session |-> {}]
    /\ tails = [s \in Session |-> {}]
    /\ issued = {}
    /\ reported = {}

-----------------------------------------------------------------------------
(* The database, as the statements of app/auth/persistence.py meet it.     *)

\* Some other open transaction has written row t: an UPDATE of t waits.
RowLocked(s, t) == \E o \in Session \ {s} : writes[o][t] # NoRow

\* Mutant: the table has no ix_refresh_tokens_family_active.
NoActiveIndex(s, f) == {}

\* Committed rows of family f in ix_refresh_tokens_family_active that s has
\* not itself taken out of it.
ActiveRows(s, f) ==
    {t \in TokenId : /\ tokens[t] # NoRow
                     /\ tokens[t].family = f
                     /\ tokens[t].replaced_by = None
                     /\ writes[s][t] = NoRow}

\* Open transaction o is inserting an active row of f, or is changing one
\* that is there: an INSERT of such a row by s has to wait for o.
EntryHeld(s, o, f) ==
    \E t \in TokenId :
        /\ writes[o][t] # NoRow
        /\ \/ t \in ActiveRows(s, f)
           \/ /\ writes[o][t].family = f
              /\ writes[o][t].replaced_by = None

ActiveIndexBusy(s, f) == \E o \in Session \ {s} : EntryHeld(s, o, f)

\* The rows s leaves behind if it commits now.
AfterCommit(s) ==
    [t \in TokenId |-> IF writes[s][t] # NoRow THEN writes[s][t] ELSE tokens[t]]

\* The DEFERRED foreign key replaced_by -> refresh_tokens.id, at commit.
ReplacedByResolves(s) ==
    \A t \in TokenId :
        (writes[s][t] # NoRow /\ writes[s][t].replaced_by # None)
            => AfterCommit(s)[writes[s][t].replaced_by] # NoRow

\* uuid4() returns an id nobody has drawn.
FreshToken(t) == tokens[t] = NoRow /\ \A s \in Session : new[s] # t

\* The bound TokenId puts on the model: a request begins only if an id is
\* left for it and for every request that has still to draw one.
IdsLeft ==
    Cardinality({s \in Session : pc[s] = "refresh_user"})
        < Cardinality({t \in TokenId : FreshToken(t)})

FreshFamily(f) ==
    /\ \A t \in TokenId : tokens[t] # NoRow => tokens[t].family # f
    /\ \A s \in Session : row[s] # NoRow => row[s].family # f

-----------------------------------------------------------------------------
(* Building blocks of the actions.                                         *)

Goto(s, label) == pc' = [pc EXCEPT ![s] = label]

\* Mutant: the AsyncSession is not closed and its transaction stays open.
EndKeepsTransaction(s) ==
    /\ Goto(s, "idle")
    /\ arg' = [arg EXCEPT ![s] = None]
    /\ new' = [new EXCEPT ![s] = None]
    /\ row' = [row EXCEPT ![s] = NoRow]
    /\ targets' = [targets EXCEPT ![s] = {}]
    /\ tails' = [tails EXCEPT ![s] = {}]
    /\ UNCHANGED writes

\* The request ends and its AsyncSession is closed: what it has not
\* committed is rolled back.
End(s) ==
    /\ Goto(s, "idle")
    /\ arg' = [arg EXCEPT ![s] = None]
    /\ new' = [new EXCEPT ![s] = None]
    /\ row' = [row EXCEPT ![s] = NoRow]
    /\ targets' = [targets EXCEPT ![s] = {}]
    /\ tails' = [tails EXCEPT ![s] = {}]
    /\ writes' = [writes EXCEPT ![s] = NoWrites]

Write(s, t, version) ==
    writes' = [writes EXCEPT ![s] = [@ EXCEPT ![t] = version]]

NewRow(u, f) == Families!NewRow(u, f, clock + RefreshTtl)

\* session.commit(): all rows of the transaction become visible at once.
Commit(s) == tokens' = AfterCommit(s)

\* What is left to do after the commit of a login or a rotation: to answer.
Committed(s) ==
    /\ writes' = [writes EXCEPT ![s] = NoWrites]
    /\ row' = [row EXCEPT ![s] = NoRow]
    /\ Goto(s, "respond")
    /\ UNCHANGED <<arg, new, targets, tails>>

\* JwtSigner.verify accepts the exp claim of token t.
JwtValid(t) == clock < tokens[t].expires_at + Leeway

\* The refresh tokens clients hold.
Presentable == {i.id : i \in issued}

-----------------------------------------------------------------------------
(* The environment.                                                        *)

Tick ==
    /\ clock < MaxClock
    /\ clock' = clock + 1
    /\ UNCHANGED <<disabled, tokens, writes, pc, locals, history>>

\* No endpoint sets users.disabled: an operator does, in the database.
DisableUser(u) ==
    /\ disabled' = disabled \cup {u}
    /\ UNCHANGED <<clock, tokens, writes, pc, locals, history>>

-----------------------------------------------------------------------------
(* login                                                                   *)

\* get_user_by_email and, for an enabled user, _issue_tokens up to its INSERT:
\* a new token in a new family.
LoginGetUser(s, u) ==
    /\ pc[s] = "idle"
    /\ IdsLeft
    /\ u \notin disabled
    /\ \E t \in TokenId, f \in FamilyId :
          /\ FreshToken(t)
          /\ FreshFamily(f)
          /\ new' = [new EXCEPT ![s] = t]
          /\ row' = [row EXCEPT ![s] = NewRow(u, f)]
    /\ Goto(s, "login_insert")
    /\ UNCHANGED <<clock, disabled, tokens, writes, arg, targets, tails, history>>

\* insert_refresh_token: a new family has no active row to collide with.
LoginInsert(s) ==
    /\ pc[s] = "login_insert"
    /\ Write(s, new[s], row[s])
    /\ Goto(s, "login_commit")
    /\ UNCHANGED <<clock, disabled, tokens, locals, history>>

LoginCommit(s) ==
    /\ pc[s] = "login_commit"
    /\ Commit(s)
    /\ Committed(s)
    /\ UNCHANGED <<clock, disabled, history>>

-----------------------------------------------------------------------------
(* refresh                                                                 *)

\* Mutant: the expiry of the row is not checked, only that of the claims.
AcceptExpired(s, t) ==
    /\ pc[s] = "idle"
    /\ IdsLeft
    /\ JwtValid(t)
    /\ ~tokens[t].revoked
    /\ arg' = [arg EXCEPT ![s] = t]
    /\ Goto(s, "refresh_user")
    /\ UNCHANGED <<clock, disabled, tokens, writes, new, row, targets, tails,
                   history>>

\* The record read for t passes every check made on it: not revoked, not
\* expired.
RefreshAccept(s, t) ==
    /\ pc[s] = "idle"
    /\ IdsLeft
    /\ JwtValid(t)
    /\ ~tokens[t].revoked
    /\ ~(tokens[t].expires_at < clock)
    /\ arg' = [arg EXCEPT ![s] = t]
    /\ Goto(s, "refresh_user")
    /\ UNCHANGED <<clock, disabled, tokens, writes, new, row, targets, tails,
                   history>>

\* The record read for t is revoked and replaced: "Reuse detected!".
RefreshDetectsReuse(s, t) ==
    /\ pc[s] = "idle"
    /\ JwtValid(t)
    /\ tokens[t].revoked
    /\ tokens[t].replaced_by # None
    /\ arg' = [arg EXCEPT ![s] = t]
    /\ Goto(s, "reuse_update")
    /\ UNCHANGED <<clock, disabled, tokens, writes, new, row, targets, tails,
                   history>>

\* Mutant: users.disabled is not looked at.
GetAnyUser(s) ==
    /\ pc[s] = "refresh_user"
    /\ \E t \in TokenId : FreshToken(t) /\ new' = [new EXCEPT ![s] = t]
    /\ Goto(s, "refresh_mark")
    /\ UNCHANGED <<clock, disabled, tokens, writes, arg, row, targets, tails,
                   history>>

\* get_user_by_id; an enabled user's request goes on to draw new_token_id.
RefreshGetUser(s) ==
    /\ pc[s] = "refresh_user"
    /\ \/ /\ tokens[arg[s]].user \in disabled
          /\ End(s)
       \/ /\ tokens[arg[s]].user \notin disabled
          /\ \E t \in TokenId :
                FreshToken(t) /\ new' = [new EXCEPT ![s] = t]
          /\ Goto(s, "refresh_mark")
          /\ UNCHANGED <<writes, arg, row, targets, tails>>
    /\ UNCHANGED <<clock, disabled, tokens, history>>

\* Mutant: the rotated row is revoked but stays the family's active row.
MarkRevokedOnly(s) ==
    /\ pc[s] = "refresh_mark"
    /\ ~RowLocked(s, arg[s])
    /\ Write(s, arg[s], Families!Revoked(tokens[arg[s]]))
    /\ row' = [row EXCEPT ![s] =
                  NewRow(tokens[arg[s]].user, tokens[arg[s]].family)]
    /\ Goto(s, "refresh_insert")
    /\ UNCHANGED <<clock, disabled, tokens, arg, new, targets, tails, history>>

\* mark_refresh_token_replaced: UPDATE ... WHERE id = token_id, whatever the
\* row has become since it was read; then _issue_tokens up to its INSERT.
MarkReplaced(s) ==
    /\ pc[s] = "refresh_mark"
    /\ ~RowLocked(s, arg[s])
    /\ Write(s, arg[s], Families!Replaced(tokens[arg[s]], new[s]))
    /\ row' = [row EXCEPT ![s] =
                  NewRow(tokens[arg[s]].user, tokens[arg[s]].family)]
    /\ Goto(s, "refresh_insert")
    /\ UNCHANGED <<clock, disabled, tokens, arg, new, targets, tails, history>>

\* insert_refresh_token: the unique index admits the row only if the family
\* has no active one left; else IntegrityError, and the request fails.
RefreshInsert(s) ==
    /\ pc[s] = "refresh_insert"
    /\ ~ActiveIndexBusy(s, row[s].family)
    /\ \/ /\ ActiveRows(s, row[s].family) # {}
          /\ End(s)
       \/ /\ ActiveRows(s, row[s].family) = {}
          /\ Write(s, new[s], row[s])
          /\ Goto(s, "refresh_commit")
          /\ UNCHANGED locals
    /\ UNCHANGED <<clock, disabled, tokens, history>>

RefreshCommit(s) ==
    /\ pc[s] = "refresh_commit"
    /\ ReplacedByResolves(s)
    /\ Commit(s)
    /\ Committed(s)
    /\ UNCHANGED <<clock, disabled, history>>

\* Committed rows of the family of the reused token.
ReusedFamily(s) ==
    {t \in TokenId : /\ tokens[t] # NoRow
                     /\ tokens[t].family = tokens[arg[s]].family}

\* What the snapshot shows of the end of the family, live or not.
SeeTails(s) ==
    tails' = [tails EXCEPT ![s] =
        {t \in ReusedFamily(s) : tokens[t].replaced_by = None}]

\* Mutant: only the reused token is revoked, not its family.
SnapshotOfToken(s) ==
    /\ pc[s] = "reuse_update"
    /\ targets' = [targets EXCEPT ![s] = {arg[s]}]
    /\ SeeTails(s)
    /\ Goto(s, "reuse_apply")
    /\ UNCHANGED <<clock, disabled, tokens, writes, arg, new, row, history>>

\* revoke_refresh_token_family, the snapshot of its WHERE clause.
ReuseSnapshot(s) ==
    /\ pc[s] = "reuse_update"
    /\ targets' = [targets EXCEPT ![s] =
          {t \in ReusedFamily(s) : ~tokens[t].revoked}]
    /\ SeeTails(s)
    /\ Goto(s, "reuse_apply")
    /\ UNCHANGED <<clock, disabled, tokens, writes, arg, new, row, history>>

\* The same UPDATE, once it has the locks: READ COMMITTED rechecks
\* revoked_at IS NULL on the newest version and never looks for new rows.
ReuseApply(s) ==
    /\ pc[s] = "reuse_apply"
    /\ \A t \in targets[s] : ~RowLocked(s, t)
    /\ writes' = [writes EXCEPT ![s] =
          [t \in TokenId |->
              IF t \in targets[s] /\ ~tokens[t].revoked
              THEN Families!Revoked(tokens[t])
              ELSE NoRow]]
    /\ Goto(s, "reuse_commit")
    /\ UNCHANGED <<clock, disabled, tokens, locals, history>>

\* commit, then raise RefreshReuseDetectedError.
ReuseCommit(s) ==
    /\ pc[s] = "reuse_commit"
    /\ Commit(s)
    /\ reported' = reported \cup {tokens[arg[s]].family}
    /\ End(s)
    /\ UNCHANGED <<clock, disabled, issued>>

-----------------------------------------------------------------------------
(* logout                                                                  *)

LogoutVerify(s, t) ==
    /\ pc[s] = "idle"
    /\ JwtValid(t)
    /\ arg' = [arg EXCEPT ![s] = t]
    /\ Goto(s, "logout_update")
    /\ UNCHANGED <<clock, disabled, tokens, writes, new, row, targets, tails,
                   history>>

\* Mutant: the row is written back as it was when it was issued, revoked.
LogoutUnlinks(s) ==
    /\ pc[s] = "logout_update"
    /\ ~RowLocked(s, arg[s])
    /\ Write(s, arg[s], Families!Replaced(tokens[arg[s]], None))
    /\ Goto(s, "logout_commit")
    /\ UNCHANGED <<clock, disabled, tokens, locals, history>>

\* revoke_refresh_token
LogoutUpdate(s) ==
    /\ pc[s] = "logout_update"
    /\ ~RowLocked(s, arg[s])
    /\ Write(s, arg[s], Families!Revoked(tokens[arg[s]]))
    /\ Goto(s, "logout_commit")
    /\ UNCHANGED <<clock, disabled, tokens, locals, history>>

LogoutCommit(s) ==
    /\ pc[s] = "logout_commit"
    /\ Commit(s)
    /\ End(s)
    /\ UNCHANGED <<clock, disabled, history>>

-----------------------------------------------------------------------------
(* Ends of requests.                                                       *)

\* The token pair of a committed login or refresh reaches the client.
Respond(s) ==
    /\ pc[s] = "respond"
    /\ issued' = issued \cup {[id |-> new[s], from |-> arg[s]]}
    /\ End(s)
    /\ UNCHANGED <<clock, disabled, tokens, reported>>

\* Crash, cancelled request, lost connection: the transaction is rolled
\* back, or, after the commit, only the response is lost.
Abort(s) ==
    /\ pc[s] # "idle"
    /\ End(s)
    /\ UNCHANGED <<clock, disabled, tokens, history>>

\* A request refused before it changes anything: wrong password, disabled
\* user, bad signature, expired or revoked token.
Reject(s) == pc[s] = "idle" /\ UNCHANGED vars

Begin(s) ==
    \/ \E u \in User : LoginGetUser(s, u)
    \/ \E t \in Presentable : \/ RefreshAccept(s, t)
                              \/ RefreshDetectsReuse(s, t)
                              \/ LogoutVerify(s, t)
    \/ Reject(s)

\* The statements of a request that has begun.
Step(s) ==
    \/ LoginInsert(s) \/ LoginCommit(s)
    \/ RefreshGetUser(s) \/ MarkReplaced(s) \/ RefreshInsert(s)
    \/ RefreshCommit(s)
    \/ ReuseSnapshot(s) \/ ReuseApply(s) \/ ReuseCommit(s)
    \/ LogoutUpdate(s) \/ LogoutCommit(s)
    \/ Respond(s)

Next ==
    \/ Tick
    \/ \E u \in User : DisableUser(u)
    \/ \E s \in Session : Begin(s) \/ Step(s) \/ Abort(s)

Spec == Init /\ [][Next]_vars

\* The event loop runs every request on, and the database's lock queue serves
\* every waiter in turn; nothing obliges clients to send requests or fail.
FairSpec == Spec /\ \A s \in Session : SF_vars(Step(s))

-----------------------------------------------------------------------------
(* Properties.                                                             *)

TypeOK ==
    /\ clock \in 0..MaxClock
    /\ disabled \subseteq User
    /\ tokens \in [TokenId -> Row \cup {NoRow}]
    /\ writes \in [Session -> [TokenId -> Row \cup {NoRow}]]
    /\ pc \in [Session -> Labels]
    /\ arg \in [Session -> TokenId \cup {None}]
    /\ new \in [Session -> TokenId \cup {None}]
    /\ row \in [Session -> Row \cup {NoRow}]
    /\ targets \in [Session -> SUBSET TokenId]
    /\ tails \in [Session -> SUBSET TokenId]
    /\ issued \subseteq [id : TokenId, from : TokenId \cup {None}]
    /\ reported \subseteq FamilyId

\* However the statements of concurrent requests interleave, and whichever
\* of them fail half-way, the committed table only moves by whole logins,
\* whole rotations of a family's tail, and revocations.
RefinesFamilies == Families!Spec

\* Over every interleaving of statements, commits and failures, the committed
\* rows of each family form one chain, from the login's to its only unreplaced
\* one.
FamiliesAreChains == Families!ChainSound

\* No commit of any request takes back what an earlier one has done to a row:
\* no row disappears, moves, is extended, or comes back from revoked or
\* replaced.
HistoryIsFinal == [][Families!HistoryKept]_tokens

\* A refresh token buys at most one successor: of the requests presenting
\* it, concurrent or retried, no two are answered with tokens.
SingleUse ==
    \A a, b \in issued : (a.from = b.from /\ a.from # None) => a = b

\* Requests that have passed the checks of refresh on a token of f.
Rotating(f) == {s \in Session :
    /\ pc[s] \in {"refresh_user", "refresh_mark", "refresh_insert",
                  "refresh_commit"}
    /\ tokens[arg[s]].family = f}

HasRows(f) == \E t \in TokenId : tokens[t] # NoRow /\ tokens[t].family = f

\* No token of f can be rotated: each is revoked or expired.
Spent(f) == \A t \in TokenId :
    (tokens[t] # NoRow /\ tokens[t].family = f)
        => (tokens[t].revoked \/ tokens[t].expires_at < clock)

StaysSpent(f) ==
    (HasRows(f) /\ Spent(f) /\ Rotating(f) = {})
        => (Spent(f) /\ Rotating(f) = {})'

\* The end of a family is final: once every token of it is revoked or
\* expired, and no rotation that read one before is still running, no
\* request presenting any token of it, old or new, brings it back to life;
\* the leeway granted to exp claims does not help.
SpentFamilyStaysSpent == [][\A f \in FamilyId : StaysSpent(f)]_vars

\* Requests that hold a positive answer about user u.
Granting(u) == {s \in Session :
    \/ /\ pc[s] \in {"refresh_mark", "refresh_insert", "refresh_commit"}
       /\ tokens[arg[s]].user = u
    \/ /\ pc[s] \in {"login_insert", "login_commit"}
       /\ row[s].user = u}

TokensOf(u) == {t \in TokenId : tokens[t] # NoRow /\ tokens[t].user = u}

StaysCutOff(u) ==
    Granting(u) = {} => /\ Granting(u)' = {}
                        /\ TokensOf(u)' = TokensOf(u)

\* A disabled user gets no further refresh token, except from requests that
\* had read the user record before.
DisabledUsersAreCutOff == [][\A u \in disabled : StaysCutOff(u)]_vars

\* Every token of family f is revoked.
FamilyRevoked(f) == \A t \in TokenId :
    (tokens[t] # NoRow /\ tokens[t].family = f) => tokens[t].revoked

\* When refresh raises RefreshReuseDetectedError the whole family of the
\* reused token is revoked, and stays so.
ReuseRevokesFamily == \A f \in reported : FamilyRevoked(f)

\* The row that was the end of the family in the snapshot of s has been rotated
\* since.
RotatedMeanwhile(s) == \E p \in tails[s] : tokens[p].replaced_by # None

ReportIsTrue(s) ==
    \A f \in FamilyId :
        f = tokens[arg[s]].family => FamilyRevoked(f)' \/ RotatedMeanwhile(s)

\* Reuse detection misses nothing but a race: whenever a reuse is reported the
\* whole family is revoked, whatever logouts, rotations and other reports came
\* before, unless the very row that ended the family when the family UPDATE
\* took its snapshot has been rotated between the snapshot and the commit.
ReuseSparesOnlyARace ==
    [][\A s \in Session : ReuseCommit(s) => ReportIsTrue(s)]_vars

\* ix_refresh_tokens_family_active decides races as the service needs it: the
\* INSERT of a rotation finds the index free exactly if the token has not been
\* rotated by another request since it was read.
RotationFitsIndex ==
    \A s \in Session :
        pc[s] = "refresh_insert"
            => (ActiveRows(s, row[s].family) = {}
                    <=> tokens[arg[s]].replaced_by = None)

\* The statement s is at has to wait for the transaction of o to end.
WaitsFor(s, o) ==
    /\ o # s
    /\ \/ /\ pc[s] \in {"refresh_mark", "logout_update"}
          /\ writes[o][arg[s]] # NoRow
       \/ /\ pc[s] = "reuse_apply"
          /\ \E t \in targets[s] : writes[o][t] # NoRow
       \/ /\ pc[s] = "refresh_insert"
          /\ EntryHeld(s, o, row[s].family)

\* Requests never wait for each other in a circle: every non-empty set of them
\* has one that waits for nobody in the set.  Nor does the order matter in
\* which the family UPDATE takes its row locks, for there is at most one live
\* row in its snapshot.
NoDeadlock ==
    /\ \A S \in (SUBSET Session) \ {{}} :
          \E s \in S : \A o \in S : ~WaitsFor(s, o)
    /\ \A s \in Session : \A t, o \in targets[s] : t = o

\* No request waits for a row or an index entry for ever: every request that
\* has begun ends, answered or not.
RequestsEnd == \A s \in Session : pc[s] # "idle" ~> pc[s] = "idle"
=============================================================================
