------------------------ MODULE AuthServiceInvariant ------------------------
(***************************************************************************)
(* The inductive invariant of AuthService: what a request's local state,   *)
(* its uncommitted rows and the committed table have to do with each other *)
(* at every statement, and what keeps two requests apart.                  *)
(***************************************************************************)
EXTENDS AuthService

\* Requests about to insert or commit the row they hold in `row'.
HoldingRow == {"login_insert", "login_commit", "refresh_insert", "refresh_commit"}

\* Requests that have drawn an id.
HoldingId == HoldingRow \cup {"refresh_mark", "respond"}

\* Requests with uncommitted rows.
Writing == {"login_commit", "refresh_insert", "refresh_commit",
            "reuse_commit", "logout_commit"}

LoggingIn == {"login_insert", "login_commit"}

\* Requests that work on a presented token.
Presenting == Labels \ (LoggingIn \cup {"idle", "respond"})

LocalsOK(s) ==
    /\ row[s] # NoRow <=> pc[s] \in HoldingRow
    /\ row[s] # NoRow =>
          row[s] = Families!NewRow(row[s].user, row[s].family, row[s].expires_at)
    /\ new[s] # None <=> pc[s] \in HoldingId
    /\ new[s] # None => (tokens[new[s]] = NoRow <=> pc[s] # "respond")
    /\ pc[s] \in Presenting => arg[s] # None
    /\ pc[s] \in LoggingIn \cup {"idle"} => arg[s] = None
    /\ arg[s] # None => tokens[arg[s]] # NoRow
    /\ \A t \in targets[s] : tokens[t] # NoRow

\* Request s has changed no rows but those in T.
Only(s, T) == \A t \in TokenId \ T : writes[s][t] = NoRow

\* The uncommitted rows of a request, statement by statement.
WritesOK(s) ==
    /\ pc[s] \notin Writing => Only(s, {})
    /\ pc[s] = "login_commit" =>
          Only(s, {new[s]}) /\ writes[s][new[s]] = row[s]
    /\ pc[s] = "refresh_insert" => Only(s, {arg[s]})
    /\ pc[s] = "refresh_commit" =>
          /\ Only(s, {arg[s], new[s]})
          /\ writes[s][new[s]] = row[s]
          /\ tokens[arg[s]].replaced_by = None
    /\ pc[s] \in {"refresh_insert", "refresh_commit"} =>
          writes[s][arg[s]] = Families!Replaced(tokens[arg[s]], new[s])
    /\ pc[s] \in {"reuse_commit", "logout_commit"} =>
          \A t \in TokenId : writes[s][t] # NoRow =>
              /\ tokens[t] # NoRow
              /\ writes[s][t] = Families!Revoked(tokens[t])

\* The family of the row a request is about to insert.
FamilyOK(s) ==
    /\ pc[s] \in {"refresh_insert", "refresh_commit"} =>
          /\ row[s].family = tokens[arg[s]].family
          /\ row[s].user = tokens[arg[s]].user
    /\ pc[s] \in LoggingIn =>
          \A t \in TokenId : tokens[t] # NoRow => tokens[t].family # row[s].family

\* The token a rotation is about to deliver is the one that replaced arg.
ResponseOK(s) ==
    (pc[s] = "respond" /\ arg[s] # None) => tokens[arg[s]].replaced_by = new[s]

SessionOK(s) == LocalsOK(s) /\ WritesOK(s) /\ FamilyOK(s) /\ ResponseOK(s)

\* No row is being changed by two transactions.
LocksExclusive ==
    \A s, o \in Session, t \in TokenId :
        (writes[s][t] # NoRow /\ writes[o][t] # NoRow) => s = o

\* No id has been drawn twice.
IdsDistinct ==
    \A s, o \in Session : (new[s] = new[o] /\ new[s] # None) => s = o

\* The family of a login belongs to no other request.
FamiliesDistinct ==
    \A s, o \in Session :
        (s # o /\ pc[s] \in LoggingIn /\ row[o] # NoRow)
            => row[s].family # row[o].family

\* What a client was given is in the table, and is what replaced the token
\* it was given for.
IssuedOK ==
    \A i \in issued :
        /\ tokens[i.id] # NoRow
        /\ i.from # None => /\ tokens[i.from] # NoRow
                            /\ tokens[i.from].replaced_by = i.id

IInv ==
    /\ TypeOK
    /\ Families!ChainSound
    /\ \A s \in Session : SessionOK(s)
    /\ LocksExclusive
    /\ IdsDistinct
    /\ FamiliesDistinct
    /\ IssuedOK
=============================================================================
