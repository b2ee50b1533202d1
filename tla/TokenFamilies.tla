--------------------------- MODULE TokenFamilies ---------------------------
(***************************************************************************)
(* What the refresh_tokens table promises, one atomic step per committed   *)
(* transaction: a family is started by a login, extended at its only       *)
(* unreplaced row by a rotation, and its rows are revoked by a logout or   *)
(* by reuse detection.  AuthService implements it.                         *)
(***************************************************************************)
CONSTANTS
    User,        \* registered users
    TokenId,     \* uuid4 values available as refresh_tokens.id
    FamilyId,    \* uuid4 values available as refresh_tokens.family_id
    Time,        \* values of refresh_tokens.expires_at
    None,        \* Python's None / SQL's NULL
    NoRow        \* "no such row"

\* The columns of refresh_tokens a decision of the service depends on.
Row == [user        : User,
        family      : FamilyId,
        expires_at  : Time,
        revoked     : BOOLEAN,
        replaced_by : TokenId \cup {None}]

\* What the constants must satisfy for rows and NULLs to be told apart.
RowAssumption ==
    /\ None \notin TokenId
    /\ NoRow \notin Row

VARIABLE tokens     \* committed contents of refresh_tokens

Rows == {t \in TokenId : tokens[t] # NoRow}

\* The row ix_refresh_tokens_family_active keeps for a family.
IsTail(t) == t \in Rows /\ tokens[t].replaced_by = None

Family(f) == {t \in Rows : tokens[t].family = f}

Init == tokens = [t \in TokenId |-> NoRow]

NewRow(u, f, e) ==
    [user |-> u, family |-> f, expires_at |-> e,
     revoked |-> FALSE, replaced_by |-> None]

\* revoked_at is set, and replaced_by as well.
Revoked(r) == [r EXCEPT !.revoked = TRUE]

Replaced(r, n) == [Revoked(r) EXCEPT !.replaced_by = n]

\* A login of u starts a family.
Grant(u, n) ==
    /\ n \notin Rows
    /\ \E f \in FamilyId, e \in Time :
          /\ Family(f) = {}
          /\ tokens' = [tokens EXCEPT ![n] = NewRow(u, f, e)]

\* A refresh replaces the tail t of a family by n.  Whether t was revoked
\* meanwhile is not said: the service checks it only when it reads t.
Rotate(t, n) ==
    /\ IsTail(t)
    /\ n \notin Rows
    /\ \E e \in Time :
          tokens' = [tokens EXCEPT
              ![t] = Replaced(@, n),
              ![n] = NewRow(tokens[t].user, tokens[t].family, e)]

\* A logout or reuse detection revokes rows and changes nothing else.
Revoke(T) ==
    tokens' = [t \in TokenId |->
        IF t \in T THEN Revoked(tokens[t]) ELSE tokens[t]]

Next ==
    \/ \E u \in User, n \in TokenId : Grant(u, n)
    \/ \E t, n \in TokenId : Rotate(t, n)
    \/ \E T \in SUBSET Rows : Revoke(T)

Spec == Init /\ [][Next]_tokens

-----------------------------------------------------------------------------
TypeOK == tokens \in [TokenId -> Row \cup {NoRow}]

\* A family never forks: no two rows of it are both unreplaced, so no two
\* descendants of one login can be rotated side by side.
OneTail ==
    \A t, o \in Rows :
        (IsTail(t) /\ IsTail(o) /\ tokens[t].family = tokens[o].family) => t = o

\* A family never loses its end: as long as it has rows, one is unreplaced.
HasTail ==
    \A t \in Rows : \E o \in Rows :
        IsTail(o) /\ tokens[o].family = tokens[t].family

\* A replaced row is revoked and points to a row of the same family and
\* user; no row replaces two rows.
LinksSound ==
    /\ \A t \in Rows : tokens[t].replaced_by # None =>
          /\ tokens[t].revoked
          /\ tokens[t].replaced_by \in Rows
          /\ tokens[tokens[t].replaced_by].family = tokens[t].family
          /\ tokens[tokens[t].replaced_by].user = tokens[t].user
    /\ \A t, o \in Rows :
          (tokens[t].replaced_by = tokens[o].replaced_by
             /\ tokens[t].replaced_by # None) => t = o

\* Following replaced_by never runs in a circle: every non-empty set of rows
\* has one whose successor is outside it.
Acyclic ==
    \A S \in SUBSET Rows : S # {} => \E t \in S : tokens[t].replaced_by \notin S

\* The rows of every family form one chain, oldest to tail.
ChainSound == OneTail /\ HasTail /\ LinksSound /\ Acyclic

\* History is never rewritten: no row disappears, changes hands, is moved to
\* another family, is extended, or comes back from revoked or replaced.
HistoryKept ==
    \A t \in Rows :
        /\ tokens'[t] # NoRow
        /\ tokens'[t].user = tokens[t].user
        /\ tokens'[t].family = tokens[t].family
        /\ tokens'[t].expires_at = tokens[t].expires_at
        /\ tokens[t].revoked => tokens'[t].revoked
        /\ tokens[t].replaced_by # None
              => tokens'[t].replaced_by = tokens[t].replaced_by

HistoryIsFinal == [][HistoryKept]_tokens
=============================================================================
