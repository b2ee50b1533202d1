------------------------- MODULE AuthServiceProofs -------------------------
(***************************************************************************)
(* Proofs about AuthService: however the statements of any number of       *)
(* concurrent requests interleave and fail, the committed refresh_tokens   *)
(* table implements TokenFamilies, a token buys at most one successor, and *)
(* spent families and disabled users get no new one.                       *)
(***************************************************************************)
EXTENDS AuthServiceInvariant, TLAPS

\* The lemmas about the abstract table.
F == INSTANCE TokenFamiliesProofs WITH Time <- 0..(MaxClock + RefreshTtl)

LEMMA StoredRow ==
    ASSUME NEW r \in Row
    PROVE  /\ r.user \in User /\ r.family \in FamilyId
           /\ r.replaced_by \in TokenId \cup {None}
           /\ r # NoRow
BY ValuesAssumption DEF Row, Families!Row

LEMMA RevokedRow ==
    ASSUME NEW r \in Row
    PROVE  /\ Families!Revoked(r) \in Row
           /\ Families!Revoked(r) # NoRow
           /\ Families!Revoked(r).user = r.user
           /\ Families!Revoked(r).family = r.family
           /\ Families!Revoked(r).replaced_by = r.replaced_by
BY ValuesAssumption DEF Row, Families!Row, Families!Revoked

LEMMA ReplacedRow ==
    ASSUME NEW r \in Row, NEW n \in TokenId
    PROVE  /\ Families!Replaced(r, n) \in Row
           /\ Families!Replaced(r, n) # NoRow
           /\ Families!Replaced(r, n).user = r.user
           /\ Families!Replaced(r, n).family = r.family
           /\ Families!Replaced(r, n).replaced_by = n
<1>1. Families!Revoked(r) \in Row
    BY RevokedRow
<1> QED
    BY <1>1, RevokedRow, ValuesAssumption DEF Row, Families!Row, Families!Replaced

LEMMA InsertedRow ==
    ASSUME TypeOK, NEW u \in User, NEW f \in FamilyId
    PROVE  /\ NewRow(u, f) \in Row
           /\ NewRow(u, f) # NoRow
           /\ NewRow(u, f).user = u
           /\ NewRow(u, f).family = f
           /\ NewRow(u, f) =
                 Families!NewRow(u, f, NewRow(u, f).expires_at)
<1>1. clock + RefreshTtl \in 0..(MaxClock + RefreshTtl)
    BY ClockAssumption DEF TypeOK
<1>2. NewRow(u, f) = [user |-> u, family |-> f, expires_at |-> clock + RefreshTtl,
                      revoked |-> FALSE, replaced_by |-> None]
    BY DEF NewRow, Families!NewRow
<1>3. NewRow(u, f) \in Row
    BY <1>1, <1>2 DEF Row, Families!Row
<1>4. /\ NewRow(u, f).user = u
      /\ NewRow(u, f).family = f
      /\ NewRow(u, f).expires_at = clock + RefreshTtl
    BY <1>2
<1> QED
    BY <1>3, <1>4, StoredRow DEF NewRow

(* The abstract step lemmas, over the instance that AuthService declares. *)

LEMMA SameType == F!TypeOK <=> Families!TypeOK
BY DEF F!TypeOK, Families!TypeOK, F!Row, Families!Row

LEMMA SameChain == F!ChainSound <=> Families!ChainSound
BY DEF F!ChainSound, F!OneTail, F!HasTail, F!LinksSound, F!Acyclic, F!IsTail,
       F!Rows, Families!ChainSound, Families!OneTail, Families!HasTail,
       Families!LinksSound, Families!Acyclic, Families!IsTail, Families!Rows

LEMMA SameNext == F!Next <=> Families!Next
BY DEF F!Next, F!Grant, F!Rotate, F!Revoke, F!Rows, F!IsTail, F!Family,
       F!NewRow, F!Replaced, F!Revoked, Families!Next, Families!Grant,
       Families!Rotate, Families!Revoke, Families!Rows, Families!IsTail,
       Families!Family, Families!NewRow, Families!Replaced, Families!Revoked

LEMMA AbstractAssumption == F!RowAssumption
BY ValuesAssumption DEF F!RowAssumption, Row, Families!Row, F!Row

LEMMA AbstractStep ==
    ASSUME Families!TypeOK, Families!ChainSound, [Families!Next]_tokens
    PROVE  Families!ChainSound' /\ (Families!HistoryKept \/ tokens' = tokens)
<1>1. F!TypeOK /\ F!ChainSound /\ [F!Next]_tokens
    BY SameType, SameChain, SameNext
<1>2. F!ChainSound'
    BY <1>1, AbstractAssumption, F!ChainStep
<1>3. F!ChainSound' <=> Families!ChainSound'
    BY SameChain, PTL
<1>4. F!HistoryKept \/ tokens' = tokens
    BY <1>1, AbstractAssumption, F!HistoryStep
<1>5. F!HistoryKept <=> Families!HistoryKept
    BY DEF F!HistoryKept, F!Rows, Families!HistoryKept, Families!Rows
<1> QED
    BY <1>2, <1>3, <1>4, <1>5

LEMMA AbstractInit ==
    ASSUME Families!Init
    PROVE  Families!TypeOK /\ Families!ChainSound
<1>1. F!Init
    BY DEF F!Init, Families!Init
<1>2. F!TypeOK /\ F!ChainSound
    BY <1>1, AbstractAssumption, F!ChainInit
<1> QED
    BY <1>2, SameType, SameChain

LEMMA TypeIsAbstract == TypeOK => Families!TypeOK
BY DEF TypeOK, Families!TypeOK, Row

-----------------------------------------------------------------------------
(* Steps of one request leave the others alone.                            *)

\* Nothing of request o's own state changes.
Same(o) ==
    /\ pc'[o] = pc[o] /\ arg'[o] = arg[o] /\ new'[o] = new[o]
    /\ row'[o] = row[o] /\ writes'[o] = writes[o]
    /\ targets'[o] = targets[o] /\ tails'[o] = tails[o]

OthersSame(s) == \A o \in Session \ {s} : Same(o)

LEMMA SessionFrame ==
    ASSUME NEW o \in Session, SessionOK(o), Same(o), tokens' = tokens
    PROVE  SessionOK(o)'
<1> USE DEF Same
<1>1. LocalsOK(o)'
    BY DEF SessionOK, LocalsOK
<1>2. WritesOK(o)'
    BY DEF SessionOK, WritesOK, Only
<1>3. FamilyOK(o)' /\ ResponseOK(o)'
    BY DEF SessionOK, FamilyOK, ResponseOK
<1> QED
    BY <1>1, <1>2, <1>3 DEF SessionOK

\* A request that has ended has nothing left to be consistent about.
LEMMA EndedSession ==
    ASSUME TypeOK, NEW s \in Session, End(s)
    PROVE  /\ SessionOK(s)'
           /\ OthersSame(s)
           /\ pc'[s] = "idle" /\ arg'[s] = None /\ new'[s] = None
           /\ row'[s] = NoRow /\ writes'[s] = NoWrites
           /\ pc' \in [Session -> Labels]
           /\ arg' \in [Session -> TokenId \cup {None}]
           /\ new' \in [Session -> TokenId \cup {None}]
           /\ row' \in [Session -> Row \cup {NoRow}]
           /\ targets' \in [Session -> SUBSET TokenId]
           /\ tails' \in [Session -> SUBSET TokenId]
           /\ writes' \in [Session -> [TokenId -> Row \cup {NoRow}]]
<1>1. /\ pc' = [pc EXCEPT ![s] = "idle"]
      /\ arg' = [arg EXCEPT ![s] = None]
      /\ new' = [new EXCEPT ![s] = None]
      /\ row' = [row EXCEPT ![s] = NoRow]
      /\ targets' = [targets EXCEPT ![s] = {}]
      /\ tails' = [tails EXCEPT ![s] = {}]
      /\ writes' = [writes EXCEPT ![s] = NoWrites]
    BY DEF End, Goto
<1>2. /\ pc'[s] = "idle" /\ arg'[s] = None /\ new'[s] = None
      /\ row'[s] = NoRow /\ writes'[s] = NoWrites
      /\ targets'[s] = {} /\ tails'[s] = {}
    BY <1>1 DEF TypeOK
<1>3. OthersSame(s)
    BY <1>1 DEF TypeOK, OthersSame, Same
<1>4. LocalsOK(s)'
    BY <1>2 DEF LocalsOK, HoldingRow, HoldingId, Presenting, LoggingIn
<1>5. WritesOK(s)'
    BY <1>2 DEF WritesOK, Only, NoWrites, Writing
<1>6. FamilyOK(s)' /\ ResponseOK(s)'
    BY <1>2 DEF FamilyOK, ResponseOK, LoggingIn
<1>7. NoWrites \in [TokenId -> Row \cup {NoRow}]
    BY DEF NoWrites
<1>8. /\ pc' \in [Session -> Labels]
      /\ arg' \in [Session -> TokenId \cup {None}]
      /\ new' \in [Session -> TokenId \cup {None}]
      /\ row' \in [Session -> Row \cup {NoRow}]
      /\ targets' \in [Session -> SUBSET TokenId]
      /\ tails' \in [Session -> SUBSET TokenId]
      /\ writes' \in [Session -> [TokenId -> Row \cup {NoRow}]]
    BY <1>1, <1>7 DEF TypeOK, Labels
<1> QED
    BY <1>2, <1>3, <1>4, <1>5, <1>6, <1>8 DEF SessionOK

\* Locks stay exclusive when s gives rows up or waits for the ones it takes.
LEMMA KeepsLocks ==
    ASSUME LocksExclusive, NEW s \in Session, OthersSame(s),
           \A t \in TokenId : writes'[s][t] # NoRow =>
               writes[s][t] # NoRow \/ ~RowLocked(s, t)
    PROVE  LocksExclusive'
BY DEF LocksExclusive, OthersSame, Same, RowLocked

LEMMA KeepsIds ==
    ASSUME IdsDistinct, NEW s \in Session, OthersSame(s),
           \/ new'[s] \in {new[s], None}
           \/ \A o \in Session : new[o] # new'[s]
    PROVE  IdsDistinct'
BY DEF IdsDistinct, OthersSame, Same

LEMMA KeepsFamilies ==
    ASSUME FamiliesDistinct, NEW s \in Session, OthersSame(s),
           row'[s] # NoRow => row'[s] = row[s],
           pc'[s] \in LoggingIn => pc[s] \in LoggingIn /\ row'[s] # NoRow
    PROVE  FamiliesDistinct'
BY DEF FamiliesDistinct, OthersSame, Same

\* A step of s that commits nothing.
LEMMA LocalStep ==
    ASSUME IInv, NEW s \in Session, OthersSame(s), tokens' = tokens,
           TypeOK', SessionOK(s)', LocksExclusive', IdsDistinct',
           FamiliesDistinct', IssuedOK'
    PROVE  IInv'
<1>1. \A o \in Session \ {s} : SessionOK(o)'
    BY SessionFrame DEF IInv, OthersSame
<1>2. Families!ChainSound'
    BY AbstractStep, TypeIsAbstract DEF IInv
<1> QED
    BY <1>1, <1>2 DEF IInv

LEMMA IssuedFrame ==
    ASSUME IssuedOK, tokens' = tokens, issued' = issued
    PROVE  IssuedOK'
BY DEF IssuedOK

-----------------------------------------------------------------------------
(* The steps that commit nothing, one by one.                              *)

\* The invariant is about the variables only.
LEMMA Unchanged == ASSUME IInv, UNCHANGED vars PROVE IInv' /\ tokens' = tokens
<1> USE DEF vars, locals, history
<1>1. \A o \in Session : Same(o) /\ SessionOK(o)
    BY DEF IInv, Same
<1>2. \A o \in Session : SessionOK(o)'
    BY <1>1, SessionFrame
<1>3. TypeOK' /\ Families!ChainSound'
    BY AbstractStep, TypeIsAbstract DEF IInv, TypeOK
<1>4. LocksExclusive' /\ IdsDistinct' /\ FamiliesDistinct' /\ IssuedOK'
    BY IssuedFrame
       DEF IInv, LocksExclusive, IdsDistinct, FamiliesDistinct
<1> QED
    BY <1>2, <1>3, <1>4 DEF IInv

LEMMA EnvironmentStep ==
    ASSUME IInv, Tick \/ (\E u \in User : DisableUser(u))
    PROVE  IInv'
<1>1. UNCHANGED <<tokens, writes, pc, locals, history>>
    BY DEF Tick, DisableUser
<1>2. clock' \in 0..MaxClock /\ disabled' \subseteq User
    BY ClockAssumption DEF IInv, TypeOK, Tick, DisableUser
<1>3. TypeOK'
    BY <1>1, <1>2 DEF IInv, TypeOK, locals, history
<1>4. \A o \in Session : Same(o) /\ SessionOK(o)
    BY <1>1 DEF IInv, Same, locals
<1>5. \A o \in Session : SessionOK(o)'
    BY <1>1, <1>4, SessionFrame
<1>6. Families!ChainSound'
    BY <1>1, AbstractStep, TypeIsAbstract DEF IInv
<1>7. LocksExclusive' /\ IdsDistinct' /\ FamiliesDistinct'
    BY <1>1 DEF IInv, LocksExclusive, IdsDistinct, FamiliesDistinct, locals
<1>8. IssuedOK'
    BY <1>1, IssuedFrame DEF IInv, history
<1> QED
    BY <1>3, <1>5, <1>6, <1>7, <1>8 DEF IInv

LEMMA LoginGetUserStep ==
    ASSUME IInv, NEW s \in Session, NEW u \in User, LoginGetUser(s, u)
    PROVE  IInv'
<1>0. TypeOK /\ SessionOK(s)
    BY DEF IInv
<1>1. PICK t \in TokenId, f \in FamilyId :
          /\ FreshToken(t) /\ FreshFamily(f)
          /\ new' = [new EXCEPT ![s] = t]
          /\ row' = [row EXCEPT ![s] = NewRow(u, f)]
    BY DEF LoginGetUser
<1>2. /\ pc[s] = "idle"
      /\ pc' = [pc EXCEPT ![s] = "login_insert"]
      /\ UNCHANGED <<clock, disabled, tokens, writes, arg, targets, tails, history>>
    BY DEF LoginGetUser, Goto
<1> DEFINE r == NewRow(u, f)
<1>3. /\ r \in Row /\ r # NoRow /\ r.family = f
      /\ r = Families!NewRow(r.user, r.family, r.expires_at)
    BY <1>0, InsertedRow
<1> HIDE DEF r
<1>4. new'[s] = t /\ row'[s] = r /\ pc'[s] = "login_insert"
    BY <1>0, <1>1, <1>2 DEF TypeOK, r
<1>5. TypeOK'
    BY <1>0, <1>1, <1>2, <1>3 DEF TypeOK, Labels, history, r
<1>6. OthersSame(s)
    BY <1>0, <1>1, <1>2 DEF TypeOK, OthersSame, Same
<1>8. arg'[s] = None
    BY <1>0, <1>2 DEF SessionOK, LocalsOK, LoggingIn
<1>9. LocalsOK(s)'
    BY <1>0, <1>1, <1>2, <1>3, <1>4, <1>8, ValuesAssumption
       DEF SessionOK, LocalsOK, HoldingRow, HoldingId, Presenting, LoggingIn,
           FreshToken
<1>10. WritesOK(s)'
    BY <1>0, <1>2, <1>4 DEF SessionOK, WritesOK, Only, Writing
<1>11. FamilyOK(s)' /\ ResponseOK(s)'
    BY <1>1, <1>2, <1>3, <1>4 DEF FamilyOK, ResponseOK, FreshFamily, LoggingIn
<1>12. LocksExclusive'
    BY <1>2, <1>6, KeepsLocks DEF IInv
<1>13. IdsDistinct'
    BY <1>1, <1>4, <1>6, KeepsIds DEF IInv, FreshToken
<1>14. FamiliesDistinct'
  <2>1. \A o \in Session \ {s} : row'[o] = row[o] /\ pc'[o] = pc[o]
      BY <1>6 DEF OthersSame, Same
  <2>2. \A o \in Session \ {s} : row[o] # NoRow => row[o].family # f
      BY <1>1 DEF FreshFamily
  <2>3. \A o \in Session : pc[o] \in LoggingIn => row[o] # NoRow
      BY DEF IInv, SessionOK, LocalsOK, LoggingIn, HoldingRow
  <2> QED
      BY <1>3, <1>4, <2>1, <2>2, <2>3 DEF IInv, FamiliesDistinct
<1>15. IssuedOK'
    BY <1>2, IssuedFrame DEF IInv, history
<1> QED
    BY <1>2, <1>5, <1>6, <1>9, <1>10, <1>11, <1>12, <1>13, <1>14, <1>15,
       LocalStep DEF SessionOK

\* What the statements below have in common: no row and no token changes.
LEMMA TableFrame ==
    ASSUME IInv, UNCHANGED <<tokens, issued>>
    PROVE  IssuedOK' /\ TypeOK
BY IssuedFrame DEF IInv

\* The id a request has drawn names no row, committed or not, of another.
LEMMA FreshRowUnlocked ==
    ASSUME IInv, NEW s \in Session, new[s] \in TokenId, tokens[new[s]] = NoRow
    PROVE  \A o \in Session \ {s} : writes[o][new[s]] = NoRow
<1> SUFFICES ASSUME NEW o \in Session \ {s}, writes[o][new[s]] # NoRow
             PROVE  FALSE
    OBVIOUS
<1>1. new[o] # new[s]
    BY ValuesAssumption DEF IInv, IdsDistinct
<1>2. SessionOK(o)
    BY DEF IInv
<1>3. new[s] = arg[o] \/ tokens[new[s]] # NoRow
    BY <1>1, <1>2 DEF SessionOK, WritesOK, Only, Writing
<1> QED
    BY <1>2, <1>3, ValuesAssumption DEF SessionOK, LocalsOK

LEMMA LoginInsertStep ==
    ASSUME IInv, NEW s \in Session, LoginInsert(s)
    PROVE  IInv'
<1>0. TypeOK /\ SessionOK(s)
    BY DEF IInv
<1>1. /\ pc[s] = "login_insert"
      /\ pc' = [pc EXCEPT ![s] = "login_commit"]
      /\ writes' = [writes EXCEPT ![s] = [@ EXCEPT ![new[s]] = row[s]]]
      /\ UNCHANGED <<clock, disabled, tokens, arg, new, row, targets, tails,
                     issued, reported>>
    BY DEF LoginInsert, Goto, Write, locals, history
<1>2. /\ new[s] \in TokenId /\ tokens[new[s]] = NoRow /\ row[s] \in Row
      /\ arg[s] = None
      /\ \A t \in TokenId : writes[s][t] = NoRow
    BY <1>0, <1>1 DEF TypeOK, SessionOK, LocalsOK, WritesOK, Only, Writing,
                      HoldingRow, HoldingId, LoggingIn
<1>3. TypeOK'
    BY <1>0, <1>1, <1>2 DEF TypeOK, Labels
<1>4. OthersSame(s)
    BY <1>0, <1>1 DEF TypeOK, OthersSame, Same
<1>5. /\ pc'[s] = "login_commit"
      /\ writes'[s][new[s]] = row[s]
      /\ \A t \in TokenId \ {new[s]} : writes'[s][t] = NoRow
    BY <1>0, <1>1, <1>2 DEF TypeOK
<1>6. LocalsOK(s)'
    BY <1>0, <1>1, <1>5 DEF SessionOK, LocalsOK, HoldingRow, HoldingId,
                            Presenting, LoggingIn
<1>7. WritesOK(s)'
    BY <1>1, <1>5 DEF WritesOK, Only, Writing
<1>8. FamilyOK(s)' /\ ResponseOK(s)'
    BY <1>0, <1>1, <1>5 DEF SessionOK, FamilyOK, ResponseOK, LoggingIn
<1>9. LocksExclusive'
    BY <1>2, <1>4, <1>5, FreshRowUnlocked, KeepsLocks DEF IInv, RowLocked
<1>10. IdsDistinct' /\ FamiliesDistinct'
    BY <1>0, <1>1, <1>4, <1>5, KeepsIds, KeepsFamilies
       DEF IInv, LoggingIn, SessionOK, LocalsOK, HoldingRow
<1> QED
    BY <1>1, <1>3, <1>4, <1>6, <1>7, <1>8, <1>9, <1>10, TableFrame, LocalStep
       DEF SessionOK

\* A request for token t of the table begins, with label as its next statement.
LEMMA PresentStep ==
    ASSUME IInv, NEW s \in Session, NEW t \in Presentable,
           NEW label \in {"refresh_user", "reuse_update", "logout_update"},
           pc[s] = "idle",
           arg' = [arg EXCEPT ![s] = t],
           pc' = [pc EXCEPT ![s] = label],
           UNCHANGED <<clock, disabled, tokens, writes, new, row, targets, tails, history>>
    PROVE  IInv'
<1>0. TypeOK /\ SessionOK(s)
    BY DEF IInv
<1>1. t \in TokenId /\ tokens[t] # NoRow
    BY <1>0 DEF IInv, IssuedOK, TypeOK, Presentable
<1>2. arg'[s] = t /\ pc'[s] = label
    BY <1>0 DEF TypeOK
<1>3. TypeOK'
    BY <1>0, <1>1 DEF TypeOK, Labels, history
<1>4. OthersSame(s)
    BY <1>0 DEF TypeOK, OthersSame, Same
<1>5. LocalsOK(s)'
    BY <1>0, <1>1, <1>2, ValuesAssumption
       DEF SessionOK, LocalsOK, HoldingRow, HoldingId, Presenting, LoggingIn
<1>6. WritesOK(s)'
    BY <1>0, <1>2 DEF SessionOK, WritesOK, Only, Writing
<1>7. FamilyOK(s)' /\ ResponseOK(s)'
    BY <1>2 DEF FamilyOK, ResponseOK, LoggingIn
<1>8. LocksExclusive' /\ IdsDistinct' /\ FamiliesDistinct'
    BY <1>2, <1>4, KeepsLocks, KeepsIds, KeepsFamilies DEF IInv, LoggingIn
<1> QED
    BY <1>3, <1>4, <1>5, <1>6, <1>7, <1>8, TableFrame, LocalStep
       DEF SessionOK, history

LEMMA RefreshGetUserStep ==
    ASSUME IInv, NEW s \in Session, RefreshGetUser(s)
    PROVE  IInv'
<1>0. TypeOK /\ SessionOK(s)
    BY DEF IInv
<1>1. UNCHANGED <<clock, disabled, tokens, issued, reported>>
    BY DEF RefreshGetUser, history
<1>2. CASE End(s)
  <2>1. TypeOK'
      BY <1>0, <1>1, <1>2, EndedSession DEF TypeOK
  <2>2. LocksExclusive' /\ IdsDistinct' /\ FamiliesDistinct'
      BY <1>0, <1>2, EndedSession, KeepsLocks, KeepsIds, KeepsFamilies
         DEF IInv, LoggingIn, NoWrites
  <2> QED
      BY <1>0, <1>1, <1>2, <2>1, <2>2, EndedSession, TableFrame, LocalStep
<1>3. CASE ~End(s)
  <2>1. PICK t \in TokenId : FreshToken(t) /\ new' = [new EXCEPT ![s] = t]
      BY <1>3 DEF RefreshGetUser
  <2>2. /\ pc[s] = "refresh_user"
        /\ pc' = [pc EXCEPT ![s] = "refresh_mark"]
        /\ UNCHANGED <<writes, arg, row, targets, tails>>
      BY <1>3 DEF RefreshGetUser, Goto
  <2>3. pc'[s] = "refresh_mark" /\ new'[s] = t
      BY <1>0, <2>1, <2>2 DEF TypeOK
  <2>4. TypeOK'
      BY <1>0, <1>1, <2>1, <2>2 DEF TypeOK, Labels
  <2>5. OthersSame(s)
      BY <1>0, <2>1, <2>2 DEF TypeOK, OthersSame, Same
  <2>6. LocalsOK(s)'
      BY <1>0, <1>1, <2>1, <2>2, <2>3, ValuesAssumption
         DEF SessionOK, LocalsOK, HoldingRow, HoldingId, Presenting, LoggingIn,
             FreshToken, Labels
  <2>7. WritesOK(s)'
      BY <1>0, <2>2, <2>3 DEF SessionOK, WritesOK, Only, Writing
  <2>8. FamilyOK(s)' /\ ResponseOK(s)'
      BY <2>3 DEF FamilyOK, ResponseOK, LoggingIn
  <2>9. LocksExclusive' /\ IdsDistinct' /\ FamiliesDistinct'
      BY <2>1, <2>2, <2>3, <2>5, KeepsLocks, KeepsIds, KeepsFamilies
         DEF IInv, LoggingIn, FreshToken
  <2> QED
      BY <1>1, <2>4, <2>5, <2>6, <2>7, <2>8, <2>9, TableFrame, LocalStep
         DEF SessionOK
<1> QED
    BY <1>2, <1>3

LEMMA MarkReplacedStep ==
    ASSUME IInv, NEW s \in Session, MarkReplaced(s)
    PROVE  IInv'
<1>0. TypeOK /\ SessionOK(s)
    BY DEF IInv
<1> DEFINE a == arg[s]
           old == tokens[arg[s]]
           q == Families!Replaced(tokens[arg[s]], new[s])
           r == NewRow(old.user, old.family)
<1>1. /\ pc[s] = "refresh_mark"
      /\ ~RowLocked(s, a)
      /\ pc' = [pc EXCEPT ![s] = "refresh_insert"]
      /\ writes' = [writes EXCEPT ![s] = [@ EXCEPT ![a] = q]]
      /\ row' = [row EXCEPT ![s] = r]
      /\ UNCHANGED <<clock, disabled, tokens, arg, new, targets, tails,
                     issued, reported>>
    BY DEF MarkReplaced, Goto, Write, history
<1>2. /\ a \in TokenId /\ old \in Row /\ new[s] \in TokenId
      /\ \A t \in TokenId : writes[s][t] = NoRow
    BY <1>0, <1>1 DEF TypeOK, SessionOK, LocalsOK, WritesOK, Only, Writing,
                      HoldingRow, HoldingId, Presenting, LoggingIn, Labels
<1>3. old.user \in User /\ old.family \in FamilyId
    BY <1>2, StoredRow
<1>4. /\ r \in Row /\ r # NoRow /\ r.user = old.user /\ r.family = old.family
      /\ r = Families!NewRow(r.user, r.family, r.expires_at)
    BY <1>0, <1>3, InsertedRow
<1>5. q \in Row
    BY <1>2, ReplacedRow
<1> HIDE DEF r, q
<1>6. /\ pc'[s] = "refresh_insert" /\ row'[s] = r
      /\ writes'[s][a] = q
      /\ \A t \in TokenId \ {a} : writes'[s][t] = NoRow
    BY <1>0, <1>1, <1>2 DEF TypeOK
<1>7. TypeOK'
    BY <1>0, <1>1, <1>2, <1>4, <1>5 DEF TypeOK, Labels
<1>8. OthersSame(s)
    BY <1>0, <1>1 DEF TypeOK, OthersSame, Same
<1>9. LocalsOK(s)'
    BY <1>0, <1>1, <1>4, <1>6
       DEF SessionOK, LocalsOK, HoldingRow, HoldingId, Presenting, LoggingIn,
           Labels
<1>10. WritesOK(s)'
    BY <1>1, <1>6 DEF WritesOK, Only, Writing, q
<1>11. FamilyOK(s)' /\ ResponseOK(s)'
    BY <1>1, <1>4, <1>6 DEF FamilyOK, ResponseOK, LoggingIn
<1>12. LocksExclusive'
    BY <1>1, <1>6, <1>8, KeepsLocks DEF IInv
<1>13. IdsDistinct'
    BY <1>1, <1>8, KeepsIds DEF IInv
<1>14. FamiliesDistinct'
  <2>1. \A o \in Session \ {s} : pc[o] \in LoggingIn => row[o].family # r.family
      BY <1>2, <1>4, StoredRow DEF IInv, SessionOK, FamilyOK
  <2> QED
      BY <1>6, <1>8, <2>1 DEF IInv, FamiliesDistinct, OthersSame, Same, LoggingIn
<1> QED
    BY <1>1, <1>7, <1>8, <1>9, <1>10, <1>11, <1>12, <1>13, <1>14,
       TableFrame, LocalStep DEF SessionOK

\* A request ends without having committed anything.
LEMMA EndStep ==
    ASSUME IInv, NEW s \in Session, End(s),
           UNCHANGED <<clock, disabled, tokens, history>>
    PROVE  IInv'
<1>0. TypeOK /\ SessionOK(s)
    BY DEF IInv
<1>1. TypeOK'
    BY <1>0, EndedSession DEF TypeOK, history
<1>2. LocksExclusive' /\ IdsDistinct' /\ FamiliesDistinct'
    BY <1>0, EndedSession, KeepsLocks, KeepsIds, KeepsFamilies
       DEF IInv, LoggingIn, NoWrites
<1> QED
    BY <1>0, <1>1, <1>2, EndedSession, TableFrame, LocalStep DEF history

LEMMA RefreshInsertStep ==
    ASSUME IInv, NEW s \in Session, RefreshInsert(s)
    PROVE  IInv'
<1>0. TypeOK /\ SessionOK(s)
    BY DEF IInv
<1>1. CASE End(s)
    BY <1>1, EndStep DEF RefreshInsert
<1>2. CASE ~End(s)
  <2>1. /\ pc[s] = "refresh_insert"
        /\ ActiveRows(s, row[s].family) = {}
        /\ pc' = [pc EXCEPT ![s] = "refresh_commit"]
        /\ writes' = [writes EXCEPT ![s] = [@ EXCEPT ![new[s]] = row[s]]]
        /\ UNCHANGED <<clock, disabled, tokens, arg, new, row, targets, tails,
                       issued, reported>>
      BY <1>2 DEF RefreshInsert, Goto, Write, locals, history
  <2>2. /\ arg[s] \in TokenId /\ tokens[arg[s]] \in Row
        /\ new[s] \in TokenId /\ tokens[new[s]] = NoRow
        /\ row[s] \in Row /\ row[s].family = tokens[arg[s]].family
        /\ arg[s] # new[s] /\ tokens[arg[s]] # NoRow
      BY <1>0, <2>1, ValuesAssumption
         DEF TypeOK, SessionOK, LocalsOK, FamilyOK, HoldingRow, HoldingId,
             Presenting, LoggingIn, Labels
  <2>3. \A t \in TokenId \ {arg[s]} : writes[s][t] = NoRow
      BY <1>0, <2>1 DEF SessionOK, WritesOK, Only
  \* The family's tail is among the rows this request has replaced itself.
  <2>4. tokens[arg[s]].replaced_by = None
    <3>1. PICK o \in TokenId :
              /\ tokens[o] # NoRow
              /\ tokens[o].replaced_by = None
              /\ tokens[o].family = tokens[arg[s]].family
        BY <2>2 DEF IInv, Families!ChainSound, Families!HasTail, Families!Rows,
                    Families!IsTail
    <3>2. writes[s][o] # NoRow
        BY <2>1, <2>2, <3>1 DEF ActiveRows
    <3>3. o = arg[s]
        BY <2>3, <3>2
    <3> QED
        BY <3>1, <3>3
  <2>5. /\ pc'[s] = "refresh_commit"
        /\ writes'[s][new[s]] = row[s]
        /\ \A t \in TokenId \ {new[s]} : writes'[s][t] = writes[s][t]
      BY <1>0, <2>1, <2>2 DEF TypeOK
  <2>6. TypeOK'
      BY <1>0, <2>1, <2>2 DEF TypeOK, Labels
  <2>7. OthersSame(s)
      BY <1>0, <2>1 DEF TypeOK, OthersSame, Same
  <2>8. LocalsOK(s)'
      BY <1>0, <2>1, <2>5 DEF SessionOK, LocalsOK, HoldingRow, HoldingId,
                              Presenting, LoggingIn, Labels
  <2>9. WritesOK(s)'
      BY <1>0, <2>1, <2>2, <2>3, <2>4, <2>5 DEF SessionOK, WritesOK, Only, Writing
  <2>10. FamilyOK(s)' /\ ResponseOK(s)'
      BY <1>0, <2>1, <2>5 DEF SessionOK, FamilyOK, ResponseOK, LoggingIn
  <2>11. LocksExclusive'
      BY <2>2, <2>5, <2>7, FreshRowUnlocked, KeepsLocks DEF IInv, RowLocked
  <2>12. IdsDistinct' /\ FamiliesDistinct'
      BY <2>1, <2>5, <2>7, KeepsIds, KeepsFamilies DEF IInv, LoggingIn
  <2> QED
      BY <2>1, <2>6, <2>7, <2>8, <2>9, <2>10, <2>11, <2>12, TableFrame,
         LocalStep DEF SessionOK
<1> QED
    BY <1>1, <1>2

LEMMA ReuseSnapshotStep ==
    ASSUME IInv, NEW s \in Session, ReuseSnapshot(s)
    PROVE  IInv'
<1>0. TypeOK /\ SessionOK(s)
    BY DEF IInv
<1> DEFINE T == {t \in ReusedFamily(s) : ~tokens[t].revoked}
           E == {t \in ReusedFamily(s) : tokens[t].replaced_by = None}
<1>1. /\ pc[s] = "reuse_update"
      /\ targets' = [targets EXCEPT ![s] = T]
      /\ tails' = [tails EXCEPT ![s] = E]
      /\ pc' = [pc EXCEPT ![s] = "reuse_apply"]
      /\ UNCHANGED <<clock, disabled, tokens, writes, arg, new, row,
                     issued, reported>>
    BY DEF ReuseSnapshot, SeeTails, Goto, history
<1>2. /\ T \subseteq TokenId /\ \A t \in T : tokens[t] # NoRow
      /\ E \subseteq TokenId
    BY DEF ReusedFamily
<1> HIDE DEF T, E
<1>3. pc'[s] = "reuse_apply" /\ targets'[s] = T
    BY <1>0, <1>1 DEF TypeOK
<1>4. TypeOK'
    BY <1>0, <1>1, <1>2 DEF TypeOK, Labels
<1>5. OthersSame(s)
    BY <1>0, <1>1 DEF TypeOK, OthersSame, Same
<1>6. LocalsOK(s)'
    BY <1>0, <1>1, <1>2, <1>3 DEF SessionOK, LocalsOK, HoldingRow, HoldingId,
                                  Presenting, LoggingIn, Labels
<1>7. WritesOK(s)' /\ FamilyOK(s)' /\ ResponseOK(s)'
    BY <1>0, <1>1, <1>3 DEF SessionOK, WritesOK, Only, Writing, FamilyOK,
                            ResponseOK, LoggingIn
<1>8. LocksExclusive' /\ IdsDistinct' /\ FamiliesDistinct'
    BY <1>1, <1>3, <1>5, KeepsLocks, KeepsIds, KeepsFamilies DEF IInv, LoggingIn
<1> QED
    BY <1>1, <1>4, <1>5, <1>6, <1>7, <1>8, TableFrame, LocalStep DEF SessionOK

\* An UPDATE by s that revokes rows of T, which no other request holds.
LEMMA RevokingStep ==
    ASSUME IInv, NEW s \in Session, NEW label \in {"reuse_commit", "logout_commit"},
           pc[s] \in {"reuse_apply", "logout_update"},
           NEW T \in SUBSET TokenId,
           \A t \in T : tokens[t] # NoRow /\ ~RowLocked(s, t),
           writes' = [writes EXCEPT ![s] =
               [t \in TokenId |-> IF t \in T THEN Families!Revoked(tokens[t])
                                             ELSE NoRow]],
           pc' = [pc EXCEPT ![s] = label],
           UNCHANGED <<clock, disabled, tokens, arg, new, row, targets, tails, history>>
    PROVE  IInv'
<1>0. TypeOK /\ SessionOK(s)
    BY DEF IInv
<1>1. \A t \in T : tokens[t] \in Row /\ Families!Revoked(tokens[t]) \in Row
    BY <1>0, RevokedRow DEF TypeOK
<1>2. pc'[s] = label /\ \A t \in TokenId :
          writes'[s][t] = IF t \in T THEN Families!Revoked(tokens[t]) ELSE NoRow
    BY <1>0 DEF TypeOK
<1>3. TypeOK'
    BY <1>0, <1>1 DEF TypeOK, Labels, history
<1>4. OthersSame(s)
    BY <1>0 DEF TypeOK, OthersSame, Same
<1>5. LocalsOK(s)'
    BY <1>0, <1>2 DEF SessionOK, LocalsOK, HoldingRow, HoldingId,
                      Presenting, LoggingIn, Labels
<1>6. WritesOK(s)'
    BY <1>2 DEF WritesOK, Only, Writing
<1>7. FamilyOK(s)' /\ ResponseOK(s)'
    BY <1>2 DEF FamilyOK, ResponseOK, LoggingIn
<1>8. LocksExclusive' /\ IdsDistinct' /\ FamiliesDistinct'
    BY <1>2, <1>4, KeepsLocks, KeepsIds, KeepsFamilies DEF IInv, LoggingIn
<1> QED
    BY <1>3, <1>4, <1>5, <1>6, <1>7, <1>8, TableFrame, LocalStep
       DEF SessionOK, history

LEMMA ReuseApplyStep ==
    ASSUME IInv, NEW s \in Session, ReuseApply(s)
    PROVE  IInv'
<1> DEFINE T == {t \in targets[s] : ~tokens[t].revoked}
<1>1. T \in SUBSET TokenId /\ \A t \in T : tokens[t] # NoRow /\ ~RowLocked(s, t)
    BY DEF IInv, TypeOK, SessionOK, LocalsOK, ReuseApply
<1>2. /\ pc[s] = "reuse_apply"
      /\ writes' = [writes EXCEPT ![s] =
            [t \in TokenId |-> IF t \in T THEN Families!Revoked(tokens[t])
                                          ELSE NoRow]]
      /\ pc' = [pc EXCEPT ![s] = "reuse_commit"]
      /\ UNCHANGED <<clock, disabled, tokens, arg, new, row, targets, tails, history>>
    BY DEF ReuseApply, Goto, locals
<1> HIDE DEF T
<1> QED
    BY <1>1, <1>2, RevokingStep

LEMMA LogoutUpdateStep ==
    ASSUME IInv, NEW s \in Session, LogoutUpdate(s)
    PROVE  IInv'
<1> DEFINE T == {arg[s]}
<1>0. TypeOK /\ SessionOK(s)
    BY DEF IInv
<1>1. /\ pc[s] = "logout_update"
      /\ ~RowLocked(s, arg[s])
      /\ writes' = [writes EXCEPT ![s] =
            [@ EXCEPT ![arg[s]] = Families!Revoked(tokens[arg[s]])]]
      /\ pc' = [pc EXCEPT ![s] = "logout_commit"]
      /\ UNCHANGED <<clock, disabled, tokens, arg, new, row, targets, tails, history>>
    BY DEF LogoutUpdate, Goto, Write, locals
<1>2. /\ arg[s] \in TokenId /\ tokens[arg[s]] # NoRow
      /\ \A t \in TokenId : writes[s][t] = NoRow
    BY <1>0, <1>1 DEF TypeOK, SessionOK, LocalsOK, WritesOK, Only, Writing,
                      Presenting, LoggingIn, Labels
<1>3. writes' = [writes EXCEPT ![s] =
            [t \in TokenId |-> IF t \in T THEN Families!Revoked(tokens[t])
                                          ELSE NoRow]]
    BY <1>0, <1>1, <1>2 DEF TypeOK
<1>4. T \in SUBSET TokenId /\ \A t \in T : tokens[t] # NoRow /\ ~RowLocked(s, t)
    BY <1>1, <1>2
<1> HIDE DEF T
<1> QED
    BY <1>1, <1>3, <1>4, RevokingStep

LEMMA RespondStep ==
    ASSUME IInv, NEW s \in Session, Respond(s)
    PROVE  IInv'
<1>0. TypeOK /\ SessionOK(s)
    BY DEF IInv
<1> DEFINE i == [id |-> new[s], from |-> arg[s]]
<1>1. /\ pc[s] = "respond"
      /\ issued' = issued \cup {i}
      /\ End(s)
      /\ UNCHANGED <<clock, disabled, tokens, reported>>
    BY DEF Respond
<1>2. /\ new[s] \in TokenId /\ arg[s] \in TokenId \cup {None}
      /\ tokens[new[s]] # NoRow
      /\ arg[s] # None => /\ tokens[arg[s]] # NoRow
                          /\ tokens[arg[s]].replaced_by = new[s]
    BY <1>0, <1>1 DEF TypeOK, SessionOK, LocalsOK, ResponseOK, HoldingId
<1>3. TypeOK'
    BY <1>0, <1>1, <1>2, EndedSession DEF TypeOK
<1>4. IssuedOK'
    BY <1>1, <1>2 DEF IInv, IssuedOK
<1>5. LocksExclusive' /\ IdsDistinct' /\ FamiliesDistinct'
    BY <1>0, <1>1, EndedSession, KeepsLocks, KeepsIds, KeepsFamilies
       DEF IInv, LoggingIn, NoWrites
<1> QED
    BY <1>0, <1>1, <1>3, <1>4, <1>5, EndedSession, LocalStep

-----------------------------------------------------------------------------
(* Commits.                                                                *)

LEMMA CommitEffect ==
    ASSUME TypeOK, NEW s \in Session, Commit(s)
    PROVE  /\ tokens' \in [TokenId -> Row \cup {NoRow}]
           /\ \A t \in TokenId : tokens'[t] =
                 IF writes[s][t] # NoRow THEN writes[s][t] ELSE tokens[t]
BY DEF TypeOK, Commit, AfterCommit

\* The commit of another request leaves a request as consistent as it was:
\* it holds none of its rows, and inserts none into the family of its login.
LEMMA CommitFrame ==
    ASSUME IInv, NEW s \in Session, Commit(s),
           NEW o \in Session \ {s}, Same(o),
           Families!HistoryKept \/ tokens' = tokens,
           \A t \in TokenId : (tokens[t] = NoRow /\ tokens'[t] # NoRow) =>
               t = new[s] /\ row[s] # NoRow /\ tokens'[t] = row[s]
    PROVE  SessionOK(o)'
<1>0. TypeOK /\ SessionOK(o)
    BY DEF IInv
<1>1. \A t \in TokenId : tokens[t] # NoRow =>
          /\ tokens'[t] # NoRow
          /\ tokens'[t].user = tokens[t].user
          /\ tokens'[t].family = tokens[t].family
          /\ tokens[t].replaced_by # None
                => tokens'[t].replaced_by = tokens[t].replaced_by
    BY DEF Families!HistoryKept, Families!Rows
<1>2. \A t \in TokenId : writes[o][t] # NoRow => tokens'[t] = tokens[t]
    BY <1>0, CommitEffect DEF IInv, LocksExclusive
<1>3. new[o] # None => (tokens'[new[o]] = NoRow <=> tokens[new[o]] = NoRow)
    BY <1>0, <1>1 DEF IInv, IdsDistinct, TypeOK
<1> USE DEF Same
<1>4. LocalsOK(o)'
    BY <1>0, <1>1, <1>3 DEF SessionOK, LocalsOK, TypeOK
<1>5. arg[o] # None => arg[o] \in TokenId /\ tokens[arg[o]] \in Row
    BY <1>0 DEF SessionOK, LocalsOK, TypeOK
<1>6. pc[o] \in {"refresh_insert", "refresh_commit"} =>
          /\ arg[o] \in TokenId /\ tokens[arg[o]] # NoRow
          /\ tokens'[arg[o]] = tokens[arg[o]]
  <2> SUFFICES ASSUME pc[o] \in {"refresh_insert", "refresh_commit"}
               PROVE  /\ arg[o] \in TokenId /\ tokens[arg[o]] # NoRow
                      /\ tokens'[arg[o]] = tokens[arg[o]]
      OBVIOUS
  <2>1. /\ arg[o] \in TokenId /\ tokens[arg[o]] \in Row
        /\ tokens[arg[o]] # NoRow /\ new[o] \in TokenId
      BY <1>0, <1>5 DEF SessionOK, LocalsOK, TypeOK, Presenting, HoldingId,
                        HoldingRow, LoggingIn, Labels
  <2>2. writes[o][arg[o]] # NoRow
      BY <1>0, <2>1, ReplacedRow DEF SessionOK, WritesOK
  <2> QED
      BY <1>2, <2>1, <2>2
<1>7. WritesOK(o)'
    BY <1>0, <1>1, <1>2, <1>6 DEF SessionOK, WritesOK, Only
<1>8. FamilyOK(o)'
  <2>1. pc[o] \in LoggingIn =>
            \A t \in TokenId : tokens'[t] # NoRow => tokens'[t].family # row[o].family
      BY <1>0, <1>1 DEF SessionOK, FamilyOK, IInv, FamiliesDistinct
  <2> QED
      BY <1>0, <1>6, <2>1 DEF SessionOK, FamilyOK
<1>9. ResponseOK(o)'
  <2> SUFFICES ASSUME pc[o] = "respond", arg[o] # None
               PROVE  tokens'[arg[o]].replaced_by = new[o]
      BY DEF ResponseOK
  <2>1. arg[o] \in TokenId /\ tokens[arg[o]] # NoRow /\ new[o] # None
        /\ tokens[arg[o]].replaced_by = new[o]
      BY <1>0, <1>5 DEF SessionOK, LocalsOK, ResponseOK, HoldingId
  <2> QED
      BY <1>1, <2>1
<1> QED
    BY <1>4, <1>7, <1>8, <1>9 DEF SessionOK

\* A commit of s that is a step of the abstract table.
LEMMA CommitStep ==
    ASSUME IInv, NEW s \in Session, Commit(s), OthersSame(s), [Families!Next]_tokens,
           \A t \in TokenId : (tokens[t] = NoRow /\ tokens'[t] # NoRow) =>
               t = new[s] /\ row[s] # NoRow /\ tokens'[t] = row[s],
           writes'[s] = NoWrites, row'[s] = NoRow, new'[s] \in {new[s], None},
           pc'[s] \notin LoggingIn,
           issued' = issued, TypeOK', SessionOK(s)'
    PROVE  IInv'
<1>1. Families!ChainSound' /\ (Families!HistoryKept \/ tokens' = tokens)
    BY AbstractStep, TypeIsAbstract DEF IInv
<1>2. \A o \in Session \ {s} : SessionOK(o)'
    BY <1>1, CommitFrame DEF OthersSame
<1>3. LocksExclusive' /\ IdsDistinct' /\ FamiliesDistinct'
    BY KeepsLocks, KeepsIds, KeepsFamilies DEF IInv, NoWrites
<1>4. IssuedOK'
  <2> SUFFICES ASSUME NEW i \in issued
               PROVE  /\ tokens'[i.id] # NoRow
                      /\ i.from # None => /\ tokens'[i.from] # NoRow
                                          /\ tokens'[i.from].replaced_by = i.id
      BY DEF IssuedOK
  <2>1. /\ i.id \in TokenId /\ i.id # None /\ tokens[i.id] # NoRow
        /\ i.from \in TokenId \cup {None}
        /\ i.from # None => /\ tokens[i.from] # NoRow
                            /\ tokens[i.from].replaced_by = i.id
      BY ValuesAssumption DEF IInv, TypeOK, IssuedOK
  <2> QED
      BY <1>1, <2>1 DEF Families!HistoryKept, Families!Rows
<1> QED
    BY <1>1, <1>2, <1>3, <1>4 DEF IInv

\* What a request that has committed a new row keeps of its state.
LEMMA CommittedSession ==
    ASSUME TypeOK, NEW s \in Session, Committed(s)
    PROVE  /\ OthersSame(s)
           /\ pc'[s] = "respond" /\ row'[s] = NoRow /\ writes'[s] = NoWrites
           /\ arg' = arg /\ new' = new /\ targets' = targets /\ tails' = tails
           /\ pc' \in [Session -> Labels]
           /\ row' \in [Session -> Row \cup {NoRow}]
           /\ writes' \in [Session -> [TokenId -> Row \cup {NoRow}]]
<1>1. /\ writes' = [writes EXCEPT ![s] = NoWrites]
      /\ row' = [row EXCEPT ![s] = NoRow]
      /\ pc' = [pc EXCEPT ![s] = "respond"]
      /\ UNCHANGED <<arg, new, targets, tails>>
    BY DEF Committed, Goto
<1>2. NoWrites \in [TokenId -> Row \cup {NoRow}]
    BY DEF NoWrites
<1> QED
    BY <1>1, <1>2 DEF TypeOK, OthersSame, Same, Labels

LEMMA LoginCommitStep ==
    ASSUME IInv, NEW s \in Session, LoginCommit(s)
    PROVE  IInv' /\ Families!Next
<1>0. TypeOK /\ SessionOK(s)
    BY DEF IInv
<1>1. /\ pc[s] = "login_commit" /\ Commit(s) /\ Committed(s)
      /\ UNCHANGED <<clock, disabled, issued, reported>>
    BY DEF LoginCommit, history
<1> DEFINE n == new[s]
           r == row[s]
<1>2. /\ n \in TokenId /\ tokens[n] = NoRow /\ r \in Row /\ r # NoRow
      /\ r = Families!NewRow(r.user, r.family, r.expires_at)
      /\ writes[s][n] = r
      /\ \A t \in TokenId \ {n} : writes[s][t] = NoRow
      /\ \A t \in TokenId : tokens[t] # NoRow => tokens[t].family # r.family
      /\ arg[s] = None
    BY <1>0, <1>1 DEF TypeOK, SessionOK, LocalsOK, WritesOK, FamilyOK, Only,
                      HoldingRow, HoldingId, LoggingIn
<1>3. /\ r.user \in User /\ r.family \in FamilyId
      /\ r.expires_at \in 0..(MaxClock + RefreshTtl)
    BY <1>2 DEF Row, Families!Row
<1>4. tokens' = [tokens EXCEPT ![n] = r]
    BY <1>0, <1>1, <1>2, CommitEffect DEF TypeOK
<1>5. tokens'[n] = r /\ \A t \in TokenId \ {n} : tokens'[t] = tokens[t]
    BY <1>0, <1>2, <1>4 DEF TypeOK
<1>6. Families!Grant(r.user, n)
    BY <1>2, <1>3, <1>4 DEF Families!Grant, Families!Rows, Families!Family
<1>7. Families!Next
    BY <1>2, <1>3, <1>6 DEF Families!Next
<1>8. TypeOK'
    BY <1>0, <1>1, CommittedSession, CommitEffect DEF TypeOK
<1>9. LocalsOK(s)'
    BY <1>0, <1>1, <1>2, <1>5, CommittedSession
       DEF SessionOK, LocalsOK, HoldingRow, HoldingId, Presenting, LoggingIn,
           TypeOK
<1>10. WritesOK(s)' /\ FamilyOK(s)' /\ ResponseOK(s)'
    BY <1>0, <1>1, <1>2, CommittedSession
       DEF WritesOK, Only, Writing, NoWrites, FamilyOK, ResponseOK, LoggingIn
<1> QED
    BY <1>0, <1>1, <1>2, <1>5, <1>7, <1>8, <1>9, <1>10, CommittedSession,
       CommitStep DEF SessionOK, LoggingIn

LEMMA RefreshCommitStep ==
    ASSUME IInv, NEW s \in Session, RefreshCommit(s)
    PROVE  IInv' /\ Families!Next
<1>0. TypeOK /\ SessionOK(s)
    BY DEF IInv
<1>1. /\ pc[s] = "refresh_commit" /\ Commit(s) /\ Committed(s)
      /\ UNCHANGED <<clock, disabled, issued, reported>>
    BY DEF RefreshCommit, history
<1> DEFINE a == arg[s]
           n == new[s]
           r == row[s]
           q == Families!Replaced(tokens[arg[s]], new[s])
<1>2. /\ a \in TokenId /\ tokens[a] \in Row /\ tokens[a] # NoRow
      /\ n \in TokenId /\ tokens[n] = NoRow /\ a # n
      /\ r \in Row /\ r # NoRow
      /\ r = Families!NewRow(r.user, r.family, r.expires_at)
    BY <1>0, <1>1 DEF TypeOK, SessionOK, LocalsOK, HoldingRow, HoldingId,
                      Presenting, LoggingIn, Labels
<1>3. /\ writes[s][n] = r /\ writes[s][a] = q
      /\ \A t \in TokenId \ {a, n} : writes[s][t] = NoRow
      /\ tokens[a].replaced_by = None
      /\ r.family = tokens[a].family /\ r.user = tokens[a].user
    BY <1>0, <1>1 DEF SessionOK, WritesOK, FamilyOK, Only
<1>4. q # NoRow /\ q.replaced_by = n
    BY <1>2, ReplacedRow
<1>5. r.expires_at \in 0..(MaxClock + RefreshTtl)
    BY <1>2 DEF Row, Families!Row
<1>6. /\ tokens'[a] = q /\ tokens'[n] = r
      /\ \A t \in TokenId \ {a, n} : tokens'[t] = tokens[t]
    BY <1>0, <1>1, <1>2, <1>3, <1>4, CommitEffect
<1>7. tokens' = [tokens EXCEPT ![a] = q, ![n] = r]
  <2>1. tokens' \in [TokenId -> Row \cup {NoRow}]
      BY <1>0, <1>1, CommitEffect
  <2> HIDE DEF q, r, a, n
  <2> QED
      BY <1>0, <1>2, <1>6, <2>1 DEF TypeOK
<1>8. Families!Rotate(a, n)
    BY <1>2, <1>3, <1>5, <1>7 DEF Families!Rotate, Families!IsTail, Families!Rows
<1>9. Families!Next
    BY <1>2, <1>8 DEF Families!Next
<1>10. TypeOK'
    BY <1>0, <1>1, CommittedSession, CommitEffect DEF TypeOK
<1>11. LocalsOK(s)'
  <2>1. \A t \in TokenId : tokens[t] # NoRow => tokens'[t] # NoRow
      BY <1>2, <1>4, <1>6
  <2> QED
      BY <1>0, <1>1, <1>2, <1>4, <1>6, <2>1, CommittedSession
         DEF SessionOK, LocalsOK, HoldingRow, HoldingId, Presenting, LoggingIn,
             TypeOK
<1>12. WritesOK(s)' /\ FamilyOK(s)' /\ ResponseOK(s)'
    BY <1>0, <1>1, <1>4, <1>6, CommittedSession
       DEF WritesOK, Only, Writing, NoWrites, FamilyOK, ResponseOK, LoggingIn
<1>13. \A t \in TokenId : (tokens[t] = NoRow /\ tokens'[t] # NoRow) =>
               t = n /\ r # NoRow /\ tokens'[t] = r
    BY <1>2, <1>6
<1> QED
    BY <1>0, <1>1, <1>9, <1>10, <1>11, <1>12, <1>13, CommittedSession,
       CommitStep DEF SessionOK, LoggingIn

\* Logout and reuse detection: the committed rows are revoked ones.
LEMMA RevokingCommitStep ==
    ASSUME IInv, NEW s \in Session, pc[s] \in {"reuse_commit", "logout_commit"},
           Commit(s), End(s), issued' = issued,
           UNCHANGED <<clock, disabled>>,
           reported' \subseteq FamilyId
    PROVE  IInv' /\ Families!Next
<1>0. TypeOK /\ SessionOK(s)
    BY DEF IInv
<1> DEFINE T == {t \in TokenId : writes[s][t] # NoRow}
<1>1. \A t \in T : tokens[t] # NoRow /\ writes[s][t] = Families!Revoked(tokens[t])
    BY <1>0 DEF SessionOK, WritesOK
<1>2. T \in SUBSET Families!Rows
    BY <1>1 DEF Families!Rows
<1>3. Families!Revoke(T)
    BY <1>1 DEF Families!Revoke, Commit, AfterCommit
<1>4. Families!Next
    BY <1>2, <1>3 DEF Families!Next
<1>5. TypeOK'
    BY <1>0, EndedSession, CommitEffect DEF TypeOK
<1>6. \A t \in TokenId : ~(tokens[t] = NoRow /\ tokens'[t] # NoRow)
    BY <1>0, <1>1, CommitEffect
<1> QED
    BY <1>0, <1>4, <1>5, <1>6, EndedSession, CommitStep DEF LoggingIn

LEMMA ReuseCommitStep ==
    ASSUME IInv, NEW s \in Session, ReuseCommit(s)
    PROVE  IInv' /\ Families!Next
<1>1. tokens[arg[s]].family \in FamilyId
  <2>1. TypeOK /\ SessionOK(s) /\ pc[s] = "reuse_commit"
      BY DEF IInv, ReuseCommit
  <2>2. tokens[arg[s]] \in Row
      BY <2>1 DEF TypeOK, SessionOK, LocalsOK, Presenting, LoggingIn, Labels
  <2> QED
      BY <2>2, StoredRow
<1>2. reported' \subseteq FamilyId
    BY <1>1 DEF IInv, TypeOK, ReuseCommit
<1> QED
    BY <1>2, RevokingCommitStep DEF ReuseCommit

LEMMA LogoutCommitStep ==
    ASSUME IInv, NEW s \in Session, LogoutCommit(s)
    PROVE  IInv' /\ Families!Next
<1>1. reported' \subseteq FamilyId
    BY DEF IInv, TypeOK, LogoutCommit, history
<1> QED
    BY <1>1, RevokingCommitStep DEF LogoutCommit, history

-----------------------------------------------------------------------------
(* The theorems.                                                           *)

LEMMA InvariantInit == Init => IInv /\ Families!Init
<1> SUFFICES ASSUME Init PROVE IInv /\ Families!Init
    OBVIOUS
<1>1. Families!Init
    BY DEF Init, Families!Init, NoWrites
<1>2. TypeOK
    BY ClockAssumption DEF Init, TypeOK, NoWrites, Labels
<1>3. \A s \in Session : SessionOK(s)
    BY DEF Init, SessionOK, LocalsOK, WritesOK, Only, FamilyOK, ResponseOK,
           NoWrites, HoldingRow, HoldingId, Writing, Presenting, LoggingIn
<1>4. LocksExclusive /\ IdsDistinct /\ FamiliesDistinct /\ IssuedOK
    BY DEF Init, LocksExclusive, IdsDistinct, FamiliesDistinct, IssuedOK,
           NoWrites, LoggingIn
<1> QED
    BY <1>1, <1>2, <1>3, <1>4, AbstractInit DEF IInv

\* Beginning a request changes no committed row.
LEMMA BeginStep ==
    ASSUME IInv, NEW s \in Session, Begin(s)
    PROVE  IInv' /\ tokens' = tokens
<1>1. ASSUME NEW u \in User, LoginGetUser(s, u)
      PROVE  IInv' /\ tokens' = tokens
    BY <1>1, LoginGetUserStep DEF LoginGetUser
<1>2. ASSUME NEW t \in Presentable, RefreshAccept(s, t)
      PROVE  IInv' /\ tokens' = tokens
    BY <1>2, PresentStep DEF RefreshAccept, Goto
<1>3. ASSUME NEW t \in Presentable, RefreshDetectsReuse(s, t)
      PROVE  IInv' /\ tokens' = tokens
    BY <1>3, PresentStep DEF RefreshDetectsReuse, Goto
<1>4. ASSUME NEW t \in Presentable, LogoutVerify(s, t)
      PROVE  IInv' /\ tokens' = tokens
    BY <1>4, PresentStep DEF LogoutVerify, Goto
<1>5. CASE Reject(s)
  <2>1. UNCHANGED vars
      BY <1>5 DEF Reject
  <2> QED
      BY <2>1, Unchanged
<1> QED
    BY <1>1, <1>2, <1>3, <1>4, <1>5 DEF Begin

\* A statement of a request keeps the invariant, and is a step of the
\* abstract table or none.
LEMMA StatementStep ==
    ASSUME IInv, NEW s \in Session, Step(s)
    PROVE  IInv' /\ [Families!Next]_tokens
<1>1. CASE LoginInsert(s)
    BY <1>1, LoginInsertStep DEF LoginInsert
<1>2. CASE LoginCommit(s)
    BY <1>2, LoginCommitStep
<1>3. CASE RefreshGetUser(s)
    BY <1>3, RefreshGetUserStep DEF RefreshGetUser
<1>4. CASE MarkReplaced(s)
    BY <1>4, MarkReplacedStep DEF MarkReplaced
<1>5. CASE RefreshInsert(s)
    BY <1>5, RefreshInsertStep DEF RefreshInsert
<1>6. CASE RefreshCommit(s)
    BY <1>6, RefreshCommitStep
<1>7. CASE ReuseSnapshot(s)
    BY <1>7, ReuseSnapshotStep DEF ReuseSnapshot
<1>8. CASE ReuseApply(s)
    BY <1>8, ReuseApplyStep DEF ReuseApply
<1>9. CASE ReuseCommit(s)
    BY <1>9, ReuseCommitStep
<1>10. CASE LogoutUpdate(s)
    BY <1>10, LogoutUpdateStep DEF LogoutUpdate
<1>11. CASE LogoutCommit(s)
    BY <1>11, LogoutCommitStep
<1>12. CASE Respond(s)
    BY <1>12, RespondStep DEF Respond
<1> QED
    BY <1>1, <1>2, <1>3, <1>4, <1>5, <1>6, <1>7, <1>8, <1>9, <1>10, <1>11,
       <1>12 DEF Step

LEMMA InvariantStep == IInv /\ [Next]_vars => IInv' /\ [Families!Next]_tokens
<1> SUFFICES ASSUME IInv, [Next]_vars PROVE IInv' /\ [Families!Next]_tokens
    OBVIOUS
<1>1. CASE Tick \/ \E u \in User : DisableUser(u)
    BY <1>1, EnvironmentStep DEF Tick, DisableUser
<1>2. ASSUME NEW s \in Session, Begin(s)
      PROVE  IInv' /\ [Families!Next]_tokens
    BY <1>2, BeginStep
<1>3. ASSUME NEW s \in Session, Step(s)
      PROVE  IInv' /\ [Families!Next]_tokens
    BY <1>3, StatementStep
<1>4. ASSUME NEW s \in Session, Abort(s)
      PROVE  IInv' /\ [Families!Next]_tokens
    BY <1>4, EndStep DEF Abort
<1>5. CASE UNCHANGED vars
    BY <1>5, Unchanged DEF vars
<1> QED
    BY <1>1, <1>2, <1>3, <1>4, <1>5 DEF Next

\* The invariant holds in every reachable state.
THEOREM InvariantHolds == Spec => []IInv
BY InvariantInit, InvariantStep, PTL DEF Spec

\* Every variable keeps its type, for any number of requests, users, tokens
\* and families.
THEOREM ServiceTyped == Spec => []TypeOK
<1>1. IInv => TypeOK
    BY DEF IInv
<1> QED
    BY <1>1, InvariantHolds, PTL

\* The committed refresh_tokens table only moves by whole logins, whole
\* rotations of a tail, and revocations: no interleaving of statements and no
\* failure between two of them shows.
THEOREM ServiceRefinesFamilies == Spec => RefinesFamilies
<1>1. Spec => Families!Init
    BY InvariantInit DEF Spec
<1>2. Spec => [][Families!Next]_tokens
    BY InvariantHolds, InvariantStep, PTL DEF Spec
<1> QED
    BY <1>1, <1>2 DEF RefinesFamilies, Families!Spec

LEMMA IssuedOnce == IInv => SingleUse
<1> SUFFICES ASSUME IInv, NEW a \in issued, NEW b \in issued,
                    a.from = b.from, a.from # None
             PROVE  a = b
    BY DEF SingleUse
<1>1. a.id = b.id
    BY DEF IInv, IssuedOK
<1>2. /\ a \in [id : TokenId, from : TokenId \cup {None}]
      /\ b \in [id : TokenId, from : TokenId \cup {None}]
    BY DEF IInv, TypeOK
<1> QED
    BY <1>1, <1>2

\* No two requests, concurrent or one after the other, are answered with
\* tokens for the same refresh token.
THEOREM TokensAreSingleUse == Spec => []SingleUse
BY InvariantHolds, IssuedOnce, PTL

\* Through the refinement, the chain invariant of the abstract table holds of
\* the service: families never fork, end in a tail, and run in no circle.
THEOREM ServiceKeepsChains == Spec => []FamiliesAreChains
<1>1. IInv => FamiliesAreChains
    BY DEF IInv, FamiliesAreChains
<1> QED
    BY <1>1, InvariantHolds, PTL

\* No request, however it interleaves with others or fails, commits a change
\* that takes back a revocation or a replacement, or moves or removes a row.
THEOREM ServiceKeepsHistory == Spec => HistoryIsFinal
<1>1. IInv /\ [Next]_vars => [Families!HistoryKept]_tokens
    BY InvariantStep, TypeIsAbstract, AbstractStep DEF IInv
<1> QED
    BY <1>1, InvariantHolds, PTL DEF Spec, HistoryIsFinal

-----------------------------------------------------------------------------
(* The index.                                                              *)

LEMMA IndexFits == IInv => RotationFitsIndex
<1> SUFFICES ASSUME IInv, NEW s \in Session, pc[s] = "refresh_insert"
             PROVE  ActiveRows(s, row[s].family) = {}
                        <=> tokens[arg[s]].replaced_by = None
    BY DEF RotationFitsIndex
<1>1. TypeOK /\ SessionOK(s)
    BY DEF IInv
<1>2. /\ arg[s] \in TokenId /\ tokens[arg[s]] # NoRow /\ tokens[arg[s]] \in Row
      /\ new[s] \in TokenId
      /\ row[s].family = tokens[arg[s]].family
    BY <1>1 DEF TypeOK, SessionOK, LocalsOK, FamilyOK, Presenting, HoldingRow,
                HoldingId, LoggingIn, Labels
\* The only row s has taken out of the index is the one it rotates.
<1>3. \A t \in TokenId : writes[s][t] = NoRow <=> t # arg[s]
    BY <1>1, <1>2, ReplacedRow DEF SessionOK, WritesOK, Only
<1>4. \A t, o \in TokenId :
          (/\ tokens[t] # NoRow /\ tokens[t].replaced_by = None
           /\ tokens[o] # NoRow /\ tokens[o].replaced_by = None
           /\ tokens[t].family = tokens[o].family) => t = o
    BY DEF IInv, Families!ChainSound, Families!OneTail, Families!IsTail,
           Families!Rows
<1>5. \E o \in TokenId : /\ tokens[o] # NoRow /\ tokens[o].replaced_by = None
                         /\ tokens[o].family = tokens[arg[s]].family
    BY <1>2 DEF IInv, Families!ChainSound, Families!HasTail, Families!IsTail,
                Families!Rows
<1> QED
    BY <1>2, <1>3, <1>4, <1>5 DEF ActiveRows

\* Among any number of concurrent requests, the unique index lets exactly
\* those rotations insert whose token no other request has rotated.
THEOREM IndexDecidesRaces == Spec => []RotationFitsIndex
BY InvariantHolds, IndexFits, PTL

-----------------------------------------------------------------------------
(* Waiting.                                                                *)

LEMMA TailIsUnique ==
    ASSUME IInv, NEW t \in TokenId, NEW o \in TokenId,
           tokens[t] # NoRow, tokens[t].replaced_by = None,
           tokens[o] # NoRow, tokens[o].replaced_by = None,
           tokens[t].family = tokens[o].family
    PROVE  t = o
BY DEF IInv, Families!ChainSound, Families!OneTail, Families!IsTail,
       Families!Rows

\* Of the transactions that hold rows, only a rotation about to insert waits.
LEMMA WaitingHolder ==
    ASSUME IInv, NEW o \in Session, NEW p \in Session, WaitsFor(o, p),
           NEW t \in TokenId, writes[o][t] # NoRow
    PROVE  pc[o] = "refresh_insert"
<1>1. pc[o] \in Writing
    BY DEF IInv, SessionOK, WritesOK, Only
<1> QED
    BY <1>1 DEF WaitsFor, Writing

\* What a rotation about to insert knows of the rows.
LEMMA InsertingRotation ==
    ASSUME IInv, NEW s \in Session, pc[s] = "refresh_insert"
    PROVE  /\ arg[s] \in TokenId /\ tokens[arg[s]] # NoRow
           /\ row[s].family = tokens[arg[s]].family
           /\ writes[s][arg[s]] # NoRow
           /\ writes[s][arg[s]].replaced_by # None
           /\ \A t \in TokenId : writes[s][t] # NoRow => t = arg[s]
<1>1. TypeOK /\ SessionOK(s)
    BY DEF IInv
<1>2. /\ arg[s] \in TokenId /\ tokens[arg[s]] # NoRow
      /\ tokens[arg[s]] \in Row /\ new[s] \in TokenId
      /\ row[s].family = tokens[arg[s]].family
    BY <1>1 DEF TypeOK, SessionOK, LocalsOK, FamilyOK, Presenting, HoldingRow,
                HoldingId, LoggingIn, Labels
<1>3. writes[s][arg[s]] = Families!Replaced(tokens[arg[s]], new[s])
    BY <1>1 DEF SessionOK, WritesOK
<1>4. new[s] # None
    BY <1>2, ValuesAssumption
<1>5. writes[s][arg[s]] # NoRow /\ writes[s][arg[s]].replaced_by # None
    BY <1>2, <1>3, <1>4, ReplacedRow
<1>6. \A t \in TokenId : writes[s][t] # NoRow => t = arg[s]
    BY <1>1 DEF SessionOK, WritesOK, Only
<1> QED
    BY <1>2, <1>5, <1>6

\* A row that p is about to make the active one of a family in which somebody
\* else is rotating the tail: there is none.
LEMMA NoOtherActive ==
    ASSUME IInv, NEW o \in Session, NEW p \in Session \ {o}, NEW t \in TokenId,
           pc[o] = "refresh_insert", tokens[arg[o]].replaced_by = None,
           writes[p][t] # NoRow, writes[p][t].replaced_by = None,
           writes[p][t].family = tokens[arg[o]].family
    PROVE  FALSE
<1>1. /\ arg[o] \in TokenId /\ tokens[arg[o]] # NoRow
      /\ writes[o][arg[o]] # NoRow
    BY InsertingRotation
<1>2. TypeOK /\ SessionOK(p) /\ pc[p] \in Writing
    BY DEF IInv, SessionOK, WritesOK, Only
\* p has not written the tail, for o has.
<1>3. writes[p][arg[o]] = NoRow
    BY <1>1 DEF IInv, LocksExclusive
<1>4. CASE pc[p] = "login_commit"
  <2>1. t = new[p] /\ writes[p][t] = row[p]
      BY <1>2, <1>4 DEF SessionOK, WritesOK, Only
  <2> QED
      BY <1>1, <1>2, <1>4, <2>1 DEF SessionOK, FamilyOK, LoggingIn
<1>5. CASE pc[p] = "refresh_insert"
    BY <1>5, InsertingRotation
<1>6. CASE pc[p] = "refresh_commit"
  <2>1. /\ arg[p] \in TokenId /\ tokens[arg[p]] # NoRow
        /\ tokens[arg[p]] \in Row /\ new[p] \in TokenId /\ new[p] # None
        /\ row[p].family = tokens[arg[p]].family
      BY <1>2, <1>6, ValuesAssumption
         DEF TypeOK, SessionOK, LocalsOK, FamilyOK, Presenting, HoldingRow,
             HoldingId, LoggingIn, Labels
  <2>2. /\ writes[p][arg[p]] = Families!Replaced(tokens[arg[p]], new[p])
        /\ writes[p][new[p]] = row[p]
        /\ tokens[arg[p]].replaced_by = None
        /\ t \in {arg[p], new[p]}
      BY <1>2, <1>6 DEF SessionOK, WritesOK, Only
  <2>3. writes[p][arg[p]] # NoRow /\ writes[p][arg[p]].replaced_by # None
      BY <2>1, <2>2, ReplacedRow
  <2>4. t = new[p] /\ tokens[arg[p]].family = tokens[arg[o]].family
      BY <2>1, <2>2, <2>3
  <2>5. arg[p] = arg[o]
      BY <1>1, <2>1, <2>2, <2>4, TailIsUnique
  <2> QED
      BY <1>3, <2>3, <2>5
<1>7. CASE pc[p] \in {"reuse_commit", "logout_commit"}
  <2>1. tokens[t] # NoRow /\ writes[p][t] = Families!Revoked(tokens[t])
      BY <1>2, <1>7 DEF SessionOK, WritesOK
  <2>2. tokens[t] \in Row
      BY <1>2, <2>1 DEF TypeOK
  <2>3. /\ tokens[t].replaced_by = None
        /\ tokens[t].family = tokens[arg[o]].family
      BY <2>1, <2>2, RevokedRow
  <2>4. t = arg[o]
      BY <1>1, <2>1, <2>3, TailIsUnique
  <2> QED
      BY <1>3, <2>4
<1> QED
    BY <1>2, <1>4, <1>5, <1>6, <1>7 DEF Writing

\* The rotation of a tail waits for nobody.
LEMMA TailRunsThrough ==
    ASSUME IInv, NEW o \in Session, NEW p \in Session,
           pc[o] = "refresh_insert", tokens[arg[o]].replaced_by = None
    PROVE  ~WaitsFor(o, p)
<1> SUFFICES ASSUME WaitsFor(o, p) PROVE FALSE
    OBVIOUS
<1>1. /\ arg[o] \in TokenId /\ tokens[arg[o]] # NoRow
      /\ row[o].family = tokens[arg[o]].family
      /\ writes[o][arg[o]] # NoRow
    BY InsertingRotation
<1>2. PICK t \in TokenId :
         /\ writes[p][t] # NoRow
         /\ \/ t \in ActiveRows(o, row[o].family)
            \/ /\ writes[p][t].family = row[o].family
               /\ writes[p][t].replaced_by = None
    BY DEF WaitsFor, EntryHeld
<1>3. p \in Session \ {o}
    BY DEF WaitsFor
<1>4. CASE t \in ActiveRows(o, row[o].family)
  <2>1. /\ tokens[t] # NoRow /\ tokens[t].replaced_by = None
        /\ tokens[t].family = tokens[arg[o]].family
        /\ writes[o][t] = NoRow
      BY <1>1, <1>4 DEF ActiveRows
  <2>2. t = arg[o]
      BY <1>1, <2>1, TailIsUnique
  <2> QED
      BY <1>1, <2>1, <2>2
<1>5. CASE t \notin ActiveRows(o, row[o].family)
    BY <1>1, <1>2, <1>3, <1>5, NoOtherActive
<1> QED
    BY <1>4, <1>5

\* If one rotation about to insert waits for another, that one is rotating
\* the tail.
LEMMA InsertWaitsForTail ==
    ASSUME IInv, NEW s \in Session, NEW o \in Session, WaitsFor(s, o),
           pc[s] = "refresh_insert", pc[o] = "refresh_insert"
    PROVE  tokens[arg[o]].replaced_by = None
<1>1. PICK t \in TokenId :
         /\ writes[o][t] # NoRow
         /\ \/ t \in ActiveRows(s, row[s].family)
            \/ writes[o][t].replaced_by = None
    BY DEF WaitsFor, EntryHeld
<1>2. t = arg[o] /\ writes[o][t].replaced_by # None
    BY <1>1, InsertingRotation
<1> QED
    BY <1>1, <1>2 DEF ActiveRows

\* Whoever is waited for and waits is a rotation about to insert, and if that
\* waits for another of its kind, the chain of waits ends there.
LEMMA WaitsEnd ==
    ASSUME IInv, NEW s \in Session, NEW o \in Session, NEW p \in Session,
           NEW q \in Session,
           WaitsFor(s, o), WaitsFor(o, p), WaitsFor(p, q)
    PROVE  FALSE
<1>1. \E t \in TokenId : writes[o][t] # NoRow
  <2>1. pc[s] \in {"refresh_mark", "logout_update"} => arg[s] \in TokenId
      BY DEF IInv, TypeOK, SessionOK, LocalsOK, Presenting, Labels, LoggingIn
  <2>2. targets[s] \subseteq TokenId
      BY DEF IInv, TypeOK
  <2> QED
      BY <2>1, <2>2 DEF WaitsFor, EntryHeld
<1>2. \E t \in TokenId : writes[p][t] # NoRow
  <2>1. pc[o] \in {"refresh_mark", "logout_update"} => arg[o] \in TokenId
      BY DEF IInv, TypeOK, SessionOK, LocalsOK, Presenting, Labels, LoggingIn
  <2>2. targets[o] \subseteq TokenId
      BY DEF IInv, TypeOK
  <2> QED
      BY <2>1, <2>2 DEF WaitsFor, EntryHeld
<1>3. pc[o] = "refresh_insert" /\ pc[p] = "refresh_insert"
    BY <1>1, <1>2, WaitingHolder
<1>4. tokens[arg[p]].replaced_by = None
    BY <1>3, InsertWaitsForTail
<1> QED
    BY <1>3, <1>4, TailRunsThrough

LEMMA NobodyWaitsInACircle ==
    ASSUME IInv, NEW S \in SUBSET Session, S # {}
    PROVE  \E s \in S : \A o \in S : ~WaitsFor(s, o)
<1> SUFFICES ASSUME \A s \in S : \E o \in S : WaitsFor(s, o) PROVE FALSE
    OBVIOUS
<1>1. PICK s \in S, o \in S, p \in S, q \in S :
         WaitsFor(s, o) /\ WaitsFor(o, p) /\ WaitsFor(p, q)
    OBVIOUS
<1>2. s \in Session /\ o \in Session /\ p \in Session /\ q \in Session
    OBVIOUS
<1> QED
    BY <1>1, <1>2, WaitsEnd

\* The snapshot of a family UPDATE holds at most the family's tail, since a
\* replaced row is revoked.
OneTarget == \A s \in Session : \A t, o \in targets[s] : t = o

LEMMA SnapshotIsSmall ==
    ASSUME IInv, OneTarget, [Next]_vars
    PROVE  OneTarget'
<1> SUFFICES ASSUME NEW s \in Session, NEW t \in targets'[s], NEW o \in targets'[s]
             PROVE  t = o
    BY DEF OneTarget
<1>1. CASE targets'[s] = targets[s]
    BY <1>1 DEF OneTarget
<1>2. CASE ReuseSnapshot(s)
  <2>1. /\ t \in TokenId /\ tokens[t] # NoRow /\ ~tokens[t].revoked
        /\ o \in TokenId /\ tokens[o] # NoRow /\ ~tokens[o].revoked
        /\ tokens[t].family = tokens[o].family
      BY <1>2 DEF ReuseSnapshot, ReusedFamily, IInv, TypeOK
  <2>2. tokens[t].replaced_by = None /\ tokens[o].replaced_by = None
      BY <2>1 DEF IInv, Families!ChainSound, Families!LinksSound, Families!Rows
  <2> QED
      BY <2>1, <2>2, TailIsUnique
<1>3. CASE End(s)
    BY <1>3, EndedSession DEF End, IInv, TypeOK
<1>4. ASSUME NEW r \in Session, Begin(r) \/ Step(r) \/ Abort(r)
      PROVE  targets'[s] = targets[s] \/ End(s) \/ ReuseSnapshot(s)
  <2>1. UNCHANGED targets \/ End(r) \/ ReuseSnapshot(r)
      BY <1>4 DEF Begin, Step, Abort, LoginGetUser, RefreshAccept,
                  RefreshDetectsReuse, LogoutVerify, Reject, LoginInsert,
                  LoginCommit, RefreshGetUser, MarkReplaced, RefreshInsert,
                  RefreshCommit, ReuseApply, ReuseCommit, LogoutUpdate,
                  LogoutCommit, Respond, Committed, locals, vars
  <2>2. r # s => targets'[s] = targets[s]
      BY <2>1 DEF End, ReuseSnapshot, IInv, TypeOK
  <2> QED
      BY <2>1, <2>2
<1>5. CASE Tick \/ (\E u \in User : DisableUser(u)) \/ UNCHANGED vars
    BY <1>1, <1>5 DEF Tick, DisableUser, vars, locals
<1> QED
    BY <1>1, <1>2, <1>3, <1>4, <1>5 DEF Next

\* Of any number of requests, no two, and no more in a circle, ever wait for
\* each other's row locks or index entries, whichever tokens they present.
THEOREM NobodyDeadlocks == Spec => []NoDeadlock
<1>1. Init => OneTarget
    BY DEF Init, OneTarget
<1>2. IInv /\ OneTarget /\ [Next]_vars => OneTarget'
    BY SnapshotIsSmall
<1>3. Spec => []OneTarget
    BY <1>1, <1>2, InvariantHolds, PTL DEF Spec
<1>4. IInv /\ OneTarget => NoDeadlock
    BY NobodyWaitsInACircle DEF NoDeadlock, OneTarget
<1> QED
    BY <1>3, <1>4, InvariantHolds, PTL

-----------------------------------------------------------------------------
(* What a step does to the table and to a request.                         *)

\* Rows stay, and keep what the properties below look at.
LEMMA RowsStay ==
    ASSUME IInv, [Next]_vars, NEW t \in TokenId, tokens[t] # NoRow
    PROVE  /\ tokens'[t] # NoRow
           /\ tokens'[t].user = tokens[t].user
           /\ tokens'[t].family = tokens[t].family
           /\ tokens'[t].expires_at = tokens[t].expires_at
           /\ tokens[t].revoked => tokens'[t].revoked
           /\ tokens[t].replaced_by # None => tokens'[t].replaced_by # None
<1>1. Families!HistoryKept \/ tokens' = tokens
    BY InvariantStep, AbstractStep, TypeIsAbstract DEF IInv
<1> QED
    BY <1>1 DEF Families!HistoryKept, Families!Rows

\* Requests about to commit a new row.
Inserting == {"login_commit", "refresh_commit"}

LEMMA CommittedRow ==
    ASSUME IInv, NEW s \in Session, Commit(s), NEW t \in TokenId,
           pc[s] \in Inserting \cup {"reuse_commit", "logout_commit"},
           tokens[t] = NoRow, tokens'[t] # NoRow
    PROVE  pc[s] \in Inserting /\ tokens'[t] = row[s]
<1>1. TypeOK /\ SessionOK(s)
    BY DEF IInv
<1>2. writes[s][t] # NoRow /\ tokens'[t] = writes[s][t]
    BY <1>1, CommitEffect
<1>3. CASE pc[s] = "login_commit"
    BY <1>1, <1>2, <1>3 DEF Inserting, SessionOK, WritesOK, Only
<1>4. CASE pc[s] = "refresh_commit"
  <2>1. arg[s] \in TokenId /\ tokens[arg[s]] # NoRow
      BY <1>1, <1>4 DEF TypeOK, SessionOK, LocalsOK, Presenting, LoggingIn, Labels
  <2> QED
      BY <1>1, <1>2, <1>4, <2>1 DEF Inserting, SessionOK, WritesOK, Only
<1>5. CASE pc[s] \in {"reuse_commit", "logout_commit"}
    BY <1>1, <1>2, <1>5 DEF SessionOK, WritesOK
<1> QED
    BY <1>3, <1>4, <1>5 DEF Inserting

\* A row that was not there is the one a login or a rotation held.
LEMMA NewRows ==
    ASSUME IInv, [Next]_vars, NEW t \in TokenId,
           tokens[t] = NoRow, tokens'[t] # NoRow
    PROVE  \E s \in Session : pc[s] \in Inserting /\ tokens'[t] = row[s]
<1>1. tokens' # tokens
    OBVIOUS
<1>2. PICK s \in Session : Step(s)
    BY <1>1, BeginStep DEF Next, Tick, DisableUser, Abort, vars
<1>3. CASE LoginCommit(s) \/ RefreshCommit(s) \/ ReuseCommit(s) \/ LogoutCommit(s)
  <2>1. Commit(s) /\ pc[s] \in Inserting \cup {"reuse_commit", "logout_commit"}
      BY <1>3 DEF LoginCommit, RefreshCommit, ReuseCommit, LogoutCommit, Inserting
  <2> QED
      BY <2>1, CommittedRow
<1> QED
    BY <1>1, <1>2, <1>3
       DEF Step, LoginInsert, RefreshGetUser, MarkReplaced, RefreshInsert,
           ReuseSnapshot, ReuseApply, LogoutUpdate, Respond

\* Requests that have passed the checks of refresh.
Accepted == {"refresh_user", "refresh_mark", "refresh_insert", "refresh_commit"}

\* The ways a step leads request s on towards a new token.
Moves(s) ==
    \/ pc'[s] \notin Accepted \cup LoggingIn
    \/ pc'[s] = pc[s] /\ arg'[s] = arg[s] /\ row'[s] = row[s]
    \/ /\ pc'[s] = "refresh_user"
       /\ arg'[s] \in Presentable
       /\ ~tokens[arg'[s]].revoked
       /\ ~(tokens[arg'[s]].expires_at < clock)
    \/ /\ pc[s] = "refresh_user" /\ pc'[s] = "refresh_mark"
       /\ arg'[s] = arg[s] /\ tokens[arg[s]].user \notin disabled
    \/ /\ pc[s] \in {"refresh_mark", "refresh_insert"}
       /\ pc'[s] \in {"refresh_insert", "refresh_commit"}
       /\ arg'[s] = arg[s]
    \/ /\ pc'[s] = "login_insert" /\ row'[s] # NoRow
       /\ row'[s].user \notin disabled
    \/ /\ pc[s] = "login_insert" /\ pc'[s] = "login_commit"
       /\ row'[s] = row[s]

\* Request s goes on by a step of its own.
LEMMA OwnMove ==
    ASSUME IInv, NEW s \in Session, Begin(s) \/ Step(s) \/ Abort(s)
    PROVE  Moves(s)
<1>0. TypeOK
    BY DEF IInv
<1> USE DEF Moves, Goto, locals, history, Accepted, LoggingIn
<1>1. ASSUME NEW u \in User, LoginGetUser(s, u) PROVE Moves(s)
  <2>1. PICK f \in FamilyId :
            /\ row' = [row EXCEPT ![s] = NewRow(u, f)]
            /\ pc' = [pc EXCEPT ![s] = "login_insert"]
            /\ u \notin disabled
      BY <1>1 DEF LoginGetUser
  <2>2. NewRow(u, f) # NoRow /\ NewRow(u, f).user = u
      BY <1>0, InsertedRow
  <2>3. row'[s] = NewRow(u, f) /\ pc'[s] = "login_insert"
      BY <1>0, <2>1 DEF TypeOK
  <2> QED
      BY <2>1, <2>2, <2>3
<1>2. ASSUME NEW t \in Presentable, RefreshAccept(s, t) PROVE Moves(s)
  <2>1. arg'[s] = t /\ pc'[s] = "refresh_user"
      BY <1>0, <1>2 DEF RefreshAccept, TypeOK
  <2> QED
      BY <1>2, <2>1 DEF RefreshAccept
<1>3. ASSUME NEW t \in Presentable,
             RefreshDetectsReuse(s, t) \/ LogoutVerify(s, t)
      PROVE  Moves(s)
    BY <1>0, <1>3 DEF RefreshDetectsReuse, LogoutVerify, TypeOK
<1>4. CASE Reject(s)
    BY <1>4 DEF Reject, vars
<1>5. CASE End(s)
    BY <1>0, <1>5, EndedSession
<1>6. CASE LoginInsert(s)
    BY <1>0, <1>6 DEF LoginInsert, TypeOK
<1>7. CASE LoginCommit(s) \/ RefreshCommit(s)
    BY <1>0, <1>7, CommittedSession DEF LoginCommit, RefreshCommit
<1>8. CASE RefreshGetUser(s) /\ ~End(s)
    BY <1>0, <1>8 DEF RefreshGetUser, TypeOK
<1>9. CASE MarkReplaced(s)
    BY <1>0, <1>9 DEF MarkReplaced, TypeOK
<1>10. CASE RefreshInsert(s) /\ ~End(s)
    BY <1>0, <1>10 DEF RefreshInsert, TypeOK
<1>11. CASE ReuseSnapshot(s) \/ ReuseApply(s) \/ LogoutUpdate(s)
    BY <1>0, <1>11 DEF ReuseSnapshot, ReuseApply, LogoutUpdate, TypeOK
<1>12. CASE ReuseCommit(s) \/ LogoutCommit(s) \/ Respond(s) \/ Abort(s)
    BY <1>5, <1>12 DEF ReuseCommit, LogoutCommit, Respond, Abort
<1> QED
    BY <1>1, <1>2, <1>3, <1>4, <1>5, <1>6, <1>7, <1>8, <1>9, <1>10, <1>11,
       <1>12 DEF Begin, Step

\* Another request's step does not move s.
LEMMA OthersMove ==
    ASSUME IInv, NEW o \in Session, Begin(o) \/ Step(o) \/ Abort(o),
           NEW s \in Session \ {o}
    PROVE  Same(s)
<1>0. TypeOK
    BY DEF IInv
<1> USE <1>0 DEF TypeOK, Goto, Write, Same, locals, history
<1>1. CASE End(o)
    BY <1>1, EndedSession DEF OthersSame
<1>2. CASE Begin(o)
    BY <1>2 DEF Begin, LoginGetUser, RefreshAccept, RefreshDetectsReuse,
                LogoutVerify, Reject, vars
<1>3. CASE LoginInsert(o) \/ LogoutUpdate(o)
    BY <1>3 DEF LoginInsert, LogoutUpdate
<1>4. CASE LoginCommit(o) \/ RefreshCommit(o)
    BY <1>4, CommittedSession DEF LoginCommit, RefreshCommit, OthersSame
<1>5. CASE RefreshGetUser(o) \/ RefreshInsert(o)
    BY <1>1, <1>5 DEF RefreshGetUser, RefreshInsert
<1>6. CASE MarkReplaced(o)
    BY <1>6 DEF MarkReplaced
<1>7. CASE ReuseSnapshot(o) \/ ReuseApply(o)
    BY <1>7 DEF ReuseSnapshot, SeeTails, ReuseApply
<1>8. CASE ReuseCommit(o) \/ LogoutCommit(o) \/ Respond(o) \/ Abort(o)
    BY <1>1, <1>8 DEF ReuseCommit, LogoutCommit, Respond, Abort
<1> QED
    BY <1>2, <1>3, <1>4, <1>5, <1>6, <1>7, <1>8 DEF Step

\* Time passes by ticks, and no request makes it.
LEMMA ClockSteps ==
    ASSUME [Next]_vars
    PROVE  Tick \/ clock' = clock
<1> USE DEF locals, history, vars
<1>1. ASSUME NEW s \in Session, Begin(s) PROVE clock' = clock
    BY <1>1 DEF Begin, LoginGetUser, RefreshAccept, RefreshDetectsReuse,
                LogoutVerify, Reject
<1>2. ASSUME NEW s \in Session, Step(s) PROVE clock' = clock
    BY <1>2 DEF Step, LoginInsert, LoginCommit, RefreshGetUser, MarkReplaced,
                RefreshInsert, RefreshCommit, ReuseSnapshot, ReuseApply,
                ReuseCommit, LogoutUpdate, LogoutCommit, Respond
<1> QED
    BY <1>1, <1>2 DEF Next, DisableUser, Abort

LEMMA SessionMoves ==
    ASSUME IInv, [Next]_vars, NEW s \in Session
    PROVE  Moves(s)
<1>1. CASE \E o \in Session : Begin(o) \/ Step(o) \/ Abort(o)
  <2>1. PICK o \in Session : Begin(o) \/ Step(o) \/ Abort(o)
      BY <1>1
  <2>2. CASE o = s
      BY <2>1, <2>2, OwnMove
  <2>3. CASE o # s
      BY <2>1, <2>3, OthersMove DEF Moves, Same
  <2> QED
      BY <2>2, <2>3
<1>2. CASE Tick \/ (\E u \in User : DisableUser(u)) \/ UNCHANGED vars
    BY <1>2 DEF Tick, DisableUser, vars, locals, Moves
<1> QED
    BY <1>1, <1>2 DEF Next

\* The token a running refresh has presented.
LEMMA PresentedRow ==
    ASSUME IInv, NEW s \in Session, pc[s] \in Accepted
    PROVE  arg[s] \in TokenId /\ tokens[arg[s]] # NoRow
BY DEF IInv, TypeOK, SessionOK, LocalsOK, Presenting, LoggingIn, Labels, Accepted

LEMMA HeldToken ==
    ASSUME IInv, NEW t \in Presentable
    PROVE  t \in TokenId /\ tokens[t] # NoRow
BY DEF IInv, TypeOK, IssuedOK, Presentable

-----------------------------------------------------------------------------
(* Disabled users.                                                         *)

LEMMA NobodyGrants ==
    ASSUME IInv, [Next]_vars, NEW u \in disabled, Granting(u) = {}
    PROVE  Granting(u)' = {}
<1> SUFFICES ASSUME NEW s \in Session, s \in Granting(u)'
             PROVE  FALSE
    BY DEF Granting
<1>1. s \notin Granting(u) /\ Moves(s)
    BY SessionMoves
<1>2. CASE /\ pc'[s] \in {"refresh_mark", "refresh_insert", "refresh_commit"}
           /\ tokens'[arg'[s]].user = u
  <2>1. \/ pc[s] \in Accepted \ {"refresh_user"} /\ arg'[s] = arg[s]
        \/ /\ pc[s] = "refresh_user" /\ arg'[s] = arg[s]
           /\ tokens[arg[s]].user \notin disabled
      BY <1>1, <1>2 DEF Moves, Accepted, LoggingIn
  <2>2. arg[s] \in TokenId /\ tokens[arg[s]] # NoRow
      BY <2>1, PresentedRow DEF Accepted
  <2>3. tokens[arg[s]].user = u
      BY <1>2, <2>1, <2>2, RowsStay
  <2> QED
      BY <1>1, <2>1, <2>3 DEF Granting, Accepted
<1>3. CASE pc'[s] \in LoggingIn /\ row'[s].user = u
    BY <1>1, <1>3 DEF Moves, Granting, Accepted, LoggingIn
<1> QED
    BY <1>2, <1>3 DEF Granting, LoggingIn

LEMMA NothingGranted ==
    ASSUME IInv, [Next]_vars, NEW u \in disabled, Granting(u) = {}
    PROVE  TokensOf(u)' = TokensOf(u)
<1> SUFFICES ASSUME NEW t \in TokenId
             PROVE  (tokens'[t] # NoRow /\ tokens'[t].user = u)
                        <=> (tokens[t] # NoRow /\ tokens[t].user = u)
    BY DEF TokensOf
<1>1. CASE tokens[t] # NoRow
    BY <1>1, RowsStay
<1>2. CASE tokens[t] = NoRow /\ tokens'[t] # NoRow
  <2>1. PICK s \in Session : pc[s] \in Inserting /\ tokens'[t] = row[s]
      BY <1>2, NewRows
  <2>2. SessionOK(s)
      BY DEF IInv
  <2>3. CASE pc[s] = "login_commit"
      BY <1>2, <2>1, <2>3 DEF Granting
  <2>4. CASE pc[s] = "refresh_commit"
      BY <1>2, <2>1, <2>2, <2>4 DEF Granting, SessionOK, FamilyOK
  <2> QED
      BY <2>1, <2>3, <2>4 DEF Inserting
<1>3. CASE tokens[t] = NoRow /\ tokens'[t] = NoRow
    BY <1>3
<1> QED
    BY <1>1, <1>2, <1>3

\* Once the requests that read a user's record before it was disabled are
\* over, that user gets no further refresh token.
THEOREM DisabledStaysOut == Spec => DisabledUsersAreCutOff
<1>1. IInv /\ [Next]_vars =>
          [\A u \in disabled : StaysCutOff(u)]_vars
    BY NobodyGrants, NothingGranted DEF StaysCutOff
<1> QED
    BY <1>1, InvariantHolds, PTL DEF Spec, DisabledUsersAreCutOff

-----------------------------------------------------------------------------
(* Spent families.                                                         *)

\* Nobody rotates a token of f, now or after the next step.
LEMMA NobodyRotates ==
    ASSUME IInv, [Next]_vars, NEW f \in FamilyId, Spent(f), Rotating(f) = {}
    PROVE  Rotating(f)' = {}
<1> SUFFICES ASSUME NEW s \in Session, pc'[s] \in Accepted,
                    tokens'[arg'[s]].family = f
             PROVE  FALSE
    BY DEF Rotating, Accepted
<1>1. Moves(s)
    BY SessionMoves
<1>2. CASE pc[s] \in Accepted /\ arg'[s] = arg[s]
  <2>1. tokens[arg[s]].family = f
      BY <1>2, PresentedRow, RowsStay
  <2> QED
      BY <1>2, <2>1 DEF Rotating, Accepted
<1>3. CASE /\ arg'[s] \in Presentable
           /\ ~tokens[arg'[s]].revoked
           /\ ~(tokens[arg'[s]].expires_at < clock)
  <2>1. /\ arg'[s] \in TokenId /\ tokens[arg'[s]] # NoRow
        /\ tokens[arg'[s]].family = f
      BY <1>3, HeldToken, RowsStay
  <2> QED
      BY <1>3, <2>1 DEF Spent
<1> QED
    BY <1>1, <1>2, <1>3 DEF Moves, Accepted, LoggingIn

LEMMA NothingRevives ==
    ASSUME IInv, [Next]_vars, NEW f \in FamilyId,
           HasRows(f), Spent(f), Rotating(f) = {}
    PROVE  Spent(f)'
<1> SUFFICES ASSUME NEW t \in TokenId, tokens'[t] # NoRow, tokens'[t].family = f
             PROVE  tokens'[t].revoked \/ tokens'[t].expires_at < clock'
    BY DEF Spent
<1>1. clock \in Nat /\ clock' \in Nat /\ clock <= clock'
  <2>1. clock \in Nat /\ clock' \in {clock, clock + 1}
    <3>1. clock \in Nat
        BY ClockAssumption DEF IInv, TypeOK
    <3>2. CASE clock' = clock
        BY <3>1, <3>2
    <3>3. CASE Tick
        BY <3>1, <3>3 DEF Tick
    <3> QED
        BY <3>1, <3>2, <3>3, ClockSteps
  <2> QED
      BY <2>1
<1>2. CASE tokens[t] # NoRow
  <2>1. /\ tokens[t].family = f /\ tokens'[t].expires_at = tokens[t].expires_at
        /\ tokens[t].revoked => tokens'[t].revoked
      BY <1>2, RowsStay
  <2>2. tokens[t] \in Row
      BY <1>2 DEF IInv, TypeOK
  <2>3. tokens[t].expires_at \in Nat
      BY <2>2, ClockAssumption DEF Row, Families!Row
  <2> QED
      BY <1>1, <1>2, <2>1, <2>3 DEF Spent
<1>3. CASE tokens[t] = NoRow
  <2>1. PICK s \in Session : pc[s] \in Inserting /\ tokens'[t] = row[s]
      BY <1>3, NewRows
  <2>2. SessionOK(s)
      BY DEF IInv
  <2>3. CASE pc[s] = "login_commit"
      BY <2>1, <2>2, <2>3 DEF HasRows, SessionOK, FamilyOK, LoggingIn
  <2>4. CASE pc[s] = "refresh_commit"
      BY <2>1, <2>2, <2>4 DEF Rotating, SessionOK, FamilyOK
  <2> QED
      BY <2>1, <2>3, <2>4 DEF Inserting
<1> QED
    BY <1>2, <1>3

\* A family whose tokens are all revoked or expired, and that nobody is
\* rotating, is never rotated again.
THEOREM SpentIsFinal == Spec => SpentFamilyStaysSpent
<1>1. IInv /\ [Next]_vars =>
          [\A f \in FamilyId : StaysSpent(f)]_vars
    BY NobodyRotates, NothingRevives DEF StaysSpent
<1> QED
    BY <1>1, InvariantHolds, PTL DEF Spec, SpentFamilyStaysSpent

-----------------------------------------------------------------------------
(* Reuse detection.                                                        *)

Revoking == {"reuse_apply", "reuse_commit"}

\* The row that ended the family in the snapshot of s: it still belongs to it,
\* and if it has not been rotated, it is revoked or in the snapshot.
SeenTail(s, p) ==
    /\ tokens[p] # NoRow
    /\ tokens[p].family = tokens[arg[s]].family
    /\ tokens[p].replaced_by = None => tokens[p].revoked \/ p \in targets[s]

\* What the family UPDATE knows of the family, from its snapshot to its commit.
ReuseOK(s) ==
    /\ pc[s] \in Revoking => \E p \in tails[s] : SeenTail(s, p)
    /\ pc[s] = "reuse_commit" =>
          \A t \in targets[s] : ~tokens[t].revoked => writes[s][t] # NoRow

ReuseInv == IInv /\ \A s \in Session : ReuseOK(s)

LEMMA PresentingRow ==
    ASSUME IInv, NEW s \in Session, pc[s] \in Presenting
    PROVE  arg[s] \in TokenId /\ tokens[arg[s]] # NoRow /\ tokens[arg[s]] \in Row
BY DEF IInv, TypeOK, SessionOK, LocalsOK

LEMMA TargetRow ==
    ASSUME IInv, NEW s \in Session, NEW t \in targets[s]
    PROVE  t \in TokenId /\ tokens[t] # NoRow
BY DEF IInv, TypeOK, SessionOK, LocalsOK

\* The commit of a logout or of the family UPDATE: its rows are revoked.
LEMMA RevocationEffect ==
    ASSUME IInv, NEW o \in Session, Commit(o),
           pc[o] \in {"reuse_commit", "logout_commit"}, NEW t \in TokenId
    PROVE  /\ writes[o][t] = NoRow => tokens'[t] = tokens[t]
           /\ writes[o][t] # NoRow =>
                 /\ tokens[t] # NoRow /\ tokens[t] \in Row
                 /\ tokens'[t] = Families!Revoked(tokens[t])
                 /\ tokens'[t].revoked
                 /\ tokens'[t].family = tokens[t].family
<1>1. TypeOK /\ SessionOK(o)
    BY DEF IInv
<1>2. tokens'[t] = IF writes[o][t] # NoRow THEN writes[o][t] ELSE tokens[t]
    BY <1>1, CommitEffect
<1>3. writes[o][t] # NoRow =>
          /\ tokens[t] # NoRow
          /\ writes[o][t] = Families!Revoked(tokens[t])
    BY <1>1 DEF SessionOK, WritesOK
<1>4. tokens[t] # NoRow => tokens[t] \in Row
    BY <1>1 DEF TypeOK
<1>5. \A r \in Row : Families!Revoked(r).revoked
    BY DEF Row, Families!Row, Families!Revoked
<1> QED
    BY <1>2, <1>3, <1>4, <1>5, RevokedRow

\* The steps of others, and of the environment.
LEMMA ReuseFrame ==
    ASSUME ReuseInv, [Next]_vars, NEW s \in Session, Same(s)
    PROVE  ReuseOK(s)'
<1>0. IInv /\ ReuseOK(s) /\ TypeOK
    BY DEF ReuseInv, IInv
<1>1. ASSUME pc'[s] \in Revoking
      PROVE  \E p \in tails'[s] : SeenTail(s, p)'
  <2>1. pc[s] \in Revoking /\ arg'[s] = arg[s] /\ targets'[s] = targets[s]
        /\ tails'[s] = tails[s]
      BY <1>1 DEF Same
  <2>2. PICK p \in tails[s] : SeenTail(s, p)
      BY <1>0, <2>1 DEF ReuseOK
  <2>3. p \in TokenId /\ tokens[p] # NoRow
      BY <1>0, <2>2 DEF TypeOK, SeenTail
  <2>4. arg[s] \in TokenId /\ tokens[arg[s]] # NoRow
      BY <1>0, <2>1, PresentingRow DEF Revoking, Presenting, LoggingIn, Labels
  <2>5. /\ tokens'[p] # NoRow
        /\ tokens'[p].family = tokens[p].family
        /\ tokens[p].revoked => tokens'[p].revoked
        /\ tokens[p].replaced_by # None => tokens'[p].replaced_by # None
      BY <1>0, <2>3, RowsStay
  <2>6. tokens'[arg[s]].family = tokens[arg[s]].family
      BY <1>0, <2>4, RowsStay
  <2>7. SeenTail(s, p)'
      BY <2>1, <2>2, <2>5, <2>6 DEF SeenTail
  <2> QED
      BY <2>1, <2>7
<1>2. ASSUME pc'[s] = "reuse_commit", NEW t \in targets'[s], ~tokens'[t].revoked
      PROVE  writes'[s][t] # NoRow
  <2>1. pc[s] = "reuse_commit" /\ t \in targets[s] /\ writes'[s] = writes[s]
      BY <1>2 DEF Same
  <2>2. t \in TokenId /\ tokens[t] # NoRow
      BY <1>0, <2>1, TargetRow
  <2>3. ~tokens[t].revoked
      BY <1>0, <1>2, <2>2, RowsStay
  <2> QED
      BY <1>0, <2>1, <2>3 DEF ReuseOK
<1> QED
    BY <1>1, <1>2 DEF ReuseOK

\* The snapshot shows the tail of the family, and every row that is live.
LEMMA SnapshotSeesTail ==
    ASSUME IInv, NEW s \in Session, ReuseSnapshot(s)
    PROVE  ReuseOK(s)'
<1>0. TypeOK
    BY DEF IInv
<1>1. /\ pc[s] = "reuse_update" /\ pc'[s] = "reuse_apply"
      /\ tokens' = tokens /\ arg' = arg
      /\ targets'[s] = {t \in ReusedFamily(s) : ~tokens[t].revoked}
      /\ tails'[s] = {t \in ReusedFamily(s) : tokens[t].replaced_by = None}
    BY <1>0 DEF ReuseSnapshot, SeeTails, Goto, TypeOK
<1>2. arg[s] \in TokenId /\ tokens[arg[s]] # NoRow
    BY <1>1, PresentingRow DEF Presenting, LoggingIn, Labels
<1>3. PICK p \in TokenId : /\ tokens[p] # NoRow
                           /\ tokens[p].replaced_by = None
                           /\ tokens[p].family = tokens[arg[s]].family
    BY <1>2 DEF IInv, Families!ChainSound, Families!HasTail, Families!Rows,
                Families!IsTail
<1>4. p \in tails'[s] /\ (tokens[p].revoked \/ p \in targets'[s])
    BY <1>1, <1>3 DEF ReusedFamily
<1>5. SeenTail(s, p)'
    BY <1>1, <1>3, <1>4 DEF SeenTail
<1> QED
    BY <1>1, <1>4, <1>5 DEF ReuseOK

\* The UPDATE writes every row of its snapshot that is still live.
LEMMA ApplyRevokesTargets ==
    ASSUME IInv, NEW s \in Session, ReuseOK(s), ReuseApply(s)
    PROVE  ReuseOK(s)'
<1>0. TypeOK
    BY DEF IInv
<1>1. /\ pc[s] = "reuse_apply" /\ pc'[s] = "reuse_commit"
      /\ UNCHANGED <<tokens, arg, targets, tails>>
      /\ \A t \in TokenId : writes'[s][t] =
             IF t \in targets[s] /\ ~tokens[t].revoked
             THEN Families!Revoked(tokens[t]) ELSE NoRow
    BY <1>0 DEF ReuseApply, Goto, locals, TypeOK
<1>2. \A t \in targets[s] : /\ t \in TokenId
                            /\ Families!Revoked(tokens[t]) # NoRow
    BY <1>0, TargetRow, RevokedRow DEF TypeOK
<1>3. \A t \in targets[s] : ~tokens[t].revoked => writes'[s][t] # NoRow
    BY <1>1, <1>2
<1>4. (\E p \in tails[s] : SeenTail(s, p))'
    BY <1>1 DEF ReuseOK, Revoking, SeenTail
<1> QED
    BY <1>1, <1>3, <1>4 DEF ReuseOK

\* The steps of the request itself: only two lead to its revocation.
LEMMA ReuseOwnStep ==
    ASSUME ReuseInv, NEW s \in Session, Begin(s) \/ Step(s) \/ Abort(s)
    PROVE  ReuseOK(s)'
<1>0. IInv /\ TypeOK /\ ReuseOK(s)
    BY DEF ReuseInv, IInv
<1> USE DEF Goto, locals, history
\* Anywhere else nothing is asked of the request.
<1>1. CASE pc'[s] \notin Revoking
    BY <1>1 DEF ReuseOK, Revoking
<1>2. CASE End(s)
    BY <1>0, <1>1, <1>2, EndedSession DEF Revoking
<1>3. CASE ReuseSnapshot(s)
    BY <1>0, <1>3, SnapshotSeesTail
<1>4. CASE ReuseApply(s)
    BY <1>0, <1>4, ApplyRevokesTargets
<1>5. CASE Begin(s)
  <2>1. CASE Reject(s)
      BY <1>0, <1>1, <2>1 DEF Reject, vars, Revoking
  <2> QED
      BY <1>0, <1>1, <1>5, <2>1
         DEF Begin, LoginGetUser, RefreshAccept, RefreshDetectsReuse,
             LogoutVerify, TypeOK, Revoking
<1>6. CASE LoginCommit(s) \/ RefreshCommit(s)
    BY <1>0, <1>1, <1>6, CommittedSession DEF LoginCommit, RefreshCommit, Revoking
<1>7. CASE LoginInsert(s) \/ MarkReplaced(s) \/ LogoutUpdate(s)
    BY <1>0, <1>1, <1>7 DEF LoginInsert, MarkReplaced, LogoutUpdate, TypeOK,
                            Revoking
<1>8. CASE RefreshGetUser(s) \/ RefreshInsert(s)
    BY <1>0, <1>1, <1>2, <1>8 DEF RefreshGetUser, RefreshInsert, TypeOK, Revoking
<1>9. CASE ReuseCommit(s) \/ LogoutCommit(s) \/ Respond(s) \/ Abort(s)
    BY <1>2, <1>9 DEF ReuseCommit, LogoutCommit, Respond, Abort
<1> QED
    BY <1>3, <1>4, <1>5, <1>6, <1>7, <1>8, <1>9 DEF Step

LEMMA ReuseInvariantStep == ReuseInv /\ [Next]_vars => ReuseInv'
<1> SUFFICES ASSUME ReuseInv, [Next]_vars PROVE ReuseInv'
    OBVIOUS
<1>1. IInv'
    BY InvariantStep DEF ReuseInv
<1>2. ASSUME NEW s \in Session PROVE ReuseOK(s)'
  <2>1. CASE Begin(s) \/ Step(s) \/ Abort(s)
      BY <2>1, ReuseOwnStep
  <2>2. ASSUME NEW o \in Session \ {s}, Begin(o) \/ Step(o) \/ Abort(o)
        PROVE  ReuseOK(s)'
      BY <2>2, OthersMove, ReuseFrame DEF ReuseInv
  <2>3. CASE Tick \/ (\E u \in User : DisableUser(u)) \/ UNCHANGED vars
    <3>1. Same(s)
        BY <2>3 DEF Tick, DisableUser, vars, locals, Same
    <3> QED
        BY <3>1, ReuseFrame
  <2> QED
      BY <2>1, <2>2, <2>3 DEF Next
<1> QED
    BY <1>1, <1>2 DEF ReuseInv

\* When nobody has rotated the tail of the snapshot, it is still the tail, and
\* the commit leaves it revoked; every other row was replaced, hence revoked.
LEMMA ReportsAreTrue ==
    ASSUME ReuseInv, NEW s \in Session, ReuseCommit(s)
    PROVE  ReportIsTrue(s)
<1> SUFFICES ASSUME NEW f \in FamilyId, f = tokens[arg[s]].family,
                    ~RotatedMeanwhile(s),
                    NEW t \in TokenId, tokens'[t] # NoRow, tokens'[t].family = f
             PROVE  tokens'[t].revoked
    BY DEF ReportIsTrue, FamilyRevoked
<1>0. /\ IInv /\ TypeOK /\ Families!ChainSound /\ ReuseOK(s)
      /\ Commit(s) /\ pc[s] = "reuse_commit"
    BY DEF ReuseInv, IInv, ReuseCommit
<1>1. CASE writes[s][t] # NoRow
    BY <1>0, <1>1, RevocationEffect
<1>2. CASE writes[s][t] = NoRow
  <2>1. tokens'[t] = tokens[t]
      BY <1>0, <1>2, RevocationEffect
  <2>2. CASE tokens[t].replaced_by # None
      BY <1>0, <2>1, <2>2 DEF Families!ChainSound, Families!LinksSound,
                              Families!Rows
  <2>3. CASE tokens[t].replaced_by = None
    <3>1. PICK p \in tails[s] : SeenTail(s, p)
        BY <1>0 DEF ReuseOK, Revoking
    <3>2. /\ p \in TokenId /\ tokens[p] # NoRow /\ tokens[p].family = f
          /\ tokens[p].replaced_by = None
          /\ tokens[p].revoked \/ p \in targets[s]
        BY <1>0, <3>1 DEF SeenTail, RotatedMeanwhile, TypeOK
    <3>3. t = p
        BY <1>0, <2>1, <2>3, <3>2
           DEF Families!ChainSound, Families!OneTail, Families!IsTail,
               Families!Rows
    <3> QED
        BY <1>0, <1>2, <2>1, <3>2, <3>3 DEF ReuseOK
  <2> QED
      BY <2>2, <2>3
<1> QED
    BY <1>1, <1>2

\* Whatever concurrent rotations, logouts and other reports do, a reported
\* reuse leaves the whole family revoked, unless the tail its UPDATE saw was
\* rotated before it committed.
THEOREM ReuseMissesOnlyRaces == Spec => ReuseSparesOnlyARace
<1>1. Init => ReuseInv
    BY InvariantInit DEF Init, ReuseInv, ReuseOK, Revoking
<1>2. ReuseInv /\ [Next]_vars =>
          [\A s \in Session : ReuseCommit(s) => ReportIsTrue(s)]_vars
    BY ReportsAreTrue
<1> QED
    BY <1>1, <1>2, ReuseInvariantStep, PTL DEF Spec, ReuseSparesOnlyARace
=============================================================================
