------------------------ MODULE TokenFamiliesProofs ------------------------
(* Proofs that the rows of a family always form one chain and that the     *)
(* history of a row is never rewritten.                                    *)
EXTENDS TokenFamilies, TLAPS

LEMMA RowFields ==
    ASSUME RowAssumption, NEW r \in Row
    PROVE  /\ r # NoRow
           /\ r.user \in User /\ r.family \in FamilyId
           /\ r.expires_at \in Time /\ r.revoked \in BOOLEAN
           /\ r.replaced_by \in TokenId \cup {None}
BY DEF Row, RowAssumption

LEMMA NewRowIsRow ==
    ASSUME NEW u \in User, NEW f \in FamilyId, NEW e \in Time
    PROVE  NewRow(u, f, e) \in Row
BY DEF NewRow, Row

LEMMA RevokedFields ==
    ASSUME NEW r \in Row
    PROVE  /\ Revoked(r) \in Row
           /\ Revoked(r).user = r.user
           /\ Revoked(r).family = r.family
           /\ Revoked(r).expires_at = r.expires_at
           /\ Revoked(r).revoked = TRUE
           /\ Revoked(r).replaced_by = r.replaced_by
BY DEF Row, Revoked

LEMMA ReplacedFields ==
    ASSUME NEW r \in Row, NEW n \in TokenId
    PROVE  /\ Replaced(r, n) \in Row
           /\ Replaced(r, n).user = r.user
           /\ Replaced(r, n).family = r.family
           /\ Replaced(r, n).expires_at = r.expires_at
           /\ Replaced(r, n).revoked = TRUE
           /\ Replaced(r, n).replaced_by = n
BY RevokedFields DEF Row, Replaced

(* What each action does to the table, row by row.                         *)

LEMMA GrantEffect ==
    ASSUME RowAssumption, TypeOK, NEW u \in User, NEW n \in TokenId, Grant(u, n)
    PROVE  /\ TypeOK'
           /\ n \notin Rows
           /\ Rows' = Rows \cup {n}
           /\ \A t \in Rows : tokens'[t] = tokens[t] /\ t # n
           /\ tokens'[n].replaced_by = None
           /\ \A t \in Rows : tokens[t].family # tokens'[n].family
<1>1. PICK f \in FamilyId, e \in Time :
          /\ n \notin Rows
          /\ Family(f) = {}
          /\ tokens' = [tokens EXCEPT ![n] = NewRow(u, f, e)]
    BY DEF Grant
<1>2. NewRow(u, f, e) \in Row /\ NewRow(u, f, e) # NoRow
    BY NewRowIsRow, RowFields
<1>3. TypeOK'
    BY <1>1, <1>2 DEF TypeOK
<1>4. tokens'[n] = NewRow(u, f, e) /\ \A t \in TokenId \ {n} : tokens'[t] = tokens[t]
    BY <1>1 DEF TypeOK
<1>5. Rows' = Rows \cup {n}
    BY <1>2, <1>4 DEF Rows
<1>6. tokens'[n].replaced_by = None /\ tokens'[n].family = f
    BY <1>4 DEF NewRow
<1>7. \A t \in Rows : tokens[t].family # f
    BY <1>1 DEF Family
<1> QED
    BY <1>1, <1>3, <1>4, <1>5, <1>6, <1>7 DEF Rows

LEMMA RotateEffect ==
    ASSUME RowAssumption, TypeOK, NEW t \in TokenId, NEW n \in TokenId, Rotate(t, n)
    PROVE  /\ TypeOK'
           /\ IsTail(t) /\ n \notin Rows /\ t # n
           /\ Rows' = Rows \cup {n}
           /\ \A o \in Rows \ {t} : tokens'[o] = tokens[o]
           /\ tokens'[t] = Replaced(tokens[t], n)
           /\ tokens'[n].replaced_by = None
           /\ tokens'[n].family = tokens[t].family
           /\ tokens'[n].user = tokens[t].user
<1>1. PICK e \in Time :
          /\ IsTail(t)
          /\ n \notin Rows
          /\ tokens' = [tokens EXCEPT
                ![t] = Replaced(@, n),
                ![n] = NewRow(tokens[t].user, tokens[t].family, e)]
    BY DEF Rotate
<1>2. t # n /\ tokens[t] \in Row
    BY <1>1 DEF IsTail, Rows, TypeOK
<1> DEFINE old == Replaced(tokens[t], n)
           fresh == NewRow(tokens[t].user, tokens[t].family, e)
<1>3. old \in Row /\ fresh \in Row
    BY <1>2, NewRowIsRow, RowFields, ReplacedFields
<1>4. old # NoRow /\ fresh # NoRow
    BY <1>3, RowFields
<1>5. /\ tokens'[t] = old /\ tokens'[n] = fresh
      /\ \A o \in TokenId \ {t, n} : tokens'[o] = tokens[o]
    BY <1>1, <1>2 DEF TypeOK
<1>6. TypeOK'
    BY <1>1, <1>3 DEF TypeOK
<1>7. Rows' = Rows \cup {n}
    BY <1>1, <1>4, <1>5 DEF Rows, IsTail
<1>8. /\ fresh.replaced_by = None
      /\ fresh.family = tokens[t].family
      /\ fresh.user = tokens[t].user
    BY DEF NewRow
<1> QED
    BY <1>1, <1>2, <1>5, <1>6, <1>7, <1>8 DEF Rows

LEMMA RevokeEffect ==
    ASSUME RowAssumption, TypeOK, NEW T \in SUBSET Rows, Revoke(T)
    PROVE  /\ TypeOK'
           /\ Rows' = Rows
           /\ \A t \in Rows : \/ tokens'[t] = tokens[t]
                              \/ tokens'[t] = Revoked(tokens[t])
<1>1. \A t \in Rows : tokens[t] \in Row
    BY DEF Rows, TypeOK
<1>2. \A t \in Rows : Revoked(tokens[t]) \in Row
    BY <1>1, RevokedFields
<1>3. TypeOK'
    BY <1>2 DEF TypeOK, Revoke, Rows
<1>4. Rows' = Rows
    BY <1>2, RowFields DEF Revoke, Rows
<1> QED
    BY <1>3, <1>4 DEF Revoke, Rows

(* The same facts as the change of each column.                            *)

LEMMA RevokeKeepsLinks ==
    ASSUME RowAssumption, TypeOK, NEW T \in SUBSET Rows, Revoke(T)
    PROVE  \A t \in Rows :
              /\ tokens'[t].replaced_by = tokens[t].replaced_by
              /\ tokens'[t].family = tokens[t].family
              /\ tokens'[t].user = tokens[t].user
              /\ tokens'[t].expires_at = tokens[t].expires_at
              /\ tokens[t].revoked => tokens'[t].revoked
<1>1. \A t \in Rows : tokens[t] \in Row
    BY DEF Rows, TypeOK
<1> QED
    BY <1>1, RevokeEffect, RevokedFields

LEMMA RotateKeepsOld ==
    ASSUME RowAssumption, TypeOK, NEW t \in TokenId, NEW n \in TokenId, Rotate(t, n)
    PROVE  /\ tokens'[t].replaced_by = n
           /\ tokens'[t].revoked = TRUE
           /\ tokens'[t].family = tokens[t].family
           /\ tokens'[t].user = tokens[t].user
           /\ tokens'[t].expires_at = tokens[t].expires_at
<1>1. tokens[t] \in Row
    BY RotateEffect DEF IsTail, Rows, TypeOK
<1>2. tokens'[t] = Replaced(tokens[t], n)
    BY RotateEffect
<1>3. /\ Replaced(tokens[t], n).user = tokens[t].user
      /\ Replaced(tokens[t], n).family = tokens[t].family
      /\ Replaced(tokens[t], n).expires_at = tokens[t].expires_at
      /\ Replaced(tokens[t], n).revoked = TRUE
      /\ Replaced(tokens[t], n).replaced_by = n
    BY <1>1, ReplacedFields, Zenon
<1> QED
    BY <1>2, <1>3, Zenon

-----------------------------------------------------------------------------
(* The chain invariant. *)

LEMMA ChainInit == Init => TypeOK /\ ChainSound
<1> SUFFICES ASSUME Init PROVE TypeOK /\ ChainSound
    OBVIOUS
<1>1. TypeOK /\ Rows = {}
    BY DEF Init, TypeOK, Rows
<1> QED
    BY <1>1 DEF ChainSound, OneTail, HasTail, LinksSound, Acyclic

LEMMA GrantKeepsChain ==
    ASSUME RowAssumption, TypeOK, ChainSound, NEW u \in User, NEW n \in TokenId, Grant(u, n)
    PROVE  ChainSound'
<1> USE DEF IsTail
<1>1. OneTail'
    BY GrantEffect DEF ChainSound, OneTail
<1>2. HasTail'
    BY GrantEffect DEF ChainSound, HasTail
<1>3. LinksSound'
    BY GrantEffect DEF ChainSound, LinksSound
<1>4. Acyclic'
  <2> SUFFICES ASSUME NEW S \in SUBSET Rows', S # {}
               PROVE  \E t \in S : tokens'[t].replaced_by \notin S
      BY DEF Acyclic
  <2>1. CASE n \in S
      BY <2>1, GrantEffect DEF Rows, RowAssumption
  <2>2. CASE n \notin S
    <3>1. S \in SUBSET Rows
        BY <2>2, GrantEffect
    <3> QED
        BY <3>1, GrantEffect DEF ChainSound, Acyclic
  <2> QED
      BY <2>1, <2>2
<1> QED
    BY <1>1, <1>2, <1>3, <1>4 DEF ChainSound

LEMMA RotateKeepsChain ==
    ASSUME RowAssumption, TypeOK, ChainSound,
           NEW t \in TokenId, NEW n \in TokenId, Rotate(t, n)
    PROVE  ChainSound'
<1> USE DEF IsTail
<1>1. /\ t \in Rows /\ n \notin Rows /\ n \in TokenId /\ n # None
      /\ Rows' = Rows \cup {n}
      /\ \A o \in Rows \ {t} : tokens'[o] = tokens[o]
      /\ tokens[t].replaced_by = None /\ tokens'[t].replaced_by = n
      /\ tokens'[t].revoked
      /\ tokens'[t].family = tokens[t].family /\ tokens'[n].family = tokens[t].family
      /\ tokens'[t].user = tokens[t].user /\ tokens'[n].user = tokens[t].user
      /\ tokens'[n].replaced_by = None
    BY RotateEffect, RotateKeepsOld DEF RowAssumption
<1>2. OneTail'
    BY <1>1 DEF ChainSound, OneTail
<1>3. HasTail'
  <2> SUFFICES ASSUME NEW o \in Rows'
               PROVE  \E p \in Rows' : /\ tokens'[p].replaced_by = None
                                       /\ tokens'[p].family = tokens'[o].family
      BY DEF HasTail
  <2>1. CASE tokens'[o].family = tokens[t].family
      BY <1>1, <2>1
  <2>2. CASE tokens'[o].family # tokens[t].family
    <3>1. o \in Rows \ {t}
        BY <1>1, <2>2
    <3>2. PICK p \in Rows : /\ tokens[p].replaced_by = None
                            /\ tokens[p].family = tokens[o].family
        BY <3>1 DEF ChainSound, HasTail
    <3>3. p # t
        BY <1>1, <2>2, <3>1, <3>2
    <3> QED
        BY <1>1, <3>1, <3>2, <3>3
  <2> QED
      BY <2>1, <2>2
<1>4. LinksSound'
  <2>1. \A o \in Rows : tokens[o].replaced_by # n
      BY <1>1 DEF ChainSound, LinksSound
  <2>2. \A o \in Rows \ {t} : tokens'[o].replaced_by # None =>
            /\ tokens'[o].revoked
            /\ tokens'[o].replaced_by \in Rows'
            /\ tokens'[tokens'[o].replaced_by].family = tokens'[o].family
            /\ tokens'[tokens'[o].replaced_by].user = tokens'[o].user
      BY <1>1 DEF ChainSound, LinksSound
  <2>3. \A o \in Rows' : tokens'[o].replaced_by # None =>
            /\ tokens'[o].revoked
            /\ tokens'[o].replaced_by \in Rows'
            /\ tokens'[tokens'[o].replaced_by].family = tokens'[o].family
            /\ tokens'[tokens'[o].replaced_by].user = tokens'[o].user
      BY <1>1, <2>2
  <2>4. \A o, p \in Rows' :
            (tokens'[o].replaced_by = tokens'[p].replaced_by
               /\ tokens'[o].replaced_by # None) => o = p
      BY <1>1, <2>1 DEF ChainSound, LinksSound
  <2> QED
      BY <2>3, <2>4 DEF LinksSound
<1>5. Acyclic'
  <2> SUFFICES ASSUME NEW S \in SUBSET Rows', S # {}
               PROVE  \E o \in S : tokens'[o].replaced_by \notin S
      BY DEF Acyclic
  <2>1. CASE n \in S
      BY <1>1, <2>1 DEF Rows, RowAssumption
  <2>2. CASE n \notin S /\ t \in S
      BY <1>1, <2>2
  <2>3. CASE n \notin S /\ t \notin S
    <3>1. S \in SUBSET Rows
        BY <1>1, <2>3
    <3> QED
        BY <1>1, <2>3, <3>1 DEF ChainSound, Acyclic
  <2> QED
      BY <2>1, <2>2, <2>3
<1> QED
    BY <1>2, <1>3, <1>4, <1>5 DEF ChainSound

LEMMA RevokeKeepsChain ==
    ASSUME RowAssumption, TypeOK, ChainSound, NEW T \in SUBSET Rows, Revoke(T)
    PROVE  ChainSound'
<1>1. /\ Rows' = Rows
      /\ \A t \in Rows : /\ tokens'[t].replaced_by = tokens[t].replaced_by
                         /\ tokens'[t].family = tokens[t].family
                         /\ tokens'[t].user = tokens[t].user
                         /\ tokens[t].revoked => tokens'[t].revoked
    BY RevokeEffect, RevokeKeepsLinks
<1> USE DEF IsTail
<1>2. OneTail' /\ HasTail'
    BY <1>1 DEF ChainSound, OneTail, HasTail
<1>3. LinksSound'
    BY <1>1 DEF ChainSound, LinksSound
<1>4. Acyclic'
    BY <1>1 DEF ChainSound, Acyclic
<1> QED
    BY <1>2, <1>3, <1>4 DEF ChainSound

LEMMA ChainStep ==
    ASSUME RowAssumption
    PROVE  TypeOK /\ ChainSound /\ [Next]_tokens => (TypeOK /\ ChainSound)'
<1> SUFFICES ASSUME TypeOK, ChainSound, [Next]_tokens
             PROVE  (TypeOK /\ ChainSound)'
    OBVIOUS
<1>1. ASSUME NEW u \in User, NEW n \in TokenId, Grant(u, n)
      PROVE  (TypeOK /\ ChainSound)'
    BY <1>1, GrantEffect, GrantKeepsChain
<1>2. ASSUME NEW t \in TokenId, NEW n \in TokenId, Rotate(t, n)
      PROVE  (TypeOK /\ ChainSound)'
    BY <1>2, RotateEffect, RotateKeepsChain
<1>3. ASSUME NEW T \in SUBSET Rows, Revoke(T)
      PROVE  (TypeOK /\ ChainSound)'
    BY <1>3, RevokeEffect, RevokeKeepsChain
<1>4. CASE UNCHANGED tokens
    BY <1>4 DEF TypeOK, ChainSound, OneTail, HasTail, LinksSound, Acyclic,
                IsTail, Rows
<1> QED
    BY <1>1, <1>2, <1>3, <1>4 DEF Next

\* The rows of every family form one chain ending in its only unreplaced row,
\* whatever logins, rotations and revocations are committed, in any order.
THEOREM ChainsAreSound ==
    ASSUME RowAssumption
    PROVE  Spec => [](TypeOK /\ ChainSound)
BY ChainInit, ChainStep, PTL DEF Spec

\* The table always holds well-formed rows only.
THEOREM TableTyped ==
    ASSUME RowAssumption
    PROVE  Spec => []TypeOK
BY ChainsAreSound, PTL

LEMMA HistoryStep ==
    ASSUME RowAssumption
    PROVE  TypeOK /\ [Next]_tokens => [HistoryKept]_tokens
<1> SUFFICES ASSUME TypeOK, Next PROVE HistoryKept
    OBVIOUS
<1>1. ASSUME NEW u \in User, NEW n \in TokenId, Grant(u, n) PROVE HistoryKept
    BY <1>1, GrantEffect DEF HistoryKept, Rows
<1>2. ASSUME NEW t \in TokenId, NEW n \in TokenId, Rotate(t, n) PROVE HistoryKept
  <2> DEFINE Kept(o) ==
            /\ tokens'[o] # NoRow
            /\ tokens'[o].user = tokens[o].user
            /\ tokens'[o].family = tokens[o].family
            /\ tokens'[o].expires_at = tokens[o].expires_at
            /\ tokens[o].revoked => tokens'[o].revoked
            /\ tokens[o].replaced_by # None
                  => tokens'[o].replaced_by = tokens[o].replaced_by
  <2>1. \A o \in Rows \ {t} : tokens'[o] = tokens[o] /\ tokens[o] # NoRow
      BY <1>2, RotateEffect DEF Rows
  <2>2. tokens'[t] # NoRow /\ tokens[t].replaced_by = None
      BY <1>2, RotateEffect DEF IsTail, Rows
  <2>3. Kept(t)
      BY <1>2, <2>2, RotateKeepsOld, Zenon
  <2>4. \A o \in Rows \ {t} : Kept(o)
      BY <2>1
  <2> QED
      BY <2>3, <2>4 DEF HistoryKept
<1>3. ASSUME NEW T \in SUBSET Rows, Revoke(T) PROVE HistoryKept
    BY <1>3, RevokeEffect, RevokeKeepsLinks DEF HistoryKept, Rows
<1> QED
    BY <1>1, <1>2, <1>3 DEF Next

\* No commit takes back what an earlier one did to a row: revoked stays
\* revoked, and a replaced row keeps its successor.
THEOREM RowHistoryIsFinal ==
    ASSUME RowAssumption
    PROVE  Spec => HistoryIsFinal
BY ChainsAreSound, HistoryStep, PTL DEF Spec, HistoryIsFinal
=============================================================================
