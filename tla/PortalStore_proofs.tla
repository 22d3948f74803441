-------------------------- MODULE PortalStore_proofs --------------------------
(***************************************************************************)
(* What the store of the portal keeps (portal_store.py): the quotas of     *)
(* conversations and pictures, an administrator, sessions that stay dead   *)
(* and a brake on logins, for any accounts, tokens, requests and limits.   *)
(***************************************************************************)
EXTENDS PortalAccounts, PortalShelf, FiniteSetTheorems, WellFoundedInduction, TLAPS

----------------------------------------------------------------------------
(* PortalShelf: the rows of an owner, counted.                             *)

LEMMA PictureOf ==
  ASSUME NEW u
  PROVE  \A p : p \in Pictures(u) <=> \E id \in Of(u) : \E n \in 1 .. shelf[id].images : p = <<id, n>>
BY DEF Pictures

\* Counts that did not change.
LEMMA SameOf ==
  ASSUME ShelfInduction, NEW u \in Owners,
         \A id \in ShelfIds : /\ (shelf'[id].owner = u) <=> (shelf[id].owner = u)
                              /\ shelf[id].owner = u => shelf'[id].images = shelf[id].images
  PROVE  Of(u)' = Of(u) /\ Pictures(u)' = Pictures(u) /\ ImagesOf(u)' = ImagesOf(u)
<1>1. Of(u)' = Of(u)
  BY DEF Of
<1>2. \A id \in Of(u) : shelf'[id].images = shelf[id].images
  BY DEF Of
<1>3. Pictures(u)' = Pictures(u)
  BY <1>1, <1>2 DEF Pictures
<1>4. QED
  BY <1>1, <1>3 DEF ImagesOf

\* One row more.
LEMMA OneMore ==
  ASSUME NEW S, IsFiniteSet(S), NEW x, x \notin S
  PROVE  IsFiniteSet(S \cup {x}) /\ Cardinality(S \cup {x}) = Cardinality(S) + 1 /\ Cardinality(S) \in Nat
BY FS_AddElement, FS_CardinalityType

\* What the invariant says of one row and one owner.
LEMMA ShelfKnown ==
  ASSUME ShelfInduction
  PROVE  /\ shelf \in [ShelfIds -> Shelves]
         /\ creating \in [Owners -> ShelfIds \cup {None}]
         /\ uploading \in [Owners -> ShelfIds \cup {None}]
         /\ handed \in ShelfIds \cup {None}
         /\ slipped \subseteq ShelfIds
         /\ \A id \in ShelfIds : shelf[id].untitled => shelf[id].turns = 0 /\ ~shelf[id].busy
         /\ \A u \in Owners : /\ IsFiniteSet(Of(u)) /\ IsFiniteSet(Pictures(u))
                              /\ Cardinality(Of(u)) <= Quota /\ ImagesOf(u) <= ImageQuota
         /\ HandedOutUnused /\ OwnersKept /\ FoundEmpty /\ RoomToUpload
BY DEF ShelfInduction, ShelfInv, ShelfTypeOK, QuotasHold, RoomToUpload

\* A step that changes one row, and neither its owner nor its pictures.
LEMMA RowStep ==
  ASSUME ShelfInduction, NEW id \in ShelfIds, NEW row \in Shelves, shelf' = [shelf EXCEPT ![id] = row],
         row.owner = shelf[id].owner, row.images = shelf[id].images,
         row.untitled => row.turns = 0 /\ ~row.busy,
         creating' = creating, uploading' = uploading, slipped' = slipped,
         handed' \in {handed, None}, handed' # id
  PROVE  ShelfInduction'
<1>1. /\ shelf'[id] = row /\ \A x \in ShelfIds \ {id} : shelf'[x] = shelf[x]
      /\ shelf' \in [ShelfIds -> Shelves]
  BY ShelfKnown
<1>2. \A x \in ShelfIds : shelf'[x].owner = shelf[x].owner /\ shelf'[x].images = shelf[x].images
  BY <1>1
<1>3. \A u \in Owners : Of(u)' = Of(u) /\ Pictures(u)' = Pictures(u) /\ ImagesOf(u)' = ImagesOf(u)
  BY <1>2, SameOf
<1>4. ShelfTypeOK'
  BY <1>1, ShelfKnown DEF ShelfTypeOK
<1>5. HandedOutUnused'
  BY <1>1, ShelfKnown DEF HandedOutUnused
<1>6. QuotasHold'
  BY <1>3, ShelfKnown DEF QuotasHold
<1>7. OwnersKept'
  BY <1>2, <1>3, ShelfKnown DEF OwnersKept
<1>8. FoundEmpty'
  BY <1>2, ShelfKnown, NoneAssumption DEF FoundEmpty
<1>9. RoomToUpload'
  BY <1>2, <1>3, ShelfKnown DEF RoomToUpload
<1>10. QED
  BY <1>4, <1>5, <1>6, <1>7, <1>8, <1>9 DEF ShelfInduction, ShelfInv

\* A step that changes no row.
LEMMA LockStep ==
  ASSUME ShelfInduction, shelf' = shelf, slipped' = slipped,
         creating' \in [Owners -> ShelfIds \cup {None}],
         uploading' \in [Owners -> ShelfIds \cup {None}],
         handed' \in ShelfIds \cup {None}, HandedOutUnused', OwnersKept', FoundEmpty',
         \A u \in Owners : uploading'[u] # None => ImagesOf(u) < ImageQuota
  PROVE  ShelfInduction'
<1>1. \A u \in Owners : Of(u)' = Of(u) /\ Pictures(u)' = Pictures(u) /\ ImagesOf(u)' = ImagesOf(u)
  BY SameOf
<1>2. ShelfTypeOK' /\ QuotasHold' /\ RoomToUpload'
  BY <1>1, ShelfKnown DEF ShelfTypeOK, QuotasHold, RoomToUpload
<1>3. QED
  BY <1>2 DEF ShelfInduction, ShelfInv

----------------------------------------------------------------------------
(* The steps.                                                              *)

LEMMA CreateConversationStep ==
  ASSUME ShelfInduction, NEW u \in Owners, NEW id \in ShelfIds, NEW untitled \in BOOLEAN,
         CreateConversation(u, id, untitled)
  PROVE  ShelfInduction'
<1> DEFINE row == [NoShelf EXCEPT !.owner = u, !.untitled = untitled]
<1>1. /\ shelf[id].owner = None /\ Cardinality(Of(u)) < Quota
      /\ shelf' = [shelf EXCEPT ![id] = row] /\ UNCHANGED <<creating, uploading, handed, slipped>>
  BY DEF CreateConversation
<1>2. /\ row \in Shelves /\ row.owner = u /\ row.images = 0 /\ row.turns = 0 /\ row.busy = FALSE
  <2>1. row \in Shelves
    BY DEF NoShelf, Shelves
  <2>2. row.owner = u /\ row.images = 0 /\ row.turns = 0 /\ row.busy = FALSE
    BY DEF NoShelf
  <2>3. QED
    BY <2>1, <2>2
<1> HIDE DEF row
<1>3. /\ shelf'[id] = row /\ \A x \in ShelfIds \ {id} : shelf'[x] = shelf[x]
      /\ shelf' \in [ShelfIds -> Shelves]
  BY <1>1, <1>2, ShelfKnown
<1>4. \A v \in Owners : v # None /\ id \notin Of(v)
  BY <1>1, NoneAssumption DEF Of
<1>5. \A v \in Owners \ {u} : Of(v)' = Of(v) /\ Pictures(v)' = Pictures(v) /\ ImagesOf(v)' = ImagesOf(v)
  <2>1. ASSUME NEW v \in Owners \ {u}, NEW x \in ShelfIds
        PROVE  /\ (shelf'[x].owner = v) <=> (shelf[x].owner = v)
               /\ shelf[x].owner = v => shelf'[x].images = shelf[x].images
    BY <1>1, <1>2, <1>3, <1>4
  <2>2. QED
    BY <2>1, SameOf
<1>6. Of(u)' = Of(u) \cup {id}
  BY <1>2, <1>3 DEF Of
<1>7. Pictures(u)' = Pictures(u)
  <2>1. 1 .. shelf'[id].images = {}
    BY <1>2, <1>3
  <2>2. \A x \in Of(u) : shelf'[x].images = shelf[x].images
    BY <1>3, <1>4 DEF Of
  <2>3. QED
    BY <1>6, <2>1, <2>2 DEF Pictures
<1>8. ImagesOf(u)' = ImagesOf(u)
  BY <1>7 DEF ImagesOf
<1>9. IsFiniteSet(Of(u)') /\ Cardinality(Of(u)') <= Quota
  <2>1. /\ IsFiniteSet(Of(u)') /\ Cardinality(Of(u)') = Cardinality(Of(u)) + 1 /\ Cardinality(Of(u)) \in Nat
    <3>1. IsFiniteSet(Of(u)) /\ id \notin Of(u)
      BY <1>4, ShelfKnown
    <3>2. QED
      BY <1>6, <3>1, OneMore
  <2>2. QED
    BY <1>1, <2>1, QuotaAssumption
<1>10. handed # id
  BY <1>1, ShelfKnown, NoneAssumption DEF OwnersKept
<1>11. ShelfTypeOK'
  BY <1>1, <1>2, <1>3, ShelfKnown DEF ShelfTypeOK
<1>12. HandedOutUnused'
  BY <1>1, <1>3, <1>10, ShelfKnown DEF HandedOutUnused
<1>13. QuotasHold'
  BY <1>5, <1>8, <1>9, ShelfKnown DEF QuotasHold
<1>14. OwnersKept'
  <2>1. \A v \in Owners : Of(v) \subseteq Of(v)'
    BY <1>5, <1>6
  <2>2. handed # None => shelf'[handed].owner # None
    BY <1>3, <1>10, ShelfKnown DEF OwnersKept
  <2>3. QED
    BY <1>1, <2>1, <2>2, ShelfKnown DEF OwnersKept
<1>15. RoomToUpload'
  <2>1. \A x \in ShelfIds : shelf'[x].owner = None => shelf'[x].images = 0
    BY <1>2, <1>3, ShelfKnown DEF RoomToUpload
  <2>2. \A v \in Owners : IsFiniteSet(Of(v)') /\ IsFiniteSet(Pictures(v)') /\ ImagesOf(v)' = ImagesOf(v)
    BY <1>5, <1>7, <1>8, <1>9, ShelfKnown
  <2>3. QED
    BY <1>1, <2>1, <2>2, ShelfKnown DEF RoomToUpload
<1>16. FoundEmpty'
  BY <1>1, <1>3, <1>4, ShelfKnown DEF FoundEmpty, OwnersKept
<1>17. QED
  BY <1>11, <1>12, <1>13, <1>14, <1>15, <1>16 DEF ShelfInduction, ShelfInv

LEMMA FindUnusedStep ==
  ASSUME ShelfInduction, NEW u \in Owners, NEW id \in ShelfIds, FindUnused(u, id)
  PROVE  ShelfInduction'
<1>1. /\ id \in Of(u) /\ shelf[id].images = 0 /\ creating' = [creating EXCEPT ![u] = id]
      /\ shelf' = shelf /\ uploading' = uploading /\ handed' = handed /\ slipped' = slipped
  BY DEF FindUnused, Unused
<1>2. creating' \in [Owners -> ShelfIds \cup {None}]
  BY <1>1, ShelfKnown
<1>3. HandedOutUnused'
  BY <1>1, ShelfKnown DEF HandedOutUnused
<1>4. OwnersKept'
  BY <1>1, ShelfKnown DEF OwnersKept, Of
<1>5. FoundEmpty'
  BY <1>1, ShelfKnown DEF FoundEmpty
<1>6. QED
  BY <1>1, <1>2, <1>3, <1>4, <1>5, ShelfKnown, LockStep DEF RoomToUpload

\* The row is looked at again under its lock: what the search saw may be old.
LEMMA ReuseStep ==
  ASSUME ShelfInduction, NEW u \in Owners, Reuse(u)
  PROVE  ShelfInduction'
<1> DEFINE id == creating[u]
<1>1. /\ id # None /\ creating' = [creating EXCEPT ![u] = None] /\ shelf' = shelf /\ uploading' = uploading
      /\ slipped' = slipped
      /\ handed' = IF shelf[id].untitled /\ ~shelf[id].busy THEN id ELSE None
  BY DEF Reuse
<1>2. creating' \in [Owners -> ShelfIds \cup {None}]
  BY <1>1, ShelfKnown
<1>3. id \in Of(u) /\ id \in ShelfIds /\ shelf[id].owner = u
  BY <1>1, ShelfKnown DEF OwnersKept, Of
<1>4. HandedOutUnused' /\ FoundEmpty'
  BY <1>1, <1>3, ShelfKnown DEF HandedOutUnused, FoundEmpty
<1>5. OwnersKept'
  <2>1. handed' # None => shelf[handed'].owner # None
    BY <1>1, <1>3, NoneAssumption
  <2>2. QED
    BY <1>1, <2>1, ShelfKnown DEF OwnersKept, Of
<1>6. QED
  BY <1>1, <1>2, <1>3, <1>4, <1>5, ShelfKnown, LockStep DEF RoomToUpload

LEMMA TurnStep ==
  ASSUME ShelfInduction, NEW id \in ShelfIds, FirstTurn(id) \/ TurnOver(id)
  PROVE  ShelfInduction'
<1>1. shelf[id] \in Shelves /\ id # None
  BY ShelfKnown, NoneAssumption
<1>2. CASE FirstTurn(id)
  <2> DEFINE row == [shelf[id] EXCEPT !.busy = TRUE, !.turns = 1, !.untitled = FALSE]
  <2>1. /\ row \in Shelves /\ row.owner = shelf[id].owner /\ row.images = shelf[id].images
        /\ row.untitled = FALSE
    <3>1. row \in Shelves
      BY <1>1 DEF Shelves
    <3>2. QED
      BY <1>1, <3>1 DEF Shelves
  <2>2. shelf' = [shelf EXCEPT ![id] = row]
    BY <1>1, <1>2 DEF FirstTurn, Shelves
  <2>3. /\ creating' = creating /\ uploading' = uploading /\ handed' = IF handed = id THEN None ELSE handed
        /\ slipped' = slipped
    BY <1>2 DEF FirstTurn
  <2> HIDE DEF row
  <2>4. QED
    BY <1>1, <2>1, <2>2, <2>3, RowStep
<1>3. CASE TurnOver(id)
  <2> DEFINE row == [shelf[id] EXCEPT !.busy = FALSE]
  <2>1. /\ row \in Shelves /\ row.owner = shelf[id].owner /\ row.images = shelf[id].images
        /\ row.untitled = shelf[id].untitled
    BY <1>1 DEF Shelves
  <2>2. shelf' = [shelf EXCEPT ![id] = row]
    BY <1>1, <1>3 DEF TurnOver, Shelves
  <2>3. /\ creating' = creating /\ uploading' = uploading /\ handed' = handed /\ slipped' = slipped
        /\ shelf[id].busy
    BY <1>3 DEF TurnOver
  <2>4. handed # id /\ ~shelf[id].untitled
    BY <1>1, <2>3, ShelfKnown DEF HandedOutUnused
  <2> HIDE DEF row
  <2>5. QED
    BY <1>1, <2>1, <2>2, <2>3, <2>4, RowStep
<1>4. QED
  BY <1>2, <1>3

LEMMA BeginUploadStep ==
  ASSUME ShelfInduction, NEW u \in Owners, NEW id \in ShelfIds, BeginUpload(u, id)
  PROVE  ShelfInduction'
<1>1. /\ id \in Of(u) /\ ImagesOf(u) < ImageQuota /\ uploading' = [uploading EXCEPT ![u] = id]
      /\ shelf' = shelf /\ creating' = creating /\ handed' = handed /\ slipped' = slipped
  BY DEF BeginUpload, Of
<1>2. uploading' \in [Owners -> ShelfIds \cup {None}]
  BY <1>1, ShelfKnown
<1>3. HandedOutUnused' /\ FoundEmpty'
  BY <1>1, ShelfKnown DEF HandedOutUnused, FoundEmpty
<1>4. OwnersKept'
  BY <1>1, ShelfKnown DEF OwnersKept, Of
<1>5. \A v \in Owners : uploading'[v] # None => ImagesOf(v) < ImageQuota
  BY <1>1, ShelfKnown DEF RoomToUpload
<1>6. QED
  BY <1>1, <1>2, <1>3, <1>4, <1>5, ShelfKnown, LockStep

\* The picture goes to the conversation whose row is locked, and there was
\* room for it when the upload began.
LEMMA StoreStep ==
  ASSUME ShelfInduction, NEW u \in Owners, EndUpload(u, TRUE)
  PROVE  ShelfInduction'
<1> DEFINE id == uploading[u]
           n == shelf[id].images + 1
           row == [shelf[id] EXCEPT !.images = n]
<1>1. /\ id # None /\ shelf' = [shelf EXCEPT ![id].images = @ + 1]
      /\ uploading' = [uploading EXCEPT ![u] = None]
      /\ handed' = (IF handed = id THEN None ELSE handed) /\ creating' = creating
      /\ slipped' = IF \E v \in Owners : creating[v] = id THEN slipped \cup {id} ELSE slipped
  BY DEF EndUpload
<1>2. /\ id \in Of(u) /\ id \in ShelfIds /\ shelf[id].owner = u /\ ImagesOf(u) < ImageQuota
  BY <1>1, ShelfKnown DEF OwnersKept, RoomToUpload, Of
<1>3. shelf[id] \in Shelves /\ shelf[id].images \in Nat /\ n \in Nat
  BY <1>2, ShelfKnown DEF Shelves
<1>4. /\ row \in Shelves /\ row.owner = u /\ row.images = n
      /\ row.untitled = shelf[id].untitled /\ row.turns = shelf[id].turns /\ row.busy = shelf[id].busy
  BY <1>2, <1>3 DEF Shelves
<1>5. shelf' = [shelf EXCEPT ![id] = row]
  BY <1>1
<1> HIDE DEF row
<1>6. /\ shelf'[id] = row /\ \A x \in ShelfIds \ {id} : shelf'[x] = shelf[x]
      /\ shelf' \in [ShelfIds -> Shelves]
  BY <1>2, <1>4, <1>5, ShelfKnown
<1>7. \A x \in ShelfIds : shelf'[x].owner = shelf[x].owner
  BY <1>2, <1>4, <1>6
<1>8. \A v \in Owners : Of(v)' = Of(v)
  BY <1>7 DEF Of
<1>9. \A v \in Owners \ {u} : Pictures(v)' = Pictures(v) /\ ImagesOf(v)' = ImagesOf(v)
  <2>1. ASSUME NEW v \in Owners \ {u}, NEW x \in ShelfIds
        PROVE  /\ (shelf'[x].owner = v) <=> (shelf[x].owner = v)
               /\ shelf[x].owner = v => shelf'[x].images = shelf[x].images
    BY <1>2, <1>6, <1>7
  <2>2. QED
    BY <2>1, SameOf
<1>10. Pictures(u)' = Pictures(u) \cup {<<id, n>>} /\ <<id, n>> \notin Pictures(u)
  <2>1. \A p : p \in Pictures(u)' <=> \E x \in Of(u) : \E m \in 1 .. shelf'[x].images : p = <<x, m>>
    BY <1>2, <1>8 DEF Pictures
  <2>2. \A x \in Of(u) \ {id} : shelf'[x].images = shelf[x].images
    BY <1>6 DEF Of
  <2>3. shelf'[id].images = n
    BY <1>4, <1>6
  <2>4. 1 .. n = (1 .. shelf[id].images) \cup {n} /\ n \notin 1 .. shelf[id].images
    BY <1>3
  <2>5. QED
    BY <1>2, <2>1, <2>2, <2>3, <2>4, PictureOf
<1>11. /\ IsFiniteSet(Pictures(u)') /\ ImagesOf(u)' = ImagesOf(u) + 1 /\ ImagesOf(u) \in Nat
  <2> DEFINE S == Pictures(u)
             x == <<id, n>>
  <2>1. IsFiniteSet(S) /\ x \notin S /\ Pictures(u)' = S \cup {x}
    BY <1>10, ShelfKnown
  <2>2. IsFiniteSet(S \cup {x}) /\ Cardinality(S \cup {x}) = Cardinality(S) + 1 /\ Cardinality(S) \in Nat
    <3> HIDE DEF S, x
    <3>1. QED
      BY <2>1, OneMore
  <2>3. QED
    BY <2>1, <2>2 DEF ImagesOf
<1>12. ShelfTypeOK'
  <2>1. uploading' \in [Owners -> ShelfIds \cup {None}]
    BY <1>1, ShelfKnown
  <2>2. handed' \in ShelfIds \cup {None}
    BY <1>1, ShelfKnown
  <2>3. slipped' \subseteq ShelfIds
    BY <1>1, <1>2, ShelfKnown
  <2>4. QED
    BY <1>1, <1>4, <1>6, <2>1, <2>2, <2>3, ShelfKnown DEF ShelfTypeOK
<1>13. HandedOutUnused' /\ FoundEmpty'
  <2>1. slipped \subseteq slipped' /\ \A v \in Owners : creating[v] = id => id \in slipped'
    BY <1>1
  <2>2. HandedOutUnused'
    BY <1>1, <1>6, <2>1, ShelfKnown DEF HandedOutUnused
  <2>3. FoundEmpty'
    BY <1>1, <1>6, <2>1, ShelfKnown DEF FoundEmpty
  <2>4. QED
    BY <2>2, <2>3
<1>14. QuotasHold'
  <2>1. ImagesOf(u)' <= ImageQuota
    BY <1>2, <1>11, QuotaAssumption
  <2>2. QED
    BY <1>8, <1>9, <2>1, ShelfKnown DEF QuotasHold
<1>15. OwnersKept'
  BY <1>1, <1>7, <1>8, ShelfKnown DEF OwnersKept
<1>16. RoomToUpload'
  <2>1. \A x \in ShelfIds : shelf'[x].owner = None => shelf'[x].images = 0
    BY <1>2, <1>4, <1>6, NoneAssumption, ShelfKnown DEF RoomToUpload
  <2>2. \A v \in Owners : uploading'[v] # None => v # u /\ uploading[v] # None
    BY <1>1, ShelfKnown
  <2>3. QED
    BY <1>8, <1>9, <1>11, <2>1, <2>2, ShelfKnown DEF RoomToUpload
<1>17. QED
  BY <1>12, <1>13, <1>14, <1>15, <1>16 DEF ShelfInduction, ShelfInv

LEMMA EndUploadStep ==
  ASSUME ShelfInduction, NEW u \in Owners, NEW stored \in BOOLEAN, EndUpload(u, stored)
  PROVE  ShelfInduction'
<1>1. CASE stored = TRUE
  BY <1>1, StoreStep
<1>2. CASE stored = FALSE
  <2>1. /\ shelf' = shelf /\ uploading' = [uploading EXCEPT ![u] = None] /\ handed' = handed
        /\ creating' = creating /\ slipped' = slipped
    BY <1>2 DEF EndUpload
  <2>2. uploading' \in [Owners -> ShelfIds \cup {None}]
    BY <2>1, ShelfKnown
  <2>3. HandedOutUnused' /\ OwnersKept' /\ FoundEmpty'
    BY <2>1, ShelfKnown DEF HandedOutUnused, OwnersKept, FoundEmpty, Of
  <2>4. \A v \in Owners : uploading'[v] # None => ImagesOf(v) < ImageQuota
    BY <2>1, ShelfKnown DEF RoomToUpload
  <2>5. QED
    BY <2>1, <2>2, <2>3, <2>4, ShelfKnown, LockStep
<1>3. QED
  BY <1>1, <1>2

----------------------------------------------------------------------------
(* PortalShelf: the theorems.                                              *)

LEMMA ShelfStart ==
  ASSUME ShelfInit
  PROVE  ShelfInduction
<1>1. /\ \A id \in ShelfIds : shelf[id] = NoShelf
      /\ NoShelf \in Shelves /\ NoShelf.owner = None /\ NoShelf.images = 0
      /\ NoShelf.turns = 0 /\ NoShelf.busy = FALSE
  BY DEF ShelfInit, NoShelf, Shelves
<1>2. ShelfTypeOK /\ HandedOutUnused
  BY <1>1 DEF ShelfInit, ShelfTypeOK, HandedOutUnused
<1>3. \A u \in Owners : Of(u) = {} /\ Pictures(u) = {}
  BY <1>1, NoneAssumption DEF Of, Pictures
<1>4. QuotasHold
  <2>1. \A u \in Owners : Cardinality(Of(u)) = 0 /\ ImagesOf(u) = 0
    BY <1>3, FS_EmptySet DEF ImagesOf
  <2>2. QED
    BY <2>1, QuotaAssumption DEF QuotasHold
<1>5. OwnersKept /\ FoundEmpty
  BY DEF ShelfInit, OwnersKept, FoundEmpty
<1>6. RoomToUpload
  BY <1>1, <1>3, FS_EmptySet DEF ShelfInit, RoomToUpload
<1>7. QED
  BY <1>2, <1>4, <1>5, <1>6 DEF ShelfInduction, ShelfInv

LEMMA ShelfStep ==
  ASSUME ShelfInduction, [ShelfNext]_shelfVars
  PROVE  ShelfInduction'
<1>1. CASE UNCHANGED shelfVars
  BY <1>1, ShelfKnown, LockStep DEF shelfVars, HandedOutUnused, OwnersKept, FoundEmpty, RoomToUpload, Of
<1>2. QED
  BY <1>1, CreateConversationStep, FindUnusedStep, ReuseStep, TurnStep, BeginUploadStep, EndUploadStep
     DEF ShelfNext

\* The inductive invariant: creations and uploads are about conversations of
\* their owner, what a creation waits for was found empty, and whoever uploads
\* has room for the picture (create_conversation, add_image).
THEOREM ShelfInvariant == ShelfSpec => []ShelfInduction
<1>1. ShelfInit => ShelfInduction
  BY ShelfStart
<1>2. ShelfInduction /\ [ShelfNext]_shelfVars => ShelfInduction'
  BY ShelfStep
<1>3. QED
  BY <1>1, <1>2, PTL DEF ShelfSpec

\* However many creations, uploads and turns overlap, no owner has more
\* conversations or pictures than the quotas allow, and a conversation that is
\* handed out again was never written in and has no picture but one that was
\* stored while the search waited for its row.
THEOREM QuotasKept == ShelfSpec => []ShelfInv
<1>1. ShelfInduction => ShelfInv
  BY DEF ShelfInduction
<1>2. QED
  BY <1>1, ShelfInvariant, PTL

----------------------------------------------------------------------------
(* PortalAccounts: the invariant by the tables it is about.                *)

AccountsPart ==
  /\ accounts \in [Users -> Accounts]
  /\ owner \in [Orders -> Newcomers \cup {Nobody}]
  /\ \A u \in Newcomers, o \in Orders : owner[o] = u <=> accounts[u].order = o
  /\ OrderWithAccount /\ AdminRemains

SessionsPart ==
  /\ sessions \in [Tokens -> {Unissued, Gone} \cup [state : {"open", "expired"}, user : Users]]
  /\ \A t \in Tokens : sessions[t].user # Nobody => accounts[sessions[t].user].there
  /\ OpenIsActive

BrakePart ==
  /\ window \in Windows
  /\ attempts \in [Scopes -> [window : Windows, count : Nat]]
  /\ \A scope \in Scopes : attempts[scope].count <= LimitOf(scope)
  /\ admitted \in [Windows -> [Scopes -> Nat]]
  /\ late \in [Scopes -> Nat]
  /\ GuessesCounted

RequestsPart ==
  /\ requests \in [Requests -> Pending]
  /\ \A r \in Requests : WellFormed(requests[r])

LEMMA LimitsKnown ==
  /\ \A scope \in Scopes : LimitOf(scope) \in Nat /\ 1 <= LimitOf(scope)
  /\ Windows \subseteq Nat /\ 0 \in Windows
BY LimitsAssumption DEF LimitOf, Windows

LEMMA OneMoreTime ==
  ASSUME NEW limit \in Nat, NEW n \in Nat
  PROVE  limit * (n + 1) = limit * n + limit /\ limit * (1 + n) = limit * n + limit /\ limit * n \in Nat
OBVIOUS

LEMMA CountedIsBounded ==
  ASSUME BrakePart
  PROVE  GuessesBounded
<1> SUFFICES ASSUME NEW w \in Windows, NEW scope \in Scopes
             PROVE  admitted[w][scope] <= LimitOf(scope) * (1 + late[scope])
  BY DEF GuessesBounded
<1> DEFINE limit == LimitOf(scope)
           n == late[scope]
           turn == Turn(w, scope)
           times == limit * n
<1>1. limit \in Nat /\ n \in Nat /\ admitted[w][scope] \in Nat
  BY LimitsKnown DEF BrakePart
<1>2. turn \in Nat /\ turn <= limit
  BY <1>1 DEF BrakePart, Turn
<1>3. admitted[w][scope] <= times + turn
  BY DEF BrakePart, GuessesCounted
<1>4. times \in Nat /\ limit * (1 + n) = times + limit
  BY <1>1, OneMoreTime
<1> HIDE DEF limit, n, turn, times
<1>5. admitted[w][scope] <= limit * (1 + n)
  BY <1>1, <1>2, <1>3, <1>4
<1>6. QED
  BY <1>5 DEF limit, n

LEMMA Parts == AccountsInduction <=> AccountsPart /\ SessionsPart /\ BrakePart /\ RequestsPart
<1>1. AccountsInduction => AccountsPart /\ SessionsPart /\ BrakePart /\ RequestsPart
  BY DEF AccountsInduction, AccountsInv, AccountsTypeOK, AccountsPart, SessionsPart, BrakePart, RequestsPart
<1>2. AccountsPart /\ SessionsPart /\ BrakePart /\ RequestsPart => AccountsInduction
  BY CountedIsBounded
     DEF AccountsInduction, AccountsInv, AccountsTypeOK, AccountsPart, SessionsPart, BrakePart, RequestsPart
<1>3. QED
  BY <1>1, <1>2

LEMMA PartsNext == AccountsPart' /\ SessionsPart' /\ BrakePart' /\ RequestsPart' => AccountsInduction'
BY Parts, PTL

\* What a part is about does not change.
LEMMA PartsKept ==
  /\ AccountsPart /\ UNCHANGED <<accounts, owner>> => AccountsPart'
  /\ SessionsPart /\ UNCHANGED <<accounts, sessions>> => SessionsPart'
  /\ BrakePart /\ UNCHANGED brakeVars => BrakePart'
  /\ RequestsPart /\ UNCHANGED requests => RequestsPart'
<1>1. AccountsPart /\ UNCHANGED <<accounts, owner>> => AccountsPart'
  BY DEF AccountsPart, OrderWithAccount, AdminRemains, ActiveAdmins, Active
<1>2. SessionsPart /\ UNCHANGED <<accounts, sessions>> => SessionsPart'
  BY DEF SessionsPart, OpenIsActive, Active
<1>3. BrakePart /\ UNCHANGED brakeVars => BrakePart'
  BY DEF BrakePart, GuessesCounted, Turn, brakeVars
<1>4. RequestsPart /\ UNCHANGED requests => RequestsPart'
  BY DEF RequestsPart
<1>5. QED
  BY <1>1, <1>2, <1>3, <1>4

----------------------------------------------------------------------------
(* PortalAccounts: requests and the brake.                                 *)

LEMMA RequestMoves ==
  ASSUME RequestsPart, NEW r \in Requests, NEW request \in Pending, WellFormed(request), Becomes(r, request)
  PROVE  RequestsPart'
BY DEF RequestsPart, Becomes

LEMMA ReadyKnown == Ready \in Pending /\ WellFormed(Ready)
BY LimitsKnown DEF Ready, Pending, WellFormed

LEMMA RequestEnds ==
  ASSUME RequestsPart, NEW r \in Requests, Ends(r)
  PROVE  RequestsPart'
BY ReadyKnown, RequestMoves DEF Ends

LEMMA RequestGoes ==
  ASSUME RequestsPart, NEW r \in Requests, NEW at \in {"known", "replace"}, Goes(r, at)
  PROVE  RequestsPart'
<1> DEFINE request == [requests[r] EXCEPT !.at = at]
<1>1. requests[r] \in Pending /\ WellFormed(requests[r])
  BY DEF RequestsPart
<1>2. request \in Pending
  BY <1>1 DEF Pending
<1>3. request.op = requests[r].op /\ request.user = requests[r].user /\ request.at = at
  BY <1>1 DEF Pending
<1>4. WellFormed(request)
  BY <1>1, <1>3 DEF WellFormed
<1>5. QED
  BY <1>2, <1>4, RequestMoves DEF Goes

LEMMA MinOfTwo ==
  ASSUME NEW a \in Nat, NEW b \in Nat
  PROVE  Min({a, b}) = IF a <= b THEN a ELSE b
<1> DEFINE m == IF a <= b THEN a ELSE b
<1>1. m \in {a, b} /\ \A y \in {a, b} : m =< y
  OBVIOUS
<1>2. \A x \in {a, b} : (\A y \in {a, b} : x =< y) => x = m
  OBVIOUS
<1>3. QED
  BY <1>1, <1>2 DEF Min

LEMMA CountingStep ==
  ASSUME AccountsInduction, NEW r \in Requests, NEW op \in {"login", "register"}, NEW u \in Users,
         op = "register" => u \in Newcomers, NEW cookie \in Cookies, Counting(r, op, u, cookie)
  PROVE  AccountsInduction'
<1> DEFINE request == [Ready EXCEPT !.op = op, !.at = "counting", !.user = u, !.old = cookie,
                                    !.window = window]
<1>1. UNCHANGED <<accounts, owner, sessions, brakeVars>> /\ Becomes(r, request)
  BY DEF Counting
<1>2. window \in Windows
  BY Parts DEF BrakePart
<1>3. request \in Pending /\ request.op = op /\ request.at = "counting" /\ request.user = u
  BY <1>2 DEF Ready, Pending, Cookies
<1>4. WellFormed(request)
  BY <1>3 DEF WellFormed
<1> HIDE DEF request
<1>5. RequestsPart'
  BY <1>1, <1>3, <1>4, Parts, RequestMoves
<1>6. QED
  BY <1>1, <1>5, Parts, PartsKept, PartsNext

\* A scope takes one more attempt of window w; its row was of window x.
LEMMA OneTurn ==
  ASSUME NEW limit \in Nat, 1 <= limit, NEW n \in Nat, NEW w \in Nat, NEW v \in Nat, NEW x \in Nat,
         NEW c \in Nat, c <= limit, NEW a \in Nat, NEW good \in BOOLEAN,
         a <= limit * n + (IF v = x THEN c ELSE IF v < x THEN limit ELSE 0),
         NEW k, k = IF x = w THEN c + 1 ELSE 1, good => k <= limit
  PROVE  (IF v = w /\ good THEN a + 1 ELSE a)
           <= limit * (IF w < x THEN n + 1 ELSE n)
              + (IF v = w THEN (IF k <= limit THEN k ELSE limit) ELSE IF v < w THEN limit ELSE 0)
<1> DEFINE times == limit * n
           after == limit * (IF w < x THEN n + 1 ELSE n)
<1>1. times \in Nat /\ after = IF w < x THEN times + limit ELSE times
  BY OneMoreTime
<1>2. a <= times + (IF v = x THEN c ELSE IF v < x THEN limit ELSE 0)
  OBVIOUS
<1> HIDE DEF times, after
<1>3. (IF v = w /\ good THEN a + 1 ELSE a)
        <= after + (IF v = w THEN (IF k <= limit THEN k ELSE limit) ELSE IF v < w THEN limit ELSE 0)
  <2>1. CASE w = x
    BY <1>1, <1>2, <2>1
  <2>2. CASE w < x
    BY <1>1, <1>2, <2>2
  <2>3. CASE x < w
    BY <1>1, <1>2, <2>3
  <2>4. QED
    BY <2>1, <2>2, <2>3
<1>4. QED
  BY <1>3 DEF after

\* What the transaction that counts does to one scope.
LEMMA AdmitScope ==
  ASSUME AccountsInduction, NEW r \in Requests, AdmitLogin(r), NEW scope \in Scopes
  PROVE  /\ attempts'[scope] \in [window : Windows, count : Nat]
         /\ attempts'[scope].count <= LimitOf(scope)
         /\ late'[scope] \in Nat
         /\ \A v \in Windows : /\ admitted'[v][scope] \in Nat
                               /\ admitted'[v][scope] <= LimitOf(scope) * late'[scope] + Turn(v, scope)'
<1> DEFINE w == requests[r].window
           scopes == ScopesOf(requests[r])
           limit == LimitOf(scope)
           x == attempts[scope].window
           c == attempts[scope].count
           n == late[scope]
           k == Count(scope, w)
           good == Admitted(scopes, w)
<1>1. /\ w \in Windows /\ x \in Windows /\ Windows \subseteq Nat /\ limit \in Nat /\ 1 <= limit
      /\ c \in Nat /\ c <= limit /\ n \in Nat
      /\ attempts[scope] \in [window : Windows, count : Nat]
  BY Parts, LimitsKnown DEF RequestsPart, Pending, BrakePart
<1>2. ASSUME NEW v \in Windows
      PROVE  /\ admitted[v] \in [Scopes -> Nat] /\ admitted[v][scope] \in Nat
             /\ admitted[v][scope] <= limit * n + (IF v = x THEN c ELSE IF v < x THEN limit ELSE 0)
  BY Parts DEF BrakePart, GuessesCounted, Turn
<1>3. k = (IF x = w THEN c + 1 ELSE 1) /\ k \in Nat
  BY <1>1 DEF Count
<1>4. Min({k, limit}) = IF k <= limit THEN k ELSE limit
  BY <1>1, <1>3, MinOfTwo
<1>5. CASE scope \notin scopes
  <2>1. attempts'[scope] = attempts[scope] /\ late'[scope] = late[scope]
    BY <1>5 DEF AdmitLogin
  <2>2. ASSUME NEW v \in Windows PROVE admitted'[v][scope] = admitted[v][scope]
    <3>1. CASE UNCHANGED admitted
      BY <3>1
    <3>2. CASE admitted' = [admitted EXCEPT ![w] =
                [s \in Scopes |-> IF s \in scopes THEN @[s] + 1 ELSE @[s]]]
      BY <1>2, <1>5, <3>2, Parts DEF BrakePart
    <3>3. QED
      BY <3>1, <3>2 DEF AdmitLogin
  <2>3. QED
    BY <1>1, <1>2, <2>1, <2>2 DEF Turn
<1>6. CASE scope \in scopes
  <2>1. /\ attempts'[scope] = [window |-> w, count |-> Min({k, limit})]
        /\ late'[scope] = IF w < x THEN n + 1 ELSE n
    BY <1>6 DEF AdmitLogin, Upsert
  <2>2. attempts'[scope].window = w /\ attempts'[scope].count = IF k <= limit THEN k ELSE limit
    BY <1>4, <2>1
  <2>3. good => k <= limit
    BY <1>6 DEF Admitted
  <2>4. ASSUME NEW v \in Windows
        PROVE  admitted'[v][scope] = IF v = w /\ good THEN admitted[v][scope] + 1 ELSE admitted[v][scope]
    BY <1>6, <1>2, Parts DEF AdmitLogin, BrakePart
  <2>5. ASSUME NEW v \in Windows
        PROVE  Turn(v, scope)' = IF v = w THEN (IF k <= limit THEN k ELSE limit)
                                 ELSE IF v < w THEN limit ELSE 0
    BY <2>2 DEF Turn, LimitOf
  <2>6. good \in BOOLEAN
    BY DEF Admitted
  <2> HIDE DEF w, scopes, limit, x, c, n, k, good
  <2>7. ASSUME NEW v \in Windows
        PROVE  /\ admitted'[v][scope] \in Nat
               /\ admitted'[v][scope] <= limit * late'[scope] + Turn(v, scope)'
    <3>1. admitted'[v][scope] \in Nat
      BY <1>2, <2>4
    <3>2. (IF v = w /\ good THEN admitted[v][scope] + 1 ELSE admitted[v][scope])
            <= limit * (IF w < x THEN n + 1 ELSE n)
               + (IF v = w THEN (IF k <= limit THEN k ELSE limit) ELSE IF v < w THEN limit ELSE 0)
      BY <1>1, <1>2, <1>3, <2>3, <2>6, OneTurn
    <3>3. QED
      BY <2>1, <2>4, <2>5, <3>1, <3>2
  <2>8. attempts'[scope] \in [window : Windows, count : Nat] /\ attempts'[scope].count <= limit
    BY <1>1, <1>3, <1>4, <2>1
  <2>9. late'[scope] \in Nat
    BY <1>1, <2>1
  <2>10. QED
    BY <2>7, <2>8, <2>9 DEF limit
<1>7. QED
  BY <1>5, <1>6

LEMMA AdmitLoginStep ==
  ASSUME AccountsInduction, NEW r \in Requests, AdmitLogin(r)
  PROVE  AccountsInduction'
<1> DEFINE request == [requests[r] EXCEPT !.at = "admitted", !.window = 0]
<1>1. /\ UNCHANGED <<accounts, owner, sessions, window>>
      /\ Becomes(r, request) \/ Ends(r)
  BY DEF AdmitLogin
<1>2. requests[r] \in Pending /\ WellFormed(requests[r]) /\ requests[r].at = "counting"
  BY Parts DEF RequestsPart, AdmitLogin
<1>3. request \in Pending /\ request.op = requests[r].op /\ request.user = requests[r].user
      /\ request.at = "admitted"
  BY <1>2, LimitsKnown DEF Pending
<1>4. WellFormed(request)
  BY <1>2, <1>3 DEF WellFormed
<1> HIDE DEF request
<1>5. RequestsPart'
  BY <1>1, <1>3, <1>4, Parts, RequestMoves, RequestEnds
<1>6. BrakePart'
  <2>1. attempts' \in [Scopes -> [window : Windows, count : Nat]]
    <3>1. attempts' = [scope \in Scopes |-> attempts'[scope]]
      BY DEF AdmitLogin
    <3>2. QED
      BY <3>1, AdmitScope
  <2>2. late' \in [Scopes -> Nat]
    <3>1. late' = [scope \in Scopes |-> late'[scope]]
      BY DEF AdmitLogin
    <3>2. QED
      BY <3>1, AdmitScope
  <2>3. admitted' \in [Windows -> [Scopes -> Nat]]
    <3>1. admitted \in [Windows -> [Scopes -> Nat]]
      BY Parts DEF BrakePart
    <3>2. CASE UNCHANGED admitted
      BY <3>1, <3>2
    <3>3. ASSUME NEW w \in Windows, NEW row \in [Scopes -> Nat], admitted' = [admitted EXCEPT ![w] = row]
          PROVE  admitted' \in [Windows -> [Scopes -> Nat]]
      BY <3>1, <3>3
    <3>4. requests[r].window \in Windows
      BY <1>2 DEF Pending
    <3>5. [scope \in Scopes |-> IF scope \in ScopesOf(requests[r])
                                THEN admitted[requests[r].window][scope] + 1
                                ELSE admitted[requests[r].window][scope]] \in [Scopes -> Nat]
      BY <3>1, <3>4
    <3>6. QED
      BY <3>2, <3>3, <3>4, <3>5 DEF AdmitLogin
  <2>4. \A scope \in Scopes : attempts'[scope].count <= LimitOf(scope)
    BY AdmitScope
  <2>5. GuessesCounted'
    BY AdmitScope DEF GuessesCounted, LimitOf
  <2>6. window' \in Windows
    BY <1>1, Parts DEF BrakePart
  <2>7. QED
    BY <2>1, <2>2, <2>3, <2>4, <2>5, <2>6 DEF BrakePart, LimitOf
<1>7. QED
  BY <1>1, <1>5, <1>6, Parts, PartsKept, PartsNext

LEMMA NextWindowStep ==
  ASSUME AccountsInduction, NextWindow
  PROVE  AccountsInduction'
<1>1. window' = window + 1 /\ window < MaxWindow
      /\ UNCHANGED <<accounts, owner, sessions, requests, attempts, admitted, late>>
  BY DEF NextWindow
<1>2. window' \in Windows
  BY <1>1, Parts, LimitsAssumption DEF BrakePart, Windows
<1>3. GuessesCounted'
  BY <1>1, Parts DEF BrakePart, GuessesCounted, Turn
<1>4. BrakePart'
  BY <1>1, <1>2, <1>3, Parts DEF BrakePart
<1>5. QED
  BY <1>1, <1>4, Parts, PartsKept, PartsNext

LEMMA CheckPasswordStep ==
  ASSUME AccountsInduction, NEW r \in Requests, CheckPassword(r)
  PROVE  AccountsInduction'
<1>1. /\ UNCHANGED <<accounts, owner, sessions, brakeVars>>
      /\ Goes(r, "known") \/ Ends(r)
  BY DEF CheckPassword
<1>2. RequestsPart'
  BY <1>1, Parts, RequestGoes, RequestEnds
<1>3. QED
  BY <1>1, <1>2, Parts, PartsKept, PartsNext

----------------------------------------------------------------------------
(* PortalAccounts: accounts and sessions.                                  *)

LEMMA MinIsOne ==
  ASSUME NEW S \in SUBSET Nat, S # {}
  PROVE  Min(S) \in S
<1>1. PICK m \in S : \A k \in S : <<k, m>> \notin OpToRel(<, Nat)
  BY WFMin, NatLessThanWellFounded, Zenon
<1>2. \A k \in S : ~(k < m)
  BY <1>1, Zenon DEF OpToRel
<1>3. \A k \in S : m =< k
  BY <1>2
<1>4. QED
  BY <1>3 DEF Min

\* Sessions by what they may be.
Session == {Unissued, Gone} \cup [state : {"open", "expired"}, user : Users]

LEMMA SessionKnown ==
  /\ Gone.state = "gone" /\ Gone.user = Nobody /\ Gone \in Session
  /\ Unissued.state = "unissued" /\ Unissued.user = Nobody /\ Unissued \in Session
  /\ \A session \in Session : /\ session.state = "unissued" => session = Unissued
                              /\ session.state \in {"open", "expired"} => session.user \in Users
  /\ \A u \in Users : [state |-> "open", user |-> u] \in Session
BY DEF Session, Gone, Unissued

LEMMA RegisterStep ==
  ASSUME AccountsInduction, NEW r \in Requests, Register(r)
  PROVE  AccountsInduction'
<1> DEFINE u == requests[r].user
           free == {o \in Orders : owner[o] = Nobody}
           m == Min(free)
           row == [active |-> TRUE, order |-> m, there |-> TRUE]
<1>1. AccountsPart /\ SessionsPart /\ BrakePart /\ RequestsPart
  BY Parts
<1>2. UNCHANGED <<sessions, brakeVars>>
  BY DEF Register
<1>3. CASE Ends(r) /\ UNCHANGED <<accounts, owner>>
  BY <1>1, <1>2, <1>3, RequestEnds, PartsKept, PartsNext
<1>4. ASSUME ~accounts[u].there, free # {}, accounts' = [accounts EXCEPT ![u] = row],
             owner' = [owner EXCEPT ![m] = u], Goes(r, "known")
      PROVE  AccountsInduction'
  <2>1. m \in Orders /\ owner[m] = Nobody
    <3>1. free \in SUBSET Nat
      BY OrdersAssumption
    <3>2. m \in free
      BY <1>4, <3>1, MinIsOne
    <3>3. QED
      BY <3>2
  <2> HIDE DEF m
  <2>2. u \in Newcomers /\ u \in Users /\ u # Nobody
    BY <1>1, NamesAssumption DEF Register, At, RequestsPart, WellFormed, Users
  <2> HIDE DEF u
  <2>3. row \in Accounts
    BY <2>1 DEF Accounts
  <2>4. /\ accounts'[u] = row /\ \A v \in Users \ {u} : accounts'[v] = accounts[v]
        /\ accounts' \in [Users -> Accounts]
    BY <1>1, <1>4, <2>2, <2>3 DEF AccountsPart
  <2>5. /\ owner'[m] = u /\ \A o \in Orders \ {m} : owner'[o] = owner[o]
        /\ owner' \in [Orders -> Newcomers \cup {Nobody}]
    BY <1>1, <1>4, <2>1, <2>2 DEF AccountsPart
  <2>6. \A o \in Orders : owner[o] # u
    <3>1. accounts[u].order = Nobody
      BY <1>1, <1>4, <2>2 DEF AccountsPart, OrderWithAccount, u
    <3>2. QED
      BY <1>1, <2>2, <3>1, NamesAssumption DEF AccountsPart
  <2>7. ASSUME NEW v \in Newcomers, NEW o \in Orders
        PROVE  owner'[o] = v <=> accounts'[v].order = o
    <3>1. v \in Users /\ v # Nobody /\ (owner[o] = v <=> accounts[v].order = o)
      BY <1>1, NamesAssumption DEF AccountsPart, Users
    <3>2. CASE v = u
      BY <2>4, <2>5, <2>6, <3>2
    <3>3. CASE v # u
      BY <2>1, <2>4, <2>5, <3>1, <3>3
    <3>4. QED
      BY <3>2, <3>3
  <2>8. OrderWithAccount'
    BY <1>1, <2>4 DEF AccountsPart, OrderWithAccount
  <2>9. \A v \in Users : Active(v) => Active(v)'
    BY <2>4 DEF Active
  <2>10. AdminRemains'
    BY <1>1, <2>9 DEF AccountsPart, AdminRemains, ActiveAdmins, Users
  <2>11. AccountsPart'
    BY <2>4, <2>5, <2>7, <2>8, <2>10 DEF AccountsPart
  <2>12. SessionsPart'
    <3>1. \A v \in Users : accounts[v].there => accounts'[v].there
      BY <2>4
    <3>2. \A t \in Tokens : sessions[t].user # Nobody => sessions[t].user \in Users
      BY <1>1, SessionKnown DEF SessionsPart, Session, Unissued, Gone
    <3>3. \A t \in Tokens : sessions[t].state = "open" => sessions[t].user \in Users
      BY <1>1, SessionKnown DEF SessionsPart, Session
    <3>4. \A t \in Tokens : sessions[t].user # Nobody => accounts'[sessions[t].user].there
      BY <1>1, <3>1, <3>2 DEF SessionsPart
    <3>5. OpenIsActive'
      BY <1>1, <1>2, <2>9, <3>3 DEF SessionsPart, OpenIsActive, Active
    <3>6. QED
      BY <1>1, <1>2, <3>4, <3>5 DEF SessionsPart
  <2>13. RequestsPart'
    BY <1>1, <1>4, RequestGoes
  <2>14. QED
    BY <1>1, <1>2, <2>11, <2>12, <2>13, PartsKept, PartsNext
<1>5. QED
  BY <1>3, <1>4 DEF Register

\* A session is new, or a step nearer its end.
LEMMA SessionStep ==
  ASSUME SessionsPart, UNCHANGED accounts, sessions' \in [Tokens -> Session],
         \A t \in Tokens : \/ sessions'[t].user = sessions[t].user
                              /\ (sessions'[t].state = "open" => sessions[t].state = "open")
                           \/ sessions'[t] = Gone
                           \/ sessions'[t].user \in Users /\ Active(sessions'[t].user)
  PROVE  SessionsPart'
<1>1. \A t \in Tokens : sessions'[t].user # Nobody => accounts[sessions'[t].user].there
  BY SessionKnown DEF SessionsPart, Active
<1>2. \A t \in Tokens : sessions'[t].state = "open" => Active(sessions'[t].user)
  BY SessionKnown DEF SessionsPart, OpenIsActive
<1>3. QED
  BY <1>1, <1>2 DEF SessionsPart, Session, OpenIsActive, Active

LEMMA CreateSessionStep ==
  ASSUME AccountsInduction, NEW r \in Requests, NEW t \in Tokens, CreateSession(r, t)
  PROVE  AccountsInduction'
<1> DEFINE u == requests[r].user
<1>1. AccountsPart /\ SessionsPart /\ BrakePart /\ RequestsPart
  BY Parts
<1>2. UNCHANGED <<accounts, owner, brakeVars>>
  BY DEF CreateSession
<1>3. CASE Ends(r) /\ UNCHANGED sessions
  BY <1>1, <1>2, <1>3, RequestEnds, PartsKept, PartsNext
<1>4. ASSUME Active(u), Goes(r, "replace"),
             sessions' = [x \in Tokens |->
                            IF x = t THEN [state |-> "open", user |-> u]
                            ELSE IF sessions[x].state = "expired" THEN Gone ELSE sessions[x]]
      PROVE  AccountsInduction'
  <2>1. u \in Users
    BY <1>1 DEF CreateSession, At, RequestsPart, WellFormed
  <2>2. \A x \in Tokens : sessions[x] \in Session
    BY <1>1 DEF SessionsPart, Session
  <2> HIDE DEF u
  <2>3. sessions' \in [Tokens -> Session]
    BY <1>4, <2>1, <2>2, SessionKnown
  <2>4. ASSUME NEW x \in Tokens
        PROVE  \/ sessions'[x].user = sessions[x].user
                  /\ (sessions'[x].state = "open" => sessions[x].state = "open")
               \/ sessions'[x] = Gone
               \/ sessions'[x].user \in Users /\ Active(sessions'[x].user)
    BY <1>4, <2>1
  <2>5. SessionsPart'
    BY <1>1, <1>2, <2>3, <2>4, SessionStep
  <2>6. RequestsPart'
    BY <1>1, <1>4, RequestGoes
  <2>7. QED
    BY <1>1, <1>2, <2>5, <2>6, PartsKept, PartsNext
<1>5. QED
  BY <1>3, <1>4 DEF CreateSession

LEMMA RevokeSessionStep ==
  ASSUME AccountsInduction, NEW r \in Requests, RevokeSession(r)
  PROVE  AccountsInduction'
<1>1. AccountsPart /\ SessionsPart /\ BrakePart /\ RequestsPart
  BY Parts
<1>2. /\ UNCHANGED <<accounts, owner, brakeVars>> /\ Ends(r)
      /\ \/ sessions' = sessions
         \/ sessions' = [sessions EXCEPT ![requests[r].old] = Gone]
  BY DEF RevokeSession
<1>3. sessions' \in [Tokens -> Session] /\ \A t \in Tokens : sessions'[t] \in {sessions[t], Gone}
  BY <1>1, <1>2, SessionKnown DEF SessionsPart, Session
<1>4. SessionsPart'
  BY <1>1, <1>2, <1>3, SessionStep
<1>5. QED
  BY <1>1, <1>2, <1>4, RequestEnds, PartsKept, PartsNext

LEMMA ExpireStep ==
  ASSUME AccountsInduction, NEW t \in Tokens, Expire(t)
  PROVE  AccountsInduction'
<1> DEFINE session == [sessions[t] EXCEPT !.state = "expired"]
<1>1. AccountsPart /\ SessionsPart /\ BrakePart /\ RequestsPart
  BY Parts
<1>2. /\ UNCHANGED <<accounts, owner, requests, brakeVars>> /\ sessions[t].state = "open"
      /\ sessions' = [sessions EXCEPT ![t] = session]
  BY DEF Expire
<1>3. sessions[t] \in [state : {"open", "expired"}, user : Users]
  BY <1>1, <1>2 DEF SessionsPart, Unissued, Gone
<1>4. session \in [state : {"open", "expired"}, user : Users]
  BY <1>3
<1>5. session.user = sessions[t].user /\ session.state = "expired" /\ session \in Session
  BY <1>3, <1>4 DEF Session
<1> HIDE DEF session
<1>6. /\ sessions' \in [Tokens -> Session] /\ sessions'[t] = session
      /\ \A x \in Tokens \ {t} : sessions'[x] = sessions[x]
  BY <1>1, <1>2, <1>5 DEF SessionsPart, Session
<1>7. SessionsPart'
  BY <1>1, <1>2, <1>5, <1>6, SessionStep
<1>8. QED
  BY <1>1, <1>2, <1>7, PartsKept, PartsNext

LEMMA BeginsStep ==
  ASSUME AccountsInduction, NEW r \in Requests, NEW t \in Tokens,
         \/ Logout(r, t)
         \/ \E target \in Users, active \in BOOLEAN : Administrator(r, t, target, active)
  PROVE  AccountsInduction'
<1>1. AccountsPart /\ SessionsPart /\ BrakePart /\ RequestsPart
  BY Parts
<1>2. UNCHANGED <<accounts, owner, sessions, brakeVars>>
  BY DEF Logout, Administrator
<1>3. CASE Logout(r, t)
  <2> DEFINE request == [Ready EXCEPT !.op = "logout", !.at = "replace", !.old = t]
  <2>1. request \in Pending /\ request.op = "logout" /\ request.at = "replace"
    BY LimitsKnown DEF Ready, Pending
  <2>2. WellFormed(request)
    BY <2>1 DEF WellFormed
  <2>3. Becomes(r, request)
    BY <1>3 DEF Logout
  <2>4. RequestsPart'
    BY <1>1, <2>1, <2>2, <2>3, RequestMoves
  <2>5. QED
    BY <1>1, <1>2, <2>4, PartsKept, PartsNext
<1>4. ASSUME NEW target \in Users, NEW active \in BOOLEAN, Administrator(r, t, target, active)
      PROVE  AccountsInduction'
  <2> DEFINE u == sessions[t].user
             request == [Ready EXCEPT !.op = "status", !.at = "authorised", !.user = u,
                                      !.target = target, !.active = active]
  <2>1. u \in Admins /\ u \in Users /\ Becomes(r, request)
    BY <1>4 DEF Administrator, Users
  <2>2. /\ request \in Pending /\ request.op = "status" /\ request.at = "authorised"
        /\ request.user = u /\ request.target = target
    BY <2>1, LimitsKnown DEF Ready, Pending
  <2>3. WellFormed(request)
    BY <2>1, <2>2 DEF WellFormed
  <2>4. RequestsPart'
    BY <1>1, <2>1, <2>2, <2>3, RequestMoves
  <2>5. QED
    BY <1>1, <1>2, <2>4, PartsKept, PartsNext
<1>5. QED
  BY <1>3, <1>4

\* Whoever disables another administrator is active and stays so: the count
\* of the others is not even needed.
LEMMA SetAccountActiveStep ==
  ASSUME AccountsInduction, NEW r \in Requests, SetAccountActive(r)
  PROVE  AccountsInduction'
<1> DEFINE actor == requests[r].user
           target == requests[r].target
           active == requests[r].active
           row == [accounts[target] EXCEPT !.active = active]
<1>1. AccountsPart /\ SessionsPart /\ BrakePart /\ RequestsPart
  BY Parts
<1>2. /\ UNCHANGED <<owner, brakeVars>> /\ Ends(r)
  BY DEF SetAccountActive
<1>3. RequestsPart'
  BY <1>1, <1>2, RequestEnds
<1>4. CASE UNCHANGED <<accounts, sessions>>
  BY <1>1, <1>2, <1>3, <1>4, PartsKept, PartsNext
<1>5. ASSUME MaySet(actor, target, active),
             accounts' = [accounts EXCEPT ![target].active = active],
             sessions' = [t \in Tokens |-> IF ~active /\ sessions[t].user = target THEN Gone ELSE sessions[t]]
      PROVE  AccountsInduction'
  <2>1. actor \in Admins /\ actor \in Users /\ target \in Users /\ active \in BOOLEAN
    BY <1>1 DEF SetAccountActive, At, RequestsPart, WellFormed, Pending, Users
  <2> HIDE DEF actor, target, active
  <2>2. accounts[target] \in Accounts
    BY <1>1, <2>1 DEF AccountsPart
  <2>3. /\ row \in Accounts /\ row.order = accounts[target].order /\ row.there = accounts[target].there
        /\ row.active = active /\ accounts' = [accounts EXCEPT ![target] = row]
    BY <1>5, <2>1, <2>2 DEF Accounts
  <2> HIDE DEF row
  <2>4. /\ accounts'[target] = row /\ \A v \in Users \ {target} : accounts'[v] = accounts[v]
        /\ accounts' \in [Users -> Accounts]
    BY <1>1, <2>1, <2>3 DEF AccountsPart
  <2>5. \A v \in Users : accounts'[v].order = accounts[v].order /\ accounts'[v].there = accounts[v].there
    BY <2>3, <2>4
  <2>6. \A v \in Users \ {target} : accounts'[v].there /\ accounts'[v].active <=> Active(v)
    BY <2>4 DEF Active
  <2>7. accounts[target].there /\ Active(actor) /\ (~active => actor # target)
    BY <1>5 DEF MaySet
  <2>8. active => accounts'[target].there /\ accounts'[target].active
    BY <2>3, <2>4, <2>7
  <2>9. AdminRemains'
    <3>1. CASE ~active
      <4>1. accounts'[actor].there /\ accounts'[actor].active
        BY <2>1, <2>6, <2>7, <3>1
      <4>2. QED
        BY <2>1, <4>1 DEF AdminRemains, ActiveAdmins, Active
    <3>2. CASE active
      <4>1. PICK a \in Admins : Active(a)
        BY <1>1 DEF AccountsPart, AdminRemains, ActiveAdmins
      <4>2. accounts'[a].there /\ accounts'[a].active
        BY <2>6, <2>8, <3>2, <4>1 DEF Users
      <4>3. QED
        BY <4>1, <4>2 DEF AdminRemains, ActiveAdmins, Active
    <3>3. QED
      BY <2>1, <3>1, <3>2
  <2>10. OrderWithAccount'
    BY <1>1, <2>5 DEF AccountsPart, OrderWithAccount
  <2>11. \A u \in Newcomers, o \in Orders : owner'[o] = u <=> accounts'[u].order = o
    BY <1>1, <1>2, <2>5 DEF AccountsPart, Users
  <2>12. AccountsPart'
    BY <1>1, <1>2, <2>4, <2>9, <2>10, <2>11 DEF AccountsPart
  <2>13. \A t \in Tokens : sessions[t] \in Session /\ sessions'[t] \in {sessions[t], Gone}
    BY <1>1, <1>5 DEF SessionsPart, Session
  <2>14. sessions' \in [Tokens -> Session]
    BY <1>5, <2>13, SessionKnown
  <2>15. ASSUME NEW t \in Tokens, sessions'[t].user # Nobody
         PROVE  accounts'[sessions'[t].user].there
    <3>1. sessions'[t] = sessions[t]
      BY <2>13, <2>15, SessionKnown
    <3>2. sessions[t].user \in Users
      BY <2>13, <2>15, <3>1, SessionKnown DEF Session
    <3>3. QED
      BY <1>1, <2>5, <2>15, <3>1, <3>2 DEF SessionsPart
  <2>16. ASSUME NEW t \in Tokens, sessions'[t].state = "open"
         PROVE  Active(sessions[t].user)' /\ sessions'[t] = sessions[t]
    <3>1. sessions'[t] = sessions[t] /\ sessions[t].state = "open"
      BY <2>13, <2>16, SessionKnown
    <3>2. sessions[t].user \in Users /\ Active(sessions[t].user)
      BY <1>1, <2>13, <3>1, SessionKnown DEF SessionsPart, OpenIsActive
    <3>3. CASE sessions[t].user # target
      BY <1>2, <2>4, <3>1, <3>2, <3>3 DEF Active
    <3>4. CASE sessions[t].user = target
      <4>1. active
        BY <1>5, <2>1, <2>16, <3>4, SessionKnown
      <4>2. accounts'[target].there /\ accounts'[target].active
        BY <2>8, <4>1
      <4>3. QED
        BY <3>1, <3>4, <4>2 DEF Active
    <3>5. QED
      BY <3>3, <3>4
  <2>17. SessionsPart'
    BY <2>14, <2>15, <2>16 DEF SessionsPart, Session, OpenIsActive, Active
  <2>18. QED
    BY <1>1, <1>2, <1>3, <2>12, <2>17, PartsKept, PartsNext
<1>6. QED
  BY <1>4, <1>5 DEF SetAccountActive

LEMMA AbortStep ==
  ASSUME AccountsInduction, NEW r \in Requests, Abort(r)
  PROVE  AccountsInduction'
BY Parts, RequestEnds, PartsKept, PartsNext DEF Abort

----------------------------------------------------------------------------
(* PortalAccounts: the theorems.                                           *)

LEMMA AccountsStart ==
  ASSUME AccountsInit
  PROVE  AccountsInduction
<1> DEFINE there == [active |-> TRUE, order |-> Nobody, there |-> TRUE]
<1>1. /\ there \in Accounts /\ NoAccount \in Accounts
      /\ there.order = Nobody /\ NoAccount.order = Nobody /\ there.there /\ there.active
  BY DEF Accounts, NoAccount
<1>2. \A u \in Users : accounts[u] = IF u \in Admins THEN there ELSE NoAccount
  BY DEF AccountsInit
<1> HIDE DEF there
<1>3. AccountsPart
  <2>1. accounts \in [Users -> Accounts]
    BY <1>1, <1>2 DEF AccountsInit
  <2>2. \A u \in Users : accounts[u].order = Nobody
    BY <1>1, <1>2
  <2>3. \A u \in Newcomers, o \in Orders : ~(owner[o] = u) /\ ~(accounts[u].order = o)
    BY <2>2, NamesAssumption DEF AccountsInit, Users
  <2>4. AdminRemains
    BY <1>1, <1>2, AdminsAssumption DEF AdminRemains, ActiveAdmins, Active, Users
  <2>5. QED
    BY <2>1, <2>2, <2>3, <2>4 DEF AccountsInit, AccountsPart, OrderWithAccount
<1>4. SessionsPart
  BY SessionKnown DEF AccountsInit, SessionsPart, OpenIsActive, Session
<1>5. BrakePart
  <2>1. GuessesCounted
    <3>1. \A scope \in Scopes : LimitOf(scope) \in Nat
      BY LimitsKnown
    <3>2. QED
      BY <3>1, LimitsKnown DEF AccountsInit, GuessesCounted, Turn
  <2>2. \A scope \in Scopes : 0 <= LimitOf(scope)
    BY LimitsKnown
  <2>3. QED
    BY <2>1, <2>2, LimitsKnown DEF AccountsInit, BrakePart
<1>6. RequestsPart
  BY ReadyKnown DEF AccountsInit, RequestsPart
<1>7. QED
  BY <1>3, <1>4, <1>5, <1>6, Parts

LEMMA AccountsStep ==
  ASSUME AccountsInduction, [AccountsNext]_accountVars
  PROVE  AccountsInduction'
<1>1. CASE UNCHANGED accountVars
  BY <1>1, Parts, PartsKept, PartsNext DEF accountVars, brakeVars
<1>2. QED
  BY <1>1, CountingStep, AdmitLoginStep, CheckPasswordStep, RegisterStep, CreateSessionStep,
     RevokeSessionStep, BeginsStep, SetAccountActiveStep, AbortStep, ExpireStep, NextWindowStep
     DEF AccountsNext, BrakeNext, Login, AskToRegister, Users

\* The inductive invariant: an open session is of an active account, nobody
\* has an order before an account, and every attempt let through was counted
\* in a turn of its scopes' rows (portal_auth.py, portal_store.py).
THEOREM AccountsInvariant == AccountsSpec => []AccountsInduction
<1>1. AccountsInit => AccountsInduction
  BY AccountsStart
<1>2. AccountsInduction /\ [AccountsNext]_accountVars => AccountsInduction'
  BY AccountsStep
<1>3. QED
  BY <1>1, <1>2, PTL DEF AccountsSpec

\* However requests and administrators overlap, one administrator stays
\* active, accounts and demonstration orders belong to each other, and of the
\* attempts that began in a window no more are let through than the limits of
\* the name and of the address, but for one more turn for each that was
\* written after one of a later window (admit_login).
THEOREM AccountsKept == AccountsSpec => []AccountsInv
<1>1. AccountsInduction => AccountsInv
  BY DEF AccountsInduction
<1>2. QED
  BY <1>1, AccountsInvariant, PTL

\* A token that was issued and does not open the portal never opens it again,
\* even when its account is enabled again (create_session, set_account_active).
THEOREM SessionsStayDead == AccountsSpec => DeadSessionsStayDead
<1> DEFINE Step == \A t \in Tokens : sessions[t].state # "unissued" /\ ~Valid(t) => ~Valid(t)'
<1>1. ASSUME AccountsInduction, [AccountsNext]_accountVars PROVE Step
  <2>1. \A t \in Tokens : sessions[t].state = "open" => Valid(t)
    BY <1>1, Parts DEF SessionsPart, OpenIsActive, Valid
  <2>2. ASSUME NEW t \in Tokens, sessions[t].state # "unissued", sessions[t].state # "open"
        PROVE  sessions'[t].state # "open"
    <3>1. sessions[t] # Unissued
      BY <2>2, SessionKnown
    <3>2. sessions' = sessions \/ sessions'[t] \in {sessions[t], Gone} \/ sessions'[t].state = "expired"
      <4>1. ASSUME NEW r \in Requests, NEW x \in Tokens, CreateSession(r, x)
            PROVE  sessions'[t] \in {sessions[t], Gone}
        BY <3>1, <4>1 DEF CreateSession
      <4>2. ASSUME NEW r \in Requests, RevokeSession(r)
            PROVE  sessions'[t] \in {sessions[t], Gone}
        BY <1>1, <4>2, Parts DEF RevokeSession, SessionsPart
      <4>3. ASSUME NEW r \in Requests, SetAccountActive(r)
            PROVE  sessions' = sessions \/ sessions'[t] \in {sessions[t], Gone}
        BY <4>3 DEF SetAccountActive
      <4>4. ASSUME NEW x \in Tokens, Expire(x)
            PROVE  sessions'[t] = sessions[t]
        <5>1. x # t
          BY <2>2, <4>4 DEF Expire
        <5>2. QED
          BY <1>1, <4>4, <5>1, Parts DEF Expire, SessionsPart
      <4>5. QED
        BY <1>1, <4>1, <4>2, <4>3, <4>4 DEF AccountsNext, BrakeNext, accountVars, Login, CheckPassword,
           AskToRegister, Counting, AdmitLogin, Register, Logout, Administrator, Abort, NextWindow
    <3>3. QED
      BY <2>2, <3>2, SessionKnown
  <2>3. QED
    BY <2>1, <2>2 DEF Valid
<1>2. QED
  BY <1>1, AccountsInvariant, PTL DEF AccountsSpec, DeadSessionsStayDead
=============================================================================
