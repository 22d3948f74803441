----------------------------- MODULE PortalShelf -----------------------------
(***************************************************************************)
(* The conversations of the portal's owners and the pictures in them       *)
(* (portal_store.py), as far as creation and the quotas go.  A creation is *)
(* a transaction under the lock of its owner; when the owner's quota is    *)
(* used up it looks for a conversation that was never used.  That search   *)
(* reads a snapshot, then waits for the row's lock, and after the wait     *)
(* checks again what the row itself says (READ COMMITTED): the title and   *)
(* the active turn, not the rows of other tables.                          *)
(***************************************************************************)
EXTENDS Naturals, FiniteSets

CONSTANTS
  Owners, ShelfIds,   \* ids are made by the browser
  Quota,              \* 200 conversations of an owner
  ImageQuota          \* 100 pictures of an owner

ASSUME QuotaAssumption == Quota \in Nat \ {0} /\ ImageQuota \in Nat

VARIABLES
  shelf,         \* portal_conversations with what other tables say of them
  creating,      \* the creation of each owner that holds the owner's lock
  uploading,     \* the upload of each owner: the conversation whose row it locks
  handed,        \* history: the conversation last handed out as an unused one
  slipped        \* history: conversations that got a picture while a creation waited for them

shelfVars == <<shelf, creating, uploading, handed, slipped>>

None == "none"

ASSUME NoneAssumption == None \notin Owners \cup ShelfIds

NoShelf == [owner |-> None, untitled |-> FALSE, busy |-> FALSE, turns |-> 0, images |-> 0]
Of(u) == {id \in ShelfIds : shelf[id].owner = u}

\* The rows of portal_images, by conversation and in order.
Pictures(u) == UNION {{id} \X (1 .. shelf[id].images) : id \in Of(u)}
ImagesOf(u) == Cardinality(Pictures(u))

\* No upload and no request holds the row's lock.
Unlocked(id) == \A u \in Owners : uploading[u] # id

\* What the search finds in its snapshot.
Unused(id) == /\ shelf[id].untitled /\ ~shelf[id].busy
              /\ shelf[id].turns = 0 /\ shelf[id].images = 0

\* create_conversation until it inserts: the id that is there already is
\* answered with its conversation or, if it is another's, with a conflict.
CreateConversation(u, id, untitled) ==
  /\ creating[u] = None
  /\ shelf[id].owner = None
  /\ Cardinality(Of(u)) < Quota
  /\ shelf' = [shelf EXCEPT ![id] = [NoShelf EXCEPT !.owner = u, !.untitled = untitled]]
  /\ UNCHANGED <<creating, uploading, handed, slipped>>

\* The quota is used up: an unused conversation of the owner is looked for.
FindUnused(u, id) ==
  /\ creating[u] = None
  /\ Cardinality(Of(u)) >= Quota
  /\ id \in Of(u) /\ Unused(id)
  /\ creating' = [creating EXCEPT ![u] = id]
  /\ UNCHANGED <<shelf, uploading, handed, slipped>>

\* Seeded fault: the row is answered as the snapshot had it.
ReuseAsFound(u) ==
  LET id == creating[u]
  IN  /\ id # None /\ Unlocked(id)
      /\ handed' = id
      /\ creating' = [creating EXCEPT ![u] = None]
      /\ UNCHANGED <<shelf, uploading, slipped>>

\* FOR UPDATE OF c: the lock is there, the row is checked again; a row that
\* no longer fits leaves nothing to reuse.
Reuse(u) ==
  LET id == creating[u]
  IN  /\ id # None /\ Unlocked(id)
      /\ handed' = IF shelf[id].untitled /\ ~shelf[id].busy THEN id ELSE None
      /\ creating' = [creating EXCEPT ![u] = None]
      /\ UNCHANGED <<shelf, uploading, slipped>>

\* claim_turn, as far as it concerns the row: it gives an untitled
\* conversation the beginning of the message for a title.
FirstTurn(id) ==
  /\ shelf[id].owner # None /\ Unlocked(id)
  /\ ~shelf[id].busy
  /\ shelf' = [shelf EXCEPT ![id].busy = TRUE, ![id].turns = 1, ![id].untitled = FALSE]
  /\ handed' = IF handed = id THEN None ELSE handed
  /\ UNCHANGED <<creating, uploading, slipped>>

TurnOver(id) ==
  /\ shelf[id].busy
  /\ shelf' = [shelf EXCEPT ![id].busy = FALSE]
  /\ UNCHANGED <<creating, uploading, handed, slipped>>

\* Seeded fault: an upload only locks its conversation.
BeginUploadPerConversation(u, id) ==
  /\ shelf[id].owner = u /\ Unlocked(id)
  /\ ImagesOf(u) < ImageQuota
  /\ IF uploading[u] = None
     THEN uploading' = [uploading EXCEPT ![u] = id] /\ UNCHANGED shelf
     ELSE uploading' = uploading /\ shelf' = [shelf EXCEPT ![id].images = @ + 1]
  /\ UNCHANGED <<creating, handed, slipped>>

\* add_image up to the count, under the owner's lock for uploads.
BeginUpload(u, id) ==
  /\ uploading[u] = None
  /\ shelf[id].owner = u /\ Unlocked(id)
  /\ ImagesOf(u) < ImageQuota
  /\ uploading' = [uploading EXCEPT ![u] = id]
  /\ UNCHANGED <<shelf, creating, handed, slipped>>

\* The picture is stored, or the transaction ends without it.
EndUpload(u, stored) ==
  /\ uploading[u] # None
  /\ shelf' = IF stored THEN [shelf EXCEPT ![uploading[u]].images = @ + 1] ELSE shelf
  /\ uploading' = [uploading EXCEPT ![u] = None]
  /\ handed' = IF stored /\ handed = uploading[u] THEN None ELSE handed
  /\ slipped' = IF stored /\ \E v \in Owners : creating[v] = uploading[u]
                THEN slipped \cup {uploading[u]} ELSE slipped
  /\ UNCHANGED creating

ShelfInit ==
  /\ shelf = [id \in ShelfIds |-> NoShelf]
  /\ creating = [u \in Owners |-> None]
  /\ uploading = [u \in Owners |-> None]
  /\ handed = None
  /\ slipped = {}

ShelfNext ==
  \/ \E u \in Owners :
       \/ \E id \in ShelfIds : \/ \E untitled \in BOOLEAN : CreateConversation(u, id, untitled)
                               \/ FindUnused(u, id) \/ BeginUpload(u, id)
       \/ Reuse(u)
       \/ \E stored \in BOOLEAN : EndUpload(u, stored)
  \/ \E id \in ShelfIds : FirstTurn(id) \/ TurnOver(id)

ShelfSpec == ShelfInit /\ [][ShelfNext]_shelfVars

----------------------------------------------------------------------------
(* Correctness.                                                            *)

Shelves ==
  [owner : Owners \cup {None}, untitled : BOOLEAN, busy : BOOLEAN, turns : {0, 1}, images : Nat]

\* Types; and a conversation without a title was never written in, since the
\* first message gives it one.
ShelfTypeOK ==
  /\ shelf \in [ShelfIds -> Shelves]
  /\ \A id \in ShelfIds : shelf[id].untitled => shelf[id].turns = 0 /\ ~shelf[id].busy
  /\ creating \in [Owners -> ShelfIds \cup {None}]
  /\ uploading \in [Owners -> ShelfIds \cup {None}]
  /\ handed \in ShelfIds \cup {None}
  /\ slipped \subseteq ShelfIds

\* create_conversation's comment: only a default draft with no message and no
\* picture is handed out again, none with a title, an attachment or a task.
\* A message that is sent to it while the search waits for its row is seen; a
\* picture that is stored while it waits is not, and nothing else gets one
\* into what is handed out.
HandedOutUnused ==
  handed # None =>
    /\ shelf[handed].turns = 0 /\ ~shelf[handed].busy /\ shelf[handed].untitled
    /\ shelf[handed].images > 0 => handed \in slipped

\* add_image's comment: uploads into several conversations at a time do not
\* pass the owner's quota.
QuotasHold ==
  \A u \in Owners : Cardinality(Of(u)) <= Quota /\ ImagesOf(u) <= ImageQuota

\* The invariant of the quotas: they hold, and what is handed out again to
\* hold them was not used when it was looked for.
ShelfInv == ShelfTypeOK /\ HandedOutUnused /\ QuotasHold

----------------------------------------------------------------------------
(* Why the invariant holds: with the following it goes by induction.       *)

\* Creations and uploads are about conversations of their owner; a
\* conversation that was handed out has one.
OwnersKept ==
  /\ \A u \in Owners : /\ creating[u] # None => creating[u] \in Of(u)
                       /\ uploading[u] # None => uploading[u] \in Of(u)
  /\ handed # None => shelf[handed].owner # None

\* What a creation waits for had no picture when it was found.
FoundEmpty ==
  \A u \in Owners :
    creating[u] # None /\ shelf[creating[u]].images > 0 => creating[u] \in slipped

\* A conversation that is nobody's is empty; whoever uploads has room for the
\* picture.
RoomToUpload ==
  /\ \A id \in ShelfIds : shelf[id].owner = None => shelf[id].images = 0
  /\ \A u \in Owners : /\ IsFiniteSet(Of(u)) /\ IsFiniteSet(Pictures(u))
                       /\ uploading[u] # None => ImagesOf(u) < ImageQuota

ShelfInduction == ShelfInv /\ OwnersKept /\ FoundEmpty /\ RoomToUpload
=============================================================================
