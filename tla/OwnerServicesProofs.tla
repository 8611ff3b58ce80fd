------------------------- MODULE OwnerServicesProofs -------------------------
(***************************************************************************)
(* The services behind the owner's pages, for every value of their         *)
(* constants.  Video queues and restream have modules of their own; here   *)
(* are the three smaller ones, and the composition of the five.            *)
(*                                                                         *)
(* Uploads: OpenAlertKeepsMedia and UploadsTakeTurns rest on different     *)
(* parts of the state.  MediaInv is about the tables, where every          *)
(* reference, whatever the alert it is of, has its row; SlotInv about the  *)
(* two servers, where the handler that works is the last one that took a   *)
(* slot; TurnsInv counts the handlers that have looked for one.            *)
(*                                                                         *)
(* Connecting: the cookie of a provider names an attempt from its offer to *)
(* the first answer of one of its pages, and never again (Cleared): so a   *)
(* load that was sent after that answer carries another state and is       *)
(* answered at once (Repeated), and one that got past the check carries    *)
(* the account that began its attempt (Checked) until its grant is saved   *)
(* (Linked).                                                               *)
(*                                                                         *)
(* Chat: what a page that listens will show is the state of the last       *)
(* message of its queue that has one, or the one it shows (Learns): it is  *)
(* what was published, or what came again after it, unless the stream      *)
(* missed it or the state's key is behind (Heard).  A message whose last   *)
(* delivery is its deletion is one the queue will take out, or neither     *)
(* brings nor shows (TakenOut).  A page shows each message once and in     *)
(* order, since reducer takes a message out before it places it (Ordered). *)
(***************************************************************************)
EXTENDS OwnerServicesMC, VideoQueueProofs, RestreamProofs, FiniteSetTheorems, SequenceTheorems, TLAPS

-----------------------------------------------------------------------------
(* The uploads and the images of alerts.                                    *)

UploadRequest  == [user: Owners, file: Files, cancelled: BOOLEAN, at: InProgress \cup {"none", "sent", "answered"}]
UploadHandler  == [at: Handling \cup {"none", "asked", "returned"}, turn: Nat]
AlertRow       == [status: OpenAlert \cup {"none", "terminal", "deleted"}, image: Uploads \cup {0}]

-----------------------------------------------------------------------------
(* The tables.                                                              *)

MediaKinds ==
    /\ upload \in [Uploads -> UploadRequest]
    /\ assets \in [Uploads -> Files \cup {0}]
    /\ selected \in Uploads \cup {0}
    /\ alerts \in [Alerts -> AlertRow]

\* What is selected or referred to, by an alert of any status, has its row.
Referenced ==
    /\ selected # 0 => assets[selected] # 0
    /\ \A a \in Alerts : alerts[a].image # 0 => assets[alerts[a].image] # 0

MediaInv == MediaKinds /\ Referenced

LEMMA MediaInit == AssetsInit => MediaInv
  BY DEF AssetsInit, MediaInv, MediaKinds, Referenced, UploadRequest, AlertRow, Owners, Files

\* A request stays one when its fields change.
LEMMA Sent ==
    ASSUME NEW user \in Owners, NEW file \in Files
    PROVE  [user |-> user, file |-> file, cancelled |-> FALSE, at |-> "sent"] \in UploadRequest
  BY DEF UploadRequest

LEMMA Proceeds ==
    ASSUME NEW r \in UploadRequest, NEW at \in InProgress \cup {"none", "sent", "answered"}
    PROVE  /\ [r EXCEPT !.at = at] \in UploadRequest /\ [r EXCEPT !.cancelled = TRUE] \in UploadRequest
           /\ [r EXCEPT !.at = at].at = at /\ [r EXCEPT !.at = at].user = r.user
  BY DEF UploadRequest

\* The web server's requests stay requests.
LEMMA RequestsStay ==
    ASSUME upload \in [Uploads -> UploadRequest], AssetsNext
    PROVE  upload' \in [Uploads -> UploadRequest]
<1>1. CASE send
  <2>1. PICK u \in Uploads, user \in Owners, file \in Files :
           upload' = [upload EXCEPT ![u] = [user |-> user, file |-> file, cancelled |-> FALSE, at |-> "sent"]]
    BY <1>1 DEF send
  <2> QED
    BY <2>1, Sent
<1>2. ASSUME NEW u \in Uploads, NEW reply,
             Responds(u, reply)
      PROVE  upload' \in [Uploads -> UploadRequest]
  BY <1>2 DEF Responds, UploadRequest
<1>3. ASSUME NEW u \in Uploads, upload' = [upload EXCEPT ![u].at = "body"] \/ upload' = [upload EXCEPT ![u].at = "form"]
                   \/ upload' = [upload EXCEPT ![u].at = "service"] \/ upload' = [upload EXCEPT ![u].cancelled = TRUE]
      PROVE  upload' \in [Uploads -> UploadRequest]
  <2>1. {"body", "form", "service"} = InProgress
    BY DEF InProgress
  <2>2. /\ \A at \in InProgress : [upload[u] EXCEPT !.at = at] \in UploadRequest
        /\ [upload[u] EXCEPT !.cancelled = TRUE] \in UploadRequest
    BY Proceeds
  <2> QED
    BY <1>3, <2>1, <2>2
<1>4. ASSUME NEW u \in Uploads,
             \/ rejectInvalidUploadBoundary(u) \/ acquireUpload(u) \/ cancel(u) \/ settle(u)
             \/ translateBodyError(u) \/ readBoundedRequestBody(u) \/ validateUploadForm(u) \/ uploadAsset(u)
      PROVE  upload' \in [Uploads -> UploadRequest]
  BY <1>2, <1>3, <1>4 DEF rejectInvalidUploadBoundary, acquireUpload, cancel, settle, translateBodyError,
     readBoundedRequestBody, validateUploadForm, uploadAsset
<1> QED
  BY <1>1, <1>4 DEF AssetsNext, webVars

\* A saved image has a row, which is selected; no other row goes.
LEMMA SaveKeepsMedia ==
    ASSUME MediaInv, NEW u \in Uploads, SaveAsset(u), UNCHANGED webVars
    PROVE  MediaInv'
<1>1. CASE upload[u].user = "owner"
  <2> DEFINE same == { id \in Uploads : assets[id] = upload[u].file }
             id   == IF same = {} THEN u ELSE CHOOSE known \in same : TRUE
  <2>1. id \in Uploads
    OBVIOUS
  <2>2. assets' = [assets EXCEPT ![id] = upload[u].file] /\ selected' = id /\ UNCHANGED <<upload, alerts>>
    BY <1>1 DEF SaveAsset, webVars
  <2>3. upload[u].file \in Files /\ upload[u].file # 0
    BY DEF MediaInv, MediaKinds, UploadRequest, Files
  <2> HIDE DEF id
  <2>4. MediaKinds'
    BY <2>1, <2>2, <2>3 DEF MediaInv, MediaKinds
  <2>5. ASSUME NEW known \in Uploads, assets[known] # 0 PROVE assets'[known] # 0
    BY <2>2, <2>3, <2>5 DEF MediaInv, MediaKinds
  <2>6. assets'[id] # 0
    BY <2>1, <2>2, <2>3 DEF MediaInv, MediaKinds
  <2>7. \A a \in Alerts : alerts[a].image \in Uploads \cup {0}
    BY DEF MediaInv, MediaKinds, AlertRow
  <2>8. Referenced'
    BY <2>1, <2>2, <2>5, <2>6, <2>7 DEF MediaInv, Referenced
  <2> QED
    BY <2>4, <2>8 DEF MediaInv
<1>2. CASE upload[u].user # "owner"
  BY <1>2 DEF SaveAsset, webVars, MediaInv, MediaKinds, Referenced
<1> QED
  BY <1>1, <1>2

LEMMA UpdateKeepsMedia == MediaInv /\ UpdateSettings /\ UNCHANGED webVars => MediaInv'
  BY DEF MediaInv, MediaKinds, Referenced, UpdateSettings, webVars

\* The row goes only when no alert refers to it any more.
LEMMA DeleteKeepsMedia ==
    ASSUME MediaInv, DeleteAsset, UNCHANGED webVars
    PROVE  MediaInv'
<1>1. PICK id \in Uploads :
        /\ selected' = IF selected = id THEN 0 ELSE selected
        /\ alerts' = [a \in Alerts |-> IF Forgets(alerts[a], id) THEN [alerts[a] EXCEPT !.image = 0] ELSE alerts[a]]
        /\ assets' = IF \E a \in Alerts : alerts'[a].image = id THEN assets ELSE [assets EXCEPT ![id] = 0]
  BY DEF DeleteAsset
<1>2. MediaKinds'
  BY <1>1 DEF MediaInv, MediaKinds, AlertRow, webVars
<1>3. \A a \in Alerts : alerts'[a].image \in {0, alerts[a].image}
  BY <1>1 DEF MediaInv, MediaKinds, AlertRow
<1>4. ASSUME NEW known \in Uploads, assets[known] # 0, known # id \/ \E a \in Alerts : alerts'[a].image = id
      PROVE  assets'[known] # 0
  BY <1>1, <1>4 DEF MediaInv, MediaKinds
<1>5. selected' # 0 => selected' = selected /\ selected # id /\ selected \in Uploads
  BY <1>1 DEF MediaInv, MediaKinds
<1>6. \A a \in Alerts : alerts'[a].image # 0 => alerts'[a].image \in Uploads
  BY <1>2 DEF MediaKinds, AlertRow
<1>7. Referenced'
  BY <1>3, <1>4, <1>5, <1>6 DEF MediaInv, Referenced
<1> QED
  BY <1>2, <1>7 DEF MediaInv

\* An alert captures what is selected, and keeps it while it moves.
LEMMA AlertsKeepMedia ==
    ASSUME MediaInv, Enqueue \/ Moves, UNCHANGED webVars
    PROVE  MediaInv'
<1>1. CASE Enqueue
  <2>1. PICK a \in Alerts : alerts' = [alerts EXCEPT ![a] = [status |-> "waiting", image |-> selected]]
    BY <1>1 DEF Enqueue
  <2>2. [status |-> "waiting", image |-> selected] \in AlertRow
    BY DEF MediaInv, MediaKinds, AlertRow, OpenAlert
  <2> QED
    BY <1>1, <2>1, <2>2 DEF Enqueue, webVars, MediaInv, MediaKinds, Referenced
<1>2. CASE Moves
  <2>1. PICK a \in Alerts, after \in OpenAlert \cup {"terminal"} : alerts' = [alerts EXCEPT ![a].status = after]
    BY <1>2 DEF Moves
  <2>2. alerts' \in [Alerts -> AlertRow] /\ \A b \in Alerts : alerts'[b].image = alerts[b].image
    BY <2>1 DEF MediaInv, MediaKinds, AlertRow
  <2> QED
    BY <1>2, <2>2 DEF Moves, webVars, MediaInv, MediaKinds, Referenced
<1> QED
  BY <1>1, <1>2

\* The sweep drops references first and rows without references after.
LEMMA SweepKeepsMedia ==
    ASSUME MediaInv, PruneRetention \/ PruneFails, UNCHANGED webVars
    PROVE  MediaInv'
<1>1. CASE PruneFails
  BY <1>1 DEF PruneFails, webVars, MediaInv, MediaKinds, Referenced
<1>2. CASE PruneRetention /\ sweep = 1
  <2>1. PICK old \in SUBSET Alerts :
           alerts' = [a \in Alerts |-> IF a \in old THEN [status |-> "deleted", image |-> 0] ELSE alerts[a]]
    BY <1>2 DEF PruneRetention
  <2>2. alerts' \in [Alerts -> AlertRow] /\ \A a \in Alerts : alerts'[a].image \in {0, alerts[a].image}
    BY <2>1 DEF MediaInv, MediaKinds, AlertRow
  <2> QED
    BY <1>2, <2>2 DEF PruneRetention, webVars, MediaInv, MediaKinds, Referenced
<1>3. CASE PruneRetention /\ sweep = 2
  <2>1. alerts' = [a \in Alerts |-> IF alerts[a].status = "terminal" /\ alerts[a].image # selected
                                    THEN [alerts[a] EXCEPT !.image = 0] ELSE alerts[a]]
    BY <1>3 DEF PruneRetention
  <2>2. alerts' \in [Alerts -> AlertRow] /\ \A a \in Alerts : alerts'[a].image \in {0, alerts[a].image}
    BY <2>1 DEF MediaInv, MediaKinds, AlertRow
  <2> QED
    BY <1>3, <2>2 DEF PruneRetention, webVars, MediaInv, MediaKinds, Referenced
<1>4. CASE PruneRetention /\ sweep = 3
  <2>1. assets' = [id \in Uploads |-> IF id = selected \/ \E a \in Alerts : alerts[a].image = id
                                      THEN assets[id] ELSE 0]
        /\ UNCHANGED <<upload, alerts, selected>>
    BY <1>4 DEF PruneRetention, webVars
  <2>2. MediaKinds'
    BY <2>1 DEF MediaInv, MediaKinds
  <2>3. \A a \in Alerts : alerts[a].image \in Uploads \cup {0}
    BY DEF MediaInv, MediaKinds, AlertRow
  <2>4. Referenced'
    BY <2>1, <2>3 DEF MediaInv, MediaKinds, Referenced
  <2> QED
    BY <2>2, <2>4 DEF MediaInv
<1> QED
  BY <1>1, <1>2, <1>3, <1>4 DEF PruneRetention

LEMMA MediaStep == MediaInv /\ [AssetsNext]_assetVars => MediaInv'
<1> SUFFICES ASSUME MediaInv, [AssetsNext]_assetVars PROVE MediaInv'
  OBVIOUS
<1>1. CASE UNCHANGED assetVars
  BY <1>1 DEF assetVars, MediaInv, MediaKinds, Referenced
<1>2. ASSUME AssetsNext, UNCHANGED dbVars PROVE MediaInv'
  BY <1>2, RequestsStay DEF dbVars, MediaInv, MediaKinds, Referenced
<1>3. ASSUME NEW u \in Uploads, SaveAsset(u), UNCHANGED webVars PROVE MediaInv'
  BY <1>3, SaveKeepsMedia
<1>4. CASE UNCHANGED webVars /\ (UpdateSettings \/ DeleteAsset \/ Enqueue \/ Moves \/ PruneRetention \/ PruneFails)
  BY <1>4, UpdateKeepsMedia, DeleteKeepsMedia, AlertsKeepMedia, SweepKeepsMedia
<1>5. AssetsNext => \/ UNCHANGED dbVars
                    \/ \E u \in Uploads : SaveAsset(u) /\ UNCHANGED webVars
                    \/ UNCHANGED webVars /\ (UpdateSettings \/ DeleteAsset \/ Enqueue \/ Moves \/ PruneRetention \/ PruneFails)
  BY DEF AssetsNext, send, TakesSlot, UploadFails, GivesSlot
<1> QED
  BY <1>1, <1>2, <1>3, <1>4, <1>5

\* No step changes the image of an alert that stays open.
LEMMA ImageStep == MediaInv /\ [AssetsNext]_assetVars => ImageStays \/ UNCHANGED assetVars
<1> SUFFICES ASSUME MediaInv, AssetsNext PROVE ImageStays
  OBVIOUS
<1> USE DEF MediaInv, MediaKinds, AlertRow, OpenAlert
<1>1. CASE UNCHANGED alerts
  BY <1>1 DEF ImageStays
<1>2. CASE DeleteAsset
  BY <1>2 DEF DeleteAsset, ImageStays, Forgets
<1>3. CASE Enqueue
  BY <1>3 DEF Enqueue, ImageStays
<1>4. CASE Moves
  BY <1>4 DEF Moves, ImageStays
<1>5. CASE PruneRetention
  BY <1>5 DEF PruneRetention, ImageStays
<1>6. AssetsNext => UNCHANGED alerts \/ DeleteAsset \/ Enqueue \/ Moves \/ PruneRetention
  BY DEF AssetsNext, dbVars, send, TakesSlot, UploadFails, SaveAsset, GivesSlot, UpdateSettings, PruneFails
<1> QED
  BY <1>1, <1>2, <1>3, <1>4, <1>5, <1>6

\* Whatever is removed, replaced and swept: an alert still to be shown keeps its
\* image, and whoever may see it is given it (DeleteAsset, PruneRetention).
THEOREM MediaKept == AssetsSpec => OpenAlertKeepsMedia
<1>1. MediaInv => MediaThere
  BY DEF MediaInv, MediaKinds, AlertRow, Referenced, MediaThere, handleAlertMedia, assetForUser
<1> QED
  BY <1>1, MediaInit, MediaStep, ImageStep, PTL DEF AssetsSpec, OpenAlertKeepsMedia

-----------------------------------------------------------------------------
(* The slots of the two servers.                                            *)

\* Every slot is taken by an upload that holds it.
SlotsAccounted ==
    /\ activeUploads = [count |-> Cardinality(Held), users |-> { upload[u].user : u \in Held }]
    /\ slotsTaken = Cardinality(Busy)

\* The handler that works has the turn that was taken last.
Turned ==
    /\ turns \in Nat /\ latest \in Nat /\ latest <= turns
    /\ \A u \in Uploads : service[u].at = "processing" => service[u].turn = turns

\* Two uploads in progress are of two owners, so each has its own entry to give back.
Distinct == \A u, v \in Held : upload[u].user = upload[v].user => u = v

SlotKinds ==
    /\ upload \in [Uploads -> UploadRequest]
    /\ service \in [Uploads -> UploadHandler]
    /\ slotsTaken <= maxConcurrentUploads

\* The service hears of an upload once.
NotPassedOn   == {"none", "sent", "body", "form"}
Unasked == \A u \in Uploads : upload[u].at \in NotPassedOn => service[u].at = "none"

SlotInv == SlotKinds /\ SlotsAccounted /\ Turned /\ Distinct /\ Unasked

LEMMA SlotInit == AssetsInit => SlotInv
<1> SUFFICES ASSUME AssetsInit PROVE SlotInv
  OBVIOUS
<1>1. SlotKinds /\ Turned
  BY DEF AssetsInit, SlotKinds, Turned, UploadRequest, UploadHandler, Owners, Files, maxConcurrentUploads
<1>2. Held = {} /\ Busy = {}
  BY DEF AssetsInit, Held, Busy, InProgress, Handling
<1>3. SlotsAccounted /\ Distinct /\ Unasked
  BY <1>2, FS_EmptySet DEF AssetsInit, SlotsAccounted, Distinct, Unasked
<1> QED
  BY <1>1, <1>3 DEF SlotInv

LEMMA Countable == IsFiniteSet(Held) /\ IsFiniteSet(Busy)
<1>1. IsFiniteSet(Uploads)
  BY AssetsAssumption, FS_Interval DEF Uploads
<1> QED
  BY <1>1, FS_Subset DEF Held, Busy

\* A step of the web server leaves uploads in progress as they were, begins one or ends one.
LEMMA WebStep ==
    ASSUME SlotInv, NEW u \in Uploads, upload' \in [Uploads -> UploadRequest],
           \A v \in Uploads \ {u} : upload'[v] = upload[v],
           u \in Held \/ u \in Held' => upload'[u].user = upload[u].user,
           \/ (u \in Held <=> u \in Held') /\ UNCHANGED activeUploads
           \/ /\ u \in Held' \ Held /\ upload[u].user \notin activeUploads.users
              /\ activeUploads' = [count |-> activeUploads.count + 1,
                                   users |-> activeUploads.users \cup {upload[u].user}]
           \/ /\ u \in Held \ Held'
              /\ activeUploads' = [count |-> activeUploads.count - 1,
                                   users |-> activeUploads.users \ {upload[u].user}]
    PROVE  /\ activeUploads' = [count |-> Cardinality(Held'), users |-> { upload'[v].user : v \in Held' }]
           /\ Distinct'
<1>1. activeUploads = [count |-> Cardinality(Held), users |-> { upload[v].user : v \in Held }] /\ Distinct
  BY DEF SlotInv, SlotsAccounted
<1>2. \A v \in Uploads \ {u} : (v \in Held <=> v \in Held') /\ upload'[v].user = upload[v].user
  BY DEF Held
<1>3. Held \subseteq Uploads /\ Held' \subseteq Uploads
  BY DEF Held
<1>4. CASE (u \in Held <=> u \in Held') /\ UNCHANGED activeUploads
  <2>1. Held' = Held
    BY <1>2, <1>3, <1>4
  <2>2. \A v \in Held : upload'[v].user = upload[v].user
    BY <1>2, <1>3, <1>4
  <2>3. { upload'[v].user : v \in Held' } = { upload[v].user : v \in Held }
    BY <2>1, <2>2
  <2>4. Cardinality(Held') = Cardinality(Held)
    BY <2>1
  <2>5. Distinct'
    BY <1>1, <2>1, <2>2 DEF Distinct
  <2> QED
    BY <1>1, <1>4, <2>3, <2>4, <2>5
<1>5. CASE /\ u \in Held' \ Held /\ upload[u].user \notin activeUploads.users
           /\ activeUploads' = [count |-> activeUploads.count + 1,
                                users |-> activeUploads.users \cup {upload[u].user}]
  <2>1. Held' = Held \cup {u}
    BY <1>2, <1>3, <1>5
  <2>2. Cardinality(Held') = Cardinality(Held) + 1
    BY <1>5, <2>1, Countable, FS_AddElement
  <2>3. \A v \in Held : upload'[v].user = upload[v].user
    BY <1>2, <1>3, <1>5
  <2>4. upload'[u].user = upload[u].user
    BY <1>5
  <2>5. activeUploads.users = { upload[v].user : v \in Held } /\ activeUploads.count = Cardinality(Held)
    BY <1>1
  <2>6. { upload'[v].user : v \in Held' } = activeUploads.users \cup {upload[u].user}
    BY <2>1, <2>3, <2>4, <2>5
  <2>7. Distinct'
    BY <1>1, <1>5, <2>1, <2>3, <2>4, <2>5 DEF Distinct
  <2> QED
    BY <1>5, <2>2, <2>5, <2>6, <2>7
<1>6. CASE /\ u \in Held \ Held'
           /\ activeUploads' = [count |-> activeUploads.count - 1,
                                users |-> activeUploads.users \ {upload[u].user}]
  <2>1. Held' = Held \ {u}
    BY <1>2, <1>3, <1>6
  <2>2. Cardinality(Held') = Cardinality(Held) - 1
    BY <1>6, <2>1, Countable, FS_RemoveElement
  <2>3. \A v \in Held' : upload'[v].user = upload[v].user
    BY <1>2, <1>3, <1>6, <2>1
  <2>4. activeUploads.users = { upload[v].user : v \in Held } /\ activeUploads.count = Cardinality(Held)
    BY <1>1
  <2>5. \A v \in Held' : upload[v].user # upload[u].user
    BY <1>1, <1>6, <2>1 DEF Distinct
  <2>6. { upload'[v].user : v \in Held' } = activeUploads.users \ {upload[u].user}
    BY <2>1, <2>3, <2>4, <2>5
  <2>7. Distinct'
    BY <1>1, <2>1, <2>3 DEF Distinct
  <2> QED
    BY <1>6, <2>2, <2>4, <2>6, <2>7
<1> QED
  BY <1>4, <1>5, <1>6

\* However the reply came about, it gives back what the upload holds.
LEMMA ResponseStep ==
    ASSUME SlotInv, NEW u \in Uploads, NEW reply, Responds(u, reply), upload[u].at \in InProgress \cup {"sent"}
    PROVE  /\ activeUploads' = [count |-> Cardinality(Held'), users |-> { upload'[v].user : v \in Held' }]
           /\ Distinct' /\ upload' \in [Uploads -> UploadRequest]
<1>1. upload \in [Uploads -> UploadRequest]
  BY DEF SlotInv, SlotKinds
<1>2. /\ upload' \in [Uploads -> UploadRequest] /\ \A v \in Uploads \ {u} : upload'[v] = upload[v]
      /\ upload'[u].at = "answered" /\ upload'[u].user = upload[u].user
  BY <1>1 DEF Responds, UploadRequest
<1>3. u \notin Held' /\ (u \in Held <=> upload[u].at # "sent")
  BY <1>2 DEF Held, InProgress
<1>4. activeUploads' = IF upload[u].at = "sent" THEN activeUploads
                       ELSE [count |-> activeUploads.count - 1, users |-> activeUploads.users \ {upload[u].user}]
  BY DEF Responds, releaseUpload
<1> QED
  BY <1>2, <1>3, <1>4, WebStep

LEMMA WebKeepsSlots ==
    ASSUME SlotInv, AssetsNext
    PROVE  /\ activeUploads' = [count |-> Cardinality(Held'), users |-> { upload'[v].user : v \in Held' }]
           /\ Distinct' /\ upload' \in [Uploads -> UploadRequest]
<1> DEFINE Goal == /\ activeUploads' = [count |-> Cardinality(Held'), users |-> { upload'[v].user : v \in Held' }]
                   /\ Distinct' /\ upload' \in [Uploads -> UploadRequest]
<1>0. upload \in [Uploads -> UploadRequest]
  BY DEF SlotInv, SlotKinds
<1>1. CASE send
  <2>1. PICK u \in Uploads, user \in Owners, file \in Files :
           /\ upload[u].at = "none" /\ UNCHANGED activeUploads
           /\ upload' = [upload EXCEPT ![u] = [user |-> user, file |-> file, cancelled |-> FALSE, at |-> "sent"]]
    BY <1>1 DEF send
  <2>2. /\ upload' \in [Uploads -> UploadRequest] /\ \A v \in Uploads \ {u} : upload'[v] = upload[v]
        /\ upload'[u].at = "sent"
    BY <1>0, <2>1, Sent
  <2>3. u \notin Held /\ u \notin Held'
    BY <2>1, <2>2 DEF Held, InProgress
  <2> QED
    BY <2>1, <2>2, <2>3, WebStep
<1>2. ASSUME NEW u \in Uploads, acquireUpload(u) PROVE Goal
  <2>1. CASE activeUploads.count >= maxConcurrentUploads \/ upload[u].user \in activeUploads.users
    BY <1>2, <2>1, ResponseStep DEF acquireUpload
  <2>2. CASE ~(activeUploads.count >= maxConcurrentUploads \/ upload[u].user \in activeUploads.users)
    <3>1. /\ activeUploads' = [count |-> activeUploads.count + 1, users |-> activeUploads.users \cup {upload[u].user}]
          /\ upload' = [upload EXCEPT ![u].at = "body"] /\ upload[u].at = "sent"
      BY <1>2, <2>2 DEF acquireUpload
    <3>2. /\ upload' \in [Uploads -> UploadRequest] /\ \A v \in Uploads \ {u} : upload'[v] = upload[v]
          /\ upload'[u].at = "body" /\ upload'[u].user = upload[u].user
      BY <1>0, <3>1 DEF UploadRequest, InProgress
    <3>3. u \in Held' \ Held
      BY <3>1, <3>2 DEF Held, InProgress
    <3> QED
      BY <2>2, <3>1, <3>2, <3>3, WebStep
  <2> QED
    BY <2>1, <2>2
<1>3. ASSUME NEW u \in Uploads, UNCHANGED activeUploads, upload[u].at \in InProgress,
             \/ upload' = [upload EXCEPT ![u].cancelled = TRUE]
             \/ upload' = [upload EXCEPT ![u].at = "form"]
             \/ upload' = [upload EXCEPT ![u].at = "service"]
      PROVE  Goal
  <2>1. /\ upload' \in [Uploads -> UploadRequest] /\ \A v \in Uploads \ {u} : upload'[v] = upload[v]
        /\ upload'[u].at \in InProgress /\ upload'[u].user = upload[u].user
    <3>1. CASE upload' = [upload EXCEPT ![u].cancelled = TRUE]
      BY <1>0, <1>3, <3>1 DEF UploadRequest
    <3>2. CASE upload' = [upload EXCEPT ![u].at = "form"]
      BY <1>0, <3>2 DEF UploadRequest, InProgress
    <3>3. CASE upload' = [upload EXCEPT ![u].at = "service"]
      BY <1>0, <3>3 DEF UploadRequest, InProgress
    <3> QED
      BY <1>3, <3>1, <3>2, <3>3
  <2>2. u \in Held /\ u \in Held'
    BY <1>3, <2>1 DEF Held
  <2> QED
    BY <1>3, <2>1, <2>2, WebStep
<1>4. ASSUME NEW u \in Uploads, cancel(u) \/ readBoundedRequestBody(u) PROVE Goal
  BY <1>3, <1>4 DEF cancel, readBoundedRequestBody, InProgress
<1>5. ASSUME NEW u \in Uploads,
             rejectInvalidUploadBoundary(u) \/ translateBodyError(u) \/ validateUploadForm(u) \/ settle(u)
      PROVE  Goal
  <2>1. upload[u].at \in InProgress \cup {"sent"} /\ \E reply : Responds(u, reply)
    BY <1>5 DEF rejectInvalidUploadBoundary, translateBodyError, validateUploadForm, settle, InProgress
  <2> QED
    BY <2>1, ResponseStep
<1>6. ASSUME NEW u \in Uploads, uploadAsset(u) PROVE Goal
  <2>1. upload[u].at = "form" /\ upload[u].at \in InProgress
    BY <1>6 DEF uploadAsset, InProgress
  <2>2. CASE Responds(u, "failed")
    BY <2>1, <2>2, ResponseStep
  <2>3. CASE upload' = [upload EXCEPT ![u].at = "service"] /\ UNCHANGED activeUploads
    BY <1>3, <2>1, <2>3
  <2> QED
    BY <1>6, <2>2, <2>3 DEF uploadAsset
<1>7. CASE UNCHANGED webVars
  BY <1>0, <1>7 DEF webVars, SlotInv, SlotsAccounted, Distinct, Held
<1> QED
  BY <1>1, <1>2, <1>4, <1>5, <1>6, <1>7 DEF AssetsNext

-----------------------------------------------------------------------------
\* A handler goes on without taking or giving a slot, takes one or gives its own.
LEMMA ServiceStep ==
    ASSUME SlotInv, NEW u \in Uploads, NEW h \in UploadHandler, service' = [service EXCEPT ![u] = h],
           \/ (u \in Busy <=> h.at \in Handling) /\ UNCHANGED slotsTaken
           \/ u \notin Busy /\ h.at \in Handling /\ slotsTaken < maxConcurrentUploads /\ slotsTaken' = slotsTaken + 1
           \/ u \in Busy /\ h.at \notin Handling /\ slotsTaken' = slotsTaken - 1
    PROVE  /\ service' \in [Uploads -> UploadHandler] /\ slotsTaken' <= maxConcurrentUploads
           /\ slotsTaken' = Cardinality(Busy')
<1>1. service \in [Uploads -> UploadHandler] /\ slotsTaken = Cardinality(Busy) /\ slotsTaken <= maxConcurrentUploads
  BY DEF SlotInv, SlotKinds, SlotsAccounted
<1>2. service' \in [Uploads -> UploadHandler] /\ service'[u] = h /\ \A v \in Uploads \ {u} : service'[v] = service[v]
  BY <1>1
<1>3. Busy' = IF h.at \in Handling THEN Busy \cup {u} ELSE Busy \ {u}
  BY <1>2 DEF Busy
<1>4. Cardinality(Busy) \in Nat
  BY Countable, FS_CardinalityType
<1>5. CASE h.at \in Handling
  <2>1. Cardinality(Busy') = IF u \in Busy THEN Cardinality(Busy) ELSE Cardinality(Busy) + 1
    BY <1>3, <1>5, Countable, FS_AddElement
  <2>2. slotsTaken' = Cardinality(Busy')
    BY <1>1, <1>5, <2>1
  <2>3. slotsTaken' <= maxConcurrentUploads
    BY <1>1, <1>4, <1>5 DEF maxConcurrentUploads
  <2> QED
    BY <1>2, <2>2, <2>3
<1>6. CASE h.at \notin Handling
  <2>1. Cardinality(Busy') = IF u \in Busy THEN Cardinality(Busy) - 1 ELSE Cardinality(Busy)
    BY <1>3, <1>6, Countable, FS_RemoveElement
  <2>2. slotsTaken' = Cardinality(Busy')
    BY <1>1, <1>6, <2>1
  <2>3. slotsTaken' <= maxConcurrentUploads
    BY <1>1, <1>4, <1>6 DEF maxConcurrentUploads
  <2> QED
    BY <1>2, <2>2, <2>3
<1> QED
  BY <1>5, <1>6

\* Nobody else works when a handler takes the slot.
LEMMA SlotFree == SlotInv /\ slotsTaken < maxConcurrentUploads => Busy = {}
<1> SUFFICES ASSUME SlotInv, slotsTaken < maxConcurrentUploads PROVE Busy = {}
  OBVIOUS
<1>1. Cardinality(Busy) \in Nat /\ Cardinality(Busy) < 1
  BY Countable, FS_CardinalityType DEF SlotInv, SlotsAccounted, maxConcurrentUploads
<1> QED
  BY <1>1, Countable, FS_EmptySet

\* What a step of the alert service does to its slots, and to the order of turns.
ServiceKept ==
    /\ service' \in [Uploads -> UploadHandler] /\ slotsTaken' <= maxConcurrentUploads
    /\ slotsTaken' = Cardinality(Busy') /\ Turned' /\ latest' >= latest

LEMMA TakesSlotKeeps ==
    ASSUME SlotInv, NEW u \in Uploads, TakesSlot(u)
    PROVE  ServiceKept
<1>1. service[u].at = "asked" /\ service \in [Uploads -> UploadHandler] /\ UNCHANGED latest
  BY DEF TakesSlot, dbVars, SlotInv, SlotKinds
<1>2. turns \in Nat /\ latest \in Nat /\ latest <= turns
      /\ \A v \in Uploads : service[v].at = "processing" => service[v].turn = turns
  BY DEF SlotInv, Turned
<1>3. u \notin Busy
  BY <1>1 DEF Busy, Handling
<1>4. CASE slotsTaken >= maxConcurrentUploads
  <2> DEFINE h == [service[u] EXCEPT !.at = "returned"]
  <2>1. service' = [service EXCEPT ![u] = h] /\ UNCHANGED <<slotsTaken, turns>>
    BY <1>4 DEF TakesSlot
  <2>2. h \in UploadHandler /\ h.at = "returned" /\ h.at \notin Handling
    BY <1>1 DEF UploadHandler, Handling
  <2> HIDE DEF h
  <2>3. Turned' /\ latest' >= latest
    BY <1>1, <1>2, <2>1, <2>2 DEF Turned
  <2> QED
    BY <1>3, <2>1, <2>2, <2>3, ServiceStep DEF ServiceKept
<1>5. CASE ~(slotsTaken >= maxConcurrentUploads)
  <2> DEFINE h == [service[u] EXCEPT !.at = "processing", !.turn = turns + 1]
  <2>1. service' = [service EXCEPT ![u] = h] /\ slotsTaken' = slotsTaken + 1 /\ turns' = turns + 1
    BY <1>5 DEF TakesSlot
  <2>2. h \in UploadHandler /\ h.at = "processing" /\ h.at \in Handling /\ h.turn = turns + 1
    <3>1. turns + 1 \in Nat /\ service[u] \in UploadHandler
      BY <1>1, <1>2
    <3>2. PICK t \in Nat : t = turns + 1
      BY <3>1
    <3>3. "processing" \in Handling
      BY DEF Handling
    <3>4. \A r \in UploadHandler : /\ [r EXCEPT !.at = "processing", !.turn = t] \in UploadHandler
                            /\ [r EXCEPT !.at = "processing", !.turn = t].at = "processing"
                            /\ [r EXCEPT !.at = "processing", !.turn = t].turn = t
      BY <3>3 DEF UploadHandler
    <3> QED
      BY <3>1, <3>2, <3>3, <3>4
  <2>3. slotsTaken < maxConcurrentUploads
    <3>1. slotsTaken \in Nat
      BY Countable, FS_CardinalityType DEF SlotInv, SlotsAccounted
    <3> QED
      BY <1>5, <3>1 DEF maxConcurrentUploads
  <2>4. \A v \in Uploads : service[v].at # "processing"
    BY <2>3, SlotFree DEF Busy, Handling
  <2> HIDE DEF h
  <2>5. \A v \in Uploads : service'[v].at = "processing" => service'[v].turn = turns + 1
    BY <1>1, <2>1, <2>2, <2>4
  <2>6. Turned' /\ latest' >= latest
    BY <1>1, <1>2, <2>1, <2>5 DEF Turned
  <2> QED
    BY <1>3, <2>1, <2>2, <2>3, <2>6, ServiceStep DEF ServiceKept
<1> QED
  BY <1>4, <1>5

\* A handler that worked answers, whatever it has done; what it selected had its turn.
LEMMA AnswersKeeps ==
    ASSUME SlotInv, NEW u \in Uploads, UploadFails(u) \/ SaveAsset(u)
    PROVE  ServiceKept
<1> DEFINE h == [service[u] EXCEPT !.at = "returning", !.turn = 0]
<1>1. service[u].at = "processing" /\ service \in [Uploads -> UploadHandler]
  BY DEF UploadFails, SaveAsset, SlotInv, SlotKinds
<1>2. service' = [service EXCEPT ![u] = h] /\ UNCHANGED <<slotsTaken, turns>> /\ latest' \in {latest, service[u].turn}
  BY DEF UploadFails, SaveAsset, dbVars
<1>3. turns \in Nat /\ latest \in Nat /\ latest <= turns
      /\ \A v \in Uploads : service[v].at = "processing" => service[v].turn = turns
  BY DEF SlotInv, Turned
<1>4. h \in UploadHandler /\ h.at = "returning"
  BY <1>1 DEF UploadHandler, Handling
<1>5. u \in Busy /\ h.at \in Handling
  BY <1>1, <1>4 DEF Busy, Handling
<1> HIDE DEF h
<1>6. latest' \in Nat /\ latest' >= latest /\ latest' <= turns
  BY <1>1, <1>2, <1>3
<1>7. \A v \in Uploads : service'[v].at = "processing" => service'[v].turn = turns
  BY <1>1, <1>2, <1>3, <1>4
<1>8. Turned'
  BY <1>2, <1>3, <1>6, <1>7 DEF Turned
<1> QED
  BY <1>2, <1>4, <1>5, <1>6, <1>8, ServiceStep DEF ServiceKept

LEMMA GivesSlotKeeps ==
    ASSUME SlotInv, NEW u \in Uploads, GivesSlot(u)
    PROVE  ServiceKept
<1> DEFINE h == [service[u] EXCEPT !.at = "returned"]
<1>1. service[u].at = "returning" /\ service \in [Uploads -> UploadHandler]
  BY DEF GivesSlot, SlotInv, SlotKinds
<1>2. service' = [service EXCEPT ![u] = h] /\ slotsTaken' = slotsTaken - 1 /\ UNCHANGED <<turns, latest>>
  BY DEF GivesSlot, dbVars
<1>3. h \in UploadHandler /\ h.at = "returned"
  BY <1>1 DEF UploadHandler, Handling
<1>4. u \in Busy /\ h.at \notin Handling
  BY <1>1, <1>3 DEF Busy, Handling
<1> HIDE DEF h
<1>5. Turned' /\ latest' >= latest
  BY <1>1, <1>2, <1>3 DEF SlotInv, Turned
<1> QED
  BY <1>2, <1>3, <1>4, <1>5, ServiceStep DEF ServiceKept

\* The web server asks the service, which takes no slot yet; all else leaves it alone.
LEMMA OthersKeep ==
    ASSUME SlotInv, UNCHANGED <<slotsTaken, turns, latest>>,
           \/ UNCHANGED service
           \/ \E u \in Uploads : service[u].at \notin Handling /\ service' = [service EXCEPT ![u].at = "asked"]
    PROVE  ServiceKept
<1>1. service \in [Uploads -> UploadHandler]
  BY DEF SlotInv, SlotKinds
<1>2. CASE UNCHANGED service
  BY <1>2 DEF ServiceKept, SlotInv, SlotKinds, SlotsAccounted, Turned, Busy
<1>3. ASSUME NEW u \in Uploads, service[u].at \notin Handling, service' = [service EXCEPT ![u].at = "asked"]
      PROVE  ServiceKept
  <2> DEFINE h == [service[u] EXCEPT !.at = "asked"]
  <2>1. service' = [service EXCEPT ![u] = h]
    BY <1>3
  <2>2. h \in UploadHandler /\ h.at = "asked" /\ h.at \notin Handling
    BY <1>1 DEF UploadHandler, Handling
  <2>3. u \notin Busy
    BY <1>3 DEF Busy
  <2> HIDE DEF h
  <2>4. Turned' /\ latest' >= latest
    BY <1>1, <2>1, <2>2 DEF SlotInv, Turned
  <2> QED
    BY <2>1, <2>2, <2>3, <2>4, ServiceStep DEF ServiceKept
<1> QED
  BY <1>2, <1>3

LEMMA ServiceKeepsSlots ==
    ASSUME SlotInv, AssetsNext
    PROVE  ServiceKept
<1>1. CASE \E u \in Uploads : TakesSlot(u) \/ UploadFails(u) \/ SaveAsset(u) \/ GivesSlot(u)
  BY <1>1, TakesSlotKeeps, AnswersKeeps, GivesSlotKeeps
<1>2. ASSUME NEW u \in Uploads, uploadAsset(u), UNCHANGED <<slotsTaken, turns, dbVars>>
      PROVE  ServiceKept
  <2>1. service[u].at \notin Handling
    BY <1>2 DEF uploadAsset, SlotInv, Unasked, NotPassedOn, Handling
  <2>2. UNCHANGED service \/ service' = [service EXCEPT ![u].at = "asked"]
    BY <1>2 DEF uploadAsset
  <2> QED
    BY <1>2, <2>1, <2>2, OthersKeep DEF dbVars
<1>3. AssetsNext =>
        \/ \E u \in Uploads : TakesSlot(u) \/ UploadFails(u) \/ SaveAsset(u) \/ GivesSlot(u)
        \/ \E u \in Uploads : uploadAsset(u) /\ UNCHANGED <<slotsTaken, turns, dbVars>>
        \/ UNCHANGED <<service, slotsTaken, turns, latest>>
  BY DEF AssetsNext, goVars, dbVars, send, translateBodyError, readBoundedRequestBody, validateUploadForm,
     UpdateSettings, DeleteAsset, Enqueue, Moves, PruneRetention, PruneFails
<1> QED
  BY <1>1, <1>2, <1>3, OthersKeep

\* An upload that has not come to the service is heard of only when it does.
LEMMA UnaskedStays ==
    ASSUME SlotInv, AssetsNext
    PROVE  Unasked'
<1>1. upload \in [Uploads -> UploadRequest] /\ service \in [Uploads -> UploadHandler]
      /\ \A v \in Uploads : upload[v].at \in NotPassedOn => service[v].at = "none"
  BY DEF SlotInv, SlotKinds, Unasked
<1>2. ASSUME UNCHANGED service, NEW u \in Uploads, NEW r, upload' = [upload EXCEPT ![u] = r],
             r.at \in NotPassedOn => upload[u].at \in NotPassedOn
      PROVE  Unasked'
  BY <1>1, <1>2 DEF Unasked
<1>3. CASE send
  <2>1. PICK u \in Uploads, user \in Owners, file \in Files :
           /\ upload[u].at = "none" /\ UNCHANGED service
           /\ upload' = [upload EXCEPT ![u] = [user |-> user, file |-> file, cancelled |-> FALSE, at |-> "sent"]]
    BY <1>3 DEF send, goVars
  <2>2. upload[u].at \in NotPassedOn
    BY <2>1 DEF NotPassedOn
  <2> QED
    BY <1>2, <2>1, <2>2
<1>4. ASSUME NEW u \in Uploads, NEW reply, Responds(u, reply), UNCHANGED service
      PROVE  Unasked'
  <2>1. \A v \in Uploads : upload'[v].at = "answered" \/ upload'[v] = upload[v]
    BY <1>1, <1>4 DEF Responds, UploadRequest
  <2> QED
    BY <1>1, <1>4, <2>1 DEF Unasked, NotPassedOn
<1>5. ASSUME NEW u \in Uploads, UNCHANGED service,
             \/ acquireUpload(u) /\ ~\E reply : Responds(u, reply)
             \/ cancel(u) \/ readBoundedRequestBody(u)
      PROVE  Unasked'
  <2>1. \A v \in Uploads : upload'[v].at \in NotPassedOn => upload[v].at \in NotPassedOn
    BY <1>1, <1>5 DEF acquireUpload, cancel, readBoundedRequestBody, UploadRequest, NotPassedOn
  <2> QED
    BY <1>1, <1>5, <2>1 DEF Unasked
<1>6. ASSUME NEW u \in Uploads, upload' = [upload EXCEPT ![u].at = "service"],
             service' = [service EXCEPT ![u].at = "asked"]
      PROVE  Unasked'
  <2>1. \A v \in Uploads : upload'[v].at \in NotPassedOn => v # u /\ upload'[v] = upload[v]
    BY <1>1, <1>6 DEF UploadRequest, NotPassedOn
  <2>2. \A v \in Uploads \ {u} : service'[v] = service[v]
    BY <1>1, <1>6
  <2> QED
    BY <1>1, <2>1, <2>2 DEF Unasked
<1>7. ASSUME NEW u \in Uploads, TakesSlot(u) \/ UploadFails(u) \/ SaveAsset(u) \/ GivesSlot(u), UNCHANGED webVars
      PROVE  Unasked'
  <2>1. service[u].at # "none" /\ UNCHANGED upload /\ \A v \in Uploads \ {u} : service'[v] = service[v]
    BY <1>1, <1>7 DEF TakesSlot, UploadFails, SaveAsset, GivesSlot, webVars
  <2> QED
    BY <1>1, <2>1 DEF Unasked
<1>8. ASSUME NEW u \in Uploads, uploadAsset(u) PROVE Unasked'
  BY <1>4, <1>6, <1>8 DEF uploadAsset
<1>9. ASSUME NEW u \in Uploads, UNCHANGED service,
             \/ rejectInvalidUploadBoundary(u) \/ acquireUpload(u) \/ cancel(u) \/ settle(u)
             \/ translateBodyError(u) \/ readBoundedRequestBody(u) \/ validateUploadForm(u)
      PROVE  Unasked'
  BY <1>4, <1>5, <1>9 DEF rejectInvalidUploadBoundary, settle, translateBodyError, validateUploadForm
<1>10. CASE UNCHANGED webVars /\ UNCHANGED goVars
  BY <1>1, <1>10 DEF Unasked, webVars, goVars
<1> QED
  BY <1>3, <1>7, <1>8, <1>9, <1>10 DEF AssetsNext, goVars, translateBodyError, readBoundedRequestBody, validateUploadForm

LEMMA SlotStep == SlotInv /\ [AssetsNext]_assetVars => SlotInv' /\ latest' >= latest
<1> SUFFICES ASSUME SlotInv, [AssetsNext]_assetVars PROVE SlotInv' /\ latest' >= latest
  OBVIOUS
<1>1. CASE UNCHANGED assetVars
  BY <1>1 DEF assetVars, SlotInv, SlotKinds, SlotsAccounted, Turned, Distinct, Unasked, Held, Busy
<1>2. CASE AssetsNext
  BY <1>2, WebKeepsSlots, ServiceKeepsSlots, UnaskedStays DEF SlotInv, SlotKinds, SlotsAccounted, ServiceKept
<1> QED
  BY <1>1, <1>2

\* Every slot that is taken is given back once, however an upload ends on either
\* server, and images are saved in the order their handlers took the slot
\* (releaseUpload, uploadSlots).
THEOREM TurnsTaken == AssetsSpec => UploadsTakeTurns
<1>1. SlotInv => SlotsAccounted
  BY DEF SlotInv
<1>2. [AssetsNext]_assetVars /\ SlotInv => [latest' >= latest]_latest
  BY SlotStep
<1>3. SlotsAccounted <=> /\ activeUploads = [count |-> Cardinality(Held), users |-> { upload[u].user : u \in Held }]
                         /\ slotsTaken = Cardinality(Busy)
  BY DEF SlotsAccounted
<1> QED
  BY <1>1, <1>2, <1>3, SlotInit, SlotStep, PTL DEF AssetsSpec, UploadsTakeTurns

-----------------------------------------------------------------------------
(* A handler takes one turn of the service, so there are no more turns than *)
(* uploads; and the web server is in no more uploads than it allows.        *)

\* The uploads whose handler has looked for the slot.
Begun == { u \in Uploads : service[u].at \notin {"none", "asked"} }

TurnsInv ==
    /\ activeUploads.count <= maxConcurrentUploads
    /\ turns <= Cardinality(Begun)
    /\ \A u \in Uploads : service[u].turn <= turns

LEMMA BegunCounted == IsFiniteSet(Begun) /\ Cardinality(Begun) \in Nat /\ Cardinality(Begun) <= MaxUploads
<1>1. MaxUploads \in Nat /\ Uploads = 1..MaxUploads
  BY AssetsAssumption DEF Uploads
<1>2. IsFiniteSet(Uploads) /\ Cardinality(Uploads) = MaxUploads
  BY <1>1, FS_Interval
<1>3. IsFiniteSet(Begun) /\ Cardinality(Begun) <= Cardinality(Uploads)
  BY <1>2, FS_Subset DEF Begun
<1> QED
  BY <1>2, <1>3, FS_CardinalityType

LEMMA TurnsInit == AssetsInit => TurnsInv
<1> SUFFICES ASSUME AssetsInit PROVE TurnsInv
  OBVIOUS
<1>1. 0 <= Cardinality(Begun)
  BY BegunCounted
<1> QED
  BY <1>1 DEF AssetsInit, TurnsInv, maxConcurrentUploads

\* An upload is counted when there is room for it, and for nothing else.
LEMMA CountStep ==
    ASSUME SlotInv, TurnsInv, [AssetsNext]_assetVars
    PROVE  activeUploads'.count <= maxConcurrentUploads
<1>1. activeUploads.count \in Nat /\ activeUploads.count <= 1
  <2>1. activeUploads.count = Cardinality(Held)
    BY DEF SlotInv, SlotsAccounted
  <2> QED
    BY <2>1, Countable, FS_CardinalityType DEF TurnsInv, maxConcurrentUploads
<1>2. CASE UNCHANGED activeUploads
  BY <1>2 DEF TurnsInv
<1>3. ASSUME NEW u \in Uploads, NEW reply, Responds(u, reply)
      PROVE  activeUploads'.count <= 1
  BY <1>1, <1>3 DEF Responds, releaseUpload
<1>4. ASSUME NEW u \in Uploads, acquireUpload(u)
      PROVE  activeUploads'.count <= 1
  BY <1>1, <1>3, <1>4 DEF acquireUpload, maxConcurrentUploads
<1>5. \/ UNCHANGED activeUploads
      \/ \E u \in Uploads : acquireUpload(u) \/ \E reply : Responds(u, reply)
  BY DEF AssetsNext, assetVars, webVars, send, rejectInvalidUploadBoundary, cancel, settle, translateBodyError,
     readBoundedRequestBody, validateUploadForm, uploadAsset
<1>6. maxConcurrentUploads = 1
  BY DEF maxConcurrentUploads
<1> QED
  BY <1>2, <1>3, <1>4, <1>5, <1>6

\* A handler that finds the slot free takes the next turn, and every other step leaves
\* the turns alone.
LEMMA TurnsStep == SlotInv /\ SlotInv' /\ TurnsInv /\ [AssetsNext]_assetVars => TurnsInv'
<1> SUFFICES ASSUME SlotInv, SlotInv', TurnsInv, [AssetsNext]_assetVars PROVE TurnsInv'
  OBVIOUS
<1>1. service \in [Uploads -> UploadHandler] /\ turns \in Nat /\ turns <= Cardinality(Begun)
      /\ \A u \in Uploads : service[u].turn \in Nat /\ service[u].turn <= turns
  BY DEF SlotInv, SlotKinds, Turned, TurnsInv, UploadHandler
<1>2. Cardinality(Begun) \in Nat /\ IsFiniteSet(Begun)
  BY BegunCounted
<1>3. ASSUME NEW u \in Uploads, TakesSlot(u)
      PROVE  turns' <= Cardinality(Begun') /\ \A v \in Uploads : service'[v].turn <= turns'
  <2>1. service[u].at = "asked" /\ u \notin Begun
    BY <1>3 DEF TakesSlot, Begun
  <2>2. /\ service'[u].at \notin {"none", "asked"} /\ \A v \in Uploads \ {u} : service'[v] = service[v]
        /\ turns' \in {turns, turns + 1}
        /\ \/ turns' = turns /\ service'[u].turn = service[u].turn
           \/ service'[u].turn = turns'
    BY <1>1, <1>3 DEF TakesSlot, UploadHandler
  <2>3. Begun' = Begun \cup {u}
    BY <2>2 DEF Begun
  <2>4. Cardinality(Begun') = Cardinality(Begun) + 1
    BY <1>2, <2>1, <2>3, FS_AddElement
  <2> QED
    BY <1>1, <1>2, <2>2, <2>4
<1>4. ASSUME UNCHANGED turns,
             \/ UNCHANGED service
             \/ \E u \in Uploads :
                  \/ service[u].at = "none" /\ service' = [service EXCEPT ![u].at = "asked"]
                  \/ service[u].at = "returning" /\ service' = [service EXCEPT ![u].at = "returned"]
                  \/ service[u].at = "processing" /\ service' = [service EXCEPT ![u].at = "returning", ![u].turn = 0]
      PROVE  turns' <= Cardinality(Begun') /\ \A v \in Uploads : service'[v].turn <= turns'
  <2>1. CASE UNCHANGED service
    BY <1>1, <1>4, <2>1 DEF Begun
  <2>2. ASSUME NEW u \in Uploads,
               \/ service[u].at = "none" /\ service' = [service EXCEPT ![u].at = "asked"]
               \/ service[u].at = "returning" /\ service' = [service EXCEPT ![u].at = "returned"]
               \/ service[u].at = "processing" /\ service' = [service EXCEPT ![u].at = "returning", ![u].turn = 0]
        PROVE  turns' <= Cardinality(Begun') /\ \A v \in Uploads : service'[v].turn <= turns'
    <3>1. /\ \A v \in Uploads \ {u} : service'[v] = service[v]
          /\ service'[u].turn \in {0, service[u].turn}
          /\ service[u].at \in {"none", "asked"} <=> service'[u].at \in {"none", "asked"}
      BY <1>1, <2>2 DEF UploadHandler
    <3>2. Begun' = Begun
      BY <3>1 DEF Begun
    <3> QED
      BY <1>1, <1>4, <3>1, <3>2
  <2> QED
    BY <1>4, <2>1, <2>2
<1>5. ASSUME NEW u \in Uploads, uploadAsset(u), UNCHANGED turns
      PROVE  turns' <= Cardinality(Begun') /\ \A v \in Uploads : service'[v].turn <= turns'
  <2>1. service[u].at = "none"
    BY <1>5 DEF uploadAsset, SlotInv, Unasked, NotPassedOn
  <2> QED
    BY <1>4, <1>5, <2>1 DEF uploadAsset
<1>6. ASSUME NEW u \in Uploads, UploadFails(u) \/ SaveAsset(u) \/ GivesSlot(u)
      PROVE  turns' <= Cardinality(Begun') /\ \A v \in Uploads : service'[v].turn <= turns'
  BY <1>4, <1>6 DEF UploadFails, SaveAsset, GivesSlot
<1>7. \/ UNCHANGED turns /\ UNCHANGED service
      \/ \E u \in Uploads : TakesSlot(u) \/ UploadFails(u) \/ SaveAsset(u) \/ GivesSlot(u)
      \/ \E u \in Uploads : uploadAsset(u) /\ UNCHANGED turns
  BY DEF AssetsNext, assetVars, goVars, send, translateBodyError, readBoundedRequestBody, validateUploadForm
<1>8. turns' <= Cardinality(Begun') /\ \A v \in Uploads : service'[v].turn <= turns'
  BY <1>3, <1>4, <1>5, <1>6, <1>7
<1> QED
  BY <1>8, CountStep DEF TurnsInv

\* The uploads, slots, images and alerts keep their kinds, and the turns their bound.
THEOREM AssetsTyped == AssetsSpec => []AssetsTypeOK
<1>1. MediaInv /\ SlotInv /\ TurnsInv => AssetsTypeOK
  <2> SUFFICES ASSUME MediaInv, SlotInv, TurnsInv PROVE AssetsTypeOK
    OBVIOUS
  <2>1. upload \in [Uploads -> [user: Owners, file: Files, cancelled: BOOLEAN,
                                at: InProgress \cup {"none", "sent", "answered"}]]
    BY DEF SlotInv, SlotKinds, UploadRequest
  <2>2. activeUploads.count \in 0..maxConcurrentUploads /\ activeUploads.users \subseteq Owners
    <3>1. activeUploads.count = Cardinality(Held) /\ activeUploads.users = { upload[u].user : u \in Held }
      BY DEF SlotInv, SlotsAccounted
    <3>2. Cardinality(Held) \in Nat
      BY Countable, FS_CardinalityType
    <3>3. { upload[u].user : u \in Held } \subseteq Owners
      BY <2>1 DEF Held
    <3> QED
      BY <3>1, <3>2, <3>3 DEF TurnsInv, maxConcurrentUploads
  <2>3. service \in [Uploads -> [at: Handling \cup {"none", "asked", "returned"}, turn: 0..MaxUploads]]
    <3>1. service \in [Uploads -> UploadHandler] /\ turns \in Nat /\ turns <= Cardinality(Begun)
      BY DEF SlotInv, SlotKinds, Turned, TurnsInv
    <3>2. MaxUploads \in Nat /\ turns <= MaxUploads
      BY <3>1, BegunCounted, AssetsAssumption
    <3>3. \A u \in Uploads : service[u] \in UploadHandler /\ service[u].turn <= turns
      BY <3>1 DEF TurnsInv
    <3>4. \A u \in Uploads : service[u] \in [at: Handling \cup {"none", "asked", "returned"}, turn: 0..MaxUploads]
      BY <3>1, <3>2, <3>3 DEF UploadHandler
    <3> QED
      BY <3>1, <3>4
  <2>4. slotsTaken \in 0..maxConcurrentUploads
    BY Countable, FS_CardinalityType DEF SlotInv, SlotKinds, SlotsAccounted, maxConcurrentUploads
  <2> QED
    BY <2>1, <2>2, <2>3, <2>4 DEF MediaInv, MediaKinds, AlertRow, AssetsTypeOK
<1>2. AssetsInit => MediaInv /\ SlotInv /\ TurnsInv
  BY MediaInit, SlotInit, TurnsInit
<1>3. MediaInv /\ SlotInv /\ TurnsInv /\ [AssetsNext]_assetVars => (MediaInv /\ SlotInv /\ TurnsInv)'
  BY MediaStep, SlotStep, TurnsStep
<1> QED
  BY <1>1, <1>2, <1>3, PTL DEF AssetsSpec

-----------------------------------------------------------------------------
(* The connecting of a provider.                                           *)

Users   == Accounts \cup {"none"}
AtWork  == {"exchanging", "importing", "saved", "failed"}
Attempt == [at: {"none", "asked", "offered", "refused"}, provider: Providers, user: Users]
Load    == [at: {"none", "sent", "answered"} \cup AtWork, of: 0..MaxAttempts, state: 0..MaxAttempts,
            user: Users, code: BOOLEAN, again: BOOLEAN]

\* The kinds of all variables, with the fields ConnectTypeOK leaves open.
ConnectKinds ==
    /\ account \in Users
    /\ cookie \in [Stateful -> 0..MaxAttempts]
    /\ attempt \in [Attempts -> Attempt]
    /\ callback \in [Loads -> Load]
    /\ exchanged \in SUBSET Attempts
    /\ linked \in [Accounts -> [Providers -> 0..MaxAttempts]]

\* Load k is of an attempt that was offered.
OfOffered(k) == callback[k].of \in Attempts /\ attempt[callback[k].of].at = "offered"

\* A page is loaded for an attempt that was offered, and gets to the donation
\* service with an account: with a state, that of the attempt.
Checked ==
    \A k \in Loads :
        /\ callback[k].at # "none" => OfOffered(k)
        /\ callback[k].at \in AtWork =>
              /\ callback[k].user # "none"
              /\ attempt[callback[k].of].provider \in Stateful => attempt[callback[k].of].user = callback[k].user

\* The cookie does not name an attempt one of whose pages was answered.
Cleared ==
    \A k \in Loads :
        LET provider == attempt[callback[k].of].provider IN
        callback[k].at = "answered" /\ provider \in Stateful => cookie[provider] # callback[k].of

\* A page loaded after an answer has no use for the cookie.
Repeated ==
    \A k \in Loads :
        callback[k].again =>
            /\ callback[k].at # "none"
            /\ attempt[callback[k].of].provider \in Stateful
                  => callback[k].at \in {"sent", "answered"} /\ callback[k].state # callback[k].of

\* Only offered attempts are linked, those with a state to their account.
Linked ==
    \A user \in Accounts, provider \in Providers :
        linked[user][provider] # 0 =>
            LET n == linked[user][provider] IN
            /\ attempt[n].at = "offered"
            /\ provider \in Stateful => attempt[n].user = user

ConnectInv == ConnectKinds /\ Checked /\ Cleared /\ Repeated /\ Linked

-----------------------------------------------------------------------------
\* Nothing is begun, loaded or linked at first.
LEMMA ConnectInitInv == ConnectInit => ConnectInv
<1> SUFFICES ASSUME ConnectInit PROVE ConnectInv
  OBVIOUS
<1>1. 0 \in 0..MaxAttempts
  BY ConnectAssumption
<1>2. NoAttempt \in Attempt
  BY DEF NoAttempt, Attempt, Providers, Stateful, Users
<1>3. NoLoad \in Load
  BY <1>1 DEF NoLoad, Load, Users
<1>4. ConnectKinds
  BY <1>1, <1>2, <1>3 DEF ConnectInit, ConnectKinds, Users, Accounts, Attempts
<1>5. \A k \in Loads : callback[k].at = "none" /\ ~callback[k].again
  BY DEF ConnectInit, NoLoad
<1>6. Checked /\ Cleared /\ Repeated
  BY <1>5 DEF Checked, Cleared, Repeated, AtWork
<1>7. Linked
  BY DEF ConnectInit, Linked
<1> QED
  BY <1>4, <1>6, <1>7 DEF ConnectInv

\* An attempt that is not offered yet has no load and no grant: it may change.
LEMMA AttemptMoves ==
    ASSUME ConnectInv, NEW n \in Attempts, attempt[n].at # "offered",
           attempt' \in [Attempts -> Attempt],
           \A m \in Attempts \ {n} : attempt'[m] = attempt[m],
           cookie' \in [Stateful -> 0..MaxAttempts],
           \A provider \in Stateful : cookie'[provider] \in {cookie[provider], 0, n},
           UNCHANGED <<account, callback, exchanged, linked>>
    PROVE  ConnectInv'
<1>1. ConnectKinds'
  BY DEF ConnectInv, ConnectKinds
<1>2. \A k \in Loads : callback[k].at # "none" =>
          callback[k].of \in Attempts \ {n} /\ callback[k].of # 0
  BY DEF ConnectInv, Checked, OfOffered, Attempts
<1>3. \A k \in Loads : callback[k].at # "none" => attempt'[callback[k].of] = attempt[callback[k].of]
  BY <1>2
<1>4. Checked'
  BY <1>2, <1>3 DEF ConnectInv, Checked, OfOffered, AtWork
<1>5. Cleared'
  <2> SUFFICES ASSUME NEW k \in Loads, callback[k].at = "answered",
                      attempt'[callback[k].of].provider \in Stateful
               PROVE  cookie'[attempt'[callback[k].of].provider] # callback[k].of
    BY DEF Cleared
  <2> QED
    BY <1>2, <1>3 DEF ConnectInv, Cleared
<1>6. Repeated'
  BY <1>3 DEF ConnectInv, Repeated
<1>7. Linked'
  <2> SUFFICES ASSUME NEW user \in Accounts, NEW provider \in Providers, linked[user][provider] # 0
               PROVE  /\ attempt'[linked[user][provider]].at = "offered"
                      /\ provider \in Stateful => attempt'[linked[user][provider]].user = user
    BY DEF Linked
  <2>1. linked[user][provider] \in Attempts
    BY ConnectAssumption DEF ConnectInv, ConnectKinds, Attempts
  <2>2. attempt[linked[user][provider]].at = "offered"
    BY DEF ConnectInv, Linked
  <2>3. attempt'[linked[user][provider]] = attempt[linked[user][provider]]
    BY <2>1, <2>2
  <2> QED
    BY <2>2, <2>3 DEF ConnectInv, Linked
<1> QED
  BY <1>1, <1>4, <1>5, <1>6, <1>7 DEF ConnectInv

\* Signing in or out touches nothing that is under way.
LEMMA SwitchKeeps == ConnectInv /\ SignsInOrOut => ConnectInv'
  BY DEF ConnectInv, ConnectKinds, Checked, Cleared, Repeated, Linked, OfOffered, SignsInOrOut, Users, AtWork

LEMMA BeginKeeps ==
    ASSUME ConnectInv, NEW n \in Attempts, Begins(n)
    PROVE  ConnectInv'
<1>1. PICK provider \in Providers :
          attempt' = [attempt EXCEPT ![n] = [at |-> "asked", provider |-> provider, user |-> account]]
  BY DEF Begins
<1>2. [at |-> "asked", provider |-> provider, user |-> account] \in Attempt
  BY DEF ConnectInv, ConnectKinds, Attempt
<1>3. attempt' \in [Attempts -> Attempt] /\ \A m \in Attempts \ {n} : attempt'[m] = attempt[m]
  BY <1>1, <1>2 DEF ConnectInv, ConnectKinds
<1>4. cookie' \in [Stateful -> 0..MaxAttempts] /\ UNCHANGED <<account, cookie, callback, exchanged, linked>>
  BY DEF Begins, ConnectInv, ConnectKinds
<1>5. attempt[n].at # "offered"
  BY DEF Begins
<1> QED
  BY <1>3, <1>4, <1>5, AttemptMoves

LEMMA AuthorizesKeep ==
    ASSUME ConnectInv, NEW n \in Attempts, Authorizes(n)
    PROVE  ConnectInv'
<1>1. n \in 0..MaxAttempts /\ 0 \in 0..MaxAttempts
  BY ConnectAssumption DEF Attempts
<1>2. attempt[n].at # "offered" /\ UNCHANGED <<account, callback, exchanged, linked>>
  BY DEF Authorizes
<1>3. Offers(n) \/ Refuses(n)
  BY DEF Authorizes, handleDonationAlertsAuthorize, handleStreamlabsAuthorize, handleStreamElementsAuthorize
<1>4. attempt' \in [Attempts -> Attempt] /\ \A m \in Attempts \ {n} : attempt'[m] = attempt[m]
  BY <1>3 DEF Offers, Refuses, ConnectInv, ConnectKinds, Attempt
<1>5. \/ UNCHANGED cookie
      \/ \E provider \in Stateful, to \in {0, n} : cookie' = [cookie EXCEPT ![provider] = to]
  BY DEF Authorizes, handleDonationAlertsAuthorize, handleStreamlabsAuthorize,
         handleStreamElementsAuthorize, create, clear, Stateful
<1>6. /\ cookie' \in [Stateful -> 0..MaxAttempts]
      /\ \A provider \in Stateful : cookie'[provider] \in {cookie[provider], 0, n}
  BY <1>1, <1>5 DEF ConnectInv, ConnectKinds
<1> QED
  BY <1>2, <1>4, <1>6, AttemptMoves

-----------------------------------------------------------------------------
\* What a step of load k has to show of k itself, and of the cookie.
LEMMA LoadMoves ==
    ASSUME ConnectInv, NEW k \in Loads, callback' \in [Loads -> Load],
           \A j \in Loads \ {k} : callback'[j] = callback[j],
           callback'[k].at # "none", OfOffered(k)',
           callback'[k].at \in AtWork =>
              /\ callback'[k].user # "none"
              /\ attempt[callback'[k].of].provider \in Stateful
                    => attempt[callback'[k].of].user = callback'[k].user,
           callback'[k].at = "answered" /\ attempt[callback'[k].of].provider \in Stateful
              => cookie'[attempt[callback'[k].of].provider] = 0,
           callback'[k].again /\ attempt[callback'[k].of].provider \in Stateful
              => callback'[k].at \in {"sent", "answered"} /\ callback'[k].state # callback'[k].of,
           cookie' \in [Stateful -> 0..MaxAttempts],
           \A provider \in Stateful : cookie'[provider] \in {cookie[provider], 0},
           UNCHANGED <<account, attempt>>, exchanged' \in SUBSET Attempts,
           linked' \in [Accounts -> [Providers -> 0..MaxAttempts]], Linked'
    PROVE  ConnectInv'
<1>1. ConnectKinds'
  BY DEF ConnectInv, ConnectKinds
<1>2. \A j \in Loads : j = k \/ callback'[j] = callback[j]
  OBVIOUS
<1>3. Checked'
  BY <1>2 DEF ConnectInv, Checked, OfOffered
<1>4. Cleared'
  <2> SUFFICES ASSUME NEW j \in Loads, callback'[j].at = "answered",
                      attempt[callback'[j].of].provider \in Stateful
               PROVE  cookie'[attempt[callback'[j].of].provider] # callback'[j].of
    BY DEF Cleared
  <2>1. callback'[j].of # 0
    BY <1>3 DEF Checked, OfOffered, Attempts
  <2>2. CASE j = k
    BY <2>1, <2>2
  <2>3. CASE j # k
    BY <2>1, <2>3 DEF ConnectInv, Cleared
  <2> QED
    BY <2>2, <2>3
<1>5. Repeated'
  BY <1>2 DEF ConnectInv, Repeated
<1> QED
  BY <1>1, <1>3, <1>4, <1>5 DEF ConnectInv

LEMMA ReturnKeeps ==
    ASSUME ConnectInv, NEW k \in Loads, Returns(k)
    PROVE  ConnectInv'
<1>1. PICK n \in Attempts, granted \in BOOLEAN :
        /\ attempt[n].at = "offered"
        /\ callback' = [callback EXCEPT ![k] =
              [at |-> "sent", of |-> n, user |-> account, code |-> granted,
               state |-> IF attempt[n].provider \in Stateful THEN cookie[attempt[n].provider] ELSE 0,
               again |-> \E j \in { i \in Loads : callback[i].of = n } : callback[j].at = "answered"]]
  BY DEF Returns
<1> DEFINE load == [at |-> "sent", of |-> n, user |-> account, code |-> granted,
                    state |-> IF attempt[n].provider \in Stateful THEN cookie[attempt[n].provider] ELSE 0,
                    again |-> \E j \in { i \in Loads : callback[i].of = n } : callback[j].at = "answered"]
<1>2. 0 \in 0..MaxAttempts /\ n \in 0..MaxAttempts
  BY ConnectAssumption DEF Attempts
<1>3. load.state \in 0..MaxAttempts /\ account \in Users
  BY <1>2 DEF ConnectInv, ConnectKinds
<1>4. load \in Load
  BY <1>2, <1>3, Zenon DEF Load
<1>5. callback' \in [Loads -> Load] /\ callback'[k] = load /\ \A j \in Loads \ {k} : callback'[j] = callback[j]
  BY <1>1, <1>4 DEF ConnectInv, ConnectKinds
<1>6. UNCHANGED <<account, cookie, attempt, exchanged, linked>>
  BY DEF Returns
<1>7. ASSUME load.again, attempt[n].provider \in Stateful PROVE load.state # n
  <2>1. PICK j \in Loads : callback[j].of = n /\ callback[j].at = "answered"
    BY <1>7
  <2> QED
    BY <1>7, <2>1 DEF ConnectInv, Cleared
<1>8. load.at = "sent" /\ load.of = n
  OBVIOUS
<1> HIDE DEF load
<1>9. OfOffered(k)'
  BY <1>1, <1>5, <1>6, <1>8 DEF OfOffered
<1>10. Linked'
  BY <1>6 DEF ConnectInv, Linked
<1>11. /\ cookie' \in [Stateful -> 0..MaxAttempts] /\ exchanged' \in SUBSET Attempts
       /\ linked' \in [Accounts -> [Providers -> 0..MaxAttempts]]
  BY <1>6 DEF ConnectInv, ConnectKinds
<1> QED
  BY <1>5, <1>6, <1>7, <1>8, <1>9, <1>10, <1>11, LoadMoves DEF AtWork

\* The other steps of a load only move it on.
LEMMA LoadGoesOn ==
    ASSUME ConnectInv, NEW k \in Loads, callback[k].at # "none",
           NEW to \in {"answered"} \cup AtWork, callback' = [callback EXCEPT ![k].at = to],
           to \in AtWork => /\ callback[k].user # "none"
                            /\ attempt[callback[k].of].provider \in Stateful
                                 => attempt[callback[k].of].user = callback[k].user /\ ~callback[k].again,
           to = "answered" /\ attempt[callback[k].of].provider \in Stateful
              => cookie'[attempt[callback[k].of].provider] = 0,
           cookie' \in [Stateful -> 0..MaxAttempts],
           \A provider \in Stateful : cookie'[provider] \in {cookie[provider], 0},
           UNCHANGED <<account, attempt>>, exchanged' \in SUBSET Attempts,
           linked' \in [Accounts -> [Providers -> 0..MaxAttempts]], Linked'
    PROVE  ConnectInv'
<1>1. callback \in [Loads -> Load]
  BY DEF ConnectInv, ConnectKinds
<1>2. callback' \in [Loads -> Load]
  BY <1>1 DEF Load
<1>3. /\ \A j \in Loads \ {k} : callback'[j] = callback[j]
      /\ callback'[k].at = to /\ callback'[k].of = callback[k].of /\ callback'[k].user = callback[k].user
      /\ callback'[k].state = callback[k].state /\ callback'[k].again = callback[k].again
  BY <1>1 DEF Load
<1>4. OfOffered(k)'
  BY <1>3 DEF ConnectInv, Checked, OfOffered
<1>5. callback'[k].again /\ attempt[callback'[k].of].provider \in Stateful
         => callback'[k].at \in {"sent", "answered"} /\ callback'[k].state # callback'[k].of
  BY <1>3 DEF ConnectInv, Repeated
<1>6. callback'[k].at # "none"
  BY <1>3 DEF AtWork
<1> QED
  BY <1>2, <1>3, <1>4, <1>5, <1>6, LoadMoves

\* A load gets past a callback with an account, the attempt's if there is a state.
LEMMA ReceiveKeeps ==
    ASSUME ConnectInv, NEW k \in Loads, Receives(k)
    PROVE  ConnectInv'
<1> DEFINE n == callback[k].of
           provider == attempt[n].provider
<1>1. callback[k].at = "sent" /\ UNCHANGED <<account, attempt, exchanged, linked>>
  BY DEF Receives
<1>2. n \in Attempts /\ provider \in Providers
  BY <1>1 DEF ConnectInv, Checked, OfOffered, ConnectKinds, Attempt
<1>3. Linked' /\ exchanged' \in SUBSET Attempts /\ linked' \in [Accounts -> [Providers -> 0..MaxAttempts]]
  BY <1>1 DEF ConnectInv, Linked, ConnectKinds
<1>4. 0 \in 0..MaxAttempts /\ cookie \in [Stateful -> 0..MaxAttempts]
  BY ConnectAssumption DEF ConnectInv, ConnectKinds
<1>5. CASE handleDonationAlertsCallback(k)
  <2>1. provider \notin Stateful /\ UNCHANGED cookie
    BY <1>5 DEF handleDonationAlertsCallback, Stateful
  <2>2. PICK to \in {"answered", "exchanging"} :
           callback' = [callback EXCEPT ![k].at = to] /\ (to = "exchanging" => callback[k].user # "none")
    BY <1>5 DEF handleDonationAlertsCallback, Connects, Answers, getUserId
  <2>3. to \in {"answered"} \cup AtWork
    BY DEF AtWork
  <2> HIDE DEF n, provider
  <2> QED
    BY <1>1, <1>3, <1>4, <2>1, <2>2, <2>3, LoadGoesOn DEF n, provider, AtWork
<1>6. CASE provider \in Stateful /\ handleStatefulCallback(k, provider)
  <2>1. PICK user \in getUserId(k) :
           IF user # "none" /\ verify(callback[k].state, n, user) /\ callback[k].code
           THEN Connects(k) /\ UNCHANGED cookie
           ELSE Answers(k) /\ clear(provider)
    BY <1>6 DEF handleStatefulCallback
  <2>2. CASE user # "none" /\ verify(callback[k].state, n, user) /\ callback[k].code
    <3>1. user = callback[k].user /\ user # "none" /\ callback[k].state = n /\ attempt[n].user = user
      BY <2>2 DEF getUserId, verify
    <3>2. ~callback[k].again
      BY <1>6, <3>1 DEF ConnectInv, Repeated
    <3>3. callback' = [callback EXCEPT ![k].at = "exchanging"] /\ UNCHANGED cookie
      BY <2>1, <2>2 DEF Connects
    <3>4. "exchanging" \in {"answered"} \cup AtWork /\ "exchanging" # "answered"
      BY DEF AtWork
    <3> QED
      BY <1>1, <1>3, <1>4, <3>1, <3>2, <3>3, <3>4, LoadGoesOn
  <2>3. CASE ~(user # "none" /\ verify(callback[k].state, n, user) /\ callback[k].code)
    <3>1. callback' = [callback EXCEPT ![k].at = "answered"] /\ cookie' = [cookie EXCEPT ![provider] = 0]
      BY <2>1, <2>3 DEF Answers, clear
    <3>2. /\ cookie' \in [Stateful -> 0..MaxAttempts] /\ cookie'[provider] = 0
          /\ \A p \in Stateful : cookie'[p] \in {cookie[p], 0}
      BY <1>4, <1>6, <3>1
    <3>3. "answered" \in {"answered"} \cup AtWork /\ "answered" \notin AtWork
      BY DEF AtWork
    <3> QED
      BY <1>1, <1>3, <3>1, <3>2, <3>3, LoadGoesOn
  <2> QED
    BY <2>2, <2>3
<1>7. handleDonationAlertsCallback(k) \/ (provider \in Stateful /\ handleStatefulCallback(k, provider))
  BY DEF Receives, handleStreamlabsCallback, handleStreamElementsCallback, handleStatefulCallback, Stateful
<1> QED
  BY <1>5, <1>6, <1>7

\* Whoever is at work stays entitled to it.
LEMMA AtWorkEntitled ==
    ASSUME ConnectInv, NEW k \in Loads, callback[k].at \in AtWork
    PROVE  /\ callback[k].at # "none" /\ OfOffered(k)
           /\ callback[k].user \in Accounts
           /\ attempt[callback[k].of].provider \in Stateful
                => attempt[callback[k].of].user = callback[k].user /\ ~callback[k].again
<1>1. callback[k].at \notin {"none", "sent", "answered"}
  BY DEF AtWork
<1>2. callback[k].user \in Users /\ callback[k].user # "none"
  BY DEF ConnectInv, ConnectKinds, Load, Checked
<1> QED
  BY <1>1, <1>2 DEF ConnectInv, Checked, Repeated, Users

LEMMA RedirectKeeps ==
    ASSUME ConnectInv, NEW k \in Loads, Redirects(k)
    PROVE  ConnectInv'
<1>1. /\ callback[k].at # "none" /\ UNCHANGED <<account, attempt, exchanged, linked>>
      /\ callback' = [callback EXCEPT ![k].at = "answered"]
  BY DEF Redirects, Answers
<1>2. Linked' /\ exchanged' \in SUBSET Attempts /\ linked' \in [Accounts -> [Providers -> 0..MaxAttempts]]
  BY <1>1 DEF ConnectInv, Linked, ConnectKinds
<1>3. 0 \in 0..MaxAttempts /\ cookie \in [Stateful -> 0..MaxAttempts]
  BY ConnectAssumption DEF ConnectInv, ConnectKinds
<1>4. IF attempt[callback[k].of].provider \in Stateful
      THEN cookie' = [cookie EXCEPT ![attempt[callback[k].of].provider] = 0] ELSE UNCHANGED cookie
  BY DEF Redirects, ClearsCookie, clear
<1>5. /\ cookie' \in [Stateful -> 0..MaxAttempts]
      /\ \A p \in Stateful : cookie'[p] \in {cookie[p], 0}
      /\ attempt[callback[k].of].provider \in Stateful => cookie'[attempt[callback[k].of].provider] = 0
  BY <1>3, <1>4
<1>6. "answered" \in {"answered"} \cup AtWork /\ "answered" \notin AtWork
  BY DEF AtWork
<1> QED
  BY <1>1, <1>2, <1>5, <1>6, LoadGoesOn

LEMMA IssueKeeps ==
    ASSUME ConnectInv, NEW k \in Loads, IssueConnection(k)
    PROVE  ConnectInv'
<1>1. PICK to \in {"importing", "failed"} :
        /\ callback' = [callback EXCEPT ![k].at = to]
        /\ exchanged' \in {exchanged, exchanged \cup {callback[k].of}}
  BY DEF IssueConnection
<1>2. callback[k].at \in AtWork /\ to \in AtWork /\ to # "answered"
      /\ UNCHANGED <<account, cookie, attempt, linked>>
  BY DEF IssueConnection, AtWork
<1>3. /\ callback[k].at # "none" /\ OfOffered(k) /\ callback[k].user \in Accounts
      /\ attempt[callback[k].of].provider \in Stateful
           => attempt[callback[k].of].user = callback[k].user /\ ~callback[k].again
  BY <1>2, AtWorkEntitled
<1>4. exchanged' \in SUBSET Attempts
  BY <1>1, <1>3 DEF OfOffered, ConnectInv, ConnectKinds
<1>5. Linked' /\ linked' \in [Accounts -> [Providers -> 0..MaxAttempts]] /\ cookie' \in [Stateful -> 0..MaxAttempts]
  BY <1>2 DEF ConnectInv, Linked, ConnectKinds
<1>6. callback[k].user # "none"
  BY <1>3 DEF Accounts
<1> QED
  BY <1>1, <1>2, <1>3, <1>4, <1>5, <1>6, LoadGoesOn

LEMMA SaveKeeps ==
    ASSUME ConnectInv, NEW k \in Loads, SaveConnectionWithDonations(k)
    PROVE  ConnectInv'
<1> DEFINE n == callback[k].of
           user == callback[k].user
<1>1. PICK to \in {"saved", "failed"} :
        /\ callback' = [callback EXCEPT ![k].at = to]
        /\ linked' \in {linked, [linked EXCEPT ![user][attempt[n].provider] = n]}
  BY DEF SaveConnectionWithDonations
<1>2. callback[k].at \in AtWork /\ to \in AtWork /\ to # "answered"
      /\ UNCHANGED <<account, cookie, attempt, exchanged>>
  BY DEF SaveConnectionWithDonations, AtWork
<1>3. /\ callback[k].at # "none" /\ n \in Attempts /\ attempt[n].at = "offered" /\ user \in Accounts
      /\ attempt[n].provider \in Stateful => attempt[n].user = user /\ ~callback[k].again
  BY <1>2, AtWorkEntitled DEF OfOffered
<1>4. n \in 0..MaxAttempts /\ attempt[n].provider \in Providers
  BY <1>3, ConnectAssumption DEF Attempts, ConnectInv, ConnectKinds, Attempt
<1>5. linked \in [Accounts -> [Providers -> 0..MaxAttempts]]
  BY DEF ConnectInv, ConnectKinds
<1> HIDE DEF n, user
<1>6. linked' \in [Accounts -> [Providers -> 0..MaxAttempts]]
  BY <1>1, <1>3, <1>4, <1>5
<1>7. ASSUME NEW u \in Accounts, NEW p \in Providers
      PROVE  linked'[u][p] = linked[u][p] \/ (u = user /\ p = attempt[n].provider /\ linked'[u][p] = n)
  BY <1>1, <1>3, <1>4, <1>5
<1>8. Linked'
  BY <1>2, <1>3, <1>7 DEF ConnectInv, Linked
<1>9. cookie' \in [Stateful -> 0..MaxAttempts] /\ exchanged' \in SUBSET Attempts
  BY <1>2 DEF ConnectInv, ConnectKinds
<1>10. user # "none"
  BY <1>3 DEF Accounts
<1> QED
  BY <1>1, <1>2, <1>3, <1>6, <1>8, <1>9, <1>10, LoadGoesOn DEF n, user

-----------------------------------------------------------------------------
LEMMA ConnectNextKeeps == ConnectInv /\ [ConnectNext]_connectVars => ConnectInv'
<1> SUFFICES ASSUME ConnectInv, [ConnectNext]_connectVars PROVE ConnectInv'
  OBVIOUS
<1>1. CASE SignsInOrOut
  BY <1>1, SwitchKeeps
<1>2. ASSUME NEW n \in Attempts, Begins(n) \/ Authorizes(n) PROVE ConnectInv'
  BY <1>2, BeginKeeps, AuthorizesKeep
<1>3. ASSUME NEW k \in Loads,
             Returns(k) \/ Receives(k) \/ Redirects(k) \/ IssueConnection(k) \/ SaveConnectionWithDonations(k)
      PROVE  ConnectInv'
  BY <1>3, ReturnKeeps, ReceiveKeeps, RedirectKeeps, IssueKeeps, SaveKeeps
<1>4. CASE UNCHANGED connectVars
  BY <1>4 DEF connectVars, ConnectInv, ConnectKinds, Checked, Cleared, Repeated, Linked, OfOffered
<1> QED
  BY <1>1, <1>2, <1>3, <1>4 DEF ConnectNext

LEMMA ConnectInvariance == ConnectSpec => []ConnectInv
  BY ConnectInitInv, ConnectNextKeeps, PTL DEF ConnectSpec

\* However many tabs, sign-ins and reloads interleave: a grant of a provider with a
\* state goes to the account that began its attempt, and a page that was answered
\* connects nothing when it is loaded again (verify, and the cookie every answer clears).
THEOREM OnlyWhoBegan == ConnectSpec => []ConnectsWhoBegan
<1>1. ConnectInv => ConnectsWhoBegan
  BY DEF ConnectInv, Linked, Repeated, ConnectsWhoBegan, Providers
<1> QED
  BY <1>1, ConnectInvariance, PTL

\* Sessions, cookies, attempts, loads and connections keep their kinds.
THEOREM ConnectTyped == ConnectSpec => []ConnectTypeOK
<1>1. ConnectInv => ConnectTypeOK
  BY DEF ConnectInv, ConnectKinds, Users, Attempt, Load, ConnectTypeOK
<1> QED
  BY <1>1, ConnectInvariance, PTL

-----------------------------------------------------------------------------
(* The chat's page.                                                         *)

\* The messages a page can hold: no more than it keeps, in the order of their times.
Ordered == { s \in Seq(Messages) : /\ Len(s) <= 2
                                   /\ \A i, j \in DOMAIN s : i < j => s[i] # s[j] /\ Time(s[i]) <= Time(s[j]) }

LEMMA Tuples ==
    ASSUME NEW s \in Seq(Messages)
    PROVE  /\ Len(s) = 0 => s = <<>>
           /\ Len(s) = 1 => s = <<s[1]>>
           /\ Len(s) = 2 => s = <<s[1], s[2]>>
  OBVIOUS

LEMMA OrderedKinds ==
    ASSUME NEW messages \in Ordered
    PROVE  /\ messages \in Seq(Messages) /\ Len(messages) \in {0, 1, 2} /\ DOMAIN messages = 1..Len(messages)
           /\ \A i, j \in DOMAIN messages : i < j => messages[i] # messages[j] /\ Time(messages[i]) <= Time(messages[j])
<1>1. messages \in Seq(Messages) /\ Len(messages) <= 2
  BY DEF Ordered
<1>2. Len(messages) \in Nat /\ DOMAIN messages = 1..Len(messages)
  BY <1>1
<1>3. Len(messages) \in {0, 1, 2}
  BY <1>1, <1>2
<1> QED
  BY <1>1, <1>2, <1>3 DEF Ordered

LEMMA OrderedCases ==
    ASSUME NEW messages \in Ordered
    PROVE  \/ messages = <<>>
           \/ \E a \in Messages : messages = <<a>>
           \/ \E a, b \in Messages : messages = <<a, b>> /\ a # b /\ Time(a) <= Time(b)
<1>1. messages \in Seq(Messages) /\ Len(messages) \in {0, 1, 2} /\ DOMAIN messages = 1..Len(messages)
  BY OrderedKinds
<1>2. CASE Len(messages) = 0
  BY <1>1, <1>2, Tuples
<1>3. CASE Len(messages) = 1
  <2>1. messages = <<messages[1]>> /\ messages[1] \in Messages
    BY <1>1, <1>3, Tuples
  <2> QED
    BY <2>1
<1>4. CASE Len(messages) = 2
  <2>1. messages = <<messages[1], messages[2]>> /\ messages[1] \in Messages /\ messages[2] \in Messages
    BY <1>1, <1>4, Tuples
  <2>2. messages[1] # messages[2] /\ Time(messages[1]) <= Time(messages[2])
    BY <1>1, <1>4, OrderedKinds
  <2> QED
    BY <2>1, <2>2
<1> QED
  BY <1>1, <1>2, <1>3, <1>4

LEMMA OrderedTuples ==
    /\ <<>> \in Ordered /\ \A a \in Messages : <<a>> \in Ordered
    /\ \A a, b \in Messages : a # b /\ Time(a) <= Time(b) => <<a, b>> \in Ordered
  BY DEF Ordered

LEMMA SmallSets == Cardinality({}) = 0 /\ Cardinality({1, 2}) = 2 /\ \A x : Cardinality({x}) = 1
<1>1. Cardinality({}) = 0
  BY FS_EmptySet
<1>2. \A x : Cardinality({x}) = 1 /\ IsFiniteSet({x})
  BY FS_Singleton
<1>3. Cardinality({1} \cup {2}) = 2
  <2>1. IsFiniteSet({1}) /\ 2 \notin {1}
    BY <1>2
  <2>2. Cardinality({1} \cup {2}) = Cardinality({1}) + 1
    BY <2>1, FS_AddElement
  <2> QED
    BY <1>2, <2>2
<1>4. {1} \cup {2} = {1, 2}
  OBVIOUS
<1> QED
  BY <1>1, <1>2, <1>3, <1>4

\* What is front of one message, and of two.
LEMMA Left ==
    ASSUME NEW m
    PROVE  /\ Without(<<>>, m) = <<>>
           /\ \A a : Without(<<a>>, m) = IF a = m THEN <<>> ELSE <<a>>
           /\ \A a, b : a # b => Without(<<a, b>>, m) = IF a = m THEN <<b>> ELSE IF b = m THEN <<a>> ELSE <<a, b>>
<1> DEFINE kept(s)     == { i \in DOMAIN s : s[i] # m }
<1> DEFINE before(K, i) == Cardinality({ j \in K : j < i })
<1> DEFINE at(K, n)    == CHOOSE i \in K : before(K, i) = n - 1
<1> DEFINE listed(s, K, c) == [n \in 1..c |-> s[at(K, n)]]
<1>0. \A s : Without(s, m) = listed(s, kept(s), Cardinality(kept(s)))
  BY DEF Without
<1>1. \A s : listed(s, {}, 0) = <<>>
  <2> HIDE DEF at
  <2> QED
    OBVIOUS
<1>2. \A s : \A k \in {1, 2} : listed(s, {k}, 1) = <<s[k]>>
  <2>1. \A k \in {1, 2} : { j \in {k} : j < k } = {}
    OBVIOUS
  <2>2. \A k \in {1, 2} : before({k}, k) = 0
    BY <2>1, SmallSets
  <2> HIDE DEF before
  <2>3. \A k \in {1, 2} : at({k}, 1) = k
    BY <2>2
  <2> HIDE DEF at
  <2> QED
    BY <2>3
<1>3. \A s : listed(s, {1, 2}, 2) = <<s[1], s[2]>>
  <2>1. { j \in {1, 2} : j < 1 } = {} /\ { j \in {1, 2} : j < 2 } = {1}
    OBVIOUS
  <2>2. before({1, 2}, 1) = 0 /\ before({1, 2}, 2) = 1
    BY <2>1, SmallSets
  <2> HIDE DEF before
  <2>3. at({1, 2}, 1) = 1 /\ at({1, 2}, 2) = 2
    BY <2>2
  <2> HIDE DEF at
  <2> QED
    BY <2>3
<1> HIDE DEF listed
<1>4. Without(<<>>, m) = <<>>
  <2>1. kept(<<>>) = {}
    OBVIOUS
  <2> HIDE DEF kept
  <2> QED
    BY <1>0, <1>1, <2>1, SmallSets
<1>5. ASSUME NEW a PROVE Without(<<a>>, m) = IF a = m THEN <<>> ELSE <<a>>
  <2>1. kept(<<a>>) = IF a = m THEN {} ELSE {1}
    OBVIOUS
  <2>2. <<a>>[1] = a
    OBVIOUS
  <2> HIDE DEF kept, before, at
  <2>3. CASE a = m
    BY <1>0, <1>1, <2>1, <2>3, SmallSets
  <2>4. CASE a # m
    <3>1. listed(<<a>>, {1}, 1) = << <<a>>[1] >>
      BY <1>2
    <3> QED
      BY <1>0, <2>1, <2>2, <2>4, <3>1, SmallSets
  <2> QED
    BY <2>3, <2>4
<1>6. ASSUME NEW a, NEW b, a # b
      PROVE  Without(<<a, b>>, m) = IF a = m THEN <<b>> ELSE IF b = m THEN <<a>> ELSE <<a, b>>
  <2>1. kept(<<a, b>>) = IF a = m THEN {2} ELSE IF b = m THEN {1} ELSE {1, 2}
    BY <1>6
  <2>2. <<a, b>>[1] = a /\ <<a, b>>[2] = b
    OBVIOUS
  <2> HIDE DEF kept, before, at
  <2>3. CASE a = m
    <3>1. listed(<<a, b>>, {2}, 1) = << <<a, b>>[2] >>
      BY <1>2
    <3> QED
      BY <1>0, <2>1, <2>2, <2>3, <3>1, SmallSets
  <2>4. CASE b = m
    <3>1. listed(<<a, b>>, {1}, 1) = << <<a, b>>[1] >>
      BY <1>2
    <3> QED
      BY <1>0, <1>6, <2>1, <2>2, <2>4, <3>1, SmallSets
  <2>5. CASE a # m /\ b # m
    BY <1>0, <1>3, <2>1, <2>2, <2>5, SmallSets
  <2> QED
    BY <2>3, <2>4, <2>5
<1> QED
  BY <1>4, <1>5, <1>6

LEMMA WithoutOrdered == ASSUME NEW messages \in Ordered, NEW m PROVE Without(messages, m) \in Ordered
<1>1. CASE messages = <<>>
  BY <1>1, OrderedTuples, Left
<1>2. ASSUME NEW a \in Messages, messages = <<a>> PROVE Without(messages, m) \in Ordered
  BY <1>2, OrderedTuples, Left
<1>3. ASSUME NEW a \in Messages, NEW b \in Messages, messages = <<a, b>>, a # b, Time(a) <= Time(b)
      PROVE  Without(messages, m) \in Ordered
  <2>1. Without(<<a, b>>, m) = IF a = m THEN <<b>> ELSE IF b = m THEN <<a>> ELSE <<a, b>>
    <3>1. a # b
      BY <1>3
    <3> QED
      BY <3>1, Left
  <2>2. Without(messages, m) \in {<<a>>, <<b>>, <<a, b>>}
    BY <1>3, <2>1
  <2> QED
    BY <1>3, <2>2, OrderedTuples
<1> QED
  BY <1>1, <1>2, <1>3, OrderedCases

\* Whether a page that holds these messages shows one.
Shows(messages, m) == \E i \in DOMAIN messages : messages[i] = m

LEMMA WithoutFewer == ASSUME NEW messages \in Ordered, NEW m, NEW k, Shows(Without(messages, m), k)
                      PROVE  Shows(messages, k)
<1>1. CASE messages = <<>>
  BY <1>1, Left
<1>2. ASSUME NEW a \in Messages, messages = <<a>> PROVE Shows(messages, k)
  <2>1. Without(messages, m) = <<>> \/ Without(messages, m) = <<a>>
    BY <1>2, Left
  <2> QED
    BY <1>2, <2>1 DEF Shows
<1>3. ASSUME NEW a \in Messages, NEW b \in Messages, messages = <<a, b>>, a # b PROVE Shows(messages, k)
  <2>0. a # b
    BY <1>3
  <2>1. Without(<<a, b>>, m) = IF a = m THEN <<b>> ELSE IF b = m THEN <<a>> ELSE <<a, b>>
    BY <2>0, Left
  <2>2. k = a \/ k = b
    BY <1>3, <2>1 DEF Shows
  <2> QED
    BY <1>3, <2>2 DEF Shows
<1> QED
  BY <1>1, <1>2, <1>3, OrderedCases DEF Shows

LEMMA WithoutNone == ASSUME NEW messages \in Ordered, NEW m
                     PROVE  \A i \in DOMAIN Without(messages, m) : Without(messages, m)[i] # m
<1>1. CASE messages = <<>>
  BY <1>1, Left
<1>2. ASSUME NEW a \in Messages, messages = <<a>>
      PROVE  \A i \in DOMAIN Without(messages, m) : Without(messages, m)[i] # m
  <2>1. Without(<<a>>, m) = IF a = m THEN <<>> ELSE <<a>>
    BY Left
  <2>2. CASE a = m
    BY <1>2, <2>1, <2>2
  <2>3. CASE a # m
    BY <1>2, <2>1, <2>3
  <2> QED
    BY <2>2, <2>3
<1>3. ASSUME NEW a \in Messages, NEW b \in Messages, messages = <<a, b>>, a # b
      PROVE  \A i \in DOMAIN Without(messages, m) : Without(messages, m)[i] # m
  <2>1. Without(messages, m) = IF a = m THEN <<b>> ELSE IF b = m THEN <<a>> ELSE <<a, b>>
    BY <1>3, Left
  <2>2. CASE a = m
    BY <1>3, <2>1, <2>2
  <2>3. CASE b = m
    BY <1>3, <2>1, <2>3
  <2>4. CASE a # m /\ b # m
    BY <1>3, <2>1, <2>4
  <2> QED
    BY <2>2, <2>3, <2>4
<1> QED
  BY <1>1, <1>2, <1>3, OrderedCases

LEMMA InsertedBetween ==
    ASSUME NEW s \in Seq(Messages), NEW i \in 1..Len(s) + 1, NEW m \in Messages
    PROVE  /\ InsertAt(s, i, m) \in Seq(Messages)
           /\ Len(InsertAt(s, i, m)) = Len(s) + 1
           /\ \A j \in 1..Len(s) + 1 : InsertAt(s, i, m)[j] = IF j < i THEN s[j] ELSE IF j = i THEN m ELSE s[j - 1]
<1> DEFINE front  == SubSeq(s, 1, i - 1)
<1> DEFINE right == SubSeq(s, i, Len(s))
<1>1. front \in Seq(Messages) /\ Len(front) = i - 1 /\ \A j \in 1..i - 1 : front[j] = s[j]
  BY SubSeqProperties
<1>2. right \in Seq(Messages) /\ Len(right) = Len(s) - i + 1 /\ \A j \in 1..Len(s) - i + 1 : right[j] = s[i + j - 1]
  BY SubSeqProperties
<1>3. InsertAt(s, i, m) = front \o <<m>> \o right
  BY DEF InsertAt
<1> HIDE DEF front, right
<1>4. <<m>> \in Seq(Messages) /\ Len(<<m>>) = 1 /\ <<m>>[1] = m
  OBVIOUS
<1> DEFINE most == front \o <<m>>
<1>5. most \in Seq(Messages) /\ Len(most) = i /\ \A j \in 1..i : most[j] = IF j < i THEN s[j] ELSE m
  BY <1>1, <1>4
<1> HIDE DEF most
<1>6. InsertAt(s, i, m) = most \o right
  BY <1>3 DEF most
<1>7. /\ most \o right \in Seq(Messages) /\ Len(most \o right) = Len(s) + 1
      /\ \A j \in 1..Len(s) + 1 : (most \o right)[j] = IF j <= i THEN most[j] ELSE right[j - i]
  <2>1. /\ most \o right \in Seq(Messages) /\ Len(most \o right) = Len(most) + Len(right)
        /\ \A j \in 1..Len(most) + Len(right) :
             (most \o right)[j] = IF j <= Len(most) THEN most[j] ELSE right[j - Len(most)]
    BY <1>2, <1>5, ConcatProperties
  <2>2. Len(s) \in Nat /\ Len(most) = i /\ Len(most) + Len(right) = Len(s) + 1
    BY <1>2, <1>5
  <2> QED
    BY <2>1, <2>2
<1>8. ASSUME NEW j \in 1..Len(s) + 1
      PROVE  (most \o right)[j] = IF j < i THEN s[j] ELSE IF j = i THEN m ELSE s[j - 1]
  <2>1. CASE j <= i
    BY <1>5, <1>7, <2>1
  <2>2. CASE ~(j <= i)
    <3>1. j - i \in 1..Len(s) - i + 1 /\ i + (j - i) - 1 = j - 1
      BY <2>2
    <3>2. right[j - i] = s[j - 1]
      BY <1>2, <3>1
    <3>3. (most \o right)[j] = right[j - i] /\ ~(j < i) /\ j # i
      BY <1>7, <2>2
    <3> QED
      BY <3>2, <3>3
  <2> QED
    BY <2>1, <2>2
<1> QED
  BY <1>6, <1>7, <1>8

\* A message is put among those that are front, and the oldest of three is dropped.
LEMMA PlacedOrdered ==
    ASSUME NEW messages \in Ordered, NEW m \in Messages
    PROVE  /\ Placed(messages, m) \in Ordered
           /\ \A k : Shows(Placed(messages, m), k) => k = m \/ Shows(messages, k)
<1> DEFINE rest      == Without(messages, m)
<1> DEFINE later     == { i \in DOMAIN rest : Time(rest[i]) > Time(m) }
<1> DEFINE insertion == IF later = {} THEN Len(rest) + 1 ELSE CHOOSE i \in later : \A j \in later : i <= j
<1> DEFINE sorted    == InsertAt(rest, insertion, m)
<1>1. Placed(messages, m) = SubSeq(sorted, IF Len(sorted) > 2 THEN Len(sorted) - 1 ELSE 1, Len(sorted))
  BY DEF Placed, Kept
<1>2. rest \in Ordered /\ rest \in Seq(Messages) /\ Len(rest) \in 0..2 /\ DOMAIN rest = 1..Len(rest)
  BY WithoutOrdered, OrderedKinds
<1>3. (\A i \in DOMAIN rest : rest[i] # m) /\ (\A k : Shows(rest, k) => Shows(messages, k))
  BY WithoutNone, WithoutFewer
<1>4. \A a \in Messages : Time(a) \in Nat
  BY DEF Messages, Time
<1> HIDE DEF rest
<1>5. /\ insertion \in 1..Len(rest) + 1
      /\ \A i \in DOMAIN rest : IF i < insertion THEN Time(rest[i]) <= Time(m) ELSE Time(rest[i]) > Time(m)
  <2>1. \A i, j \in DOMAIN rest : i < j => Time(rest[i]) <= Time(rest[j])
    BY <1>2, OrderedKinds
  <2>2. later \subseteq 1..2 /\ later \subseteq DOMAIN rest
    BY <1>2
  <2>3. \A i, j \in DOMAIN rest : i \in later /\ i < j => j \in later
    BY <1>2, <1>4, <2>1
  <2>4. later # {} => \E i \in later : \A j \in later : i <= j
    BY <2>2
  <2>5. later # {} => insertion \in later /\ \A j \in later : insertion <= j
    BY <2>4
  <2>6. later = {} => insertion = Len(rest) + 1
    OBVIOUS
  <2>7. \A i \in DOMAIN rest : i \in later <=> Time(rest[i]) > Time(m)
    OBVIOUS
  <2> HIDE DEF insertion, later
  <2>8. CASE later = {}
    BY <1>2, <1>4, <2>6, <2>7, <2>8
  <2>9. CASE later # {}
    <3>1. insertion \in 1..2 /\ insertion \in DOMAIN rest /\ insertion \in later
      BY <2>2, <2>5, <2>9
    <3>2. ASSUME NEW i \in DOMAIN rest
          PROVE  IF i < insertion THEN Time(rest[i]) <= Time(m) ELSE Time(rest[i]) > Time(m)
      <4>1. i \in Nat /\ Time(rest[i]) \in Nat /\ Time(m) \in Nat
        BY <1>2, <1>4
      <4>2. CASE i < insertion
        BY <2>5, <2>7, <2>9, <3>1, <4>1, <4>2
      <4>3. CASE i = insertion
        BY <2>7, <3>1, <4>1, <4>3
      <4>4. CASE i > insertion
        BY <2>3, <2>7, <3>1, <4>1, <4>4
      <4> QED
        BY <3>1, <4>1, <4>2, <4>3, <4>4
    <3> QED
      BY <1>2, <3>1, <3>2
  <2> QED
    BY <2>8, <2>9
<1> HIDE DEF insertion
<1>6. /\ sorted \in Seq(Messages) /\ Len(sorted) = Len(rest) + 1
      /\ \A j \in 1..Len(rest) + 1 :
           sorted[j] = IF j < insertion THEN rest[j] ELSE IF j = insertion THEN m ELSE rest[j - 1]
  BY <1>2, <1>5, InsertedBetween
<1> HIDE DEF sorted
<1>7. \A i, j \in 1..Len(sorted) : i < j => sorted[i] # sorted[j] /\ Time(sorted[i]) <= Time(sorted[j])
  <2> SUFFICES ASSUME NEW i \in 1..Len(sorted), NEW j \in 1..Len(sorted), i < j
               PROVE  sorted[i] # sorted[j] /\ Time(sorted[i]) <= Time(sorted[j])
    OBVIOUS
  <2>1. Len(rest) \in Nat /\ insertion \in Nat /\ i \in 1..Len(rest) + 1 /\ j \in 1..Len(rest) + 1
    BY <1>2, <1>5, <1>6
  <2>2. \A p, q \in 1..Len(rest) : p < q => rest[p] # rest[q] /\ Time(rest[p]) <= Time(rest[q])
    BY <1>2, OrderedKinds
  <2>3. \A p \in 1..Len(rest) : rest[p] # m /\ rest[p] \in Messages
                               /\ IF p < insertion THEN Time(rest[p]) <= Time(m) ELSE Time(rest[p]) > Time(m)
    BY <1>2, <1>3, <1>5
  <2> DEFINE at(p) == IF p < insertion THEN rest[p] ELSE IF p = insertion THEN m ELSE rest[p - 1]
  <2>4. sorted[i] = at(i) /\ sorted[j] = at(j)
    BY <1>6, <2>1
  <2>5. CASE j < insertion
    <3>1. i \in 1..Len(rest) /\ j \in 1..Len(rest) /\ at(i) = rest[i] /\ at(j) = rest[j]
      BY <1>5, <2>1, <2>5
    <3> HIDE DEF at
    <3> QED
      BY <2>2, <2>4, <3>1
  <2>6. CASE j = insertion
    <3>1. i \in 1..Len(rest) /\ i < insertion /\ at(i) = rest[i] /\ at(j) = m
      BY <1>5, <2>1, <2>6
    <3> HIDE DEF at
    <3> QED
      BY <2>3, <2>4, <3>1
  <2>7. CASE i < insertion /\ j > insertion
    <3>1. i \in 1..Len(rest) /\ j - 1 \in 1..Len(rest) /\ i < j - 1 /\ at(i) = rest[i] /\ at(j) = rest[j - 1]
      BY <2>1, <2>7
    <3> HIDE DEF at
    <3> QED
      BY <2>2, <2>4, <3>1
  <2>8. CASE i = insertion
    <3>1. j - 1 \in 1..Len(rest) /\ ~(j - 1 < insertion) /\ at(i) = m /\ at(j) = rest[j - 1]
      BY <2>1, <2>8
    <3>2. Time(rest[j - 1]) \in Nat /\ Time(m) \in Nat /\ Time(rest[j - 1]) > Time(m) /\ rest[j - 1] # m
      BY <1>4, <2>3, <3>1
    <3> HIDE DEF at
    <3> QED
      BY <2>4, <3>1, <3>2
  <2>9. CASE i > insertion
    <3>1. i - 1 \in 1..Len(rest) /\ j - 1 \in 1..Len(rest) /\ i - 1 < j - 1
      BY <1>5, <2>1, <2>9
    <3>2. at(i) = rest[i - 1] /\ at(j) = rest[j - 1]
      BY <2>1, <2>9
    <3> HIDE DEF at
    <3> QED
      BY <2>2, <2>4, <3>1, <3>2
  <2> QED
    BY <2>1, <2>5, <2>6, <2>7, <2>8, <2>9
<1> DEFINE first == IF Len(sorted) > 2 THEN Len(sorted) - 1 ELSE 1
<1> DEFINE kept  == SubSeq(sorted, first, Len(sorted))
<1>8. first \in 1..2 /\ Len(sorted) \in 1..3 /\ Len(sorted) - first + 1 \in 1..2
  BY <1>2, <1>6
<1> HIDE DEF first
<1>9. kept \in Seq(Messages) /\ Len(kept) = Len(sorted) - first + 1 /\ \A i \in 1..Len(kept) : kept[i] = sorted[first + i - 1]
  BY <1>6, <1>8, SubSeqProperties
<1>10. Placed(messages, m) = kept
  BY <1>1 DEF first
<1> HIDE DEF kept
<1>11. ASSUME NEW k, Shows(kept, k) PROVE k = m \/ Shows(messages, k)
  <2>1. PICK i \in 1..Len(kept) : kept[i] = k
    BY <1>9, <1>11 DEF Shows
  <2>2. PICK j \in 1..Len(rest) + 1 : sorted[j] = k
    BY <1>2, <1>6, <1>8, <1>9, <2>1
  <2>3. k = m \/ \E n \in 1..Len(rest) : rest[n] = k
    BY <1>2, <1>5, <1>6, <2>2
  <2> QED
    BY <1>2, <1>3, <2>3 DEF Shows
<1>12. kept \in Ordered
  BY <1>7, <1>8, <1>9 DEF Ordered
<1> QED
  BY <1>10, <1>11, <1>12

\* What a page that has read the queue q will know of the source: the last state in it,
\* or none.
Silent(q)           == \A i \in DOMAIN q : q[i].state = "none"
Told(q, s)          == \E i \in DOMAIN q : q[i].state = s /\ \A j \in DOMAIN q : j > i => q[j].state = "none"
Learns(q, known, s) == Told(q, s) \/ (Silent(q) /\ known = s)

LEMMA EventKinds ==
    /\ \A s \in States : state(s) \in Events /\ state(s).state = s
    /\ \A e \in Events : /\ e.type \in {"message", "message_deleted", "state"} /\ e.state \in States \cup {"none"}
                         /\ e.type = "message" => e.message \in Messages /\ e.state = "live"
                         /\ e.type = "message_deleted" <=> e.state = "none"
                         /\ e.type = "message_deleted" => e.message \in Messages
  BY DEF Events, message, deletion, state, States

LEMMA QueuedLast ==
    ASSUME NEW q \in Seq(Events), NEW e \in Events
    PROVE  /\ Append(q, e) \in Seq(Events)
           /\ e.state # "none" => Told(Append(q, e), e.state)
           /\ e.state = "none" /\ Silent(q) => Silent(Append(q, e))
           /\ \A s : e.state = "none" /\ Told(q, s) => Told(Append(q, e), s)
<1> DEFINE r == Append(q, e)
<1>1. /\ r \in Seq(Events) /\ Len(q) \in Nat /\ DOMAIN q = 1..Len(q) /\ DOMAIN r = 1..Len(q) + 1
      /\ r[Len(q) + 1] = e /\ \A i \in 1..Len(q) : r[i] = q[i]
  OBVIOUS
<1> HIDE DEF r
<1>2. e.state # "none" => Told(r, e.state)
  BY <1>1 DEF Told
<1>3. e.state = "none" /\ Silent(q) => Silent(r)
  BY <1>1 DEF Silent
<1>4. ASSUME NEW s, e.state = "none", Told(q, s) PROVE Told(r, s)
  <2>1. PICK i \in DOMAIN q : q[i].state = s /\ \A j \in DOMAIN q : j > i => q[j].state = "none"
    BY <1>4 DEF Told
  <2>2. i \in DOMAIN r /\ r[i].state = s
    BY <1>1, <2>1
  <2>3. \A j \in DOMAIN r : j > i => r[j].state = "none"
    BY <1>1, <1>4, <2>1
  <2> QED
    BY <2>2, <2>3 DEF Told
<1> QED
  BY <1>1, <1>2, <1>3, <1>4 DEF r

LEMMA QueuedFirst ==
    ASSUME NEW q \in Seq(Events), NEW e \in Events
    PROVE  /\ <<e>> \o q \in Seq(Events)
           /\ \A s : Told(q, s) \/ (Silent(q) /\ e.state = s) => Told(<<e>> \o q, s)
<1> DEFINE r == <<e>> \o q
<1>1. <<e>> \in Seq(Events) /\ Len(<<e>>) = 1 /\ <<e>>[1] = e /\ Len(q) \in Nat /\ DOMAIN q = 1..Len(q)
  OBVIOUS
<1>2. /\ r \in Seq(Events) /\ Len(r) = 1 + Len(q)
      /\ \A i \in 1..1 + Len(q) : r[i] = IF i <= 1 THEN <<e>>[i] ELSE q[i - 1]
  BY <1>1, ConcatProperties
<1>3. DOMAIN r = 1..Len(q) + 1 /\ r[1] = e
  BY <1>1, <1>2
<1>4. \A i \in 1..Len(q) : r[i + 1] = q[i]
  BY <1>1, <1>2
<1> HIDE DEF r
<1>5. ASSUME NEW s, Told(q, s) PROVE Told(r, s)
  <2>1. PICK i \in 1..Len(q) : q[i].state = s /\ \A j \in 1..Len(q) : j > i => q[j].state = "none"
    BY <1>1, <1>5 DEF Told
  <2>2. i + 1 \in DOMAIN r /\ r[i + 1].state = s
    BY <1>1, <1>3, <1>4, <2>1
  <2>3. ASSUME NEW j \in DOMAIN r, j > i + 1 PROVE r[j].state = "none"
    <3>1. j - 1 \in 1..Len(q) /\ j - 1 > i /\ (j - 1) + 1 = j
      BY <1>1, <1>3, <2>3
    <3>2. r[j] = q[j - 1]
      BY <1>4, <3>1
    <3> QED
      BY <2>1, <3>1, <3>2
  <2> QED
    BY <2>2, <2>3 DEF Told
<1>6. ASSUME NEW s, Silent(q), e.state = s PROVE Told(r, s)
  <2>1. 1 \in DOMAIN r /\ r[1].state = s
    BY <1>1, <1>3, <1>6
  <2>2. ASSUME NEW j \in DOMAIN r, j > 1 PROVE r[j].state = "none"
    <3>1. j - 1 \in 1..Len(q) /\ (j - 1) + 1 = j
      BY <1>1, <1>3, <2>2
    <3>2. r[j] = q[j - 1]
      BY <1>4, <3>1
    <3> QED
      BY <1>1, <1>6, <3>1, <3>2 DEF Silent
  <2> QED
    BY <2>1, <2>2 DEF Told
<1> QED
  BY <1>2, <1>5, <1>6 DEF r

LEMMA TakenFirst ==
    ASSUME NEW q \in Seq(Events), q # <<>>
    PROVE  /\ Head(q) \in Events /\ Tail(q) \in Seq(Events)
           /\ Silent(q) => Silent(Tail(q)) /\ Head(q).state = "none"
           /\ \A known, s : s # "none" /\ Learns(q, known, s) =>
                Learns(Tail(q), IF Head(q).state = "none" THEN known ELSE Head(q).state, s)
<1> DEFINE r == Tail(q)
<1> DEFINE h == Head(q)
<1>1. Len(q) \in Nat \ {0} /\ DOMAIN q = 1..Len(q) /\ q[1] = h /\ h \in Events
  OBVIOUS
<1>2. r \in Seq(Events) /\ DOMAIN r = 1..Len(q) - 1 /\ \A i \in 1..Len(q) - 1 : r[i] = q[i + 1]
  BY <1>1, HeadTailProperties
<1> HIDE DEF r, h
<1>3. Silent(q) => Silent(r) /\ h.state = "none"
  BY <1>1, <1>2 DEF Silent
<1>4. ASSUME NEW known, NEW s, s # "none", Told(q, s)
      PROVE  Learns(r, IF h.state = "none" THEN known ELSE h.state, s)
  <2>1. PICK i \in 1..Len(q) : q[i].state = s /\ \A j \in 1..Len(q) : j > i => q[j].state = "none"
    BY <1>1, <1>4 DEF Told
  <2>2. CASE i = 1
    <3>1. h.state = s
      BY <1>1, <2>1, <2>2
    <3>2. Silent(r)
      BY <1>1, <1>2, <2>1, <2>2 DEF Silent
    <3> QED
      BY <1>4, <3>1, <3>2 DEF Learns
  <2>3. CASE i > 1
    <3>1. i - 1 \in DOMAIN r /\ r[i - 1] = q[i]
      BY <1>1, <1>2, <2>1, <2>3
    <3>2. \A j \in DOMAIN r : j > i - 1 => r[j].state = "none"
      BY <1>1, <1>2, <2>1, <2>3
    <3>3. Told(r, s)
      BY <2>1, <3>1, <3>2 DEF Told
    <3> QED
      BY <3>3 DEF Learns
  <2> QED
    BY <1>1, <2>1, <2>2, <2>3
<1>5. ASSUME NEW known, NEW s, s # "none", Learns(q, known, s)
      PROVE  Learns(r, IF h.state = "none" THEN known ELSE h.state, s)
  BY <1>3, <1>4, <1>5 DEF Learns
<1> QED
  BY <1>1, <1>2, <1>3, <1>5 DEF r, h

\* The same of a message: its last event in the queue is its deletion, or the queue does
\* not bring it.
Brings(e, m)  == e.type = "message" /\ e.message = m
Unsent(q, m)  == \A i \in DOMAIN q : ~Brings(q[i], m)
Retracts(e, m) == e.type = "message_deleted" /\ e.message = m
Retracted(q, m) == \E i \in DOMAIN q : Retracts(q[i], m) /\ \A j \in DOMAIN q : j > i => ~Brings(q[j], m)

LEMMA RetractedLast ==
    ASSUME NEW q \in Seq(Events), NEW e \in Events, NEW m
    PROVE  /\ Retracts(e, m) => Retracted(Append(q, e), m)
           /\ ~Brings(e, m) /\ Retracted(q, m) => Retracted(Append(q, e), m)
           /\ ~Brings(e, m) /\ Unsent(q, m) => Unsent(Append(q, e), m)
<1> DEFINE r == Append(q, e)
<1>1. /\ Len(q) \in Nat /\ DOMAIN q = 1..Len(q) /\ DOMAIN r = 1..Len(q) + 1
      /\ r[Len(q) + 1] = e /\ \A i \in 1..Len(q) : r[i] = q[i]
  OBVIOUS
<1> HIDE DEF r
<1>2. Retracts(e, m) => Retracted(r, m)
  BY <1>1 DEF Retracted
<1>3. ~Brings(e, m) /\ Unsent(q, m) => Unsent(r, m)
  BY <1>1 DEF Unsent
<1>4. ASSUME ~Brings(e, m), Retracted(q, m) PROVE Retracted(r, m)
  <2>1. PICK i \in 1..Len(q) : Retracts(q[i], m) /\ \A j \in 1..Len(q) : j > i => ~Brings(q[j], m)
    BY <1>1, <1>4 DEF Retracted
  <2>2. i \in DOMAIN r /\ Retracts(r[i], m)
    BY <1>1, <2>1
  <2>3. \A j \in DOMAIN r : j > i => ~Brings(r[j], m)
    BY <1>1, <1>4, <2>1
  <2> QED
    BY <2>2, <2>3 DEF Retracted
<1> QED
  BY <1>2, <1>3, <1>4 DEF r

LEMMA RetractedFirst ==
    ASSUME NEW q \in Seq(Events), NEW e \in Events, NEW m, ~Brings(e, m)
    PROVE  (Retracted(q, m) => Retracted(<<e>> \o q, m)) /\ (Unsent(q, m) => Unsent(<<e>> \o q, m))
<1> DEFINE r == <<e>> \o q
<1>1. <<e>> \in Seq(Events) /\ Len(<<e>>) = 1 /\ <<e>>[1] = e /\ Len(q) \in Nat /\ DOMAIN q = 1..Len(q)
  OBVIOUS
<1>2. /\ r \in Seq(Events) /\ Len(r) = 1 + Len(q)
      /\ \A i \in 1..1 + Len(q) : r[i] = IF i <= 1 THEN <<e>>[i] ELSE q[i - 1]
  BY <1>1, ConcatProperties
<1>3. DOMAIN r = 1..Len(q) + 1 /\ r[1] = e /\ \A i \in 1..Len(q) : r[i + 1] = q[i]
  BY <1>1, <1>2
<1>4. \A j \in DOMAIN r : j = 1 \/ (j - 1 \in 1..Len(q) /\ r[j] = q[j - 1])
  BY <1>1, <1>2, <1>3
<1> HIDE DEF r
<1>5. ASSUME Retracted(q, m) PROVE Retracted(r, m)
  <2>1. PICK i \in 1..Len(q) : Retracts(q[i], m) /\ \A j \in 1..Len(q) : j > i => ~Brings(q[j], m)
    BY <1>1, <1>5 DEF Retracted
  <2>2. i + 1 \in DOMAIN r /\ Retracts(r[i + 1], m)
    BY <1>1, <1>3, <2>1
  <2>3. \A j \in DOMAIN r : j > i + 1 => ~Brings(r[j], m)
    BY <1>1, <1>3, <1>4, <2>1
  <2> QED
    BY <2>2, <2>3 DEF Retracted
<1>6. ASSUME Unsent(q, m) PROVE Unsent(r, m)
  BY <1>1, <1>3, <1>4, <1>6 DEF Unsent
<1> QED
  BY <1>5, <1>6 DEF r

LEMMA RetractedTaken ==
    ASSUME NEW q \in Seq(Events), q # <<>>, NEW m
    PROVE  /\ Retracted(q, m) => Retracted(Tail(q), m) \/ (Retracts(Head(q), m) /\ Unsent(Tail(q), m))
           /\ Unsent(q, m) => Unsent(Tail(q), m) /\ ~Brings(Head(q), m)
<1> DEFINE r == Tail(q)
<1> DEFINE h == Head(q)
<1>1. Len(q) \in Nat \ {0} /\ DOMAIN q = 1..Len(q) /\ q[1] = h
  OBVIOUS
<1>2. DOMAIN r = 1..Len(q) - 1 /\ \A i \in 1..Len(q) - 1 : r[i] = q[i + 1]
  BY <1>1, HeadTailProperties
<1> HIDE DEF r, h
<1>3. Unsent(q, m) => Unsent(r, m) /\ ~Brings(h, m)
  BY <1>1, <1>2 DEF Unsent
<1>4. ASSUME Retracted(q, m) PROVE Retracted(r, m) \/ (Retracts(h, m) /\ Unsent(r, m))
  <2>1. PICK i \in 1..Len(q) : Retracts(q[i], m) /\ \A j \in 1..Len(q) : j > i => ~Brings(q[j], m)
    BY <1>1, <1>4 DEF Retracted
  <2>2. CASE i = 1
    BY <1>1, <1>2, <2>1, <2>2 DEF Unsent
  <2>3. CASE i > 1
    <3>1. i - 1 \in DOMAIN r /\ r[i - 1] = q[i]
      BY <1>1, <1>2, <2>1, <2>3
    <3>2. \A j \in DOMAIN r : j > i - 1 => ~Brings(r[j], m)
      BY <1>1, <1>2, <2>1, <2>3
    <3> QED
      BY <2>1, <3>1, <3>2 DEF Retracted
  <2> QED
    BY <1>1, <2>1, <2>2, <2>3
<1> QED
  BY <1>3, <1>4 DEF r, h

View     == [messages: Ordered, status: States \cup {"none"},
             connectionError: {"none", "overlay_not_found", "transport_unavailable"}]
Viewer   == [at: {"subscribing", "open", "waiting", "stopped"}, mode: {"editor", "overlay"}, link: Links, view: View]
Channel  == [at: {"none", "checked", "subscribed", "snapshot", "sending"}, queue: Seq(Events), missed: SUBSET States,
             unacked: SUBSET Events, again: SUBSET States, gone: SUBSET Messages]

\* The kinds of all variables, with the fields ChatTypeOK leaves open.
ChatKinds ==
    /\ link \in Links /\ stored \in States \cup {"none"} /\ puts \subseteq States
    /\ published.state \in States \cup {"none"}
    /\ viewer \in Viewer /\ viewer.link <= link
    /\ stream \in Channel

\* Only a page that was sent an event can leave it unacknowledged.
Fresh == stream.at # "sending" => stream.unacked = {} /\ stream.again = {}

\* What the page will learn of the source: the last published state, or one that came again
\* after it, unless a state that was on its way when it subscribed was not put before it
\* read, or the last one was not put.
Latest == {published.state} \cup stream.again
Heard ==
    /\ published.state = "none" =>
          /\ stored = "none" /\ puts = {} /\ viewer.view.status = "none" /\ Silent(stream.queue)
          /\ \A e \in stream.unacked : e.state = "none"
    /\ stream.at \in {"none", "checked"} => stream.queue = <<>> /\ stream.gone = {}
    /\ stream.at = "subscribed" =>
          Told(stream.queue, published.state) \/ (Silent(stream.queue) /\ puts \subseteq stream.missed)
    /\ stream.at \in {"snapshot", "sending"} /\ stream.missed = {} =>
          \/ \E s \in Latest : Learns(stream.queue, viewer.view.status, s)
          \/ stored # published.state /\ published.state \notin puts

\* A message whose last delivery is its deletion will be taken out, or is not shown.
GoneFor(q, messages, m) == Retracted(q, m) \/ (Unsent(q, m) /\ ~Shows(messages, m))
TakenOut == \A m \in stream.gone : GoneFor(stream.queue, viewer.view.messages, m)

\* A page gives up only on a link that was replaced.
Refused == viewer.at = "stopped" => viewer.mode = "overlay" /\ viewer.link # link

ChatInv == ChatKinds /\ Fresh /\ Heard /\ TakenOut /\ Refused

LEMMA EmptyQueue == /\ <<>> \in Seq(Events) /\ Silent(<<>>) /\ \A s : ~Told(<<>>, s)
                    /\ \A m : ~Retracted(<<>>, m)
  BY DEF Silent, Told, Retracted

LEMMA NoStreamKinds == /\ NoStream \in Channel /\ NoStream.at = "none" /\ NoStream.queue = <<>>
                       /\ NoStream.unacked = {} /\ NoStream.again = {} /\ NoStream.gone = {}
  BY DEF NoStream, Channel

LEMMA StreamFields ==
    ASSUME stream \in Channel
    PROVE  /\ stream.at \in {"none", "checked", "subscribed", "snapshot", "sending"} /\ stream.queue \in Seq(Events)
           /\ stream.missed \subseteq States /\ stream.unacked \subseteq Events
           /\ stream.again \subseteq States /\ stream.gone \subseteq Messages
  BY DEF Channel

LEMMA ViewKinds == Empty \in View /\ Empty.status = "none"
  BY OrderedTuples DEF Empty, View

LEMMA ChatInitInv == ChatInit => ChatInv
<1> SUFFICES ASSUME ChatInit PROVE ChatInv
  OBVIOUS
<1>1. link = 1 /\ link \in Links
  BY ChatAssumption DEF ChatInit, Links
<1>2. viewer \in Viewer /\ viewer.link = 1 /\ viewer.view = Empty /\ viewer.at = "subscribing"
  BY <1>1, ViewKinds DEF ChatInit, Viewer
<1> QED
  BY <1>1, <1>2, EmptyQueue, NoStreamKinds, ViewKinds DEF ChatInit, ChatInv, ChatKinds, Fresh, Heard, TakenOut, Refused

\* What a delivery leaves of the stream, and of what the page will know.
LEMMA Delivered ==
    ASSUME stream \in Channel, NEW event \in Events, NEW unacked \in SUBSET Events, NEW again \in SUBSET States,
           Deliver(event, unacked, again)
    PROVE  /\ stream' \in Channel /\ stream'.at = stream.at /\ stream'.missed = stream.missed
           /\ stream'.unacked = unacked /\ stream'.again = again /\ stream'.queue = Append(stream.queue, event)
           /\ event.state # "none" => Told(stream'.queue, event.state)
           /\ event.state = "none" => /\ Silent(stream.queue) => Silent(stream'.queue)
                                      /\ \A s : Told(stream.queue, s) => Told(stream'.queue, s)
           /\ TakenOut /\ viewer' = viewer => TakenOut'
<1>1. stream.queue \in Seq(Events) /\ Append(stream.queue, event) \in Seq(Events) /\ stream.gone \subseteq Messages
  BY StreamFields, QueuedLast
<1> DEFINE gone == CASE event.type = "message"         -> stream.gone \ {event.message}
                     [] event.type = "message_deleted" -> stream.gone \cup {event.message}
                     [] event.type = "state"           -> stream.gone
<1>2. stream' = [stream EXCEPT !.queue = Append(stream.queue, event), !.unacked = unacked, !.again = again, !.gone = gone]
  BY DEF Deliver, Channel
<1>3. /\ gone \subseteq Messages
      /\ \A m \in gone : ~Brings(event, m) /\ (m \in stream.gone \/ Retracts(event, m))
  BY <1>1, EventKinds DEF Brings, Retracts
<1> HIDE DEF gone
<1>4. /\ stream' \in Channel /\ stream'.at = stream.at /\ stream'.missed = stream.missed
      /\ stream'.unacked = unacked /\ stream'.again = again /\ stream'.queue = Append(stream.queue, event)
      /\ stream'.gone = gone
  BY <1>1, <1>2, <1>3 DEF Channel
<1>5. ASSUME TakenOut, viewer' = viewer PROVE TakenOut'
  <2> SUFFICES ASSUME NEW m \in gone PROVE GoneFor(Append(stream.queue, event), viewer.view.messages, m)
    BY <1>4, <1>5 DEF TakenOut, GoneFor
  <2>1. CASE Retracts(event, m)
    BY <1>1, <2>1, RetractedLast DEF GoneFor
  <2>2. CASE ~Brings(event, m) /\ m \in stream.gone
    BY <1>1, <1>5, <2>2, RetractedLast DEF GoneFor, TakenOut
  <2> QED
    BY <1>3, <2>1, <2>2
<1> QED
  BY <1>1, <1>4, <1>5, QueuedLast

LEMMA PublishKeeps == ASSUME NEW event \in Events PROVE ChatInv /\ Publish(event) => ChatInv'
<1> SUFFICES ASSUME ChatInv, Publish(event) PROVE ChatInv'
  OBVIOUS
<1> USE DEF ChatInv
<1>1. event.state \in States \cup {"none"} /\ "none" \notin States
  BY EventKinds DEF States
<1>2. stream \in Channel
  BY DEF ChatKinds
<1>3. published'.state = (IF event.state = "none" THEN published.state ELSE event.state)
      /\ puts' = (IF event.state = "none" THEN puts ELSE puts \cup {event.state})
      /\ UNCHANGED <<link, stored, breaks, viewer>>
  BY DEF Publish
<1> DEFINE again == IF event.state = "none" THEN stream.again ELSE {}
<1>4. again \subseteq States /\ stream.unacked \subseteq Events /\ again \subseteq stream.again
  BY <1>2, StreamFields
<1>5. Refused'
  BY <1>3 DEF Refused, Publish
<1>6. CASE ~Listens
  <2>1. stream' = stream /\ stream.at \in {"none", "checked"} /\ stream.queue = <<>> /\ stream.unacked = {}
    BY <1>2, <1>6, StreamFields DEF Publish, Listens, Heard, Fresh
  <2>2. ChatKinds' /\ Fresh' /\ TakenOut'
    BY <1>1, <1>2, <1>3, <2>1 DEF ChatKinds, Fresh, TakenOut
  <2>3. Heard'
    BY <1>1, <1>3, <2>1, EmptyQueue DEF Heard
  <2> QED
    BY <1>5, <2>2, <2>3
<1>7. CASE Listens
  <2>0. Deliver(event, stream.unacked, again)
    BY <1>7 DEF Publish
  <2> HIDE DEF again
  <2>1. /\ stream' \in Channel /\ stream'.at = stream.at /\ stream'.missed = stream.missed
        /\ stream'.unacked = stream.unacked /\ stream'.again = again
        /\ event.state # "none" => Told(stream'.queue, event.state)
        /\ event.state = "none" => /\ Silent(stream.queue) => Silent(stream'.queue)
                                   /\ \A s : Told(stream.queue, s) => Told(stream'.queue, s)
        /\ TakenOut'
    BY <1>2, <1>3, <1>4, <2>0, Delivered
  <2>2. ChatKinds' /\ Fresh'
    BY <1>1, <1>3, <1>4, <2>1 DEF ChatKinds, Fresh
  <2>3. Heard'
    <3>0. stream'.at \notin {"none", "checked"}
      BY <1>7, <2>1 DEF Listens
    <3>1. CASE event.state = "none"
      <4>1. published'.state = published.state /\ puts' = puts /\ Latest' = Latest
        BY <1>3, <2>1, <3>1 DEF again, Latest
      <4> QED
        BY <1>3, <2>1, <3>0, <3>1, <4>1 DEF Heard, Learns
    <3>2. CASE event.state # "none"
      <4>1. published'.state = event.state /\ published'.state # "none" /\ Told(stream'.queue, published'.state)
        BY <1>3, <2>1, <3>2
      <4>2. published'.state \in Latest'
        BY DEF Latest
      <4> QED
        BY <3>0, <4>1, <4>2 DEF Heard, Learns
    <3> QED
      BY <3>1, <3>2
  <2> QED
    BY <1>5, <2>1, <2>2, <2>3
<1> QED
  BY <1>6, <1>7

\* What comes again is one of the states the page may be left with, or says nothing of them.
LEMMA RedeliverKeeps == ASSUME NEW event \in Events PROVE ChatInv /\ Redeliver(event) => ChatInv'
<1> SUFFICES ASSUME ChatInv, Redeliver(event) PROVE ChatInv'
  OBVIOUS
<1> USE DEF ChatInv
<1> DEFINE unacked == stream.unacked \ {event}
<1> DEFINE again   == stream.again \cup ({event.state} \ {"none"})
<1>1. /\ event \in stream.unacked /\ Deliver(event, unacked, again) /\ stream \in Channel
      /\ UNCHANGED <<link, stored, puts, published, breaks, viewer>>
  BY DEF Redeliver, ChatKinds
<1>2. event.state \in States \cup {"none"} /\ "none" \notin States
  BY EventKinds DEF States
<1>3. unacked \in SUBSET Events /\ again \in SUBSET States /\ unacked \subseteq stream.unacked
  BY <1>1, <1>2, StreamFields
<1>4. stream.at = "sending"
  BY <1>1 DEF Fresh
<1>5. stream.again \subseteq again /\ (event.state # "none" => event.state \in again)
  OBVIOUS
<1> HIDE DEF unacked, again
<1>6. /\ stream' \in Channel /\ stream'.at = "sending" /\ stream'.missed = stream.missed
      /\ stream'.unacked = unacked /\ stream'.again = again
      /\ event.state # "none" => Told(stream'.queue, event.state)
      /\ event.state = "none" => /\ Silent(stream.queue) => Silent(stream'.queue)
                                 /\ \A s : Told(stream.queue, s) => Told(stream'.queue, s)
      /\ TakenOut'
  BY <1>1, <1>3, <1>4, Delivered
<1>7. Latest \subseteq Latest' /\ (event.state # "none" => event.state \in Latest')
  BY <1>1, <1>5, <1>6 DEF Latest
<1>8. Heard'
  <2>1. CASE event.state = "none"
    <3>1. published.state = "none" => Silent(stream'.queue) /\ \A e \in stream'.unacked : e.state = "none"
      BY <1>3, <1>6, <2>1 DEF Heard
    <3>2. \A s : Learns(stream.queue, viewer.view.status, s) => Learns(stream'.queue, viewer.view.status, s)
      BY <1>6, <2>1 DEF Learns
    <3>3. stream.missed = {} => \/ \E s \in Latest' : Learns(stream'.queue, viewer.view.status, s)
                               \/ (stored # published.state /\ published.state \notin puts)
      BY <1>4, <1>7, <3>2 DEF Heard
    <3>4. /\ published' = published /\ stored' = stored /\ puts' = puts /\ viewer' = viewer
          /\ published.state = "none" => stored = "none" /\ puts = {} /\ viewer.view.status = "none"
      BY <1>1 DEF Heard
    <3> QED
      BY <1>6, <3>1, <3>3, <3>4 DEF Heard
  <2>2. CASE event.state # "none"
    <3>1. published'.state # "none"
      BY <1>1, <2>2 DEF Heard
    <3> QED
      BY <1>6, <1>7, <2>2, <3>1 DEF Heard, Learns
  <2> QED
    BY <2>1, <2>2
<1> QED
  BY <1>1, <1>6, <1>8 DEF ChatKinds, Fresh, Refused

LEMMA PutKeeps == ASSUME NEW s \in States PROVE ChatInv /\ (Put(s) \/ PutFails(s)) => ChatInv'
<1> SUFFICES ASSUME ChatInv, Put(s) \/ PutFails(s) PROVE ChatInv'
  OBVIOUS
<1>1. /\ s \in puts /\ puts' = puts \ {s} /\ stored' \in {s, stored} /\ (stored' = s \/ stored' = stored)
      /\ UNCHANGED <<link, published, viewer, stream>>
  BY DEF Put, PutFails
<1>2. published.state # "none"
  BY <1>1 DEF ChatInv, Heard
<1>3. Heard'
  BY <1>1, <1>2 DEF ChatInv, Heard, Latest, Learns
<1> QED
  BY <1>1, <1>3 DEF ChatInv, ChatKinds, Fresh, TakenOut, Refused

LEMMA RotateKeeps == ChatInv /\ rotateOverlayToken => ChatInv'
<1> SUFFICES ASSUME ChatInv, rotateOverlayToken PROVE ChatInv'
  OBVIOUS
<1>1. link \in 1..MaxLinks /\ link' = link + 1 /\ link' \in Links /\ viewer.link \in 1..MaxLinks /\ viewer.link <= link
  BY ChatAssumption DEF ChatInv, ChatKinds, Viewer, Links, rotateOverlayToken
<1>2. viewer.link <= link' /\ viewer.link # link'
  BY <1>1, ChatAssumption
<1> QED
  BY <1>1, <1>2 DEF ChatInv, ChatKinds, Fresh, Heard, Latest, TakenOut, Refused, rotateOverlayToken

\* The subscription that is over leaves nothing on its way.
LEMMA PageEndKeeps ==
    ASSUME ChatInv, NEW error, end(error), UNCHANGED <<link, stored, puts, published>>,
           error = "NOT_FOUND" => viewer.mode = "editor" \/ viewer.link # link
    PROVE  ChatInv'
<1> DEFINE code == failureCode(error, viewer.mode)
<1>1. code \in {"overlay_not_found", "transport_unavailable"}
      /\ (code = "overlay_not_found" => error = "NOT_FOUND" /\ viewer.mode = "overlay")
  BY DEF failureCode
<1>2. viewer' = [viewer EXCEPT !.at = IF code = "overlay_not_found" THEN "stopped" ELSE "waiting",
                               !.view.connectionError = code]
      /\ stream' = NoStream
  BY DEF end
<1>3. viewer \in Viewer /\ viewer.view \in View
  BY DEF ChatInv, ChatKinds, Viewer
<1> HIDE DEF code
<1>4. /\ viewer' \in Viewer /\ viewer'.mode = viewer.mode /\ viewer'.link = viewer.link
      /\ viewer'.view.status = viewer.view.status /\ (viewer'.at = "stopped" => code = "overlay_not_found")
  BY <1>1, <1>2, <1>3 DEF Viewer, View
<1>5. ChatKinds'
  BY <1>2, <1>4, NoStreamKinds DEF ChatInv, ChatKinds
<1>6. Heard'
  BY <1>2, <1>4, NoStreamKinds, EmptyQueue DEF ChatInv, Heard
<1>7. Refused'
  BY <1>1, <1>4 DEF Refused
<1>8. Fresh' /\ TakenOut'
  BY <1>2, NoStreamKinds DEF Fresh, TakenOut
<1> QED
  BY <1>5, <1>6, <1>7, <1>8 DEF ChatInv

LEMMA SubscriptionKeeps == ChatInv /\ (streamForOverlayToken \/ StreamFails \/ TokenCheck) => ChatInv'
<1> SUFFICES ASSUME ChatInv, streamForOverlayToken \/ StreamFails \/ TokenCheck PROVE ChatInv'
  OBVIOUS
<1>1. CASE streamForOverlayToken
  <2>1. CASE Valid
    <3>1. stream' = [NoStream EXCEPT !.at = "checked"] /\ UNCHANGED <<link, stored, puts, published, viewer>>
      BY <1>1, <2>1 DEF streamForOverlayToken
    <3>2. /\ stream' \in Channel /\ stream'.at = "checked" /\ stream'.queue = <<>>
          /\ stream'.unacked = {} /\ stream'.again = {} /\ stream'.gone = {}
      BY <3>1, EmptyQueue DEF NoStream, Channel
    <3> QED
      BY <3>1, <3>2, EmptyQueue DEF ChatInv, ChatKinds, Fresh, Heard, TakenOut, Refused
  <2>2. CASE ~Valid
    BY <1>1, <2>2, PageEndKeeps DEF streamForOverlayToken, Valid
  <2> QED
    BY <2>1, <2>2
<1>2. CASE StreamFails
  <2>1. PICK error \in {"none"} \cup { toTRPCError(status) : status \in {0, 400, 500} } : end(error)
    BY <1>2 DEF StreamFails
  <2>2. error # "NOT_FOUND"
    BY <2>1 DEF toTRPCError
  <2> QED
    BY <1>2, <2>1, <2>2, PageEndKeeps DEF StreamFails
<1>3. CASE TokenCheck
  BY <1>3, PageEndKeeps DEF TokenCheck, Valid
<1> QED
  BY <1>1, <1>2, <1>3

LEMMA PageKeeps == ChatInv /\ (subscribe \/ reset \/ ChanSubscribe) => ChatInv'
<1> SUFFICES ASSUME ChatInv, subscribe \/ reset \/ ChanSubscribe PROVE ChatInv'
  OBVIOUS
<1> USE DEF ChatInv
<1>0. viewer \in Viewer /\ viewer.view \in View /\ stream \in Channel /\ link \in Links
  BY DEF ChatKinds, Viewer
<1>1. CASE subscribe
  <2>1. viewer' = [viewer EXCEPT !.at = "subscribing"] /\ UNCHANGED <<link, stored, puts, published, stream>>
    BY <1>1 DEF subscribe
  <2>2. viewer' \in Viewer /\ viewer'.link = viewer.link /\ viewer'.view = viewer.view /\ viewer'.at # "stopped"
    BY <1>0, <2>1 DEF Viewer
  <2> QED
    BY <2>1, <2>2 DEF ChatKinds, Fresh, Heard, Latest, TakenOut, Refused
<1>2. CASE reset
  <2>1. PICK mode \in {"editor", "overlay"}, l \in 1..link :
           viewer' = [at |-> "subscribing", mode |-> mode, link |-> l, view |-> Empty]
    BY <1>2 DEF reset
  <2>2. stream' = NoStream /\ UNCHANGED <<link, stored, puts, published>>
    BY <1>2 DEF reset
  <2>3. l \in Links /\ l <= link
    BY <1>0, ChatAssumption DEF Links
  <2>4. viewer' \in Viewer /\ viewer'.link <= link /\ viewer'.view.status = "none" /\ viewer'.at # "stopped"
    BY <2>1, <2>3, ViewKinds DEF Viewer
  <2> QED
    BY <2>2, <2>4, NoStreamKinds, EmptyQueue DEF ChatKinds, Fresh, Heard, TakenOut, Refused
<1>3. CASE ChanSubscribe
  <2>1. /\ stream.at = "checked" /\ stream' = [stream EXCEPT !.at = "subscribed", !.missed = puts]
        /\ viewer' = [viewer EXCEPT !.at = "open", !.view.connectionError = "none"]
        /\ UNCHANGED <<link, stored, puts, published>>
    BY <1>3 DEF ChanSubscribe
  <2>2. /\ stream' \in Channel /\ stream'.at = "subscribed" /\ stream'.queue = <<>> /\ stream'.missed = puts
        /\ stream'.unacked = {} /\ stream'.again = {} /\ stream'.gone = {}
    BY <1>0, <2>1 DEF ChatKinds, Fresh, Heard, Channel
  <2>3. viewer' \in Viewer /\ viewer'.link = viewer.link /\ viewer'.view.status = viewer.view.status /\ viewer'.at # "stopped"
    BY <1>0, <2>1 DEF Viewer, View
  <2> QED
    BY <2>1, <2>2, <2>3, EmptyQueue DEF ChatKinds, Fresh, Heard, TakenOut, Refused
<1> QED
  BY <1>1, <1>2, <1>3

LEMMA StreamKeeps == ChatInv /\ Stream => ChatInv'
<1> SUFFICES ASSUME ChatInv, Stream PROVE ChatInv'
  OBVIOUS
<1> USE DEF ChatInv
<1> DEFINE q == stream.queue
<1> DEFINE r == Snapshot(q)
<1> DEFINE next == IF stored = "none" THEN "sending" ELSE "snapshot"
<1>0. stream \in Channel /\ q \in Seq(Events) /\ stored \in States \cup {"none"}
  BY StreamFields DEF ChatKinds
<1>1. /\ stream.at = "subscribed" /\ stream.unacked = {} /\ stream.again = {}
      /\ stream' = [stream EXCEPT !.at = next, !.queue = r, !.missed = stream.missed \cap puts]
      /\ UNCHANGED <<link, stored, puts, published, viewer>>
  BY <1>0 DEF Stream, Fresh, Channel
<1>2. r = IF stored = "none" THEN q ELSE <<state(stored)>> \o q
  BY DEF Snapshot
<1> HIDE DEF r
<1>3. r \in Seq(Events)
  BY <1>0, <1>2, EventKinds, QueuedFirst
<1>4. /\ stream' \in Channel /\ stream'.at \in {"snapshot", "sending"} /\ stream'.queue = r
      /\ stream'.missed = stream.missed \cap puts
      /\ stream'.unacked = {} /\ stream'.again = {} /\ stream'.gone = stream.gone
  BY <1>0, <1>1, <1>3 DEF Channel
<1>5. Heard'
  <2>0. published'.state \in Latest'
    BY DEF Latest
  <2>1. CASE published.state = "none"
    <3>1. r = q /\ Silent(q) /\ viewer.view.status = "none"
      BY <1>2, <2>1 DEF Heard
    <3> QED
      BY <1>1, <1>4, <2>0, <2>1, <3>1 DEF Heard, Learns
  <2>2. CASE published.state # "none" /\ Told(q, published.state)
    <3>1. Told(r, published.state)
      BY <1>0, <1>2, <2>2, EventKinds, QueuedFirst
    <3> QED
      BY <1>1, <1>4, <2>0, <2>2, <3>1 DEF Heard, Learns
  <2>3. CASE published.state # "none" /\ Silent(q) /\ puts \subseteq stream.missed
    <3>1. stream'.missed = {} => puts = {}
      BY <1>4, <2>3
    <3>2. stored = published.state => Told(r, published.state)
      BY <1>0, <1>2, <2>3, EventKinds, QueuedFirst
    <3> QED
      BY <1>1, <1>4, <2>0, <2>3, <3>1, <3>2 DEF Heard, Learns
  <2> QED
    BY <1>1, <2>1, <2>2, <2>3 DEF Heard
<1>6. TakenOut'
  <2>1. \A m : stored # "none" => ~Brings(state(stored), m) /\ state(stored) \in Events
    BY <1>0, EventKinds DEF Brings, state
  <2>2. \A m : GoneFor(q, viewer.view.messages, m) => GoneFor(r, viewer.view.messages, m)
    <3>1. CASE stored = "none"
      BY <1>2, <3>1
    <3>2. CASE stored # "none"
      BY <1>0, <1>2, <2>1, <3>2, RetractedFirst DEF GoneFor
    <3> QED
      BY <3>1, <3>2
  <2> QED
    BY <1>1, <1>4, <2>2 DEF TakenOut
<1> QED
  BY <1>1, <1>4, <1>5, <1>6 DEF ChatKinds, Fresh, Refused

LEMMA ReducerKinds ==
    ASSUME NEW view \in View, NEW event \in Events
    PROVE  /\ reducer(view, event) \in View
           /\ reducer(view, event).status = IF event.state = "none" THEN view.status ELSE event.state
           /\ \A m : Shows(reducer(view, event).messages, m) =>
                      ~Retracts(event, m) /\ (Brings(event, m) \/ Shows(view.messages, m))
<1> USE DEF Retracts, Brings
<1>1. view.messages \in Ordered
  BY DEF View
<1>2. CASE event.type = "state"
  <2>1. reducer(view, event) = [view EXCEPT !.status = event.state] /\ event.state \in States /\ event.state # "none"
    BY <1>2, EventKinds DEF reducer
  <2> QED
    BY <1>2, <2>1 DEF View
<1>3. CASE event.type = "message_deleted"
  <2>1. reducer(view, event) = [view EXCEPT !.messages = Without(view.messages, event.message)] /\ event.state = "none"
    BY <1>3, EventKinds DEF reducer, View
  <2>2. reducer(view, event).messages = Without(view.messages, event.message)
    BY <2>1 DEF View
  <2>3. ~Shows(Without(view.messages, event.message), event.message)
    BY <1>1, WithoutNone DEF Shows
  <2>4. \A m : Shows(Without(view.messages, event.message), m) => Shows(view.messages, m)
    BY <1>1, WithoutFewer
  <2>5. reducer(view, event) \in View /\ reducer(view, event).status = view.status
    BY <1>1, <2>1, WithoutOrdered DEF View
  <2> QED
    BY <1>3, <2>1, <2>2, <2>3, <2>4, <2>5
<1>4. CASE event.type = "message"
  <2>1. reducer(view, event) = [view EXCEPT !.messages = Placed(view.messages, event.message), !.status = "live"]
        /\ event.state = "live" /\ event.message \in Messages
    BY <1>4, EventKinds DEF reducer, View
  <2>2. reducer(view, event).messages = Placed(view.messages, event.message)
    BY <2>1 DEF View
  <2>3. reducer(view, event) \in View /\ reducer(view, event).status = event.state
    BY <1>1, <2>1, PlacedOrdered DEF View, States
  <2> QED
    BY <1>1, <1>4, <2>1, <2>2, <2>3, PlacedOrdered DEF States
<1> QED
  BY <1>2, <1>3, <1>4, EventKinds

LEMMA OnDataKeeps == ChatInv /\ onData => ChatInv'
<1> SUFFICES ASSUME ChatInv, onData PROVE ChatInv'
  OBVIOUS
<1> USE DEF ChatInv
<1> DEFINE q == stream.queue
<1> DEFINE event == Head(q)
<1>0. stream \in Channel /\ q \in Seq(Events) /\ viewer \in Viewer /\ viewer.view \in View
  BY StreamFields DEF ChatKinds, Viewer
<1>1. PICK late \in {{}, {event}} :
           stream' = [stream EXCEPT !.at = "sending", !.queue = Tail(q), !.unacked = stream.unacked \cup late]
  BY <1>0 DEF onData, Channel
<1>2. /\ stream.at \in {"snapshot", "sending"} /\ q # <<>> /\ viewer.at = "open"
      /\ viewer' = [viewer EXCEPT !.view = reducer(viewer.view, event)]
      /\ UNCHANGED <<link, stored, puts, published>>
  BY <1>0 DEF onData, Viewer
<1>3. event \in Events /\ Tail(q) \in Seq(Events)
  BY <1>0, <1>2, TakenFirst
<1>4. Silent(q) => Silent(Tail(q)) /\ event.state = "none"
  BY <1>0, <1>2, TakenFirst
<1>5. /\ \A s : s # "none" /\ Learns(q, viewer.view.status, s) =>
                Learns(Tail(q), IF event.state = "none" THEN viewer.view.status ELSE event.state, s)
      /\ \A m : /\ Retracted(q, m) => Retracted(Tail(q), m) \/ (Retracts(event, m) /\ Unsent(Tail(q), m))
                /\ Unsent(q, m) => Unsent(Tail(q), m) /\ ~Brings(event, m)
  BY <1>0, <1>2, TakenFirst, RetractedTaken
<1> HIDE DEF event
<1>6. /\ stream' \in Channel /\ stream'.at = "sending" /\ stream'.queue = Tail(q) /\ stream'.missed = stream.missed
      /\ stream'.unacked \subseteq stream.unacked \cup {event} /\ stream'.again = stream.again /\ stream'.gone = stream.gone
  BY <1>0, <1>1, <1>3 DEF Channel
<1>7. /\ viewer' \in Viewer /\ viewer'.link = viewer.link /\ viewer'.at = "open"
      /\ viewer'.view = reducer(viewer.view, event)
  BY <1>0, <1>2, <1>3, ReducerKinds DEF Viewer
<1>8. /\ viewer'.view.status = IF event.state = "none" THEN viewer.view.status ELSE event.state
      /\ \A m : Shows(viewer'.view.messages, m) => ~Retracts(event, m) /\ (Brings(event, m) \/ Shows(viewer.view.messages, m))
  BY <1>0, <1>3, <1>7, ReducerKinds
<1>9. Heard'
  <2>1. CASE published.state = "none"
    <3>1. Silent(q) /\ viewer.view.status = "none" /\ stored = "none" /\ puts = {}
          /\ \A e \in stream.unacked : e.state = "none"
      BY <2>1 DEF Heard
    <3>2. Silent(Tail(q)) /\ viewer'.view.status = "none" /\ \A e \in stream'.unacked : e.state = "none"
      BY <1>4, <1>6, <1>8, <3>1
    <3>3. published'.state \in Latest' /\ Learns(stream'.queue, viewer'.view.status, published'.state)
      BY <1>2, <1>6, <2>1, <3>2 DEF Latest, Learns
    <3> QED
      BY <1>2, <1>6, <3>1, <3>2, <3>3 DEF Heard
  <2>2. CASE published.state # "none"
    <3>1. Latest' = Latest /\ "none" \notin Latest
      BY <1>0, <1>2, <1>6, <2>2, StreamFields DEF Latest, States
    <3>2. \A s \in Latest : Learns(q, viewer.view.status, s) => Learns(Tail(q), viewer'.view.status, s)
      BY <1>5, <1>8, <3>1
    <3>3. published'.state = published.state /\ stored' = stored /\ puts' = puts
      BY <1>2
    <3> HIDE DEF q
    <3>4. stream.missed = {} => \/ \E s \in Latest : Learns(q, viewer.view.status, s)
                               \/ (stored # published.state /\ published.state \notin puts)
      BY <1>2 DEF Heard, q
    <3> QED
      BY <1>6, <2>2, <3>1, <3>2, <3>3, <3>4 DEF Heard
  <2> QED
    BY <2>1, <2>2
<1>10. TakenOut'
  <2> SUFFICES ASSUME NEW m \in stream.gone PROVE GoneFor(Tail(q), viewer'.view.messages, m)
    BY <1>6 DEF TakenOut, GoneFor
  <2>1. GoneFor(q, viewer.view.messages, m)
    BY DEF TakenOut
  <2> QED
    BY <1>5, <1>8, <2>1 DEF GoneFor
<1> QED
  BY <1>2, <1>6, <1>7, <1>9, <1>10 DEF ChatKinds, Fresh, Refused

LEMMA RemoveKeeps == ChatInv /\ removeMessage => ChatInv'
<1> SUFFICES ASSUME ChatInv, removeMessage PROVE ChatInv'
  OBVIOUS
<1> USE DEF ChatInv
<1>1. PICK m \in Messages : viewer' = [viewer EXCEPT !.view.messages = Without(viewer.view.messages, m)]
  BY DEF removeMessage, ChatKinds, Viewer, View
<1>2. viewer \in Viewer /\ viewer.view \in View /\ viewer.view.messages \in Ordered
      /\ UNCHANGED <<link, stored, puts, published, stream>>
  BY DEF removeMessage, ChatKinds, Viewer, View
<1>3. /\ viewer' \in Viewer /\ viewer'.link = viewer.link /\ viewer'.at = viewer.at /\ viewer'.mode = viewer.mode
      /\ viewer'.view.status = viewer.view.status /\ viewer'.view.messages = Without(viewer.view.messages, m)
  BY <1>1, <1>2, WithoutOrdered DEF Viewer, View
<1>4. TakenOut'
  BY <1>2, <1>3, WithoutFewer DEF TakenOut, GoneFor
<1> QED
  BY <1>2, <1>3, <1>4 DEF ChatKinds, Fresh, Heard, Latest, Refused

LEMMA ChatNextKeeps == ChatInv /\ [ChatNext]_chatVars => ChatInv'
<1> SUFFICES ASSUME ChatInv, [ChatNext]_chatVars PROVE ChatInv'
  OBVIOUS
<1>1. CASE ChatNext
  BY <1>1, PublishKeeps, RedeliverKeeps, PutKeeps, RotateKeeps, SubscriptionKeeps, PageKeeps, StreamKeeps, OnDataKeeps,
     RemoveKeeps
  DEF ChatNext
<1>2. CASE UNCHANGED chatVars
  BY <1>2 DEF chatVars, ChatInv, ChatKinds, Fresh, Heard, Latest, TakenOut, Refused
<1> QED
  BY <1>1, <1>2

LEMMA ChatInvariance == ChatSpec => []ChatInv
  BY ChatInitInv, ChatNextKeeps, PTL DEF ChatSpec

LEMMA ChatInvTypes == ChatInv => ChatTypeOK
<1> SUFFICES ASSUME ChatInv PROVE ChatTypeOK
  OBVIOUS
<1>1. viewer.link \in Links /\ viewer.link <= link /\ link \in Links
  BY DEF ChatInv, ChatKinds, Viewer
<1>2. viewer.link \in 1..link
  BY <1>1, ChatAssumption DEF Links
<1> QED
  BY <1>2 DEF ChatInv, ChatKinds, ChatTypeOK, Viewer, Channel

\* A page that has heard everything shows the last published state, or an older one it
\* left unacknowledged and that came again after it, and no message whose deletion was the
\* last it was sent; it keeps its messages in order, and gives up only on a link that was
\* replaced.
THEOREM PageFollows == ChatSpec => []PageFollowsChat
<1>1. ChatInv => PageFollowsChat
  <2> SUFFICES ASSUME ChatInv PROVE PageFollowsChat
    OBVIOUS
  <2>1. viewer.view.messages \in Ordered
    BY DEF ChatInv, ChatKinds, Viewer, View
  <2>2. ASSUME stream.at = "sending", stream.queue = <<>>
        PROVE  /\ stored = published.state /\ stream.missed = {} => viewer.view.status \in {published.state} \cup stream.again
               /\ \A i \in DOMAIN viewer.view.messages : viewer.view.messages[i] \notin stream.gone
    <3>1. stored = published.state /\ stream.missed = {} => viewer.view.status \in Latest
      BY <2>2, EmptyQueue DEF ChatInv, Heard, Learns
    <3>2. \A m \in stream.gone : ~Shows(viewer.view.messages, m)
      BY <2>2, EmptyQueue DEF ChatInv, TakenOut, GoneFor
    <3> QED
      BY <3>1, <3>2 DEF Latest, Shows
  <2>3. Len(viewer.view.messages) <= Kept
    <3>1. Len(viewer.view.messages) \in {0, 1, 2}
      BY <2>1, OrderedKinds
    <3>2. \A n \in {0, 1, 2} : n <= Kept
      BY DEF Kept
    <3> QED
      BY <3>1, <3>2
  <2> QED
    BY <2>1, <2>2, <2>3, OrderedKinds DEF PageFollowsChat, ChatInv, Refused
<1> QED
  BY <1>1, ChatInvariance, PTL

\* The broker, the stream and the page keep their kinds.
THEOREM ChatTyped == ChatSpec => []ChatTypeOK
  BY ChatInvariance, ChatInvTypes, PTL

-----------------------------------------------------------------------------
(* The services side by side.                                               *)

\* Whichever service a behaviour chose, each of the five behaves as its own module says:
\* no service writes a variable of another.
THEOREM EachServiceAlone == ServicesSpec => VideoSpec /\ RestreamSpec /\ ChatSpec /\ AssetsSpec /\ ConnectSpec
<1>1. ServicesInit => VideoInit /\ RestreamInit /\ ChatInit /\ AssetsInit /\ ConnectInit
  BY DEF ServicesInit
<1>2. [ServicesNext]_servicesVars =>
        [VideoNext]_vars /\ [RestreamNext]_restreamVars /\ [ChatNext]_chatVars /\ [AssetsNext]_assetVars
          /\ [ConnectNext]_connectVars
  BY DEF ServicesNext, servicesVars
<1> QED
  BY <1>1, <1>2, PTL DEF ServicesSpec, VideoSpec, RestreamSpec, ChatSpec, AssetsSpec, ConnectSpec

\* So every property of one of them holds of all together; of the kinds of their variables
\* this is the invariant of the services' run.
THEOREM ServicesTyped == ServicesSpec => []ServicesTypeOK
<1>1. VideoTypeOK /\ RestreamTypeOK /\ ChatTypeOK /\ AssetsTypeOK /\ ConnectTypeOK => ServicesTypeOK
  BY DEF ServicesTypeOK
<1> QED
  BY <1>1, EachServiceAlone, VideoTyped, RestreamTyped, ChatTyped, AssetsTyped, ConnectTyped, PTL
=============================================================================
