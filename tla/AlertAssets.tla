----------------------------- MODULE AlertAssets -----------------------------
(***************************************************************************)
(* The image of an owner's alerts: uploads, through the one slot of the    *)
(* web server and the one slot of the alert service, the image the owner   *)
(* selected, the alerts that captured it, its removal and the hourly       *)
(* retention sweep.  Asset u is the row that upload u inserted.            *)
(***************************************************************************)
EXTENDS Integers, FiniteSets

CONSTANTS
    MaxUploads,     \* uploads sent
    MaxAlerts,      \* alerts accepted
    MaxCommands     \* settings saved and assets removed
ASSUME AssetsAssumption == MaxUploads \in Nat /\ MaxAlerts \in Nat /\ MaxCommands \in Nat

VARIABLES
    upload,         \* the requests of the web server
    activeUploads,  \* its activeUploads and activeUploadUsers
    service,        \* the alert service's handlers of them
    slotsTaken,     \* its uploadSlots
    turns, latest,  \* handlers begun; the turn of the last one that saved an owner's image
    assets,         \* donation_alert_asset: the content of each row, 0: no row
    selected,       \* donation_alert_configuration.image_asset_id, 0: NULL
    alerts,         \* donation_alert_playback
    sweep,          \* the next statement of PruneRetention
    commands        \* left
assetVars == <<upload, activeUploads, service, slotsTaken, turns, latest, assets, selected, alerts, sweep, commands>>
webVars   == <<upload, activeUploads>>
goVars    == <<service, slotsTaken, turns>>
dbVars    == <<assets, selected, alerts, latest>>

Uploads == 1..MaxUploads
Alerts  == 1..MaxAlerts
Owners  == {"owner", "other"}       \* of the other owner only the uploads are of interest
Files   == 1..2
maxConcurrentUploads  == 1
InProgress == {"body", "form", "service"}
Handling   == {"processing", "returning"}
OpenAlert  == {"waiting", "playing"}

AssetsTypeOK ==
    /\ upload \in [Uploads -> [user: Owners, file: Files, cancelled: BOOLEAN,
                               at: InProgress \cup {"none", "sent", "answered"}]]
    /\ activeUploads.count \in 0..maxConcurrentUploads /\ activeUploads.users \subseteq Owners
    /\ service \in [Uploads -> [at: Handling \cup {"none", "asked", "returned"}, turn: 0..MaxUploads]]
    /\ slotsTaken \in 0..maxConcurrentUploads
    /\ assets \in [Uploads -> Files \cup {0}] /\ selected \in Uploads \cup {0}
    /\ alerts \in [Alerts -> [status: OpenAlert \cup {"none", "terminal", "deleted"}, image: Uploads \cup {0}]]

-----------------------------------------------------------------------------
(* The web server (handleAlertUpload).                                      *)

send ==
    \E u \in Uploads, user \in Owners, file \in Files :
      /\ upload[u].at = "none" /\ \A v \in 1..(u - 1) : upload[v].at # "none"
      /\ user = "other" => file = 1
      /\ upload' = [upload EXCEPT ![u] = [user |-> user, file |-> file, cancelled |-> FALSE, at |-> "sent"]]
      /\ UNCHANGED <<activeUploads, goVars, dbVars, sweep, commands>>

leaky(u, answer) ==
    IF upload[u].at = "sent" \/ answer = "failed" THEN activeUploads
    ELSE [count |-> activeUploads.count - 1, users |-> activeUploads.users \ {upload[u].user}]

(* What the finally block gives back, whatever the answer: "stored" (200), "refused" *)
(* (4xx, requestBodyErrorResponse and errorResponse) or "failed" (5xx).              *)
releaseUpload(u, answer) ==
    IF upload[u].at = "sent" THEN activeUploads
    ELSE [count |-> activeUploads.count - 1, users |-> activeUploads.users \ {upload[u].user}]

Responds(u, answer) ==
    /\ upload' = [upload EXCEPT ![u].at = "answered", ![u].cancelled = FALSE]
    /\ activeUploads' = releaseUpload(u, answer)

rejectInvalidUploadBoundary(u) ==
    /\ upload[u].at = "sent" /\ Responds(u, "refused")

acquireUpload(u) ==
    /\ upload[u].at = "sent"
    /\ IF activeUploads.count >= maxConcurrentUploads \/ upload[u].user \in activeUploads.users
       THEN Responds(u, "refused")
       ELSE /\ activeUploads' = [count |-> activeUploads.count + 1, users |-> activeUploads.users \cup {upload[u].user}]
            /\ upload' = [upload EXCEPT ![u].at = "body"]

(* createUploadOperation: 45 s are over, or the page went away. *)
cancel(u) ==
    /\ upload[u].at \in InProgress /\ ~upload[u].cancelled
    /\ upload' = [upload EXCEPT ![u].cancelled = TRUE]
    /\ UNCHANGED activeUploads

(* Aborted, cut off, longer than is allowed, or not a form. *)
translateBodyError(u) == upload[u].at \in {"body", "form"} /\ Responds(u, "refused") /\ UNCHANGED service

(* The body, to its end: each read of a chunk looks at the signal before and after. *)
readBoundedRequestBody(u) ==
    /\ upload[u].at = "body" /\ ~upload[u].cancelled
    /\ upload' = [upload EXCEPT ![u].at = "form"]
    /\ UNCHANGED <<activeUploads, service>>

(* A kind and a file that the rules allow. *)
validateUploadForm(u) == upload[u].at = "form" /\ Responds(u, "refused") /\ UNCHANGED service

uploadAsset(u) ==
    /\ upload[u].at = "form"
    /\ \/ upload[u].cancelled /\ Responds(u, "failed") /\ UNCHANGED service
       \/ /\ ~upload[u].cancelled /\ upload' = [upload EXCEPT ![u].at = "service"]
          /\ service' = [service EXCEPT ![u].at = "asked"] /\ UNCHANGED activeUploads

(* The service answered; or it cannot be reached, or the signal aborted, and what it is *)
(* doing goes on.                                                                       *)
settle(u) ==
    /\ upload[u].at = "service"
    /\ \/ Responds(u, "failed")
       \/ /\ ~upload[u].cancelled /\ service[u].at \in {"returning", "returned"}
          /\ \E answer \in {"stored", "refused"} : Responds(u, answer)       \* whichever it was

-----------------------------------------------------------------------------
(* The alert service.                                                       *)

(* The slot is taken before the request is read. *)
TakesSlot(u) ==
    /\ service[u].at = "asked"
    /\ IF slotsTaken >= maxConcurrentUploads
       THEN service' = [service EXCEPT ![u].at = "returned"] /\ UNCHANGED <<slotsTaken, turns>>
       ELSE /\ service' = [service EXCEPT ![u].at = "processing", ![u].turn = turns + 1]
            /\ slotsTaken' = slotsTaken + 1 /\ turns' = turns + 1
    /\ UNCHANGED dbVars

(* Its content cannot be used, a command fails, or the web server's request is over. *)
UploadFails(u) ==
    /\ service[u].at = "processing"
    /\ service' = [service EXCEPT ![u].at = "returning", ![u].turn = 0]
    /\ UNCHANGED <<slotsTaken, turns, dbVars>>

(* The row of the same content, if the owner has one; and the image is selected. *)
SaveAsset(u) ==
    /\ service[u].at = "processing"
    /\ service' = [service EXCEPT ![u].at = "returning", ![u].turn = 0]
    /\ IF upload[u].user = "owner"
       THEN LET same == { id \in Uploads : assets[id] = upload[u].file }
                id   == IF same = {} THEN u ELSE CHOOSE known \in same : TRUE
            IN  /\ assets' = [assets EXCEPT ![id] = upload[u].file]
                /\ selected' = id
                /\ latest' = service[u].turn
       ELSE UNCHANGED <<assets, selected, latest>>
    /\ UNCHANGED <<slotsTaken, turns, alerts>>

(* The handler returns after it has answered. *)
GivesSlot(u) ==
    /\ service[u].at = "returning" /\ service' = [service EXCEPT ![u].at = "returned"]
    /\ slotsTaken' = slotsTaken - 1
    /\ UNCHANGED <<turns, dbVars>>

Commands == commands > 0 /\ commands' = commands - 1

(* A page saves its settings, with the image that it knows: refused when its row is gone. *)
UpdateSettings ==
    /\ Commands
    /\ \E image \in {0} \cup { u \in Uploads : upload[u].at # "none" } :
         selected' = IF image = 0 \/ assets[image] # 0 THEN image ELSE selected
    /\ UNCHANGED <<assets, alerts, latest, sweep>>

anyStatus(alert, id) == alert.image = id
Forgets(alert, id)   == alert.status = "terminal" /\ alert.image = id

(* An alert that is still to be shown keeps the row. *)
DeleteAsset ==
    /\ Commands
    /\ \E id \in Uploads :
         LET after == [a \in Alerts |-> IF Forgets(alerts[a], id) THEN [alerts[a] EXCEPT !.image = 0] ELSE alerts[a]] IN
         /\ assets[id] # 0
         /\ selected' = IF selected = id THEN 0 ELSE selected
         /\ alerts' = after
         /\ assets' = IF \E a \in Alerts : after[a].image = id THEN assets ELSE [assets EXCEPT ![id] = 0]
    /\ UNCHANGED <<latest, sweep>>

(* An alert captures the image of its moment. *)
Enqueue ==
    /\ \E a \in Alerts :
         /\ alerts[a].status = "none" /\ \A b \in 1..(a - 1) : alerts[b].status # "none"
         /\ alerts' = [alerts EXCEPT ![a] = [status |-> "waiting", image |-> selected]]
    /\ UNCHANGED <<assets, selected, latest, sweep, commands>>

(* It is claimed, given back, ended. *)
Moves ==
    /\ \E a \in Alerts, after \in OpenAlert \cup {"terminal"} :
         /\ alerts[a].status \in OpenAlert /\ after # alerts[a].status
         /\ after = "playing" => \A b \in Alerts : alerts[b].status # "playing"
         /\ alerts' = [alerts EXCEPT ![a].status = after]
    /\ UNCHANGED <<assets, selected, latest, sweep, commands>>

(* PruneRetention: old alerts, then the references of ended alerts to what is not     *)
(* selected, then the rows that nothing refers to; a statement that fails ends the    *)
(* sweep.                                                                             *)
PruneRetention ==
    /\ sweep' = IF sweep = 3 THEN 1 ELSE sweep + 1
    /\ \/ /\ sweep = 1 /\ UNCHANGED assets
          /\ \E old \in SUBSET { a \in Alerts : alerts[a].status = "terminal" } :
               alerts' = [a \in Alerts |-> IF a \in old THEN [status |-> "deleted", image |-> 0] ELSE alerts[a]]
       \/ /\ sweep = 2 /\ UNCHANGED assets
          /\ alerts' = [a \in Alerts |-> IF alerts[a].status = "terminal" /\ alerts[a].image # selected
                                         THEN [alerts[a] EXCEPT !.image = 0] ELSE alerts[a]]
       \/ /\ sweep = 3 /\ UNCHANGED alerts
          /\ assets' = [id \in Uploads |-> IF id = selected \/ \E a \in Alerts : alerts[a].image = id
                                           THEN assets[id] ELSE 0]
    /\ UNCHANGED <<selected, latest, commands>>

PruneFails ==
    /\ sweep > 1 /\ sweep' = 1
    /\ UNCHANGED <<assets, selected, alerts, latest, commands>>

(* An image is given to its owner, and to a player while an alert that plays shows it. *)
assetForUser(principal, id) ==
    assets[id] # 0 /\ (principal = "player" => \E a \in Alerts : alerts[a].status = "playing" /\ alerts[a].image = id)

handleAlertMedia(principal, id) == IF assetForUser(principal, id) THEN 200 ELSE 404
-----------------------------------------------------------------------------

AssetsInit ==
    /\ upload = [u \in Uploads |-> [user |-> "owner", file |-> 1, cancelled |-> FALSE, at |-> "none"]]
    /\ activeUploads = [count |-> 0, users |-> {}]
    /\ service = [u \in Uploads |-> [at |-> "none", turn |-> 0]]
    /\ slotsTaken = 0 /\ turns = 0 /\ latest = 0
    /\ assets = [u \in Uploads |-> 0] /\ selected = 0
    /\ alerts = [a \in Alerts |-> [status |-> "none", image |-> 0]]
    /\ sweep = 1 /\ commands = MaxCommands

AssetsNext ==
    \/ send
    \/ \E u \in Uploads :
         \/ /\ rejectInvalidUploadBoundary(u) \/ acquireUpload(u) \/ cancel(u) \/ settle(u)
            /\ UNCHANGED <<goVars, dbVars, sweep, commands>>
         \/ /\ translateBodyError(u) \/ readBoundedRequestBody(u) \/ validateUploadForm(u) \/ uploadAsset(u)
            /\ UNCHANGED <<slotsTaken, turns, dbVars, sweep, commands>>
         \/ (TakesSlot(u) \/ UploadFails(u) \/ SaveAsset(u) \/ GivesSlot(u)) /\ UNCHANGED <<webVars, sweep, commands>>
    \/ (UpdateSettings \/ DeleteAsset \/ Enqueue \/ Moves \/ PruneRetention \/ PruneFails) /\ UNCHANGED <<webVars, goVars>>

AssetsSpec == AssetsInit /\ [][AssetsNext]_assetVars

-----------------------------------------------------------------------------
(* Properties.                                                              *)

MediaThere ==
    /\ selected # 0 => handleAlertMedia("owner", selected) = 200
    /\ \A a \in Alerts : alerts[a].image # 0 =>
         /\ alerts[a].status \in OpenAlert => assets[alerts[a].image] # 0
         /\ alerts[a].status = "playing" => handleAlertMedia("player", alerts[a].image) = 200
ImageStays ==
    \A a \in Alerts : alerts[a].status \in OpenAlert /\ alerts'[a].status \in OpenAlert
                          => alerts'[a].image = alerts[a].image

(* Removing an image, replacing it and the sweep leave the alerts alone that are   *)
(* still to be shown: they keep the image they captured, its row is there, and the *)
(* player that shows one is given it, as the owner is given the selected one       *)
(* (DeleteAsset, PruneRetention, assetForUser).                                    *)
OpenAlertKeepsMedia == []MediaThere /\ [][ImageStays]_assetVars

Held == { u \in Uploads : upload[u].at \in InProgress }
Busy == { u \in Uploads : service[u].at \in Handling }

(* However an upload ends, at the web server or behind its back at the alert       *)
(* service, both slots are given back exactly once; and an upload that the web     *)
(* server has given up never replaces the image of one that the service began      *)
(* after it (acquireUpload, uploadSlots).                                          *)
UploadsTakeTurns ==
    /\ [](/\ activeUploads = [count |-> Cardinality(Held), users |-> { upload[u].user : u \in Held }]
          /\ slotsTaken = Cardinality(Busy))
    /\ [][latest' >= latest]_latest
=============================================================================
