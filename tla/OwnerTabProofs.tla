--------------------------- MODULE OwnerTabProofs ---------------------------
(***************************************************************************)
(* The owner's tab, for any number of events: it stays within its types,   *)
(* shows what it has said is saved, and loses no text but where listed.    *)
(*                                                                         *)
(* First the tables of the pages are read once, row by row: what a form    *)
(* may save and what may take its text away (Allowed), what a button may   *)
(* send (Pressable), and that every hook invalidates what its mutation     *)
(* changes (InvalidatesAll). The invariant of the tab then rests on these  *)
(* three facts and not on the tables themselves.                           *)
(***************************************************************************)
EXTENDS OwnerTab, TLAPS

-----------------------------------------------------------------------------
(* The tables.                                                              *)

(* What the form called name of the page p may do: save without showing the outcome *)
(* early; write nothing that is awaited on the chat page; and lose its text only in *)
(* the ways the lists of OwnerTab name it for.                                      *)
Allowed(p, name, f) ==
    /\ f.saves \subseteq Operations \ Optimistic
    /\ p = "chat" => \A op \in f.saves : Writes[op] = {} \/ op \in Unawaited
    /\ f.late => name \in ClosedByOlderSave
    /\ f.hides => name \in LostToErrors
    /\ f.rows \/ f.adopts => name \in LostToAnswers
    /\ f.host \in PagedQueries => name \in LostToCorrection /\ ~f.rewinds
    /\ name \in ClearedByOwnSave \/ f.keeps \/ f.detaches \/ f.saves \subseteq f.frozenBy

LEMMA TablesOfWrites ==
    Operations = DOMAIN accountWrites \cup DOMAIN integrationWrites \cup DOMAIN videoWrites
                 \cup DOMAIN restreamWrites \cup DOMAIN alertWrites \cup DOMAIN chatWrites \cup DOMAIN Navigations
  BY DEF Operations, Writes, @@

LEMMA OpNames ==
    Operations = {"setSlug", "updateQueueCurrency", "updatePublicQueueSettings",
                  "disconnect", "connectDonateStream", "connectTourniquet",
                  "createVideoQueue", "updateVideoQueue", "moveVideo", "addVideo", "updateVideoPriority",
                  "updateVideoStatus", "retryVideoMetadata", "updateVideo",
                  "createDestination", "updateDestination", "setDestinationEnabled", "deleteDestination",
                  "rotateIngestKey",
                  "updateSettings", "rotateAlertOverlay", "test", "setPaused", "skip", "replay", "uploadAsset",
                  "deleteAsset",
                  "connectBoosty", "disconnectSource", "setSourceEnabled", "rotateChatOverlay", "refreshSource",
                  "broadcast", "searchDonations"}
  BY TablesOfWrites
  DEF accountWrites, integrationWrites, videoWrites, restreamWrites, alertWrites, chatWrites, Navigations

LEMMA PageNames ==
    DOMAIN Pages = {"videos", "settings", "integrations", "multistream", "alerts", "chat", "donations", "shared",
                    "overview", "admin", "deadLetters"}
  BY DEF Pages

LEMMA BroadcastWrites == Writes["broadcast"] = {}
  BY DEF Writes, accountWrites, integrationWrites, videoWrites, restreamWrites, alertWrites, chatWrites, @@

LEMMA VideoQueueForms ==
    \A name \in DOMAIN Pages["videos"].forms :
        Allowed("videos", name, Pages["videos"].forms[name])
<1>1. Pages["videos"].forms = VideoQueue.forms
  BY DEF Pages
<1>2. DOMAIN VideoQueue.forms = {"VideoEditor", "AddVideo", "QueueForm", "PriorityForm", "SlugEditor"}
  BY DEF VideoQueue
<1>3. Allowed("videos", "VideoEditor", VideoQueue.forms["VideoEditor"])
  <2> DEFINE f == In(VideoQueueResults, VideoEditForm(useVideoEditor))
  <2>1. VideoQueue.forms["VideoEditor"] = f
    BY DEF VideoQueue
  <2>2. /\ f.saves = {"updateVideo"} /\ f.host = "videoPage" /\ f.late = FALSE
        /\ f.rewinds = FALSE /\ f.frozenBy = CardMutations
    BY DEF Form, In, VideoQueueResults, Part, VideoEditForm, useVideoEditor
  <2> HIDE DEF f
  <2> QED
    BY <2>1, <2>2, OpNames
    DEF Allowed, Optimistic, PagedQueries, CardMutations, LostToErrors, LostToAnswers, LostToCorrection
<1>4. Allowed("videos", "AddVideo", VideoQueue.forms["AddVideo"])
  <2> DEFINE f == In(VideoQueueContent, AddVideoForm)
  <2>1. VideoQueue.forms["AddVideo"] = f
    BY DEF VideoQueue
  <2>2. /\ f.saves = {"addVideo"} /\ f.host = "videoPage" /\ f.hides = FALSE /\ f.rows = FALSE
        /\ f.adopts = FALSE /\ f.rewinds = FALSE /\ f.frozenBy = {"addVideo"}
    BY DEF Form, In, VideoQueueContent, Part, AddVideoForm, addVideo, VideoQueueHeader
  <2> HIDE DEF f
  <2> QED
    BY <2>1, <2>2, OpNames
    DEF Allowed, Optimistic, PagedQueries, ClosedByOlderSave, LostToCorrection
<1>5. Allowed("videos", "QueueForm", VideoQueue.forms["QueueForm"])
  <2> DEFINE f == QueueForm
  <2>1. VideoQueue.forms["QueueForm"] = f
    BY DEF VideoQueue
  <2>2. /\ f.saves = {"createVideoQueue", "updateVideoQueue"} /\ f.host = "videoQueues" /\ f.late = FALSE /\ f.hides = FALSE
        /\ f.rows = FALSE /\ f.adopts = FALSE /\ f.frozenBy = {"createVideoQueue", "updateVideoQueue"}
    BY DEF Form, In, QueueForm, VideoQueueControls, QueueTab, QueueFormControls, useQueueForm, Part
  <2> HIDE DEF f
  <2> QED
    BY <2>1, <2>2, OpNames
    DEF Allowed, Optimistic, PagedQueries
<1>6. Allowed("videos", "PriorityForm", VideoQueue.forms["PriorityForm"])
  <2> DEFINE f == In(VideoPriorities, PriorityForm)
  <2>1. VideoQueue.forms["PriorityForm"] = f
    BY DEF VideoQueue
  <2>2. /\ f.saves = {"updateVideoPriority"} /\ f.host = "videoPriorities" /\ f.late = FALSE
        /\ f.rows = FALSE /\ f.adopts = FALSE
    BY DEF Form, In, VideoPriorities, Part, PriorityForm, useVideoPriorityEditor
  <2> HIDE DEF f
  <2> QED
    BY <2>1, <2>2, OpNames
    DEF Allowed, Optimistic, PagedQueries, LostToErrors, ClearedByOwnSave
<1>7. Allowed("videos", "SlugEditor", VideoQueue.forms["SlugEditor"])
  <2> DEFINE f == SlugEditor
  <2>1. VideoQueue.forms["SlugEditor"] = f
    BY DEF VideoQueue
  <2>2. /\ f.saves = {"setSlug"} /\ f.host = "userInfo" /\ f.late = FALSE
        /\ f.hides = FALSE /\ f.rows = FALSE /\ f.adopts = FALSE
    BY DEF Form, In, SlugEditor, useSlugEditor, Part
  <2> HIDE DEF f
  <2> QED
    BY <2>1, <2>2, OpNames
    DEF Allowed, Optimistic, PagedQueries, ClearedByOwnSave
<1> QED
  BY <1>1, <1>2, <1>3, <1>4, <1>5, <1>6, <1>7

LEMMA SettingsForms ==
    \A name \in DOMAIN Pages["settings"].forms :
        Allowed("settings", name, Pages["settings"].forms[name])
<1>1. Pages["settings"].forms = Settings.forms
  BY DEF Pages
<1>2. DOMAIN Settings.forms = {"QueueCurrency", "PublicQueue"}
  BY DEF Settings
<1>3. Allowed("settings", "QueueCurrency", Settings.forms["QueueCurrency"])
  <2> DEFINE f == QueueCurrencyEditor
  <2>1. Settings.forms["QueueCurrency"] = f
    BY DEF Settings
  <2>2. /\ f.saves = {"updateQueueCurrency"} /\ f.host = "userInfo"
        /\ f.late = FALSE /\ f.hides = FALSE
    BY DEF Form, In, QueueCurrencyEditor, Part
  <2> HIDE DEF f
  <2> QED
    BY <2>1, <2>2, OpNames
    DEF Allowed, Optimistic, PagedQueries, LostToAnswers, ClearedByOwnSave
<1>4. Allowed("settings", "PublicQueue", Settings.forms["PublicQueue"])
  <2> DEFINE f == PublicQueueSettingsEditor
  <2>1. Settings.forms["PublicQueue"] = f
    BY DEF Settings
  <2>2. /\ f.saves = {"updatePublicQueueSettings"} /\ f.host = "userInfo" /\ f.late = FALSE
        /\ f.hides = FALSE /\ f.rows = FALSE /\ f.adopts = FALSE
    BY DEF Form, In, PublicQueueSettingsEditor, Part
  <2> HIDE DEF f
  <2> QED
    BY <2>1, <2>2, OpNames
    DEF Allowed, Optimistic, PagedQueries, ClearedByOwnSave
<1> QED
  BY <1>1, <1>2, <1>3, <1>4

LEMMA IntegrationsForms ==
    \A name \in DOMAIN Pages["integrations"].forms :
        Allowed("integrations", name, Pages["integrations"].forms[name])
<1>1. Pages["integrations"].forms = Integrations.forms
  BY DEF Pages
<1>2. DOMAIN Integrations.forms = {"DonateStream", "Tourniquet"}
  BY DEF Integrations
<1>3. Allowed("integrations", "DonateStream", Integrations.forms["DonateStream"])
  <2> DEFINE f == DonateStreamConnectionForm
  <2>1. Integrations.forms["DonateStream"] = f
    BY DEF Integrations
  <2>2. /\ f.saves = {"connectDonateStream"} /\ f.host = "userInfo" /\ f.late = FALSE /\ f.hides = FALSE
        /\ f.rows = FALSE /\ f.adopts = FALSE /\ f.detaches = TRUE
    BY DEF Form, In, DonateStreamConnectionForm, WidgetConnectionForm, Part
  <2> HIDE DEF f
  <2> QED
    BY <2>1, <2>2, OpNames
    DEF Allowed, Optimistic, PagedQueries
<1>4. Allowed("integrations", "Tourniquet", Integrations.forms["Tourniquet"])
  <2> DEFINE f == TourniquetConnectionForm
  <2>1. Integrations.forms["Tourniquet"] = f
    BY DEF Integrations
  <2>2. /\ f.saves = {"connectTourniquet"} /\ f.host = "userInfo" /\ f.late = FALSE /\ f.hides = FALSE
        /\ f.rows = FALSE /\ f.adopts = FALSE /\ f.detaches = TRUE
    BY DEF Form, In, TourniquetConnectionForm, WidgetConnectionForm, Part
  <2> HIDE DEF f
  <2> QED
    BY <2>1, <2>2, OpNames
    DEF Allowed, Optimistic, PagedQueries
<1> QED
  BY <1>1, <1>2, <1>3, <1>4

LEMMA MultistreamPageForms ==
    \A name \in DOMAIN Pages["multistream"].forms :
        Allowed("multistream", name, Pages["multistream"].forms[name])
<1>1. Pages["multistream"].forms = MultistreamPage.forms
  BY DEF Pages
<1>2. DOMAIN MultistreamPage.forms = {"Destination"}
  BY DEF MultistreamPage
<1>3. Allowed("multistream", "Destination", MultistreamPage.forms["Destination"])
  <2> DEFINE f == In(Part("restreamConfig", TRUE, FALSE), DestinationList)
  <2>1. MultistreamPage.forms["Destination"] = f
    BY DEF MultistreamPage
  <2>2. /\ f.saves = {"createDestination", "updateDestination"} /\ f.host = "restreamConfig"
        /\ f.rows = FALSE /\ f.adopts = FALSE
    BY DEF Form, In, Part, DestinationList, DestinationForm
  <2> HIDE DEF f
  <2> QED
    BY <2>1, <2>2, OpNames
    DEF Allowed, Optimistic, PagedQueries, ClosedByOlderSave, LostToErrors, ClearedByOwnSave
<1> QED
  BY <1>1, <1>2, <1>3

LEMMA AlertsPageForms ==
    \A name \in DOMAIN Pages["alerts"].forms :
        Allowed("alerts", name, Pages["alerts"].forms[name])
<1>1. Pages["alerts"].forms = AlertsPage.forms
  BY DEF Pages
<1>2. DOMAIN AlertsPage.forms = {"AlertEditor"}
  BY DEF AlertsPage
<1>3. Allowed("alerts", "AlertEditor", AlertsPage.forms["AlertEditor"])
  <2> DEFINE f == In(Part("alertDashboard", FALSE, FALSE), useAlertEditor)
  <2>1. AlertsPage.forms["AlertEditor"] = f
    BY DEF AlertsPage
  <2>2. /\ f.saves = {"updateSettings"} /\ f.host = "alertDashboard" /\ f.late = FALSE
        /\ f.hides = FALSE /\ f.rows = FALSE /\ f.adopts = FALSE
    BY DEF Form, In, Part, useAlertEditor
  <2> HIDE DEF f
  <2> QED
    BY <2>1, <2>2, OpNames
    DEF Allowed, Optimistic, PagedQueries, ClearedByOwnSave
<1> QED
  BY <1>1, <1>2, <1>3

LEMMA ChatPageForms ==
    \A name \in DOMAIN Pages["chat"].forms :
        Allowed("chat", name, Pages["chat"].forms[name])
<1>1. Pages["chat"].forms = ChatPage.forms
  BY DEF Pages
<1>2. DOMAIN ChatPage.forms = {"Composer", "Boosty"}
  BY DEF ChatPage
<1>3. Allowed("chat", "Composer", ChatPage.forms["Composer"])
  <2> DEFINE f == In(Part("chatConfig", FALSE, FALSE), ChatComposer)
  <2>1. ChatPage.forms["Composer"] = f
    BY DEF ChatPage
  <2>2. /\ f.saves = {"broadcast"} /\ f.host = "chatConfig" /\ f.late = FALSE /\ f.hides = FALSE
        /\ f.rows = FALSE /\ f.adopts = FALSE /\ f.keeps = TRUE
    BY DEF Form, In, Part, ChatComposer, useChatPageModel
  <2> HIDE DEF f
  <2> QED
    BY <2>1, <2>2, OpNames, BroadcastWrites
    DEF Allowed, Optimistic, PagedQueries, Unawaited
<1>4. Allowed("chat", "Boosty", ChatPage.forms["Boosty"])
  <2> DEFINE f == In(Part("chatConfig", FALSE, FALSE), BoostyConnectionForm)
  <2>1. ChatPage.forms["Boosty"] = f
    BY DEF ChatPage
  <2>2. /\ f.saves = {"connectBoosty"} /\ f.host = "chatConfig" /\ f.late = FALSE /\ f.hides = FALSE
        /\ f.rows = FALSE /\ f.adopts = FALSE /\ f.frozenBy = {"connectBoosty"}
    BY DEF Form, In, Part, BoostyConnectionForm
  <2> HIDE DEF f
  <2> QED
    BY <2>1, <2>2, OpNames
    DEF Allowed, Optimistic, PagedQueries, Unawaited
<1> QED
  BY <1>1, <1>2, <1>3, <1>4

LEMMA DonationsIndexForms ==
    \A name \in DOMAIN Pages["donations"].forms :
        Allowed("donations", name, Pages["donations"].forms[name])
<1>1. Pages["donations"].forms = DonationsIndex.forms
  BY DEF Pages
<1>2. DOMAIN DonationsIndex.forms = {"Search"}
  BY DEF DonationsIndex
<1>3. Allowed("donations", "Search", DonationsIndex.forms["Search"])
  <2> DEFINE f == [Form({"searchDonations"}) EXCEPT !.leave = FALSE, !.shared = TRUE, !.rewinds = TRUE]
  <2>1. DonationsIndex.forms["Search"] = f
    BY DEF DonationsIndex
  <2>2. /\ f.saves = {"searchDonations"} /\ f.host = "none" /\ f.late = FALSE
        /\ f.hides = FALSE /\ f.rows = FALSE /\ f.adopts = FALSE
    BY DEF Form
  <2> HIDE DEF f
  <2> QED
    BY <2>1, <2>2, OpNames
    DEF Allowed, Optimistic, PagedQueries, ClearedByOwnSave
<1> QED
  BY <1>1, <1>2, <1>3

(* Every query that a mutation of the first table changes is one the second invalidates. *)
Covered(changes, hooks) ==
    DOMAIN changes = DOMAIN hooks /\ \A op \in DOMAIN changes : changes[op] \subseteq hooks[op]

LEMMA MergedTwice == ASSUME NEW f, NEW g, NEW h PROVE (f @@ g) @@ h = f @@ (g @@ h)
  BY DEF @@

LEMMA CoveredTogether ==
    ASSUME NEW f, NEW g, NEW h, NEW k, Covered(f, h), Covered(g, k)
    PROVE  Covered(f @@ g, h @@ k)
  BY DEF Covered, @@

\* Every hook invalidates at least the queries whose answers its mutation changes.
LEMMA InvalidatesAll == \A op \in Operations : Writes[op] \subseteq Invalidates[op]
<1>1. Covered(accountWrites @@ integrationWrites, accountHooks)
  BY DEF Covered, accountWrites, integrationWrites, accountHooks, @@
<1>2. Covered(videoWrites, useVideoQueueMutations @@ videoHooks)
  BY DEF Covered, videoWrites, useVideoQueueMutations, videoHooks, @@
<1>3. Covered(restreamWrites, useRestreamMutations)
  BY DEF Covered, restreamWrites, useRestreamMutations
<1>4. Covered(alertWrites, useAlertMutations)
  BY DEF Covered, alertWrites, useAlertMutations
<1>5. Covered(chatWrites, useChatServiceMutations)
  BY DEF Covered, chatWrites, useChatServiceMutations
<1>6. Covered(Navigations, Navigations)
  BY DEF Covered
<1>7. Invalidates = accountHooks @@ (useVideoQueueMutations @@ videoHooks) @@ useRestreamMutations @@ useAlertMutations
                    @@ useChatServiceMutations @@ Navigations
  BY MergedTwice DEF Invalidates
<1>8. Covered(Writes, Invalidates)
  BY <1>1, <1>2, <1>3, <1>4, <1>5, <1>6, <1>7, CoveredTogether DEF Writes
<1> QED
  BY <1>8 DEF Covered, Operations

(* What a button of the page p may send: only chat shows an outcome early. *)
Pressable(p, button) ==
    /\ button.op \in Operations \ DOMAIN Navigations
    /\ button.op \in Optimistic => p = "chat" /\ button.host = "chatConfig"

LEMMA ButtonOps == ASSUME NEW ops, NEW blockedBy, NEW b \in Buttons(ops, blockedBy) PROVE b.op \in ops
  BY DEF Buttons

LEMMA PlacedButtons == ASSUME NEW part, NEW buttons, NEW b \in On(part, buttons)
                       PROVE  b.host = part.host /\ \E button \in buttons : b.op = button.op
  BY DEF On

LEMMA PageButtons == \A p \in DOMAIN Pages : \A b \in Pages[p].buttons : Pressable(p, b)
<1>1. \A b \in VideoQueue.buttons : b.op \in CardMutations
  <2>1. VideoQueue.buttons = On(VideoQueueResults, VideoCard \cup MoveControl)
    BY DEF VideoQueue
  <2> QED
    BY <2>1, PlacedButtons, ButtonOps DEF VideoCard, MoveControl, VideoStatusControls, VideoMetadataStatus, CardMutations
<1>2. \A b \in Integrations.buttons : b.op = "disconnect"
  <2>1. Integrations.buttons = On(Part("userInfo", FALSE, FALSE), DonationConnectionAction \cup WidgetIntegrationCard)
    BY DEF Integrations
  <2>2. \A button \in DonationConnectionAction \cup WidgetIntegrationCard : button.op = "disconnect"
    BY DEF DonationConnectionAction, WidgetIntegrationCard, Buttons
  <2> QED
    BY <2>1, <2>2, PlacedButtons DEF Part
<1>3. \A b \in MultistreamPage.buttons : b.op \in {"rotateIngestKey", "deleteDestination", "setDestinationEnabled"}
  <2>1. MultistreamPage.buttons = On(Part("restreamConfig", TRUE, FALSE), IngestSetup \cup DestinationRowActions)
    BY DEF MultistreamPage
  <2>2. \A button \in IngestSetup \cup DestinationRowActions :
          button.op \in {"rotateIngestKey", "deleteDestination", "setDestinationEnabled"}
    BY DEF IngestSetup, GenerateIngestKeyButton, RotateIngestKeyButton, DestinationRowActions, Buttons
  <2> QED
    BY <2>1, <2>2, PlacedButtons DEF Part
<1>4. \A b \in AlertsPage.buttons :
        b.op \in {"setPaused", "test", "rotateAlertOverlay", "skip", "replay", "uploadAsset", "deleteAsset"}
  <2>1. AlertsPage.buttons = On(Part("alertDashboard", FALSE, FALSE),
                                AlertsHeader \cup OverlayButtons \cup PlaybackPanels \cup AssetControl)
    BY DEF AlertsPage
  <2>2. \A button \in AlertsHeader \cup OverlayButtons \cup PlaybackPanels \cup AssetControl :
          button.op \in {"setPaused", "test", "rotateAlertOverlay", "skip", "replay", "uploadAsset", "deleteAsset"}
    BY DEF AlertsHeader, OverlayButtons, PlaybackPanels, AssetControl, useOverlayAccess, uploadAlertAsset, Buttons
  <2> QED
    BY <2>1, <2>2, PlacedButtons DEF Part
<1>5. \A b \in ChatPage.buttons :
        /\ b.op \in {"refreshSource", "setSourceEnabled", "disconnectSource", "rotateChatOverlay"}
        /\ b.host = "chatConfig"
  <2>1. ChatPage.buttons = On(Part("chatConfig", FALSE, FALSE), ConnectionActions \cup DisconnectDialog \cup OverlayFooter)
    BY DEF ChatPage
  <2> QED
    BY <2>1, PlacedButtons, ButtonOps DEF ConnectionActions, DisconnectDialog, OverlayFooter, Part
<1>6. \A p \in {"settings", "donations", "shared", "overview", "admin", "deadLetters"} : Pages[p].buttons = {}
  BY DEF Pages, Settings, DonationsIndex, SharedVideoQueue, Overview, AdminOverviewPage, DeadLettersPage
<1>7. /\ Pages["videos"] = VideoQueue /\ Pages["integrations"] = Integrations /\ Pages["multistream"] = MultistreamPage
      /\ Pages["alerts"] = AlertsPage /\ Pages["chat"] = ChatPage
  BY DEF Pages
<1>8. DOMAIN Navigations = {"searchDonations"}
  BY DEF Navigations
<1> QED
  BY <1>1, <1>2, <1>3, <1>4, <1>5, <1>6, <1>7, <1>8, PageNames, OpNames DEF Pressable, Optimistic, CardMutations

LEMMA PageForms == \A p \in DOMAIN Pages : \A name \in DOMAIN Pages[p].forms : Allowed(p, name, Pages[p].forms[name])
<1>1. \A p \in {"shared", "overview", "admin", "deadLetters"} : DOMAIN Pages[p].forms = {}
  BY DEF Pages, SharedVideoQueue, Overview, AdminOverviewPage, DeadLettersPage
<1> QED
  BY <1>1, PageNames, VideoQueueForms, SettingsForms, IntegrationsForms, MultistreamPageForms, AlertsPageForms, ChatPageForms,
     DonationsIndexForms

LEMMA NoForm == \A p : Allowed(p, "none", Form({}))
  BY DEF Allowed, Form, PagedQueries

LEMMA ChatQueries == Pages["chat"].queries = {"chatConfig"} /\ "chatConfig" \notin PagedQueries
  BY DEF Pages, ChatPage, PagedQueries

-----------------------------------------------------------------------------
(* The cache and the mutations.                                             *)

Entry    == [answer: Answer, failed: BOOLEAN, fetch: {"none", "asked", "read"}, reply: Answer]
Mutation == [op: Operations \cup {"none"}, at: {"idle", "sent", "applied", "refetching", "settling"},
             wrote: 0..MaxEvents + 1, key: Numbers, mine: BOOLEAN, before: Answer]

(* Fetches are started, joined, stopped or broken, and answers dropped; none arrives. *)
Quieter(c, d) ==
    /\ d \in [Numbers -> Entry]
    /\ \A n \in Numbers : /\ d[n].answer \in {c[n].answer, NoAnswer}
                          /\ d[n].fetch = "read" => c[n].fetch = "read" /\ d[n].reply = c[n].reply

(* The same mutations, seen by the same forms or by fewer. *)
SameBut(m, w) ==
    /\ w \in [Senders -> Mutation]
    /\ \A s \in Senders : /\ w[s].op = m[s].op /\ w[s].at = m[s].at /\ w[s].wrote = m[s].wrote
                          /\ w[s].key = m[s].key /\ w[s].before = m[s].before
                          /\ w[s].mine => m[s].mine

LEMMA NoAnswers == NoAnswer \in Answer /\ NotLoaded \in Entry /\ Idle \in Mutation
  BY MaxEventsAssumption DEF NoAnswer, Answer, NotLoaded, Entry, Idle, Mutation, Numbers

LEMMA AskedEntry == ASSUME NEW e \in Entry
                    PROVE  Asked(e) \in Entry /\ Asked(e).answer = e.answer /\ Asked(e).fetch = "asked" /\ Asked(e).failed = e.failed
  BY NoAnswers DEF Asked, Entry

LEMMA MountedQuiet ==
    ASSUME NEW c \in [Numbers -> Entry], NEW n \in Numbers
    PROVE  /\ Quieter(c, Mounted(n, c))
           /\ \A i \in Numbers : Mounted(n, c)[i].answer = c[i].answer /\ Mounted(n, c)[i].failed = c[i].failed
  BY AskedEntry DEF Mounted, Quieter, Entry

LEMMA ForgottenSame == ASSUME NEW m \in [Senders -> Mutation] PROVE SameBut(m, Forgotten(m)) /\ ~Forgotten(m)["form"].mine
  BY DEF SameBut, Forgotten, Mutation, Senders

LEMMA SameSame == ASSUME NEW m \in [Senders -> Mutation] PROVE SameBut(m, m)
  BY DEF SameBut

(* The mutations w go on where m waited for the page n. *)
GoesOn(m, n, w) ==
    /\ w \in [Senders -> Mutation]
    /\ \A s \in Senders :
         /\ w[s].op = m[s].op /\ w[s].key = m[s].key /\ w[s].before = m[s].before /\ w[s].mine = m[s].mine
         /\ IF m[s].at = "refetching" /\ m[s].key = n
            THEN w[s].at = "settling" /\ w[s].wrote \in {m[s].wrote, 0}
            ELSE w[s].at = m[s].at /\ w[s].wrote = m[s].wrote

LEMMA ResumedGoesOn ==
    ASSUME mutation \in [Senders -> Mutation], NEW n \in Numbers, NEW w,
           w = Resumed(n, TRUE) \/ w = Resumed(n, FALSE)
    PROVE  /\ GoesOn(mutation, n, w)
           /\ w = Resumed(n, FALSE) =>
                \A s \in Senders : mutation[s].at = "refetching" /\ mutation[s].key = n => w[s].wrote = 0
<1>1. 0 \in 0..MaxEvents + 1
  BY MaxEventsAssumption
<1>2. \A m \in Mutation : /\ [m EXCEPT !.at = "settling", !.wrote = 0] \in Mutation
                          /\ [m EXCEPT !.at = "settling", !.wrote = m.wrote] \in Mutation
  BY <1>1 DEF Mutation
<1>3. CASE w = Resumed(n, TRUE)
  <2>1. w = [s \in Senders |-> IF mutation[s].at = "refetching" /\ mutation[s].key = n
                               THEN [mutation[s] EXCEPT !.at = "settling", !.wrote = @] ELSE mutation[s]]
    BY <1>3 DEF Resumed
  <2>2. GoesOn(mutation, n, w)
    BY <1>2, <2>1 DEF GoesOn, Mutation
  <2>3. w = Resumed(n, FALSE) => \A s \in Senders : mutation[s].at = "refetching" /\ mutation[s].key = n => w[s].wrote = 0
    <3> SUFFICES ASSUME w = Resumed(n, FALSE) PROVE \A s \in Senders : mutation[s].at = "refetching" /\ mutation[s].key = n => w[s].wrote = 0
      OBVIOUS
    <3>1. w = [s \in Senders |-> IF mutation[s].at = "refetching" /\ mutation[s].key = n
                                 THEN [mutation[s] EXCEPT !.at = "settling", !.wrote = 0] ELSE mutation[s]]
      BY DEF Resumed
    <3> QED
      BY <3>1 DEF Mutation
  <2> QED
    BY <2>2, <2>3
<1>4. CASE w = Resumed(n, FALSE)
  <2>1. w = [s \in Senders |-> IF mutation[s].at = "refetching" /\ mutation[s].key = n
                               THEN [mutation[s] EXCEPT !.at = "settling", !.wrote = 0] ELSE mutation[s]]
    BY <1>4 DEF Resumed
  <2>2. GoesOn(mutation, n, w)
    BY <1>2, <2>1 DEF GoesOn, Mutation
  <2> QED
    BY <2>1, <2>2 DEF Mutation
<1> QED
  BY <1>3, <1>4

LEMMA RerenderKinds ==
    ASSUME NEW t, NEW m \in [Senders -> Mutation], Rerender(t, m)
    PROVE  text' \in {t, "clean"} /\ SameBut(m, mutation')
  BY ForgottenSame, SameSame DEF Rerender

-----------------------------------------------------------------------------
(* The invariant.                                                           *)

Real(v) == [version: 1..v, page: Numbers]
Sent(s) == IF mutation[s].at = "sent" THEN 1 ELSE 0

PlaceKinds ==
    /\ place.page \in DOMAIN Pages /\ query \in page.queries /\ place.form \in DOMAIN page.forms \cup {"none"}
    /\ url \in Numbers /\ (url = 1 \/ paged)
    /\ text \in {"clean", "typed", "sent"}

(* Every mutation that was sent, and every change that is still to come, has its version. *)
Counts ==
    /\ server \in [version: 1..MaxEvents + 1, pages: Numbers]
    /\ left \in 0..MaxEvents
    /\ server.version + left + Sent("button") + Sent("form") <= MaxEvents + 1
    /\ owed \in [Numbers -> 0..MaxEvents + 1]
    /\ \A n \in Numbers : owed[n] <= server.version

CacheKinds ==
    /\ cache \in [Numbers -> Entry]
    /\ \A n \in Numbers : /\ cache[n].answer \in Real(server.version) \cup {NoAnswer}
                          /\ cache[n].fetch = "read" => cache[n].reply \in Real(server.version)

MutationKinds ==
    /\ mutation \in [Senders -> Mutation]
    /\ \A s \in Senders : /\ mutation[s].wrote <= server.version
                          /\ mutation[s].at # "idle" => mutation[s].op \in Operations
    /\ mutation["button"].before \in Real(server.version) \cup {NoAnswer}
    /\ mutation["form"].at # "idle" => mutation["form"].op \in fm.saves

(* An answer, shown or on its way, is not older than a version. *)
Meets(entry, v) ==
    /\ entry.answer # NoAnswer => entry.answer.version >= v
    /\ entry.fetch = "read" => entry.reply.version >= v

(* A promise that is owed is kept; one that will be made when a mutation settles can be *)
(* kept by whatever the fetch it waits for brings.                                      *)
Promises ==
    /\ \A n \in Numbers : Meets(cache[n], owed[n])
    /\ \A s \in Senders :
         LET m == mutation[s] IN
         /\ m.at = "applied" /\ m.wrote # 0 => query \in Writes[m.op]
         /\ m.at = "refetching" /\ cache[m.key].fetch = "read" => cache[m.key].reply.version >= m.wrote
         /\ m.at = "settling" => Meets(cache[m.key], m.wrote)

(* The one mutation that is taken back puts back an answer that is not older than what  *)
(* is owed: nothing else on its page makes a promise meanwhile.                         *)
TakesBack ==
    /\ LET m == mutation["button"] IN
       m.at \in {"sent", "applied"} /\ m.op \in Optimistic =>
          place.page = "chat" /\ m.before # NoAnswer /\ m.before.version >= owed[1]
    /\ place.page = "chat" /\ mutation["form"].at \in {"refetching", "settling"} => mutation["form"].wrote = 0

(* A form with text in it is on screen, and is not typed in while its save is pending. *)
TextKept ==
    /\ text # "clean" => Shown(fm)
    /\ mutation["form"].at # "idle" /\ mutation["form"].mine /\ text = "typed" =>
          place.form \in ClearedByOwnSave \/ fm.keeps

IInv == PlaceKinds /\ Counts /\ CacheKinds /\ MutationKinds /\ Promises /\ TakesBack /\ TextKept

LEMMA KindsAreTypes == IInv => TypeOK
  BY DEF IInv, PlaceKinds, Counts, CacheKinds, MutationKinds, TypeOK, Entry, Mutation

LEMMA HereAllowed ==
    ASSUME PlaceKinds
    PROVE  /\ Allowed(place.page, place.form, fm)
           /\ \A button \in page.buttons : Pressable(place.page, button)
           /\ place.page = "chat" => query = "chatConfig" /\ ~paged /\ url = 1
<1>1. Allowed(place.page, place.form, fm)
  BY PageForms, NoForm DEF PlaceKinds, fm, page
<1>2. \A button \in page.buttons : Pressable(place.page, button)
  BY PageButtons DEF PlaceKinds, page
<1> QED
  BY <1>1, <1>2, ChatQueries DEF PlaceKinds, page, paged

LEMMA SamePlace == ASSUME UNCHANGED place
                   PROVE  UNCHANGED <<page, query, fm>> /\ (paged' <=> paged)
  BY DEF page, query, fm, paged

LEMMA Later == ASSUME NEW v \in Nat, NEW w \in Nat, v <= w PROVE Real(v) \subseteq Real(w)
  BY DEF Real

\* Versions only grow, so nothing that was real stops being so.
LEMMA QuietKeeps ==
    ASSUME IInv, UNCHANGED <<place, owed>>, server' \in [version: 1..MaxEvents + 1, pages: Numbers],
           server'.version >= server.version, Quieter(cache, cache')
    PROVE  /\ CacheKinds'
           /\ \A n \in Numbers : Meets(cache[n], owed[n])'
           /\ \A n \in Numbers, v \in Nat : Meets(cache[n], v) => Meets(cache'[n], v)
<1>1. server.version \in Nat /\ server'.version \in Nat
  BY DEF IInv, Counts
<1>2. Real(server.version) \subseteq Real(server'.version)
  BY <1>1, Later
<1>3. CacheKinds'
  BY <1>2 DEF IInv, CacheKinds, Quieter
<1>4. \A n \in Numbers, v \in Nat : Meets(cache[n], v) => Meets(cache'[n], v)
  BY DEF Quieter, Meets
<1>5. \A n \in Numbers : owed[n] \in Nat
  BY MaxEventsAssumption DEF IInv, Counts
<1>6. \A n \in Numbers : Meets(cache[n], owed[n])'
  BY <1>4, <1>5 DEF IInv, Promises, Meets
<1> QED
  BY <1>3, <1>4, <1>6

LEMMA SameKeeps ==
    ASSUME IInv, UNCHANGED <<place, owed>>, server' \in [version: 1..MaxEvents + 1, pages: Numbers],
           server'.version >= server.version, Quieter(cache, cache'), SameBut(mutation, mutation')
    PROVE  CacheKinds' /\ MutationKinds' /\ Promises' /\ TakesBack' /\ UNCHANGED <<Sent("button"), Sent("form")>>
<1>1. server.version \in Nat /\ server'.version \in Nat /\ Real(server.version) \subseteq Real(server'.version)
  BY Later DEF IInv, Counts
<1>2. \A s \in Senders : mutation[s] \in Mutation /\ mutation[s].wrote \in Nat /\ mutation[s].key \in Numbers
  BY MaxEventsAssumption DEF IInv, MutationKinds, Mutation
<1>3. MutationKinds'
  BY <1>1, <1>2, SamePlace DEF IInv, MutationKinds, SameBut, Senders
<1>4. ASSUME NEW s \in Senders
      PROVE  LET m == mutation'[s] IN
             /\ m.at = "applied" /\ m.wrote # 0 => query \in Writes[m.op]
             /\ m.at = "refetching" /\ cache'[m.key].fetch = "read" => cache'[m.key].reply.version >= m.wrote
             /\ m.at = "settling" => Meets(cache'[m.key], m.wrote)
  BY <1>2, QuietKeeps DEF IInv, Promises, SameBut, Quieter
<1>5. Promises'
  BY <1>4, QuietKeeps, SamePlace DEF Promises, Meets
<1>6. TakesBack' /\ UNCHANGED <<Sent("button"), Sent("form")>>
  BY SamePlace DEF IInv, TakesBack, SameBut, Sent, Senders
<1> QED
  BY <1>3, <1>5, <1>6, QuietKeeps

LEMMA TextStaysKept ==
    ASSUME IInv, UNCHANGED <<place, url>>, text' \in {text, "clean"},
           cache[url].answer # NoAnswer => cache'[url].answer # NoAnswer,
           cache'[url].failed => cache[url].failed,
           mutation'["form"].at # "idle" /\ mutation'["form"].mine => mutation["form"].at # "idle" /\ mutation["form"].mine
    PROVE  TextKept'
  BY SamePlace DEF IInv, TextKept, Shown, Renders

LEMMA RerenderedKept ==
    ASSUME IInv, UNCHANGED place, NEW m \in [Senders -> Mutation], Rerender(text, m),
           m["form"].at # "idle" /\ m["form"].mine => mutation["form"].at # "idle" /\ mutation["form"].mine
    PROVE  TextKept'
<1>1. text' # "clean" => Shown(fm)'
  BY SamePlace DEF Rerender, Shown, Renders
<1>2. text' \in {text, "clean"} /\ SameBut(m, mutation')
  BY RerenderKinds
<1> QED
  BY <1>1, <1>2, SamePlace DEF IInv, TextKept, SameBut, Senders

LEMMA CountsKept ==
    ASSUME IInv, UNCHANGED <<server, owed, Sent("button"), Sent("form")>>, Spends \/ left' = left
    PROVE  Counts' /\ server' \in [version: 1..MaxEvents + 1, pages: Numbers] /\ server'.version >= server.version
<1>1. left' \in 0..MaxEvents /\ left' <= left
  BY MaxEventsAssumption DEF IInv, Counts, Spends
<1>2. Sent("button") \in 0..1 /\ Sent("form") \in 0..1
  BY DEF Sent
<1> QED
  BY <1>1, <1>2, MaxEventsAssumption DEF IInv, Counts

LEMMA QuietItself == ASSUME IInv PROVE Quieter(cache, cache)
  BY DEF IInv, CacheKinds, Quieter

LEMMA AskedQuiet == ASSUME IInv, NEW n \in Numbers PROVE Quieter(cache, [cache EXCEPT ![n] = Asked(@)])
<1>1. cache[n] \in Entry
  BY DEF IInv, CacheKinds
<1> QED
  BY <1>1, AskedEntry DEF IInv, CacheKinds, Quieter

-----------------------------------------------------------------------------
(* The actions that leave every mutation where it is.                       *)

LEMMA TypeKeeps == IInv /\ Type => IInv'
<1> SUFFICES ASSUME IInv, Type PROVE IInv'
  OBVIOUS
<1> USE DEF IInv
<1>0. mutation \in [Senders -> Mutation]
  BY DEF MutationKinds
<1>1. SameBut(mutation, mutation') /\ (fm.detaches => ~mutation'["form"].mine)
  BY <1>0, ForgottenSame, SameSame DEF Type
<1>2. UNCHANGED <<Sent("button"), Sent("form")>>
  BY <1>1 DEF SameBut, Sent, Senders
<1>3. Counts' /\ server' \in [version: 1..MaxEvents + 1, pages: Numbers] /\ server'.version >= server.version
  BY <1>2, CountsKept DEF Type
<1>4. CacheKinds' /\ MutationKinds' /\ Promises' /\ TakesBack'
  BY <1>1, <1>3, QuietItself, SameKeeps DEF Type
<1>5. PlaceKinds'
  BY SamePlace DEF PlaceKinds, Type
<1>6. TextKept'
  <2>1. Shown(fm)'
    BY SamePlace DEF Type, Shown, Renders
  <2>2. ASSUME mutation'["form"].at # "idle", mutation'["form"].mine
        PROVE  place.form \in ClearedByOwnSave \/ fm.keeps
    <3>1. mutation["form"].at # "idle" /\ mutation["form"].mine /\ mutation["form"].op \in fm.saves
      BY <1>1, <2>2 DEF SameBut, Senders, MutationKinds
    <3>2. mutation["form"].op \notin fm.frozenBy
      BY <3>1 DEF Type, Pending, Senders
    <3> QED
      BY <1>1, <2>2, <3>1, <3>2, HereAllowed DEF Allowed
  <2> QED
    BY <2>1, <2>2, SamePlace DEF TextKept, Type
<1> QED
  BY <1>3, <1>4, <1>5, <1>6

LEMMA LeaveKeeps == IInv /\ Leave => IInv'
<1> SUFFICES ASSUME IInv, Leave PROVE IInv'
  OBVIOUS
<1> USE DEF IInv
<1>1. SameBut(mutation, mutation')
  BY ForgottenSame DEF Leave, MutationKinds
<1>2. UNCHANGED <<Sent("button"), Sent("form")>>
  BY <1>1 DEF SameBut, Sent, Senders
<1>3. Counts' /\ server' \in [version: 1..MaxEvents + 1, pages: Numbers] /\ server'.version >= server.version
  BY <1>2, CountsKept DEF Leave
<1>4. CacheKinds' /\ MutationKinds' /\ Promises' /\ TakesBack'
  BY <1>1, <1>3, QuietItself, SameKeeps DEF Leave
<1>5. PlaceKinds'
  BY SamePlace DEF PlaceKinds, Leave
<1>6. TextKept'
  BY <1>1, TextStaysKept DEF Leave, SameBut, Senders
<1> QED
  BY <1>3, <1>4, <1>5, <1>6

LEMMA TurnKeeps == IInv /\ Turn => IInv'
<1> SUFFICES ASSUME IInv, Turn PROVE IInv'
  OBVIOUS
<1> USE DEF IInv
<1>0. mutation \in [Senders -> Mutation] /\ cache \in [Numbers -> Entry] /\ url' \in Numbers
  BY DEF MutationKinds, CacheKinds, Turn
<1>1. SameBut(mutation, mutation') /\ text' \in {text, "clean"}
  BY <1>0, RerenderKinds DEF Turn
<1>2. UNCHANGED <<Sent("button"), Sent("form")>>
  BY <1>1 DEF SameBut, Sent, Senders
<1>3. Counts' /\ server' \in [version: 1..MaxEvents + 1, pages: Numbers] /\ server'.version >= server.version
  BY <1>2, CountsKept DEF Turn
<1>4. CacheKinds' /\ MutationKinds' /\ Promises' /\ TakesBack'
  BY <1>0, <1>1, <1>3, MountedQuiet, SameKeeps DEF Turn
<1>5. PlaceKinds'
  BY <1>0, <1>1, SamePlace DEF PlaceKinds, Turn, PagePagination
<1>6. TextKept'
  BY <1>0, RerenderedKept DEF Turn
<1> QED
  BY <1>3, <1>4, <1>5, <1>6

LEMMA CorrectsKeeps == IInv /\ Corrects => IInv'
<1> SUFFICES ASSUME IInv, Corrects PROVE IInv'
  OBVIOUS
<1> USE DEF IInv
<1>0. mutation \in [Senders -> Mutation] /\ cache \in [Numbers -> Entry] /\ url' \in Numbers
  <2>1. cache[url].answer \in Real(server.version)
    BY DEF CacheKinds, PlaceKinds, Corrects, Loaded, NoAnswer
  <2> QED
    BY <2>1 DEF MutationKinds, CacheKinds, Corrects, Real
<1>1. SameBut(mutation, mutation') /\ text' \in {text, "clean"}
  BY <1>0, RerenderKinds DEF Corrects
<1>2. UNCHANGED <<Sent("button"), Sent("form")>>
  BY <1>1 DEF SameBut, Sent, Senders
<1>3. Counts' /\ server' \in [version: 1..MaxEvents + 1, pages: Numbers] /\ server'.version >= server.version
  BY <1>2, CountsKept DEF Corrects
<1>4. CacheKinds' /\ MutationKinds' /\ Promises' /\ TakesBack'
  BY <1>0, <1>1, <1>3, MountedQuiet, SameKeeps DEF Corrects
<1>5. PlaceKinds'
  BY <1>0, <1>1, SamePlace DEF PlaceKinds, Corrects
<1>6. TextKept'
  BY <1>0, RerenderedKept DEF Corrects
<1> QED
  BY <1>3, <1>4, <1>5, <1>6

LEMMA AsksKeeps == IInv /\ Asks => IInv'
<1> SUFFICES ASSUME IInv, Asks PROVE IInv'
  OBVIOUS
<1> USE DEF IInv
<1>0. mutation \in [Senders -> Mutation] /\ cache \in [Numbers -> Entry] /\ url \in Numbers
  BY DEF MutationKinds, CacheKinds, PlaceKinds
<1>1. SameBut(mutation, mutation') /\ Quieter(cache, cache')
  BY <1>0, SameSame, AskedQuiet DEF Asks
<1>2. UNCHANGED <<Sent("button"), Sent("form")>>
  BY DEF Sent, Asks
<1>3. Counts' /\ server' \in [version: 1..MaxEvents + 1, pages: Numbers] /\ server'.version >= server.version
  BY <1>2, CountsKept DEF Asks
<1>4. CacheKinds' /\ MutationKinds' /\ Promises' /\ TakesBack'
  BY <1>1, <1>3, SameKeeps DEF Asks
<1>5. PlaceKinds'
  BY SamePlace DEF PlaceKinds, Asks
<1>6. TextKept'
  <2>1. cache'[url].answer = cache[url].answer /\ cache'[url].failed = cache[url].failed
    BY <1>0, AskedEntry DEF Asks
  <2> QED
    BY <2>1, TextStaysKept DEF Asks
<1> QED
  BY <1>3, <1>4, <1>5, <1>6

LEMMA CollectedKeeps == ASSUME NEW n \in Numbers PROVE IInv /\ Collected(n) => IInv'
<1> SUFFICES ASSUME IInv, Collected(n) PROVE IInv'
  OBVIOUS
<1> USE DEF IInv
<1>0. mutation \in [Senders -> Mutation] /\ cache \in [Numbers -> Entry] /\ url \in Numbers
  BY DEF MutationKinds, CacheKinds, PlaceKinds
<1>1. SameBut(mutation, mutation')
  BY <1>0, SameSame DEF Collected
<1>2. Quieter(cache, cache') /\ cache'[url] = cache[url]
  BY <1>0, NoAnswers DEF Quieter, Collected, NotLoaded
<1>3. UNCHANGED <<Sent("button"), Sent("form")>>
  BY DEF Sent, Collected
<1>4. Counts' /\ server' \in [version: 1..MaxEvents + 1, pages: Numbers] /\ server'.version >= server.version
  BY <1>3, CountsKept DEF Collected
<1>5. CacheKinds' /\ MutationKinds' /\ Promises' /\ TakesBack'
  BY <1>1, <1>2, <1>4, SameKeeps DEF Collected
<1>6. PlaceKinds'
  BY SamePlace DEF PlaceKinds, Collected
<1>7. TextKept'
  BY <1>2, TextStaysKept DEF Collected
<1> QED
  BY <1>4, <1>5, <1>6, <1>7

LEMMA ElsewhereKeeps == IInv /\ Elsewhere => IInv'
<1> SUFFICES ASSUME IInv, Elsewhere PROVE IInv'
  OBVIOUS
<1> USE DEF IInv
<1>1. SameBut(mutation, mutation') /\ Quieter(cache, cache')
  BY SameSame, QuietItself DEF Elsewhere, MutationKinds
<1>2. Sent("button") \in 0..1 /\ Sent("form") \in 0..1 /\ UNCHANGED <<Sent("button"), Sent("form")>>
  BY DEF Sent, Elsewhere
<1>3. server'.version = server.version + 1 /\ server'.pages \in Numbers /\ server' = [version |-> server'.version, pages |-> server'.pages]
  BY DEF Elsewhere, Changed, Counts
<1>4. Counts' /\ server' \in [version: 1..MaxEvents + 1, pages: Numbers] /\ server'.version >= server.version
  BY <1>2, <1>3, MaxEventsAssumption DEF Counts, Elsewhere, Spends
<1>5. CacheKinds' /\ MutationKinds' /\ Promises' /\ TakesBack'
  BY <1>1, <1>4, SameKeeps DEF Elsewhere
<1>6. PlaceKinds'
  BY SamePlace DEF PlaceKinds, Elsewhere
<1>7. TextKept'
  BY TextStaysKept DEF Elsewhere
<1> QED
  BY <1>4, <1>5, <1>6, <1>7

-----------------------------------------------------------------------------
(* The actions that move one mutation.                                      *)

\* What the mutations keep when one of them alone is replaced.
LEMMA OthersKeep ==
    ASSUME IInv, UNCHANGED <<place, owed>>, server' \in [version: 1..MaxEvents + 1, pages: Numbers],
           server'.version >= server.version,
           Quieter(cache, cache'), NEW s \in Senders, NEW m \in Mutation, mutation' = [mutation EXCEPT ![s] = m],
           m.wrote <= server'.version, m.at # "idle" => m.op \in Operations,
           s = "button" => m.before \in Real(server'.version) \cup {NoAnswer},
           s = "form" /\ m.at # "idle" => m.op \in fm.saves,
           m.at = "applied" /\ m.wrote # 0 => query \in Writes[m.op],
           m.at = "refetching" /\ cache'[m.key].fetch = "read" => cache'[m.key].reply.version >= m.wrote,
           m.at = "settling" => Meets(cache'[m.key], m.wrote),
           s = "button" /\ m.at \in {"sent", "applied"} /\ m.op \in Optimistic =>
               place.page = "chat" /\ m.before # NoAnswer /\ m.before.version >= owed[1],
           s = "form" /\ place.page = "chat" /\ m.at \in {"refetching", "settling"} => m.wrote = 0
    PROVE  CacheKinds' /\ MutationKinds' /\ Promises' /\ TakesBack'
<1>0. mutation \in [Senders -> Mutation] /\ mutation' \in [Senders -> Mutation]
  BY DEF IInv, MutationKinds
<1>1. server.version \in Nat /\ server'.version \in Nat /\ Real(server.version) \subseteq Real(server'.version)
  BY Later DEF IInv, Counts
<1>2. \A r \in Senders : mutation[r].wrote \in Nat /\ mutation[r].key \in Numbers
  BY <1>0, MaxEventsAssumption DEF Mutation
<1>3. m.key \in Numbers /\ m.wrote \in Nat
  BY MaxEventsAssumption DEF Mutation
<1>4. \A r \in Senders : mutation'[r] = IF r = s THEN m ELSE mutation[r]
  BY <1>0
<1>5. MutationKinds'
  BY <1>0, <1>1, <1>2, <1>4, SamePlace DEF IInv, MutationKinds, Senders
<1>6. ASSUME NEW r \in Senders, r # s
      PROVE  /\ mutation'[r].at = "applied" /\ mutation'[r].wrote # 0 => query \in Writes[mutation'[r].op]
             /\ mutation'[r].at = "refetching" /\ cache'[mutation'[r].key].fetch = "read" =>
                    cache'[mutation'[r].key].reply.version >= mutation'[r].wrote
             /\ mutation'[r].at = "settling" => Meets(cache'[mutation'[r].key], mutation'[r].wrote)
  BY <1>2, <1>4, <1>6, QuietKeeps DEF IInv, Promises, Quieter
<1>7. Promises'
  BY <1>3, <1>4, <1>6, QuietKeeps, SamePlace DEF Promises, Meets
<1>8. TakesBack'
  BY <1>4, SamePlace DEF IInv, TakesBack, Senders
<1> QED
  BY <1>5, <1>7, <1>8, QuietKeeps

LEMMA SubmitKeeps == IInv /\ Submit => IInv'
<1> SUFFICES ASSUME IInv, Submit PROVE IInv'
  OBVIOUS
<1> USE DEF IInv
<1>1. PICK op \in fm.saves : mutation' = [mutation EXCEPT !["form"] = [Idle EXCEPT !.op = op, !.at = "sent", !.mine = TRUE]]
  BY DEF Submit
<1> DEFINE m == [Idle EXCEPT !.op = op, !.at = "sent", !.mine = TRUE]
<1>2. op \in Operations /\ op \notin Optimistic
  BY HereAllowed DEF Allowed
<1>3. m \in Mutation /\ m.op = op /\ m.at = "sent" /\ m.wrote = 0
  BY <1>2, NoAnswers DEF Idle, Mutation
<1> HIDE DEF m
<1>4. mutation' = [mutation EXCEPT !["form"] = m] /\ mutation \in [Senders -> Mutation]
  BY <1>1 DEF m, MutationKinds
<1>5. Sent("button") \in 0..1 /\ Sent("form") = 0 /\ Sent("form")' = 1 /\ UNCHANGED Sent("button")
  BY <1>3, <1>4 DEF Sent, Submit, Senders
<1>6. left' \in 0..MaxEvents /\ left' = left - 1
  BY MaxEventsAssumption DEF Submit, Spends, Counts
<1>7. Counts' /\ server' \in [version: 1..MaxEvents + 1, pages: Numbers] /\ server'.version >= server.version
  BY <1>5, <1>6, MaxEventsAssumption DEF Counts, Submit
<1>8. Quieter(cache, cache') /\ m.wrote <= server'.version
  BY <1>3, QuietItself DEF Submit, Counts
<1>9. CacheKinds' /\ MutationKinds' /\ Promises' /\ TakesBack'
  BY <1>2, <1>3, <1>4, <1>7, <1>8, OthersKeep DEF Submit, Senders
<1>10. PlaceKinds'
  BY SamePlace DEF PlaceKinds, Submit
<1>11. TextKept'
  BY SamePlace DEF TextKept, Submit, Shown, Renders
<1> QED
  BY <1>7, <1>9, <1>10, <1>11

LEMMA PressKeeps == IInv /\ Press => IInv'
<1> SUFFICES ASSUME IInv, Press PROVE IInv'
  OBVIOUS
<1> USE DEF IInv
<1>1. PICK button \in page.buttons :
        /\ Shown(button)
        /\ mutation' = [mutation EXCEPT !["button"] =
                            [Idle EXCEPT !.op = button.op, !.at = "sent",
                                         !.before = IF button.op \in Optimistic THEN cache[url].answer ELSE @]]
        /\ cache' = IF button.op \in Optimistic
                     THEN [cache EXCEPT ![url].fetch = "none", ![url].reply = NoAnswer, ![url].failed = FALSE]
                     ELSE cache
  BY DEF Press
<1> DEFINE before == IF button.op \in Optimistic THEN cache[url].answer ELSE NoAnswer
<1> DEFINE m == [Idle EXCEPT !.op = button.op, !.at = "sent", !.before = before]
<1>2. cache \in [Numbers -> Entry] /\ url \in Numbers /\ cache[url].answer \in Answer
  BY DEF CacheKinds, PlaceKinds, Entry
<1>3. button.op \in Operations /\ (button.op \in Optimistic => place.page = "chat" /\ button.host = "chatConfig")
  BY HereAllowed DEF Pressable
<1>4. before \in Answer /\ before \in Real(server.version) \cup {NoAnswer}
  BY <1>2, NoAnswers DEF CacheKinds
<1>5. button.op \in Optimistic => before # NoAnswer /\ before.version >= owed[1]
  BY <1>1, <1>2, <1>3, HereAllowed DEF Shown, Renders, Promises, Meets
<1>6. mutation' = [mutation EXCEPT !["button"] = m] /\ mutation \in [Senders -> Mutation]
  BY <1>1 DEF MutationKinds, Idle
<1> HIDE DEF before
<1>7. m \in Mutation /\ m.op = button.op /\ m.at = "sent" /\ m.wrote = 0 /\ m.before = before
  BY <1>3, <1>4, NoAnswers DEF Idle, Mutation
<1> HIDE DEF m
<1>8. Sent("form") \in 0..1 /\ Sent("button") = 0 /\ Sent("button")' = 1 /\ UNCHANGED Sent("form")
  BY <1>6, <1>7 DEF Sent, Press, Senders
<1>9. left' \in 0..MaxEvents /\ left' = left - 1
  BY MaxEventsAssumption DEF Press, Spends, Counts
<1>10. Counts' /\ server' \in [version: 1..MaxEvents + 1, pages: Numbers] /\ server'.version >= server.version
  BY <1>8, <1>9, MaxEventsAssumption DEF Counts, Press
<1>11. /\ Quieter(cache, cache')
       /\ cache'[url].answer = cache[url].answer /\ (cache'[url].failed => cache[url].failed)
  BY <1>1, <1>2, NoAnswers DEF Quieter, Entry
<1>12. m.wrote <= server'.version /\ m.before \in Real(server'.version) \cup {NoAnswer}
  BY <1>4, <1>7 DEF Press, Counts
<1>13. CacheKinds' /\ MutationKinds' /\ Promises' /\ TakesBack'
  BY <1>3, <1>5, <1>6, <1>7, <1>10, <1>11, <1>12, OthersKeep DEF Press, Senders
<1>14. PlaceKinds'
  BY SamePlace DEF PlaceKinds, Press
<1>15. TextKept'
  BY <1>6, <1>11, TextStaysKept DEF Press
<1> QED
  BY <1>10, <1>13, <1>14, <1>15

LEMMA AppliedKeeps == ASSUME NEW s \in Senders PROVE IInv /\ Applied(s) => IInv'
<1> SUFFICES ASSUME IInv, Applied(s) PROVE IInv'
  OBVIOUS
<1> USE DEF IInv
<1> DEFINE wrote == IF server' = server THEN 0 ELSE server'.version
<1> DEFINE m == [mutation[s] EXCEPT !.at = "applied", !.wrote = wrote]
<1>1. mutation \in [Senders -> Mutation] /\ mutation[s] \in Mutation /\ mutation[s].at = "sent"
  BY DEF MutationKinds, Applied
<1>2. Sent(s) = 1 /\ Sent("button") \in 0..1 /\ Sent("form") \in 0..1
  BY <1>1 DEF Sent
<1>3. \/ query \in Writes[mutation[s].op] /\ server' \in [version: {server.version + 1}, pages: Numbers]
      \/ server' = server
  <2>1. server.pages \in Numbers
    BY DEF Counts
  <2> QED
    BY <2>1 DEF Applied, Changed
<1>4. server.version + left + 1 <= MaxEvents + 1 /\ left \in Nat /\ server.version \in 1..MaxEvents + 1
  BY <1>2, MaxEventsAssumption DEF Counts, Senders
<1>5. server' \in [version: 1..MaxEvents + 1, pages: Numbers] /\ server'.version >= server.version
      /\ server'.version + left + 1 <= MaxEvents + 2 /\ (server'.version + left + 1 = MaxEvents + 2 => server' # server)
  BY <1>3, <1>4, MaxEventsAssumption DEF Counts
<1>6. wrote \in 0..MaxEvents + 1 /\ wrote <= server'.version /\ (wrote # 0 => query \in Writes[mutation[s].op])
  BY <1>3, <1>5, MaxEventsAssumption
<1>7. mutation' = [mutation EXCEPT ![s] = m]
  BY <1>1 DEF Applied
<1> HIDE DEF wrote
<1>8. m \in Mutation /\ m.op = mutation[s].op /\ m.at = "applied" /\ m.wrote = wrote /\ m.before = mutation[s].before
      /\ m.mine = mutation[s].mine /\ m.key = mutation[s].key
  BY <1>1, <1>6 DEF Mutation
<1> HIDE DEF m
<1>9. Counts'
  <2>1. Sent(s)' = 0 /\ \A r \in Senders \ {s} : Sent(r)' = Sent(r)
    BY <1>1, <1>7, <1>8 DEF Sent
  <2>2. Sent("button")' + Sent("form")' + 1 = Sent("button") + Sent("form")
    BY <1>2, <2>1 DEF Senders
  <2>3. Sent("button")' \in 0..1 /\ Sent("form")' \in 0..1
    BY DEF Sent
  <2>4. server'.version <= server.version + 1
    BY <1>3, <1>4
  <2>5. server'.version + left' + Sent("button")' + Sent("form")' <= MaxEvents + 1
    BY <1>2, <1>4, <1>5, <2>2, <2>3, <2>4, MaxEventsAssumption DEF Counts, Applied
  <2> QED
    BY <1>4, <1>5, <2>5, MaxEventsAssumption DEF Counts, Applied
<1>10. m.before \in Real(server'.version) \cup {NoAnswer} \/ s # "button"
  BY <1>4, <1>5, <1>8, Later DEF MutationKinds
<1>11. CacheKinds' /\ MutationKinds' /\ Promises' /\ TakesBack'
  <2>1. Quieter(cache, cache') /\ UNCHANGED <<place, owed>>
    BY QuietItself DEF Applied
  <2>2. m.op \in Operations /\ (s = "form" => m.op \in fm.saves)
    BY <1>1, <1>8 DEF MutationKinds
  <2>3. s = "button" /\ m.op \in Optimistic => place.page = "chat" /\ m.before # NoAnswer /\ m.before.version >= owed[1]
    BY <1>1, <1>8 DEF TakesBack
  <2> QED
    BY <1>5, <1>6, <1>7, <1>8, <1>10, <2>1, <2>2, <2>3, OthersKeep
<1>12. PlaceKinds'
  BY SamePlace DEF PlaceKinds, Applied
<1>13. TextKept'
  BY <1>1, <1>7, <1>8, TextStaysKept DEF Applied, Senders
<1> QED
  BY <1>9, <1>11, <1>12, <1>13

LEMMA SucceedsKeeps == ASSUME NEW s \in Senders PROVE IInv /\ Succeeds(s) => IInv'
<1> SUFFICES ASSUME IInv, Succeeds(s) PROVE IInv'
  OBVIOUS
<1> USE DEF IInv
<1> DEFINE stale == query \in Invalidates[mutation[s].op]
<1> DEFINE at    == IF stale /\ mutation[s].op \notin Unawaited THEN "refetching" ELSE "settling"
<1> DEFINE wrote == IF stale /\ (Joins \/ mutation[s].op \in Unawaited) THEN 0 ELSE mutation[s].wrote
<1> DEFINE m     == [mutation[s] EXCEPT !.at = at, !.wrote = wrote, !.key = url]
<1>1. /\ mutation \in [Senders -> Mutation] /\ mutation[s] \in Mutation /\ mutation[s].at = "applied"
      /\ mutation[s].op \in Operations /\ cache \in [Numbers -> Entry] /\ url \in Numbers
  BY DEF MutationKinds, CacheKinds, PlaceKinds, Succeeds
<1>2. mutation[s].wrote \in 0..MaxEvents + 1 /\ (mutation[s].wrote # 0 => stale)
  BY <1>1, InvalidatesAll DEF Promises, Mutation
<1>3. cache' = (IF stale THEN Invalidated ELSE cache) /\ mutation' = [mutation EXCEPT ![s] = m]
  BY <1>1 DEF Succeeds, Refetches
<1>4. wrote \in {0, mutation[s].wrote} /\ wrote \in 0..MaxEvents + 1
  BY <1>2, MaxEventsAssumption
<1>5. at = "settling" => wrote = 0
  BY <1>2
<1>6. at = "refetching" /\ wrote # 0 => cache' = [cache EXCEPT ![url] = Asked(@)]
  BY <1>3 DEF Invalidated
<1>7. s = "form" /\ place.page = "chat" => wrote = 0
  <2> SUFFICES ASSUME s = "form", place.page = "chat", wrote # 0 PROVE FALSE
    OBVIOUS
  <2>1. mutation[s].op \in fm.saves /\ mutation[s].op \notin Unawaited /\ mutation[s].wrote # 0
    BY <1>1, <1>2 DEF MutationKinds
  <2>2. Writes[mutation[s].op] = {}
    BY <2>1, HereAllowed DEF Allowed
  <2> QED
    BY <1>1, <2>1, <2>2 DEF Promises
<1>8. at \in {"refetching", "settling"}
  OBVIOUS
<1>9. /\ Quieter(cache, cache')
      /\ cache'[url].answer = cache[url].answer /\ cache'[url].failed = cache[url].failed
  BY <1>1, <1>3, AskedQuiet, QuietItself, AskedEntry DEF Invalidated
<1> HIDE DEF at, wrote, stale
<1>10. m \in Mutation /\ m.op = mutation[s].op /\ m.at = at /\ m.wrote = wrote /\ m.before = mutation[s].before
       /\ m.mine = mutation[s].mine /\ m.key = url
  BY <1>1, <1>4, <1>8 DEF Mutation
<1> HIDE DEF m
<1>11. UNCHANGED <<Sent("button"), Sent("form")>>
  BY <1>1, <1>3, <1>8, <1>10 DEF Sent, Senders
<1>12. Counts' /\ server' \in [version: 1..MaxEvents + 1, pages: Numbers] /\ server'.version >= server.version
  BY <1>11, CountsKept DEF Succeeds
<1>13. CacheKinds' /\ MutationKinds' /\ Promises' /\ TakesBack'
  <2>1. m.wrote <= server'.version /\ server' = server
    BY <1>1, <1>4, <1>10 DEF MutationKinds, Succeeds, Counts
  <2>2. m.at = "refetching" /\ cache'[m.key].fetch = "read" => cache'[m.key].reply.version >= m.wrote
    <3>1. CASE wrote = 0
      <4>1. cache'[url].fetch = "read" => cache'[url].reply.version \in Nat
        BY <1>1, <1>9 DEF Quieter, CacheKinds, Real, Counts
      <4> QED
        BY <1>10, <3>1, <4>1
    <3>2. CASE wrote # 0
      BY <1>1, <1>6, <1>10, <3>2, AskedEntry
    <3> QED
      BY <3>1, <3>2
  <2>3. m.at = "settling" => Meets(cache'[m.key], m.wrote)
    <3>1. cache'[url].answer.version \in Nat /\ cache'[url].reply.version \in Nat
      BY <1>1, <1>9, MaxEventsAssumption DEF Quieter, Entry, Answer
    <3> QED
      BY <1>5, <1>10, <3>1 DEF Meets
  <2>4. s = "form" => m.op \in fm.saves
    BY <1>1, <1>10 DEF MutationKinds
  <2>5. s = "button" => m.before \in Real(server'.version) \cup {NoAnswer}
    BY <1>10, <2>1 DEF MutationKinds
  <2> QED
    BY <1>1, <1>3, <1>7, <1>8, <1>9, <1>10, <1>12, <2>1, <2>2, <2>3, <2>4, <2>5, OthersKeep DEF Succeeds
<1>14. PlaceKinds'
  BY SamePlace DEF PlaceKinds, Succeeds
<1>15. TextKept'
  BY <1>1, <1>3, <1>9, <1>10, TextStaysKept DEF Succeeds, Senders
<1> QED
  BY <1>12, <1>13, <1>14, <1>15

LEMMA IdleFields == Idle \in Mutation /\ Idle.at = "idle" /\ Idle.wrote = 0 /\ Idle.before = NoAnswer /\ Idle.mine = FALSE
  BY NoAnswers DEF Idle

LEMMA FailsKeeps == ASSUME NEW s \in Senders PROVE IInv /\ Fails(s) => IInv'
<1> SUFFICES ASSUME IInv, Fails(s) PROVE IInv'
  OBVIOUS
<1> USE DEF IInv
<1>1. mutation \in [Senders -> Mutation] /\ mutation' = [mutation EXCEPT ![s] = Idle]
  BY DEF MutationKinds, Fails
<1>2. Sent("button") \in 0..1 /\ Sent("form") \in 0..1 /\ Sent("button")' \in {0, Sent("button")} /\ Sent("form")' \in {0, Sent("form")}
  BY <1>1, IdleFields DEF Sent, Senders
<1>3. left' \in 0..MaxEvents /\ left' = left - 1
  BY MaxEventsAssumption DEF Fails, Spends, Counts
<1>4. Counts' /\ server' \in [version: 1..MaxEvents + 1, pages: Numbers] /\ server'.version >= server.version
  BY <1>2, <1>3, MaxEventsAssumption DEF Counts, Fails
<1>5. Quieter(cache, cache') /\ Idle.wrote <= server'.version
  BY IdleFields, QuietItself DEF Fails, Counts
<1>6. CacheKinds' /\ MutationKinds' /\ Promises' /\ TakesBack'
  BY <1>1, <1>4, <1>5, IdleFields, OthersKeep DEF Fails
<1>7. PlaceKinds'
  BY SamePlace DEF PlaceKinds, Fails
<1>8. TextKept'
  <2>1. text' # "clean" => text # "clean"
    BY DEF Fails
  <2>2. Shown(fm)' = Shown(fm)
    BY SamePlace DEF Fails, Shown, Renders
  <2>3. mutation'["form"].at # "idle" => s = "button" /\ mutation'["form"] = mutation["form"] /\ text' = text
    BY <1>1, IdleFields DEF Fails, Senders
  <2> QED
    BY <2>1, <2>2, <2>3, SamePlace DEF TextKept, Fails
<1> QED
  BY <1>4, <1>6, <1>7, <1>8

LEMMA TakenBackKeeps == IInv /\ TakenBack => IInv'
<1> SUFFICES ASSUME IInv, TakenBack PROVE IInv'
  OBVIOUS
<1> USE DEF IInv
<1> DEFINE b        == mutation["button"]
<1> DEFINE m        == [b EXCEPT !.at = "refetching", !.wrote = 0, !.key = url, !.before = NoAnswer]
<1> DEFINE restored == [cache[url] EXCEPT !.answer = b.before, !.failed = FALSE]
<1>1. /\ mutation \in [Senders -> Mutation] /\ b \in Mutation /\ b.op \in Operations /\ b.at \in {"sent", "applied"}
      /\ cache \in [Numbers -> Entry] /\ url \in Numbers /\ place.page = "chat" /\ url = 1
      /\ b.before \in Real(server.version) /\ b.before.version >= owed[1]
  BY HereAllowed DEF MutationKinds, CacheKinds, PlaceKinds, TakenBack, TakesBack, Senders
<1>2. mutation' = [mutation EXCEPT !["button"] = m] /\ cache' = [cache EXCEPT ![url] = Asked(restored)]
  BY <1>1 DEF TakenBack
<1>3. m \in Mutation /\ m.op = b.op /\ m.at = "refetching" /\ m.wrote = 0 /\ m.key = url /\ m.before = NoAnswer
  <2>1. 0 \in 0..MaxEvents + 1
    BY MaxEventsAssumption
  <2> QED
    BY <1>1, <2>1, NoAnswers DEF Mutation
<1>4. restored \in Entry /\ restored.answer = b.before /\ restored.failed = FALSE
  BY <1>1 DEF Mutation, Entry
<1> HIDE DEF m, restored
<1>5. cache'[url].answer = b.before /\ cache'[url].failed = FALSE /\ cache'[url].fetch = "asked" /\ cache'[url] \in Entry
  BY <1>1, <1>2, <1>4, AskedEntry
<1>6. cache' \in [Numbers -> Entry] /\ \A n \in Numbers \ {url} : cache'[n] = cache[n]
  BY <1>1, <1>2, <1>5
<1>7. UNCHANGED <<place, server, url, text, owed>>
  BY DEF TakenBack
<1>8. CacheKinds'
  BY <1>1, <1>5, <1>6, <1>7 DEF CacheKinds
<1>9. MutationKinds'
  <2>1. server.version \in Nat
    BY DEF Counts
  <2> QED
    BY <1>1, <1>2, <1>3, <1>7, <2>1, SamePlace DEF MutationKinds, Senders
<1>10. Counts'
  <2>1. Sent("button") \in 0..1 /\ Sent("form") \in 0..1 /\ Sent("button")' = 0 /\ UNCHANGED Sent("form")
    BY <1>1, <1>2, <1>3 DEF Sent, Senders
  <2>2. left' \in 0..MaxEvents /\ left' = left - 1
    BY MaxEventsAssumption DEF TakenBack, Spends, Counts
  <2> QED
    BY <1>7, <2>1, <2>2, MaxEventsAssumption DEF Counts
<1>11. b.before # NoAnswer /\ b.before.version \in Nat
  BY <1>1 DEF Real, NoAnswer, Counts
<1>12. mutation'["button"] = m /\ mutation'["form"] = mutation["form"]
  BY <1>1, <1>2 DEF Senders
<1>13. Promises'
  <2>1. \A n \in Numbers : Meets(cache'[n], owed[n])
    BY <1>1, <1>5, <1>6 DEF Promises, Meets
  <2>2. cache'[1].answer.version \in Nat
    BY <1>1, <1>5, <1>11
  <2>3. mutation["form"].key \in Numbers /\ mutation["form"].wrote \in Nat
    BY <1>1, MaxEventsAssumption DEF Mutation, Senders
  <2>4. LET f == mutation["form"] IN
        /\ f.at = "applied" /\ f.wrote # 0 => query \in Writes[f.op]
        /\ f.at = "refetching" /\ cache'[f.key].fetch = "read" => cache'[f.key].reply.version >= f.wrote
        /\ f.at = "settling" => Meets(cache'[f.key], f.wrote)
    <3> DEFINE f == mutation["form"]
    <3>1. /\ f.at = "applied" /\ f.wrote # 0 => query \in Writes[f.op]
          /\ f.at = "refetching" /\ cache[f.key].fetch = "read" => cache[f.key].reply.version >= f.wrote
          /\ f.at = "settling" => Meets(cache[f.key], f.wrote) /\ f.wrote = 0
      BY <1>1 DEF Promises, TakesBack, Senders
    <3>2. CASE f.key = url
      BY <1>1, <1>5, <2>2, <3>1, <3>2 DEF Meets
    <3>3. CASE f.key # url
      BY <1>6, <2>3, <3>1, <3>3
    <3> QED
      BY <3>2, <3>3
  <2>5. m.at = "refetching" /\ cache'[m.key].fetch = "read" => cache'[m.key].reply.version >= m.wrote
    BY <1>3, <1>5
  <2> QED
    BY <1>3, <1>7, <1>12, <2>1, <2>4, <2>5, SamePlace DEF Promises, Senders
<1>14. TakesBack'
  BY <1>3, <1>7, <1>12 DEF TakesBack
<1>15. PlaceKinds'
  BY <1>7, SamePlace DEF PlaceKinds
<1>16. TextKept'
  BY <1>5, <1>7, <1>11, <1>12, TextStaysKept DEF TextKept
<1> QED
  BY <1>8, <1>9, <1>10, <1>13, <1>14, <1>15, <1>16

LEMMA SettledKeeps ==
    ASSUME IInv, NEW s \in Senders, Settled(s), UNCHANGED <<place, server, left>>, Quieter(cache, cache')
    PROVE  CacheKinds' /\ MutationKinds' /\ Promises' /\ TakesBack' /\ Counts'
<1> USE DEF IInv
<1> DEFINE m == mutation[s]
<1>1. /\ mutation \in [Senders -> Mutation] /\ m \in Mutation /\ m.at = "settling" /\ m.key \in Numbers
      /\ m.wrote \in 0..MaxEvents + 1 /\ m.wrote \in Nat /\ m.wrote <= server.version /\ Meets(cache[m.key], m.wrote)
  BY MaxEventsAssumption DEF MutationKinds, Settled, Mutation, Promises
<1>2. owed \in [Numbers -> 0..MaxEvents + 1] /\ \A n \in Numbers : owed[n] \in Nat /\ Meets(cache[n], owed[n])
  BY MaxEventsAssumption DEF Counts, Promises
<1>3. mutation' = [mutation EXCEPT ![s] = Idle]
      /\ owed' = [owed EXCEPT ![m.key] = IF m.wrote > owed[m.key] THEN m.wrote ELSE owed[m.key]]
  BY DEF Settled
<1> HIDE DEF m
<1>4. owed' \in [Numbers -> 0..MaxEvents + 1] /\ \A n \in Numbers : owed'[n] \in Nat /\ Meets(cache[n], owed'[n])
                                                                   /\ owed'[n] <= server.version
  BY <1>1, <1>2, <1>3 DEF Counts
<1>5. \A n \in Numbers, v \in Nat : Meets(cache[n], v) => Meets(cache'[n], v)
  BY DEF Quieter, Meets
<1>6. CacheKinds'
  BY DEF CacheKinds, Quieter
<1>7. \A r \in Senders : mutation'[r] = IF r = s THEN Idle ELSE mutation[r]
  BY <1>1, <1>3
<1>8. MutationKinds'
  BY <1>1, <1>7, <1>3, IdleFields, SamePlace DEF MutationKinds, Counts
<1>9. Promises'
  <2>1. \A r \in Senders : mutation[r].wrote \in Nat /\ mutation[r].key \in Numbers
    BY <1>1, MaxEventsAssumption DEF Mutation
  <2> QED
    BY <1>4, <1>5, <1>7, <2>1, IdleFields, SamePlace DEF Promises, Quieter
<1>10. TakesBack'
  <2>1. s = "form" /\ place.page = "chat" => m.wrote = 0
    BY <1>1 DEF TakesBack, m
  <2>2. s = "form" /\ place.page = "chat" => owed' = owed
    BY <1>1, <1>2, <1>3, <2>1
  <2> QED
    BY <1>7, <2>2, IdleFields DEF TakesBack, Senders
<1>11. UNCHANGED <<Sent("button"), Sent("form")>>
  BY <1>1, <1>7, IdleFields DEF Sent, Senders, m
<1> QED
  BY <1>4, <1>6, <1>8, <1>9, <1>10, <1>11 DEF Counts

LEMMA ButtonSettlesKeeps == IInv /\ ButtonSettles => IInv'
<1> SUFFICES ASSUME IInv, ButtonSettles PROVE IInv'
  OBVIOUS
<1>1. CacheKinds' /\ MutationKinds' /\ Promises' /\ TakesBack' /\ Counts'
  BY SettledKeeps, QuietItself DEF ButtonSettles, Senders
<1>2. PlaceKinds'
  BY SamePlace DEF IInv, PlaceKinds, ButtonSettles
<1>3. TextKept'
  BY TextStaysKept DEF ButtonSettles, Settled, Senders, IInv, MutationKinds
<1> QED
  BY <1>1, <1>2, <1>3 DEF IInv

LEMMA FormSettlesKeeps == IInv /\ FormSettles => IInv'
<1> SUFFICES ASSUME IInv, FormSettles PROVE IInv'
  OBVIOUS
<1> USE DEF IInv
<1>1. cache \in [Numbers -> Entry] /\ 1 \in Numbers /\ url \in Numbers /\ url' \in Numbers /\ (url' = url \/ url' = 1)
  BY DEF CacheKinds, PlaceKinds, FormSettles, Numbers
<1>2. Quieter(cache, cache')
  BY <1>1, MountedQuiet, QuietItself DEF FormSettles
<1>3. CacheKinds' /\ MutationKinds' /\ Promises' /\ TakesBack' /\ Counts'
  BY <1>2, SettledKeeps DEF FormSettles, Senders
<1>4. PlaceKinds'
  BY <1>1, SamePlace DEF PlaceKinds, FormSettles
<1>5. TextKept'
  <2>1. mutation'["form"].at = "idle"
    BY IdleFields DEF FormSettles, Settled, MutationKinds, Senders
  <2>2. text' \in {text, "clean"}
    BY DEF FormSettles
  <2>3. CASE url' = url
    BY <2>1, <2>2, <2>3, TextStaysKept DEF FormSettles
  <2>4. CASE url' # url
    <3>1. fm.rewinds /\ url # 1
      BY <2>4 DEF FormSettles
    <3>2. fm.host # query
      BY <3>1, HereAllowed DEF Allowed, PlaceKinds, paged
    <3>3. Shown(fm)'
      BY <3>2, SamePlace DEF FormSettles, Shown, Renders
    <3> QED
      BY <2>1, <3>3 DEF TextKept
  <2> QED
    BY <2>3, <2>4
<1> QED
  BY <1>3, <1>4, <1>5

-----------------------------------------------------------------------------
(* The actions of a fetch.                                                  *)

LEMMA ReadsKeeps == ASSUME NEW n \in Numbers PROVE IInv /\ Reads(n) => IInv'
<1> SUFFICES ASSUME IInv, Reads(n) PROVE IInv'
  OBVIOUS
<1> USE DEF IInv
<1> DEFINE reply == [version |-> server.version, page |-> IF n > server.pages THEN server.pages ELSE n]
<1>1. cache \in [Numbers -> Entry] /\ server.version \in Nat /\ UNCHANGED <<place, server, url, mutation, text, owed, left>>
  BY DEF CacheKinds, Counts, Reads
<1>2. reply \in Real(server.version) /\ reply \in Answer
  BY MaxEventsAssumption DEF Counts, Real, Answer, Numbers
<1>3. reply.version = server.version
  OBVIOUS
<1>4. cache' = [cache EXCEPT ![n].fetch = "read", ![n].reply = reply]
  BY DEF Reads
<1> HIDE DEF reply
<1>5. /\ cache' \in [Numbers -> Entry] /\ cache'[n].fetch = "read" /\ cache'[n].reply = reply
      /\ cache'[n].answer = cache[n].answer /\ cache'[n].failed = cache[n].failed
      /\ \A i \in Numbers \ {n} : cache'[i] = cache[i]
  BY <1>1, <1>2, <1>4 DEF Entry
<1>6. CacheKinds'
  BY <1>1, <1>2, <1>5 DEF CacheKinds
<1>7. MutationKinds' /\ PlaceKinds' /\ Counts' /\ TakesBack'
  BY <1>1, SamePlace DEF MutationKinds, PlaceKinds, Counts, Sent, TakesBack
<1>8. Promises'
  <2>1. \A i \in Numbers, v \in Nat : v <= server.version /\ Meets(cache[i], v) => Meets(cache'[i], v)
    BY <1>3, <1>5 DEF Meets
  <2>2. \A i \in Numbers : owed[i] \in Nat /\ owed[i] <= server.version
    BY MaxEventsAssumption DEF Counts
  <2>3. \A s \in Senders : mutation[s].wrote \in Nat /\ mutation[s].wrote <= server.version /\ mutation[s].key \in Numbers
    BY MaxEventsAssumption DEF MutationKinds, Mutation
  <2> QED
    BY <1>1, <1>3, <1>5, <2>1, <2>2, <2>3, SamePlace DEF Promises
<1>9. TextKept'
  BY <1>1, <1>5, TextStaysKept DEF PlaceKinds
<1> QED
  BY <1>6, <1>7, <1>8, <1>9

\* What a fetch that ends, with or without an answer, keeps.
LEMMA EndedKeeps ==
    ASSUME IInv, UNCHANGED <<place, server, owed>>, NEW n \in Numbers, NEW w, GoesOn(mutation, n, w), SameBut(w, mutation'),
           NEW e \in Entry, cache' = [cache EXCEPT ![n] = e], e.fetch = "none",
           e.answer \in Real(server.version) \cup {NoAnswer}, Meets(e, owed[n]),
           \A s \in Senders : mutation[s].key = n /\ mutation[s].at = "settling"   => Meets(e, mutation[s].wrote),
           \A s \in Senders : mutation[s].key = n /\ mutation[s].at = "refetching" => Meets(e, w[s].wrote)
    PROVE  CacheKinds' /\ MutationKinds' /\ Promises' /\ TakesBack' /\ UNCHANGED <<Sent("button"), Sent("form")>>
<1> USE DEF IInv
<1>1. cache \in [Numbers -> Entry] /\ server.version \in Nat /\ mutation \in [Senders -> Mutation] /\ mutation' \in [Senders -> Mutation]
  BY DEF CacheKinds, Counts, MutationKinds, SameBut
<1>2. cache' \in [Numbers -> Entry] /\ cache'[n] = e /\ \A i \in Numbers \ {n} : cache'[i] = cache[i]
  BY <1>1
<1>3. \A s \in Senders : /\ mutation'[s].op = mutation[s].op /\ mutation'[s].key = mutation[s].key
                         /\ mutation'[s].before = mutation[s].before
                         /\ IF mutation[s].at = "refetching" /\ mutation[s].key = n
                            THEN mutation'[s].at = "settling" /\ mutation'[s].wrote = w[s].wrote /\ w[s].wrote \in {mutation[s].wrote, 0}
                            ELSE mutation'[s].at = mutation[s].at /\ mutation'[s].wrote = mutation[s].wrote
  BY DEF GoesOn, SameBut
<1>4. CacheKinds'
  BY <1>2 DEF CacheKinds
<1>5. MutationKinds'
  BY <1>1, <1>3, SamePlace DEF MutationKinds, Senders
<1>6. \A s \in Senders : mutation[s].key \in Numbers
  BY <1>1 DEF Mutation
<1>7. Promises'
  <2>1. \A i \in Numbers : Meets(cache'[i], owed[i])
    BY <1>2 DEF Promises
  <2>2. ASSUME NEW s \in Senders
        PROVE  /\ mutation'[s].at = "applied" /\ mutation'[s].wrote # 0 => query \in Writes[mutation'[s].op]
               /\ mutation'[s].at = "refetching" /\ cache'[mutation'[s].key].fetch = "read" =>
                      cache'[mutation'[s].key].reply.version >= mutation'[s].wrote
               /\ mutation'[s].at = "settling" => Meets(cache'[mutation'[s].key], mutation'[s].wrote)
    BY <1>2, <1>3, <1>6 DEF Promises
  <2> QED
    BY <2>1, <2>2, SamePlace DEF Promises
<1>8. TakesBack' /\ UNCHANGED <<Sent("button"), Sent("form")>>
  BY <1>3 DEF TakesBack, Sent, Senders
<1> QED
  BY <1>4, <1>5, <1>7, <1>8

LEMMA LandsKeeps == ASSUME NEW n \in Numbers PROVE IInv /\ Lands(n) => IInv'
<1> SUFFICES ASSUME IInv, Lands(n) PROVE IInv'
  OBVIOUS
<1> USE DEF IInv
<1> DEFINE e == [NotLoaded EXCEPT !.answer = cache[n].reply]
<1>1. /\ cache \in [Numbers -> Entry] /\ mutation \in [Senders -> Mutation] /\ cache[n].fetch = "read"
      /\ cache[n].reply \in Real(server.version) /\ cache[n].reply \in Answer
      /\ UNCHANGED <<place, server, url, owed, left>> /\ cache' = [cache EXCEPT ![n] = e]
  BY DEF CacheKinds, MutationKinds, Lands, Entry
<1>2. e \in Entry /\ e.answer = cache[n].reply /\ e.fetch = "none"
  BY <1>1, NoAnswers DEF NotLoaded, Entry
<1> HIDE DEF e
<1> DEFINE w == Resumed(n, TRUE)
<1>3. GoesOn(mutation, n, w)
  BY <1>1, ResumedGoesOn
<1> HIDE DEF w
<1>4. w \in [Senders -> Mutation]
  BY <1>3 DEF GoesOn
<1>5. \/ Rerender(text, w)
      \/ text' = "clean" /\ mutation' \in {w, Forgotten(w)}
  BY DEF Lands, w
<1>6. SameBut(w, mutation') /\ text' \in {text, "clean"}
  BY <1>4, <1>5, RerenderKinds, SameSame, ForgottenSame
<1>7. \A s \in Senders : /\ mutation[s].wrote \in Nat /\ w[s].wrote \in Nat /\ w[s].wrote <= mutation[s].wrote
  BY <1>1, <1>3, MaxEventsAssumption DEF Mutation, GoesOn
<1>8. server.version \in Nat /\ cache[n].reply.version \in Nat /\ owed[n] \in Nat
  BY <1>1, MaxEventsAssumption DEF Counts, Real
<1>9. Meets(e, owed[n])
  BY <1>1, <1>2 DEF Promises, Meets
<1>10. \A s \in Senders : mutation[s].key = n /\ mutation[s].at = "settling" => Meets(e, mutation[s].wrote)
  BY <1>1, <1>2 DEF Promises, Meets
<1>11. \A s \in Senders : mutation[s].key = n /\ mutation[s].at = "refetching" => Meets(e, w[s].wrote)
  BY <1>1, <1>2, <1>7, <1>8 DEF Promises, Meets
<1>12. CacheKinds' /\ MutationKinds' /\ Promises' /\ TakesBack' /\ UNCHANGED <<Sent("button"), Sent("form")>>
  <2>1. e.answer \in Real(server.version) \cup {NoAnswer}
    BY <1>1, <1>2
  <2>2. IInv /\ UNCHANGED <<place, server, owed>>
    BY <1>1
  <2> HIDE DEF IInv
  <2> QED
    BY <1>1, <1>2, <1>3, <1>6, <1>9, <1>10, <1>11, <2>1, <2>2, EndedKeeps
<1>13. Counts'
  BY <1>1, <1>12, CountsKept
<1>14. PlaceKinds'
  BY <1>1, <1>6, SamePlace DEF PlaceKinds
<1>15. TextKept'
  <2>1. w["form"].at # "idle" /\ w["form"].mine => mutation["form"].at # "idle" /\ mutation["form"].mine
    BY <1>3 DEF GoesOn, Senders
  <2>2. CASE Rerender(text, w)
    BY <1>1, <1>4, <2>1, <2>2, RerenderedKept
  <2>3. CASE text' = "clean"
    BY <2>3 DEF TextKept
  <2> QED
    BY <1>5, <2>2, <2>3
<1> QED
  BY <1>12, <1>13, <1>14, <1>15

LEMMA BreaksKeeps == ASSUME NEW n \in Numbers PROVE IInv /\ Breaks(n) => IInv'
<1> SUFFICES ASSUME IInv, Breaks(n) PROVE IInv'
  OBVIOUS
<1> USE DEF IInv
<1> DEFINE e == [cache[n] EXCEPT !.fetch = "none", !.reply = NoAnswer, !.failed = TRUE]
<1>1. /\ cache \in [Numbers -> Entry] /\ mutation \in [Senders -> Mutation]
      /\ UNCHANGED <<place, server, url, owed>> /\ cache' = [cache EXCEPT ![n] = e]
  BY DEF CacheKinds, MutationKinds, Breaks
<1>2. e \in Entry /\ e.answer = cache[n].answer /\ e.fetch = "none"
  BY <1>1, NoAnswers DEF Entry
<1> HIDE DEF e
<1> DEFINE w == Resumed(n, FALSE)
<1>3. /\ GoesOn(mutation, n, w)
      /\ \A s \in Senders : mutation[s].at = "refetching" /\ mutation[s].key = n => w[s].wrote = 0
  BY <1>1, ResumedGoesOn
<1>4. Rerender(text, w)
  BY DEF Breaks
<1> HIDE DEF w
<1>5. w \in [Senders -> Mutation]
  BY <1>3 DEF GoesOn
<1>6. SameBut(w, mutation') /\ text' \in {text, "clean"}
  BY <1>4, <1>5, RerenderKinds
<1>7. Meets(e, owed[n])
  BY <1>1, <1>2 DEF Promises, Meets
<1>8. \A s \in Senders : mutation[s].key = n /\ mutation[s].at = "settling" => Meets(e, mutation[s].wrote)
  BY <1>1, <1>2 DEF Promises, Meets
<1>9. \A s \in Senders : mutation[s].key = n /\ mutation[s].at = "refetching" => Meets(e, w[s].wrote)
  <2>1. e.answer.version \in Nat
    BY <1>2, MaxEventsAssumption DEF Entry, Answer
  <2> QED
    BY <1>2, <1>3, <2>1 DEF Meets
<1>10. CacheKinds' /\ MutationKinds' /\ Promises' /\ TakesBack' /\ UNCHANGED <<Sent("button"), Sent("form")>>
  <2>1. e.answer \in Real(server.version) \cup {NoAnswer}
    BY <1>1, <1>2 DEF CacheKinds
  <2>2. IInv /\ UNCHANGED <<place, server, owed>>
    BY <1>1
  <2> HIDE DEF IInv
  <2> QED
    BY <1>1, <1>2, <1>3, <1>6, <1>7, <1>8, <1>9, <2>1, <2>2, EndedKeeps
<1>11. Counts'
  BY <1>1, <1>10, CountsKept DEF Breaks
<1>12. PlaceKinds'
  BY <1>1, <1>6, SamePlace DEF PlaceKinds
<1>13. TextKept'
  BY <1>1, <1>3, <1>4, <1>5, RerenderedKept DEF GoesOn, Senders
<1> QED
  BY <1>10, <1>11, <1>12, <1>13

-----------------------------------------------------------------------------
(* The theorems.                                                            *)

LEMMA InitIInv == Init => IInv
<1> SUFFICES ASSUME Init PROVE IInv
  OBVIOUS
<1>1. 1 \in Numbers /\ NotLoaded \in Entry /\ Idle \in Mutation /\ NoAnswer \in Answer
  BY NoAnswers DEF Numbers
<1>2. PlaceKinds
  <2>1. PICK name \in DOMAIN Pages : \E q \in Pages[name].queries : \E f \in DOMAIN Pages[name].forms \cup {"none"} :
                                       place = [page |-> name, query |-> q, form |-> f]
    BY DEF Init
  <2>2. PICK q \in Pages[name].queries : \E f \in DOMAIN Pages[name].forms \cup {"none"} :
                                             place = [page |-> name, query |-> q, form |-> f]
    BY <2>1
  <2> QED
    BY <1>1, <2>2 DEF Init, PlaceKinds, page, query
<1>3. Counts
  <2>1. /\ server.version = 1 /\ server.pages \in Numbers /\ server = [version |-> server.version, pages |-> server.pages]
        /\ left = MaxEvents /\ owed = [n \in Numbers |-> 0]
    BY DEF Init, Numbers
  <2>2. Sent("button") = 0 /\ Sent("form") = 0
    BY DEF Init, Sent, Idle, Senders
  <2> QED
    BY <2>1, <2>2, MaxEventsAssumption DEF Counts
<1> DEFINE unasked == [n \in Numbers |-> NotLoaded]
<1>4. unasked \in [Numbers -> Entry] /\ cache = Mounted(1, unasked) /\ url = 1
  BY <1>1 DEF Init
<1>5. \A n \in Numbers : unasked[n].answer = NoAnswer /\ unasked[n].fetch = "none"
  BY DEF NotLoaded
<1> HIDE DEF unasked
<1>6. cache \in [Numbers -> Entry] /\ \A n \in Numbers : cache[n].answer = NoAnswer /\ cache[n].fetch # "read"
  BY <1>1, <1>4, <1>5, MountedQuiet DEF Quieter
<1>7. CacheKinds
  BY <1>6 DEF CacheKinds
<1>8. mutation \in [Senders -> Mutation] /\ \A s \in Senders : mutation[s] = Idle
  BY <1>1 DEF Init
<1>9. MutationKinds
  BY <1>3, <1>8, IdleFields DEF MutationKinds, Counts, Senders
<1>10. Promises
  BY <1>6, <1>8, IdleFields DEF Promises, Meets
<1>11. TakesBack /\ TextKept
  BY <1>8, IdleFields DEF TakesBack, TextKept, Senders, Init
<1> QED
  BY <1>2, <1>3, <1>7, <1>9, <1>10, <1>11 DEF IInv

LEMMA NextKeeps == IInv /\ [Next]_vars => IInv'
<1> SUFFICES ASSUME IInv, [Next]_vars PROVE IInv'
  OBVIOUS
<1>1. CASE Next
  BY <1>1, TypeKeeps, SubmitKeeps, LeaveKeeps, PressKeeps, TurnKeeps, CorrectsKeeps, AsksKeeps, AppliedKeeps,
     SucceedsKeeps, FailsKeeps, TakenBackKeeps, ButtonSettlesKeeps, FormSettlesKeeps, ReadsKeeps, LandsKeeps,
     BreaksKeeps, CollectedKeeps, ElsewhereKeeps
  DEF Next, Poll, Refocus
<1>2. CASE UNCHANGED vars
  <2>1. UNCHANGED <<place, server, url, cache, mutation, text, owed, left>>
    BY <1>2 DEF vars
  <2> QED
    BY <2>1, SamePlace
    DEF IInv, PlaceKinds, Counts, CacheKinds, MutationKinds, Promises, TakesBack, TextKept, Meets, Sent, Shown, Renders
<1> QED
  BY <1>1, <1>2

LEMMA Invariance == Spec => []IInv
  BY InitIInv, NextKeeps, PTL DEF Spec

\* The tab never leaves the states the hooks can be in: whatever the page, the answers
\* and the mutations in flight.
THEOREM TabTyped == Spec => []TypeOK
  BY Invariance, KindsAreTypes, PTL

\* A page that has stopped saying it is saving shows what was saved, on every page
\* of the application and for any number of saves, polls, retries and page turns.
THEOREM WritesAreRead == Spec => []ReadYourWrites
<1>1. IInv => ReadYourWrites
  BY DEF IInv, Promises, Meets, ReadYourWrites
<1> QED
  BY <1>1, Invariance, PTL

\* The forms keep what was typed in them, but for the ones that are listed.
THEOREM TextStays == Spec => NothingTypedIsLost
<1> DEFINE Excused ==
          \/ Leave
          \/ Turn
          \/ FormSettles /\ mutation["form"].mine
                /\ (text = "sent" \/ place.form \in ClearedByOwnSave)
          \/ FormSettles /\ ~mutation["form"].mine /\ place.form \in ClosedByOlderSave
          \/ place.form \in LostToErrors  /\ \E n \in Numbers : Breaks(n)
          \/ place.form \in LostToAnswers /\ \E n \in Numbers : Lands(n)
          \/ place.form \in LostToCorrection /\ Corrects
<1>1. ASSUME IInv, Next, text # "clean", text' = "clean"
      PROVE  Excused
  <2>1. Allowed(place.page, place.form, fm) /\ Shown(fm) /\ cache \in [Numbers -> Entry] /\ url \in Numbers
    BY <1>1, HereAllowed DEF IInv, TextKept, CacheKinds, PlaceKinds
  <2>2. CASE Leave \/ Turn
    BY <2>2
  <2>3. CASE FormSettles
    <3>1. CASE mutation["form"].mine
      <4>1. mutation["form"].at = "settling" /\ ~(fm.keeps /\ text = "typed")
        BY <1>1, <2>3, <3>1 DEF FormSettles, Settled
      <4>2. text = "sent" \/ place.form \in ClearedByOwnSave
        BY <1>1, <3>1, <4>1 DEF IInv, TextKept, PlaceKinds
      <4> QED
        BY <2>3, <3>1, <4>2
    <3>2. CASE ~mutation["form"].mine
      BY <1>1, <2>1, <2>3, <3>2 DEF FormSettles, Allowed
    <3> QED
      BY <3>1, <3>2
  <2>4. CASE Corrects
    <3>1. fm.host = query /\ query \in PagedQueries
      BY <1>1, <2>1, <2>4 DEF Corrects, Rerender, Renders, paged
    <3> QED
      BY <2>1, <2>4, <3>1 DEF Allowed
  <2>5. ASSUME NEW n \in Numbers, Lands(n)
        PROVE  Excused
    <3>1. cache[n].reply # NoAnswer
      BY <1>1, <2>5 DEF IInv, CacheKinds, Lands, Real, NoAnswer, Counts
    <3>2. (cache'[url].failed = FALSE /\ cache'[url].answer # NoAnswer) \/ cache'[url] = cache[url]
      BY <2>1, <2>5, <3>1 DEF Lands, NotLoaded
    <3>3. Renders(fm, cache'[url']) /\ url' = url
      BY <2>1, <2>5, <3>2 DEF Lands, Renders, Shown
    <3>4. fm.rows \/ fm.adopts
      BY <1>1, <2>5, <3>3 DEF Lands, Rerender
    <3> QED
      BY <2>1, <2>5, <3>4 DEF Allowed
  <2>6. ASSUME NEW n \in Numbers, Breaks(n)
        PROVE  Excused
    <3>1. cache'[url].answer = cache[url].answer /\ url' = url
      BY <2>1, <2>6 DEF Breaks, Entry
    <3>2. ~Renders(fm, cache'[url])
      BY <1>1, <2>6, <3>1 DEF Breaks, Rerender
    <3>3. fm.hides
      BY <2>1, <3>1, <3>2 DEF Renders, Shown
    <3> QED
      BY <2>1, <2>6, <3>3 DEF Allowed
  <2>7. CASE Type \/ Submit \/ Press \/ Asks \/ TakenBack \/ ButtonSettles \/ Elsewhere
    BY <1>1, <2>7 DEF Type, Submit, Press, Asks, TakenBack, ButtonSettles, Elsewhere
  <2>8. ASSUME NEW s \in Senders, Applied(s) \/ Succeeds(s) \/ Fails(s)
        PROVE  FALSE
    BY <1>1, <2>8 DEF Applied, Succeeds, Fails
  <2>9. ASSUME NEW n \in Numbers, Reads(n) \/ Collected(n)
        PROVE  FALSE
    BY <1>1, <2>9 DEF Reads, Collected
  <2> HIDE DEF Excused
  <2> QED
    BY <1>1, <2>2, <2>3, <2>4, <2>5, <2>6, <2>7, <2>8, <2>9 DEF Next, Poll, Refocus
<1>2. IInv /\ [Next]_vars => [text # "clean" /\ text' = "clean" => Excused]_vars
  <2> HIDE DEF Excused
  <2> QED
    BY <1>1
<1> QED
  BY <1>2, Invariance, PTL DEF Spec, NothingTypedIsLost
=============================================================================
