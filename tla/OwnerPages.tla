----------------------------- MODULE OwnerPages -----------------------------
(***************************************************************************)
(* The owner's pages of the web application, as tables: the queries a page *)
(* shows, the mutations its buttons and forms send, what each of them      *)
(* changes on the server and which queries it makes stale, what disables   *)
(* or hides each part of a page, and what becomes of the text in a form.   *)
(* OwnerTab gives the tables their behaviour.                              *)
(***************************************************************************)
EXTENDS Naturals, FiniteSets

(* Two tables as one. *)
f @@ g == [x \in DOMAIN f \cup DOMAIN g |-> IF x \in DOMAIN f THEN f[x] ELSE g[x]]

-----------------------------------------------------------------------------
(* Queries: which are asked again by a timer, and which are asked per page. *)

PolledQueries == {"videoPage", "sharedVideoPage", "restreamConfig", "alertDashboard", "adminDashboard"}
PagedQueries  == {"videoPage", "sharedVideoPage", "donationPage"}

-----------------------------------------------------------------------------
(* What a mutation changes, per query that would answer differently.        *)

accountWrites ==
    [ setSlug                   |-> {"userInfo"},
      updateQueueCurrency       |-> {"userInfo"},
      updatePublicQueueSettings |-> {"userInfo"} ]

integrationWrites ==
    [ op \in {"disconnect", "connectDonateStream", "connectTourniquet"} |-> {"userInfo"} ]

videoWrites ==
    [ createVideoQueue    |-> {"videoQueues"},
      updateVideoQueue    |-> {"videoQueues", "videoPage"},
      moveVideo           |-> {"videoPage"},
      addVideo            |-> {"videoPage"},
      updateVideoPriority |-> {"videoPriorities", "videoPage"},
      updateVideoStatus   |-> {"videoPage"},
      retryVideoMetadata  |-> {"videoPage"},
      updateVideo         |-> {"videoPage"} ]

restreamWrites ==
    [ op \in {"createDestination", "updateDestination", "setDestinationEnabled", "deleteDestination",
              "rotateIngestKey"} |-> {"restreamConfig"} ]

alertWrites ==
    [ op \in {"updateSettings", "rotateAlertOverlay", "test", "setPaused", "skip", "replay",
              "uploadAsset", "deleteAsset"} |-> {"alertDashboard"} ]

chatWrites ==
    [ connectBoosty      |-> {"chatConfig"},
      disconnectSource   |-> {"chatConfig"},
      setSourceEnabled   |-> {"chatConfig"},
      rotateChatOverlay  |-> {"chatConfig"},
      refreshSource      |-> {},
      broadcast          |-> {} ]

(* The search box of the donations is saved by a navigation, which writes nothing *)
(* and is never refused.                                                          *)
Navigations == [searchDonations |-> {}]

Writes == accountWrites @@ integrationWrites @@ videoWrites @@ restreamWrites @@ alertWrites @@ chatWrites @@ Navigations
Operations == DOMAIN Writes

-----------------------------------------------------------------------------
(* What the hook of a mutation invalidates when it has succeeded.           *)

accountHooks ==
    [ setSlug                   |-> {"userInfo"},
      updateQueueCurrency       |-> {"userInfo", "videoPage", "donationPage", "videoPriorities"},
      updatePublicQueueSettings |-> {"userInfo", "sharedVideoPage"},
      disconnect                |-> {"userInfo"},
      connectDonateStream       |-> {"userInfo", "donationPage", "donationOverview"},
      connectTourniquet         |-> {"userInfo", "donationPage", "donationOverview"} ]

movesSilently ==
    [ op \in {"createVideoQueue", "updateVideoQueue", "moveVideo"} |-> {"videoQueues", "sharedVideoPage"} ]

useVideoQueueMutations ==
    [ op \in {"createVideoQueue", "updateVideoQueue", "moveVideo"} |->
        {"videoQueues", "videoPage", "videoPriorities", "sharedVideoPage", "donationPage"} ]

videoHooks ==
    [ retryVideoMetadata  |-> {"videoPage"},
      addVideo            |-> {"videoPage"},
      updateVideoPriority |-> {"videoPriorities", "videoPage", "donationPage"},
      updateVideoStatus   |-> {"videoPage", "donationPage"},
      updateVideo         |-> {"videoPage", "donationPage"} ]

useRestreamMutations == [ op \in DOMAIN restreamWrites |-> {"restreamConfig"} ]

useAlertMutations == [ op \in DOMAIN alertWrites |-> {"alertDashboard"} ]

useChatServiceMutations ==
    [ op \in DOMAIN chatWrites |->
        IF op \in {"refreshSource", "broadcast"} THEN {} ELSE {"chatConfig"} ]

Invalidates == accountHooks @@ useVideoQueueMutations @@ videoHooks @@ useRestreamMutations
               @@ useAlertMutations @@ useChatServiceMutations @@ Navigations

(* Two hooks start the refetch without waiting for it. *)
Unawaited == {"connectBoosty", "rotateChatOverlay"}

(* setSourceEnabled shows its outcome before the server has answered, and *)
(* takes it back when the server refuses.                                 *)
Optimistic == {"setSourceEnabled"}

-----------------------------------------------------------------------------
(* The vocabulary of the tables.                                            *)
(*   a part:   host is the query it is rendered from; hides: an error of    *)
(*             that query replaces it; rows: it belongs to a listed row     *)
(*   a button: op is what it sends, blockedBy the pending mutations that    *)
(*             disable it                                                   *)
(*   a form:   saves are the mutations of its submit button, whose hook     *)
(*             belongs to the form or (shared) to the page; frozenBy and    *)
(*             heldBy disable its inputs and its way out, which may not     *)
(*             exist (leave = FALSE); a save that succeeds drops the text   *)
(*             of the form that sent it and, if late, of any form open in   *)
(*             its place; detaches: typing forgets the save in flight;      *)
(*             adopts: a changed answer replaces the text; rewinds: a save  *)
(*             goes back to the first page; keeps: it clears the text only  *)
(*             if it is still the text that was sent                        *)

Part(query, hides, rows) == [host |-> query, hides |-> hides, rows |-> rows]

Buttons(ops, blockedBy) == [op: ops, blockedBy: {blockedBy}]

On(part, buttons) ==
    { [op |-> button.op, blockedBy |-> button.blockedBy,
       host |-> part.host, hides |-> part.hides, rows |-> part.rows] : button \in buttons }

In(part, form) == [form EXCEPT !.host = part.host, !.hides = part.hides, !.rows = part.rows]

Form(saves) ==
    [ host |-> "none", hides |-> FALSE, rows |-> FALSE,
      saves |-> saves, shared |-> FALSE, frozenBy |-> {}, heldBy |-> {}, leave |-> TRUE,
      keeps |-> FALSE, late |-> FALSE, detaches |-> FALSE, adopts |-> FALSE, rewinds |-> FALSE ]

-----------------------------------------------------------------------------
(* The video page.                                                          *)

(* OwnerVideoCard: one mutation at a time over all cards; the queue of a video *)
(* is chosen from a list of two or more queues.                                *)
CardMutations == {"updateVideoStatus", "updateVideo", "moveVideo", "retryVideoMetadata"}
MoveControl   == Buttons({"moveVideo"}, {"moveVideo", "updateVideo"})

VideoStatusControls == Buttons({"updateVideoStatus"}, CardMutations)

(* VideoMetadataStatus: only while the duration is unknown and a retry is due. *)
VideoMetadataStatus == Buttons({"retryVideoMetadata"}, CardMutations)

VideoCard == VideoStatusControls \cup VideoMetadataStatus

(* VideoQueueResults: nothing of a card is left when a refetch has failed, or *)
(* when its video is no longer among the answer's items.                      *)
VideoQueueResults == Part("videoPage", TRUE, TRUE)

VideoEditForm(form) == [form EXCEPT !.frozenBy = CardMutations, !.heldBy = CardMutations]
useVideoEditor      == [Form({"updateVideo"}) EXCEPT !.shared = TRUE]

(* AddVideoForm: frozen and held while it is saving, but the button of the page's *)
(* header closes and reopens it at any time; its continuation closes what is open. *)
VideoQueueHeader(form) == [form EXCEPT !.heldBy = {}]
addVideo               == [Form({"addVideo"}) EXCEPT !.late = TRUE]
VideoQueueContent      == Part("videoPage", FALSE, FALSE)
AddVideoForm           == VideoQueueHeader([addVideo EXCEPT !.frozenBy = {"addVideo"}])

(* QueueForm: frozen while saving; a click on any other queue closes it.     *)
useQueueForm             == Form({"createVideoQueue", "updateVideoQueue"})
neverFrozen(form)        == [form EXCEPT !.frozenBy = {}]
QueueFormControls(form)  == [form EXCEPT !.frozenBy = form.saves]
QueueTab(form)           == [form EXCEPT !.heldBy = {}]
VideoQueueControls(form) == In(Part("videoQueues", FALSE, FALSE), [form EXCEPT !.rewinds = TRUE])
QueueForm                == VideoQueueControls(QueueTab(QueueFormControls(useQueueForm)))

useVideoPriorityEditor == Form({"updateVideoPriority"})
PriorityForm           == [useVideoPriorityEditor EXCEPT !.heldBy = {"updateVideoPriority"}]
VideoPriorities        == Part("videoPriorities", TRUE, FALSE)

(* SlugEditor: read from userInfo, which suspends the page until it is there *)
(* and never shows a failed refetch.                                         *)
useSlugEditor == [Form({"setSlug"}) EXCEPT !.leave = FALSE]
SlugEditor    == In(Part("userInfo", FALSE, FALSE), useSlugEditor)

VideoQueue ==
    [ queries |-> {"userInfo", "videoPage", "videoQueues", "videoPriorities"},
      buttons |-> On(VideoQueueResults, VideoCard \cup MoveControl),
      forms   |-> [ VideoEditor  |-> In(VideoQueueResults, VideoEditForm(useVideoEditor)),
                    AddVideo     |-> In(VideoQueueContent, AddVideoForm),
                    QueueForm    |-> QueueForm,
                    PriorityForm |-> In(VideoPriorities, PriorityForm),
                    SlugEditor   |-> SlugEditor ] ]

-----------------------------------------------------------------------------
(* Settings.                                                                *)

(* QueueCurrencyEditor: its effect sets the rate again whenever the account's *)
(* currency changes under it.                                                 *)
QueueCurrencyEditor ==
    In(Part("userInfo", FALSE, FALSE),
       [Form({"updateQueueCurrency"}) EXCEPT !.heldBy = {"updateQueueCurrency"}, !.adopts = TRUE])

PublicQueueSettingsEditor ==
    In(Part("userInfo", FALSE, FALSE), [Form({"updatePublicQueueSettings"}) EXCEPT !.leave = FALSE])

Settings ==
    [ queries |-> {"userInfo"}, buttons |-> {},
      forms   |-> [ QueueCurrency |-> QueueCurrencyEditor, PublicQueue |-> PublicQueueSettingsEditor ] ]

-----------------------------------------------------------------------------
(* Integrations.                                                            *)

(* DonationConnectionAction, WidgetIntegrationCard: a source's button waits for *)
(* its own disconnection only.                                                  *)
DonationConnectionAction == Buttons({"disconnect"}, {"disconnect"})
WidgetIntegrationCard    == Buttons({"disconnect"}, {"disconnect"})

(* WidgetConnectionForm: the dialog can be closed at any time, and typing resets *)
(* the mutation, whose success then no longer closes the form.                   *)
WidgetConnectionForm(connect) ==
    In(Part("userInfo", FALSE, FALSE), [Form({connect}) EXCEPT !.detaches = TRUE])

DonateStreamConnectionForm == WidgetConnectionForm("connectDonateStream")
TourniquetConnectionForm   == WidgetConnectionForm("connectTourniquet")

Integrations ==
    [ queries |-> {"userInfo"},
      buttons |-> On(Part("userInfo", FALSE, FALSE), DonationConnectionAction \cup WidgetIntegrationCard),
      forms   |-> [ DonateStream |-> DonateStreamConnectionForm, Tourniquet |-> TourniquetConnectionForm ] ]

-----------------------------------------------------------------------------
(* Multistream.                                                             *)

GenerateIngestKeyButton == Buttons({"rotateIngestKey"}, {"rotateIngestKey"})
RotateIngestKeyButton   == Buttons({"rotateIngestKey"}, {"rotateIngestKey"})
IngestSetup             == GenerateIngestKeyButton \cup RotateIngestKeyButton

(* DestinationList: either of the two mutations of its rows disables all rows. *)
DestinationRowActions ==
    LET mutationBusy == {"deleteDestination", "setDestinationEnabled"}
    IN  Buttons(mutationBusy, mutationBusy)

(* DestinationForm: nothing is disabled while it is saving but its submit button;  *)
(* DestinationList: its continuation closes whatever form the list has open by then. *)
DestinationForm == Form({"createDestination", "updateDestination"})
DestinationList == [DestinationForm EXCEPT !.late = TRUE]

(* MultistreamPage: an error of the polled configuration replaces the page. *)
MultistreamPage ==
    LET page == Part("restreamConfig", TRUE, FALSE)
    IN  [ queries |-> {"restreamConfig"},
          buttons |-> On(page, IngestSetup \cup DestinationRowActions),
          forms   |-> [ Destination |-> In(page, DestinationList) ] ]

-----------------------------------------------------------------------------
(* Alerts.                                                                  *)

AlertsHeader   == Buttons({"setPaused"}, {"setPaused"}) \cup Buttons({"test"}, {"test"})
useOverlayAccess == {"rotateAlertOverlay"}
OverlayButtons   == Buttons(useOverlayAccess, useOverlayAccess)
PlaybackPanels == Buttons({"skip"}, {"skip"}) \cup Buttons({"replay"}, {"replay"})
uploadAlertAsset == {"uploadAsset"}
AssetControl     == Buttons(uploadAlertAsset, uploadAlertAsset) \cup Buttons({"deleteAsset"}, {})

(* useAlertEditor: one draft for the whole page, replaced by every answer until it *)
(* is touched, never disabled and without a way out; a save that succeeds marks    *)
(* all of it untouched.                                                            *)
useAlertEditor == [Form({"updateSettings"}) EXCEPT !.leave = FALSE, !.shared = TRUE]

(* AlertsPage: an error replaces the page only while there is nothing to show. *)
AlertsPage ==
    LET page == Part("alertDashboard", FALSE, FALSE)
    IN  [ queries |-> {"alertDashboard"},
          buttons |-> On(page, AlertsHeader \cup OverlayButtons \cup PlaybackPanels \cup AssetControl),
          forms   |-> [ AlertEditor |-> In(page, useAlertEditor) ] ]

-----------------------------------------------------------------------------
(* Chat.                                                                    *)

ConnectionActions == Buttons({"refreshSource"}, {"refreshSource"})
                     \cup Buttons({"setSourceEnabled"}, {"setSourceEnabled"})
DisconnectDialog  == Buttons({"disconnectSource"}, {"disconnectSource"})
OverlayFooter     == Buttons({"rotateChatOverlay"}, {"rotateChatOverlay"})

(* useChatPageModel: the message and its mutation are the page's. *)
useChatPageModel     == [Form({"broadcast"}) EXCEPT !.leave = FALSE, !.shared = TRUE]
ChatComposer         == [useChatPageModel EXCEPT !.keeps = TRUE]
BoostyConnectionForm == [Form({"connectBoosty"}) EXCEPT !.frozenBy = {"connectBoosty"}, !.heldBy = {"connectBoosty"}]

(* ChatPage: an error leaves the last configuration on screen. *)
ChatPage ==
    LET page == Part("chatConfig", FALSE, FALSE)
    IN  [ queries |-> {"chatConfig"},
          buttons |-> On(page, ConnectionActions \cup DisconnectDialog \cup OverlayFooter),
          forms   |-> [ Composer |-> In(page, ChatComposer), Boosty |-> In(page, BoostyConnectionForm) ] ]

-----------------------------------------------------------------------------
(* Pages that send nothing.                                                 *)

(* DonationsIndex: the search box is saved by a timer, as the query of the first *)
(* page; when the navigation arrives, the box shows the query of the address.    *)
DonationsIndex ==
    [ queries |-> {"donationPage"}, buttons |-> {},
      forms   |-> [ Search |-> [Form({"searchDonations"}) EXCEPT !.leave = FALSE, !.shared = TRUE,
                                                                 !.rewinds = TRUE] ] ]

SharedVideoQueue  == [queries |-> {"sharedVideoPage"},              buttons |-> {}, forms |-> <<>>]
Overview          == [queries |-> {"userInfo", "donationOverview"}, buttons |-> {}, forms |-> <<>>]
AdminOverviewPage == [queries |-> {"adminDashboard"},               buttons |-> {}, forms |-> <<>>]
DeadLettersPage   == [queries |-> {"deadLetters"},                  buttons |-> {}, forms |-> <<>>]

Pages ==
    [ videos |-> VideoQueue, settings |-> Settings, integrations |-> Integrations,
      multistream |-> MultistreamPage, alerts |-> AlertsPage, chat |-> ChatPage,
      donations |-> DonationsIndex, shared |-> SharedVideoQueue, overview |-> Overview,
      admin |-> AdminOverviewPage, deadLetters |-> DeadLettersPage ]
=============================================================================
