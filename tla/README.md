# Formal model of StreamBrew's services

StreamBrew shows donation alerts in a streamer's OBS overlay, ingests the
donations of a dozen providers, collects videos that viewers ask for, aggregates
chats and forwards a stream to several destinations.  The repository is a web
application (`apps/web`), five Go services (`apps/*`, `internal/*`), PostgreSQL
and NATS.  This directory holds TLA+ specifications of its stateful core, the TLC
configurations that check them and proofs that TLAPS checks.

    tlc -config AlertQueue_players.cfg AlertQueueMC.tla     # any run
    tlapm AlertQueueProofs.tla                            # any proof module

Paths below are relative to the repository root.

## 1. Inventory

| Component | State | Operations | Talks to | Module |
|---|---|---|---|---|
| **Donation alert queue** `internal/donationalert/store*.go`, `worker.go`, `retention.go` | rows of `donation_alert_playback`, `_player`, `_overlay`, `_configuration` (`db/schema.sql`) | enqueue, test, replay, skip, pause, settings, overlay rotation; open/heartbeat/release/stream/claim/start/finish of a player; claim/complete/fail a speech preparation; retention | ingestion (`EnqueueIncoming`), dashboard, stream, widget, speech workers | `AlertQueue`, `AlertDelivery` |
| **Alert stream and widget** `internal/donationalert/application.go`, `http.go`, `apps/web/src/hooks/use-alert-overlay.ts`, `components/alert-player-runtime.ts` | the stream's `current`; the page's signals, identity, playback, suppressed alerts, timers and requests | open, heartbeat, poll, emit, preload, acknowledge, present, release | the alert queue, OBS | `AlertWidget` |
| **Alert assets** `internal/donationalert/store.go`, `retention.go`, `apps/web/src/server/donation-alert/http.ts` | upload slots of two servers, assets and their references | upload, select, capture, delete, sweep | settings page, player, retention | `AlertAssets` |
| **Donation ingestion** `internal/donations/application.go`, `store.go`, `provider.go` | one connection row per user and provider; donation rows; the supervisor's map of listeners; per-listener grant, version and checkpoint | connect, disconnect, supervise, listen, rotate tokens, recent and full history passes | provider REST and socket, the alert queue, video scan | `DonationIngest` |
| **Connecting a provider** `apps/web/src/server/api/integration.ts`, `server/donation-oauth-state.ts`, `internal/donations/http.go` | a state cookie per provider, the signed-in account | authorize, callback, connect | the browser, providers, ingestion | `ProviderConnect` |
| **DonationAlerts request limiter** `internal/donationalerts/request_limiter.go` | three channels, two burst counters | wait, run | every REST call of `client.go` | `RequestLimiter` |
| **Video queues** `apps/web/src/server/video-queue`, triggers of `db/schema.sql` | currency, queues, thresholds, video rows | add, edit, move, mark, set threshold, change currency, read a page | the scan and metadata workers | `VideoQueue` |
| **Video scan and metadata** `internal/videoingest` | scan and metadata jobs with lease and generation | claim, complete, retry, give up | donation rows, video rows | `VideoQueue` |
| **Restream node and control plane** `internal/restream`, `apps/web/src/server/restream` | destinations, key and sessions in the database; the node's session map; heartbeats | create, enable, delete, rotate, authorize, online, offline, heartbeat | MediaMTX | `Restream` |
| **Chat stream** `internal/chat/nats.go`, `apps/web/src/hooks/use-chat-service-stream.ts` | the state bucket; a subscription; the page's view | publish, put, subscribe, check the link, reduce, retry | collectors, the web server | `ChatStream` |
| **The owner's pages** `apps/web/src/routes/_authenticated`, `hooks`, `components` | cached answers, mutations in flight, forms | press, type, submit, poll, refetch, turn a page | every service above | `OwnerPages`, `OwnerTab` |
| **Live-only ingestion** `internal/donations/live_listeners.go`, `donate_stream.go`, `tourniquet.go` | map of listeners by credential | reconcile, complete, insert | Donate.Stream, Tourniquet widgets | |
| **DonationAlerts socket session** `internal/donationalerts/socket_session.go` | recovery position per channel | subscribe, recover, push | Centrifugo | |
| **Chat collectors and credentials** `internal/chat/collectors.go`, `token_refresh.go` | collector leases, credentials with a version | reconcile, refresh, publish | chat providers | |
| Protocol clients, transcoding and speech synthesis, money, logging, generated code, wiring | none that outlives a call | | | |

What makes each of them correct:

* **Alert queue.** One alert plays at a time, in acceptance order; an alert a
  renderer committed to is never shown again; outcomes are final; every alert gets
  an outcome; the backlog is bounded.  Hard because two players, speech workers,
  the dashboard and the sweeps run transactions in any order with clocks of
  different replicas, and because a renderer's requests arrive late and twice.
* **Stream and widget.** What is on screen is committed; nothing is rendered
  twice; a skip reaches the page before the next playback; a hidden source falls
  silent; the page always gets going again.  Hard because React's effects run
  after other callbacks, and every request may be lost, repeated or late.
* **Assets.** Media of an open playback outlives the asset; upload slots come back
  whatever fails.
* **Ingestion.** One listener per connection, kept while it serves; writers of a
  replaced connection change nothing; a donation is offered to the alert queue at
  most once and history never is; the paging checkpoint never skips a row that could be stored; a
  connection ends only when its own credentials are refused.  Hard because
  snapshots, completions, refusals and batches are used after the row has moved on.
* **Connecting a provider.** An account gets only the grant it asked for.
* **Limiter.** No priority starves; hard because callers come and go between the
  polls of one scan.
* **Video queues.** Every number is in the currency it is shown with, whatever
  transactions a change of currency meets; with one exception, a finding (section 8).
* **Restream.** A path forwards only while the owner has an active session (that the
  forwards are that session's own is not stated); positions stay unique statement by
  statement.
* **Chat stream.** A page that has caught up shows the last state, and its
  messages once and in order, as far as one can without telling an event that the
  broker delivers again from a new one.
* **Pages.** A save is visible once it has settled; text is not lost; a page comes
  to rest.
* **Live-only ingestion, collectors.** As ingestion, but with weaker identities
  (a credential, a lease).

`PROJECT.json` lists every hazard with its line.

## 2. Plan

| # | Module | Composes | Says | State |
|---|---|---|---|---|
| 1 | `AlertDelivery` | | the promise of the alert queue | done |
| 2 | `AlertQueue` | `AlertDelivery` (refined) | the durable queue of one user | done, proved |
| 3 | `RequestLimiter` | | the three-priority limiter | done, proved |
| 4 | `DonationIngest` | | connections, listeners, history of one provider | done, proved |
| 5 | `AlertWidget` | its own view of the queue | one OBS page and its stream | done, proved |
| 6 | `OwnerPages`, `OwnerTab` | tables and their behaviour | the owner's pages in one tab | done, proved |
| 7 | `VideoQueue` | web transactions, trigger, workers | queues, amounts, currency | done, proved |
| 8 | `Restream` | tables, node, media server | multistream of one owner | done, proved |
| 9 | `ChatStream` | broker, two servers, page | one page that follows a chat | done, proved |
| 10 | `AlertAssets` | two servers, tables | uploads and captured images | done, proved |
| 11 | `ProviderConnect` | browser, web server, service | OAuth connections | done, proved |
| 12 | `LiveListeners` | | the supervisor that identifies listeners by credential | left |
| 13 | `ChatCollectors` | | NATS leases, token rotation by replicas | left |
| 14 | `SocketSession` | | recovery positions across reconnects | left |

"Proved" is every safety property the module's runs check.  The proofs are in one
module per row, `<module>Proofs`, but for the last three proved rows: those are in
`OwnerServicesProofs` with the composition of rows 7 to 11.

Bounds stay at two actors of every kind that races and one object more than the
limit under test.

## 3. `AlertQueue`

**Scope.** The queue of one user: every statement filters by user, and the
transactions of a user are serialised by the locks on the configuration, overlay,
player and playback rows.  One action is one transaction, named after its
function.  `playback[r]` is the row with `queue_sequence` r; `player`, `overlay`,
`config` are the other rows; `job[w]` is what a speech worker holds between claim
and report; `issued` remembers the identities handed to widgets.

**Time.** Stored times are relative to the present and `Tick` moves them into the
past.  A handler reads its clock before it waits for locks, on a replica that may
lag, so the `now` it compares with is any member of `-MaxLag .. 0`.

**Requests.** Any identity ever issued may send any request at any later time, so
late, duplicated and reordered acknowledgements need no extra machinery.  A
crashed widget is one that sends nothing more; a crashed speech worker is
`AbandonPreparation`.

**Abstractions.** Amounts, messages, media, settings other than `enabled` and
`tts`, and diagnostics are left out.  `started_at` plus the acknowledgement
timeout is one deadline; attempts and preparation generation are one number
because one statement increments both; terminal rows forget their times because
nothing reads them, except retention by age, which may pick any terminal row.

| Run | Instance | Question |
|---|---|---|
| `queue_players` | 2 alerts, 2 tokens, 2 players, clocks one tick apart, alerts switched on and off, no speech | `OnePlaying`, `ShownToOnePlayer`, `OutcomeIsFinal` and the refinement `Delivers` across takeovers |
| `queue_speech` | two speech workers, two tries, nothing assumed about players | `TypeOK`, `PlayingIsOldest`, `LateWorkerChangesNothing`; `WaitingEnds` under `FairSpec` |
| `queue_streamed` | 3 alerts, backlog 1, a player whose stream is polled | `BacklogBound`; `EveryAlertCloses` under `StreamedSpec` |
| `queue_documented_backlog` | backlog 1 | the documented limit, violated |

Why the bounds suffice: the hazards are races between two holders of the same
thing (two players, two workers, two tokens) about one row while another waits;
three rows, where the limit of the backlog is one, let one play, one wait and one be
turned away, and a recovery overflow it.  Durations of one
or two ticks give every order of lease, expiry and acknowledgement deadlines; the
sizes of the real constants only repeat those orders.

**Fairness.** `FairSpec`: time passes and the speech workers poll for ever, which
is `Worker.Run`'s ticker loop; a synthesis ends by its timeout.  `StreamedSpec`
adds that the current player's stream is polled, which the service does every
`StreamPollEvery` while the connection stands.  Nothing is assumed about the
renderer's acknowledgements.  When a stream ends the service releases its player
(`http.go:422`, `ReleasePlayer`), which ends or gives back what plays; that this call
gets through is not assumed either, since the service may die with the stream.  Then
the row plays until the next player opens, and no property says that one does.

**Proved** (`AlertQueueProofs`, for all constants allowed by the three
assumptions): `TypeOK`; `OnePlaying`, `PlayingHasPlayer`, `PlayingIsOldest`;
`BacklogBound`; `ShownToOnePlayer`; `OutcomeIsFinal`; `LateWorkerChangesNothing`; and
the refinement `Delivers`.  None of these is inductive alone.  `IInv` adds that rows are numbered without gaps, that a
waiting, absent or deleted row was never started and a completed or interrupted
one was, and that an absent player holds no lease.  The argument: each action is
of one of three kinds.  It is `Quiet` (rows end, are given back, prepared,
started or deleted), it `Accepts` the next row, or it `Assigns` a row when no
other plays and none before it waits.  `StepKind` shows this action by action;
everything after it reasons about the three kinds only.  The backlog grows in two ways:
an accepted row was counted by the code, and a recovery gives back the one row that
plays, so one above the limit is all there can be (`BacklogBounded`, on the
cardinality of finite sets).  A worker's report changes something only while the row
is in preparation under the generation of its claim, and its report is the only step
that ends the claim (`LateWorkersHarmless`).

**Finding.** Recovery puts a row back without applying the backlog limit, so a
user can have one waiting row more than `docs/features/donation-alerts.md:94`
says.  The code's own bound is one more, `BacklogBound`.

## 4. `RequestLimiter`

Callers block on one of three unbuffered channels; a goroutine polls them in an
order that depends on the two burst counters, grants, and sleeps.  A poll is one
step, so callers arrive and give up inside a scan; `Drop` is the permit whose
caller has gone, which is charged to nobody.

| Run | Instance | Question |
|---|---|---|
| `limiter_bursts` | bursts 2 and 3, 3 callers, `FairSpec` | `RecoveryBypass`, `RegularBypass`, `EveryOfferEnds` |

The code's bursts, 4 and 4, give the bounds 9 and 24 permits; smaller and unequal
bursts keep the run short and tell the two apart, and the theorems hold for every
pair.

Three callers put one at each priority, and a caller that was served comes again,
so contention never needs more.  Fairness: the goroutine never ends (`WF` of its
steps), and permits are not dropped for ever without one being granted: contexts
end by deadlines of seconds, a scan takes microseconds.

**Proved** (`RequestLimiterProofs`, all bursts, any set of callers): both bounds.
The invariant is a potential: what a waiting request has been passed by, plus what
the current counters still allow before its turn, never exceeds the bound.  It
has to know the position of the scan, because a request that arrives behind the
poll of its own channel waits for one scan more; `Scanned` says which queues were
seen empty and cannot have counted.  `Product` is the one piece of
non-linear arithmetic.

## 5. `DonationIngest`

**Scope.** One user and one OAuth provider.  `conn` is the connection row,
`stored` the donation rows, `listener[l]` the listener goroutines with the
connection they were started with, `running` the supervisor's map entry, `view`
the query result it works from, `worker[h]` the two history passes, `request[r]`
web requests between import and save.  An action is the code between two points
where others can run: a provider call, a transaction, a channel operation.  Every
such action may also fail, before or after the other side did its part.

`running` and `listener[l].published` are the two faces of `runningListener`: the
entry shares an atomic version with its goroutine, and the goroutine publishes a
rotated version before it saves it.  `Restart` loses everything but the tables.

**Provider differences** are three constants: `Cursor` (Streamlabs pages back to
a saved checkpoint, the others take what came after a cutoff), `KeepsRow`
(StreamElements keeps a rejected connection with a status and tells a session
that was never authorized; the others delete the row), and `Histories`.

**Abstractions.** A credential pair is the number of its grant and rotation
always spends the old one, the strictest provider.  `connected_at` is a number
that grows with every inserted row: the column has millisecond precision and two
connections of one user are further apart.  A commit whose answer is lost is
the same action with the listener ending.  StreamElements stores a checkpoint but
never pages by it, so it has none here.

**Rejected rows.** `Malformed` is the set of donations whose row fails validation, and
does so whenever it is read.  `Decoded` leaves them out of every batch, so they are
never stored, but the id of the newest row is the checkpoint all the same.
`CheckpointCovers` therefore says that what paging skips is stored or malformed, and
`EveryDonationStored` speaks of well-formed donations.  A newest row whose very id
cannot be read fails the whole fetch, which is `DropHistory` or a failing connect.

| Run | Instance | Question |
|---|---|---|
| `ingest_history` | Streamlabs style, 2 accounts, 2 interchangeable web requests, one goroutine and the full pass, 2 donations, the first of one account malformed, 2 grants | `CheckpointCovers`, `OfferedOnce`, `FencedWriters`, `HistoryIsSilent` |
| `ingest_supervised` | StreamElements style, 1 account, 1 web request, 2 goroutines, full pass, 1 donation, 2 grants, under `FairSpec` | `OneListener`, `ServingListenerKept`, `OnlyRefusedEnds`; `ConnectionIsServed`, `EveryDonationStored` |

Bounds: two goroutines are a cancelled one that lingers and its replacement; a
third that a wrong completion would start takes the place of one that has ended
(the theorem `OneListenerHolds` is for every number).  Two grants are a connection
and a rotation or a reconnect; two accounts and two donations let a writer of the
old account, and a batch that overlaps another one in part, meet a new connection.
Streamlabs is the style with the most to go wrong in the data, as its checkpoint
moves with every batch; StreamElements the one with the most states of a
connection; the proofs cover every style.  `MaxGrants` also stops an endless
sequence of rotations, which is a hazard of its own (see below).  A tick of the
supervisor waits for a free slot, the bound on goroutines that linger after their
cancellation.

**Fairness.** `FairSpec`: the ten-second ticker and the body of `refreshListeners` go
on (weak fairness of reading the rows or reconciling with them, one of which is always
next); of the completions that stay ready some is received between two ticks (Go's
`select` chooses among ready cases, hence strong fairness); the calls of every
goroutine end by their timeout, while a session may last for ever; the hourly pass
comes round, where not every one meets a failing provider, database or a rotation in
the middle, hence strong fairness of its fetch and its save; and restarts come to an
end.

**Proved** (`DonationIngestProofs`, for every number of accounts, requests,
goroutines, workers, donations and grants, every set of malformed rows and every
provider style): `TypeOK` and
all seven safety properties of the two runs.  They rest on one inductive invariant,
`IInv`, in four parts.  Which grants were refused is not a variable: a listener ends
with a refusal only of the grant it holds (`Refused`), and `SavedGrant` says that this
is the saved one's when the row is still its own.

* `NotAhead`: a row that a goroutine, a worker or the supervisor still holds is
  never ahead of the saved one in (row, version), and when it carries the saved
  generation it carries its account and grant too.  This is what makes the version
  check of `connectionVersionCondition` a fence.  A listener is measured by the
  generation it writes with (`Held`), which differs from its row between
  `SaveTokens` and `Adopt`.
* `Locals` and `Behind`: a listener never holds more than it has published, and a
  snapshot that the supervisor works from is not older than a listener of another
  account.  With `ReplacedBy` this is why an old snapshot stops no serving
  listener (`StoppedIsBehind`).
* `Joins` and `Covered`: a batch that moves the checkpoint contains every well-formed
  donation between the checkpoint of its writer and its head and no malformed one
  (`Clean`), and every row anybody holds is covered up to its own checkpoint.
* `TableOK`: what was offered is stored, and so is what an import covered, and no
  malformed row is.

Of every action only what it does to the saved row matters to the others:
it `Stays`, is `Renewed` or `Ends`, and `MoveKeeps` and `MoveFences` show once that
none of these disturbs the goroutines that do not move.

**A comment that does not hold.** `GetDonations` takes the checkpoint from the newest row before it looks
whether that row was decoded (`internal/streamlabs/client.go:208`), and
`client_test.go:139` and `docs/integrations/streamlabs.md:118` expect that: a malformed
row must not block later ones.  The comment on `DonationBatch.Rejected`
(`internal/donations/provider.go:94`) says that rejected rows are never used as
checkpoints; in `ingest_history`, whose first donation is malformed, they are.  The
price is that a row rejected today is not read again by Streamlabs' paging after the
code has learnt to decode it.

**Limits of the two runs.** `ingest_supervised` has no checkpoint, so
`EveryDonationStored` says nothing of paging; that is `CheckpointCovers`' part.
`OnlyRefusedEnds` says that a connection ends only by a refusal; that a rotated grant
is not lost before it is saved does not hold, and is no property.

## 6. `AlertWidget`

**Scope.** One page of the overlay, the stream the service keeps for it and the
queue as far as those two can see it: `status`, the lease (`player`), the poll's
`current`.  It is a second, smaller view of the queue, not a composition with
`AlertQueue`: alerts do not age, nothing is synthesised, there is one token, and
another page is only somebody who opens late (`StrayArrives`).

**React.** Refs change at once, state only with a render.  `view` is what the
effects were last run for and `Commit` is one flush: cleanups of every effect whose
dependencies changed, then the new effects, the player's before those of the hook.
Everything between a callback and that flush runs on old effects, and this is
where the page's races are.

**Requests.** An attempt whose answer is lost is repeated (`StartUnanswered`,
`EndUnanswered`); one that was aborted may still arrive: a `stray`.

| Run | Instance | Question |
|---|---|---|
| `widget_overlay` | 2 alerts, in OBS, the document hidden and shown, 2 identities, 1 stray, 3 disturbances, under `FairSpec` | `TypeOK`, `RenderedIsCommitted`, `WithdrawnBeforeNext`, `RenderedOnce`; `HiddenFallsSilent`, `EveryAlertEnds` |
| `widget_requeued` | the same with 2 disturbances | a comment of the store, violated |

Bounds: two alerts are one on screen and the next; the second identity is a
reconnect, the opening of another page or a stray that is granted.  A fault (lost
answer, broken stream, reload, spurious expiry) weighs two disturbances and a source
change one, so a run has one fault with a hide, or three hides and shows.  That more
identities, alerts and faults bring nothing new for the safety properties is proved.
Identities are a bound of the model, so `EveryAlertEnds` asks in addition that it is
not the bound which keeps the page from opening again.

**Fairness.** Timers fire, callbacks and effects run, the service polls, a request
is answered in the end and a lease nobody renews runs out.  Nothing is assumed of
OBS; `EveryAlertEnds` asks for a source that stays visible.

**Finding.** Between a refused heartbeat and the cleanup that aborts the stream,
the event loop still adopts a playback of the lease it lost, and runs it under the
next identity.  When the same alert is assigned again to that identity it is
rendered a second time, which `internal/donationalert/store_player.go:82` says
never happens.  `RenderedOnce` is what does hold.

**Proved** (`AlertWidgetProofs`, for every set of alerts and every bound): `TypeOK`,
`RenderedIsCommitted`, `WithdrawnBeforeNext` and `RenderedOnce`.  The argument goes
along the lease: only its loss queues an alert again, so all that a stream sent stays
out of the queue while its identity is honoured.  `IInv` has these parts beside the
types.

* `Lease`, `Links`: one alert plays, of the player's row, which has the last identity
  issued; a stream belongs to the identity the effects were run for, and the page
  holds nothing of it before it is open.
* `Runs`, `Final`: a run is of the playback rendered last; what was rendered, and what
  any request that can still arrive calls finished, is never queued again.
* `Distinct`, `Tracked`, `Withdrawn`: the playback the page holds and those still on
  the wire are one sequence (`Given`, `What`).  No alert comes twice in it; the poll's
  `current` is the last one or that was completed; and without a withdrawal between
  them only a completed one has a successor.  `WithdrawnBeforeNext` is the last for
  index 0.
* `Once`: after the rendering of an own playback the page holds what it rendered, with
  the effects run for it, until it loses that, and neither the wire nor the page has
  it again.  This is false for a playback of a lost identity, which is the finding.

`QueueMoves` says what any step does to the rows and the lease, `Kinds` and `RunStep`
what it does to the page; each part of the invariant is shown from those alone, with
one lemma for a calm step, an opened stream, a received event, a flush and a poll.

**Not modelled.** Drawing, a medium that is paused and resumed, several pages at
once, and the wait before an attempt is repeated.

## 7. `OwnerPages` and `OwnerTab`

`OwnerPages` is a set of tables read off the routes, components and hooks: per page
its queries, its buttons and forms; per mutation what it changes and what its hook
invalidates and waits for; per form what freezes, detaches, closes, rewinds or
refills it.  `OwnerTab` gives them behaviour: one tab, the cache of the query
library (external, as the hooks use it), the mutation of the pressed button and
that of the form, and the owner's text.  `Init` chooses a page, one of its queries
and one of its forms that concern each other, so every such pair is explored.

| Run | Instance | Question |
|---|---|---|
| `owner_pages` | every page; two pages of each list; 3 presses, saves, page turns, changes elsewhere or failed requests, under `FairSpec` | `TypeOK`, `ReadYourWrites`; `NothingTypedIsLost`, `PageSettles` |

Why a projection is enough: queries share no state, a mutation meets a query only
through what it writes and invalidates, and a form meets a mutation only through
being frozen, closed or refilled.  Three events are a save, one change around it
and one failure; one button and one form are the two mutations that can meet.

**Fairness.** The browser runs callbacks and timers, and a request that does not
fail is answered.

`NothingTypedIsLost` names the forms that do lose text, and to what: a save that
settles after the owner typed on, an older save that closes the form opened since,
an error that replaces the page, a new answer, and a corrected page number.  They
are what the code does; nothing in the repository says otherwise, so they are not
findings.  `ReadYourWrites` makes one exception the same way: a refetch that
joined the page's first fetch promises nothing.

**Proved** (`OwnerTabProofs`, for every number of events): `TypeOK`, `ReadYourWrites`
and `NothingTypedIsLost`.  The tables are finite and are read once, row by row; the
proof takes three facts from them and no longer looks at a page by name: what a form
may save and what may take its text away (`Allowed`), what a button may send
(`Pressable`), and that a hook invalidates what its mutation changes
(`InvalidatesAll`).  The last is what `ReadYourWrites` stands on, and a hook that forgot
a query would break it.  `ReadYourWrites` is not inductive; `IInv` adds:

* `Promises`: not only what is shown but every answer on its way is as new as what is
  owed, and a mutation that has come to `settling` can be promised already.
* `TakesBack`: the one mutation that puts back an old answer when it fails (the switch
  of a chat source) runs on a page where nothing else makes a promise meanwhile, so the
  answer it kept is not older than one.
* `TextKept`: a form with text is on screen, and is typed in during its own save only
  when it keeps the text or is listed as clearing it.
* `Counts`: every mutation sent has a version left for it, so versions stay in their
  range without a bound of their own.

**Not modelled.** Rendering, filters and browser history, guards of buttons that
depend on the data of a row, a list opened at another page than the first, two
buttons pending at once.

## 8. `OwnerServicesMC`: five services side by side

`VideoQueue`, `Restream`, `ChatStream`, `AlertAssets` and `ProviderConnect` share no
state.  One run checks their disjoint sum: `part` is chosen by `Init`, and a
behaviour stays in that part.

| Run | Instance | Question |
|---|---|---|
| `video_typed_beside` | `VideoQueue` alone: one worker, two tabs, two requests, one claim | `OneCurrency`, violated |
| `owner_services` | below | `ServicesTypeOK`, `AmountsInQueueCurrency`, `PositionsHold`, `ForwardsHaveOwner`, `PageFollowsChat`, `OpenAlertKeepsMedia`, `UploadsTakeTurns`, `ConnectsWhoBegan` |

**`VideoQueue`.** Statements of READ COMMITTED transactions as their row locks let
them interleave: the variables are committed data, and `change` and an `inserted`
request are transactions that hold locks between statements.  Every number carries
the unit it was computed in, which the program does not have; a number or a rate
typed on a page that showed another currency than the queue had when it was stored is
`stale`, because no transaction can know what its reader saw.  A row without an amount
is neither converted nor locked by a change; one that is given an amount before the
change commits is left as it is and marked `missed` by the commit.  A page is read in two statements, the count and then the
rows with the currency they are shown in, and anything may be committed in between.
Instance: two interchangeable workers, two tabs with a request each, two claims of
each job, so that a lost lease is claimed again.

**Proved** (`VideoQueueProofs`, for every set of workers and tabs and any number of
requests and claims): `VideoTypeOK` and `AmountsInQueueCurrency`.  The invariant
follows the change of currency: a change that has converted the rows it saw holds the
lock of every row with an amount that is not misread (`Change`), a scan that has read
the currency holds every change off until it has inserted its row (`Tasks`), and a row
is ranked exactly when it can be rated (`Table`).  A step writes rows one by one or,
when the currency changes, all at once; each action is shown to write only rows
that are `Fine`.

**Finding.** `setQueueCurrency` converts rows with an amount only
(`postgres.ts:507`), and `updateVideo` (448) takes no lock on the user row.  An amount
typed in the currency the page rightly shows, into a row without one, may commit
between the conversion and the commit of the change.  It stays in the old currency for
good, where `docs/features/currencies.md:9` says that the queue currency is the single
one for all amounts.  `AmountsInQueueCurrency` exempts exactly these rows (`missed`);
`OneCurrency`, which does not, is violated.

**`Restream`.** The owner's tables, the controller's map with its lock released
around every call of the control plane and of MediaMTX, heartbeats in flight, and
publishers that come and go.  MediaMTX is external: it asks before it accepts, runs
the online and offline hooks of a path that became available, and may fail a call
(`failed`; such forwards are exempt, as nothing takes them away).  Instance: one
owner, one node, two keys, two publishers, two disturbances.  Text of a destination
and restarts of the node are left out.

**Proved** (`RestreamProofs`, for any number of keys, publications and disturbances):
`RestreamTypeOK`, `PositionsHold` and `ForwardsHaveOwner`.  Owner and node share no
invariant.  The owner's, `DInv`, says that committed positions are distinct and below
the number of destinations (`Committed`) and that a renumbering moves each row down to
its rank, in an order in which the rank is free (`Renumbering`); that this leaves no
gap is the pigeonhole principle (`FewBelow`, `NoGap`).  The node's, `NInv`, says that
the offline hook of a publication comes after its online hook (`HooksInOrder`), that a
path which forwards has an active session, a handler at work that will clear it, or a
failed call behind it (`PathsHeld`), that at most one session is open (`OneOpen`), and
that a handler configures a path only for a session (`Configures`).

**`ChatStream`.** Publishing and putting the state are two steps, of which the second
may fail; a stream subscribes before it reads the stored state, so that a state
published in between comes twice rather than never.  The link of an overlay is
checked when the stream begins and from time to time after.  Instance: one source,
one page, three events, one failure, two links; a page keeps two messages, for the
500 of the code.
`missed` are states published before the page subscribed and put after it read the
stored one: it hears nothing of them, and `PageFollowsChat` exempts them.

The service acknowledges each event by hand after it has sent it on, and only logs a
failure (`nats.go:338-343`, `386-393`).  `onData` may therefore leave an event
`unacked`, because the acknowledgement failed or came after the broker's wait, and
`Redeliver` delivers it again behind whatever was published since.  The page cannot tell
it from a new event.  So `PageFollowsChat` admits the states in `again`, those that came
again since the last state was published, and asks of messages that none is shown whose
last delivery is its deletion (`gone`): one that is delivered again after its deletion
is shown again.  An event waits in one queue, first in first out, so delivering it again
while its first copy still waits would give the same views as delivering it after that
copy was read (only reading the stored states for longer than the broker waits is left
out).  `Redeliver` does not spend a failure; the late acknowledgement did.

**Proved** (`OwnerServicesProofs`, for any number of events, disturbances and links):
`ChatTypeOK` and `PageFollowsChat`.  What a page will know when it has read its queue
is the last state in it or the one it shows (`Learns`); `Heard` says that this is the
published state or one that came `again`, unless the state's put failed or was missed, and that between
subscribing and reading the stored state the queue has it or its put is among the
missed.  The order of messages is shown on the reducer's own steps: `Without` leaves
what is left in order, and `Placed` puts a message between those before and after it
(`Ordered`, `PlacedOrdered`).  Kept messages are two, as in the model, so the sequences
are treated case by case.

**`AlertAssets`.** An upload holds a slot at the web server and, until its handler
ends, one at the alert service; it can be cancelled or time out at every step while
the service goes on.  Alerts capture the selected image; removing an image keeps its
row as long as an open alert refers to it.  Instance: two uploads, one alert, one
command, images only; another owner only competes for slots.  Each statement of
`PruneRetention` is one step.

**Proved** (`OwnerServicesProofs`, for every number of uploads, alerts and commands):
`AssetsTypeOK`, `OpenAlertKeepsMedia` and `UploadsTakeTurns`.  The first follows from `MediaInv`:
not only an open alert but any alert that refers to an image finds its row, which is
what lets the sweep drop references in one statement and rows in a later one.  The
second follows from `SlotInv`: the slots are the uploads that hold one, no two of
them are of one owner at the web server (`Distinct`, so each removes only its own
entry), the handler at work has the turn taken last (`Turned`), and the alert
service hears of an upload once (`Unasked`).  For the types a third count is needed:
there are no more turns than uploads whose handler has looked for a slot (`TurnsInv`).

**`ProviderConnect`.** One browser with tabs: the cookie and the session are those of
the moment a request is sent, the answer's `Set-Cookie` is one step with the
answer.  DonationAlerts has no state and is exempt from `ConnectsWhoBegan`, which
says nothing of what the code does not attempt.  An older callback clears the
cookie of a newer attempt, which then has to be begun again; nothing promises
otherwise.  Instance: two accounts, two attempts, two loads of a callback page, two
sign-ins or sign-outs.  Sessions (a library) and providers are external.

**Proved** (`OwnerServicesProofs`, for every number of attempts, page loads and
sign-ins): `ConnectTypeOK` and `ConnectsWhoBegan`.  Its invariant says what the cookie is worth: it
names an attempt from the moment that is offered until a page of it is answered and
never again (`Cleared`), a page loaded after an answer was sent without it
(`Repeated`), and a page that comes to the donation service passed `verify` with the
account of its attempt (`Checked`, `Linked`).

**Proved** of the five together: a behaviour of the sum is one of each service's own
specification (`EachServiceAlone`: no service writes a variable of another), so every
theorem above holds of it; `ServicesTyped` is `ServicesTypeOK`.

The run is about safety only and assumes no fairness.

## 9. What is only checked, and what is not modelled

Liveness is out of the prover's reach and stays with TLC: `WaitingEnds`,
`EveryAlertCloses`, `EveryOfferEnds`, `ConnectionIsServed`,
`EveryDonationStored`, `HiddenFallsSilent`, `EveryAlertEnds`, `PageSettles`.
They are stated as "again and again" or "from some time on", which costs TLC one pass
over the graph.  Every safety property of a passing run, invariant or action property,
is a theorem.  The proofs assume of the constants only what the ASSUMEs of the modules
say: bounds are natural numbers, bursts and durations are those the code can have, there
is at least one key and one link.  TLC explores every state of the instances above and
nothing beyond them; where a theorem is listed, the property holds for every value of
the constants.

Not modelled, by choice: third-party protocol decoding, media transcoding and
speech synthesis, money arithmetic, logging, generated code, process start-up and
rendering.  They keep no state between calls, or only state another component owns.
Not modelled yet: live-only ingestion, the chat collectors and the DonationAlerts
socket session (rows 12 to 14 of the plan); `PROJECT.json` names the hazards of the
first two.  Known gaps of what is modelled: diagnostics in the alert queue; sounds and voice
samples among the assets; several users sharing the history workers; the expiry of
a state cookie by age; and the loop of refreshes of a token that the provider grants
and the socket rejects, which the bound on grants cuts off.
