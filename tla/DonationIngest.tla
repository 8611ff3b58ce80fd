--------------------------- MODULE DonationIngest ---------------------------
(***************************************************************************)
(* Ingestion of donations from one OAuth provider for one user             *)
(* (internal/donations application.go, store.go and the provider adapters  *)
(* of provider.go): connecting imports the account's history, a supervisor *)
(* keeps one listener goroutine on the saved connection, two history       *)
(* workers replay the account in the background, and every writer is       *)
(* fenced by the connection version it read.                               *)
(*                                                                         *)
(* A credential pair is one number, its grant; a donation is a pair of its *)
(* account and its number in the account's history.  The connection time   *)
(* that tells two rows of a user apart is a number that grows with every   *)
(* inserted row.  An action that reaches the database or the provider may  *)
(* also fail, after the other side has done its part or before.            *)
(***************************************************************************)
EXTENDS Integers, FiniteSets

CONSTANTS
    Accounts,       \* provider accounts the user can connect
    Requests,       \* web requests that connect, at most this many at a time
    Slots,          \* listener goroutines alive at the same time, at most
    Histories,      \* the history workers: "recent", "full"
    Cursor,         \* the provider pages from a saved checkpoint (Streamlabs)
    KeepsRow,       \* rejected connections stay, with a status (StreamElements)
    MaxDonations,   \* donations of one account
    MaxGrants,      \* grants ever issued: bounds reconnects and rotations
    Malformed       \* donations whose row, but for its id, fails validation

ASSUME StyleAssumption == Cursor \in BOOLEAN /\ KeepsRow \in BOOLEAN
ASSUME AccountAssumption == Accounts # {}
ASSUME BoundAssumption == MaxDonations \in Nat /\ MaxGrants \in Nat
ASSUME MalformedAssumption == Malformed \subseteq Accounts \X (1 .. MaxDonations)

NoEntry == "none"

ASSUME SlotAssumption == NoEntry \notin Slots

VARIABLES
    conn,           \* the user's row of the connection table
    happened,       \* donations the provider has of each account
    issued, live,   \* grants issued so far, and those the provider honours
    stored,         \* rows of the donation table
    offers,         \* history: how often each went to EnqueueIncoming
    imported,       \* history: the end of each account's last saved import
    request,        \* web requests between their fetch and their save
    running,        \* the supervisor's entry for the user
    refreshing,     \* it is in refreshListeners, between its query and the rest
    view,           \* the connections that query returned
    listener,       \* the listener goroutines
    worker          \* the history workers

provider   == <<happened, issued, live>>
donations  == <<stored, offers, imported>>
supervisor == <<running, refreshing, view>>
vars == <<conn, provider, donations, request, supervisor, listener, worker>>

Grants    == 1 .. MaxGrants
Donations == Accounts \X (1 .. MaxDonations)
Statuses  == {"absent", "connected", "reauthorization_required", "error"}
Row == [id : Nat, account : Accounts, version : Nat, grant : 0 .. MaxGrants,
        checkpoint : 0 .. MaxDonations, status : Statuses]
Batch   == [items : SUBSET (1 .. MaxDonations), head : 0 .. MaxDonations]
NoBatch == [items |-> {}, head |-> 0]
SomeAccount == CHOOSE a \in Accounts : TRUE
NoRow == [id |-> 0, account |-> SomeAccount, version |-> 0, grant |-> 0,
          checkpoint |-> 0, status |-> "absent"]
NoRequest == [pc |-> "none", account |-> SomeAccount, grant |-> 0, batch |-> NoBatch, seen |-> 0]

\* The next row's connection time is later than that of the deleted one.
Deleted == [NoRow EXCEPT !.id = conn.id]

Connected   == conn.status = "connected"
Connections == IF Connected THEN {conn} ELSE {}

\* Faulty: rows told apart by their version alone, as a recreated row reuses it.
MatchesVersion(row) == Connected /\ conn.version = row.version

\* connectionVersionCondition, with the status filter of StreamElements.
Matches(row) ==
    /\ Connected
    /\ conn.id = row.id /\ conn.account = row.account /\ conn.version = row.version

\* A malformed row is skipped and reported; it still counts for the checkpoint.
Decoded(account, numbers) == {n \in numbers : <<account, n>> \notin Malformed}

\* Faulty: the donation that follows the checkpoint is taken for the checkpoint.
FetchedPastNext(row, after) ==
    LET n == happened[row.account] IN
    IF Cursor THEN [items |-> Decoded(row.account, (row.checkpoint + 2) .. n), head |-> n]
              ELSE [items |-> Decoded(row.account, (after + 2) .. n), head |-> 0]

Fetched(row, after) ==
    LET n == happened[row.account] IN
    IF Cursor THEN [items |-> Decoded(row.account, (row.checkpoint + 1) .. n), head |-> n]
              ELSE [items |-> Decoded(row.account, (after + 1) .. n), head |-> 0]

Pushed(row) ==
    IF Cursor THEN {Fetched(row, 0)}
              ELSE {[items |-> {n}, head |-> 0] : n \in Decoded(row.account, 1 .. happened[row.account])}

\* insertDonations: a donation that is stored already is skipped, and the
\* initial history is not offered.
New(account, items) == ({account} \X items) \ stored

\* Faulty: a conflicting row is offered too.
InsertAgain(account, items) ==
    /\ stored' = stored \cup ({account} \X items)
    /\ offers' = [d \in Donations |->
          IF d \in {account} \X items THEN offers[d] + 1 ELSE offers[d]]

Insert(account, items) ==
    /\ stored' = stored \cup New(account, items)
    /\ offers' = [d \in Donations |->
          IF d \in New(account, items) THEN offers[d] + 1 ELSE offers[d]]

\* SaveDonations, one transaction.
Save(row, batch) ==
    /\ Matches(row)
    /\ conn' = [conn EXCEPT !.checkpoint = IF batch.head = 0 THEN @ ELSE batch.head]
    /\ Insert(row.account, batch.items)
    /\ UNCHANGED imported

-----------------------------------------------------------------------------
(* The provider and the streamer.                                          *)

Donate(a) ==
    /\ happened[a] < MaxDonations
    /\ happened' = [happened EXCEPT ![a] = @ + 1]
    /\ UNCHANGED <<conn, issued, live, donations, request, supervisor, listener, worker>>

Revoke(g) ==
    /\ g \in live
    /\ live' = live \ {g}
    /\ UNCHANGED <<conn, happened, issued, donations, request, supervisor, listener, worker>>

Disconnect ==
    /\ conn.status # "absent"
    /\ conn' = Deleted
    /\ UNCHANGED <<provider, donations, request, supervisor, listener, worker>>

-----------------------------------------------------------------------------
(* connect: exchange the code, import the history, save both at once.      *)

ConnectFetch(r, a) ==
    /\ request[r].pc = "none"
    /\ issued < MaxGrants
    /\ issued' = issued + 1
    /\ live' = live \cup {issued + 1}
    /\ request' = [request EXCEPT ![r] = [pc |-> "save", account |-> a, grant |-> issued + 1, seen |-> happened[a],
          batch |-> [items |-> Decoded(a, 1 .. happened[a]), head |-> IF Cursor THEN happened[a] ELSE 0]]]
    /\ UNCHANGED <<conn, happened, donations, supervisor, listener, worker>>

\* Faulty: the saved checkpoint survives the change of account.
KeepingCheckpoint(q) ==
    [id         |-> IF conn.status = "absent" THEN conn.id + 1 ELSE conn.id,
     account    |-> q.account,
     version    |-> IF conn.status = "absent" THEN 1 ELSE conn.version + 1,
     grant      |-> q.grant,
     checkpoint |-> IF conn.checkpoint = 0 THEN q.batch.head ELSE conn.checkpoint,
     status     |-> "connected"]

\* SaveConnectionWithDonations: an upsert, so only an inserted row is new.
SavedRow(q) ==
    [id         |-> IF conn.status = "absent" THEN conn.id + 1 ELSE conn.id,
     account    |-> q.account,
     version    |-> IF conn.status = "absent" THEN 1 ELSE conn.version + 1,
     grant      |-> q.grant,
     checkpoint |-> q.batch.head,
     status     |-> "connected"]

\* Faulty: the connection is saved and the history is left to the workers.
SaveConnectionOnly(r) ==
    /\ request[r].pc = "save"
    /\ conn' = [SavedRow(request[r]) EXCEPT !.checkpoint = 0]
    /\ imported' = [imported EXCEPT ![request[r].account] = request[r].seen]
    /\ UNCHANGED <<stored, offers>>
    /\ request' = [request EXCEPT ![r] = NoRequest]
    /\ UNCHANGED <<provider, supervisor, listener, worker>>

ConnectSave(r) ==
    /\ request[r].pc = "save"
    /\ conn' = SavedRow(request[r])
    /\ stored' = stored \cup New(request[r].account, request[r].batch.items)
    /\ imported' = [imported EXCEPT ![request[r].account] = request[r].seen]
    /\ UNCHANGED offers
    /\ request' = [request EXCEPT ![r] = NoRequest]
    /\ UNCHANGED <<provider, supervisor, listener, worker>>

ConnectFail(r) ==
    /\ request[r].pc = "save"
    /\ request' = [request EXCEPT ![r] = NoRequest]
    /\ UNCHANGED <<conn, provider, donations, supervisor, listener, worker>>

-----------------------------------------------------------------------------
(* The supervisor: run and refreshListeners.                               *)

Idle == [pc |-> "idle", row |-> NoRow, published |-> 0, cancelled |-> FALSE,
         refreshed |-> FALSE, batch |-> NoBatch, next |-> 0]

\* What is left of a goroutine that returned.
Over(x) == [x EXCEPT !.pc = "ended", !.batch = NoBatch, !.next = 0, !.refreshed = FALSE]

Started(row) == [Idle EXCEPT !.pc = "run", !.row = row, !.published = row.version]

\* Faulty: every other version is a replacement, an older snapshot too.
ReplacedByAnyOther(l, row) ==
    \/ row.account # listener[l].row.account
    \/ row.id # listener[l].row.id
    \/ row.version # listener[l].published

ReplacedBy(l, row) ==
    \/ row.account # listener[l].row.account
    \/ row.id # listener[l].row.id
    \/ row.version > listener[l].published

\* A tick waits for a free slot: the bound on goroutines that linger.
ReadConnections ==
    /\ ~refreshing
    /\ \E l \in Slots : listener[l].pc = "idle"
    /\ refreshing' = TRUE /\ view' = Connections
    /\ UNCHANGED <<conn, provider, donations, request, running, listener, worker>>

\* Faulty: any saved connection keeps the listener.
KeepsForAny == running # NoEntry /\ view # {}

Keeps == running # NoEntry /\ \E row \in view : ~ReplacedBy(running, row)

Reconcile ==
    /\ refreshing
    /\ LET cancelled == [l \in Slots |-> [listener[l] EXCEPT
                             !.cancelled = @ \/ (l = running /\ ~Keeps)]] IN
       \/ /\ Keeps
          /\ UNCHANGED <<running, listener>>
       \/ /\ ~Keeps /\ view = {}
          /\ running' = NoEntry
          /\ listener' = cancelled
       \/ /\ ~Keeps
          /\ \E row \in view, l \in Slots :
                /\ listener[l].pc = "idle"
                /\ running' = l
                /\ listener' = [cancelled EXCEPT ![l] = Started(row)]
    /\ refreshing' = FALSE /\ view' = {}
    /\ UNCHANGED <<conn, provider, donations, request, worker>>

\* Faulty: completions are matched by their user alone.
CompletedByUser(l) ==
    /\ ~refreshing
    /\ listener[l].pc = "ended"
    /\ running' = NoEntry
    /\ listener' = [listener EXCEPT ![l] = Idle]
    /\ UNCHANGED <<conn, provider, donations, request, refreshing, view, worker>>

\* The entry is identified by the version variable it shares with its
\* goroutine, so only the goroutine that it started deletes it.
Completed(l) ==
    /\ ~refreshing
    /\ listener[l].pc = "ended"
    /\ running' = IF running = l THEN NoEntry ELSE running
    /\ listener' = [listener EXCEPT ![l] = Idle]
    /\ UNCHANGED <<conn, provider, donations, request, refreshing, view, worker>>

-----------------------------------------------------------------------------
(* A listener goroutine: listen, with the provider's Run inside.           *)

Push(l) ==
    /\ listener[l].pc = "run" /\ ~listener[l].cancelled
    /\ \E batch \in Pushed(listener[l].row) :
          listener' = [listener EXCEPT ![l].pc = "emit", ![l].batch = batch]
    /\ UNCHANGED <<conn, provider, donations, request, supervisor, worker>>

SaveLive(l) ==
    /\ listener[l].pc = "emit"
    /\ Save(listener[l].row, listener[l].batch)
    /\ \/ listener' = [listener EXCEPT ![l].pc = "run", ![l].batch = NoBatch,
                                       ![l].row.checkpoint = listener[l].batch.head]
       \/ listener' = [listener EXCEPT ![l] = Over(@)]
    /\ UNCHANGED <<provider, request, supervisor, worker>>

\* Only StreamElements tells a session that was never authorized: the token it
\* just refreshed is then as bad as a rejected refresh.
Unauthorized(l) ==
    /\ listener[l].pc = "run" /\ ~listener[l].cancelled
    /\ \E authorized \in BOOLEAN :
          listener' = [listener EXCEPT ![l].pc =
                          IF KeepsRow /\ listener[l].refreshed /\ ~authorized THEN "reject" ELSE "refresh"]
    /\ UNCHANGED <<conn, provider, donations, request, supervisor, worker>>

\* The provider spends the old grant, whether its answer arrives or not.  The
\* new version is published to the supervisor before it is saved.
Rotate(l) ==
    /\ listener[l].pc = "refresh"
    /\ listener[l].row.grant \in live
    /\ issued < MaxGrants
    /\ issued' = issued + 1
    /\ live' = (live \ {listener[l].row.grant}) \cup {issued + 1}

RefreshAccepted(l) ==
    /\ Rotate(l)
    /\ listener' = [listener EXCEPT ![l].pc = "save", ![l].next = issued + 1,
                                    ![l].published = listener[l].row.version + 1]
    /\ UNCHANGED <<conn, happened, donations, request, supervisor, worker>>

RefreshLost(l) ==
    /\ Rotate(l)
    /\ listener' = [listener EXCEPT ![l] = Over(@)]
    /\ UNCHANGED <<conn, happened, donations, request, supervisor, worker>>

RefreshRejected(l) ==
    /\ listener[l].pc = "refresh"
    /\ listener[l].row.grant \notin live
    /\ listener' = [listener EXCEPT ![l].pc = "reject"]
    /\ UNCHANGED <<conn, provider, donations, request, supervisor, worker>>

\* SetTokensIfVersion.
SaveTokens(l) ==
    /\ listener[l].pc = "save"
    /\ Matches(listener[l].row)
    /\ conn' = [conn EXCEPT !.version = @ + 1, !.grant = listener[l].next]
    /\ \/ listener' = [listener EXCEPT ![l].pc = "adopt"]
       \/ listener' = [listener EXCEPT ![l] = Over(@)]
    /\ UNCHANGED <<provider, donations, request, supervisor, worker>>

Adopt(l) ==
    /\ listener[l].pc = "adopt"
    /\ listener' = [listener EXCEPT ![l].pc = "run", ![l].refreshed = TRUE, ![l].next = 0,
                        ![l].row.grant = listener[l].next, ![l].row.version = @ + 1]
    /\ UNCHANGED <<conn, provider, donations, request, supervisor, worker>>

\* Faulty: the user's row goes, whichever connection it holds by now.
ForgetConnection(l) ==
    /\ listener[l].pc = "reject"
    /\ Connected
    /\ conn' = IF KeepsRow THEN [conn EXCEPT !.status = "reauthorization_required"] ELSE Deleted
    /\ listener' = [listener EXCEPT ![l] = Over(@)]
    /\ UNCHANGED <<provider, donations, request, supervisor, worker>>

RequireReauthorization(l) ==
    /\ listener[l].pc = "reject"
    /\ Matches(listener[l].row)
    /\ conn' = IF KeepsRow THEN [conn EXCEPT !.status = "reauthorization_required"] ELSE Deleted
    /\ listener' = [listener EXCEPT ![l] = Over(@)]
    /\ UNCHANGED <<provider, donations, request, supervisor, worker>>

\* A permanent failure, of the session or of the refresh.
Fail(l) ==
    /\ KeepsRow
    /\ \/ listener[l].pc = "run" /\ ~listener[l].cancelled
       \/ listener[l].pc = "refresh"
    /\ listener' = [listener EXCEPT ![l].pc = "error"]
    /\ UNCHANGED <<conn, provider, donations, request, supervisor, worker>>

\* MarkConnectionErrorIfVersion.
MarkError(row) ==
    /\ Matches(row)
    /\ conn' = [conn EXCEPT !.status = "error"]

MarkListenerError(l) ==
    /\ listener[l].pc = "error"
    /\ MarkError(listener[l].row)
    /\ listener' = [listener EXCEPT ![l] = Over(@)]
    /\ UNCHANGED <<provider, donations, request, supervisor, worker>>

\* The context is done, the call failed, or the write matched no row.
Leave(l) ==
    /\ listener[l].pc \in {"run", "emit", "refresh", "save", "reject", "error"}
    /\ listener' = [listener EXCEPT ![l] = Over(@)]
    /\ UNCHANGED <<conn, provider, donations, request, supervisor, worker>>

-----------------------------------------------------------------------------
(* A history worker: syncHistory and syncConnectionHistory.                *)

Resting == [pc |-> "idle", row |-> NoRow, batch |-> NoBatch]

ReadHistory(h) ==
    /\ worker[h].pc = "idle"
    /\ \E row \in Connections :
          worker' = [worker EXCEPT ![h] = [Resting EXCEPT !.pc = "fetch", !.row = row]]
    /\ UNCHANGED <<conn, provider, donations, request, supervisor, listener>>

\* The recent pass asks for the donations after a cutoff that moves with time.
FetchHistory(h) ==
    /\ worker[h].pc = "fetch"
    /\ \E after \in IF h = "recent" THEN 0 .. happened[worker[h].row.account] ELSE {0} :
          worker' = [worker EXCEPT ![h].pc = "save",
                                   ![h].batch = Fetched(worker[h].row, after)]
    /\ UNCHANGED <<conn, provider, donations, request, supervisor, listener>>

SaveHistory(h) ==
    /\ worker[h].pc = "save"
    /\ Save(worker[h].row, worker[h].batch)
    /\ worker' = [worker EXCEPT ![h] = Resting]
    /\ UNCHANGED <<provider, request, supervisor, listener>>

FailHistory(h) ==
    /\ KeepsRow
    /\ worker[h].pc = "fetch"
    /\ worker' = [worker EXCEPT ![h].pc = "error"]
    /\ UNCHANGED <<conn, provider, donations, request, supervisor, listener>>

MarkHistoryError(h) ==
    /\ worker[h].pc = "error"
    /\ MarkError(worker[h].row)
    /\ worker' = [worker EXCEPT ![h] = Resting]
    /\ UNCHANGED <<provider, donations, request, supervisor, listener>>

DropHistory(h) ==
    /\ worker[h].pc # "idle"
    /\ worker' = [worker EXCEPT ![h] = Resting]
    /\ UNCHANGED <<conn, provider, donations, request, supervisor, listener>>

-----------------------------------------------------------------------------
(* The service stops, at any moment, and starts again.                     *)

Restart ==
    /\ request' = [r \in Requests |-> NoRequest]
    /\ running' = NoEntry
    /\ refreshing' = FALSE /\ view' = {}
    /\ listener' = [l \in Slots |-> Idle]
    /\ worker' = [h \in Histories |-> Resting]
    /\ UNCHANGED <<conn, provider, donations>>

Init ==
    /\ conn = NoRow
    /\ happened = [a \in Accounts |-> 0]
    /\ issued = 0 /\ live = {}
    /\ stored = {}
    /\ offers = [d \in Donations |-> 0]
    /\ imported = [a \in Accounts |-> 0]
    /\ request = [r \in Requests |-> NoRequest]
    /\ running = NoEntry /\ refreshing = FALSE /\ view = {}
    /\ listener = [l \in Slots |-> Idle]
    /\ worker = [h \in Histories |-> Resting]

Streamer ==
    \/ \E a \in Accounts : Donate(a)
    \/ \E g \in live : Revoke(g)
    \/ Disconnect
    \/ \E r \in Requests : (\E a \in Accounts : ConnectFetch(r, a)) \/ ConnectSave(r) \/ ConnectFail(r)

Supervise == ReadConnections \/ Reconcile \/ \E l \in Slots : Completed(l)

Listen(l) ==
    \/ Push(l) \/ SaveLive(l) \/ Unauthorized(l)
    \/ RefreshAccepted(l) \/ RefreshLost(l) \/ RefreshRejected(l)
    \/ SaveTokens(l) \/ Adopt(l) \/ RequireReauthorization(l)
    \/ Fail(l) \/ MarkListenerError(l) \/ Leave(l)

Replay(h) ==
    \/ ReadHistory(h) \/ FetchHistory(h) \/ SaveHistory(h)
    \/ FailHistory(h) \/ MarkHistoryError(h) \/ DropHistory(h)

Next ==
    \/ Streamer \/ Supervise
    \/ \E l \in Slots : Listen(l)
    \/ \E h \in Histories : Replay(h)
    \/ Restart

Spec == Init /\ [][Next]_vars

\* A goroutine's calls end, by their timeout if by nothing else; a session lasts
\* as long as it likes, unless its context is done.
Return(l) ==
    \/ Adopt(l)
    \/ (listener[l].pc = "run" => listener[l].cancelled) /\ Leave(l)

\* The supervisor's loop receives a completion between two ticks, and restarts
\* come to an end.  The hourly pass comes round for ever: not every one of them
\* meets a failing provider or database, or a rotation in the middle.
FairSpec ==
    /\ Spec
    /\ WF_vars(ReadConnections \/ Reconcile)
    /\ SF_vars(\E l \in Slots : Completed(l)) /\ \A l \in Slots : WF_vars(Return(l))
    /\ WF_vars(ReadHistory("full") \/ DropHistory("full"))
    /\ SF_vars(FetchHistory("full")) /\ SF_vars(SaveHistory("full"))
    /\ <>[][~Restart]_vars

-----------------------------------------------------------------------------
(* Properties.                                                             *)


Alive(l)  == listener[l].pc \notin {"idle", "ended"}
Serves(l) ==
    /\ Alive(l)
    /\ Matches([listener[l].row EXCEPT !.version = IF listener[l].pc = "adopt" THEN @ + 1 ELSE @])

Request   == [pc : {"none", "save"}, account : Accounts, grant : 0 .. MaxGrants, batch : Batch, seen : 0 .. MaxDonations]
Goroutine ==
    [pc : {"idle", "run", "emit", "refresh", "save", "adopt", "reject", "error", "ended"},
     row : Row, published : Nat, cancelled : BOOLEAN, refreshed : BOOLEAN,
     batch : Batch, next : 0 .. MaxGrants]
Worker    == [pc : {"idle", "fetch", "save", "error"}, row : Row, batch : Batch]

\* The variables hold what the columns and the goroutines' locals may hold; in
\* particular nothing is taken from a batch the provider does not have.
TypeOK ==
    /\ conn \in Row
    /\ happened \in [Accounts -> 0 .. MaxDonations]
    /\ issued \in 0 .. MaxGrants /\ live \subseteq Grants
    /\ stored \subseteq Donations
    /\ offers \in [Donations -> Nat]
    /\ imported \in [Accounts -> 0 .. MaxDonations]
    /\ request \in [Requests -> Request]
    /\ running \in Slots \cup {NoEntry}
    /\ refreshing \in BOOLEAN /\ view \subseteq Row
    /\ listener \in [Slots -> Goroutine]
    /\ worker \in [Histories -> Worker]

\* Reconnects, rotations and late completions never leave the user with two
\* listeners that nobody has told to stop (runningListener, one per user).
OneListener ==
    \A l, m \in Slots :
        Alive(l) /\ Alive(m) /\ ~listener[l].cancelled /\ ~listener[m].cancelled => l = m

\* The supervisor, however old its snapshot, stops no listener that serves the
\* saved connection: a listener's own token refresh does not restart it
\* (docs/integrations/donationalerts.md:115).
ServingListenerKept == \A l \in Slots : listener[l].cancelled => ~Serves(l)

\* Whatever runs in parallel, a new donation row is one of the account that is
\* connected when it is written: writers of a replaced connection are fenced.
FencedWriters ==
    [][\A d \in stored' \ stored : conn'.status = "connected" /\ conn'.account = d[1]]_vars

\* Live, recovery and initial batches overlap, and no donation is offered to the
\* alert queue twice.
OfferedOnce == \A d \in Donations : offers[d] <= 1

\* Nothing the saved import of the account already covered becomes an alert
\* (docs/integrations/donationalerts.md:76, "Initial history never enqueues").
HistoryIsSilent ==
    [][\A d \in Donations : offers'[d] > offers[d] => d[2] > imported[d[1]]]_vars

\* Everything up to the saved checkpoint is stored, so that paging may stop
\* there, though three writers move it from snapshots of different age; but for
\* the malformed rows, which no later page brings either: "It still counts for
\* pagination and the history checkpoint" (docs/integrations/streamlabs.md:120).
\* Streamlabs takes the checkpoint from the newest row before it looks whether
\* that row was decoded, unlike what provider.go:94 says: "Rejected rows are
\* reported but never persisted or used as checkpoints".
CheckpointCovers ==
    Connected => \A n \in 1 .. conn.checkpoint : <<conn.account, n>> \in stored \cup Malformed

\* Grants that a goroutine was refused for good, and acts upon.
Refused ==
    {listener[l].row.grant : l \in {m \in Slots : listener[m].pc \in {"reject", "error"}}}
    \cup {worker[h].row.grant : h \in {g \in Histories : worker[g].pc = "error"}}

\* Only the streamer, or a refusal of the very credentials it holds, ends a
\* connection: a late answer about older ones leaves it alone.
OnlyRefusedEnds ==
    [][Connected /\ conn'.status # "connected" => conn.grant \in Refused \/ Disconnect]_vars

\* A saved connection is always served again, after every failure.
ConnectionIsServed == []<>(Connected => \E l \in Slots : Serves(l))

\* A donation of the connected account is stored in the end, or the connection
\* to that account ends; a malformed one never is.
EveryDonationStored ==
    \A d \in Donations \ Malformed :
        []<>(Connected /\ conn.account = d[1] /\ d[2] <= happened[d[1]] => d \in stored)
=============================================================================
