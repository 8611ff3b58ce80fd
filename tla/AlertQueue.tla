----------------------------- MODULE AlertQueue -----------------------------
(***************************************************************************)
(* The durable donation alert queue of ONE user: the rows of               *)
(* donation_alert_playback with the player lease, the overlay token and    *)
(* the settings that decide what becomes of them (internal/donationalert). *)
(* Every WHERE of the code is by user, so users do not interact here.      *)
(*                                                                         *)
(* One action is one PostgreSQL transaction.  The transactions of a user   *)
(* are serialised by the row locks they take in the order configuration,   *)
(* overlay, player, playback; a statement that waited for a row lock       *)
(* re-evaluates its WHERE on the new row version.                          *)
(*                                                                         *)
(* TIME.  Every stored time is kept relative to the present, which is 0:   *)
(* Tick moves all of them one tick into the past, down to Past, where no   *)
(* clock can tell them apart.  A handler reads its clock BEFORE it waits   *)
(* for locks, on a replica whose clock may be behind: the `now' it uses is *)
(* any member of Clocks, so a later transaction may carry an older time.   *)
(*                                                                         *)
(* REQUESTS.  Whoever was handed an identity [token, id, generation] may   *)
(* send any request with it at any later time: late, repeated and          *)
(* reordered requests are ordinary behaviours.                             *)
(***************************************************************************)
EXTENDS Integers, FiniteSets

CONSTANTS
    MaxAlertAge, MaxPendingAlerts, PlayerLease, PreparationLease,
    PreparationTries, PlaybackAcknowledgementTimeout,
    MaxRetainedTerminalPlaybacks,
    Workers,        \* the speech workers of all replicas
    Settings,       \* the settings the dashboard may save
    MaxLag,         \* bound: how far a clock that is read may be behind
    MaxPlaybacks,   \* bound: rows ever inserted
    MaxTokens,      \* bound: overlay tokens ever issued
    MaxPlayers      \* bound: player identities ever issued

ASSUME DurationAssumption ==
    /\ MaxAlertAge \in Nat \ {0}       /\ PlayerLease \in Nat \ {0}
    /\ PreparationLease \in Nat \ {0}  /\ PreparationTries \in Nat \ {0}
    /\ PlaybackAcknowledgementTimeout \in Nat \ {0}
    /\ MaxLag \in Nat
ASSUME LimitAssumption ==
    /\ MaxPendingAlerts \in Nat \ {0}
    /\ MaxRetainedTerminalPlaybacks \in Nat
    /\ MaxPlaybacks \in Nat /\ MaxTokens \in Nat /\ MaxPlayers \in Nat
ASSUME SettingsAssumption == Settings \subseteq [enabled: BOOLEAN, tts: BOOLEAN]

VARIABLES
    config,     \* donation_alert_configuration
    overlay,    \* the number of the current overlay token, 0 before the first
    player,     \* the user's donation_alert_player row
    issued,     \* every identity OpenPlayer ever handed out
    playback,   \* the rows of donation_alert_playback, by queue_sequence
    last,       \* the last queue_sequence allocated
    job         \* the preparation each speech worker is busy with
vars == <<config, overlay, player, issued, playback, last, job>>

Past   == -MaxLag
Clocks == Past .. 0
Playbacks == 1 .. MaxPlaybacks

Waiting  == {"preparing", "pending"}
Open     == Waiting \cup {"playing"}
Terminal == {"completed", "skipped", "expired", "interrupted"}

NoHolder == [id |-> 0, generation |-> 0]
NoPlayer == [id |-> 0, generation |-> 0,
             active |-> FALSE, visible |-> FALSE, lease |-> Past]
Idle     == [row |-> 0, attempts |-> 0]

\* `donated': the row is not a test alert.  `due': started_at plus the
\* acknowledgement timeout.  `attempts' is both preparation_attempts and
\* preparation_generation, which one statement increments together.  A NULL
\* preparation lease is Past: the code never tells it from one that ran out.
Blank ==
    [status |-> "absent", donated |-> FALSE, expires |-> Past,
     available |-> Past, started |-> FALSE, due |-> Past, holder |-> NoHolder,
     attempts |-> 0, lease |-> Past, speech |-> FALSE]

Rows(status) == {r \in Playbacks : playback[r].status \in status}
Holder       == [id |-> player.id, generation |-> player.generation]

\* The JOIN of player and overlay every player request starts with.
Current(who) ==
    /\ who.token = overlay
    /\ who.id = player.id /\ who.generation = player.generation

Leased(now) == player.lease > now

-----------------------------------------------------------------------------
(* What the statements do to rows.                                         *)

\* No statement reads the times of a terminal row: they are forgotten.
Close(row, status) ==
    [row EXCEPT !.status = status, !.expires = Past, !.available = Past,
                !.due = Past, !.lease = Past]

Requeue(row) == [row EXCEPT !.status = "pending", !.holder = NoHolder]
Expire(row)  == [Close(row, "expired") EXCEPT !.holder = NoHolder]

\* Faulty: forgets that the renderer committed to the alert.
RecoverStarted(row, now) ==
    IF row.expires > now THEN Requeue(row) ELSE Expire(row)

\* The CASE shared by recoverAssignedPlayback, recoverUserPlayback and
\* FinishPlayback(interrupted): only unstarted, fresh work is queued again.
Recover(row, now) ==
    IF row.started THEN Close(row, "interrupted")
    ELSE IF row.expires > now THEN Requeue(row) ELSE Expire(row)

RecoverUserPlayback(now) ==
    [r \in Playbacks |-> IF playback[r].status = "playing"
                         THEN Recover(playback[r], now) ELSE playback[r]]

RecoverAssignedPlayback(holder, now) ==
    [r \in Playbacks |->
        IF playback[r].status = "playing" /\ playback[r].holder = holder
        THEN Recover(playback[r], now) ELSE playback[r]]

TimedOut(row, now) ==
    /\ row.status = "playing"
    /\ IF row.started THEN row.due <= now ELSE row.expires <= now

\* Faulty: reaches only rows whose finish is overdue.
RecoverTimedOutStarted(now) ==
    [r \in Playbacks |->
        IF TimedOut(playback[r], now) /\ playback[r].started
        THEN Close(playback[r], "interrupted") ELSE playback[r]]

RecoverTimedOutPlayback(now) ==
    [r \in Playbacks |->
        IF TimedOut(playback[r], now)
        THEN IF playback[r].started THEN Close(playback[r], "interrupted")
                                    ELSE Expire(playback[r])
        ELSE playback[r]]

\* Faulty: rows in preparation are not swept.
ExpirePending(rows, now) ==
    [r \in Playbacks |->
        IF rows[r].status = "pending" /\ rows[r].expires <= now
        THEN Expire(rows[r]) ELSE rows[r]]

ExpireWaiting(rows, now) ==
    [r \in Playbacks |->
        IF rows[r].status \in Waiting /\ rows[r].expires <= now
        THEN Expire(rows[r]) ELSE rows[r]]

\* Faulty: keeps one row too many.
BoundBacklogLoosely(rows) ==
    LET waiting == {r \in Playbacks : rows[r].status \in Waiting}
    IN [r \in Playbacks |->
            IF r \in waiting /\ Cardinality({s \in waiting : s > r}) > MaxPendingAlerts
            THEN Expire(rows[r]) ELSE rows[r]]

BoundBacklog(rows) ==
    LET waiting == {r \in Playbacks : rows[r].status \in Waiting}
        newer(r) == {s \in waiting : s > r}
    IN [r \in Playbacks |->
            IF r \in waiting /\ Cardinality(newer(r)) >= MaxPendingAlerts
            THEN Expire(rows[r]) ELSE rows[r]]

Inserted(donated, speak, now, expires) ==
    [Blank EXCEPT !.status = IF config.tts /\ speak THEN "preparing" ELSE "pending",
                  !.donated = donated, !.available = now, !.expires = expires]

Insert(row) ==
    /\ last < MaxPlaybacks
    /\ last' = last + 1
    /\ playback' = BoundBacklog([playback EXCEPT ![last + 1] = row])

-----------------------------------------------------------------------------
(* The dashboard.                                                          *)

UpdateSettings ==
    /\ \E new \in Settings :
          config' = [config EXCEPT !.enabled = new.enabled, !.tts = new.tts]
    /\ UNCHANGED <<overlay, player, issued, playback, last, job>>

SetPaused ==
    /\ \E paused \in BOOLEAN : config' = [config EXCEPT !.paused = paused]
    /\ UNCHANGED <<overlay, player, issued, playback, last, job>>

\* `speak': the message has a character that speech normalisation keeps.
CreateTest(now) ==
    /\ Insert(Inserted(FALSE, TRUE, now, now + MaxAlertAge))
    /\ UNCHANGED <<config, overlay, player, issued, job>>

Replay(source, speak, now) ==
    /\ playback[source].status \in Terminal /\ playback[source].donated
    /\ Insert(Inserted(TRUE, speak, now, now + MaxAlertAge))
    /\ UNCHANGED <<config, overlay, player, issued, job>>

Skip ==
    LET rows == IF Rows({"playing"}) # {} THEN Rows({"playing"}) ELSE Rows(Waiting)
    IN /\ \E r \in rows :
             /\ \A s \in rows : r <= s
             /\ playback' = [playback EXCEPT ![r] = Close(@, "skipped")]
       /\ UNCHANGED <<config, overlay, player, issued, last, job>>

\* The new token is fresh and random: the next number.
SetOverlayTokenHash(now) ==
    /\ overlay < MaxTokens
    /\ overlay' = overlay + 1
    /\ playback' = RecoverUserPlayback(now)
    /\ player' = NoPlayer
    /\ UNCHANGED <<config, issued, last, job>>

-----------------------------------------------------------------------------
(* A donation that was just stored: `age' ago it happened, at its source.  *)

EnqueueIncoming(age, speak, now) ==
    /\ IF config.enabled /\ age + 1 < MaxAlertAge
       THEN Insert(Inserted(TRUE, speak, now, now + MaxAlertAge - age))
       ELSE playback' = BoundBacklog(playback) /\ UNCHANGED last
    /\ UNCHANGED <<config, overlay, player, issued, job>>

-----------------------------------------------------------------------------
(* The player requests.  A request that matches nothing changes nothing    *)
(* and is not a step: neither is the standby answer of OpenPlayer.         *)

OpenPlayer(now) ==
    LET id == Cardinality(issued) + 1
        generation == player.generation + 1
    IN /\ overlay > 0 /\ Cardinality(issued) < MaxPlayers
       /\ ~Leased(now)
       /\ playback' = RecoverAssignedPlayback(Holder, now)
       /\ player' = [id |-> id, generation |-> generation, active |-> FALSE,
                     visible |-> FALSE, lease |-> now + PlayerLease]
       /\ issued' = issued \cup
                    {[token |-> overlay, id |-> id, generation |-> generation]}
       /\ UNCHANGED <<config, overlay, last, job>>

\* The answer of Heartbeat, ClaimPlayback and StreamState to a player whose
\* lease ran out; the recovery is committed before the error is returned.
LeaseLost(who, now) ==
    /\ Current(who) /\ ~Leased(now)
    /\ playback' = RecoverAssignedPlayback(Holder, now)
    /\ UNCHANGED <<config, overlay, player, issued, last, job>>

Heartbeat(who, active, visible, now) ==
    /\ Current(who) /\ Leased(now)
    /\ player' = [player EXCEPT !.active = active, !.visible = visible,
                                !.lease = now + PlayerLease]
    /\ playback' = IF active /\ visible THEN playback
                   ELSE RecoverAssignedPlayback(Holder, now)
    /\ UNCHANGED <<config, overlay, issued, last, job>>

ReleasePlayer(who, now) ==
    /\ Current(who)
    /\ playback' = RecoverAssignedPlayback(Holder, now)
    /\ player' = NoPlayer
    /\ UNCHANGED <<config, overlay, issued, last, job>>

StreamState(who, now) ==
    /\ Current(who) /\ Leased(now)
    /\ playback' = RecoverTimedOutPlayback(now)
    /\ UNCHANGED <<config, overlay, player, issued, last, job>>

\* Faulty: the row that plays is forgotten.
ClaimableWhilePlaying(rows, now) ==
    {r \in Playbacks :
        /\ rows[r].status = "pending"
        /\ rows[r].available <= now /\ rows[r].expires > now
        /\ \A s \in Playbacks : s < r /\ rows[s].status \in Waiting
                                  => rows[s].expires <= now}

\* Faulty: any row that is ready, whatever was accepted before it.
ClaimableInAnyOrder(rows, now) ==
    {r \in Playbacks :
        /\ rows[r].status = "pending"
        /\ rows[r].available <= now /\ rows[r].expires > now
        /\ \A s \in Playbacks : rows[s].status # "playing"}

\* Faulty: earlier rows still in preparation are overtaken.
ClaimableFirstPending(rows, now) ==
    {r \in Playbacks :
        /\ rows[r].status = "pending"
        /\ rows[r].available <= now /\ rows[r].expires > now
        /\ \A s \in Playbacks : rows[s].status # "playing"
        /\ \A s \in Playbacks : s < r /\ rows[s].status = "pending"
                                  => rows[s].expires <= now}

Claimable(rows, now) ==
    {r \in Playbacks :
        /\ rows[r].status = "pending"
        /\ rows[r].available <= now /\ rows[r].expires > now
        /\ \A s \in Playbacks : rows[s].status # "playing"
        /\ \A s \in Playbacks : s < r /\ rows[s].status \in Waiting
                                  => rows[s].expires <= now}

ClaimPlayback(who, now) ==
    LET rows == ExpireWaiting(RecoverTimedOutPlayback(now), now)
        ready == player.active /\ player.visible /\ ~config.paused
    IN /\ Current(who) /\ Leased(now)
       /\ IF ready /\ Claimable(rows, now) # {}
          THEN \E r \in Claimable(rows, now) :
                  playback' = [rows EXCEPT ![r].status = "playing",
                                           ![r].holder = Holder]
          ELSE playback' = rows
       /\ UNCHANGED <<config, overlay, player, issued, last, job>>

\* The WHERE of StartPlayback and FinishPlayback.
Assigned(who, r, now) ==
    Current(who) /\ Leased(now) /\ playback[r].holder = Holder

StartPlayback(who, r, now) ==
    /\ Assigned(who, r, now) /\ playback[r].status = "playing"
    /\ playback' = [playback EXCEPT ![r].started = TRUE,
          ![r].due = IF playback[r].started THEN @
                     ELSE now + PlaybackAcknowledgementTimeout]
    /\ UNCHANGED <<config, overlay, player, issued, last, job>>

\* Faulty: accepts the acknowledgement whatever became of the row.
FinishAnyStarted(who, r, now) ==
    /\ Assigned(who, r, now) /\ playback[r].started
    /\ playback' = [playback EXCEPT ![r] = Close(@, "completed")]
    /\ UNCHANGED <<config, overlay, player, issued, last, job>>

FinishCompleted(who, r, now) ==
    /\ Assigned(who, r, now) /\ playback[r].started
    /\ playback[r].status \in {"playing", "completed"}
    /\ playback' = [playback EXCEPT ![r] = Close(@, "completed")]
    /\ UNCHANGED <<config, overlay, player, issued, last, job>>

FinishInterrupted(who, r, now) ==
    /\ Assigned(who, r, now)
    /\ playback[r].status \in {"playing", "interrupted"}
    /\ playback' = [playback EXCEPT ![r] = Recover(@, now)]
    /\ UNCHANGED <<config, overlay, player, issued, last, job>>

-----------------------------------------------------------------------------
(* Speech preparation, by the workers of every replica.                    *)

Unleased(row, now) == row.status = "preparing" /\ row.lease <= now

GiveUpPreparation(rows, now) ==
    [r \in Playbacks |->
        IF /\ Unleased(rows[r], now) /\ rows[r].expires > now
           /\ rows[r].attempts >= PreparationTries
        THEN [rows[r] EXCEPT !.status = "pending", !.lease = Past]
        ELSE rows[r]]

Preparable(rows, now) ==
    {r \in Playbacks :
        /\ Unleased(rows[r], now)
        /\ rows[r].available <= now /\ rows[r].expires > now
        /\ rows[r].attempts < PreparationTries}

\* Faulty: does not count against PreparationTries.
ClaimUnlimited(w, now) ==
    /\ job[w] = Idle
    /\ \E r \in Playbacks :
          /\ Unleased(playback[r], now) /\ playback[r].expires > now
          /\ playback' = [playback EXCEPT ![r].attempts = @ + 1,
                                          ![r].lease = now + PreparationLease]
          /\ job' = [job EXCEPT ![w] = [row |-> r, attempts |-> playback[r].attempts + 1]]
    /\ UNCHANGED <<config, overlay, player, issued, last>>

ClaimPreparation(w, now) ==
    LET rows == GiveUpPreparation(ExpireWaiting(playback, now), now)
        ready == Preparable(rows, now)
    IN /\ job[w] = Idle
       /\ IF ready = {}
          THEN playback' = rows /\ UNCHANGED job
          ELSE \E r \in ready :
                 /\ \A s \in ready : r <= s
                 /\ playback' = [rows EXCEPT ![r].attempts = @ + 1,
                                             ![r].lease = now + PreparationLease]
                 /\ job' = [job EXCEPT ![w] = [row |-> r, attempts |-> rows[r].attempts + 1]]
       /\ UNCHANGED <<config, overlay, player, issued, last>>

\* Faulty: the generation is not compared.
FencedByStatus(w) == playback[job[w].row].status = "preparing"

\* The fence in the WHERE of CompletePreparation and FailPreparation.
Fenced(w) ==
    /\ playback[job[w].row].status = "preparing"
    /\ playback[job[w].row].attempts = job[w].attempts

CompletePreparation(w) ==
    /\ job[w] # Idle
    /\ playback' = IF ~Fenced(w) THEN playback
                   ELSE [playback EXCEPT ![job[w].row].status = "pending",
                                         ![job[w].row].speech = TRUE,
                                         ![job[w].row].lease = Past]
    /\ job' = [job EXCEPT ![w] = Idle]
    /\ UNCHANGED <<config, overlay, player, issued, last>>

Failed(row, attempts, now) ==
    LET retry == now + attempts
    IN IF row.expires <= now THEN Expire(row)
       ELSE IF attempts >= PreparationTries
       THEN [row EXCEPT !.status = "pending", !.lease = Past]
       ELSE [row EXCEPT !.lease = Past,
                        !.available = IF row.expires < retry THEN row.expires ELSE retry]

FailPreparation(w, now) ==
    /\ job[w] # Idle
    /\ playback' = IF ~Fenced(w) THEN playback
                   ELSE [playback EXCEPT ![job[w].row] = Failed(@, job[w].attempts, now)]
    /\ job' = [job EXCEPT ![w] = Idle]
    /\ UNCHANGED <<config, overlay, player, issued, last>>

\* The process stops or crashes during synthesis, or the store call fails.
AbandonPreparation(w) ==
    /\ job[w] # Idle
    /\ job' = [job EXCEPT ![w] = Idle]
    /\ UNCHANGED <<config, overlay, player, issued, playback, last>>

-----------------------------------------------------------------------------
(* Retention: the rows past 30 days are any set of terminal rows.          *)

PruneRetention(old) ==
    LET terminal == Rows(Terminal)
        ranked == {r \in terminal :
            Cardinality({s \in terminal : s > r}) >= MaxRetainedTerminalPlaybacks}
    IN /\ playback' = [r \in Playbacks |-> IF r \in ranked \cup (old \cap terminal)
                                           THEN [Blank EXCEPT !.status = "deleted"]
                                           ELSE playback[r]]
       /\ UNCHANGED <<config, overlay, player, issued, last, job>>

Earlier(time) == IF time > Past THEN time - 1 ELSE Past

Tick ==
    /\ player' = [player EXCEPT !.lease = Earlier(@)]
    /\ playback' = [r \in Playbacks |->
          [playback[r] EXCEPT !.expires = Earlier(@), !.available = Earlier(@),
                              !.due = Earlier(@), !.lease = Earlier(@)]]
    /\ UNCHANGED <<config, overlay, issued, last, job>>

-----------------------------------------------------------------------------
Init ==
    /\ config = [enabled |-> FALSE, paused |-> FALSE, tts |-> FALSE]
    /\ overlay = 0 /\ player = NoPlayer /\ issued = {}
    /\ playback = [r \in Playbacks |-> Blank] /\ last = 0
    /\ job = [w \in Workers |-> Idle]

Dashboard(now) ==
    \/ UpdateSettings
    \/ SetPaused
    \/ CreateTest(now)
    \/ \E source \in Playbacks, speak \in BOOLEAN : Replay(source, speak, now)
    \/ Skip
    \/ SetOverlayTokenHash(now)

Renderer(who, now) ==
    \/ LeaseLost(who, now)
    \/ \E active, visible \in BOOLEAN : Heartbeat(who, active, visible, now)
    \/ ReleasePlayer(who, now)
    \/ StreamState(who, now)
    \/ ClaimPlayback(who, now)
    \/ \E r \in Playbacks : \/ StartPlayback(who, r, now)
                            \/ FinishCompleted(who, r, now)
                            \/ FinishInterrupted(who, r, now)

Speech(w, now) ==
    \/ ClaimPreparation(w, now)
    \/ CompletePreparation(w)
    \/ FailPreparation(w, now)
    \/ AbandonPreparation(w)

Next ==
    \/ \E now \in Clocks :
          \/ Dashboard(now)
          \/ \E age \in 0 .. MaxAlertAge, speak \in BOOLEAN :
                EnqueueIncoming(age, speak, now)
          \/ OpenPlayer(now)
          \/ \E who \in issued : Renderer(who, now)
          \/ \E w \in Workers : Speech(w, now)
    \/ \E old \in SUBSET Playbacks : PruneRetention(old)
    \/ Tick

Spec == Init /\ [][Next]_vars

\* The speech workers of the services poll for ever and a synthesis ends.
FairSpec ==
    /\ Spec
    /\ WF_vars(Tick)
    /\ WF_vars(\E w \in Workers, now \in Clocks : ClaimPreparation(w, now))
    /\ \A w \in Workers : WF_vars(\E now \in Clocks :
            CompletePreparation(w) \/ FailPreparation(w, now) \/ AbandonPreparation(w))

\* Moreover the stream of the current player stays connected: the service
\* polls for it every StreamPollEvery.
StreamedSpec ==
    /\ FairSpec
    /\ WF_vars(\E who \in issued, now \in Clocks :
                  StreamState(who, now) \/ LeaseLost(who, now))

-----------------------------------------------------------------------------
(* Properties.                                                             *)

Row ==
    [status: Open \cup Terminal \cup {"absent", "deleted"}, donated: BOOLEAN,
     expires: Int, available: Int, started: BOOLEAN, due: Int,
     holder: [id: Nat, generation: Nat],
     attempts: 0 .. PreparationTries, lease: Int, speech: BOOLEAN]

\* The variables hold what the columns and the worker's local may hold; a
\* preparation is tried at most PreparationTries times (store_preparation.go).
TypeOK ==
    /\ config \in [enabled: BOOLEAN, paused: BOOLEAN, tts: BOOLEAN]
    /\ overlay \in 0 .. MaxTokens
    /\ player \in [id: Nat, generation: Nat, active: BOOLEAN,
                   visible: BOOLEAN, lease: Int]
    /\ issued \subseteq [token: Nat, id: Nat, generation: Nat]
    /\ playback \in [Playbacks -> Row]
    /\ last \in 0 .. MaxPlaybacks
    /\ job \in [Workers -> {Idle} \cup [row: Playbacks, attempts: 1 .. PreparationTries]]

\* No step runs into the unique index on the playing row of a user: however
\* recoveries, claims and late acknowledgements interleave, one row plays.
OnePlaying ==
    \A r, s \in Playbacks :
        playback[r].status = "playing" /\ playback[s].status = "playing" => r = s

\* A playing row is never orphaned: its holder is the user's player row, so
\* some later poll, claim, heartbeat, open or rotation can always recover it.
\* Every path that replaces or deletes the player has to recover first.
PlayingHasPlayer ==
    \A r \in Playbacks : playback[r].status = "playing" =>
        player.id # 0 /\ playback[r].holder = Holder

\* Alerts are shown in acceptance order: nothing accepted before the playing
\* alert still waits, even when an earlier alert was assigned and given back.
PlayingIsOldest ==
    \A r, s \in Playbacks :
        playback[r].status = "playing" /\ playback[s].status \in Waiting => r < s

\* Recovered rows go back to the queue past boundBacklog, so the limit that
\* the code keeps is one more than MaxPendingAlerts, over all open rows.
BacklogBound == Cardinality(Rows(Open)) <= MaxPendingAlerts + 1

\* Once a renderer committed to show an alert it is never queued again, nor
\* shown by another player ("never rendered twice", recoverAssignedPlayback).
ShownToOnePlayer ==
    [][\A r \in Playbacks :
          playback[r].started /\ playback'[r].status # "deleted" =>
              /\ playback'[r].started /\ playback'[r].status \notin Waiting
              /\ playback'[r].holder = playback[r].holder]_vars

\* A late acknowledgement, worker or sweep never changes an outcome: what is
\* skipped, expired, interrupted or completed stays so until it is deleted.
OutcomeIsFinal ==
    [][\A r \in Playbacks : playback[r].status \in Terminal =>
          playback'[r].status \in {playback[r].status, "deleted"}]_vars

\* A worker whose lease was taken over, or whose row was skipped or expired
\* meanwhile, changes nothing when it reports (preparation_generation).
LateWorkerChangesNothing ==
    [][\A w \in Workers, r \in Playbacks :
          /\ job[w].row = r /\ job'[w] = Idle
          /\ \/ job[w].attempts # playback[r].attempts
             \/ playback[r].status # "preparing"
          => playback' = playback]_vars

\* Whatever the players do, an alert does not wait for ever: the expiry sweep
\* of the speech workers reaches rows no player ever asks for.
WaitingEnds ==
    \A r \in Playbacks : []<>(playback[r].status \notin Waiting)

\* While the current player's stream is polled, every accepted alert reaches
\* an outcome, however often it is assigned, given back or left unanswered.
EveryAlertCloses ==
    \A r \in Playbacks : []<>(playback[r].status \notin Open)

\* The documented limit (docs/features/donation-alerts.md:94), which rows that
\* a recovery queues again exceed.
AtMostMaxPendingAlertsWait == Cardinality(Rows(Waiting)) <= MaxPendingAlerts

-----------------------------------------------------------------------------
(* The queue implements AlertDelivery.                                     *)

Stage(row) ==
    CASE row.status = "absent"  -> "unknown"
      [] row.status \in Waiting -> "queued"
      [] row.status = "playing" -> IF row.started THEN "shown" ELSE "assigned"
      [] OTHER                  -> "closed"

Delivery == INSTANCE AlertDelivery WITH
    Alerts <- Playbacks, delivery <- [r \in Playbacks |-> Stage(playback[r])]

\* Every behaviour of the queue keeps the promise made to the viewers: in
\* order, one at a time, shown at most once, closed for good.
Delivers == Delivery!Spec
=============================================================================
