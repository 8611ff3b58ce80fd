------------------------- MODULE AlertWidgetProofs -------------------------
(***************************************************************************)
(* The safety properties of AlertWidget for every set of alerts and every  *)
(* bound.  The argument goes along the lease: only the loss of the lease   *)
(* puts an alert back in the queue, so that while an identity is honoured  *)
(* its stream sends every alert once, knows the playback it sent last      *)
(* unless that was completed, and is the only one the page hears.          *)
(*                                                                         *)
(* The steps are classed by what they do to the queue (QueueMoves) and to  *)
(* the page (Kinds, RunStep); each part of the invariant needs only that.  *)
(***************************************************************************)
EXTENDS AlertWidget, SequenceTheorems, TLAPS

Committed == {"started"} \cup Terminal
Statuses  == {"pending"} \cup Playing \cup Terminal
Events    == [type: {"playback", "skip", "revoked"}, of: Alerts \cup {None}]
Requests  == [kind: {"open", "start", "finish", "interrupt"}, id: 0 .. MaxIdentities,
              of: Alerts \cup {None}]

\* A playback that was sent, or none.
Held(p) == p = NoPlayback \/ (p.of \in Alerts /\ p.by \in 1 .. issued)

-----------------------------------------------------------------------------
(* The inductive invariant.                                                *)

LinkTyped ==
    /\ link \in [of: 0 .. MaxIdentities, stage: {"off", "connecting", "open", "closed"},
                 wire: Seq(Events)]
    /\ \A i \in DOMAIN link.wire : link.wire[i].type = "playback" => link.wire[i].of \in Alerts

\* Of the lease and the rows: one plays, and the player's row has the last identity.
Lease ==
    /\ player.id \in {None, issued} /\ (player.leased => player.id # None)
    /\ \A a, b \in Stored : a = b
    /\ poll.of <= issued /\ link.of <= issued /\ identity <= issued /\ view.identity <= issued
    /\ Held(playback) /\ Held(view.playback)

\* A run is of the playback that was rendered last.
Runs == run.stage # "idle" => run.of \in Alerts /\ run.of = view.playback.of /\ Active(view)

\* An identity has one stream, and holds no playback of it before it is open.
Links ==
    /\ link.stage # "off" => link.of # None /\ view.can /\ view.identity = link.of
    /\ link.stage = "off" => link = NoLink
    /\ link.stage = "connecting" => link.wire = <<>> /\ playback.by # link.of
    /\ identity > None => identity >= view.identity
    /\ identity > None /\ link.of # identity => playback.by # identity

\* What was rendered, or will be acknowledged as such, is never queued again.
Final ==
    /\ RenderedIsCommitted
    /\ \A r \in shown : r.of \in Alerts /\ status[r.of] \in Committed
    /\ \A r \in ends \cup stray :
          r.kind \in {"finish", "interrupt"} => r.of \in Alerts /\ status[r.of] \in Committed

\* The playbacks of the current stream, in order: the one the page holds, with
\* index 0, and those it has still to read.
Sends    == 0 .. Len(link.wire)
Given(i) == IF i = 0 THEN link.of # None /\ playback.by = link.of
                     ELSE link.wire[i].type = "playback"
What(i)  == IF i = 0 THEN playback.of ELSE link.wire[i].of
Kept(i, j) == \A m \in i + 1 .. j : link.wire[m].type # "skip"

\* A stream sends no alert twice, as none it sent waits while it is honoured.
Distinct ==
    /\ \A i, j \in Sends : Given(i) /\ Given(j) /\ i # j => What(i) # What(j)
    /\ link.of # None /\ view.playback.by = link.of =>
          /\ \A i \in Sends : i > 0 /\ Given(i) => What(i) # view.playback.of
          /\ "key" \in moved => playback # view.playback
    /\ Honoured(link.of) =>
          /\ \A i \in Sends : Given(i) => status[What(i)] # "pending"
          /\ view.playback.by = link.of => status[view.playback.of] # "pending"

\* The poll knows the playback it sent last, unless that was completed.
Tracked ==
    /\ Honoured(poll.of) /\ poll.current # None => status[poll.current] # "pending"
    /\ Honoured(poll.of) /\ poll.of = link.of /\ link.stage = "open" =>
          \A i \in Sends : Given(i) /\ Kept(i, Len(link.wire)) =>
              poll.current = What(i) \/ status[What(i)] = "completed"

\* Without a withdrawal between them only a completed playback has a successor.
Withdrawn ==
    \A i, j \in Sends : Given(i) /\ Given(j) /\ i < j /\ Kept(i, j) => status[What(i)] = "completed"

\* After the rendering of a playback of the own identity, the page holds what
\* it rendered until it loses that, and can get neither it nor an older one.
Own(r) == r.by = r.under /\ status[r.of] \in Playing

Rendered(r) ==
    /\ player.id = r.under
    /\ playback = [of |-> r.of, by |-> r.by] /\ identity = r.under =>
          /\ view = [can |-> TRUE, identity |-> r.under, playback |-> playback]
          /\ "key" \notin moved
    /\ link.of = r.under => \A i \in Sends : i > 0 /\ Given(i) => What(i) # r.of
    /\ run.of = r.of => run.stage \notin {"preloading", "starting"}
    /\ playback.by \in {None, r.by} /\ view.playback.by \in {None, r.by}

Once ==
    /\ view.playback.by = view.identity /\ view.identity > None =>
          playback.by \in {None, view.identity}
    /\ \A r \in shown : /\ r.under \in 1 .. issued
                        /\ identity > None => r.under <= identity
                        /\ view.identity > None => r.under <= view.identity
    /\ \A r \in shown : Own(r) => Rendered(r)

IInv == TypeOK /\ LinkTyped /\ Lease /\ Runs /\ Links /\ Final
        /\ Distinct /\ Tracked /\ Withdrawn /\ Once

-----------------------------------------------------------------------------
(* The queue.                                                              *)

Queue == <<status, player, issued>>

QueueTyped ==
    /\ status \in [Alerts -> Statuses]
    /\ player \in [id: 0 .. MaxIdentities, leased: BOOLEAN, ready: BOOLEAN]
    /\ issued \in 0 .. MaxIdentities
    /\ player.id \in {None, issued} /\ (player.leased => player.id # None)
    /\ \A a, b \in Stored : a = b

\* What every step does to the queue: outcomes are kept, an alert is queued
\* again only by the loss of the lease, and one that plays was waiting or has
\* kept its player.
QueueMoves ==
    /\ QueueTyped' /\ issued <= issued'
    /\ \A a \in Alerts :
          /\ status[a] \in Committed => status'[a] \in Committed
          /\ status[a] = "completed" => status'[a] = "completed"
          /\ status'[a] \in Playing => status[a] = "pending" \/ (status[a] \in Playing /\ player'.id = player.id)
    /\ \A id \in 0 .. issued : Honoured(id)' =>
          /\ Honoured(id)
          /\ \A a \in Alerts : status[a] # "pending" => status'[a] # "pending"

LEMMA QuietQueue == QueueTyped /\ UNCHANGED Queue => QueueMoves
  BY DEF QueueTyped, QueueMoves, Queue, Honoured, Stored, Playing

LEMMA RecoveredRows ==
    ASSUME QueueTyped
    PROVE  /\ Recovered \in [Alerts -> Statuses]
           /\ \A a \in Alerts : /\ Recovered[a] \notin Playing
                                /\ status[a] \in Committed => Recovered[a] \in Committed
                                /\ status[a] = "completed" => Recovered[a] = "completed"
  BY DEF QueueTyped, Recovered, Statuses, Playing, Committed, Terminal

\* Rows are recovered when the lease is lost, and the row of the player is
\* gone, not leased or has a new identity afterwards.
LEMMA RecoveryMoves ==
    ASSUME QueueTyped, status' = Recovered, issued \in Nat,
           \/ player' = NoPlayer /\ issued' = issued
           \/ player' = player /\ ~player.leased /\ issued' = issued
           \/ /\ issued < MaxIdentities /\ issued' = issued + 1
              /\ player' = [id |-> issued + 1, leased |-> TRUE, ready |-> FALSE]
    PROVE  QueueMoves
<1>1. QueueTyped' /\ issued <= issued'
  <2>1. /\ status' \in [Alerts -> Statuses]
        /\ \A a, b \in Stored' : a = b
    BY RecoveredRows DEF Stored
  <2>2. /\ issued' \in 0 .. MaxIdentities /\ issued <= issued'
    BY WidgetAssumption DEF QueueTyped
  <2>3. /\ player' \in [id: 0 .. MaxIdentities, leased: BOOLEAN, ready: BOOLEAN]
        /\ player'.id \in {None, issued'} /\ (player'.leased => player'.id # None)
    <3>1. CASE player' = NoPlayer
      BY <3>1, WidgetAssumption DEF NoPlayer, None
    <3>2. CASE player' = player /\ issued' = issued
      BY <3>2 DEF QueueTyped
    <3>3. CASE player' = [id |-> issued + 1, leased |-> TRUE, ready |-> FALSE] /\ issued' = issued + 1
      BY <3>3, <2>2 DEF None
    <3> QED
      BY <3>1, <3>2, <3>3
  <2> QED
    BY <2>1, <2>2, <2>3 DEF QueueTyped
<1>2. \A id \in 0 .. issued : ~Honoured(id)'
  BY DEF Honoured, NoPlayer, None, QueueTyped
<1> QED
  BY <1>1, <1>2, RecoveredRows DEF QueueMoves

LEMMA GrantedMoves == QueueTyped /\ Granted => QueueMoves
  BY RecoveryMoves DEF Granted, QueueTyped

LEMMA ReleaseMoves ==
    ASSUME QueueTyped, NEW id, Release(id), issued' = issued
    PROVE  QueueMoves
<1>1. CASE player.id = id
  BY <1>1, RecoveryMoves DEF Release, QueueTyped
<1>2. CASE player.id # id
  BY <1>2, QuietQueue DEF Release, Queue
<1> QED
  BY <1>1, <1>2

\* A request that ends a playback is of one that was committed to.
Ending(r) == r.kind \in {"finish", "interrupt"} => r.of \in Alerts /\ status[r.of] \in Committed

LEMMA ApplyMoves ==
    ASSUME QueueTyped, NEW r, r.of \in Alerts \cup {None}, Ending(r), Apply(r),
           UNCHANGED <<player, issued>>
    PROVE  QueueMoves
<1> DEFINE o == Outcome(r.kind, status[r.of])
<1>1. CASE UNCHANGED status
  BY <1>1, QuietQueue DEF Queue
<1>2. CASE r.of \in Alerts /\ o # "refused" /\ status' = [status EXCEPT ![r.of] = o]
  <2>1. /\ o \in Statuses /\ o # "pending"
        /\ status[r.of] \in Committed => o \in Committed
        /\ status[r.of] = "completed" => o = "completed"
        /\ o \in Playing => status[r.of] \in Playing
    BY <1>2 DEF Ending, Outcome, Statuses, Playing, Committed, Terminal, QueueTyped
  <2> HIDE DEF o
  <2>2. QueueTyped'
    BY <1>2, <2>1 DEF QueueTyped, Stored
  <2> QED
    BY <1>2, <2>1, <2>2 DEF QueueMoves, Honoured, QueueTyped
<1> QED
  BY <1>1, <1>2, WidgetAssumption DEF Apply, QueueTyped, None

\* A poll may time a started row out, and claims a row only if none plays.
LEMMA PollMoves ==
    ASSUME QueueTyped, NEW overdue \in BOOLEAN, Poll(overdue)
    PROVE  QueueMoves
<1> DEFINE now == [a \in Alerts |-> IF overdue /\ status[a] = "started" THEN "interrupted" ELSE status[a]]
<1>1. /\ now \in [Alerts -> Statuses]
      /\ \A a \in Alerts : /\ status[a] \in Committed => now[a] \in Committed
                           /\ status[a] = "completed" => now[a] = "completed"
                           /\ now[a] \in Playing => status[a] \in Playing
                           /\ now[a] = "pending" <=> status[a] = "pending"
  BY DEF QueueTyped, Statuses, Playing, Terminal, Committed
<1>2. /\ UNCHANGED <<player, issued>>
      /\ \/ status' = now
         \/ \E b \in Alerts : /\ now[b] = "pending" /\ \A a \in Alerts : now[a] \notin Playing
                              /\ status' = [now EXCEPT ![b] = "assigned"]
  BY DEF Poll
<1> HIDE DEF now
<1>3. CASE status' = now
  <2>1. QueueTyped'
    BY <1>1, <1>2, <1>3 DEF QueueTyped, Stored
  <2> QED
    BY <1>1, <1>2, <1>3, <2>1 DEF QueueMoves, Honoured, QueueTyped
<1>4. ASSUME NEW b \in Alerts, now[b] = "pending", \A a \in Alerts : now[a] \notin Playing,
             status' = [now EXCEPT ![b] = "assigned"]
      PROVE  QueueMoves
  <2>1. status' \in [Alerts -> Statuses] /\ \A a, c \in Stored' : a = c
    BY <1>1, <1>4 DEF Stored, Statuses, Playing
  <2>2. QueueTyped'
    BY <1>2, <2>1 DEF QueueTyped
  <2>3. \A a \in Alerts : /\ status[a] \in Committed => status'[a] \in Committed
                          /\ status[a] = "completed" => status'[a] = "completed"
                          /\ status'[a] \in Playing => status[a] = "pending"
                          /\ status[a] # "pending" => status'[a] # "pending"
    BY <1>1, <1>4 DEF Committed, Terminal, Playing
  <2> QED
    BY <1>2, <2>2, <2>3 DEF QueueMoves, Honoured, QueueTyped
<1> QED
  BY <1>2, <1>3, <1>4

LEMMA SkipMoves == QueueTyped /\ Skip => QueueMoves
<1> SUFFICES ASSUME QueueTyped, Skip PROVE QueueMoves
  OBVIOUS
<1>1. PICK a \in Alerts : /\ status[a] \in Playing \cup {"pending"}
                         /\ status' = [status EXCEPT ![a] = "skipped"]
  BY DEF Skip, Stored
<1>2. UNCHANGED <<player, issued>>
  BY DEF Skip
<1>3. QueueTyped'
  BY <1>1, <1>2 DEF QueueTyped, Stored, Statuses, Playing, Terminal
<1> QED
  BY <1>1, <1>2, <1>3 DEF QueueMoves, Honoured, QueueTyped, Committed, Playing, Terminal

LEMMA LeaseMoves ==
    ASSUME QueueTyped, UNCHANGED <<status, issued>>,
           \/ player' = [player EXCEPT !.leased = FALSE]
           \/ \E ready \in BOOLEAN : player' = [player EXCEPT !.ready = ready]
    PROVE  QueueMoves
<1>1. /\ player' \in [id: 0 .. MaxIdentities, leased: BOOLEAN, ready: BOOLEAN]
      /\ player'.id = player.id /\ (player'.leased => player.leased)
  BY DEF QueueTyped
<1>2. QueueTyped'
  BY <1>1 DEF QueueTyped, Stored
<1> QED
  BY <1>1, <1>2 DEF QueueMoves, Honoured, QueueTyped

LEMMA Typing == TypeOK /\ Lease => QueueTyped
  BY DEF TypeOK, Lease, QueueTyped, Statuses

LEMMA QueueStep == IInv /\ Next => QueueMoves
<1> SUFFICES ASSUME IInv, Next PROVE QueueMoves
  OBVIOUS
<1>1. QueueTyped
  BY Typing DEF IInv
<1>2. CASE UNCHANGED Queue
  BY <1>1, <1>2, QuietQueue
<1>3. ASSUME NEW r \in ends \cup stray PROVE r.of \in Alerts \cup {None} /\ Ending(r)
  BY <1>3 DEF IInv, Final, Ending, TypeOK
<1>4. run.of \in Alerts \cup {None} /\ Start.of = run.of /\ Start.kind = "start" /\ Ending(Start)
  BY DEF IInv, TypeOK, Start, Request, Ending
<1>5. CASE Service
  <2>1. CASE Skip
    BY <1>1, <2>1, SkipMoves
  <2>2. CASE LeaseRunsOut
    BY <1>1, <2>2, LeaseMoves DEF LeaseRunsOut
  <2>3. CASE StrayArrives
    <3>1. PICK r \in stray :
             IF r.kind = "open"
             THEN Granted \/ (player.leased /\ UNCHANGED <<status, player, issued>>)
             ELSE Apply(r) /\ UNCHANGED <<player, issued>>
      BY <2>3 DEF StrayArrives
    <3> QED
      BY <1>1, <1>2, <1>3, <3>1, GrantedMoves, ApplyMoves DEF Queue
  <2>4. ASSUME NEW overdue \in BOOLEAN, Poll(overdue) PROVE QueueMoves
    BY <1>1, <2>4, PollMoves
  <2>5. CASE Revoke \/ HangUp
    <3>1. issued' = issued /\ (Release(poll.of) \/ UNCHANGED Queue)
      BY <2>5 DEF Revoke, HangUp, Queue
    <3> QED
      BY <1>1, <1>2, <3>1, ReleaseMoves
  <2> QED
    BY <1>5, <2>1, <2>2, <2>3, <2>4, <2>5 DEF Service
<1>6. CASE Source \/ Reload
  BY <1>2, <1>6 DEF Source, Settle, SourceReports, Reload, server, Queue
<1>7. CASE Hook
  <2>1. CASE OpenAnswered \/ OpenFails
    <3>1. Granted \/ UNCHANGED Queue
      BY <2>1 DEF OpenAnswered, OpenFails, Queue
    <3> QED
      BY <1>1, <1>2, <3>1, GrantedMoves
  <2>2. CASE Heartbeat
    <3>1. CASE Honoured(identity)
      BY <1>1, <2>2, <3>1, LeaseMoves DEF Heartbeat, Ready, IInv, TypeOK
    <3>2. CASE ~Honoured(identity)
      BY <1>1, <1>2, <2>2, <3>2, RecoveryMoves DEF Heartbeat, Honoured, Queue, QueueTyped
    <3> QED
      BY <3>1, <3>2
  <2>3. CASE StreamOpens
    <3>1. issued' = issued /\ (Release(link.of) \/ UNCHANGED Queue)
      BY <2>3 DEF StreamOpens, Queue
    <3> QED
      BY <1>1, <1>2, <3>1, ReleaseMoves
  <2>4. CASE Commit \/ TryAgain \/ StreamBreaks \/ Receive \/ StreamEnds
    BY <1>2, <2>4 DEF Commit, TryAgain, StreamBreaks, Receive, StreamEnds, server, Queue
  <2> QED
    BY <1>7, <2>1, <2>2, <2>3, <2>4 DEF Hook
<1>8. CASE Player
  <2>1. CASE StartAnswered \/ StartUnanswered
    BY <1>1, <1>4, <2>1, ApplyMoves DEF StartAnswered, StartUnanswered
  <2>2. CASE EndAnswered \/ EndUnanswered
    BY <1>1, <1>3, <2>2, ApplyMoves DEF EndAnswered, EndUnanswered
  <2>3. CASE Preloaded \/ PlayAudio
    BY <1>2, <2>3 DEF Preloaded, PlayAudio, Goes, server, Queue
  <2>4. CASE StartGivesUp \/ DiagnosticSettles \/ Presented \/ EndGivesUp
    BY <1>2, <2>4 DEF StartGivesUp, DiagnosticSettles, Presented, EndGivesUp, server, Queue
  <2> QED
    BY <1>8, <2>1, <2>2, <2>3, <2>4 DEF Player
<1> QED
  BY <1>5, <1>6, <1>7, <1>8 DEF Next

-----------------------------------------------------------------------------
(* What a step does to the page and its stream.                            *)

\* The refs let go, or take a new identity.
Loosens ==
    /\ playback' = playback \/ playback' = NoPlayback
    /\ identity' = identity \/ identity' \in {None, Standby} \/ (identity' = issued' /\ issued' = issued + 1)
    /\ moved' \subseteq moved \cup {"cycle"}

Closes ==
    /\ link.stage \in {"connecting", "open"}
    /\ \E wire \in {<<>>, <<Event("revoked", None)>>, Append(link.wire, Event("revoked", None))} :
          link' = [link EXCEPT !.stage = "closed", !.wire = wire]

\* Nothing new comes to the page.
Calm ==
    /\ Loosens /\ view' = view /\ (poll' = poll \/ poll' = NoPoll)
    /\ \/ link' = link \/ Closes
       \/ link' = NoLink /\ identity' # link.of

Opens ==
    /\ link.stage = "connecting" /\ link' = [link EXCEPT !.stage = "open"]
    /\ \E a \in Stored \cup {None} : poll' = [of |-> link.of, current |-> a]
    /\ UNCHANGED <<status, player, issued, identity, playback, moved, view>>

LEMMA RefsStay ==
    ASSUME UNCHANGED <<identity, playback, moved>>
    PROVE  Loosens
  BY DEF Loosens

LEMMA Invalidates ==
    ASSUME NEW id, InvalidateIdentity(id)
    PROVE  Loosens /\ (id # None => identity' # id)
  BY DEF InvalidateIdentity, Loosens, None

LEMMA Kinds == IInv /\ Next => \/ Calm \/ Opens \/ Reload \/ Receive \/ Commit
                               \/ \E overdue \in BOOLEAN : Poll(overdue)
<1> SUFFICES ASSUME IInv, Next
             PROVE  \/ Calm \/ Opens \/ Reload \/ Receive \/ Commit
                    \/ \E overdue \in BOOLEAN : Poll(overdue)
  OBVIOUS
<1>1. ASSUME UNCHANGED <<view, link>>, Loosens, poll' = poll \/ poll' = NoPoll
      PROVE  Calm
  BY <1>1 DEF Calm
<1>2. CASE Service
  <2>1. CASE Skip \/ LeaseRunsOut \/ StrayArrives \/ HangUp
    BY <1>1, <2>1, RefsStay DEF Skip, LeaseRunsOut, StrayArrives, HangUp, page
  <2>2. CASE Revoke
    <3>1. link' = link \/ Closes
      BY <2>2 DEF Revoke, Closes
    <3> QED
      BY <2>2, <3>1, RefsStay DEF Revoke, Calm
  <2> QED
    BY <1>2, <2>1, <2>2 DEF Service
<1>3. CASE Source
  BY <1>1, <1>3, RefsStay DEF Source, Settle, SourceReports, server
<1>4. CASE Hook
  <2>1. CASE OpenAnswered \/ OpenFails
    <3>1. Loosens
      BY <2>1 DEF OpenAnswered, OpenFails, Granted, Loosens
    <3> QED
      BY <1>1, <2>1, <3>1 DEF OpenAnswered, OpenFails
  <2>2. CASE TryAgain
    BY <1>1, <2>2, RefsStay DEF TryAgain, server
  <2>3. CASE Heartbeat
    <3>1. Loosens
      BY <2>3, RefsStay, Invalidates DEF Heartbeat
    <3> QED
      BY <1>1, <2>3, <3>1 DEF Heartbeat
  <2>4. CASE StreamOpens
    <3>1. CASE Honoured(link.of)
      BY <2>4, <3>1 DEF StreamOpens, Opens
    <3>2. CASE ~Honoured(link.of)
      <4>1. Closes
        BY <2>4, <3>2 DEF StreamOpens, Closes
      <4> QED
        BY <2>4, <3>2, <4>1, RefsStay DEF StreamOpens, Calm
    <3> QED
      BY <3>1, <3>2
  <2>5. CASE StreamBreaks
    <3>1. Closes
      BY <2>5 DEF StreamBreaks, Closes
    <3> QED
      BY <2>5, <3>1, RefsStay DEF StreamBreaks, Calm, server
  <2>6. CASE StreamEnds
    <3>1. link.of # None
      BY <2>6 DEF StreamEnds, IInv, Links
    <3>2. Loosens /\ identity' # link.of
      BY <2>6, <3>1, Invalidates DEF StreamEnds
    <3> QED
      BY <2>6, <3>2 DEF StreamEnds, Calm, server
  <2> QED
    BY <1>4, <2>1, <2>2, <2>3, <2>4, <2>5, <2>6 DEF Hook
<1>5. CASE Player
  <2>1. CASE Preloaded \/ PlayAudio
    BY <1>1, <2>1, RefsStay DEF Preloaded, PlayAudio, Goes, server
  <2>2. CASE StartAnswered \/ StartUnanswered \/ DiagnosticSettles \/ Presented
    BY <1>1, <2>2, RefsStay DEF StartAnswered, StartUnanswered, DiagnosticSettles, Presented, server, page
  <2>3. CASE EndUnanswered \/ EndGivesUp
    BY <1>1, <2>3, RefsStay DEF EndUnanswered, EndGivesUp, page
  <2>4. CASE StartGivesUp
    <3>1. Loosens
      BY <2>4, RefsStay, Invalidates DEF StartGivesUp
    <3> QED
      BY <1>1, <2>4, <3>1 DEF StartGivesUp
  <2>5. CASE EndAnswered
    <3>1. Loosens
      BY <2>5 DEF EndAnswered, Loosens
    <3> QED
      BY <1>1, <2>5, <3>1 DEF EndAnswered
  <2> QED
    BY <1>5, <2>1, <2>2, <2>3, <2>4, <2>5 DEF Player
<1> QED
  BY <1>2, <1>3, <1>4, <1>5 DEF Next, Service, Hook
-----------------------------------------------------------------------------
(* Requests, and the run of the player.                                    *)

\* What a run on screen asks for when it ends or is cut short.
Answers ==
    IF run.stage \in OnScreen /\ identity > None
    THEN {Request(kind, identity, run.of) : kind \in {"finish", "interrupt"}} ELSE {}

LEMMA StillArriving ==
    ASSUME NEW requests, MayStillArrive(requests)
    PROVE  stray' \subseteq stray \cup requests
  BY DEF MayStillArrive

LEMMA AsksStep == IInv /\ Next => stray' \cup ends' \subseteq stray \cup ends \cup Sent \cup Answers
<1> SUFFICES ASSUME IInv, Next
             PROVE  stray' \cup ends' \subseteq stray \cup ends \cup Sent \cup Answers
  OBVIOUS
<1>1. CASE UNCHANGED <<stray, ends>>
  BY <1>1
<1>2. CASE StrayArrives
  BY <1>2 DEF StrayArrives, page
<1>3. CASE Commit
  <2>1. stray' \subseteq stray \cup Sent
    BY <1>3, StillArriving DEF Commit
  <2>2. \A next : next.identity = identity /\ run.stage \in OnScreen => Interruption(next) \subseteq Answers
    BY DEF Interruption, Answers
  <2>3. ends' \subseteq ends \cup Answers
    BY <1>3, <2>2 DEF Commit
  <2> QED
    BY <2>1, <2>3
<1>4. CASE Reload
  <2>1. stray' \subseteq stray \cup (Sent \cup ends) /\ ends' = {}
    BY <1>4, StillArriving DEF Reload
  <2> QED
    BY <2>1
<1>5. CASE StartGivesUp
  <2>1. stray' \subseteq stray \cup Sent /\ ends' = ends
    BY <1>5, StillArriving DEF StartGivesUp
  <2> QED
    BY <2>1
<1>6. CASE Presented
  BY <1>6 DEF Presented, server, ShouldContinue, Answers, OnScreen
<1>7. CASE EndAnswered
  BY <1>7 DEF EndAnswered
<1>8. CASE EndGivesUp
  <2>1. stray' \subseteq stray \cup ends /\ ends' \subseteq ends
    BY <1>8, StillArriving DEF EndGivesUp
  <2> QED
    BY <2>1
<1>9. CASE Service \/ Source
  BY <1>1, <1>2, <1>9 DEF Service, Source, Skip, LeaseRunsOut, Poll, Revoke, HangUp, Settle,
                          SourceReports, page, server
<1>10. CASE Hook
  BY <1>1, <1>3, <1>10 DEF Hook, OpenAnswered, OpenFails, TryAgain, Heartbeat, StreamOpens,
                           StreamBreaks, Receive, StreamEnds, server
<1>11. CASE Player
  BY <1>1, <1>5, <1>6, <1>7, <1>8, <1>11
     DEF Player, Preloaded, StartAnswered, StartUnanswered, PlayAudio, DiagnosticSettles,
         EndUnanswered, Goes, server, page
<1> QED
  BY <1>4, <1>9, <1>10, <1>11 DEF Next

RunTypes == [of: Alerts \cup {None}, owed: BOOLEAN,
             stage: {"idle", "preloading", "starting"} \cup OnScreen]
Early    == {"preloading", "starting"}

\* The run goes on, without rendering anything new.
Continues ==
    /\ run' \in RunTypes /\ run'.of = run.of
    /\ run.stage = "idle" => run'.stage = "idle"
    /\ run'.stage \in OnScreen => run.stage \in OnScreen
    /\ run'.stage \in Early => run.stage \in Early

LEMMA RunStep == IInv /\ Next => /\ Continues \/ run' = NoRun \/ StartAnswered \/ Commit
                                 /\ shown' = shown \/ StartAnswered
                                 /\ view' = view \/ Commit \/ Reload
<1> SUFFICES ASSUME IInv, Next
             PROVE  /\ Continues \/ run' = NoRun \/ StartAnswered \/ Commit
                    /\ shown' = shown \/ StartAnswered
                    /\ view' = view \/ Commit \/ Reload
  OBVIOUS
<1>0. run \in RunTypes
  BY DEF IInv, TypeOK, RunTypes
<1>1. ASSUME run' = run PROVE Continues
  BY <1>0, <1>1 DEF Continues
<1>2. CASE Service \/ Source \/ Reload
  BY <1>1, <1>2 DEF Service, Source, Skip, LeaseRunsOut, StrayArrives, Poll, Revoke, HangUp, Settle,
                    SourceReports, Reload, page, server
<1>3. CASE Hook
  BY <1>1, <1>3 DEF Hook, Commit, OpenAnswered, OpenFails, TryAgain, Heartbeat, StreamOpens,
                    StreamBreaks, Receive, StreamEnds, server
<1>4. CASE Player
  <2>1. CASE Preloaded \/ PlayAudio
    <3>1. PICK reports \in BOOLEAN : \/ run.stage = "preloading" /\ Goes("starting", reports)
                                     \/ run.stage = "entering" /\ Goes("leaving", reports)
      BY <2>1 DEF Preloaded, PlayAudio
    <3>2. Reportable \in BOOLEAN
      BY DEF Reportable
    <3>3. Continues
      BY <1>0, <3>1, <3>2 DEF Goes, Continues, RunTypes, OnScreen, Early
    <3> QED
      BY <3>1, <3>3 DEF Goes
  <2>2. CASE DiagnosticSettles
    BY <1>0, <2>2 DEF DiagnosticSettles, Continues, RunTypes, OnScreen, Early
  <2> QED
    BY <1>1, <1>4, <2>1, <2>2 DEF Player, StartAnswered, StartUnanswered, StartGivesUp, Presented,
                       EndAnswered, EndUnanswered, EndGivesUp, server, page
<1> QED
  BY <1>2, <1>3, <1>4 DEF Next

-----------------------------------------------------------------------------
(* The types.                                                              *)

\* A playback is given only to a stream that has been opened.
LEMMA Opened ==
    ASSUME IInv, link.stage # "off"
    PROVE  link.of \in 1 .. issued /\ view.can /\ view.identity = link.of
  BY DEF IInv, Links, Lease, LinkTyped, TypeOK, None

\* What reading an event does.
Takes == /\ link.wire[1].type = "playback" /\ link.wire[1].of \in Alerts
         /\ playback' = [of |-> link.wire[1].of, by |-> link.of]
         /\ link' = [link EXCEPT !.wire = Tail(@)] /\ UNCHANGED <<identity, suppressed, moved>>
Drops == /\ SuppressServerInterrupted /\ moved' = moved \cup {"key"}
         /\ link' = [link EXCEPT !.wire = Tail(@)] /\ UNCHANGED identity
Loses == /\ SuppressServerInterrupted /\ link' = NoLink
         /\ identity' \in {identity, None} /\ moved' \subseteq moved \cup {"cycle"}

LEMMA Received ==
    ASSUME IInv, Receive
    PROVE  /\ link.stage \in {"open", "closed"} /\ link.wire \in Seq(Events) /\ Len(link.wire) > 0
           /\ link.of \in 1 .. issued /\ view.identity = link.of
           /\ UNCHANGED <<status, player, issued, poll, view, run, shown>>
           /\ Takes \/ Drops \/ Loses
<1>1. link.wire # <<>> /\ UNCHANGED <<status, player, issued, poll, view, run, shown>>
  BY DEF Receive, server
<1>2. link.stage \in {"open", "closed"} /\ link.wire \in Seq(Events)
  BY <1>1 DEF IInv, Links, NoLink, LinkTyped
<1>3. /\ Len(link.wire) > 0 /\ 1 \in DOMAIN link.wire /\ Head(link.wire) = link.wire[1]
      /\ link.wire[1] \in Events
  BY <1>1, <1>2
<1>4. link.wire[1].type \in {"playback", "skip", "revoked"}
  BY <1>3 DEF Events
<1>5. ASSUME link.wire[1].type = "playback" PROVE Takes
  <2>1. link.wire[1].of \in Alerts
    BY <1>3, <1>5 DEF IInv, LinkTyped
  <2> QED
    BY <1>3, <1>5, <2>1 DEF Receive, Takes
<1>6. ASSUME link.wire[1].type = "skip" PROVE Drops
  BY <1>3, <1>6 DEF Receive, Drops
<1>7. ASSUME link.wire[1].type = "revoked" PROVE Loses
  BY <1>3, <1>7 DEF Receive, Loses
<1> QED
  BY <1>1, <1>2, <1>3, <1>4, <1>5, <1>6, <1>7, Opened

LEMMA SuppressedTyped == IInv /\ Next => suppressed' \subseteq Alerts
<1> SUFFICES ASSUME IInv, Next PROVE suppressed' \subseteq Alerts
  OBVIOUS
<1>1. suppressed \subseteq Alerts /\ playback.of \in Alerts \cup {None}
  BY DEF IInv, TypeOK
<1>2. ASSUME UNCHANGED suppressed PROVE suppressed' \subseteq Alerts
  BY <1>1, <1>2
<1>3. CASE Receive
  BY <1>1, <1>3, Received DEF Takes, Drops, Loses, SuppressServerInterrupted
<1>4. CASE Commit
  BY <1>1, <1>4 DEF Commit
<1>5. CASE Service \/ Source \/ Reload
  BY <1>1, <1>2, <1>5 DEF Service, Source, Skip, LeaseRunsOut, StrayArrives, Poll, Revoke, HangUp, Settle,
                          SourceReports, Reload, page
<1>6. CASE Hook
  BY <1>2, <1>3, <1>4, <1>6 DEF Hook, OpenAnswered, OpenFails, TryAgain, Heartbeat, StreamOpens,
                                StreamBreaks, StreamEnds
<1>7. CASE Player
  BY <1>2, <1>7 DEF Player, Preloaded, StartAnswered, StartUnanswered, StartGivesUp, PlayAudio,
                    DiagnosticSettles, Presented, EndAnswered, EndUnanswered, EndGivesUp, Goes, page
<1> QED
  BY <1>5, <1>6, <1>7 DEF Next

LEMMA RefsTyped ==
    ASSUME IInv, Next, QueueMoves
    PROVE  /\ identity' \in Standby .. MaxIdentities /\ identity' <= issued'
           /\ playback' \in [of: Alerts \cup {None}, by: 0 .. MaxIdentities] /\ Held(playback)'
           /\ suppressed' \subseteq Alerts /\ moved' \subseteq {"key", "cycle"}
<1>1. /\ issued \in 0 .. MaxIdentities /\ issued' \in 0 .. MaxIdentities /\ issued <= issued'
      /\ identity \in Standby .. MaxIdentities /\ identity <= issued
      /\ playback \in [of: Alerts \cup {None}, by: 0 .. MaxIdentities] /\ Held(playback)
      /\ suppressed \subseteq Alerts /\ moved \subseteq {"key", "cycle"}
      /\ Alerts \subseteq Nat \ {0} /\ MaxIdentities \in Nat
  BY WidgetAssumption DEF IInv, TypeOK, Lease, QueueMoves, QueueTyped
<1>2. /\ NoPlayback \in [of: Alerts \cup {None}, by: 0 .. MaxIdentities]
      /\ playback' = NoPlayback => Held(playback)'
      /\ playback' = playback => Held(playback)'
      /\ None \in Standby .. MaxIdentities /\ Standby \in Standby .. MaxIdentities
      /\ None <= issued' /\ Standby <= issued'
  BY <1>1 DEF NoPlayback, None, Standby, Held
<1>3. ASSUME Loosens PROVE /\ identity' \in Standby .. MaxIdentities /\ identity' <= issued'
                           /\ playback' \in [of: Alerts \cup {None}, by: 0 .. MaxIdentities]
                           /\ Held(playback)' /\ moved' \subseteq {"key", "cycle"}
  <2>1. identity' \in Standby .. MaxIdentities /\ identity' <= issued'
    BY <1>1, <1>2, <1>3 DEF Loosens, Standby, None
  <2> QED
    BY <1>1, <1>2, <1>3, <2>1 DEF Loosens
<1>5. suppressed' \subseteq Alerts
  BY SuppressedTyped
<1>6. CASE Calm
  BY <1>3, <1>5, <1>6 DEF Calm
<1>7. CASE Opens
  BY <1>3, <1>5, <1>7, RefsStay DEF Opens
<1>8. CASE Reload
  BY <1>1, <1>2, <1>5, <1>8 DEF Reload
<1>9. CASE \E overdue \in BOOLEAN : Poll(overdue)
  BY <1>3, <1>5, <1>9, RefsStay DEF Poll
<1>10. CASE Commit
  BY <1>1, <1>2, <1>5, <1>10 DEF Commit, LetGo
<1>11. CASE Receive
  <2>1. link.of \in 1 .. issued /\ issued' = issued
    BY <1>11, Received
  <2>3. /\ identity' \in {identity, None} /\ moved' \subseteq {"key", "cycle"}
        /\ \/ playback' = NoPlayback
           \/ \E a \in Alerts : playback' = [of |-> a, by |-> link.of]
    BY <1>1, <1>11, Received DEF Takes, Drops, Loses, SuppressServerInterrupted
  <2>4. ASSUME NEW a \in Alerts, playback' = [of |-> a, by |-> link.of]
        PROVE  playback' \in [of: Alerts \cup {None}, by: 0 .. MaxIdentities] /\ Held(playback)'
    BY <1>1, <2>1, <2>4 DEF Held
  <2> QED
    BY <1>1, <1>2, <1>5, <2>3, <2>4
<1> QED
  BY Kinds, <1>6, <1>7, <1>8, <1>9, <1>10, <1>11

LEMMA ViewTyped ==
    ASSUME IInv, Next, QueueMoves
    PROVE  /\ view' \in [can: BOOLEAN, identity: Standby .. MaxIdentities,
                         playback: [of: Alerts \cup {None}, by: 0 .. MaxIdentities]]
           /\ view'.identity <= issued' /\ Held(view.playback)'
<1>1. /\ view \in [can: BOOLEAN, identity: Standby .. MaxIdentities,
                   playback: [of: Alerts \cup {None}, by: 0 .. MaxIdentities]]
      /\ issued <= issued' /\ view.identity <= issued /\ Held(view.playback) /\ Held(playback)
      /\ issued \in Nat /\ issued' \in Nat /\ MaxIdentities \in Nat
      /\ identity \in Standby .. MaxIdentities /\ identity <= issued
      /\ playback \in [of: Alerts \cup {None}, by: 0 .. MaxIdentities]
  BY WidgetAssumption DEF IInv, TypeOK, Lease, QueueMoves, QueueTyped
<1>2. CASE view' = view
  BY <1>1, <1>2 DEF Held, Standby
<1>3. CASE Commit
  <2>1. view' = [can |-> CanClaim(signals), identity |-> identity, playback |-> playback]
        /\ CanClaim(signals) \in BOOLEAN
    BY <1>3 DEF Commit, CanClaim
  <2> QED
    BY <1>1, <2>1 DEF Held, Standby
<1>4. CASE Reload
  <2>1. view' = [can |-> FALSE, identity |-> None, playback |-> NoPlayback]
    BY <1>4 DEF Reload, Unmounted
  <2> QED
    BY <1>1, <2>1 DEF Held, Standby, None, NoPlayback
<1> QED
  BY <1>2, <1>3, <1>4, RunStep
\* What a poll says: a withdrawal, a new playback, both or nothing.
Told ==
    {<<>>, <<Event("skip", None)>>} \cup {<<Event("playback", a)>> : a \in Alerts}
        \cup {<<Event("skip", None), Event("playback", a)>> : a \in Alerts}

LEMMA EventTypes ==
    /\ Event("skip", None) \in Events /\ Event("revoked", None) \in Events
    /\ \A a \in Alerts : Event("playback", a) \in Events
  BY DEF Event, Events

LEMMA Single ==
    ASSUME NEW S, NEW x \in S
    PROVE  <<x>> \in Seq(S) /\ Len(<<x>>) = 1 /\ <<x>>[1] = x
  OBVIOUS

LEMMA Pairs ==
    ASSUME NEW S, NEW x \in S, NEW y \in S
    PROVE  /\ <<x>> \o <<y>> = <<x, y>> /\ <<x, y>> \in Seq(S)
           /\ Len(<<x, y>>) = 2 /\ <<x, y>>[1] = x /\ <<x, y>>[2] = y
<1>1. <<x>> \in Seq(S) /\ <<y>> \in Seq(S) /\ <<x, y>> \in Seq(S)
  OBVIOUS
<1>2. <<x>> \o <<y>> \in Seq(S) /\ Len(<<x>> \o <<y>>) = Len(<<x, y>>)
  BY <1>1
<1>3. \A i \in 1 .. 2 : (<<x>> \o <<y>>)[i] = <<x, y>>[i]
  BY <1>1
<1> QED
  BY <1>1, <1>2, <1>3, SeqEqual

LEMMA PollTells ==
    ASSUME IInv, NEW overdue \in BOOLEAN, Poll(overdue)
    PROVE  /\ UNCHANGED <<player, issued, view, run, shown, identity, playback, moved>>
           /\ Honoured(poll.of)
           /\ \E a \in Alerts \cup {None} : poll' = [poll EXCEPT !.current = a]
           /\ \E events \in Told : Emit(events)
<1>1. \A now : Withdrawal(now) \in {<<>>, <<Event("skip", None)>>}
  BY DEF Withdrawal
<1>2. \A w \in {<<>>, <<Event("skip", None)>>} : w \in Told
  BY DEF Told
<1>3. <<>> \in Told
  BY DEF Told
<1>4. \A now : Withdrawal(now) \in Told
  BY <1>1, <1>2
<1>5. ASSUME NEW a \in Alerts, NEW now PROVE Withdrawal(now) \o <<Event("playback", a)>> \in Told
  <2>1. <<>> \o <<Event("playback", a)>> = <<Event("playback", a)>>
    OBVIOUS
  <2>2. <<Event("skip", None)>> \o <<Event("playback", a)>> = <<Event("skip", None), Event("playback", a)>>
    BY EventTypes, Pairs
  <2> QED
    BY <1>1, <2>1, <2>2 DEF Told
<1> HIDE DEF Told
<1>6. \E events \in Told : Emit(events)
  BY <1>3, <1>4, <1>5 DEF Poll
<1>7. \E a \in Alerts \cup {None} : poll' = [poll EXCEPT !.current = a]
  BY DEF Poll
<1> QED
  BY <1>6, <1>7 DEF Poll

LEMMA ToldTyped ==
    ASSUME NEW events \in Told
    PROVE  /\ events \in Seq(Events)
           /\ \A i \in DOMAIN events : events[i].type = "playback" => events[i].of \in Alerts
<1>1. CASE events = <<>>
  BY <1>1
<1>2. CASE events = <<Event("skip", None)>>
  BY <1>2, EventTypes DEF Event
<1>3. ASSUME NEW a \in Alerts, events = <<Event("playback", a)>>
      PROVE  /\ events \in Seq(Events)
             /\ \A i \in DOMAIN events : events[i].type = "playback" => events[i].of \in Alerts
  BY <1>3, EventTypes DEF Event
<1>4. ASSUME NEW a \in Alerts, events = <<Event("skip", None), Event("playback", a)>>
      PROVE  /\ events \in Seq(Events)
             /\ \A i \in DOMAIN events : events[i].type = "playback" => events[i].of \in Alerts
  BY <1>4, EventTypes DEF Event
<1> QED
  BY <1>1, <1>2, <1>3, <1>4 DEF Told

\* The link after a step, as the wire changes.
LEMMA WireTyped ==
    ASSUME LinkTyped, NEW wire \in Seq(Events), NEW stage \in {"off", "connecting", "open", "closed"},
           \A i \in DOMAIN wire : wire[i].type = "playback" => wire[i].of \in Alerts,
           link' = [link EXCEPT !.wire = wire, !.stage = stage]
    PROVE  LinkTyped' /\ link'.of = link.of
  BY DEF LinkTyped

LEMMA LinkIsTyped ==
    ASSUME IInv, Next, QueueMoves
    PROVE  LinkTyped' /\ link'.of <= issued'
<1>1. /\ LinkTyped /\ link.of \in 0 .. MaxIdentities /\ link.wire \in Seq(Events)
      /\ link.stage \in {"off", "connecting", "open", "closed"}
      /\ \A i \in DOMAIN link.wire : link.wire[i].type = "playback" => link.wire[i].of \in Alerts
      /\ link.of <= issued /\ issued <= issued' /\ issued \in Nat /\ issued' \in Nat /\ MaxIdentities \in Nat
  BY WidgetAssumption DEF IInv, LinkTyped, Lease, TypeOK, QueueMoves, QueueTyped
<1>2. ASSUME link' = NoLink PROVE LinkTyped' /\ link'.of <= issued'
  BY <1>1, <1>2 DEF LinkTyped, NoLink, None
<1>3. ASSUME link' = link PROVE LinkTyped' /\ link'.of <= issued'
  BY <1>1, <1>3 DEF LinkTyped
<1>4. ASSUME NEW wire \in Seq(Events), NEW stage \in {"off", "connecting", "open", "closed"},
             \A i \in DOMAIN wire : wire[i].type = "playback" => wire[i].of \in Alerts,
             link' = [link EXCEPT !.wire = wire, !.stage = stage]
      PROVE  LinkTyped' /\ link'.of <= issued'
  <2>1. LinkTyped' /\ link'.of = link.of
    BY <1>1, <1>4, WireTyped
  <2> QED
    BY <1>1, <2>1
<1>5. CASE Calm
  <2>1. CASE Closes
    <3>1. PICK wire \in {<<>>, <<Event("revoked", None)>>, Append(link.wire, Event("revoked", None))} :
             link' = [link EXCEPT !.stage = "closed", !.wire = wire]
      BY <2>1 DEF Closes
    <3>2. wire \in Seq(Events)
      <4>1. <<Event("revoked", None)>> \in Seq(Events)
        BY EventTypes
      <4>2. Append(link.wire, Event("revoked", None)) \in Seq(Events)
        BY <1>1, EventTypes
      <4> QED
        BY <4>1, <4>2, EmptySeq
    <3>3. ASSUME NEW i \in DOMAIN wire, wire[i].type = "playback" PROVE wire[i].of \in Alerts
      <4>1. CASE wire = <<>>
        BY <3>3, <4>1
      <4>2. CASE wire = <<Event("revoked", None)>>
        BY <3>3, <4>2 DEF Event
      <4>3. CASE wire = Append(link.wire, Event("revoked", None))
        <5>1. \/ i \in DOMAIN link.wire /\ wire[i] = link.wire[i]
              \/ wire[i] = Event("revoked", None)
          BY <1>1, <3>3, <4>3, EventTypes
        <5> QED
          BY <1>1, <3>3, <5>1 DEF Event
      <4> QED
        BY <4>1, <4>2, <4>3
    <3>4. link' = [link EXCEPT !.wire = wire, !.stage = "closed"]
      BY <3>1
    <3> QED
      BY <1>4, <3>2, <3>3, <3>4
  <2> QED
    BY <1>2, <1>3, <1>5, <2>1 DEF Calm
<1>6. CASE Opens
  <2>1. link' = [link EXCEPT !.wire = link.wire, !.stage = "open"]
    BY <1>1, <1>6 DEF Opens, LinkTyped
  <2> QED
    BY <1>1, <1>4, <2>1
<1>7. CASE Reload
  BY <1>2, <1>7 DEF Reload
<1>8. CASE Receive
  <2>1. CASE link' = [link EXCEPT !.wire = Tail(@)]
    <3>1. /\ Tail(link.wire) \in Seq(Events) /\ Len(link.wire) > 0
          /\ Len(Tail(link.wire)) = Len(link.wire) - 1
          /\ \A i \in DOMAIN Tail(link.wire) :
                i + 1 \in DOMAIN link.wire /\ Tail(link.wire)[i] = link.wire[i + 1]
      BY <1>8, Received
    <3>2. link' = [link EXCEPT !.wire = Tail(link.wire), !.stage = link.stage]
      BY <1>1, <2>1 DEF LinkTyped
    <3>3. \A i \in DOMAIN Tail(link.wire) :
             Tail(link.wire)[i].type = "playback" => Tail(link.wire)[i].of \in Alerts
      BY <1>1, <3>1
    <3> QED
      BY <1>1, <1>4, <3>1, <3>2, <3>3
  <2> QED
    BY <1>2, <1>8, <2>1, Received DEF Takes, Drops, Loses
<1>9. ASSUME NEW overdue \in BOOLEAN, Poll(overdue) PROVE LinkTyped' /\ link'.of <= issued'
  <2>1. PICK events \in Told : Emit(events)
    BY <1>9, PollTells
  <2>2. CASE link' = [link EXCEPT !.wire = @ \o events]
    <3>1. /\ link.wire \o events \in Seq(Events)
          /\ \A i \in DOMAIN (link.wire \o events) :
                \/ i \in DOMAIN link.wire /\ (link.wire \o events)[i] = link.wire[i]
                \/ i - Len(link.wire) \in DOMAIN events /\ (link.wire \o events)[i] = events[i - Len(link.wire)]
      BY <1>1, ToldTyped
    <3>2. link' = [link EXCEPT !.wire = link.wire \o events, !.stage = link.stage]
      BY <1>1, <2>2 DEF LinkTyped
    <3>3. \A i \in DOMAIN (link.wire \o events) : (link.wire \o events)[i].type = "playback"
                => (link.wire \o events)[i].of \in Alerts
      BY <1>1, <3>1, ToldTyped
    <3> QED
      BY <1>1, <1>4, <3>1, <3>2, <3>3
  <2> QED
    BY <1>3, <2>1, <2>2 DEF Emit
<1>10. CASE Commit
  <2>1. /\ identity \in Standby .. MaxIdentities /\ identity <= issued /\ issued' = issued
        /\ link' = LinkFor([can |-> CanClaim(signals), identity |-> identity, playback |-> playback])
    BY <1>10 DEF Commit, IInv, TypeOK, Lease
  <2>2. ASSUME identity > None, link' = [of |-> identity, stage |-> "connecting", wire |-> <<>>]
        PROVE  LinkTyped' /\ link'.of <= issued'
    <3>1. identity \in 0 .. MaxIdentities /\ <<>> \in Seq(Events) /\ DOMAIN <<>> = {}
      BY <1>1, <2>1, <2>2 DEF None, Standby
    <3>2. /\ link' \in [of: 0 .. MaxIdentities, stage: {"off", "connecting", "open", "closed"},
                        wire: Seq(Events)]
          /\ link'.wire = <<>> /\ link'.of = identity
      BY <2>2, <3>1
    <3> QED
      BY <2>1, <3>1, <3>2 DEF LinkTyped
  <2> QED
    BY <1>2, <1>3, <2>1, <2>2 DEF LinkFor, Active
<1> QED
  BY Kinds, <1>5, <1>6, <1>7, <1>8, <1>9, <1>10

LEMMA PollTyped ==
    ASSUME IInv, Next, QueueMoves
    PROVE  poll' \in [of: 0 .. MaxIdentities, current: Alerts \cup {None}] /\ poll'.of <= issued'
<1>1. /\ poll \in [of: 0 .. MaxIdentities, current: Alerts \cup {None}] /\ poll.of <= issued
      /\ link.of \in 0 .. MaxIdentities /\ link.of <= issued
      /\ issued <= issued' /\ issued \in Nat /\ issued' \in Nat /\ MaxIdentities \in Nat
  BY WidgetAssumption DEF IInv, LinkTyped, Lease, TypeOK, QueueMoves, QueueTyped
<1>2. NoPoll \in [of: 0 .. MaxIdentities, current: Alerts \cup {None}] /\ NoPoll.of <= issued'
  BY <1>1 DEF NoPoll, None
<1>3. CASE poll' = poll
  BY <1>1, <1>3
<1>4. CASE Opens
  <2>1. PICK a \in Alerts \cup {None} : poll' = [of |-> link.of, current |-> a]
    BY <1>4 DEF Opens, Stored
  <2> QED
    BY <1>1, <2>1
<1>5. ASSUME NEW overdue \in BOOLEAN, Poll(overdue)
      PROVE  poll' \in [of: 0 .. MaxIdentities, current: Alerts \cup {None}] /\ poll'.of <= issued'
  BY <1>1, <1>5, PollTells
<1>6. CASE Receive
  BY <1>3, <1>6, Received
<1> QED
  BY <1>2, <1>3, <1>4, <1>5, <1>6, Kinds DEF Calm, Reload, Commit
LEMMA AsksTyped ==
    ASSUME IInv, Next
    PROVE  stray' \cup ends' \subseteq Requests
<1>1. /\ stray \cup ends \subseteq Requests /\ run \in RunTypes
      /\ identity \in Standby .. MaxIdentities /\ view.identity \in Standby .. MaxIdentities
      /\ MaxIdentities \in Nat
  BY WidgetAssumption DEF IInv, TypeOK, Requests, RunTypes
<1>2. \A kind \in {"open", "start", "finish", "interrupt"}, id \in 0 .. MaxIdentities,
         a \in Alerts \cup {None} : Request(kind, id, a) \in Requests
  BY DEF Request, Requests
<1>3. run.of \in Alerts \cup {None} /\ None \in Alerts \cup {None} /\ None \in 0 .. MaxIdentities
  BY <1>1 DEF RunTypes, None
<1>4. run.stage = "starting" => view.identity \in 0 .. MaxIdentities
  BY <1>1 DEF IInv, Runs, Active, None, Standby
<1>5. Sent \subseteq Requests
  BY <1>2, <1>3, <1>4 DEF Sent
<1>6. identity > None => identity \in 0 .. MaxIdentities
  BY <1>1 DEF None, Standby
<1>7. Answers \subseteq Requests
  BY <1>2, <1>3, <1>6 DEF Answers
<1> QED
  BY <1>1, <1>5, <1>7, AsksStep

LEMMA RunTyped ==
    ASSUME IInv, Next
    PROVE  run' \in RunTypes
<1>1. run \in RunTypes /\ playback.of \in Alerts \cup {None}
  BY DEF IInv, TypeOK, RunTypes
<1>2. NoRun \in RunTypes
  BY DEF NoRun, RunTypes
<1>3. CASE StartAnswered
  BY <1>1, <1>3 DEF StartAnswered, RunTypes, OnScreen
<1>4. CASE Commit
  BY <1>1, <1>2, <1>4 DEF Commit, RunOf, RunTypes
<1> QED
  BY <1>2, <1>3, <1>4, RunStep DEF Continues

LEMMA OpenerTyped ==
    ASSUME IInv, Next
    PROVE  opener' \in {"off", "asking", "waiting"}
<1>1. opener \in {"off", "asking", "waiting"}
  BY DEF IInv, TypeOK
<1>2. CASE UNCHANGED opener
  BY <1>1, <1>2
<1>3. CASE Service \/ Source \/ Reload
  BY <1>2, <1>3 DEF Service, Source, Skip, LeaseRunsOut, StrayArrives, Poll, Revoke, HangUp, Settle,
                    SourceReports, Reload, page
<1>4. CASE Hook
  BY <1>1, <1>2, <1>4 DEF Hook, Commit, OpenAnswered, OpenFails, TryAgain, Heartbeat, StreamOpens,
                          StreamBreaks, Receive, StreamEnds
<1>5. CASE Player
  BY <1>2, <1>5 DEF Player, Preloaded, StartAnswered, StartUnanswered, StartGivesUp, PlayAudio,
                    DiagnosticSettles, Presented, EndAnswered, EndUnanswered, EndGivesUp, Goes, page
<1> QED
  BY <1>3, <1>4, <1>5 DEF Next

LEMMA TypesStep ==
    ASSUME IInv, Next, QueueMoves
    PROVE  TypeOK' /\ LinkTyped' /\ Lease'
<1>1. stray' \cup ends' \subseteq Requests /\ run' \in RunTypes /\ opener' \in {"off", "asking", "waiting"}
  BY AsksTyped, RunTyped, OpenerTyped
<1>2. /\ status' \in [Alerts -> Statuses] /\ issued' \in 0 .. MaxIdentities
      /\ player' \in [id: 0 .. MaxIdentities, leased: BOOLEAN, ready: BOOLEAN]
      /\ player'.id \in {None, issued'} /\ (player'.leased => player'.id # None)
      /\ \A a, b \in Stored' : a = b
  BY DEF QueueMoves, QueueTyped
<1>3. LinkTyped' /\ link'.of <= issued'
  BY LinkIsTyped
<1>4. link'.stage \in {"off", "connecting", "open", "closed"}
  BY <1>3 DEF LinkTyped
<1>5. TypeOK'
  BY <1>1, <1>2, <1>4, PollTyped, RefsTyped, ViewTyped DEF TypeOK, Statuses, RunTypes, Requests
<1>6. Lease'
  BY <1>2, <1>3, PollTyped, RefsTyped, ViewTyped DEF Lease
<1> QED
  BY <1>3, <1>5, <1>6

LEMMA SameRun ==
    ASSUME NEW next, ~Restarts(next)
    PROVE  /\ RunOf(next) = run /\ (Active(view) <=> Active(next))
           /\ "key" \notin moved /\ view.playback = next.playback
<1>1. Active(view) = Active(next) /\ "key" \notin moved /\ view.playback = next.playback
  BY DEF Restarts
<1>2. RunOf(next) = run
  BY DEF RunOf
<1> QED
  BY <1>1, <1>2

LEMMA OtherRun ==
    ASSUME NEW next, Restarts(next)
    PROVE  \/ /\ playback # NoPlayback /\ Active(next)
              /\ RunOf(next) = [of |-> playback.of, stage |-> "preloading", owed |-> FALSE]
           \/ RunOf(next) = NoRun
  BY DEF RunOf

\* The view that a commit renders.
Upcoming == [can |-> CanClaim(signals), identity |-> identity, playback |-> playback]

LEMMA RunsStep ==
    ASSUME IInv, Next
    PROVE  Runs'
<1>1. CASE Reload
  BY <1>1 DEF Reload, NoRun, Runs
<1>2. CASE Commit
  <2>1. view' = Upcoming /\ run' = RunOf(Upcoming)
    BY <1>2 DEF Commit, Upcoming
  <2>2. CASE ~Restarts(Upcoming)
    BY <2>1, <2>2, SameRun DEF IInv, Runs
  <2>3. CASE Restarts(Upcoming)
    <3>1. CASE run' = [of |-> playback.of, stage |-> "preloading", owed |-> FALSE]
               /\ playback # NoPlayback /\ Active(Upcoming)
      <4>1. playback.of \in Alerts /\ Upcoming.playback = playback
        BY <3>1 DEF IInv, Lease, Held, Upcoming
      <4> QED
        BY <2>1, <3>1, <4>1 DEF Runs
    <3>2. CASE run' = NoRun
      BY <3>2 DEF Runs, NoRun
    <3> QED
      BY <2>1, <2>3, <3>1, <3>2, OtherRun
  <2> QED
    BY <2>2, <2>3
<1>3. CASE view' = view /\ ~Commit
  <2>1. CASE StartAnswered
    BY <2>1, <1>3 DEF StartAnswered, IInv, Runs, TypeOK
  <2> QED
    BY <1>3, <2>1, RunStep DEF Continues, NoRun, IInv, Runs
<1> QED
  BY <1>1, <1>2, <1>3, RunStep

-----------------------------------------------------------------------------
(* Rendered is committed.                                                  *)

\* An accepted start commits the row of the run.
LEMMA StartCommits ==
    ASSUME IInv, StartAnswered
    PROVE  /\ run.of \in Alerts /\ status'[run.of] = "started" /\ player' = player
           /\ view.identity = player.id /\ view.identity \in 1 .. issued
           /\ run.of = view.playback.of /\ view.can
           /\ shown' = shown \cup {Rendering} /\ run' = [run EXCEPT !.stage = "entering"]
           /\ UNCHANGED <<link, playback, identity, moved, view>>
<1>1. /\ run.stage = "starting" /\ Honoured(view.identity)
      /\ Outcome("start", status[run.of]) # "refused"
      /\ status' = [status EXCEPT ![run.of] = Outcome("start", @)]
  BY DEF StartAnswered, Accepts, Apply, Start, Request
<1>2. run.of \in Alerts /\ run.of = view.playback.of /\ view.can /\ view.identity > None
  BY <1>1 DEF IInv, Runs, Active
<1>3. status'[run.of] = "started"
  BY <1>1, <1>2 DEF Outcome, IInv, TypeOK
<1>4. view.identity \in 1 .. issued
  BY <1>2 DEF IInv, Lease, TypeOK, None, Standby
<1> QED
  BY <1>1, <1>2, <1>3, <1>4 DEF StartAnswered, Honoured

LEMMA FinalStep ==
    ASSUME IInv, Next, QueueMoves, Runs'
    PROVE  Final'
<1>1. \A a \in Alerts : status[a] \in Committed => status'[a] \in Committed
  BY DEF QueueMoves
<1>2. /\ run.stage \in OnScreen => run.of \in Alerts /\ status[run.of] \in Committed
      /\ \A r \in shown : r.of \in Alerts /\ status[r.of] \in Committed
      /\ \A r \in ends \cup stray :
            r.kind \in {"finish", "interrupt"} => r.of \in Alerts /\ status[r.of] \in Committed
  <2>1. run.stage \in OnScreen => run.of \in Alerts
    BY DEF IInv, Runs, OnScreen
  <2>2. ASSUME run.stage \in OnScreen PROVE status[run.of] \in Committed
    BY <2>1, <2>2 DEF IInv, Final, RenderedIsCommitted, TypeOK, Committed, Playing
  <2> QED
    BY <2>1, <2>2 DEF IInv, Final
<1>3. ASSUME run'.stage \in OnScreen PROVE status'[run'.of] \in Committed
  <2>1. CASE Continues
    BY <1>1, <1>2, <1>3, <2>1 DEF Continues
  <2>2. CASE run' = NoRun
    BY <1>3, <2>2 DEF NoRun, OnScreen
  <2>3. CASE StartAnswered
    BY <2>3, StartCommits DEF Committed, IInv, TypeOK
  <2>4. CASE Commit
    BY <1>1, <1>2, <1>3, <2>4 DEF Commit, RunOf, NoRun, OnScreen
  <2> QED
    BY <2>1, <2>2, <2>3, <2>4, RunStep
<1>4. RenderedIsCommitted'
  BY <1>3 DEF RenderedIsCommitted, Committed, Terminal
<1>5. ASSUME NEW r \in shown' PROVE r.of \in Alerts /\ status'[r.of] \in Committed
  <2>1. CASE StartAnswered
    BY <1>1, <1>2, <1>5, <2>1, StartCommits DEF Rendering, Committed
  <2> QED
    BY <1>1, <1>2, <1>5, <2>1, RunStep
<1>6. ASSUME NEW r \in ends' \cup stray', r.kind \in {"finish", "interrupt"}
      PROVE  r.of \in Alerts /\ status'[r.of] \in Committed
  <2>1. CASE r \in stray \cup ends
    BY <1>1, <1>2, <1>6, <2>1
  <2>2. CASE r \in Sent
    BY <1>6, <2>2 DEF Sent, Request
  <2>3. CASE r \in Answers
    BY <1>1, <1>2, <2>3 DEF Answers, Request
  <2> QED
    BY <1>6, <2>1, <2>2, <2>3, AsksStep
<1> QED
  BY <1>4, <1>5, <1>6 DEF Final
-----------------------------------------------------------------------------
(* The playbacks of a stream, as events are read.                          *)

\* What is given after the step was given before, further back by d.
Shifts(d) ==
    /\ link'.of = link.of
    /\ \A i \in Sends' : Given(i)' => i + d \in Sends /\ Given(i + d) /\ What(i)' = What(i + d)
    /\ \A i, j \in Sends' : Given(j)' /\ Kept(i, j)' => Kept(i + d, j + d)
    /\ link'.stage = "open" =>
          \A i \in Sends' : Kept(i, Len(link.wire))' => Kept(i + d, Len(link.wire))

LEMMA GivenAlerts ==
    ASSUME LinkTyped, Lease, NEW i \in Sends, Given(i)
    PROVE  What(i) \in Alerts
<1>1. CASE i = 0
  BY <1>1 DEF Given, What, Lease, Held, NoPlayback
<1>2. CASE i # 0
  BY <1>2 DEF Given, What, LinkTyped, Sends
<1> QED
  BY <1>1, <1>2

LEMMA SameWire ==
    ASSUME LinkTyped, Loosens, link'.wire = link.wire, link'.of = link.of
    PROVE  Shifts(0)
  BY DEF Shifts, Given, What, Kept, Sends, Loosens, NoPlayback, None, LinkTyped

LEMMA ClosedWire ==
    ASSUME LinkTyped, Loosens, Closes
    PROVE  Shifts(0)
<1>1. PICK wire \in {<<>>, <<Event("revoked", None)>>, Append(link.wire, Event("revoked", None))} :
         link' = [link EXCEPT !.stage = "closed", !.wire = wire]
  BY DEF Closes
<1>2. /\ link'.of = link.of /\ link'.wire = wire /\ link'.stage = "closed"
      /\ link.wire \in Seq(Events)
  BY <1>1 DEF LinkTyped
<1>3. Event("revoked", None).type = "revoked" /\ Event("revoked", None) \in Events
  BY EventTypes DEF Event
<1> HIDE DEF Event
<1>4. ASSUME NEW i \in Sends', Given(i)', i # 0
      PROVE  /\ i \in Sends /\ Given(i) /\ What(i)' = What(i)
             /\ \A m \in 1 .. i : link'.wire[m] = link.wire[m]
  <2>1. CASE wire = <<>>
    BY <1>2, <1>4, <2>1 DEF Sends
  <2>2. CASE wire = <<Event("revoked", None)>>
    BY <1>2, <1>3, <1>4, <2>2 DEF Sends, Given
  <2>3. CASE wire = Append(link.wire, Event("revoked", None))
    <3>1. i \in 1 .. Len(link.wire) + 1
      BY <1>2, <1>3, <1>4, <2>3 DEF Sends
    <3>2. i # Len(link.wire) + 1
      BY <1>2, <1>3, <1>4, <2>3, <3>1 DEF Given
    <3>3. \A m \in 1 .. Len(link.wire) : wire[m] = link.wire[m]
      BY <1>2, <1>3, <2>3
    <3>4. i \in 1 .. Len(link.wire) /\ wire[i] = link.wire[i]
      BY <1>2, <3>1, <3>2, <3>3
    <3> QED
      BY <1>2, <1>4, <3>3, <3>4 DEF Sends, Given, What
  <2> QED
    BY <2>1, <2>2, <2>3
<1>5. ASSUME Given(0)' PROVE Given(0) /\ What(0)' = What(0)
  BY <1>2, <1>5 DEF Given, What, Loosens, NoPlayback, None
<1>6. 0 \in Sends
  BY <1>2 DEF Sends
<1>7. ASSUME NEW i \in Sends', NEW j \in Sends', Given(j)', Kept(i, j)' PROVE Kept(i, j)
  <2>1. CASE j = 0
    BY <2>1 DEF Kept, Sends
  <2>2. CASE j # 0
    BY <1>4, <1>7, <2>2 DEF Kept, Sends
  <2> QED
    BY <2>1, <2>2
<1>8. \A i \in Sends' : i + 0 = i
  BY DEF Sends
<1> QED
  BY <1>2, <1>4, <1>5, <1>6, <1>7, <1>8 DEF Shifts

LEMMA ReadWire ==
    ASSUME LinkTyped, Len(link.wire) > 0, link' = [link EXCEPT !.wire = Tail(@)], link.of # None,
           Given(0)' => Given(1) /\ What(0)' = What(1)
    PROVE  Shifts(1)
<1>1. /\ link'.of = link.of /\ link'.wire = Tail(link.wire) /\ link.wire \in Seq(Events)
      /\ Len(link.wire) \in Nat
  BY DEF LinkTyped
<1>2. /\ Len(link'.wire) = Len(link.wire) - 1
      /\ \A i \in 1 .. Len(link'.wire) : link'.wire[i] = link.wire[i + 1]
  BY <1>1
<1>3. ASSUME NEW i \in Sends', Given(i)' PROVE i + 1 \in Sends /\ Given(i + 1) /\ What(i)' = What(i + 1)
  BY <1>1, <1>2, <1>3 DEF Sends, Given, What
<1>4. ASSUME NEW i \in Sends', NEW j \in Sends', Kept(i, j)' PROVE Kept(i + 1, j + 1)
  <2> SUFFICES ASSUME NEW m \in i + 2 .. j + 1 PROVE link.wire[m].type # "skip"
    BY <1>2 DEF Kept, Sends
  <2>1. i \in Nat /\ j \in 0 .. Len(link'.wire)
    BY <1>1, <1>2 DEF Sends
  <2>2. m - 1 \in i + 1 .. j /\ m - 1 \in 1 .. Len(link'.wire)
    BY <1>1, <1>2, <2>1
  <2>3. link'.wire[m - 1].type # "skip"
    BY <1>4, <2>2 DEF Kept
  <2> QED
    BY <1>2, <2>2, <2>3
<1>5. Len(link'.wire) \in Sends' /\ Len(link'.wire) + 1 = Len(link.wire)
  BY <1>1, <1>2 DEF Sends
<1> QED
  BY <1>1, <1>3, <1>4, <1>5 DEF Shifts

LEMMA LeaseKept ==
    ASSUME QueueMoves, NEW id \in 0 .. issued, Honoured(id)'
    PROVE  Honoured(id) /\ \A a \in Alerts : status[a] # "pending" => status'[a] # "pending"
  BY DEF QueueMoves

LEMMA Shifted ==
    ASSUME IInv, QueueMoves, LinkTyped', Lease', NEW d \in {0, 1}, Shifts(d), view' = view,
           link.of # None /\ view.playback.by = link.of /\ "key" \in moved' => playback' # view.playback
    PROVE  Distinct' /\ Withdrawn'
<1>1. /\ Distinct /\ Withdrawn /\ LinkTyped /\ Lease /\ link.of \in 0 .. issued
      /\ Len(link'.wire) \in Nat
  BY DEF IInv, LinkTyped, Lease
<1>2. /\ link'.of = link.of
      /\ \A i \in Sends' : Given(i)' => i + d \in Sends /\ Given(i + d) /\ What(i)' = What(i + d)
      /\ \A i, j \in Sends' : Given(j)' /\ Kept(i, j)' => Kept(i + d, j + d)
  BY DEF Shifts
<1>3. \A i \in Sends' : i \in Nat
  BY <1>1 DEF Sends
<1>4. \A i \in Sends : Given(i) => What(i) \in Alerts
  BY <1>1, GivenAlerts
<1>5. ASSUME NEW i \in Sends', NEW j \in Sends', Given(i)', Given(j)', i # j PROVE What(i)' # What(j)'
  BY <1>1, <1>2, <1>3, <1>5 DEF Distinct
<1>6. ASSUME link'.of # None, view'.playback.by = link'.of, NEW i \in Sends', i > 0, Given(i)'
      PROVE  What(i)' # view'.playback.of
  <2>1. i + d > 0
    BY <1>3, <1>6
  <2> QED
    BY <1>1, <1>2, <1>6, <2>1 DEF Distinct
<1>7. ASSUME Honoured(link.of)', NEW i \in Sends', Given(i)' PROVE status'[What(i)'] # "pending"
  <2>1. Honoured(link.of) /\ \A a \in Alerts : status[a] # "pending" => status'[a] # "pending"
    BY <1>1, <1>2, <1>7, LeaseKept DEF Honoured
  <2> QED
    BY <1>1, <1>2, <1>4, <1>7, <2>1 DEF Distinct
<1>8. ASSUME Honoured(link.of)', view'.playback.by = link'.of PROVE status'[view'.playback.of] # "pending"
  <2>1. Honoured(link.of) /\ \A a \in Alerts : status[a] # "pending" => status'[a] # "pending"
    BY <1>1, <1>2, <1>8, LeaseKept DEF Honoured
  <2>2. link.of # None
    BY <1>2, <1>8 DEF Honoured, Lease
  <2>3. view.playback.of \in Alerts /\ status[view.playback.of] # "pending"
    BY <1>1, <1>2, <1>8, <2>1, <2>2 DEF Distinct, Lease, Held, NoPlayback
  <2> QED
    BY <2>1, <2>3
<1>9. Distinct'
  BY <1>2, <1>5, <1>6, <1>7, <1>8 DEF Distinct
<1>10. ASSUME NEW i \in Sends', NEW j \in Sends', Given(i)', Given(j)', i < j, Kept(i, j)'
       PROVE  status'[What(i)'] = "completed"
  <2>1. i + d < j + d
    BY <1>3, <1>10
  <2>2. status[What(i + d)] = "completed" /\ What(i + d) \in Alerts
    BY <1>1, <1>2, <1>4, <1>10, <2>1 DEF Withdrawn
  <2> QED
    BY <1>2, <1>10, <2>2 DEF QueueMoves
<1>11. Withdrawn'
  BY <1>10 DEF Withdrawn
<1> QED
  BY <1>9, <1>11

LEMMA TrackedStays ==
    ASSUME IInv, QueueMoves, LinkTyped', Lease', NEW d \in {0, 1}, Shifts(d), poll' = poll,
           link'.stage = "open" => link.stage = "open"
    PROVE  Tracked'
<1>1. /\ Tracked /\ LinkTyped /\ Lease /\ poll.of \in 0 .. issued
      /\ poll.current \in Alerts \cup {None}
  BY DEF IInv, LinkTyped, Lease, TypeOK
<1>2. ASSUME Honoured(poll.of)' PROVE Honoured(poll.of) /\ \A a \in Alerts : status[a] # "pending" => status'[a] # "pending"
  BY <1>1, <1>2, LeaseKept DEF Honoured
<1>3. ASSUME Honoured(poll.of)', poll'.current # None PROVE status'[poll'.current] # "pending"
  BY <1>1, <1>2, <1>3 DEF Tracked
<1>4. ASSUME Honoured(poll.of)', poll'.of = link'.of, link'.stage = "open", NEW i \in Sends', Given(i)',
             Kept(i, Len(link.wire))'
      PROVE  poll'.current = What(i)' \/ status'[What(i)'] = "completed"
  <2>1. /\ i + d \in Sends /\ Given(i + d) /\ What(i)' = What(i + d) /\ Kept(i + d, Len(link.wire))
        /\ poll.of = link.of /\ link.stage = "open" /\ Honoured(poll.of)
    BY <1>2, <1>4 DEF Shifts
  <2>2. What(i + d) \in Alerts
    BY <1>1, <2>1, GivenAlerts
  <2>3. poll.current = What(i + d) \/ status[What(i + d)] = "completed"
    BY <1>1, <2>1 DEF Tracked
  <2> QED
    BY <2>1, <2>2, <2>3 DEF QueueMoves
<1> QED
  BY <1>3, <1>4 DEF Tracked
-----------------------------------------------------------------------------
(* One stream for an identity.                                             *)

LEMMA LinksHold ==
    ASSUME IInv, view' = view, link'.of = link.of, link.stage # "off" <=> link'.stage # "off",
           link'.stage = "off" => link' = link,
           link'.stage = "connecting" => link' = link /\ (playback' = playback \/ playback' = NoPlayback),
           identity' > None => identity' >= view.identity,
           identity' > None /\ link.of # identity' => playback'.by # identity'
    PROVE  Links'
  BY DEF IInv, Links, NoPlayback, None

LEMMA LinksStep ==
    ASSUME IInv, Next, QueueMoves
    PROVE  Links'
<1>1. /\ Links /\ identity \in Standby .. MaxIdentities /\ identity <= issued
      /\ view.identity \in Standby .. MaxIdentities /\ view.identity <= issued
      /\ issued \in 0 .. MaxIdentities /\ issued' \in 0 .. MaxIdentities
      /\ playback.by \in 0 .. issued /\ link.of \in 0 .. issued
  BY WidgetAssumption DEF IInv, TypeOK, Lease, QueueMoves, QueueTyped, LinkTyped, Held, NoPlayback, None
<1>2. ASSUME Loosens, view' = view
      PROVE  /\ identity' > None => identity' >= view.identity
             /\ identity' > None /\ identity' # identity => playback'.by # identity'
             /\ identity' > None /\ identity' = identity /\ link.of # identity => playback'.by # identity'
  <2>1. playback'.by \in {playback.by, None}
    BY <1>2 DEF Loosens, NoPlayback
  <2> QED
    BY <1>1, <1>2, <2>1 DEF Loosens, Links, None, Standby
<1>3. ASSUME link' = NoLink, view' = view, identity' > None => identity' >= view.identity,
             identity' > None => playback'.by # identity'
      PROVE  Links'
  BY <1>3 DEF Links, NoLink
<1>4. CASE Calm
  <2>1. CASE link' = link
    BY <1>2, <1>4, <2>1, LinksHold DEF Calm, Loosens
  <2>2. CASE Closes
    <3>1. link'.of = link.of /\ link'.stage = "closed" /\ link.stage # "off"
      BY <2>2 DEF Closes, IInv, LinkTyped
    <3> QED
      BY <1>2, <1>4, <3>1, LinksHold DEF Calm
  <2>3. CASE link' = NoLink /\ identity' # link.of
    BY <1>2, <1>3, <1>4, <2>3 DEF Calm
  <2> QED
    BY <1>4, <2>1, <2>2, <2>3 DEF Calm
<1>5. CASE Opens
  <2>1. link'.of = link.of /\ link'.stage = "open" /\ link.stage # "off"
    BY <1>5 DEF Opens, IInv, LinkTyped
  <2> QED
    BY <1>1, <1>5, <2>1, LinksHold DEF Opens, Links
<1>6. CASE Reload
  BY <1>6 DEF Reload, Links, NoLink, Unmounted, None
<1>7. CASE Receive
  <2>1. link.stage \in {"open", "closed"} /\ link.of # None /\ view.identity = link.of /\ view' = view
    BY <1>7, Received DEF None
  <2>2. CASE Takes \/ Drops
    <3>1. link'.of = link.of /\ link'.stage = link.stage /\ identity' = identity
      BY <2>2 DEF Takes, Drops, IInv, LinkTyped
    <3>2. playback'.by \in {link.of, None}
      BY <2>2 DEF Takes, Drops, SuppressServerInterrupted, NoPlayback
    <3> QED
      BY <1>1, <2>1, <3>1, <3>2, LinksHold DEF Links, None
  <2>3. CASE Loses
    <3>1. link' = NoLink /\ playback'.by = None /\ identity' \in {identity, None}
      BY <2>3 DEF Loses, SuppressServerInterrupted, NoPlayback
    <3> QED
      BY <1>1, <1>3, <2>1, <3>1 DEF Links, None
  <2> QED
    BY <1>7, <2>2, <2>3, Received
<1>8. ASSUME NEW overdue \in BOOLEAN, Poll(overdue) PROVE Links'
  <2>1. /\ UNCHANGED <<view, identity, playback>> /\ link'.of = link.of /\ link'.stage = link.stage
        /\ link.stage # "open" => link' = link
    BY <1>8, PollTells DEF Emit, IInv, LinkTyped
  <2> QED
    BY <1>1, <2>1, LinksHold DEF Links
<1>9. CASE Commit
  <2>1. /\ view' = Upcoming /\ link' = LinkFor(Upcoming) /\ LetGo(CanClaim(signals))
        /\ Upcoming.can = CanClaim(signals) /\ Upcoming.identity = identity
        /\ view'.can = CanClaim(signals) /\ view'.identity = identity
    BY <1>9 DEF Commit, Upcoming
  <2>2. CASE CanClaim(signals)
    <3>1. identity' = identity /\ playback' = playback
      BY <2>1, <2>2 DEF LetGo
    <3>2. CASE link' = link /\ Upcoming.can = view.can /\ identity = view.identity
      BY <1>1, <2>1, <2>2, <3>1, <3>2 DEF Links
    <3>3. CASE /\ ~(Upcoming.can = view.can /\ identity = view.identity) /\ identity > None
               /\ link' = [of |-> identity, stage |-> "connecting", wire |-> <<>>]
      <4>1. link.of # identity
        <5>1. view.can \in BOOLEAN /\ CanClaim(signals) = TRUE
          BY <2>2 DEF IInv, TypeOK, CanClaim
        <5>2. view.can => Upcoming.can = view.can
          BY <2>1, <5>1
        <5>3. link.of # None => view.can /\ view.identity = link.of
          BY <1>1 DEF Links, NoLink
        <5> QED
          BY <3>3, <5>2, <5>3 DEF None
      <4>2. playback.by # identity
        BY <1>1, <3>3, <4>1 DEF Links
      <4> QED
        BY <1>1, <2>1, <2>2, <3>1, <3>3, <4>2 DEF Links, None
    <3>4. CASE link' = NoLink /\ ~(identity > None)
      BY <2>1, <3>1, <3>4 DEF Links, NoLink
    <3> QED
      BY <2>1, <2>2, <3>2, <3>3, <3>4 DEF LinkFor, Active
  <2>3. CASE ~CanClaim(signals)
    <3>1. identity' = None
      BY <2>1, <2>3 DEF LetGo
    <3>2. (link' = link /\ ~view.can /\ identity = view.identity) \/ link' = NoLink
      BY <2>1, <2>3 DEF LinkFor, Active
    <3>3. link' = NoLink
      BY <1>1, <3>2 DEF Links
    <3> QED
      BY <2>1, <3>1, <3>3 DEF Links, NoLink, None
  <2> QED
    BY <2>2, <2>3
<1> QED
  BY Kinds, <1>4, <1>5, <1>6, <1>7, <1>8, <1>9
-----------------------------------------------------------------------------
(* What a stream was sent.                                                 *)

StreamOK == Distinct /\ Tracked /\ Withdrawn

LEMMA PollKnows ==
    ASSUME IInv, QueueMoves, Lease', poll' = poll \/ poll' = NoPoll
    PROVE  Honoured(poll.of)' /\ poll'.current # None => status'[poll'.current] # "pending"
<1>1. Tracked /\ poll.of \in 0 .. issued /\ poll.current \in Alerts \cup {None}
  BY DEF IInv, Lease, TypeOK
<1>2. CASE poll' = NoPoll
  BY <1>2 DEF NoPoll
<1>3. ASSUME poll' = poll, Honoured(poll.of)', poll'.current # None PROVE status'[poll'.current] # "pending"
  <2>1. Honoured(poll.of) /\ \A a \in Alerts : status[a] # "pending" => status'[a] # "pending"
    BY <1>1, <1>3, LeaseKept DEF Honoured
  <2> QED
    BY <1>1, <1>3, <2>1 DEF Tracked
<1> QED
  BY <1>2, <1>3

\* Without a stream nothing is given.
LEMMA Silent ==
    ASSUME IInv, QueueMoves, Lease', link' = NoLink, poll' = poll \/ poll' = NoPoll
    PROVE  StreamOK'
<1>1. link'.of = None /\ link'.stage = "off" /\ Sends' = {0} /\ ~Given(0)'
  BY DEF NoLink, Sends, Given
<1>2. ~Honoured(link.of)'
  BY <1>1 DEF Honoured, Lease
<1> QED
  BY <1>1, <1>2, PollKnows DEF StreamOK, Distinct, Tracked, Withdrawn

LEMMA CalmStream ==
    ASSUME IInv, QueueMoves, LinkTyped', Lease', Calm
    PROVE  StreamOK'
<1>1. Loosens /\ view' = view /\ LinkTyped /\ (poll' = poll \/ poll' = NoPoll)
  BY DEF Calm, IInv
<1>2. ASSUME link.of # None, view.playback.by = link.of, "key" \in moved' PROVE playback' # view.playback
  <2>1. "key" \in moved /\ playback' \in {playback, NoPlayback}
    BY <1>1, <1>2 DEF Loosens
  <2> QED
    BY <1>2, <2>1 DEF IInv, Distinct, NoPlayback
<1>3. ASSUME Shifts(0), link'.stage = "open" => link.stage = "open" PROVE StreamOK'
  <2>1. Distinct' /\ Withdrawn'
    BY <1>1, <1>2, <1>3, Shifted
  <2>2. CASE poll' = poll
    BY <1>3, <2>1, <2>2, TrackedStays DEF StreamOK
  <2>3. CASE poll' = NoPoll
    <3>1. link'.stage = "open" => link'.of # poll'.of
      BY <1>3, <2>3 DEF Shifts, NoPoll, IInv, Links
    <3> QED
      BY <2>1, <2>3, <3>1, PollKnows DEF StreamOK, Tracked
  <2> QED
    BY <1>1, <2>2, <2>3
<1>4. CASE link' = link
  BY <1>1, <1>3, <1>4, SameWire
<1>5. CASE Closes
  <2>1. link'.stage = "closed"
    BY <1>5 DEF Closes, IInv, LinkTyped
  <2> QED
    BY <1>1, <1>3, <1>5, <2>1, ClosedWire
<1>6. CASE link' = NoLink
  BY <1>1, <1>6, Silent
<1> QED
  BY <1>4, <1>5, <1>6 DEF Calm

LEMMA OpensStream ==
    ASSUME IInv, QueueMoves, LinkTyped', Lease', Opens
    PROVE  StreamOK'
<1>1. /\ link'.of = link.of /\ link'.wire = link.wire /\ link.wire = <<>> /\ playback.by # link.of
      /\ link.of # None
  BY DEF Opens, IInv, Links, LinkTyped
<1>2. /\ UNCHANGED <<status, player, issued, identity, playback, moved, view>> /\ LinkTyped
      /\ \E a \in Stored \cup {None} : poll' = [of |-> link.of, current |-> a]
  BY DEF Opens, IInv
<1>3. Shifts(0)
  BY <1>1, <1>2, RefsStay, SameWire
<1>4. Distinct' /\ Withdrawn'
  BY <1>2, <1>3, Shifted DEF IInv, Distinct
<1>5. poll'.current # None => status'[poll'.current] # "pending"
  BY <1>2 DEF Stored, Playing
<1>6. Sends' = {0} /\ ~Given(0)'
  BY <1>1, <1>2 DEF Sends, Given
<1> QED
  BY <1>4, <1>5, <1>6 DEF StreamOK, Tracked

LEMMA ReceivedStream ==
    ASSUME IInv, QueueMoves, LinkTyped', Lease', Receive
    PROVE  StreamOK'
<1>1. /\ Len(link.wire) > 0 /\ link.of # None /\ LinkTyped
      /\ UNCHANGED <<status, player, issued, poll, view>> /\ link.wire[1] \in Events
      /\ link.wire \in Seq(Events)
  BY Received DEF IInv, None
<1>2. CASE Loses
  BY <1>1, <1>2, Silent DEF Loses
<1>3. CASE Takes \/ Drops
  <2>1. link' = [link EXCEPT !.wire = Tail(@)] /\ link'.stage = link.stage
    BY <1>1, <1>3 DEF Takes, Drops, LinkTyped
  <2>2. Given(0)' => Given(1) /\ What(0)' = What(1)
    BY <1>1, <1>3, <2>1 DEF Takes, Drops, SuppressServerInterrupted, Given, What, NoPlayback, None
  <2>3. Shifts(1)
    BY <1>1, <2>1, <2>2, ReadWire
  <2>4. ASSUME view.playback.by = link.of, "key" \in moved' PROVE playback' # view.playback
    <3>1. CASE Takes
      <4>1. 1 \in Sends /\ Given(1) /\ What(1) = link.wire[1].of
        BY <1>1, <3>1 DEF Takes, Sends, Given, What
      <4>2. What(1) # view.playback.of
        BY <1>1, <2>4, <4>1 DEF IInv, Distinct
      <4> QED
        BY <3>1, <4>1, <4>2 DEF Takes
    <3>2. CASE Drops
      BY <1>1, <2>4, <3>2 DEF Drops, SuppressServerInterrupted, NoPlayback
    <3> QED
      BY <1>3, <3>1, <3>2
  <2>5. Distinct' /\ Withdrawn'
    BY <1>1, <2>3, <2>4, Shifted
  <2>6. Tracked'
    BY <1>1, <2>1, <2>3, TrackedStays
  <2> QED
    BY <2>5, <2>6 DEF StreamOK
<1> QED
  BY <1>2, <1>3, Received

LEMMA CommittedStream ==
    ASSUME IInv, QueueMoves, LinkTyped', Lease', Links', Commit
    PROVE  StreamOK'
<1>1. /\ UNCHANGED <<status, player, issued, poll>> /\ moved' = {}
      /\ view'.playback = playback /\ link' = LinkFor(Upcoming) /\ LetGo(CanClaim(signals))
      /\ Upcoming.can = CanClaim(signals) /\ Upcoming.identity = identity
  BY DEF Commit, Upcoming
<1>2. CASE link' = link /\ link.stage # "off" /\ Upcoming.can = view.can
  <2>1. playback' = playback
    BY <1>1, <1>2 DEF LetGo, IInv, Links
  <2>2. \A i \in Sends : (Given(i)' <=> Given(i)) /\ What(i)' = What(i)
    BY <1>2, <2>1 DEF Given, What
  <2>3. Sends' = Sends /\ 0 \in Sends /\ \A i, j \in Sends : Kept(i, j)' <=> Kept(i, j)
    BY <1>2 DEF Sends, Kept, IInv, LinkTyped
  <2>4. Len(link.wire) \in Sends /\ Len(link.wire)' = Len(link.wire)
    BY <1>2 DEF Sends, IInv, LinkTyped
  <2>5. playback.by = link.of => Given(0) /\ What(0) = playback.of
    BY <1>2 DEF Given, What, IInv, Links
  <2>6. Distinct'
    <3>1. ASSUME link'.of # None, view'.playback.by = link'.of
          PROVE  \A i \in Sends' : i > 0 /\ Given(i)' => What(i)' # view'.playback.of
      BY <1>1, <1>2, <2>2, <2>3, <2>5, <3>1 DEF IInv, Distinct
    <3>2. ASSUME Honoured(link.of)' PROVE Honoured(link.of)
      BY <1>1, <1>2, <3>2 DEF Honoured
    <3> QED
      BY <1>1, <1>2, <2>2, <2>3, <2>5, <3>1, <3>2 DEF IInv, Distinct
  <2>7. Withdrawn'
    BY <1>1, <2>2, <2>3 DEF IInv, Withdrawn
  <2>8. Tracked'
    <3>1. Honoured(poll.of)' <=> Honoured(poll.of)
      BY <1>1 DEF Honoured
    <3> QED
      BY <1>1, <1>2, <2>2, <2>3, <2>4, <3>1 DEF IInv, Tracked
  <2> QED
    BY <2>6, <2>7, <2>8 DEF StreamOK
<1>3. CASE link' = link /\ link.stage = "off"
  BY <1>1, <1>3, Silent DEF IInv, Links
<1>4. CASE link' = [of |-> identity, stage |-> "connecting", wire |-> <<>>]
  <2>1. Sends' = {0} /\ link'.stage = "connecting" /\ link'.of = identity
    BY <1>4 DEF Sends
  <2>2. playback'.by # link'.of /\ link'.of # None
    BY <2>1 DEF Links
  <2>3. view'.playback.by # link'.of
    <3>1. playback' = playback \/ ~CanClaim(signals)
      BY <1>1 DEF LetGo
    <3>2. CanClaim(signals)
      BY <2>1, <1>1 DEF Links, Commit
    <3> QED
      BY <1>1, <2>2, <3>1, <3>2
  <2>4. ~Given(0)'
    BY <2>2 DEF Given
  <2> QED
    BY <1>1, <2>1, <2>3, <2>4, PollKnows DEF StreamOK, Distinct, Tracked, Withdrawn
<1>5. CASE link' = NoLink
  BY <1>1, <1>5, Silent
<1> QED
  BY <1>1, <1>2, <1>3, <1>4, <1>5 DEF LinkFor

\* The events of a poll that ends at the playback a.
Said(a, withdrawn, claimed) ==
    (IF withdrawn THEN <<Event("skip", None)>> ELSE <<>>)
        \o (IF claimed THEN <<Event("playback", a)>> ELSE <<>>)

\* A poll leaves the playback it knew only when that was completed, or withdraws it.
PollSays(a, withdrawn, claimed) ==
    /\ poll' = [poll EXCEPT !.current = a] /\ Emit(Said(a, withdrawn, claimed))
    /\ a # None => status'[a] # "pending"
    /\ claimed => a \in Alerts /\ status[a] = "pending"
    /\ ~withdrawn /\ poll.current \notin {None, a} => status'[poll.current] = "completed"

LEMMA PollSpeaks ==
    ASSUME IInv, NEW overdue \in BOOLEAN, Poll(overdue)
    PROVE  \E a \in Alerts \cup {None}, withdrawn, claimed \in BOOLEAN : PollSays(a, withdrawn, claimed)
<1> DEFINE now    == [a \in Alerts |-> IF overdue /\ status[a] = "started" THEN "interrupted" ELSE status[a]]
           stored == {a \in Alerts : now[a] \in Playing}
           gone   == poll.current # None /\ now[poll.current] \in {"skipped", "interrupted"}
<1>1. /\ now \in [Alerts -> Statuses]
      /\ \A a \in Alerts : /\ now[a] \in Playing => status[a] \in Playing
                           /\ now[a] = "pending" <=> status[a] = "pending"
  BY DEF IInv, TypeOK, Statuses, Playing, Terminal
<1>2. /\ Honoured(poll.of) /\ poll.current \in Alerts \cup {None}
      /\ poll.current # None => status[poll.current] # "pending"
      /\ \A a, b \in Alerts : status[a] \in Playing /\ status[b] \in Playing => a = b
      /\ \A a \in Alerts : a # None
  BY WidgetAssumption DEF Poll, IInv, Tracked, TypeOK, Lease, Stored, None
<1>3. Withdrawal(now) = IF gone THEN <<Event("skip", None)>> ELSE <<>>
  BY DEF Withdrawal
<1>4. \A e \in {<<>>, <<Event("skip", None)>>} : e \o <<>> = e
  <2>1. <<>> \in Seq(Events) /\ <<Event("skip", None)>> \in Seq(Events)
    BY EventTypes, EmptySeq, Single
  <2> QED
    BY <2>1, ConcatEmptySeq
<1>5. Said(None, FALSE, FALSE) = <<>> /\ \A a : Said(a, gone, FALSE) = Withdrawal(now) /\ Said(a, FALSE, FALSE) = <<>>
  BY <1>3, <1>4 DEF Said
<1>6. \A a : Said(a, gone, TRUE) = Withdrawal(now) \o <<Event("playback", a)>>
  BY <1>3 DEF Said
<1>7. gone \in BOOLEAN
  OBVIOUS
<1>8. \/ /\ status' = now
         /\ \E a \in stored : /\ poll' = [poll EXCEPT !.current = a]
                              /\ Emit(IF a = poll.current THEN <<>> ELSE Withdrawal(now))
      \/ /\ stored = {}
         /\ \E a \in Alerts : /\ now[a] = "pending" /\ status' = [now EXCEPT ![a] = "assigned"]
                              /\ poll' = [poll EXCEPT !.current = a]
                              /\ Emit(Withdrawal(now) \o <<Event("playback", a)>>)
      \/ /\ stored = {} /\ status' = now
         /\ poll' = [poll EXCEPT !.current = None] /\ Emit(Withdrawal(now))
  BY DEF Poll
<1> HIDE DEF now
<1>9. ASSUME poll.current # None, ~gone, now[poll.current] \notin Playing
      PROVE  now[poll.current] = "completed"
  BY <1>1, <1>2, <1>9 DEF Statuses, Playing, Terminal
<1>10. ASSUME NEW a \in stored, status' = now, poll' = [poll EXCEPT !.current = a],
              Emit(IF a = poll.current THEN <<>> ELSE Withdrawal(now))
       PROVE  PollSays(a, FALSE, FALSE) \/ PollSays(a, gone, FALSE)
  <2>1. now[a] \in Playing /\ status'[a] # "pending"
    BY <1>10 DEF Playing
  <2>2. CASE a = poll.current
    BY <1>5, <1>10, <2>1, <2>2 DEF PollSays
  <2>3. CASE a # poll.current
    <3>1. poll.current # None => now[poll.current] \notin Playing
      BY <1>1, <1>2, <1>10, <2>1, <2>3
    <3> QED
      BY <1>5, <1>9, <1>10, <2>1, <2>3, <3>1 DEF PollSays
  <2> QED
    BY <2>2, <2>3
<1>11. ASSUME stored = {}, NEW a \in Alerts, now[a] = "pending", status' = [now EXCEPT ![a] = "assigned"],
              poll' = [poll EXCEPT !.current = a], Emit(Withdrawal(now) \o <<Event("playback", a)>>)
       PROVE  PollSays(a, gone, TRUE)
  <2>1. status'[a] = "assigned" /\ status[a] = "pending" /\ poll.current # a
    BY <1>1, <1>2, <1>11
  <2>2. poll.current # None => now[poll.current] \notin Playing /\ status'[poll.current] = now[poll.current]
    BY <1>1, <1>2, <1>11, <2>1
  <2> QED
    BY <1>6, <1>9, <1>11, <2>1, <2>2 DEF PollSays
<1>12. ASSUME stored = {}, status' = now, poll' = [poll EXCEPT !.current = None], Emit(Withdrawal(now))
       PROVE  PollSays(None, gone, FALSE)
  <2>1. poll.current # None => now[poll.current] \notin Playing
    BY <1>2, <1>12
  <2> QED
    BY <1>5, <1>9, <1>12, <2>1 DEF PollSays
<1>13. stored \subseteq Alerts
  OBVIOUS
<1> HIDE DEF stored, gone
<1> QED
  BY <1>7, <1>8, <1>10, <1>11, <1>12, <1>13

\* At most a withdrawal, and the playback at the end.
Tells(e, a, withdrawn, claimed) ==
    /\ e \in Seq(Events) /\ Len(e) \in 0 .. 2
    /\ withdrawn => Len(e) >= 1 /\ e[1].type = "skip"
    /\ claimed => Len(e) >= 1 /\ e[Len(e)] = Event("playback", a)
    /\ \A i \in 1 .. Len(e) : e[i].type = "playback" => claimed /\ i = Len(e)

LEMMA Shapes ==
    ASSUME NEW a, NEW e \in Seq(Events)
    PROVE  /\ Len(e) = 0 => Tells(e, a, FALSE, FALSE)
           /\ Len(e) = 1 /\ e[1].type = "skip" => Tells(e, a, TRUE, FALSE)
           /\ Len(e) = 1 /\ e[1] = Event("playback", a) => Tells(e, a, FALSE, TRUE)
           /\ Len(e) = 2 /\ e[1].type = "skip" /\ e[2] = Event("playback", a) => Tells(e, a, TRUE, TRUE)
<1>1. ASSUME Len(e) = 0 PROVE Tells(e, a, FALSE, FALSE)
  BY <1>1 DEF Tells
<1>2. ASSUME Len(e) = 1, e[1].type = "skip" PROVE Tells(e, a, TRUE, FALSE)
  BY <1>2 DEF Tells
<1>3. ASSUME Len(e) = 1, e[1] = Event("playback", a) PROVE Tells(e, a, FALSE, TRUE)
  BY <1>3 DEF Tells
<1>4. ASSUME Len(e) = 2, e[1].type = "skip", e[2] = Event("playback", a) PROVE Tells(e, a, TRUE, TRUE)
  <2>1. \A i \in 1 .. Len(e) : i = 1 \/ i = Len(e)
    BY <1>4
  <2> QED
    BY <1>4, <2>1 DEF Tells
<1> QED
  BY <1>1, <1>2, <1>3, <1>4

LEMMA SaidShape ==
    ASSUME NEW a, NEW withdrawn \in BOOLEAN, NEW claimed \in BOOLEAN, claimed => a \in Alerts
    PROVE  Tells(Said(a, withdrawn, claimed), a, withdrawn, claimed)
<1> DEFINE s == Event("skip", None)  p == Event("playback", a)
<1>1. s \in Events /\ (claimed => p \in Events) /\ s.type = "skip"
  BY EventTypes DEF Event
<1> HIDE DEF s, p
<1>2. Tells(Said(a, FALSE, FALSE), a, FALSE, FALSE)
  <2> DEFINE e == Said(a, FALSE, FALSE)
  <2>1. e = <<>>
    BY EmptySeq, ConcatEmptySeq DEF Said
  <2> HIDE DEF e
  <2>2. e \in Seq(Events) /\ Len(e) = 0
    BY <2>1, EmptySeq
  <2>3. Tells(e, a, FALSE, FALSE)
    BY <2>2, Shapes
  <2> QED
    BY <2>3 DEF e
<1>3. Tells(Said(a, TRUE, FALSE), a, TRUE, FALSE)
  <2> DEFINE e == Said(a, TRUE, FALSE)
  <2>1. e = <<s>>
    BY <1>1, Single, ConcatEmptySeq DEF Said, s
  <2> HIDE DEF e
  <2>2. e \in Seq(Events) /\ Len(e) = 1 /\ e[1] = s
    BY <1>1, <2>1, Single
  <2>3. Tells(e, a, TRUE, FALSE)
    BY <1>1, <2>2, Shapes
  <2> QED
    BY <2>3 DEF e
<1>4. ASSUME claimed PROVE Tells(Said(a, FALSE, TRUE), a, FALSE, TRUE)
  <2> DEFINE e == Said(a, FALSE, TRUE)
  <2>1. e = <<p>>
    BY <1>1, <1>4, Single, ConcatEmptySeq DEF Said, p
  <2> HIDE DEF e
  <2>2. e \in Seq(Events) /\ Len(e) = 1 /\ e[1] = Event("playback", a)
    BY <1>1, <1>4, <2>1, Single DEF p
  <2>3. Tells(e, a, FALSE, TRUE)
    BY <2>2, Shapes
  <2> QED
    BY <2>3 DEF e
<1>5. ASSUME claimed PROVE Tells(Said(a, TRUE, TRUE), a, TRUE, TRUE)
  <2> DEFINE e == Said(a, TRUE, TRUE)
  <2>1. e = <<s, p>>
    BY <1>1, <1>5, Pairs DEF Said, s, p
  <2> HIDE DEF e
  <2>2. e \in Seq(Events) /\ Len(e) = 2 /\ e[1] = s /\ e[2] = Event("playback", a)
    BY <1>1, <1>5, <2>1, Pairs DEF p
  <2>3. Tells(e, a, TRUE, TRUE)
    BY <1>1, <2>2, Shapes
  <2> QED
    BY <2>3 DEF e
<1> HIDE DEF s, p
<1>6. withdrawn = TRUE \/ withdrawn = FALSE
  OBVIOUS
<1>7. claimed = TRUE \/ claimed = FALSE
  OBVIOUS
<1> QED
  BY <1>2, <1>3, <1>4, <1>5, <1>6, <1>7, Zenon

LEMMA Extended ==
    ASSUME LinkTyped, NEW a \in Alerts \cup {None}, NEW withdrawn \in BOOLEAN, NEW claimed \in BOOLEAN,
           claimed => a \in Alerts, playback' = playback,
           link' = [link EXCEPT !.wire = @ \o Said(a, withdrawn, claimed)]
    PROVE  /\ link'.of = link.of /\ link'.stage = link.stage /\ Sends \subseteq Sends'
           /\ \A i \in Sends : (Given(i)' <=> Given(i)) /\ What(i)' = What(i)
           /\ \A i \in Sends' \ Sends : Given(i)' => claimed /\ i = Len(link'.wire) /\ What(i)' = a
           /\ \A i, j \in Sends : Kept(i, j)' <=> Kept(i, j)
           /\ \A i \in Sends : Kept(i, Len(link.wire))' => ~withdrawn /\ Kept(i, Len(link.wire))
<1> DEFINE n == Len(link.wire)  e == Said(a, withdrawn, claimed)
<1>1. link.wire \in Seq(Events) /\ n \in Nat /\ link'.of = link.of /\ link'.stage = link.stage /\ link'.wire = link.wire \o e
  BY DEF LinkTyped
<1>2. /\ e \in Seq(Events) /\ Len(e) \in 0 .. 2
      /\ withdrawn => Len(e) >= 1 /\ e[1].type = "skip"
      /\ claimed => Len(e) >= 1 /\ e[Len(e)] = Event("playback", a)
      /\ \A i \in 1 .. Len(e) : e[i].type = "playback" => claimed /\ i = Len(e)
  <2>1. Tells(e, a, withdrawn, claimed)
    BY SaidShape
  <2> HIDE DEF e
  <2> QED
    BY <2>1 DEF Tells
<1> HIDE DEF e
<1>3. /\ Len(link'.wire) = n + Len(e)
      /\ \A i \in 1 .. n : link'.wire[i] = link.wire[i]
      /\ \A i \in n + 1 .. n + Len(e) : link'.wire[i] = e[i - n]
  <2>1. link'.wire = link.wire \o e /\ link.wire \in Seq(Events) /\ e \in Seq(Events)
    BY <1>1, <1>2
  <2> HIDE DEF n
  <2>2. /\ Len(link.wire \o e) = Len(link.wire) + Len(e)
        /\ \A i \in 1 .. Len(link.wire) + Len(e) :
              (link.wire \o e)[i] = IF i <= Len(link.wire) THEN link.wire[i] ELSE e[i - Len(link.wire)]
    BY <2>1, ConcatProperties
  <2> QED
    BY <1>1, <1>2, <2>1, <2>2 DEF n
<1> DEFINE k == Len(e)
<1>4. n \in Nat /\ k \in 0 .. 2 /\ Sends = 0 .. n /\ Sends' = 0 .. n + k
  BY <1>1, <1>2, <1>3 DEF Sends
<1>5. \A i \in Sends : (Given(i)' <=> Given(i)) /\ What(i)' = What(i)
  BY <1>1, <1>3, <1>4 DEF Given, What
<1> HIDE DEF n, k
<1>6. ASSUME NEW i \in Sends' \ Sends, Given(i)' PROVE claimed /\ i = Len(link'.wire) /\ What(i)' = a
  <2>1. i \in n + 1 .. n + k /\ i # 0 /\ i - n \in 1 .. k
    BY <1>4, <1>6
  <2>2. link'.wire[i] = e[i - n] /\ link'.wire[i].type = "playback" /\ What(i)' = link'.wire[i].of
    BY <1>3, <1>6, <2>1 DEF Given, What, k
  <2>3. claimed /\ i - n = k
    BY <1>2, <2>1, <2>2 DEF k
  <2>4. i = Len(link'.wire)
    <3>1. i = n + k
      BY <1>4, <2>1, <2>3
    <3>2. Len(link'.wire) = n + k
      BY <1>3 DEF k
    <3> QED
      BY <3>1, <3>2
  <2>5. e[i - n].of = a
    BY <1>2, <2>3 DEF k, Event
  <2> QED
    BY <2>2, <2>3, <2>4, <2>5
<1>7. ASSUME NEW i \in Sends, NEW j \in Sends PROVE Kept(i, j)' <=> Kept(i, j)
  <2>1. \A m \in i + 1 .. j : m \in 1 .. n
    BY <1>4
  <2>2. \A m \in i + 1 .. j : link'.wire[m] = link.wire[m]
    BY <1>3, <2>1
  <2> QED
    BY <2>2 DEF Kept
<1>8. ASSUME NEW i \in Sends, Kept(i, Len(link.wire))' PROVE ~withdrawn /\ Kept(i, Len(link.wire))
  <2>1. \A m \in i + 1 .. n + k : link'.wire[m].type # "skip"
    BY <1>3, <1>8 DEF Kept, k
  <2>2. CASE withdrawn
    <3>1. n + 1 \in n + 1 .. n + k /\ n + 1 \in i + 1 .. n + k /\ (n + 1) - n = 1
      BY <1>2, <1>4, <2>2 DEF k
    <3>2. link'.wire[n + 1].type = "skip"
      BY <1>2, <1>3, <2>2, <3>1 DEF k
    <3> QED
      BY <2>1, <3>1, <3>2
  <2>3. \A m \in i + 1 .. n : m \in i + 1 .. n + k /\ m \in 1 .. n
    BY <1>4
  <2>4. Kept(i, Len(link.wire))
    BY <1>3, <2>1, <2>3 DEF Kept, n
  <2> QED
    BY <2>2, <2>4
<1> QED
  BY <1>1, <1>3, <1>4, <1>5, <1>6, <1>7, <1>8 DEF n

LEMMA PolledStream ==
    ASSUME IInv, QueueMoves, LinkTyped', Lease', NEW overdue \in BOOLEAN, Poll(overdue)
    PROVE  StreamOK'
<1>1. /\ UNCHANGED <<player, issued, view, playback, moved>> /\ Honoured(poll.of)
      /\ LinkTyped /\ Lease /\ poll.of \in 0 .. issued /\ poll.of # None
      /\ Distinct /\ Tracked /\ Withdrawn
  BY PollTells DEF IInv, TypeOK, Lease, Honoured
<1>2. PICK a \in Alerts \cup {None}, withdrawn \in BOOLEAN, claimed \in BOOLEAN : PollSays(a, withdrawn, claimed)
  BY PollSpeaks
<1>3. poll'.of = poll.of /\ poll'.current = a
  BY <1>2 DEF PollSays, IInv, TypeOK
<1>4. a # None => status'[a] # "pending"
  BY <1>2 DEF PollSays
<1>5. CASE ~(link.of = poll.of /\ link.stage = "open")
  <2>1. link' = link
    BY <1>2, <1>5 DEF PollSays, Emit
  <2>2. Shifts(0)
    <3>1. Loosens
      BY RefsStay DEF Poll
    <3> QED
      BY <1>1, <2>1, <3>1, SameWire
  <2>3. Distinct' /\ Withdrawn'
    BY <1>1, <2>2, Shifted DEF Distinct
  <2>4. Tracked'
    BY <1>3, <1>4, <1>5, <2>1 DEF Tracked
  <2> QED
    BY <2>3, <2>4 DEF StreamOK
<1>6. CASE link.of = poll.of /\ link.stage = "open"
  <2>1. link' = [link EXCEPT !.wire = @ \o Said(a, withdrawn, claimed)] /\ (claimed => a \in Alerts /\ status[a] = "pending")
    BY <1>2, <1>6 DEF PollSays, Emit
  <2>2. /\ link'.of = link.of /\ link'.stage = link.stage /\ Sends \subseteq Sends'
        /\ \A i \in Sends : (Given(i)' <=> Given(i)) /\ What(i)' = What(i)
        /\ \A i \in Sends' \ Sends : Given(i)' => claimed /\ i = Len(link'.wire) /\ What(i)' = a
        /\ \A i, j \in Sends : Kept(i, j)' <=> Kept(i, j)
        /\ \A i \in Sends : Kept(i, Len(link.wire))' => ~withdrawn /\ Kept(i, Len(link.wire))
    BY <1>1, <2>1, Extended
  <2>3. \A i \in Sends : Given(i) => What(i) \in Alerts /\ status[What(i)] # "pending"
    BY <1>1, <1>6, GivenAlerts DEF Distinct
  <2>4. /\ \A b \in Alerts : status[b] # "pending" => status'[b] # "pending"
        /\ \A b \in Alerts : status[b] = "completed" => status'[b] = "completed"
    BY <1>1, LeaseKept DEF QueueMoves, Honoured
  <2>5. view.playback.by = link.of => view.playback.of \in Alerts /\ status[view.playback.of] # "pending"
    BY <1>1, <1>6 DEF Distinct, Lease, Held, NoPlayback
  <2>7. \A i, j \in Sends' \ Sends : Given(i)' /\ Given(j)' => i = j
    BY <2>2
  <2>8. Len(link.wire) \in Sends /\ \A i \in Sends : i <= Len(link.wire)
    BY <1>1 DEF LinkTyped, Sends
  <2>9. ASSUME NEW i \in Sends, Given(i), Kept(i, Len(link.wire))'
        PROVE  a = What(i) \/ status'[What(i)] = "completed"
    <3>1. ~withdrawn /\ (poll.current = What(i) \/ status[What(i)] = "completed") /\ What(i) \in Alerts
      BY <1>1, <1>6, <2>2, <2>3, <2>9 DEF Tracked
    <3>2. What(i) # None
      BY <3>1, WidgetAssumption DEF None
    <3> QED
      BY <1>2, <2>4, <3>1, <3>2 DEF PollSays
  <2>10. ASSUME NEW i \in Sends', Given(i)' PROVE status'[What(i)'] # "pending"
    BY <1>4, <2>1, <2>2, <2>3, <2>4, <2>10, WidgetAssumption DEF None
  <2>11. ASSUME NEW i \in Sends', NEW j \in Sends', Given(i)', Given(j)', i # j PROVE What(i)' # What(j)'
    <3>1. CASE i \in Sends /\ j \in Sends
      BY <1>1, <2>2, <2>11, <3>1 DEF Distinct
    <3>2. CASE i \in Sends /\ j \notin Sends
      BY <2>1, <2>2, <2>3, <2>11, <3>2
    <3>3. CASE i \notin Sends /\ j \in Sends
      BY <2>1, <2>2, <2>3, <2>11, <3>3
    <3> QED
      BY <2>7, <2>11, <3>1, <3>2, <3>3
  <2>12. ASSUME view.playback.by = link.of, NEW i \in Sends', i > 0, Given(i)' PROVE What(i)' # view.playback.of
    <3>1. CASE i \in Sends
      BY <1>1, <1>6, <2>2, <2>12, <3>1 DEF Distinct
    <3>2. CASE i \notin Sends
      BY <2>1, <2>2, <2>5, <2>12, <3>2
    <3> QED
      BY <3>1, <3>2
  <2>13. Distinct'
    BY <1>1, <1>6, <2>2, <2>4, <2>5, <2>10, <2>11, <2>12 DEF Distinct
  <2>14. ASSUME NEW i \in Sends', NEW j \in Sends', Given(i)', Given(j)', i < j, Kept(i, j)'
         PROVE  status'[What(i)'] = "completed"
    <3>1. CASE j \in Sends
      <4>1. i \in Sends
        BY <1>1, <2>14, <3>1 DEF LinkTyped, Sends
      <4>2. status[What(i)] = "completed" /\ What(i) \in Alerts
        BY <1>1, <2>2, <2>3, <2>14, <3>1, <4>1 DEF Withdrawn
      <4> QED
        BY <2>2, <2>4, <4>1, <4>2
    <3>2. CASE j \notin Sends
      <4>1. claimed /\ j = Len(link'.wire) /\ i \in Sends
        BY <2>2, <2>7, <2>14, <3>2
      <4>2. Given(i) /\ What(i)' = What(i) /\ Kept(i, Len(link.wire))'
        BY <2>2, <2>14, <4>1 DEF Kept
      <4>3. a # What(i)
        BY <2>1, <2>3, <4>1, <4>2
      <4> QED
        BY <2>9, <4>1, <4>2, <4>3
    <3> QED
      BY <3>1, <3>2
  <2>15. Withdrawn'
    BY <2>14 DEF Withdrawn
  <2>16. Tracked'
    <3>1. ASSUME NEW i \in Sends', Given(i)', Kept(i, Len(link.wire))'
          PROVE  a = What(i)' \/ status'[What(i)'] = "completed"
      BY <2>2, <2>9, <3>1
    <3> QED
      BY <1>3, <1>4, <3>1 DEF Tracked
  <2> QED
    BY <2>13, <2>15, <2>16 DEF StreamOK
<1> QED
  BY <1>5, <1>6

LEMMA StreamStep ==
    ASSUME IInv, Next, QueueMoves, LinkTyped', Lease', Links'
    PROVE  StreamOK'
<1>1. CASE Reload
  BY <1>1, Silent DEF Reload
<1> QED
  BY <1>1, Kinds, CalmStream, OpensStream, ReceivedStream, CommittedStream, PolledStream
-----------------------------------------------------------------------------
(* What was rendered is not rendered again.                                *)

OwnView == view.playback.by = view.identity /\ view.identity > None => playback.by \in {None, view.identity}

LEMMA OwnViewStep ==
    ASSUME IInv, Next
    PROVE  OwnView'
<1>1. OwnView
  BY DEF IInv, Once, OwnView
<1>2. CASE Calm
  BY <1>1, <1>2 DEF Calm, Loosens, OwnView, NoPlayback
<1>3. CASE Opens
  BY <1>1, <1>3 DEF Opens, OwnView
<1>4. CASE Reload
  BY <1>4 DEF Reload, OwnView, Unmounted, None
<1>5. CASE Receive
  BY <1>1, <1>5, Received DEF Takes, Drops, Loses, SuppressServerInterrupted, OwnView, NoPlayback
<1>6. CASE Commit
  <2>1. /\ view'.identity = identity /\ view'.playback = playback
        /\ playback' = playback \/ playback' = NoPlayback
    BY <1>6 DEF Commit, LetGo
  <2> QED
    BY <2>1 DEF OwnView, NoPlayback
<1>7. ASSUME NEW overdue \in BOOLEAN, Poll(overdue) PROVE OwnView'
  BY <1>1, <1>7, PollTells DEF OwnView
<1> QED
  BY <1>2, <1>3, <1>4, <1>5, <1>6, <1>7, Kinds

\* An identity older than that of the page rendered it.
Under(r) == /\ r.under \in 1 .. issued
            /\ identity > None => r.under <= identity
            /\ view.identity > None => r.under <= view.identity

LEMMA UnderStep ==
    ASSUME IInv, Next, QueueMoves, NEW r, Under(r)
    PROVE  Under(r)'
<1>1. issued <= issued' /\ issued \in Nat /\ issued' \in Nat
  BY WidgetAssumption DEF QueueMoves, QueueTyped, IInv, TypeOK
<1>2. CASE Calm
  BY <1>1, <1>2 DEF Calm, Loosens, Under, None, Standby
<1>3. CASE Opens
  BY <1>1, <1>3 DEF Opens, Under
<1>4. CASE Reload
  BY <1>1, <1>4 DEF Reload, Under, Unmounted, None
<1>5. CASE Receive
  <2>1. view' = view /\ identity' \in {identity, None}
    BY <1>5, Received DEF Takes, Drops, Loses
  <2> QED
    BY <1>1, <2>1 DEF Under, None
<1>6. CASE Commit
  <2>1. view'.identity = identity /\ identity' \in {identity, None}
    BY <1>6 DEF Commit, LetGo
  <2> QED
    BY <1>1, <2>1 DEF Under, None
<1>7. ASSUME NEW overdue \in BOOLEAN, Poll(overdue) PROVE Under(r)'
  BY <1>1, <1>7, PollTells DEF Under
<1> QED
  BY <1>2, <1>3, <1>4, <1>5, <1>6, <1>7, Kinds

\* At the acknowledgement: nothing but the row and the run changes.
LEMMA StartRenders ==
    ASSUME IInv, StartAnswered, NEW r, r = Rendering
    PROVE  Under(r)' /\ (Own(r)' => Rendered(r)')
<1>1. /\ run.of \in Alerts /\ player' = player /\ issued' = issued
      /\ view.identity = player.id /\ view.identity \in 1 .. issued
      /\ run.of = view.playback.of /\ view.can
      /\ UNCHANGED <<link, playback, identity, moved, view>>
      /\ run'.stage = "entering"
  BY StartCommits DEF StartAnswered, IInv, TypeOK
<1>2. r.of = run.of /\ r.by = view.playback.by /\ r.under = view.identity
  BY DEF Rendering
<1>3. issued \in Nat /\ (identity > None => identity >= view.identity)
  BY WidgetAssumption DEF IInv, TypeOK, Links
<1>4. Under(r)'
  BY <1>1, <1>2, <1>3 DEF Under
<1>5. ASSUME Own(r)' PROVE Rendered(r)'
  <2>1. view.playback.by = view.identity /\ r.by = r.under
    BY <1>2, <1>5 DEF Own
  <2>2. ASSUME playback = [of |-> r.of, by |-> r.by], identity = r.under
        PROVE  view = [can |-> TRUE, identity |-> r.under, playback |-> playback] /\ "key" \notin moved
    <3>1. link.of = identity /\ link.of # None
      BY <1>1, <1>2, <2>1, <2>2 DEF IInv, Links, None
    <3>2. view.playback = playback
      BY <1>1, <1>2, <2>1, <2>2 DEF IInv, TypeOK
    <3>3. "key" \notin moved
      BY <1>2, <2>1, <2>2, <3>1, <3>2 DEF IInv, Distinct
    <3>4. view = [can |-> TRUE, identity |-> r.under, playback |-> playback]
      BY <1>1, <1>2, <3>2 DEF IInv, TypeOK
    <3> QED
      BY <3>3, <3>4
  <2>3. ASSUME link.of = r.under, NEW i \in Sends, i > 0, Given(i) PROVE What(i) # r.of
    <3>1. link.of # None /\ view.playback.by = link.of
      BY <1>1, <1>2, <2>1, <2>3 DEF None
    <3> QED
      BY <1>1, <1>2, <2>3, <3>1 DEF IInv, Distinct
  <2>4. playback.by \in {None, r.by} /\ view.playback.by \in {None, r.by}
    BY <1>1, <1>2, <2>1 DEF IInv, Once, None
  <2>5. Sends' = Sends /\ \A i \in Sends : i > 0 => (Given(i)' <=> Given(i)) /\ What(i)' = What(i)
    BY <1>1 DEF Sends, Given, What
  <2> QED
    BY <1>1, <1>2, <2>2, <2>3, <2>4, <2>5 DEF Rendered
<1> QED
  BY <1>4, <1>5

\* An own rendering that still plays was one before, of the player's row.
LEMMA OwnStays ==
    ASSUME IInv, QueueMoves, NEW r \in shown, Own(r)'
    PROVE  /\ Own(r) /\ Rendered(r) /\ Under(r) /\ r.of \in Alerts /\ r.of # None
           /\ player'.id = r.under /\ r.under = issued /\ r.under \in 1 .. issued
<1>1. r.of \in Alerts /\ status[r.of] \in Committed /\ Under(r) /\ r.of # None
  BY WidgetAssumption DEF IInv, Final, Once, Under, None
<1>2. r.by = r.under /\ status[r.of] \in Playing /\ player'.id = player.id
  BY <1>1 DEF Own, QueueMoves, Committed, Terminal
<1>3. Own(r) /\ Rendered(r)
  BY <1>2 DEF IInv, Once, Own
<1>4. player.id = r.under /\ player.id \in {None, issued}
  BY <1>3 DEF Rendered, IInv, Lease
<1> QED
  BY <1>1, <1>2, <1>3, <1>4 DEF Under, None

\* The run and the view after a step that is not a render.
LEMMA RunStays ==
    ASSUME IInv, Next, ~Commit, NEW r \in shown, Own(r)', QueueMoves
    PROVE  run'.of = r.of => run'.stage \notin Early
<1>1. run.of = r.of => run.stage \notin Early
  BY OwnStays DEF Rendered, Early
<1>2. CASE Continues
  BY <1>1, <1>2 DEF Continues
<1>3. CASE run' = NoRun
  BY <1>3, OwnStays DEF NoRun
<1>4. CASE StartAnswered
  BY <1>4, StartCommits DEF Early, IInv, TypeOK
<1> QED
  BY <1>2, <1>3, <1>4, RunStep
\* Nothing new came to the page or its stream.
LEMMA CalmRenders ==
    ASSUME IInv, Next, QueueMoves, Calm, ~Commit, NEW r \in shown, Own(r)'
    PROVE  Rendered(r)'
<1>1. /\ Rendered(r) /\ r.of \in Alerts /\ r.of # None /\ player'.id = r.under
      /\ r.under = issued /\ r.under \in 1 .. issued /\ issued \in Nat
  BY OwnStays, WidgetAssumption DEF IInv, TypeOK
<1>2. Loosens /\ view' = view
  BY DEF Calm
<1>3. ASSUME playback' = [of |-> r.of, by |-> r.by], identity' = r.under
      PROVE  view' = [can |-> TRUE, identity |-> r.under, playback |-> playback'] /\ "key" \notin moved'
  <2>1. playback' = playback /\ identity' = identity
    BY <1>1, <1>2, <1>3 DEF Loosens, NoPlayback, None, Standby
  <2> QED
    BY <1>1, <1>2, <1>3, <2>1 DEF Rendered, Loosens
<1>4. playback'.by \in {None, r.by} /\ view'.playback.by \in {None, r.by}
  BY <1>1, <1>2 DEF Rendered, Loosens, NoPlayback
<1>5. ASSUME link'.of = r.under, NEW i \in Sends', i > 0, Given(i)' PROVE What(i)' # r.of
  <2>1. Shifts(0)
    <3>1. CASE link' = link
      BY <1>2, <3>1, SameWire DEF IInv
    <3>2. CASE Closes
      BY <1>2, <3>2, ClosedWire DEF IInv
    <3>3. link' # NoLink
      BY <1>1, <1>5 DEF NoLink, None
    <3> QED
      BY <3>1, <3>2, <3>3 DEF Calm
  <2>2. i + 0 = i
    BY <1>5 DEF Sends
  <2>3. i \in Sends /\ Given(i) /\ What(i)' = What(i) /\ link.of = r.under
    BY <1>5, <2>1, <2>2 DEF Shifts
  <2> QED
    BY <1>1, <1>5, <2>3 DEF Rendered
<1>6. run'.of = r.of => run'.stage \notin Early
  BY RunStays
<1> QED
  BY <1>1, <1>3, <1>4, <1>5, <1>6 DEF Rendered, Early

LEMMA OpensRenders ==
    ASSUME IInv, Next, QueueMoves, Opens, ~Commit, NEW r \in shown, Own(r)'
    PROVE  Rendered(r)'
<1>1. Rendered(r) /\ player'.id = r.under
  BY OwnStays
<1>2. link'.wire = link.wire /\ link'.of = link.of /\ UNCHANGED <<player, identity, playback, moved, view>>
  BY DEF Opens, IInv, LinkTyped
<1>3. Sends' = Sends /\ \A i \in Sends : i > 0 => (Given(i)' <=> Given(i)) /\ What(i)' = What(i)
  BY <1>2 DEF Sends, Given, What
<1>4. run'.of = r.of => run'.stage \notin Early
  BY RunStays
<1> QED
  BY <1>1, <1>2, <1>3, <1>4 DEF Rendered, Early

\* A poll claims what waits, and what was rendered does not.
LEMMA PollRenders ==
    ASSUME IInv, Next, QueueMoves, ~Commit, NEW overdue \in BOOLEAN, Poll(overdue), NEW r \in shown, Own(r)'
    PROVE  Rendered(r)'
<1>1. Rendered(r) /\ Own(r) /\ player'.id = r.under
  BY OwnStays
<1>2. UNCHANGED <<player, identity, playback, moved, view>>
  BY PollTells
<1>3. run'.of = r.of => run'.stage \notin Early
  BY RunStays
<1>4. ASSUME link'.of = r.under, NEW i \in Sends', i > 0, Given(i)' PROVE What(i)' # r.of
  <2>1. PICK a \in Alerts \cup {None}, withdrawn \in BOOLEAN, claimed \in BOOLEAN : PollSays(a, withdrawn, claimed)
    BY PollSpeaks
  <2>2. CASE link' = link
    <3>1. i \in Sends /\ Given(i) /\ What(i)' = What(i) /\ link.of = r.under
      BY <1>4, <2>2 DEF Sends, Given, What
    <3> QED
      BY <1>1, <1>4, <3>1 DEF Rendered
  <2>3. CASE link' = [link EXCEPT !.wire = @ \o Said(a, withdrawn, claimed)]
    <3>1. /\ link'.of = link.of
          /\ \A j \in Sends : (Given(j)' <=> Given(j)) /\ What(j)' = What(j)
          /\ \A j \in Sends' \ Sends : Given(j)' => claimed /\ j = Len(link'.wire) /\ What(j)' = a
      BY <1>2, <2>1, <2>3, Extended DEF IInv, PollSays
    <3>2. CASE i \in Sends
      BY <1>1, <1>4, <3>1, <3>2 DEF Rendered
    <3>3. CASE i \notin Sends
      BY <1>1, <1>4, <2>1, <3>1, <3>3 DEF PollSays, Own, Playing
    <3> QED
      BY <3>2, <3>3
  <2> QED
    BY <2>1, <2>2, <2>3 DEF PollSays, Emit
<1> QED
  BY <1>1, <1>2, <1>3, <1>4 DEF Rendered, Early

\* What the page reads is of the player's own stream, which sends no alert twice.
LEMMA ReceiveRenders ==
    ASSUME IInv, Next, QueueMoves, Receive, ~Commit, NEW r \in shown, Own(r)'
    PROVE  Rendered(r)'
<1>1. /\ Rendered(r) /\ r.of \in Alerts /\ r.of # None /\ player'.id = r.under /\ r.by = r.under
      /\ r.under = issued /\ r.under \in 1 .. issued /\ issued \in Nat /\ Under(r)
  BY OwnStays, WidgetAssumption DEF IInv, TypeOK, Own
<1>2. /\ link.wire \in Seq(Events) /\ Len(link.wire) > 0
      /\ link.of \in 1 .. issued /\ view.identity = link.of /\ view' = view
      /\ Takes \/ Drops \/ Loses
  BY Received
<1>3. link.of = r.under
  BY <1>1, <1>2 DEF Under, None
<1>4. run'.of = r.of => run'.stage \notin Early
  BY RunStays
<1>5. 1 \in Sends /\ (Takes => Given(1) /\ What(1) = link.wire[1].of)
  BY <1>2 DEF Sends, Takes, Given, What
<1>6. Takes => link.wire[1].of # r.of
  BY <1>1, <1>3, <1>5 DEF Rendered
<1>7. ASSUME playback' = [of |-> r.of, by |-> r.by], identity' = r.under
      PROVE  view' = [can |-> TRUE, identity |-> r.under, playback |-> playback'] /\ "key" \notin moved'
  BY <1>1, <1>2, <1>6, <1>7 DEF Takes, Drops, Loses, SuppressServerInterrupted, NoPlayback
<1>8. playback'.by \in {None, r.by} /\ view'.playback.by \in {None, r.by}
  BY <1>1, <1>2, <1>3 DEF Takes, Drops, Loses, SuppressServerInterrupted, NoPlayback, Rendered
<1>9. ASSUME link'.of = r.under, NEW i \in Sends', i > 0, Given(i)' PROVE What(i)' # r.of
  <2>1. link' = [link EXCEPT !.wire = Tail(@)]
    BY <1>1, <1>2, <1>9 DEF Takes, Drops, Loses, NoLink, None
  <2>2. link'.wire = Tail(link.wire) /\ Sends' = 0 .. Len(link'.wire)
    BY <2>1 DEF IInv, LinkTyped, Sends
  <2>3. Len(Tail(link.wire)) = Len(link.wire) - 1 /\ \A j \in 1 .. Len(link.wire) - 1 : Tail(link.wire)[j] = link.wire[j + 1]
    BY <1>2
  <2>4. i \in 1 .. Len(link.wire) - 1 /\ i + 1 \in Sends /\ i + 1 > 0 /\ i + 1 # 0
    BY <1>2, <1>9, <2>2, <2>3 DEF Sends
  <2>5. Given(i + 1) /\ What(i)' = What(i + 1)
    BY <1>9, <2>2, <2>3, <2>4 DEF Given, What
  <2> QED
    BY <1>1, <1>3, <2>4, <2>5 DEF Rendered
<1> QED
  BY <1>1, <1>4, <1>7, <1>8, <1>9 DEF Rendered, Early

\* A render starts no run of what the page still holds.
LEMMA CommitRenders ==
    ASSUME IInv, Next, QueueMoves, Lease', Commit, NEW r \in shown, Own(r)'
    PROVE  Rendered(r)'
<1>1. /\ Rendered(r) /\ r.of \in Alerts /\ r.of # None /\ player'.id = r.under /\ r.by = r.under
      /\ r.under = issued /\ r.under \in 1 .. issued /\ issued \in Nat /\ Under(r)
  BY OwnStays, WidgetAssumption DEF IInv, TypeOK, Own
<1>2. /\ view' = Upcoming /\ moved' = {} /\ LetGo(CanClaim(signals))
      /\ link' = LinkFor(Upcoming) /\ run' = RunOf(Upcoming)
  BY DEF Commit, Upcoming
<1>3. /\ Upcoming.can = CanClaim(signals) /\ Upcoming.identity = identity /\ Upcoming.playback = playback
  BY DEF Upcoming
<1>4. ASSUME playback = [of |-> r.of, by |-> r.by], identity = r.under, Active(Upcoming)
      PROVE  ~Restarts(Upcoming)
  <2>1. view = [can |-> TRUE, identity |-> r.under, playback |-> playback] /\ "key" \notin moved
    BY <1>1, <1>4 DEF Rendered
  <2>2. Active(view)
    BY <1>1, <2>1 DEF Active, None
  <2> QED
    BY <1>3, <1>4, <2>1, <2>2 DEF Restarts
<1>5. ASSUME playback' = [of |-> r.of, by |-> r.by], identity' = r.under
      PROVE  view' = [can |-> TRUE, identity |-> r.under, playback |-> playback'] /\ "key" \notin moved'
  <2>1. CanClaim(signals) /\ identity' = identity /\ playback' = playback
    BY <1>1, <1>2, <1>5 DEF LetGo, None
  <2>2. CanClaim(signals) = TRUE
    BY <2>1 DEF CanClaim
  <2> QED
    BY <1>2, <1>5, <2>1, <2>2 DEF Upcoming
<1>6. playback'.by \in {None, r.by} /\ view'.playback.by \in {None, r.by}
  BY <1>1, <1>2, <1>3 DEF LetGo, NoPlayback, Rendered
<1>7. ASSUME link'.of = r.under, NEW i \in Sends', i > 0, Given(i)' PROVE What(i)' # r.of
  <2>1. CASE link' = link
    <3>1. i \in Sends /\ Given(i) /\ What(i)' = What(i) /\ link.of = r.under
      BY <1>7, <2>1 DEF Sends, Given, What
    <3> QED
      BY <1>1, <1>7, <3>1 DEF Rendered
  <2>2. CASE link'.wire = <<>>
    BY <1>7, <2>2 DEF Sends
  <2> QED
    BY <1>2, <2>1, <2>2 DEF LinkFor, NoLink
<1>8. run'.of = r.of => run'.stage \notin Early
  <2>1. CASE ~Restarts(Upcoming)
    BY <1>1, <1>2, <2>1, SameRun DEF Rendered, Early
  <2>2. CASE Restarts(Upcoming)
    <3>1. ASSUME playback # NoPlayback, Active(Upcoming), playback.of = r.of PROVE FALSE
      <4>1. identity = r.under
        BY <1>1, <1>3, <3>1 DEF Active, Under, IInv, Lease, TypeOK
      <4>2. playback = [of |-> r.of, by |-> r.by]
        BY <1>1, <3>1 DEF Rendered, IInv, Lease, Held, TypeOK, None
      <4> QED
        BY <1>4, <2>2, <3>1, <4>1, <4>2
    <3>2. run' = [of |-> playback.of, stage |-> "preloading", owed |-> FALSE] \/ run' = NoRun
      BY <1>2, <2>2, OtherRun
    <3> QED
      BY <1>1, <1>2, <2>2, <3>1, OtherRun DEF NoRun
  <2> QED
    BY <2>1, <2>2
<1> QED
  BY <1>1, <1>5, <1>6, <1>7, <1>8 DEF Rendered, Early

LEMMA ReloadRenders ==
    ASSUME IInv, QueueMoves, Reload, NEW r \in shown, Own(r)'
    PROVE  Rendered(r)'
<1>1. r.of # None /\ player'.id = r.under /\ r.under \in 1 .. issued
  BY OwnStays
<1>2. playback' = NoPlayback /\ identity' = None /\ link' = NoLink /\ run' = NoRun /\ view' = Unmounted
  BY DEF Reload
<1> QED
  BY <1>1, <1>2 DEF Rendered, NoPlayback, NoLink, NoRun, Unmounted, None

LEMMA OnceStep ==
    ASSUME IInv, Next, QueueMoves, Lease'
    PROVE  Once'
<1>1. ASSUME NEW r \in shown, Own(r)' PROVE Rendered(r)'
  <2>1. CASE Commit
    BY <1>1, <2>1, CommitRenders
  <2>2. CASE ~Commit
    <3>1. CASE Reload
      BY <1>1, <3>1, ReloadRenders
    <3> QED
      BY <1>1, <2>2, <3>1, Kinds, CalmRenders, OpensRenders, ReceiveRenders, PollRenders
  <2> QED
    BY <2>1, <2>2
<1>2. ASSUME NEW r \in shown' PROVE Under(r)' /\ (Own(r)' => Rendered(r)')
  <2>1. CASE r \in shown
    BY <1>1, <2>1, UnderStep DEF IInv, Once, Under
  <2>2. CASE r \notin shown
    <3>1. StartAnswered /\ r = Rendering
      BY <1>2, <2>2, RunStep DEF StartAnswered
    <3> QED
      BY <3>1, StartRenders
  <2> QED
    BY <2>1, <2>2
<1> QED
  BY <1>2, OwnViewStep DEF Once, OwnView, Under
-----------------------------------------------------------------------------
(* The theorems.                                                           *)

LEMMA NextKeeps ==
    ASSUME IInv, Next
    PROVE  IInv'
<1>1. QueueMoves
  BY QueueStep
<1>2. TypeOK' /\ LinkTyped' /\ Lease'
  BY <1>1, TypesStep
<1>3. Runs'
  BY RunsStep
<1>4. Links' /\ Final'
  BY <1>1, <1>3, LinksStep, FinalStep
<1>5. Distinct' /\ Tracked' /\ Withdrawn'
  BY <1>1, <1>2, <1>4, StreamStep DEF StreamOK
<1>6. Once'
  BY <1>1, <1>2, OnceStep
<1> QED
  BY <1>2, <1>3, <1>4, <1>5, <1>6 DEF IInv

LEMMA StutterKeeps ==
    ASSUME IInv, UNCHANGED vars
    PROVE  IInv'
<1>1. UNCHANGED <<status, player, issued, poll, stray, signals, identity, playback, suppressed, moved,
                  view, opener, link, run, ends, shown, spent>>
  BY DEF vars, server, page
<1>2. TypeOK' /\ LinkTyped' /\ Runs' /\ Links'
  BY <1>1 DEF IInv, TypeOK, LinkTyped, Runs, Links, Active
<1>3. Lease' /\ Final'
  BY <1>1 DEF IInv, Lease, Held, Stored, Final, RenderedIsCommitted
<1>4. /\ Sends' = Sends /\ \A i : (Given(i)' <=> Given(i)) /\ What(i)' = What(i)
      /\ \A i, j : Kept(i, j)' <=> Kept(i, j)
      /\ \A id : Honoured(id)' <=> Honoured(id)
  BY <1>1 DEF Sends, Given, What, Kept, Honoured
<1>5. Distinct' /\ Withdrawn'
  BY <1>1, <1>4 DEF IInv, Distinct, Withdrawn
<1>6. Tracked'
  BY <1>1, <1>4 DEF IInv, Tracked
<1>7. Once'
  BY <1>1, <1>4 DEF IInv, Once, Own, Rendered
<1> QED
  BY <1>2, <1>3, <1>5, <1>6, <1>7 DEF IInv

LEMMA InitHolds == Init => IInv
<1> SUFFICES ASSUME Init PROVE IInv
  OBVIOUS
<1>1. Sends = {0} /\ ~Given(0)
  BY EmptySeq DEF Init, NoLink, Sends, Given, None
<1>2. TypeOK /\ LinkTyped
  BY WidgetAssumption, EmptySeq
  DEF Init, TypeOK, LinkTyped, NoPlayer, NoPoll, NoPlayback, NoLink, NoRun, Unmounted, None, Standby, OnScreen
<1>3. Lease /\ Runs /\ Links /\ Final
  BY DEF Init, Lease, Held, Stored, Playing, Runs, Links, Final, RenderedIsCommitted,
         NoPlayer, NoPoll, NoLink, NoRun, Unmounted, None, OnScreen
<1>4. Distinct /\ Withdrawn
  BY <1>1 DEF Init, Distinct, Withdrawn, NoLink, NoPlayer, Honoured
<1>5. Tracked /\ Once
  BY <1>1 DEF Init, Tracked, Once, Unmounted, NoPoll
<1> QED
  BY <1>2, <1>3, <1>4, <1>5 DEF IInv

LEMMA Invariance == Spec => []IInv
<1>1. IInv /\ [Next]_vars => IInv'
  BY NextKeeps, StutterKeeps
<1> QED
  BY <1>1, InitHolds, PTL DEF Spec

\* The variables hold what the columns, refs and closures of the code hold.
THEOREM WidgetTyped == Spec => []TypeOK
<1>1. IInv => TypeOK
  BY DEF IInv
<1> QED
  BY <1>1, Invariance, PTL

\* The card is on screen only for an alert whose row says that it was rendered,
\* however many acknowledgements were lost, repeated or late: what a renewed
\* lease recovers is never what a page shows (presentPlayback, startPlayback).
THEOREM AlwaysCommitted == Spec => []RenderedIsCommitted
<1>1. IInv => RenderedIsCommitted
  BY DEF IInv, Final
<1> QED
  BY <1>1, Invariance, PTL

\* The service withdraws a playback it took away before it sends the next one,
\* on the same stream, whatever was skipped, timed out, polled and read between.
THEOREM AlwaysWithdrawn == Spec => []WithdrawnBeforeNext
<1>1. ASSUME IInv PROVE WithdrawnBeforeNext
  <2> SUFFICES ASSUME NEW i \in DOMAIN link.wire, link.wire[i].type = "playback",
                      playback.by = link.of, playback.of # link.wire[i].of,
                      status[playback.of] \in {"skipped", "interrupted"},
                      \A j \in 1 .. i - 1 : link.wire[j].type # "skip"
               PROVE  FALSE
    BY DEF WithdrawnBeforeNext
  <2>1. link.wire \in Seq(Events) /\ i \in 1 .. Len(link.wire)
    BY <1>1 DEF IInv, LinkTyped
  <2>2. link.of # None
    BY <1>1, <2>1 DEF IInv, Links, NoLink
  <2>3. 0 \in Sends /\ i \in Sends /\ 0 < i /\ Given(0) /\ Given(i) /\ What(0) = playback.of
    BY <2>1, <2>2 DEF Sends, Given, What
  <2>4. Kept(0, i)
    <3>1. \A m \in 0 + 1 .. i : m \in 1 .. i - 1 \/ m = i
      BY <2>1
    <3> QED
      BY <3>1 DEF Kept
  <2>5. status[What(0)] = "completed"
    BY <1>1, <2>3, <2>4 DEF IInv, Withdrawn
  <2> QED
    BY <2>3, <2>5
<1> QED
  BY <1>1, Invariance, PTL

\* Over all leases, streams, reloads and repeated acknowledgements an alert is
\* rendered once, unless its first rendering was of a playback that the page was
\* sent for an identity it did not hold any more.
THEOREM NeverRenderedAgain == Spec => RenderedOnce
<1>1. ASSUME IInv, Next, Renders, NEW r \in shown, r.of = run'.of
      PROVE  r.by # r.under
  <2>1. StartAnswered
    <3>1. ~Continues /\ run' # NoRun
      BY <1>1 DEF Renders, Continues, NoRun, OnScreen
    <3>2. ASSUME Commit PROVE FALSE
      <4>1. run' = RunOf(Upcoming)
        BY <3>2 DEF Commit, Upcoming
      <4>2. run' = run \/ run' = NoRun \/ run' = [of |-> playback.of, stage |-> "preloading", owed |-> FALSE]
        BY <4>1, SameRun, OtherRun
      <4> QED
        BY <1>1, <4>2 DEF Renders, NoRun, OnScreen
    <3> QED
      BY <1>1, <3>1, <3>2, RunStep
  <2>2. /\ run.stage = "starting" /\ run'.of = run.of
        /\ status[run.of] \in Playing
    BY <1>1, <2>1 DEF StartAnswered, Accepts, Start, Request, Outcome, IInv, TypeOK
  <2>3. ~Own(r)
    BY <1>1, <2>2 DEF IInv, Once, Rendered
  <2> QED
    BY <1>1, <2>2, <2>3 DEF Own
<1>2. IInv /\ [Next]_vars => [Renders => \A r \in shown : r.of = run'.of => r.by # r.under]_vars
  BY <1>1
<1> QED
  BY <1>2, Invariance, PTL DEF Spec, RenderedOnce
=============================================================================
