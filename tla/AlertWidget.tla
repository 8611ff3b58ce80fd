---------------------------- MODULE AlertWidget ----------------------------
(***************************************************************************)
(* The OBS widget: ONE page of the alert overlay in a Browser Source       *)
(* (use-alert-overlay.ts, alert-player-runtime.ts), the event stream the   *)
(* donation service keeps for it (Application.Stream) and as much of the   *)
(* alert queue as the two can see; AlertQueue is the queue in full.        *)
(*                                                                         *)
(* REACT.  `identity' and `playback' are the refs, which the code assigns  *)
(* together with the state of the same name.  `view' is what the effects   *)
(* were last run for: a render is committed, and its effects run, only     *)
(* after other callbacks had their turn.  Commit is one such flush: the    *)
(* cleanups of all effects whose dependencies changed, then the new        *)
(* effects, the player's (a child) before those of the hook, then the      *)
(* promise callbacks they released.                                        *)
(*                                                                         *)
(* REQUESTS.  An attempt whose answer is lost is repeated; one that was    *)
(* aborted or timed out may still reach the server later: a stray.         *)
(***************************************************************************)
EXTENDS Integers, Sequences, FiniteSets

CONSTANTS
    Alerts,             \* the alerts waiting for the widget, by queue_sequence
    Pages,              \* how the page may be loaded: [obsPresent, documentVisible]
    SourceChanges,      \* what OBS and the document may report: [name, value]
    MaxIdentities,      \* bound: player identities the server issues
    MaxStrays,          \* bound: abandoned requests on their way at a time
    MaxDisturbances     \* bound: source changes, lost answers, broken streams,
                        \* reloads and spurious expiries

ASSUME WidgetAssumption ==
    /\ Alerts \subseteq Nat \ {0}
    /\ Pages \subseteq [obsPresent: BOOLEAN, documentVisible: {"yes", "no"}]
    /\ SourceChanges \subseteq [name: {"active", "documentVisible", "obsVisible"},
                                value: {"yes", "no"}]
    /\ MaxIdentities \in Nat /\ MaxStrays \in Nat /\ MaxDisturbances \in Nat

VARIABLES
    \* the service
    status,     \* of the playback rows
    player,     \* the donation_alert_player row
    issued,     \* identities issued so far
    poll,       \* Application.Stream: whom it polls for, and its `current'
    stray,      \* requests still travelling that nobody waits for
    \* the page
    signals, identity, playback, suppressed, moved, view, opener, link, run,
    ends,       \* finish acknowledgements under way
    shown,      \* history: the alerts rendered, and for which identity's playback
    spent       \* disturbances used up
server == <<status, player, issued, poll, stray>>
page   == <<signals, identity, playback, suppressed, moved, view, opener, link, run, ends>>
vars   == <<server, page, shown, spent>>

Playing  == {"assigned", "started"}
Terminal == {"completed", "skipped", "interrupted"}
OnScreen == {"entering", "leaving"}

None     == 0       \* no identity, no playback, nobody
Standby  == -1      \* the identity of a page that waits for the lease
NoPlayer == [id |-> None, leased |-> FALSE, ready |-> FALSE]
NoPoll   == [of |-> None, current |-> None]
NoLink   == [of |-> None, stage |-> "off", wire |-> <<>>]
NoPlayback == [of |-> None, by |-> None]   \* `by': the identity it was sent to
NoRun    == [of |-> None, stage |-> "idle", owed |-> FALSE]

\* A fault weighs as much as two reports of the source.
Fault == spent + 2 <= MaxDisturbances /\ spent' = spent + 2

-----------------------------------------------------------------------------
(* The queue, as the widget's requests meet it.  Alerts do not age here.   *)

Honoured(id) == player.id = id /\ player.leased
Stored       == {a \in Alerts : status[a] \in Playing}

\* Faulty: everything the player held waits again.
RecoveredBlindly ==
    [a \in Alerts |-> IF status[a] \in Playing THEN "pending" ELSE status[a]]

\* recoverAssignedPlayback: what was shown is never queued again.
Recovered ==
    [a \in Alerts |-> CASE status[a] = "assigned" -> "pending"
                        [] status[a] = "started"  -> "interrupted"
                        [] OTHER                  -> status[a]]

Skip ==
    LET rows == IF Stored # {} THEN Stored ELSE {a \in Alerts : status[a] = "pending"}
    IN /\ \E a \in rows : /\ \A b \in rows : a <= b
                          /\ status' = [status EXCEPT ![a] = "skipped"]
       /\ UNCHANGED <<player, issued, poll, stray, page, shown, spent>>

\* Fifteen seconds without a heartbeat; nobody has noticed yet.
LeaseRunsOut ==
    /\ player.leased
    /\ IF identity = player.id THEN Fault ELSE UNCHANGED spent
    /\ player' = [player EXCEPT !.leased = FALSE]
    /\ UNCHANGED <<status, issued, poll, stray, page, shown>>

\* ReleasePlayer, when the stream of `id' ends.
Release(id) ==
    IF player.id = id THEN player' = NoPlayer /\ status' = Recovered
                      ELSE UNCHANGED <<player, status>>

\* StartPlayback and FinishPlayback: the rows they accept, and what becomes of them.
Outcome(kind, s) ==
    CASE kind = "start"     /\ s \in Playing                   -> "started"
      [] kind = "finish"    /\ s \in {"started", "completed"}  -> "completed"
      [] kind = "interrupt" /\ s = "assigned"                   -> "pending"
      [] kind = "interrupt" /\ s \in {"started", "interrupted"} -> "interrupted"
      [] OTHER -> "refused"

Accepts(request) == Honoured(request.id) /\ Outcome(request.kind, status[request.of]) # "refused"

Apply(request) ==
    status' = IF Honoured(request.id) /\ Outcome(request.kind, status[request.of]) # "refused"
              THEN [status EXCEPT ![request.of] = Outcome(request.kind, @)] ELSE status

\* OpenPlayer by whoever asks.
Granted ==
    /\ ~player.leased /\ issued < MaxIdentities
    /\ issued' = issued + 1
    /\ player' = [id |-> issued + 1, leased |-> TRUE, ready |-> FALSE]
    /\ status' = Recovered

StrayArrives ==
    \E request \in stray :
        /\ stray' = stray \ {request}
        /\ IF request.kind = "open"
           THEN Granted \/ (player.leased /\ UNCHANGED <<status, player, issued>>)
           ELSE /\ Apply(request)
                /\ UNCHANGED <<player, issued>>
        /\ UNCHANGED <<poll, page, shown, spent>>

-----------------------------------------------------------------------------
(* Application.Stream, one poll for the stream of poll.of.                 *)

Emit(events) ==
    link' = IF link.of = poll.of /\ link.stage = "open"
            THEN [link EXCEPT !.wire = @ \o events] ELSE link

Event(type, a) == [type |-> type, of |-> a]

\* Faulty: only a playback without a successor is withdrawn.
WithdrawalIfIdle(now) ==
    IF /\ poll.current # None /\ now[poll.current] \in {"skipped", "interrupted"}
       /\ \A a \in Alerts : now[a] # "pending"
    THEN <<Event("skip", None)>> ELSE <<>>

\* What the poll says of a playback that is not the stored one any more.
Withdrawal(now) ==
    IF poll.current # None /\ now[poll.current] \in {"skipped", "interrupted"}
    THEN <<Event("skip", None)>> ELSE <<>>

\* `overdue': a started playback went unfinished for two minutes, which the
\* poll itself finds out.  A playback the poll merely finds stored is not sent.
Poll(overdue) ==
    LET now == [a \in Alerts |-> IF overdue /\ status[a] = "started"
                                 THEN "interrupted" ELSE status[a]]
        stored    == {a \in Alerts : now[a] \in Playing}
        claimable == {a \in Alerts : /\ now[a] = "pending" /\ player.ready
                                     /\ \A b \in Alerts : now[b] = "pending" => a <= b}
    IN /\ Honoured(poll.of)
       /\ overdue => \E a \in Alerts : status[a] = "started"
       /\ IF stored # {}
          THEN \E a \in stored :
                 /\ poll' = [poll EXCEPT !.current = a] /\ status' = now
                 /\ Emit(IF a = poll.current THEN <<>> ELSE Withdrawal(now))
          ELSE IF claimable # {}
          THEN \E a \in claimable :
                 /\ poll' = [poll EXCEPT !.current = a]
                 /\ status' = [now EXCEPT ![a] = "assigned"]
                 /\ Emit(Withdrawal(now) \o <<Event("playback", a)>>)
          ELSE /\ poll' = [poll EXCEPT !.current = None] /\ status' = now
               /\ Emit(Withdrawal(now))
       /\ UNCHANGED <<player, issued, stray, signals, identity, playback, suppressed,
                      moved, view, opener, run, ends, shown, spent>>

\* The lease is lost: the last event, and the deferred ClosePlayer.
Revoke ==
    /\ poll.of # None /\ ~Honoured(poll.of)
    /\ link' = IF link.of = poll.of /\ link.stage = "open"
               THEN [link EXCEPT !.wire = Append(@, Event("revoked", None)),
                                 !.stage = "closed"]
               ELSE link
    /\ poll' = NoPoll /\ Release(poll.of)
    /\ UNCHANGED <<issued, stray, signals, identity, playback, suppressed,
                   moved, view, opener, run, ends, shown, spent>>

\* The service notices that the page closed the connection; ClosePlayer has
\* two seconds and may fail.
HangUp ==
    /\ poll.of # None /\ ~(link.of = poll.of /\ link.stage = "open")
    /\ poll' = NoPoll
    /\ \/ Release(poll.of) /\ UNCHANGED spent
       \/ Fault /\ UNCHANGED <<player, status>>
    /\ UNCHANGED <<issued, stray, page, shown>>

-----------------------------------------------------------------------------
(* The Browser Source: when may the page claim work?                       *)

NotSaid == "null"

initialAlertSourceSignals(p) ==
    [obsPresent |-> p.obsPresent, active |-> NotSaid, obsVisible |-> NotSaid,
     documentVisible |-> p.documentVisible, settled |-> FALSE]

\* Faulty: what OBS says of the scene decides, the document's state is ignored.
resolveByObs(s) ==
    IF s.obsPresent /\ s.obsVisible # NotSaid THEN [active |-> s.obsVisible, visible |-> s.obsVisible]
                                              ELSE [active |-> "yes", visible |-> "yes"]

resolveAlertSourceState(s) ==
    LET settled == IF s.settled THEN s.documentVisible ELSE NotSaid
        visible == IF s.obsVisible = NotSaid THEN settled
                   ELSE IF s.documentVisible = "yes" THEN s.obsVisible ELSE "no"
        active  == IF s.active # NotSaid THEN s.active
                   ELSE IF s.settled THEN visible ELSE NotSaid
    IN IF s.obsPresent THEN [active |-> active, visible |-> visible]
       ELSE [active |-> "yes", visible |-> "yes"]

CanClaim(s) == resolveAlertSourceState(s) = [active |-> "yes", visible |-> "yes"]

Settle ==
    /\ signals.obsPresent /\ ~signals.settled
    /\ signals' = [signals EXCEPT !.settled = TRUE]
    /\ UNCHANGED <<server, identity, playback, suppressed, moved, view,
                   opener, link, run, ends, shown, spent>>

SourceReports ==
    /\ signals.obsPresent /\ spent < MaxDisturbances
    /\ \E change \in SourceChanges :
          /\ signals[change.name] # change.value
          /\ signals' = [signals EXCEPT ![change.name] = change.value]
    /\ spent' = spent + 1
    /\ UNCHANGED <<server, identity, playback, suppressed, moved, view,
                   opener, link, run, ends, shown>>

-----------------------------------------------------------------------------
(* The hook's state.                                                       *)

\* Faulty: the lost identity does not open the overlay again.
InvalidateForGood(id) ==
    IF identity = id THEN identity' = None /\ playback' = NoPlayback /\ UNCHANGED moved
                     ELSE UNCHANGED <<identity, playback, moved>>

InvalidateIdentity(id) ==
    IF identity = id
    THEN identity' = None /\ playback' = NoPlayback /\ moved' = moved \cup {"cycle"}
    ELSE UNCHANGED <<identity, playback, moved>>

\* Faulty: also when the page holds no playback.
SuppressWhatever ==
    /\ suppressed' = suppressed \cup {playback.of}
    /\ playback' = NoPlayback

SuppressServerInterrupted ==
    /\ suppressed' = suppressed \cup ({playback.of} \ {None})
    /\ playback' = NoPlayback

\* Is the run still about what the page holds?
ShouldContinue == identity = view.identity /\ identity > None /\ playback.of = run.of

Request(kind, id, a) == [kind |-> kind, id |-> id, of |-> a]

\* Requests that were sent when their sender goes away.
Sent ==
    (IF opener = "asking" THEN {Request("open", None, None)} ELSE {}) \cup
    (IF run.stage = "starting" THEN {Request("start", view.identity, run.of)} ELSE {})

MayStillArrive(requests) ==
    \E late \in SUBSET requests :
        /\ stray' = stray \cup late
        /\ Cardinality(stray') <= MaxStrays

Active(v) == v.can /\ v.identity > None

Restarts(next) ==
    Active(view) # Active(next) \/ "key" \in moved \/ view.playback # next.playback

\* useReleaseInactiveClaim: a hidden page lets its identity go.
LetGo(can) ==
    IF can THEN UNCHANGED <<identity, playback>>
    ELSE /\ identity' = None
         /\ playback' = IF identity > None THEN NoPlayback ELSE playback

\* The stream belongs to the identity it was opened for.
LinkFor(next) ==
    IF next.can = view.can /\ next.identity = view.identity THEN link
    ELSE IF Active(next) THEN [of |-> identity, stage |-> "connecting", wire |-> <<>>]
    ELSE NoLink

RunOf(next) ==
    IF ~Restarts(next) THEN run
    ELSE IF playback # NoPlayback /\ Active(next)
    THEN [of |-> playback.of, stage |-> "preloading", owed |-> FALSE]
    ELSE NoRun

\* A run cut short says so unless the server took its playback away itself, and
\* only if it is, after all effects, still what the page holds.
Interruption(next) ==
    IF /\ run.of \notin suppressed
       /\ next.identity > None /\ identity' = next.identity /\ playback'.of = run.of
    THEN {Request("interrupt", next.identity, run.of)} ELSE {}

\* A render and the flush of its effects.
Commit ==
    LET can     == CanClaim(signals)
        next    == [can |-> can, identity |-> identity, playback |-> playback]
        reopens == can # view.can \/ "cycle" \in moved
        cut     == Restarts(next) /\ run.stage \in OnScreen
    IN /\ next # view \/ moved # {}
       /\ view' = next /\ moved' = {} /\ LetGo(can)
       /\ opener' = IF ~reopens THEN opener ELSE IF can THEN "asking" ELSE "off"
       /\ link' = LinkFor(next) /\ run' = RunOf(next)
       /\ suppressed' = IF cut THEN suppressed \ {run.of} ELSE suppressed
       /\ ends' = IF cut THEN ends \cup Interruption(next) ELSE ends
       /\ MayStillArrive({r \in Sent : IF r.kind = "open" THEN reopens ELSE Restarts(next)})
       /\ UNCHANGED <<status, player, issued, poll, signals, shown, spent>>

-----------------------------------------------------------------------------
(* Opening and keeping the lease.                                          *)

OpenAnswered ==
    /\ opener = "asking"
    /\ \/ /\ player.leased
          /\ identity' = Standby /\ opener' = "waiting"
          /\ UNCHANGED <<status, player, issued>>
       \/ Granted /\ identity' = issued' /\ opener' = "off"
    /\ UNCHANGED <<poll, stray, signals, playback, suppressed, moved, view,
                   link, run, ends, shown, spent>>

OpenFails ==
    /\ opener = "asking" /\ Fault
    /\ Granted \/ UNCHANGED <<status, player, issued>>
    /\ identity' = None /\ opener' = "waiting"
    /\ UNCHANGED <<poll, stray, signals, playback, suppressed, moved, view,
                   link, run, ends, shown>>

TryAgain ==
    /\ opener = "waiting" /\ opener' = "asking"
    /\ UNCHANGED <<server, signals, identity, playback, suppressed, moved,
                   view, link, run, ends, shown, spent>>

\* What the page says of its source: it has let go before it could say no.
Ready == view.can

\* A refusal is permanent; anything else is retried with the same identity.
Heartbeat ==
    /\ identity = view.identity /\ identity > None
    /\ IF Honoured(identity)
       THEN /\ player' = [player EXCEPT !.ready = Ready]
            /\ UNCHANGED <<status, identity, playback, moved>>
       ELSE /\ status' = IF player.id = identity THEN Recovered ELSE status
            /\ UNCHANGED player
            /\ InvalidateIdentity(identity)
    /\ UNCHANGED <<issued, poll, stray, signals, suppressed, view, opener, link,
                   run, ends, shown, spent>>

-----------------------------------------------------------------------------
(* The event stream, as the page reads it.                                 *)

StreamOpens ==
    /\ link.stage = "connecting"
    /\ IF Honoured(link.of)
       THEN /\ link' = [link EXCEPT !.stage = "open"]
            /\ \E a \in IF Stored = {} THEN {None} ELSE Stored :
                  poll' = [of |-> link.of, current |-> a]
            /\ UNCHANGED <<status, player>>
       ELSE /\ link' = [link EXCEPT !.stage = "closed", !.wire = <<Event("revoked", None)>>]
            /\ UNCHANGED poll /\ Release(link.of)
    /\ UNCHANGED <<issued, stray, signals, identity, playback, suppressed,
                   moved, view, opener, run, ends, shown, spent>>

\* The connection breaks: what was not read yet is lost.
StreamBreaks ==
    /\ link.stage \in {"connecting", "open"} /\ Fault
    /\ link' = [link EXCEPT !.stage = "closed", !.wire = <<>>]
    /\ UNCHANGED <<server, signals, identity, playback, suppressed, moved,
                   view, opener, run, ends, shown>>

Receive ==
    /\ link.wire # <<>>
    /\ LET event == Head(link.wire)
       IN CASE event.type = "playback" ->
                 /\ playback' = [of |-> event.of, by |-> link.of]
                 /\ link' = [link EXCEPT !.wire = Tail(@)]
                 /\ UNCHANGED <<identity, suppressed, moved>>
            [] event.type = "skip" ->
                 /\ SuppressServerInterrupted /\ moved' = moved \cup {"key"}
                 /\ link' = [link EXCEPT !.wire = Tail(@)]
                 /\ UNCHANGED identity
            [] event.type = "revoked" ->
                 /\ SuppressServerInterrupted /\ link' = NoLink
                 /\ IF identity = link.of
                    THEN identity' = None /\ moved' = moved \cup {"cycle"}
                    ELSE UNCHANGED <<identity, moved>>
    /\ UNCHANGED <<server, signals, view, opener, run, ends, shown, spent>>

StreamEnds ==
    /\ link.stage = "closed" /\ link.wire = <<>>
    /\ link' = NoLink
    /\ InvalidateIdentity(link.of)
    /\ UNCHANGED <<server, signals, suppressed, view, opener, run, ends, shown, spent>>

-----------------------------------------------------------------------------
(* The player: one run of the playback it was last given.                  *)

\* A diagnostic is sent if the playback is still the page's.
Reportable == view.identity > None /\ playback.of = run.of

\* The run waits for the diagnostics it sent.
Goes(stage, reports) ==
    /\ run' = [run EXCEPT !.stage = stage,
                          !.owed = @ \/ (reports /\ Reportable)]
    /\ UNCHANGED <<server, signals, identity, playback, suppressed, moved, view,
                   opener, link, ends, shown, spent>>

Rendering == [of |-> run.of, by |-> view.playback.by, under |-> view.identity]

\* Faulty: renders while the acknowledgement is still on its way.
ShowWhilePreloading ==
    /\ run.stage = "preloading"
    /\ run' = [run EXCEPT !.stage = "entering"]
    /\ shown' = shown \cup {Rendering}
    /\ UNCHANGED <<server, signals, identity, playback, suppressed, moved,
                   view, opener, link, ends, spent>>

\* Assets that are missing, undecodable or eight seconds late are left out.
Preloaded ==
    /\ run.stage = "preloading"
    /\ \E missing \in BOOLEAN : Goes("starting", missing)

\* The server committed to the playback: the card enters.
Start == Request("start", view.identity, run.of)

StartAnswered ==
    /\ run.stage = "starting" /\ Accepts(Start) /\ Apply(Start)
    /\ run' = [run EXCEPT !.stage = "entering"]
    /\ shown' = shown \cup {Rendering}
    /\ UNCHANGED <<player, issued, poll, stray, signals, identity, playback,
                   suppressed, moved, view, opener, link, ends, spent>>

StartUnanswered ==
    /\ run.stage = "starting" /\ Accepts(Start) /\ Fault /\ Apply(Start)
    /\ UNCHANGED <<player, issued, poll, stray, page, shown>>

\* Fifteen seconds without an acknowledgement cost the page its identity; a
\* playback or identity that was let go ends the retries without that.
StartGivesUp ==
    /\ run.stage = "starting"
    /\ \/ ~ShouldContinue /\ UNCHANGED <<identity, playback, moved, spent>>
       \/ /\ ShouldContinue /\ InvalidateIdentity(view.identity)
          /\ IF Accepts(Start) THEN Fault ELSE UNCHANGED spent
    /\ run' = NoRun
    /\ MayStillArrive({r \in Sent : r.kind = "start"})
    /\ UNCHANGED <<status, player, issued, poll, signals, suppressed, view, opener,
                   link, ends, shown>>

\* Sound and speech: each plays, is blocked, or is unavailable.
PlayAudio ==
    /\ run.stage = "entering"
    /\ \E silent \in BOOLEAN : Goes("leaving", silent)

\* Accepted, refused until it timed out, or aborted.
DiagnosticSettles ==
    /\ run.owed /\ run' = [run EXCEPT !.owed = FALSE]
    /\ UNCHANGED <<server, signals, identity, playback, suppressed, moved,
                   view, opener, link, ends, shown, spent>>

\* The card is gone; the acknowledgement outlives the run.
Presented ==
    /\ run.stage = "leaving" /\ ~run.owed
    /\ run' = NoRun
    /\ ends' = IF ShouldContinue THEN ends \cup {Request("finish", view.identity, run.of)}
               ELSE ends
    /\ UNCHANGED <<server, signals, identity, playback, suppressed, moved,
                   view, opener, link, shown, spent>>

EndAnswered ==
    \E request \in ends :
        /\ Accepts(request) /\ Apply(request)
        /\ ends' = ends \ {request}
        /\ playback' = IF playback.of = request.of THEN NoPlayback ELSE playback
        /\ UNCHANGED <<player, issued, poll, stray, signals, identity, suppressed,
                       moved, view, opener, link, run, shown, spent>>

EndUnanswered ==
    \E request \in ends :
        /\ Accepts(request) /\ Apply(request) /\ Fault
        /\ UNCHANGED <<player, issued, poll, stray, page, shown>>

\* After 110 seconds, or as soon as the playback is not the page's any more.
EndGivesUp ==
    \E request \in ends :
        /\ IF identity = request.id /\ playback.of = request.of /\ Accepts(request)
           THEN Fault ELSE UNCHANGED spent
        /\ ends' = ends \ {request}
        /\ MayStillArrive({request})
        /\ UNCHANGED <<status, player, issued, poll, signals, identity, playback,
                       suppressed, moved, view, opener, link, run, shown>>

-----------------------------------------------------------------------------
Unmounted == [can |-> FALSE, identity |-> None, playback |-> NoPlayback]

Init ==
    /\ status = [a \in Alerts |-> "pending"] /\ player = NoPlayer /\ issued = 0
    /\ poll = NoPoll /\ stray = {}
    /\ signals \in {initialAlertSourceSignals(p) : p \in Pages}
    /\ identity = None /\ playback = NoPlayback /\ suppressed = {}
    /\ moved = {} /\ view = Unmounted /\ opener = "off" /\ link = NoLink /\ run = NoRun
    /\ ends = {} /\ shown = {} /\ spent = 0

\* OBS shuts the source down, or it crashes, and loads the page again.
Reload ==
    /\ Fault
    /\ signals' \in {s \in {initialAlertSourceSignals(p) : p \in Pages} :
                   s.obsPresent = signals.obsPresent}
    /\ identity' = None /\ playback' = NoPlayback /\ suppressed' = {}
    /\ moved' = {} /\ view' = Unmounted /\ opener' = "off" /\ link' = NoLink /\ run' = NoRun /\ ends' = {}
    /\ MayStillArrive(Sent \cup ends)
    /\ UNCHANGED <<status, player, issued, poll, shown>>

Service == \/ Skip \/ LeaseRunsOut \/ StrayArrives
           \/ \E overdue \in BOOLEAN : Poll(overdue)
           \/ Revoke \/ HangUp
Source  == Settle \/ SourceReports
Hook    == \/ Commit \/ OpenAnswered \/ OpenFails \/ TryAgain \/ Heartbeat
           \/ StreamOpens \/ StreamBreaks \/ Receive \/ StreamEnds
Player  == \/ Preloaded \/ StartAnswered \/ StartUnanswered \/ StartGivesUp
           \/ PlayAudio \/ DiagnosticSettles \/ Presented
           \/ EndAnswered \/ EndUnanswered \/ EndGivesUp

Next == Service \/ Source \/ Hook \/ Player \/ Reload

Spec == Init /\ [][Next]_vars

\* Timers fire, callbacks run, the service polls, a request is answered in the
\* end (losses are faults), and a lease nobody renews runs out.
FairSpec ==
    /\ Spec
    /\ WF_vars(Settle) /\ WF_vars(Commit)
    /\ WF_vars(OpenAnswered) /\ WF_vars(TryAgain) /\ WF_vars(Heartbeat)
    /\ WF_vars(StreamOpens) /\ WF_vars(Receive) /\ WF_vars(StreamEnds)
    /\ WF_vars(Poll(FALSE)) /\ WF_vars(Poll(TRUE)) /\ WF_vars(Revoke) /\ WF_vars(HangUp)
    /\ WF_vars(LeaseRunsOut /\ identity # player.id)
    /\ WF_vars(Preloaded) /\ WF_vars(StartAnswered) /\ WF_vars(StartGivesUp)
    /\ WF_vars(DiagnosticSettles) /\ WF_vars(Presented)
    /\ WF_vars(EndAnswered) /\ WF_vars(EndGivesUp)

-----------------------------------------------------------------------------
(* Properties.                                                             *)

\* The variables hold what the columns, refs and closures of the code hold.
TypeOK ==
    /\ status \in [Alerts -> {"pending"} \cup Playing \cup Terminal]
    /\ player \in [id: 0 .. MaxIdentities, leased: BOOLEAN, ready: BOOLEAN]
    /\ issued \in 0 .. MaxIdentities
    /\ poll \in [of: 0 .. MaxIdentities, current: Alerts \cup {None}]
    /\ stray \cup ends \subseteq [kind: {"open", "start", "finish", "interrupt"},
                                 id: 0 .. MaxIdentities, of: Alerts \cup {None}]
    /\ identity \in Standby .. MaxIdentities
    /\ playback \in [of: Alerts \cup {None}, by: 0 .. MaxIdentities]
    /\ suppressed \subseteq Alerts  /\ moved \subseteq {"key", "cycle"}
    /\ view \in [can: BOOLEAN, identity: Standby .. MaxIdentities,
                 playback: [of: Alerts \cup {None}, by: 0 .. MaxIdentities]]
    /\ opener \in {"off", "asking", "waiting"}
    /\ link.stage \in {"off", "connecting", "open", "closed"}
    /\ run \in [of: Alerts \cup {None}, owed: BOOLEAN,
                stage: {"idle", "preloading", "starting"} \cup OnScreen]

\* The card is never on screen for an alert the server could still give to
\* somebody else: whatever was lost, repeated or late, the row says it was
\* rendered (presentPlayback behind onStarted, recoverAssignedPlayback).
RenderedIsCommitted ==
    run.stage \in OnScreen => status[run.of] \notin {"pending", "assigned"}

Renders == run.stage \notin OnScreen /\ run'.stage \in OnScreen

\* An alert is rendered once, over all leases, streams, reloads and repeated
\* acknowledgements of the page, if its rendering was of a playback the page was
\* sent for the identity it held (recoverAssignedPlayback, startPlayback).
RenderedOnce ==
    [][Renders => \A r \in shown : r.of = run'.of => r.by # r.under]_vars

\* "so a donation is never rendered twice after an uncertain failure"
\* (store_player.go:82-85), without that condition.
NeverRenderedTwice ==
    [][Renders => \A r \in shown : r.of # run'.of]_vars

\* When the service took the alert on screen away, the page is told so before
\* it is given the next one (application.go:226), however the two are skipped,
\* timed out, polled and read.
WithdrawnBeforeNext ==
    \A i \in DOMAIN link.wire :
        /\ link.wire[i].type = "playback"
        /\ playback.by = link.of /\ playback.of # link.wire[i].of
        /\ status[playback.of] \in {"skipped", "interrupted"}
        => \E j \in 1 .. i - 1 : link.wire[j].type = "skip"

Hidden(s) == s.obsPresent /\ "no" \in {s.active, s.obsVisible, s.documentVisible}

\* Hidden or inactive, the source falls silent, also when it was hidden while
\* an acknowledgement, an event or a render was under way.
HiddenFallsSilent == []<>(Hidden(signals) => run.stage \notin OnScreen)

\* While the source stays visible every alert reaches an outcome: lost events,
\* answers and streams, standby behind its own old lease and reloads included.
\* (The bound on identities must not be what stops the page.)
EveryAlertEnds ==
    <>[](CanClaim(signals) /\ (issued < MaxIdentities \/ identity = issued))
        => []<>(\A a \in Alerts : status[a] \in Terminal)
=============================================================================
