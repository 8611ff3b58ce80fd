------------------------------ MODULE Restream ------------------------------
(***************************************************************************)
(* Multistream of one owner: the web server's tables (RestreamStore) and   *)
(* the media node's controller (HTTPHandler), which MediaMTX asks before a *)
(* publisher is accepted and tells when its path comes and goes.  A path   *)
(* is an ingest key; a session has the number of the publisher it was      *)
(* opened for.                                                             *)
(***************************************************************************)
EXTENDS Integers, FiniteSets

CONSTANTS
    MaxKey,             \* ingest keys the owner makes
    MaxDisturbances,    \* edits, rotations and reads of the owner, lost calls and answers
    MaxPublishes        \* publishers that connect

ASSUME RestreamBounds == MaxKey \in Nat \ {0} /\ MaxDisturbances \in Nat /\ MaxPublishes \in Nat

VARIABLES
    key,            \* restream_ingest: the current key
    destinations,   \* restream_destination: position and enabled
    edit,           \* the transaction that holds the owner's row, and its view of the positions
    edits,          \* how many destinations were created, and disturbances left
    sessions,       \* restream_session; of its destinations nothing is read here
    active,         \* HTTPHandler.sessions: the session of each path
    beats, reports, \* heartbeat goroutines, and their requests in flight
    up, down,       \* of each publisher: its authorization and online hook, its offline hook
    media,          \* MediaMTX: the publisher of each path, whose forwards it has, and whether a call failed
    page            \* what the owner's page has read
restreamVars == <<key, destinations, edit, edits, sessions, active, beats, reports, up, down, media, page>>

MAX_RESTREAM_DESTINATIONS == 3
Paths        == 1..MaxKey
Publishers   == 1..MaxPublishes
Ids          == 1..(2 + MaxDisturbances)
NoEdit       == [at |-> "none", rows |-> <<>>]
NoView       == [at |-> "none", positions |-> {}, session |-> 0]
NoSession    == [status |-> "none", fresh |-> FALSE]
NoPublisher  == [at |-> "none", path |-> 1, sees |-> {}, session |-> 0, lost |-> FALSE]
Open(s)      == sessions[s].status \in {"connecting", "live"}

RestreamTypeOK ==
    /\ key \in Paths
    /\ DOMAIN destinations \subseteq Ids
    /\ \A d \in DOMAIN destinations : destinations[d] \in [position: 0..2, enabled: BOOLEAN]
    /\ edit.at \in {"none", "renumbering"} /\ DOMAIN edit.rows \subseteq Ids
    /\ sessions \in [Publishers -> [status: {"none", "connecting", "live", "ended"}, fresh: BOOLEAN]]
    /\ active \in [Paths -> 0..MaxPublishes]
    /\ beats \subseteq Publishers /\ reports \subseteq Publishers
    /\ \A n \in Publishers : up[n].path \in Paths /\ up[n].session \in 0..MaxPublishes
    /\ media \in [Paths -> [publisher: 0..MaxPublishes, forwards: 0..MaxPublishes, failed: BOOLEAN]]

-----------------------------------------------------------------------------
(* The owner's destinations.                                                *)

Edited(made) == edits.left > 0 /\ edits' = [left |-> edits.left - 1, made |-> edits.made + made]
Disturbs     == Edited(0)
Costs(bad)   == IF bad THEN Disturbs ELSE UNCHANGED edits

overFull(count) == count > MAX_RESTREAM_DESTINATIONS
Full(count)     == count >= MAX_RESTREAM_DESTINATIONS

(* The owner's row is locked until the end of the transaction. *)
createDestination ==
    LET count == Cardinality(DOMAIN destinations) IN
    /\ edit.at = "none" /\ Edited(1)
    /\ destinations' = IF Full(count) THEN destinations
                       ELSE [d \in DOMAIN destinations \cup {edits'.made} |->
                               IF d \in DOMAIN destinations THEN destinations[d]
                               ELSE [position |-> count, enabled |-> TRUE]]
    /\ UNCHANGED <<key, edit, sessions, active, beats, reports, up, down, media, page>>

(* A row that a transaction has written waits for it. *)
Writable(d) == edit.at = "none" \/ (d \in DOMAIN edit.rows /\ edit.rows[d] = destinations[d].position)

setDestinationEnabled ==
    /\ Disturbs
    /\ \E d \in DOMAIN destinations, enabled \in BOOLEAN :
         Writable(d) /\ destinations' = [destinations EXCEPT ![d].enabled = enabled]
    /\ UNCHANGED <<key, edit, sessions, active, beats, reports, up, down, media, page>>

(* The lock, the DELETE and the SELECT of the rest. *)
deleteDestination ==
    /\ edit.at = "none" /\ Disturbs
    /\ \E d \in DOMAIN destinations :
         edit' = [at |-> "renumbering", rows |-> [e \in DOMAIN destinations \ {d} |-> destinations[e].position]]
    /\ UNCHANGED <<key, destinations, sessions, active, beats, reports, up, down, media, page>>

Rank(d) == Cardinality({ e \in DOMAIN edit.rows : edit.rows[e] < edit.rows[d] })

anyOrder(d) == edit.rows[d] # Rank(d)

(* The loop takes the rows in the order of their positions. *)
Turn(d) == edit.rows[d] # Rank(d) /\ \A e \in DOMAIN edit.rows : edit.rows[e] # Rank(e) => edit.rows[d] <= edit.rows[e]

Renumbers ==
    /\ edit.at = "renumbering"
    /\ \E d \in DOMAIN edit.rows : Turn(d) /\ edit' = [edit EXCEPT !.rows[d] = Rank(d)]
    /\ UNCHANGED <<key, destinations, edits, sessions, active, beats, reports, up, down, media, page>>

DeletionCommits ==
    /\ edit.at = "renumbering" /\ \A d \in DOMAIN edit.rows : edit.rows[d] = Rank(d)
    /\ destinations' = [d \in DOMAIN edit.rows |-> [destinations[d] EXCEPT !.position = edit.rows[d]]]
    /\ edit' = NoEdit
    /\ UNCHANGED <<key, edits, sessions, active, beats, reports, up, down, media, page>>

(* The upsert waits for an authorization that holds the key's row. *)
rotateIngestKey ==
    /\ key < MaxKey /\ Disturbs /\ \A n \in Publishers : up[n].at # "reading"
    /\ key' = key + 1
    /\ UNCHANGED <<destinations, edit, sessions, active, beats, reports, up, down, media, page>>

(* The page shows a session for 30 s after its last heartbeat. *)
config ==
    /\ page.at = "none" /\ Disturbs
    /\ \E s \in Publishers \cup {0} :
         /\ IF s = 0 THEN \A o \in Publishers : ~(Open(o) /\ sessions[o].fresh) ELSE Open(s) /\ sessions[s].fresh
         /\ page' = [at |-> "read", session |-> s, positions |-> { destinations[d].position : d \in DOMAIN destinations }]
    /\ UNCHANGED <<key, destinations, edit, sessions, active, beats, reports, up, down, media>>

sessionDestinations ==
    /\ page.at = "read" /\ page' = NoView
    /\ UNCHANGED <<key, destinations, edit, edits, sessions, active, beats, reports, up, down, media>>

-----------------------------------------------------------------------------
(* A publisher is authorized.                                               *)

Pending(path) == \E n \in Publishers : up[n].path = path /\ up[n].at \in {"asking", "reading", "answered"} /\ ~up[n].lost

(* With an old key or the current one; a path has one publisher at a time. *)
authorize(n) ==
    /\ up[n].at = "none" /\ \A m \in 1..(n - 1) : up[m].at # "none"
    /\ \E path \in 1..key :
         up' = [up EXCEPT ![n].path = path, ![n].at = IF active[path] # 0 \/ Pending(path) THEN "done" ELSE "asking"]
    /\ UNCHANGED <<key, destinations, edit, edits, sessions, active, beats, reports, down, media, page>>

(* authorizePublisher, up to its INSERTs; one transaction at a time has the key's row. *)
authorizePublisher(n) ==
    LET enabled == { d \in DOMAIN destinations : destinations[d].enabled } IN
    /\ up[n].at = "asking" /\ \A m \in Publishers : up[m].at # "reading"
    /\ up' = [up EXCEPT ![n].at = IF up[n].path # key \/ enabled = {} THEN "answered" ELSE "reading",
                           ![n].sees = IF up[n].path # key THEN {} ELSE enabled]
    /\ UNCHANGED <<key, destinations, edit, edits, sessions, active, beats, reports, down, media, page>>

(* The foreign keys wait for the owner's row and refuse a destination that is gone, *)
(* and with it everything the transaction did.                                      *)
SessionInserted(n) ==
    /\ up[n].at = "reading" /\ edit.at = "none"
    /\ IF up[n].sees \subseteq DOMAIN destinations
       THEN /\ sessions' = [s \in Publishers |->
                               IF s = n THEN [status |-> "connecting", fresh |-> TRUE]
                               ELSE IF Open(s) THEN [sessions[s] EXCEPT !.status = "ended"] ELSE sessions[s]]
            /\ up' = [up EXCEPT ![n].at = "answered", ![n].session = n, ![n].sees = {}]
       ELSE up' = [up EXCEPT ![n].at = "answered", ![n].sees = {}] /\ UNCHANGED sessions
    /\ UNCHANGED <<key, destinations, edit, edits, active, beats, reports, down, media, page>>

(* The node gives up on the control plane, which may still do what it was asked. *)
TimesOut(n) ==
    /\ up[n].at \in {"asking", "reading", "answered"} /\ ~up[n].lost /\ Disturbs
    /\ up' = [up EXCEPT ![n].lost = TRUE]
    /\ UNCHANGED <<key, destinations, edit, sessions, active, beats, reports, down, media, page>>

(* The rest of authorize: ValidateTargetURL may refuse a destination. *)
Answered(n) ==
    /\ up[n].at = "answered"
    /\ \E unsafe \in BOOLEAN :
         LET accepted == up[n].session = n /\ ~up[n].lost /\ ~unsafe
             refused  == up[n].session = n /\ ~up[n].lost /\ unsafe
         IN  /\ Costs(refused)
             /\ active' = [active EXCEPT ![up[n].path] = IF accepted THEN n ELSE @]
             /\ up' = [up EXCEPT ![n].at = IF accepted THEN "accepted" ELSE IF refused THEN "ending" ELSE "done"]
    /\ UNCHANGED <<key, destinations, edit, sessions, beats, reports, down, media, page>>

-----------------------------------------------------------------------------
(* MediaMTX has the publisher, and runs the hooks.                          *)

Available(n) ==
    /\ up[n].at = "accepted" /\ media[up[n].path].publisher = 0
    /\ media' = [media EXCEPT ![up[n].path].publisher = n]
    /\ up' = [up EXCEPT ![n].at = "online"]
    /\ UNCHANGED <<key, destinations, edit, edits, sessions, active, beats, reports, down, page>>

(* It left, or MediaMTX refused it, before its path was available: no hook runs. *)
LeavesEarly(n) ==
    /\ up[n].at = "accepted"
    /\ up' = [up EXCEPT ![n].at = "done"]
    /\ UNCHANGED <<key, destinations, edit, edits, sessions, active, beats, reports, down, media, page>>

Unavailable(n) ==
    /\ media[up[n].path].publisher = n
    /\ media' = [media EXCEPT ![up[n].path].publisher = 0]
    /\ down' = [down EXCEPT ![n].at = "offline"]
    /\ UNCHANGED <<key, destinations, edit, edits, sessions, active, beats, reports, up, page>>

(* online, up to its call of Configure. *)
online(n) ==
    LET session == active[up[n].path] IN
    /\ up[n].at = "online"
    /\ up' = [up EXCEPT ![n].at = IF session = 0 THEN "done" ELSE "configuring", ![n].session = session]
    /\ UNCHANGED <<key, destinations, edit, edits, sessions, active, beats, reports, down, media, page>>

(* MediaMTX takes the forwards; the node may learn of a failure instead. *)
Configure(n) ==
    /\ up[n].at = "configuring"
    /\ \E taken, answered \in BOOLEAN :
         /\ answered => taken
         /\ Costs(~answered)
         /\ up' = [up EXCEPT ![n].at = IF answered THEN "configured" ELSE "failing"]
         /\ media' = [media EXCEPT ![up[n].path].forwards = IF taken THEN up[n].session ELSE @,
                                   ![up[n].path].failed = IF taken THEN ~answered ELSE @]
    /\ UNCHANGED <<key, destinations, edit, sessions, active, beats, reports, down, page>>

neverDeletes(n) == "done"

AfterConfigure(n) ==
    LET session == active[up[n].path] IN
    IF session = up[n].session THEN "done" ELSE IF session = 0 THEN "deleting" ELSE "done"

(* The rest of online: whose session is it now? *)
Configured(n) ==
    /\ up[n].at = "configured"
    /\ up' = [up EXCEPT ![n].at = AfterConfigure(n), ![n].session = IF active[up[n].path] = 0 THEN 0 ELSE @]
    /\ beats' = IF active[up[n].path] = up[n].session THEN beats \cup {up[n].session} ELSE beats
    /\ UNCHANGED <<key, destinations, edit, edits, sessions, active, reports, down, media, page>>

(* Its entry is taken out and its heartbeats are cancelled. *)
Removed(path) == active' = [active EXCEPT ![path] = 0] /\ beats' = beats \ {active[path]}

abandonSession(n) ==
    /\ up[n].at = "failing"
    /\ IF active[up[n].path] = up[n].session
       THEN Removed(up[n].path) /\ up' = [up EXCEPT ![n].at = "deleting"]
       ELSE up' = [up EXCEPT ![n].at = "done"] /\ UNCHANGED <<active, beats>>
    /\ UNCHANGED <<key, destinations, edit, edits, sessions, reports, down, media, page>>

offline(n) ==
    LET session == active[up[n].path] IN
    /\ down[n].at = "offline"
    /\ IF session = 0 THEN down' = [down EXCEPT ![n].at = "done"] /\ UNCHANGED <<active, beats>>
       ELSE Removed(up[n].path) /\ down' = [down EXCEPT ![n] = [at |-> "deleting", session |-> session]]
    /\ UNCHANGED <<key, destinations, edit, edits, sessions, reports, up, media, page>>

(* A failed Delete is only logged. *)
Deleted(path) ==
    \E answered \in BOOLEAN :
        /\ Costs(~answered)
        /\ media' = [media EXCEPT ![path].forwards = IF answered THEN 0 ELSE @, ![path].failed = ~answered]

deleteMediaPath(n) ==
    /\ up[n].at = "deleting" /\ Deleted(up[n].path)
    /\ up' = [up EXCEPT ![n].at = IF up[n].session = 0 THEN "done" ELSE "ending"]
    /\ UNCHANGED <<key, destinations, edit, sessions, active, beats, reports, down, page>>

Delete(n) ==
    /\ down[n].at = "deleting" /\ Deleted(up[n].path)
    /\ down' = [down EXCEPT ![n].at = "ending"]
    /\ UNCHANGED <<key, destinations, edit, sessions, active, beats, reports, up, page>>

-----------------------------------------------------------------------------
(* The node reports to the control plane.                                   *)

(* The request may be lost. *)
endSession(s) ==
    \E lost \in BOOLEAN :
        /\ Costs(lost)
        /\ sessions' = IF Open(s) /\ ~lost THEN [sessions EXCEPT ![s].status = "ended"] ELSE sessions

endAuthorization(n) ==
    /\ up[n].at = "ending" /\ endSession(up[n].session)
    /\ up' = [up EXCEPT ![n].at = "done"]
    /\ UNCHANGED <<key, destinations, edit, active, beats, reports, down, media, page>>

End(n) ==
    /\ down[n].at = "ending" /\ endSession(down[n].session)
    /\ down' = [down EXCEPT ![n].at = "done"]
    /\ UNCHANGED <<key, destinations, edit, active, beats, reports, up, media, page>>

sendHeartbeat(s) ==
    /\ s \in beats \ reports
    /\ reports' = reports \cup {s}
    /\ UNCHANGED <<key, destinations, edit, edits, sessions, active, beats, up, down, media, page>>

(* RestreamStore.heartbeat: not of a session that has ended. *)
Recorded(s) == Open(s) /\ sessions' = [sessions EXCEPT ![s].status = "live", ![s].fresh = TRUE]

(* The web server answers 404 when it finds no session, and that stops the goroutine; *)
(* a request may be late or lost.                                                      *)
heartbeat(s) ==
    /\ s \in reports /\ reports' = reports \ {s}
    /\ \/ Recorded(s) /\ UNCHANGED <<beats, edits>>
       \/ ~Open(s) /\ beats' = beats \ {s} /\ UNCHANGED <<sessions, edits>>
       \/ Disturbs /\ UNCHANGED <<sessions, beats>>
    /\ UNCHANGED <<key, destinations, edit, active, up, down, media, page>>

(* 30 s without a heartbeat. *)
GoesQuiet(s) ==
    /\ Open(s) /\ sessions[s].fresh /\ Disturbs
    /\ sessions' = [sessions EXCEPT ![s].fresh = FALSE]
    /\ UNCHANGED <<key, destinations, edit, active, beats, reports, up, down, media, page>>
-----------------------------------------------------------------------------

RestreamInit ==
    /\ key = 1
    /\ destinations = [d \in 1..2 |-> [position |-> d - 1, enabled |-> TRUE]]
    /\ edit = NoEdit /\ edits = [left |-> MaxDisturbances, made |-> 2]
    /\ sessions = [s \in Publishers |-> NoSession]
    /\ active = [p \in Paths |-> 0]
    /\ beats = {} /\ reports = {}
    /\ up = [n \in Publishers |-> NoPublisher]
    /\ down = [n \in Publishers |-> [at |-> "none", session |-> 0]]
    /\ media = [p \in Paths |-> [publisher |-> 0, forwards |-> 0, failed |-> FALSE]]
    /\ page = NoView

RestreamNext ==
    \/ createDestination \/ setDestinationEnabled \/ deleteDestination \/ Renumbers \/ DeletionCommits
    \/ rotateIngestKey \/ config \/ sessionDestinations
    \/ \E n \in Publishers :
         \/ authorize(n) \/ authorizePublisher(n) \/ SessionInserted(n) \/ TimesOut(n) \/ Answered(n)
         \/ Available(n) \/ LeavesEarly(n) \/ Unavailable(n)
         \/ online(n) \/ Configure(n) \/ Configured(n) \/ abandonSession(n) \/ offline(n)
         \/ deleteMediaPath(n) \/ Delete(n) \/ endAuthorization(n) \/ End(n)
         \/ sendHeartbeat(n) \/ heartbeat(n) \/ GoesQuiet(n)

RestreamSpec == RestreamInit /\ [][RestreamNext]_restreamVars

-----------------------------------------------------------------------------
(* Properties.                                                              *)

(* "Moving rows one at a time in ascending order always targets a free lower slot, so *)
(* the immediate unique position constraint and the position bound hold after each    *)
(* statement" (deleteDestination), and what is committed or shown has no gap.         *)
PositionsHold ==
    /\ \A d, e \in DOMAIN edit.rows : edit.rows[d] = edit.rows[e] => d = e
    /\ \A d \in DOMAIN edit.rows : edit.rows[d] < MAX_RESTREAM_DESTINATIONS
    /\ { destinations[d].position : d \in DOMAIN destinations } = 0..(Cardinality(DOMAIN destinations) - 1)
    /\ page.positions \in { 0..(n - 1) : n \in 0..MAX_RESTREAM_DESTINATIONS }

(* MediaMTX forwards only a path whose session the controller knows, or whose forwards *)
(* one of its handlers is about to remove, unless MediaMTX failed a call (online's     *)
(* second look at the session); and of an owner's sessions at most the newest is open, *)
(* however late a heartbeat arrives.                                                   *)
ForwardsHaveOwner ==
    /\ \A p \in Paths :
         \/ media[p].forwards = 0 \/ media[p].failed \/ active[p] # 0
         \/ \E n \in Publishers : up[n].path = p /\ (up[n].at \in {"configured", "deleting"} \/ down[n].at = "deleting")
    /\ \A s, o \in Publishers : Open(s) /\ Open(o) => s = o
=============================================================================
