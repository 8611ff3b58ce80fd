----------------------------- MODULE ChatStream -----------------------------
(***************************************************************************)
(* One page that follows an owner's chat (useChatServiceStream): the       *)
(* owner's own page, or an overlay opened with a link that may be          *)
(* replaced.  Its subscription goes through the web server, which checks   *)
(* the link, to the chat service, which subscribes to the broker, sends    *)
(* the stored state of the source, and then what is published.             *)
(***************************************************************************)
EXTENDS Integers, Sequences, SequencesExt

CONSTANTS
    MaxEvents,      \* events published
    MaxBreaks,      \* failures of the subscription, of a check, of a store, or of an acknowledgement
    MaxLinks        \* links of the overlay, the last one current
ASSUME ChatAssumption == MaxEvents \in Nat /\ MaxBreaks \in Nat /\ MaxLinks \in Nat \ {0}

VARIABLES
    link,           \* chat_overlay.token_hash
    stored, puts,   \* the state bucket, and the states published but not yet put
    published,      \* the last published state, events left
    breaks,         \* failures left
    viewer,         \* the page: its mode and link, its subscription, and what it holds
    stream          \* the web server's and the chat service's end of the subscription
chatVars == <<link, stored, puts, published, breaks, viewer, stream>>

States      == {"live", "offline"}
Messages    == 1..3
Time(m)     == IF m = 3 THEN 2 ELSE m           \* occurredAt
Kept        == 2                                \* of the newest messages, for 500
Links       == 1..MaxLinks
message(m)  == [type |-> "message", message |-> m, state |-> "live"]
deletion(m) == [type |-> "message_deleted", message |-> m, state |-> "none"]
state(s)    == [type |-> "state", message |-> 0, state |-> s]
Events      == { message(m) : m \in Messages } \cup { deletion(m) : m \in Messages } \cup { state(s) : s \in States }
NoStream    == [at |-> "none", queue |-> <<>>, missed |-> {}, unacked |-> {}, again |-> {}, gone |-> {}]
Empty       == [messages |-> <<>>, status |-> "none", connectionError |-> "none"]

ChatTypeOK ==
    /\ link \in Links /\ stored \in States \cup {"none"} /\ puts \subseteq States
    /\ viewer.mode \in {"editor", "overlay"} /\ viewer.link \in 1..link
    /\ viewer.at \in {"subscribing", "open", "waiting", "stopped"}
    /\ stream.at \in {"none", "checked", "subscribed", "snapshot", "sending"}
    /\ stream.queue \in Seq(Events) /\ stream.unacked \subseteq Events
    /\ stream.again \subseteq States /\ stream.gone \subseteq Messages

Breaks == breaks > 0 /\ breaks' = breaks - 1

-----------------------------------------------------------------------------
(* The broker delivers.  gone: messages whose last delivery is their deletion.      *)

Listens == stream.at \in {"subscribed", "snapshot", "sending"}

Deliver(event, unacked, again) ==
    stream' = [stream EXCEPT !.queue = Append(@, event), !.unacked = unacked, !.again = again,
                   !.gone = CASE event.type = "message"         -> @ \ {event.message}
                              [] event.type = "message_deleted" -> @ \cup {event.message}
                              [] event.type = "state"           -> @]

(* An event that is not acknowledged in time comes again, after those published later. *)
(* again: the states this may leave the page with, until a newer one is published.     *)
Redeliver(event) ==
    /\ Listens /\ event \in stream.unacked
    /\ Deliver(event, stream.unacked \ {event}, stream.again \cup ({event.state} \ {"none"}))
    /\ UNCHANGED <<link, stored, puts, published, breaks, viewer>>

-----------------------------------------------------------------------------
(* The chat service publishes: to the stream, then to the bucket.           *)

Publish(event) ==
    /\ published.left > 0
    /\ published' = [left |-> published.left - 1, state |-> IF event.state = "none" THEN published.state ELSE event.state]
    /\ puts' = IF event.state = "none" THEN puts ELSE puts \cup {event.state}
    /\ IF Listens THEN Deliver(event, stream.unacked, IF event.state = "none" THEN stream.again ELSE {})
                  ELSE UNCHANGED stream
    /\ UNCHANGED <<link, stored, breaks, viewer>>

Put(s) ==
    /\ s \in puts /\ puts' = puts \ {s}
    /\ stored' = s
    /\ UNCHANGED <<link, published, breaks, viewer, stream>>

(* The event stays published: a viewer that connects later sees an older state. *)
PutFails(s) ==
    /\ s \in puts /\ puts' = puts \ {s} /\ Breaks
    /\ UNCHANGED <<link, stored, published, viewer, stream>>

(* rotateOverlayToken. *)
rotateOverlayToken ==
    /\ link < MaxLinks /\ link' = link + 1
    /\ UNCHANGED <<stored, puts, published, breaks, viewer, stream>>

-----------------------------------------------------------------------------
(* The page.                                                                *)

(* reducer, for an event: a message replaces its copy and keeps the order of time. *)
Without(messages, m) ==
    LET kept == { i \in DOMAIN messages : messages[i] # m }
        at(n) == CHOOSE i \in kept : Cardinality({ j \in kept : j < i }) = n - 1
    IN  [n \in 1..Cardinality(kept) |-> messages[at(n)]]

Placed(messages, m) ==
    LET rest      == Without(messages, m)
        later     == { i \in DOMAIN rest : Time(rest[i]) > Time(m) }
        insertion == IF later = {} THEN Len(rest) + 1 ELSE CHOOSE i \in later : \A j \in later : i <= j
        sorted    == InsertAt(rest, insertion, m)
    IN  SubSeq(sorted, IF Len(sorted) > Kept THEN Len(sorted) - Kept + 1 ELSE 1, Len(sorted))

reducer(view, event) ==
    CASE event.type = "state"           -> [view EXCEPT !.status = event.state]
      [] event.type = "message_deleted" -> [view EXCEPT !.messages = Without(@, event.message)]
      [] event.type = "message"         -> [view EXCEPT !.messages = Placed(@, event.message), !.status = "live"]

(* What the web server answers for a status of the chat service; 0: it did not answer. *)
toTRPCError(status) ==
    CASE status = 400 -> "BAD_REQUEST" [] status = 404 -> "NOT_FOUND" [] status = 409 -> "CONFLICT"
      [] OTHER -> "INTERNAL_SERVER_ERROR"

failureCode(error, mode) ==
    IF error = "NOT_FOUND" /\ mode = "overlay" THEN "overlay_not_found" ELSE "transport_unavailable"

(* The subscription is over: unless its link was replaced, the page tries again later. *)
end(error) ==
    LET code == failureCode(error, viewer.mode) IN
    /\ viewer' = [viewer EXCEPT !.at = IF code = "overlay_not_found" THEN "stopped" ELSE "waiting",
                                !.view.connectionError = code]
    /\ stream' = NoStream

(* The backoff is over; what was received is kept. *)
subscribe ==
    /\ viewer.at = "waiting" /\ viewer' = [viewer EXCEPT !.at = "subscribing"]
    /\ UNCHANGED <<link, stored, puts, published, breaks, stream>>

(* The page is opened, or its mode or link changes: with the link of that moment or an *)
(* older one.                                                                          *)
reset ==
    /\ Breaks
    /\ \E mode \in {"editor", "overlay"}, l \in 1..link :
         viewer' = [at |-> "subscribing", mode |-> mode, link |-> l, view |-> Empty]
    /\ stream' = NoStream
    /\ UNCHANGED <<link, stored, puts, published>>

(* The chat service acknowledges what it has sent on, unless it is the stored state. *)
(* late: that fails, or comes after the broker's wait, because the event was queued  *)
(* for so long.                                                                      *)
onData ==
    /\ viewer.at = "open" /\ stream.at \in {"snapshot", "sending"} /\ stream.queue # <<>>
    /\ \E late \in IF stream.at = "sending" THEN {{}, {Head(stream.queue)}} ELSE {{}} :
         /\ IF late = {} THEN UNCHANGED breaks ELSE Breaks
         /\ stream' = [stream EXCEPT !.at = "sending", !.queue = Tail(@), !.unacked = @ \cup late]
    /\ viewer' = [viewer EXCEPT !.view = reducer(@, Head(stream.queue))]
    /\ UNCHANGED <<link, stored, puts, published>>

(* A message the owner deleted is taken out at once. *)
removeMessage ==
    /\ viewer.mode = "editor" /\ published.left > 0
    /\ \E m \in Messages :
         /\ \E i \in DOMAIN viewer.view.messages : viewer.view.messages[i] = m
         /\ viewer' = [viewer EXCEPT !.view.messages = Without(@, m)]
    /\ UNCHANGED <<link, stored, puts, published, breaks, stream>>

-----------------------------------------------------------------------------
(* The subscription.                                                        *)

Valid == viewer.mode = "editor" \/ viewer.link = link

(* streamForOverlayToken looks the link up; an owner's page needs no link. *)
streamForOverlayToken ==
    /\ viewer.at = "subscribing" /\ stream.at = "none"
    /\ IF Valid THEN stream' = [NoStream EXCEPT !.at = "checked"] /\ UNCHANGED viewer ELSE end("NOT_FOUND")
    /\ UNCHANGED <<link, stored, puts, published, breaks>>

(* The chat service subscribes, for new events only. *)
ChanSubscribe ==
    /\ stream.at = "checked"
    /\ stream' = [stream EXCEPT !.at = "subscribed", !.missed = puts]
    /\ viewer' = [viewer EXCEPT !.at = "open", !.view.connectionError = "none"]
    /\ UNCHANGED <<link, stored, puts, published, breaks>>

lateSnapshot(queue) == IF stored = "none" THEN queue ELSE Append(queue, state(stored))
Snapshot(queue)     == IF stored = "none" THEN queue ELSE <<state(stored)>> \o queue

(* ... and then reads the states, which go first.  missed: of a state published before *)
(* it subscribed and put after it read, it hears nothing.                              *)
Stream ==
    /\ stream.at = "subscribed"
    /\ stream' = [stream EXCEPT !.at = IF stored = "none" THEN "sending" ELSE "snapshot",
                                !.queue = Snapshot(@), !.missed = @ \cap puts]
    /\ UNCHANGED <<link, stored, puts, published, breaks, viewer>>

(* The connection or the web server fails, or the chat service does, whose stream *)
(* never answers 404.                                                             *)
StreamFails ==
    /\ viewer.at \in {"subscribing", "open"} /\ Breaks
    /\ \E error \in {"none"} \cup { toTRPCError(status) : status \in {0, 400, 500} } : end(error)
    /\ UNCHANGED <<link, stored, puts, published>>

(* Every 5 s; a check that fails leaves the stream alone until the next one. *)
TokenCheck ==
    /\ stream.at # "none" /\ ~Valid
    /\ end("NOT_FOUND")
    /\ UNCHANGED <<link, stored, puts, published, breaks>>
-----------------------------------------------------------------------------

ChatInit ==
    /\ link = 1 /\ stored = "none" /\ puts = {}
    /\ published = [left |-> MaxEvents, state |-> "none"]
    /\ breaks = MaxBreaks
    /\ viewer \in [at: {"subscribing"}, mode: {"editor", "overlay"}, link: {1}, view: {Empty}]
    /\ stream = NoStream

ChatNext ==
    \/ \E event \in Events : Publish(event) \/ Redeliver(event)
    \/ \E s \in States : Put(s) \/ PutFails(s)
    \/ rotateOverlayToken \/ subscribe \/ reset \/ onData \/ removeMessage
    \/ streamForOverlayToken \/ ChanSubscribe \/ Stream \/ StreamFails \/ TokenCheck

ChatSpec == ChatInit /\ [][ChatNext]_chatVars

-----------------------------------------------------------------------------
(* Properties.                                                              *)

(* A page that has received everything shows the last published state, unless the *)
(* chat service failed to store it or it was on its way when the page subscribed,  *)
(* or an older state it left unacknowledged, which came again after the last one:  *)
(* Stream only logs a failed acknowledgement, and the page does not tell an old    *)
(* event from a new one.  It shows no message whose last delivery is its deletion; *)
(* its messages are in the order of their times, none twice and no more than it    *)
(* keeps; and it stops trying only when its link was replaced: "A rotated overlay  *)
(* token never becomes valid again" (end).                                         *)
PageFollowsChat ==
    LET messages == viewer.view.messages IN
    /\ stream.at = "sending" /\ stream.queue = <<>> =>
          /\ stored = published.state /\ stream.missed = {}
                 => viewer.view.status \in {published.state} \cup stream.again
          /\ \A i \in DOMAIN messages : messages[i] \notin stream.gone
    /\ \A i, j \in DOMAIN messages : i < j => messages[i] # messages[j] /\ Time(messages[i]) <= Time(messages[j])
    /\ Len(messages) <= Kept
    /\ viewer.at = "stopped" => viewer.mode = "overlay" /\ viewer.link # link
=============================================================================
