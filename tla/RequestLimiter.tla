--------------------------- MODULE RequestLimiter ---------------------------
(***************************************************************************)
(* The limiter that spaces every REST request of one DonationAlerts client *)
(* (internal/donationalerts/request_limiter.go): callers offer a permit on *)
(* an unbuffered channel of their priority; one goroutine polls the        *)
(* channels in an order that depends on what it granted before, grants a   *)
(* permit and sleeps for the interval.  Between two polls of a scan other  *)
(* callers may arrive or give up.                                          *)
(*                                                                         *)
(* A channel hands over the senders blocked on it first come first served. *)
(* A burst counter is only ever compared with its maximum, so it stays     *)
(* there instead of growing.                                               *)
(***************************************************************************)
EXTENDS Integers, Sequences

CONSTANTS
    maximumCriticalBurst, maximumRecoveryBurst,
    Callers         \* the goroutines that call client.request

ASSUME BurstAssumption ==
    maximumCriticalBurst \in Nat \ {0} /\ maximumRecoveryBurst \in Nat \ {0}

VARIABLES
    queue,          \* the senders blocked on each channel, oldest first
    phase,          \* where each caller is in wait
    cancelled,      \* the callers whose context is done
    granted,        \* the callers whose `granted' channel holds the permit
    pc,             \* where the limiter is in run
    at,             \* the next poll of its scan
    held,           \* the permit it took from a channel
    criticalBurst, recoveryBurst,
    waited          \* history: permits others got while this priority waited

limiter == <<pc, at, held, criticalBurst, recoveryBurst>>
vars    == <<queue, phase, cancelled, granted, limiter, waited>>

History    == {"recovery", "regular"}
Priorities == History \cup {"critical"}
NoPermit   == [caller |-> {}, priority |-> "none"]

Upto(maximum, count) == IF count < maximum THEN count ELSE maximum

Without(q, i) == [j \in 1 .. Len(q) - 1 |-> IF j < i THEN q[j] ELSE q[j + 1]]

Wants(p) == queue[p] # <<>> \/ held.priority = p

-----------------------------------------------------------------------------
(* wait, called by Client.request.                                         *)

Wait(c, priority) ==
    /\ phase[c] = "out"
    /\ phase' = [phase EXCEPT ![c] = "offering"]
    /\ queue' = [queue EXCEPT ![priority] = Append(@, c)]
    /\ UNCHANGED <<cancelled, granted, limiter, waited>>

Cancel(c) ==
    /\ phase[c] # "out"
    /\ cancelled' = cancelled \cup {c}
    /\ UNCHANGED <<queue, phase, granted, limiter, waited>>

\* Both selects of wait: the permit was not taken, or its grant is not waited
\* for any longer.  A permit that was granted meanwhile is lost.
GiveUp(c) ==
    /\ c \in cancelled /\ held.caller # c
    /\ \/ /\ phase[c] = "taken"
          /\ UNCHANGED <<queue, waited>>
       \/ /\ phase[c] = "offering"
          /\ \E p \in Priorities : \E i \in 1 .. Len(queue[p]) :
                /\ queue[p][i] = c
                /\ queue' = [queue EXCEPT ![p] = Without(@, i)]
                /\ waited' = [h \in History |->
                      IF h = p /\ Len(queue[p]) = 1 /\ held.priority # p
                      THEN 0 ELSE waited[h]]
    /\ phase' = [phase EXCEPT ![c] = "out"]
    /\ cancelled' = cancelled \ {c}
    /\ granted' = granted \ {c}
    /\ UNCHANGED limiter

Receive(c) ==
    /\ c \in granted
    /\ phase' = [phase EXCEPT ![c] = "out"]
    /\ cancelled' = cancelled \ {c}
    /\ granted' = granted \ {c}
    /\ UNCHANGED <<queue, limiter, waited>>

-----------------------------------------------------------------------------
(* run and next.                                                           *)

\* Faulty: history never comes first.
CriticalFirst ==
    IF recoveryBurst < maximumRecoveryBurst
    THEN <<"critical", "critical", "recovery", "regular">>
    ELSE <<"critical", "critical", "regular", "recovery", "regular">>

\* The channels in the order next polls them, nextHistory included.
Polls ==
    IF criticalBurst < maximumCriticalBurst
    THEN IF recoveryBurst < maximumRecoveryBurst
         THEN <<"critical", "critical", "recovery", "regular">>
         ELSE <<"critical", "critical", "regular", "recovery", "regular">>
    ELSE IF recoveryBurst < maximumRecoveryBurst
         THEN <<"recovery", "regular", "critical", "recovery", "regular">>
         ELSE <<"regular", "recovery", "regular", "critical",
                "regular", "recovery", "regular">>

Take(p) ==
    /\ queue[p] # <<>>
    /\ held' = [caller |-> Head(queue[p]), priority |-> p]
    /\ queue' = [queue EXCEPT ![p] = Tail(@)]
    /\ phase' = [phase EXCEPT ![Head(queue[p])] = "taken"]
    /\ pc' = "permit"
    /\ UNCHANGED <<cancelled, granted, at, criticalBurst, recoveryBurst, waited>>

Poll ==
    /\ pc = "poll" /\ at <= Len(Polls)
    /\ \/ Take(Polls[at])
       \/ /\ queue[Polls[at]] = <<>>
          /\ at' = at + 1
          /\ UNCHANGED <<queue, phase, cancelled, granted, pc, held,
                         criticalBurst, recoveryBurst, waited>>

\* Faulty: the blocking select forgets the full history.
BlockOnUrgent ==
    /\ pc = "poll" /\ at > Len(Polls)
    /\ \E p \in Priorities \ {"regular"} : Take(p)

\* The blocking select: any channel that is ready.
Block ==
    /\ pc = "poll" /\ at > Len(Polls)
    /\ \E p \in Priorities : Take(p)

\* Faulty: a recovery permit starts a new recovery burst.
ChargeRecoveryAnew(p) ==
    /\ criticalBurst' = IF p = "critical"
                        THEN Upto(maximumCriticalBurst, criticalBurst + 1) ELSE 0
    /\ recoveryBurst' = IF p = "critical" THEN recoveryBurst ELSE 0

Charge(p) ==
    /\ criticalBurst' = IF p = "critical"
                        THEN Upto(maximumCriticalBurst, criticalBurst + 1) ELSE 0
    /\ recoveryBurst' = CASE p = "critical" -> recoveryBurst
                          [] p = "recovery" -> Upto(maximumRecoveryBurst, recoveryBurst + 1)
                          [] p = "regular"  -> 0

Grant ==
    /\ pc = "permit" /\ held.caller \notin cancelled
    /\ granted' = granted \cup {held.caller}
    /\ Charge(held.priority)
    /\ waited' = [h \in History |->
                     IF queue[h] = <<>> \/ held.priority = h THEN 0 ELSE waited[h] + 1]
    /\ held' = NoPermit /\ pc' = "sleep" /\ at' = 1
    /\ UNCHANGED <<queue, phase, cancelled>>

\* The caller is gone: the next scan starts at once and nothing is charged.
Drop ==
    /\ pc = "permit" /\ held.caller \in cancelled
    /\ waited' = [h \in History |-> IF queue[h] = <<>> THEN 0 ELSE waited[h]]
    /\ held' = NoPermit /\ pc' = "poll" /\ at' = 1
    /\ UNCHANGED <<queue, phase, cancelled, granted, criticalBurst, recoveryBurst>>

Sleep ==
    /\ pc = "sleep"
    /\ pc' = "poll"
    /\ UNCHANGED <<queue, phase, cancelled, granted, at, held,
                   criticalBurst, recoveryBurst, waited>>

-----------------------------------------------------------------------------
Init ==
    /\ queue = [p \in Priorities |-> <<>>]
    /\ phase = [c \in Callers |-> "out"]
    /\ cancelled = {} /\ granted = {}
    /\ pc = "poll" /\ at = 1 /\ held = NoPermit
    /\ criticalBurst = 0 /\ recoveryBurst = 0
    /\ waited = [h \in History |-> 0]

Run == Poll \/ Block \/ Grant \/ Drop \/ Sleep

Call(c) ==
    \/ \E p \in Priorities : Wait(c, p)
    \/ Cancel(c)
    \/ GiveUp(c)
    \/ Receive(c)

Next == Run \/ \E c \in Callers : Call(c)

Spec == Init /\ [][Next]_vars

\* The goroutine of newRequestLimiter never ends.  Contexts end by deadlines of
\* seconds and a scan takes microseconds: the limiter does not meet cancelled
\* permits for ever without granting one in between.
FairSpec ==
    /\ Spec
    /\ WF_vars(Run)
    /\ []<><<Drop>>_vars => []<><<Grant>>_vars

-----------------------------------------------------------------------------
(* Properties.                                                             *)

\* The queues, counters and program counter hold what run and wait put there;
\* a burst never exceeds its maximum.
TypeOK ==
    /\ queue \in [Priorities -> Seq(Callers)]
    /\ phase \in [Callers -> {"out", "offering", "taken"}]
    /\ cancelled \subseteq Callers /\ granted \subseteq Callers
    /\ pc \in {"poll", "permit", "sleep"} /\ at \in 1 .. 8
    /\ held \in [caller: Callers, priority: Priorities] \cup {NoPermit}
    /\ criticalBurst \in 0 .. maximumCriticalBurst
    /\ recoveryBurst \in 0 .. maximumRecoveryBurst
    /\ waited \in [History -> Nat]

\* Bounded bypass for recent recovery (requestLimiter's comment, next): while
\* a recovery request waits, at most two critical bursts and one regular
\* request get permits before it, wherever the scan stood when it arrived.
RecoveryBypass == waited["recovery"] <= 2 * maximumCriticalBurst + 1

\* Bounded bypass for the hourly full history (nextHistory): every recovery
\* permit of one recovery burst, each after a critical burst, and one more
\* critical burst may pass a waiting regular request, and no more.
RegularBypass ==
    waited["regular"] <=
        maximumRecoveryBurst * (maximumCriticalBurst + 1) + maximumCriticalBurst

\* However busy the other priorities are, and whoever gives up in between, a
\* request that is offered is taken from its channel.
EveryOfferEnds ==
    \A c \in Callers : []<>(phase[c] # "offering")
=============================================================================
