------------------------ MODULE RequestLimiterProofs ------------------------
(***************************************************************************)
(* The bounded bypass of RequestLimiter, for every number of callers and   *)
(* every burst limit.  The counters are a potential: what a waiting        *)
(* request was passed by never exceeds what they account for, because a    *)
(* permit that they do not charge can only go to a request that was polled *)
(* after an empty channel, and then the other request had just arrived.    *)
(***************************************************************************)
EXTENDS RequestLimiter, TLAPS

C == maximumCriticalBurst
R == maximumRecoveryBurst

\* The permit in the limiter's hand; nobody who does not wait was passed.
Held ==
    /\ pc = "permit" => held \in [caller: Callers, priority: Priorities]
    /\ pc # "permit" => held = NoPermit
    /\ pc = "sleep" => at = 1
    /\ \A h \in History : ~Wants(h) => waited[h] = 0

\* What the scan already found empty had not waited for any permit.
Scanned ==
    pc = "poll" =>
        /\ recoveryBurst < R /\ at > (IF criticalBurst < C THEN 3 ELSE 1)
              => waited["recovery"] = 0
        /\ recoveryBurst = R /\ criticalBurst = C /\ at > 2 => waited["recovery"] = 0
        /\ recoveryBurst = R /\ at > (IF criticalBurst < C THEN 3 ELSE 1)
              => waited["regular"] = 0
        /\ recoveryBurst < R /\ criticalBurst = C /\ at > 2 => waited["regular"] = 0

\* Hence a permit out of turn passes only requests that just arrived.
Taken ==
    pc = "permit" =>
        /\ held.priority = "critical" /\ criticalBurst = C
              => waited["recovery"] = 0 /\ waited["regular"] = 0
        /\ held.priority = "regular" /\ recoveryBurst < R => waited["recovery"] = 0
        /\ held.priority = "recovery" /\ recoveryBurst = R => waited["regular"] = 0

\* The bursts account for every permit that passed a waiting request.
Charged ==
    /\ \/ waited["recovery"] <= criticalBurst
       \/ recoveryBurst < R /\ waited["recovery"] <= C + 1 + criticalBurst
    /\ waited["regular"] <= recoveryBurst * (C + 1) + criticalBurst

IInv == TypeOK /\ Held /\ Scanned /\ Taken /\ Charged

-----------------------------------------------------------------------------
\* The arithmetic of the potential.
LEMMA Product ==
    ASSUME NEW m \in Nat, NEW n \in Nat
    PROVE  m * (n + 1) \in Nat /\ (m >= 1 => m * (n + 1) >= 1)
<1>1. m * (n + 1) = m * n + m
  OBVIOUS
<1>2. m * n \in Int /\ m * n >= 0
  OBVIOUS
<1>3. QED
  BY <1>1, <1>2

\* What Without returns is a sequence, one shorter than its argument.
LEMMA WithoutSeq ==
    ASSUME NEW S, NEW q \in Seq(S), NEW i \in 1 .. Len(q)
    PROVE  Without(q, i) \in Seq(S) /\ Len(Without(q, i)) = Len(q) - 1
<1>1. \A j \in 1 .. Len(q) - 1 : (IF j < i THEN q[j] ELSE q[j + 1]) \in S
  OBVIOUS
<1>2. QED
  BY <1>1 DEF Without

\* Only the last sender leaves an empty channel behind.
LEMMA LastOne ==
    ASSUME NEW S, NEW q \in Seq(S), NEW i \in 1 .. Len(q), Without(q, i) = <<>>
    PROVE  Len(q) = 1
<1>1. Len(Without(q, i)) = 0
  OBVIOUS
<1>2. Len(Without(q, i)) = Len(q) - 1
  BY WithoutSeq
<1>3. Len(q) \in Nat
  OBVIOUS
<1>4. \A m, n \in Int : m = 0 /\ m = n - 1 => n = 1
  OBVIOUS
<1>5. QED
  BY <1>1, <1>2, <1>3, <1>4

\* What the order of a scan is, as its steps need it (next, nextHistory): a
\* channel that is polled out of turn was preceded by the one it must not pass.
LEMMA PollOrder ==
    ASSUME TypeOK
    PROVE  /\ Len(Polls) >= 4 /\ Len(Polls) <= 7
           /\ criticalBurst = C \/ recoveryBurst = R => Len(Polls) >= 5
           /\ at <= Len(Polls) =>
                /\ Polls[at] \in Priorities
                /\ Polls[at] = "critical" /\ criticalBurst = C => at > 2
                /\ Polls[at] = "regular" /\ recoveryBurst < R
                      => at > (IF criticalBurst < C THEN 3 ELSE 1)
                /\ Polls[at] = "recovery" /\ recoveryBurst = R
                      => at > (IF criticalBurst < C THEN 3 ELSE 1)
           /\ Polls[IF criticalBurst < C THEN 3 ELSE 1] =
                IF recoveryBurst < R THEN "recovery" ELSE "regular"
           /\ criticalBurst = C => Polls[2] =
                IF recoveryBurst < R THEN "regular" ELSE "recovery"
<1> USE BurstAssumption DEF TypeOK, C, R, History, Priorities
<1>1. CASE criticalBurst < C /\ recoveryBurst < R
  BY <1>1 DEF Polls
<1>2. CASE criticalBurst < C /\ recoveryBurst = R
  BY <1>2 DEF Polls
<1>3. CASE criticalBurst = C /\ recoveryBurst < R
  BY <1>3 DEF Polls
<1>4. CASE criticalBurst = C /\ recoveryBurst = R
  BY <1>4 DEF Polls
<1>5. QED
  BY <1>1, <1>2, <1>3, <1>4

\* The initial state is typed and nothing was passed.
LEMMA InitIInv == Init => IInv
BY BurstAssumption DEF Init, IInv, TypeOK, Held, Scanned, Taken, Charged, NoPermit,
   History, Priorities, Wants, C, R

\* Every step keeps the types (request_limiter.go as a whole).
LEMMA Typing == TypeOK /\ Held /\ [Next]_vars => TypeOK'
<1> SUFFICES ASSUME TypeOK, Held, [Next]_vars PROVE TypeOK'
  OBVIOUS
<1> USE BurstAssumption DEF TypeOK, History, Priorities
<1>1. ASSUME NEW c \in Callers, NEW p \in Priorities, Wait(c, p) PROVE TypeOK'
  BY <1>1 DEF Wait, limiter
<1>2. ASSUME NEW c \in Callers, Cancel(c) PROVE TypeOK'
  BY <1>2 DEF Cancel, limiter
<1>3. ASSUME NEW c \in Callers, GiveUp(c) PROVE TypeOK'
  <2>1. queue' \in [Priorities -> Seq(Callers)]
    <3>1. CASE UNCHANGED <<queue, waited>>
      BY <3>1
    <3>2. ASSUME NEW p \in Priorities, NEW i \in 1 .. Len(queue[p]),
                 queue' = [queue EXCEPT ![p] = Without(@, i)]
          PROVE  queue' \in [Priorities -> Seq(Callers)]
      BY <3>2, WithoutSeq
    <3>3. QED
      BY <1>3, <3>1, <3>2 DEF GiveUp
  <2>2. waited' \in [History -> Nat]
    BY <1>3 DEF GiveUp
  <2>3. QED
    BY <1>3, <2>1, <2>2 DEF GiveUp, limiter
<1>4. ASSUME NEW c \in Callers, Receive(c) PROVE TypeOK'
  BY <1>4 DEF Receive, limiter
<1>5. ASSUME NEW p \in Priorities, Take(p) PROVE TypeOK'
  <2>1. Head(queue[p]) \in Callers /\ Tail(queue[p]) \in Seq(Callers)
    BY <1>5 DEF Take
  <2>2. QED
    BY <1>5, <2>1 DEF Take
<1>6. CASE Poll
  <2>1. at <= Len(Polls) /\ Len(Polls) >= 4 /\ Len(Polls) <= 7 /\ Polls[at] \in Priorities
    BY <1>6, PollOrder DEF Poll
  <2>2. CASE Take(Polls[at])
    BY <1>5, <2>1, <2>2
  <2>3. CASE at' = at + 1 /\ UNCHANGED <<queue, phase, cancelled, granted, pc, held,
                                         criticalBurst, recoveryBurst, waited>>
    <3>1. at \in 1 .. 7
      BY <2>1
    <3>2. QED
      BY <2>3, <3>1
  <2>4. QED
    BY <1>6, <2>2, <2>3 DEF Poll
<1>7. CASE Block
  BY <1>5, <1>7 DEF Block
<1>8. CASE Grant
  BY <1>8, SMTT(30) DEF Grant, Held, Charge, Upto, NoPermit
<1>9. CASE Drop
  BY <1>9, SMTT(30) DEF Drop, NoPermit
<1>10. CASE Sleep
  BY <1>10 DEF Sleep
<1>11. CASE UNCHANGED vars
  BY <1>11 DEF vars, limiter
<1>12. QED
  BY <1>1, <1>2, <1>3, <1>4, <1>6, <1>7, <1>8, <1>9, <1>10, <1>11 DEF Next, Run, Call

-----------------------------------------------------------------------------
\* What a step of a caller does to the history: nobody is passed.
LEMMA CallersKeep ==
    ASSUME IInv, NEW c \in Callers, Call(c)
    PROVE  Held' /\ Scanned' /\ Taken' /\ Charged'
<1> USE BurstAssumption DEF IInv, TypeOK, History, Priorities
<1>1. /\ UNCHANGED limiter
      /\ \A h \in History : waited'[h] = waited[h] \/ waited'[h] = 0
  BY DEF Call, Wait, Cancel, GiveUp, Receive
<1>2. ASSUME NEW h \in History, ~Wants(h)' PROVE waited'[h] = 0
  <2>1. CASE UNCHANGED <<queue, waited>>
    BY <1>1, <1>2, <2>1 DEF Held, Wants, limiter
  <2>2. ASSUME NEW p \in Priorities, Wait(c, p) PROVE waited'[h] = 0
    <3>1. queue[h] = <<>>
      BY <1>2, <2>2 DEF Wait, Wants
    <3>2. QED
      BY <1>1, <1>2, <2>2, <3>1 DEF Held, Wants, Wait, limiter
  <2>3. ASSUME NEW p \in Priorities, NEW i \in 1 .. Len(queue[p]),
               queue' = [queue EXCEPT ![p] = Without(@, i)],
               waited' = [g \in History |->
                     IF g = p /\ Len(queue[p]) = 1 /\ held.priority # p
                     THEN 0 ELSE waited[g]]
        PROVE  waited'[h] = 0
    <3>1. CASE h = p
      <4>1. queue'[h] = Without(queue[p], i)
        BY <2>3, <3>1
      <4>2. held.priority # p
        BY <1>1, <1>2, <3>1 DEF Wants, limiter
      <4>3. QED
        <5>1. queue[p] \in Seq(Callers) /\ Len(queue[p]) = 1
          BY <4>1, <1>2, LastOne DEF Wants
        <5>2. QED
          BY <2>3, <3>1, <4>2, <5>1
    <3>2. CASE h # p
      BY <1>1, <1>2, <2>3, <3>2 DEF Held, Wants, limiter
    <3>3. QED
      BY <3>1, <3>2
  <2>4. QED
    BY <2>1, <2>2, <2>3 DEF Call, Cancel, GiveUp, Receive
<1>3. QED
  BY <1>1, <1>2 DEF Held, Scanned, Taken, Charged, limiter, C, R

\* Taking a permit keeps what is claimed of it, if the order of the scan does.
LEMMA TakeKeeps ==
    ASSUME IInv, NEW p \in Priorities, Take(p), pc = "poll",
           p = "critical" /\ criticalBurst = C => at > 2,
           p = "regular" /\ recoveryBurst < R
               => at > (IF criticalBurst < C THEN 3 ELSE 1),
           p = "recovery" /\ recoveryBurst = R
               => at > (IF criticalBurst < C THEN 3 ELSE 1)
    PROVE  Held' /\ Scanned' /\ Taken' /\ Charged'
<1> USE BurstAssumption DEF IInv, TypeOK, History, Priorities
<1>1. /\ pc' = "permit" /\ held' = [caller |-> Head(queue[p]), priority |-> p]
      /\ UNCHANGED <<criticalBurst, recoveryBurst, waited>>
  BY DEF Take
<1>2. Held'
  <2>1. Head(queue[p]) \in Callers
    BY DEF Take
  <2>2. ASSUME NEW h \in History, ~Wants(h)' PROVE waited'[h] = 0
    <3>1. h # p
      BY <1>1, <2>2 DEF Wants
    <3>2. queue'[h] = queue[h]
      BY <3>1 DEF Take
    <3>3. ~Wants(h)
      BY <2>2, <3>2 DEF Wants, Held, NoPermit
    <3>4. QED
      BY <1>1, <3>3 DEF Held
  <2>3. QED
    BY <1>1, <2>1, <2>2 DEF Held
<1>3. Scanned'
  BY <1>1 DEF Scanned
<1>4. Taken'
  BY <1>1 DEF Scanned, Taken, C, R
<1>5. Charged'
  BY <1>1 DEF Charged
<1>6. QED
  BY <1>2, <1>3, <1>4, <1>5

\* A poll that finds its channel empty knows that nobody waited there.
LEMMA PollKeeps == IInv /\ Poll => Held' /\ Scanned' /\ Taken' /\ Charged'
<1> SUFFICES ASSUME IInv, Poll PROVE Held' /\ Scanned' /\ Taken' /\ Charged'
  OBVIOUS
<1>1. at <= Len(Polls) /\ pc = "poll"
  BY DEF Poll
<1>2. CASE Take(Polls[at])
  BY <1>1, <1>2, PollOrder, TakeKeeps DEF IInv
<1>3. CASE queue[Polls[at]] = <<>> /\ at' = at + 1
           /\ UNCHANGED <<queue, phase, cancelled, granted, pc, held,
                          criticalBurst, recoveryBurst, waited>>
  <2>1. Polls[at] \in History => waited[Polls[at]] = 0
    BY <1>1, <1>3 DEF IInv, Held, Wants, NoPermit, History
  <2>2. Scanned'
    <3>1. UNCHANGED <<pc, criticalBurst, recoveryBurst, waited>> /\ at' = at + 1
      BY <1>3
    <3>2. at = (IF criticalBurst < C THEN 3 ELSE 1) =>
             IF recoveryBurst < R THEN waited["recovery"] = 0
                                  ELSE waited["regular"] = 0
      BY <2>1, PollOrder DEF IInv, History
    <3>3. at = 2 /\ criticalBurst = C =>
             IF recoveryBurst < R THEN waited["regular"] = 0
                                  ELSE waited["recovery"] = 0
      BY <2>1, PollOrder DEF IInv, History
    <3>4. QED
      BY <3>1, <3>2, <3>3, BurstAssumption DEF IInv, TypeOK, Scanned, C, R
  <2>3. QED
    BY <1>1, <1>3, <2>2 DEF IInv, Held, Taken, Charged, Wants
<1>4. QED
  BY <1>2, <1>3 DEF Poll

\* The blocking select comes after the whole scan.
LEMMA BlockKeeps == IInv /\ Block => Held' /\ Scanned' /\ Taken' /\ Charged'
<1> SUFFICES ASSUME IInv, Block PROVE Held' /\ Scanned' /\ Taken' /\ Charged'
  OBVIOUS
<1>1. at > 3 /\ pc = "poll"
  BY PollOrder DEF Block, IInv, TypeOK
<1>2. PICK p \in Priorities : Take(p)
  BY DEF Block
<1>3. QED
  BY <1>1, <1>2, TakeKeeps DEF IInv, TypeOK

\* A granted permit is charged at least what it passed (run, the switch).
LEMMA GrantKeeps == IInv /\ Grant => Held' /\ Scanned' /\ Taken' /\ Charged'
<1> SUFFICES ASSUME IInv, Grant PROVE Held' /\ Scanned' /\ Taken' /\ Charged'
  OBVIOUS
<1> USE BurstAssumption DEF IInv, TypeOK, History, Priorities, C, R
<1>1. held.priority \in Priorities
  BY DEF Held, Grant
<1>2. Held' /\ Scanned' /\ Taken'
  BY DEF Grant, Held, Scanned, Taken, Wants, NoPermit
<1>3. \/ waited'["recovery"] <= criticalBurst'
      \/ recoveryBurst' < R /\ waited'["recovery"] <= C + 1 + criticalBurst'
  <2>1. CASE queue["recovery"] = <<>> \/ held.priority = "recovery"
    BY <1>1, <2>1 DEF Grant, Charge, Upto
  <2>2. CASE queue["recovery"] # <<>> /\ held.priority = "critical"
    <3>1. /\ waited'["recovery"] = waited["recovery"] + 1 /\ recoveryBurst' = recoveryBurst
          /\ criticalBurst' = Upto(C, criticalBurst + 1)
          /\ waited["recovery"] \in Nat /\ criticalBurst \in Nat /\ criticalBurst <= C
      BY <2>2 DEF Grant, Charge
    <3>2. CASE criticalBurst < C
      <4>1. criticalBurst' = criticalBurst + 1
        BY <3>1, <3>2 DEF Upto
      <4>2. \/ waited["recovery"] <= criticalBurst
            \/ recoveryBurst < R /\ waited["recovery"] <= C + 1 + criticalBurst
        BY DEF Charged
      <4> QED
        BY <3>1, <4>1, <4>2
    <3>3. CASE criticalBurst = C
      <4>1. waited["recovery"] = 0
        BY <2>2, <3>3 DEF Grant, Taken
      <4>2. criticalBurst' = C /\ C >= 1
        BY <3>1, <3>3 DEF Upto
      <4> QED
        BY <3>1, <4>1, <4>2
    <3> QED
      BY <3>1, <3>2, <3>3
  <2>3. CASE queue["recovery"] # <<>> /\ held.priority = "regular"
    BY <2>3, SMTT(30) DEF Grant, Charge, Upto, Charged, Taken
  <2>4. QED
    BY <1>1, <2>1, <2>2, <2>3
<1>4. waited'["regular"] <= recoveryBurst' * (C + 1) + criticalBurst'
  <2>1. CASE queue["regular"] = <<>> \/ held.priority = "regular"
    <3>1. waited'["regular"] = 0
      BY <2>1 DEF Grant
    <3>2. recoveryBurst' \in Nat /\ criticalBurst' \in Nat
      BY <1>1 DEF Grant, Charge, Upto
    <3>3. recoveryBurst' * (C + 1) \in Nat
      BY <3>2, Product
    <3>4. \A i, j \in Nat : 0 <= i + j
      OBVIOUS
    <3>5. QED
      BY <3>1, <3>2, <3>3, <3>4
  <2>2. CASE queue["regular"] # <<>> /\ held.priority = "critical"
    <3>1. waited'["regular"] = waited["regular"] + 1 /\ recoveryBurst' = recoveryBurst
      BY <2>2 DEF Grant, Charge
    <3>2. recoveryBurst * (C + 1) \in Nat
      OBVIOUS
    <3>3. CASE criticalBurst < C
      BY <2>2, <3>1, <3>2, <3>3, SMTT(30) DEF Grant, Charge, Upto, Charged
    <3>4. CASE criticalBurst = C
      BY <2>2, <3>1, <3>2, <3>4, SMTT(30) DEF Grant, Charge, Upto, Taken
    <3>5. QED
      BY <3>3, <3>4
  <2>3. CASE queue["regular"] # <<>> /\ held.priority = "recovery"
    <3>1. waited'["regular"] = waited["regular"] + 1 /\ criticalBurst' = 0
      BY <2>3 DEF Grant, Charge
    <3>2. CASE recoveryBurst < R
      <4>1. recoveryBurst' = recoveryBurst + 1
        BY <2>3, <3>2 DEF Grant, Charge, Upto
      <4>2. (recoveryBurst + 1) * (C + 1) = recoveryBurst * (C + 1) + C + 1
        OBVIOUS
      <4>3. recoveryBurst * (C + 1) \in Nat
        OBVIOUS
      <4>4. QED
        BY <3>1, <4>1, <4>2, <4>3 DEF Charged
    <3>3. CASE recoveryBurst = R
      <4>1. waited["regular"] = 0 /\ recoveryBurst' = R
        BY <2>3, <3>3 DEF Grant, Charge, Upto, Taken
      <4>2. R \in Nat /\ C \in Nat /\ R >= 1
        OBVIOUS
      <4>3. R * (C + 1) \in Nat /\ R * (C + 1) >= 1
        BY <4>2, Product
      <4>4. QED
        BY <3>1, <4>1, <4>3
    <3>4. QED
      BY <3>2, <3>3
  <2>4. QED
    BY <1>1, <2>1, <2>2, <2>3
<1>5. QED
  BY <1>2, <1>3, <1>4 DEF Charged

\* A dropped permit charges nothing and lets nobody pass; a slept interval
\* starts a new scan.
LEMMA DropKeeps == IInv /\ (Drop \/ Sleep) => Held' /\ Scanned' /\ Taken' /\ Charged'
<1> SUFFICES ASSUME IInv, Drop \/ Sleep PROVE Held' /\ Scanned' /\ Taken' /\ Charged'
  OBVIOUS
<1> USE BurstAssumption DEF IInv, TypeOK, History, Priorities, C, R
<1>1. CASE Drop
  <2>1. Held' /\ Scanned' /\ Taken'
    BY <1>1 DEF Drop, Held, Scanned, Taken, Wants, NoPermit
  <2>2. Charged'
    <3>1. recoveryBurst * (C + 1) \in Nat
      BY Product
    <3>2. UNCHANGED <<criticalBurst, recoveryBurst>>
          /\ \A h \in History : waited'[h] = waited[h] \/ waited'[h] = 0
      BY <1>1 DEF Drop
    <3>3. QED
      BY <3>1, <3>2 DEF Charged
  <2>3. QED
    BY <2>1, <2>2
<1>2. CASE Sleep
  BY <1>2 DEF Sleep, Held, Scanned, Taken, Charged, Wants, NoPermit
<1>3. QED
  BY <1>1, <1>2

-----------------------------------------------------------------------------
\* The types, what the scan knows and the potential hold in every state.
THEOREM Invariance == Spec => []IInv
<1>1. IInv /\ [Next]_vars => IInv'
  <2> SUFFICES ASSUME IInv, [Next]_vars PROVE IInv'
    OBVIOUS
  <2>1. TypeOK'
    BY Typing DEF IInv
  <2>2. Held' /\ Scanned' /\ Taken' /\ Charged'
    <3>1. CASE Run
      BY <3>1, PollKeeps, BlockKeeps, GrantKeeps, DropKeeps DEF Run
    <3>2. ASSUME NEW c \in Callers, Call(c)
          PROVE  Held' /\ Scanned' /\ Taken' /\ Charged'
      BY <3>2, CallersKeep
    <3>3. CASE UNCHANGED vars
      BY <3>3 DEF IInv, Held, Scanned, Taken, Charged, Wants, vars, limiter
    <3>4. QED
      BY <3>1, <3>2, <3>3 DEF Next
  <2>3. QED
    BY <2>1, <2>2 DEF IInv
<1>2. QED
  BY InitIInv, <1>1, PTL DEF Spec

\* Recent recovery is passed by at most two critical bursts and one regular
\* request, whatever the limits and however many callers there are.
THEOREM RecoveryBounded == Spec => []RecoveryBypass
<1>1. IInv => RecoveryBypass
  BY BurstAssumption DEF IInv, TypeOK, Charged, RecoveryBypass, History, C, R
<1>2. QED
  BY Invariance, <1>1, PTL

\* Regular history is passed by at most one recovery burst, each permit of it
\* after a critical burst, and a last critical burst.
THEOREM RegularBounded == Spec => []RegularBypass
<1>1. IInv => RegularBypass
  <2> SUFFICES ASSUME IInv PROVE RegularBypass
    OBVIOUS
  <2>1. PICK left \in Nat : R = recoveryBurst + left
    <3>1. R - recoveryBurst \in Nat /\ R = recoveryBurst + (R - recoveryBurst)
      BY BurstAssumption DEF IInv, TypeOK, R
    <3>2. QED
      BY <3>1
  <2>2. left * (C + 1) \in Nat
    BY Product, BurstAssumption DEF C
  <2>3. R * (C + 1) = recoveryBurst * (C + 1) + left * (C + 1)
    BY <2>1, BurstAssumption DEF IInv, TypeOK, C
  <2>4. recoveryBurst * (C + 1) \in Nat
    BY Product, BurstAssumption DEF IInv, TypeOK, C
  <2>5. criticalBurst \in Nat /\ criticalBurst <= C /\ waited["regular"] \in Nat
    BY BurstAssumption DEF IInv, TypeOK, C, History
  <2>6. waited["regular"] <= R * (C + 1) + C
    BY <2>2, <2>3, <2>4, <2>5, BurstAssumption DEF IInv, Charged, C
  <2>7. QED
    BY <2>6 DEF RegularBypass, C, R
<1>2. QED
  BY Invariance, <1>1, PTL
=============================================================================
