-------------------------- MODULE AlertQueueProofs --------------------------
(***************************************************************************)
(* Theorems about AlertQueue, for every value of its constants.            *)
(*                                                                         *)
(* Every step is one of three kinds: it is Quiet (rows are closed, given   *)
(* back, prepared, started or deleted, none is assigned or accepted), it   *)
(* Accepts the next row, or it Assigns one row.  The first half of the     *)
(* module shows what the row operators do and that every action is of one  *)
(* kind; the second half draws the invariant, the action properties and    *)
(* the refinement of AlertDelivery from the kinds alone.                   *)
(***************************************************************************)
EXTENDS AlertQueue, FiniteSetTheorems, TLAPS

Stays(old, new) ==
    /\ new.status = old.status /\ new.started = old.started
    /\ new.holder = old.holder

Ends(old, new) ==
    /\ old.status \in Open /\ new.status \in Terminal
    /\ new.started = old.started
    /\ old.started => new.holder = old.holder
    /\ new.status \in {"completed", "interrupted"} => new.started

GivenBack(old, new) ==
    /\ old.status = "playing" /\ ~old.started
    /\ new.status = "pending" /\ ~new.started

Prepared(old, new) ==
    /\ old.status = "preparing" /\ new.status = "pending"
    /\ new.started = old.started /\ new.holder = old.holder

Starts(old, new) ==
    /\ old.status = "playing" /\ new.status = "playing"
    /\ new.started /\ new.holder = old.holder

Deleted(old, new) ==
    old.status \in Terminal /\ new.status = "deleted" /\ ~new.started

Settled(old, new) ==
    \/ Stays(old, new)     \/ Ends(old, new)    \/ GivenBack(old, new)
    \/ Prepared(old, new)  \/ Starts(old, new)  \/ Deleted(old, new)

NonePlays(rows) == \A r \in Playbacks : rows[r].status # "playing"

Quiet ==
    /\ \A r \in Playbacks : Settled(playback[r], playback'[r])
    /\ last' = last
    /\ \/ player'.id = player.id /\ player'.generation = player.generation
       \/ NonePlays(playback')

Accepts ==
    /\ last < MaxPlaybacks /\ last' = last + 1
    /\ playback'[last + 1].status \in Waiting /\ ~playback'[last + 1].started
    /\ \A r \in Playbacks \ {last + 1} : Settled(playback[r], playback'[r])
    /\ player' = player
    /\ Cardinality({r \in Playbacks : playback'[r].status \in Waiting})
          <= MaxPendingAlerts

Assigns ==
    \E r \in Playbacks :
        /\ playback[r].status = "pending" /\ playback'[r].status = "playing"
        /\ playback'[r].started = playback[r].started
        /\ playback'[r].holder = Holder /\ player.id # 0
        /\ \A s \in Playbacks \ {r} : /\ Settled(playback[s], playback'[s])
                                      /\ playback'[s].status # "playing"
        /\ \A s \in Playbacks : s < r => playback'[s].status \notin Waiting
        /\ last' = last /\ player' = player

\* The strengthening: rows are numbered without gaps, a row that waits was
\* never started, an acknowledged outcome was, and no player is not leased.
IInv ==
    /\ TypeOK /\ IsFiniteSet(issued)
    /\ player.id = 0 => player.lease = Past
    /\ \A r \in Playbacks :
          /\ playback[r].status = "absent" <=> r > last
          /\ playback[r].status \in Waiting \cup {"absent", "deleted"}
                => ~playback[r].started
          /\ playback[r].status \in {"completed", "interrupted"}
                => playback[r].started
    /\ OnePlaying /\ PlayingHasPlayer /\ PlayingIsOldest /\ BacklogBound

-----------------------------------------------------------------------------
(* What the row operators do.                                              *)

LEMMA Bounds == /\ MaxLag \in Nat /\ Past \in Int /\ Clocks \subseteq Int
                /\ \A now \in Clocks : now >= Past
                /\ MaxAlertAge \in Nat /\ PlayerLease \in Nat
                /\ PreparationLease \in Nat /\ PreparationTries \in Nat \ {0}
                /\ PlaybackAcknowledgementTimeout \in Nat
                /\ MaxPendingAlerts \in Nat \ {0} /\ MaxPlaybacks \in Nat
                /\ MaxTokens \in Nat
  BY DurationAssumption, LimitAssumption DEF Past, Clocks

LEMMA FiniteRows == \A rows \in SUBSET Playbacks : IsFiniteSet(rows)
<1>1. IsFiniteSet(Playbacks)
  BY Bounds, FS_Interval DEF Playbacks
<1> QED
  BY <1>1, FS_Subset

LEMMA BlankRow == Blank \in Row /\ ~Blank.started /\ Blank.status = "absent"
  BY Bounds DEF Blank, Row, NoHolder

LEMMA CloseRow ==
  ASSUME NEW row \in Row, NEW status \in Terminal
  PROVE  /\ Close(row, status) \in Row
         /\ Close(row, status).status = status
         /\ Close(row, status).started = row.started
         /\ Close(row, status).holder = row.holder
  BY Bounds DEF Close, Row, Terminal

LEMMA ExpireRow ==
  ASSUME NEW row \in Row
  PROVE  /\ Expire(row) \in Row
         /\ Expire(row).status = "expired"
         /\ Expire(row).started = row.started
<1>1. Close(row, "expired") \in Row
  BY CloseRow DEF Terminal
<1>2. /\ Close(row, "expired").status = "expired"
      /\ Close(row, "expired").started = row.started
  BY CloseRow DEF Terminal
<1> QED
  BY <1>1, <1>2 DEF Expire, Row, NoHolder

LEMMA RequeueRow ==
  ASSUME NEW row \in Row
  PROVE  /\ Requeue(row) \in Row
         /\ Requeue(row).status = "pending"
         /\ Requeue(row).started = row.started
  BY DEF Requeue, Row, NoHolder, Open, Waiting

LEMMA RecoverRow ==
  ASSUME NEW row \in Row, NEW now \in Int, row.status = "playing"
  PROVE  /\ Recover(row, now) \in Row
         /\ Ends(row, Recover(row, now)) \/ GivenBack(row, Recover(row, now))
         /\ Recover(row, now).status # "playing"
<1>1. CASE row.started
  BY <1>1, CloseRow DEF Recover, Ends, Terminal, Open
<1>2. CASE ~row.started /\ row.expires > now
  BY <1>2, RequeueRow DEF Recover, GivenBack
<1>3. CASE ~row.started /\ ~(row.expires > now)
  BY <1>3, ExpireRow DEF Recover, Ends, Terminal, Open
<1> QED
  BY <1>1, <1>2, <1>3 DEF Row

-----------------------------------------------------------------------------
(* What the statements do to all rows.                                     *)

LEMMA StaysSettled ==
  ASSUME NEW row PROVE Settled(row, row)
  BY DEF Settled, Stays

LEMMA RecoverAssigned ==
  ASSUME playback \in [Playbacks -> Row], NEW holder, NEW now \in Int
  PROVE  LET rows == RecoverAssignedPlayback(holder, now)
         IN /\ rows \in [Playbacks -> Row]
            /\ \A r \in Playbacks :
                  /\ Settled(playback[r], rows[r])
                  /\ rows[r].status = "playing" =>
                        /\ rows[r] = playback[r] /\ playback[r].holder # holder
<1> DEFINE rows == RecoverAssignedPlayback(holder, now)
<1>1. ASSUME NEW r \in Playbacks
      PROVE  /\ rows[r] \in Row
             /\ Settled(playback[r], rows[r])
             /\ rows[r].status = "playing" =>
                   rows[r] = playback[r] /\ playback[r].holder # holder
  <2>1. CASE playback[r].status = "playing" /\ playback[r].holder = holder
    <3>1. rows[r] = Recover(playback[r], now)
      BY <2>1 DEF RecoverAssignedPlayback
    <3> QED
      BY <2>1, <3>1, RecoverRow DEF Settled
  <2>2. CASE ~(playback[r].status = "playing" /\ playback[r].holder = holder)
    <3>1. rows[r] = playback[r]
      BY <2>2 DEF RecoverAssignedPlayback
    <3> QED
      BY <2>2, <3>1, StaysSettled
  <2> QED
    BY <2>1, <2>2
<1>2. rows = [r \in Playbacks |-> rows[r]]
  BY DEF RecoverAssignedPlayback
<1> QED
  BY <1>1, <1>2

LEMMA RecoverUser ==
  ASSUME playback \in [Playbacks -> Row], NEW now \in Int
  PROVE  LET rows == RecoverUserPlayback(now)
         IN /\ rows \in [Playbacks -> Row]
            /\ \A r \in Playbacks : Settled(playback[r], rows[r])
            /\ NonePlays(rows)
<1> DEFINE rows == RecoverUserPlayback(now)
<1>1. ASSUME NEW r \in Playbacks
      PROVE  /\ rows[r] \in Row
             /\ Settled(playback[r], rows[r])
             /\ rows[r].status # "playing"
  <2>1. CASE playback[r].status = "playing"
    <3>1. rows[r] = Recover(playback[r], now)
      BY <2>1 DEF RecoverUserPlayback
    <3> QED
      BY <2>1, <3>1, RecoverRow DEF Settled
  <2>2. CASE playback[r].status # "playing"
    <3>1. rows[r] = playback[r]
      BY <2>2 DEF RecoverUserPlayback
    <3> QED
      BY <2>2, <3>1, StaysSettled
  <2> QED
    BY <2>1, <2>2
<1>2. rows = [r \in Playbacks |-> rows[r]]
  BY DEF RecoverUserPlayback
<1> QED
  BY <1>1, <1>2 DEF NonePlays

\* The statements that only close rows.
OnlyEnds(before, after) ==
    \A r \in Playbacks : after[r] = before[r] \/ Ends(before[r], after[r])

LEMMA RecoverTimedOut ==
  ASSUME playback \in [Playbacks -> Row], NEW now \in Int
  PROVE  /\ RecoverTimedOutPlayback(now) \in [Playbacks -> Row]
         /\ OnlyEnds(playback, RecoverTimedOutPlayback(now))
<1> DEFINE rows == RecoverTimedOutPlayback(now)
<1>1. ASSUME NEW r \in Playbacks
      PROVE  /\ rows[r] \in Row
             /\ rows[r] = playback[r] \/ Ends(playback[r], rows[r])
  <2>1. CASE TimedOut(playback[r], now) /\ playback[r].started
    <3>1. rows[r] = Close(playback[r], "interrupted")
      BY <2>1 DEF RecoverTimedOutPlayback
    <3>2. /\ rows[r] \in Row /\ rows[r].status = "interrupted"
          /\ rows[r].started = playback[r].started
          /\ rows[r].holder = playback[r].holder
      BY <3>1, CloseRow DEF Terminal
    <3> QED
      BY <2>1, <3>2 DEF Ends, TimedOut, Terminal, Open
  <2>2. CASE TimedOut(playback[r], now) /\ ~playback[r].started
    <3>1. rows[r] = Expire(playback[r])
      BY <2>2 DEF RecoverTimedOutPlayback
    <3> QED
      BY <2>2, <3>1, ExpireRow DEF Ends, TimedOut, Terminal, Open
  <2>3. CASE ~TimedOut(playback[r], now)
    BY <2>3 DEF RecoverTimedOutPlayback
  <2> QED
    BY <2>1, <2>2, <2>3
<1>2. rows = [r \in Playbacks |-> rows[r]]
  BY DEF RecoverTimedOutPlayback
<1> QED
  BY <1>1, <1>2 DEF OnlyEnds

LEMMA ExpireWaitingRows ==
  ASSUME NEW before \in [Playbacks -> Row], NEW now \in Int,
         \A r \in Playbacks : before[r].status \in Waiting => ~before[r].started
  PROVE  /\ ExpireWaiting(before, now) \in [Playbacks -> Row]
         /\ OnlyEnds(before, ExpireWaiting(before, now))
         /\ \A r \in Playbacks : ExpireWaiting(before, now)[r].status \in Waiting
                => before[r].expires > now
<1> DEFINE rows == ExpireWaiting(before, now)
<1>1. ASSUME NEW r \in Playbacks
      PROVE  /\ rows[r] \in Row
             /\ rows[r] = before[r] \/ Ends(before[r], rows[r])
             /\ rows[r].status \in Waiting => before[r].expires > now
  <2>1. CASE before[r].status \in Waiting /\ before[r].expires <= now
    <3>1. rows[r] = Expire(before[r])
      BY <2>1 DEF ExpireWaiting
    <3> QED
      BY <2>1, <3>1, ExpireRow DEF Ends, Terminal, Open, Waiting
  <2>2. CASE ~(before[r].status \in Waiting /\ before[r].expires <= now)
    <3>1. rows[r] = before[r]
      BY <2>2 DEF ExpireWaiting
    <3>2. before[r].expires \in Int
      BY DEF Row
    <3> QED
      BY <2>2, <3>1, <3>2
  <2> QED
    BY <2>1, <2>2
<1>2. rows = [r \in Playbacks |-> rows[r]]
  BY DEF ExpireWaiting
<1> QED
  BY <1>1, <1>2 DEF OnlyEnds

\* The rows with fewer than `limit' newer ones among their own are at most
\* `limit': each is told by the number of newer rows it has.
LEMMA FewNewer ==
  ASSUME NEW rows, IsFiniteSet(rows), rows \subseteq Int, NEW limit \in Nat
  PROVE  LET kept == {r \in rows : Cardinality({s \in rows : s > r}) < limit}
         IN IsFiniteSet(kept) /\ Cardinality(kept) <= limit
<1> DEFINE newer(r) == {s \in rows : s > r}
           kept == {r \in rows : Cardinality(newer(r)) < limit}
           rank == [r \in kept |-> Cardinality(newer(r))]
<1>0. \A r \in rows : r \in Int
  OBVIOUS
<1>1. IsFiniteSet(kept) /\ Cardinality(kept) \in Nat
  BY FS_Subset, FS_CardinalityType
<1>2. \A r \in rows : IsFiniteSet(newer(r)) /\ Cardinality(newer(r)) \in Nat
  BY FS_Subset, FS_CardinalityType
<1>3. IsFiniteSet(0 .. limit - 1) /\ Cardinality(0 .. limit - 1) = limit
  BY FS_Interval
<1>4. ASSUME NEW r \in rows, NEW q \in rows, r < q
      PROVE  Cardinality(newer(q)) # Cardinality(newer(r))
  <2>1. newer(q) \in SUBSET newer(r) /\ q \in newer(r) /\ q \notin newer(q)
    <3>1. \A s \in rows : s > q => s > r
      BY <1>0, <1>4
    <3>2. q > r /\ ~(q > q)
      BY <1>0, <1>4
    <3> QED
      BY <3>1, <3>2
  <2> HIDE DEF newer
  <2> QED
    BY <1>2, <2>1, FS_Subset
<1>5. rank \in [kept -> 0 .. limit - 1]
  <2> SUFFICES ASSUME NEW r \in kept PROVE Cardinality(newer(r)) \in 0 .. limit - 1
    OBVIOUS
  <2>1. r \in rows /\ Cardinality(newer(r)) < limit
    OBVIOUS
  <2>2. Cardinality(newer(r)) \in Nat
    BY <1>2, <2>1
  <2> HIDE DEF newer, kept
  <2> QED
    BY <2>1, <2>2
<1>6. ASSUME Cardinality(kept) > limit PROVE FALSE
  <2>1. PICK r \in kept, q \in kept : r # q /\ rank[r] = rank[q]
    <3> HIDE DEF kept, rank
    <3> QED
      BY <1>1, <1>3, <1>5, <1>6, FS_PigeonHole
  <2>2. r \in rows /\ q \in rows /\ Cardinality(newer(r)) = Cardinality(newer(q))
    BY <2>1
  <2>3. r < q \/ q < r
    BY <1>0, <2>1, <2>2
  <2> HIDE DEF newer
  <2> QED
    BY <1>4, <2>2, <2>3
<1> QED
  BY <1>1, <1>6
LEMMA BoundBacklogRows ==
  ASSUME NEW before \in [Playbacks -> Row],
         \A r \in Playbacks : before[r].status \in Waiting => ~before[r].started
  PROVE  /\ BoundBacklog(before) \in [Playbacks -> Row]
         /\ OnlyEnds(before, BoundBacklog(before))
         /\ Cardinality({r \in Playbacks : BoundBacklog(before)[r].status \in Waiting})
               <= MaxPendingAlerts
<1> DEFINE rows == BoundBacklog(before)
           waiting == {r \in Playbacks : before[r].status \in Waiting}
           newer(r) == {s \in waiting : s > r}
           over(r) == r \in waiting /\ Cardinality(newer(r)) >= MaxPendingAlerts
<1>1. rows = [r \in Playbacks |-> IF over(r) THEN Expire(before[r]) ELSE before[r]]
  BY DEF BoundBacklog
<1>2. ASSUME NEW r \in Playbacks
      PROVE  /\ rows[r] \in Row
             /\ rows[r] = before[r] \/ Ends(before[r], rows[r])
  <2> HIDE DEF rows
  <2>1. CASE over(r)
    <3>1. rows[r] = Expire(before[r])
      BY <1>1, <2>1
    <3>2. before[r].status \in Waiting
      BY <2>1
    <3> HIDE DEF over, waiting
    <3> QED
      BY <3>1, <3>2, ExpireRow DEF Ends, Terminal, Open, Waiting
  <2>2. CASE ~over(r)
    BY <1>1, <2>2
  <2> QED
    BY <2>1, <2>2
<1>3. Cardinality({r \in Playbacks : rows[r].status \in Waiting}) <= MaxPendingAlerts
  <2> DEFINE kept == {r \in waiting : Cardinality(newer(r)) < MaxPendingAlerts}
             left == {r \in Playbacks : rows[r].status \in Waiting}
  <2>1. IsFiniteSet(waiting) /\ waiting \subseteq Int
    BY FiniteRows, Bounds DEF Playbacks
  <2>2. IsFiniteSet(kept) /\ Cardinality(kept) <= MaxPendingAlerts
    <3> HIDE DEF waiting
    <3> QED
      BY <2>1, Bounds, FewNewer
  <2>3. ASSUME NEW r \in left PROVE r \in kept
    <3>1. CASE over(r)
      <4>1. rows[r] = Expire(before[r])
        BY <1>1, <3>1
      <4> HIDE DEF rows, over
      <4>2. rows[r].status = "expired"
        BY <4>1, ExpireRow
      <4> QED
        BY <4>2 DEF Waiting
    <3>2. CASE ~over(r)
      <4>1. rows[r] = before[r]
        BY <1>1, <3>2
      <4>2. r \in waiting /\ ~(Cardinality(newer(r)) >= MaxPendingAlerts)
        BY <3>2, <4>1
      <4>3. Cardinality(newer(r)) \in Int
        BY <2>1, FS_Subset, FS_CardinalityType
      <4> HIDE DEF newer, waiting
      <4> QED
        BY <4>2, <4>3, Bounds
    <3> QED
      BY <3>1, <3>2
  <2> HIDE DEF kept, left
  <2>4. left \in SUBSET kept
    BY <2>3
  <2>5. Cardinality(left) <= Cardinality(kept) /\ IsFiniteSet(left)
    BY <2>2, <2>4, FS_Subset
  <2>6. Cardinality(left) \in Nat /\ Cardinality(kept) \in Nat
    BY <2>2, <2>5, FS_CardinalityType
  <2>7. Cardinality(left) <= MaxPendingAlerts
    BY <2>2, <2>5, <2>6, Bounds
  <2> QED
    BY <2>7 DEF left
<1> HIDE DEF over, rows
<1>4. OnlyEnds(before, rows)
  BY <1>2 DEF OnlyEnds
<1>5. rows \in [Playbacks -> Row]
  BY <1>1, <1>2
<1> QED
  BY <1>3, <1>4, <1>5 DEF rows

-----------------------------------------------------------------------------
(* Every action is of one kind and keeps the types.                        *)

Typed == /\ TypeOK' /\ IsFiniteSet(issued')
         /\ player'.id = 0 => player'.lease = Past

LEMMA InsertRow ==
  ASSUME IInv, NEW donated \in BOOLEAN, NEW speak \in BOOLEAN,
         NEW now \in Int, NEW expires \in Int,
         Insert(Inserted(donated, speak, now, expires)),
         UNCHANGED <<config, overlay, player, issued, job>>
  PROVE  Typed /\ Accepts
<1> DEFINE row == Inserted(donated, speak, now, expires)
           new == last + 1
           rows == [playback EXCEPT ![new] = row]
<1>1. /\ row \in Row /\ row.status \in Waiting /\ ~row.started
  BY BlankRow DEF Inserted, Row, Waiting, Open, Blank
<1>2. /\ new \in Playbacks /\ last < MaxPlaybacks /\ last' = new
      /\ playback' = BoundBacklog(rows) /\ last \in Nat /\ playback \in [Playbacks -> Row]
  BY Bounds DEF Insert, IInv, TypeOK, Playbacks
<1>3. rows \in [Playbacks -> Row]
  BY <1>1, <1>2
<1>4. \A r \in Playbacks : rows[r].status \in Waiting => ~rows[r].started
  <2> HIDE DEF row
  <2> QED
    BY <1>1, <1>2 DEF IInv
<1>5. /\ playback' \in [Playbacks -> Row] /\ OnlyEnds(rows, playback')
      /\ Cardinality({r \in Playbacks : playback'[r].status \in Waiting})
            <= MaxPendingAlerts
  BY <1>2, <1>3, <1>4, BoundBacklogRows
<1>6. playback'[new] = row
  <2> DEFINE waiting == {r \in Playbacks : rows[r].status \in Waiting}
             newer(r) == {s \in waiting : s > r}
  <2>1. newer(new) = {}
    <3> SUFFICES ASSUME NEW s \in Playbacks, s > new PROVE rows[s].status \notin Waiting
      OBVIOUS
    <3>1. rows[s] = playback[s] /\ s > last
      BY <1>2 DEF Playbacks
    <3>2. playback[s].status = "absent"
      BY <3>1 DEF IInv
    <3> QED
      BY <3>1, <3>2 DEF Waiting
  <2>2. ~(Cardinality(newer(new)) >= MaxPendingAlerts)
    BY <2>1, FS_EmptySet, Bounds
  <2>3. BoundBacklog(rows) =
          [r \in Playbacks |-> IF r \in waiting /\ Cardinality(newer(r)) >= MaxPendingAlerts
                               THEN Expire(rows[r]) ELSE rows[r]]
    BY DEF BoundBacklog
  <2> HIDE DEF newer, waiting
  <2>4. BoundBacklog(rows)[new] = rows[new]
    BY <2>2, <2>3, <1>2
  <2> QED
    BY <2>4, <1>2
<1>7. ASSUME NEW r \in Playbacks \ {new}
      PROVE  Settled(playback[r], playback'[r])
  <2>1. rows[r] = playback[r]
    BY <1>2
  <2> QED
    BY <2>1, <1>5, StaysSettled DEF OnlyEnds, Settled
<1>8. Typed
  <2>1. last' \in 0 .. MaxPlaybacks
    BY <1>2, Bounds
  <2> HIDE DEF rows, row, new
  <2> QED
    BY <2>1, <1>5 DEF IInv, TypeOK, Typed
<1> HIDE DEF row
<1> QED
  BY <1>1, <1>2, <1>5, <1>6, <1>7, <1>8 DEF Accepts

\* What is left to show for an action that keeps everything but playback.
LEMMA QuietRows ==
  ASSUME IInv, UNCHANGED <<config, overlay, player, issued, last, job>>,
         playback' \in [Playbacks -> Row],
         \A r \in Playbacks : Settled(playback[r], playback'[r])
  PROVE  Typed /\ Quiet
  BY DEF IInv, TypeOK, Typed, Quiet

LEMMA EndsSettled ==
  ASSUME NEW before, NEW after, OnlyEnds(before, after), NEW r \in Playbacks
  PROVE  Settled(before[r], after[r])
  BY StaysSettled DEF OnlyEnds, Settled

LEMMA DashboardKind ==
  ASSUME IInv, NEW now \in Clocks, Dashboard(now)
  PROVE  Typed /\ (Quiet \/ Accepts)
<1> USE Bounds
<1>0. playback \in [Playbacks -> Row] /\ last \in Nat
  BY DEF IInv, TypeOK
<1>1. CASE UpdateSettings
  <2>1. UNCHANGED <<overlay, player, issued, playback, last, job>>
    BY <1>1 DEF UpdateSettings
  <2>2. config' \in [enabled: BOOLEAN, paused: BOOLEAN, tts: BOOLEAN]
    BY <1>1, SettingsAssumption DEF UpdateSettings, IInv, TypeOK
  <2> QED
    BY <2>1, <2>2, StaysSettled DEF IInv, TypeOK, Typed, Quiet
<1>2. CASE SetPaused
  <2>1. UNCHANGED <<overlay, player, issued, playback, last, job>>
    BY <1>2 DEF SetPaused
  <2>2. config' \in [enabled: BOOLEAN, paused: BOOLEAN, tts: BOOLEAN]
    BY <1>2 DEF SetPaused, IInv, TypeOK
  <2> QED
    BY <2>1, <2>2, StaysSettled DEF IInv, TypeOK, Typed, Quiet
<1>3. CASE CreateTest(now)
  <2>1. now + MaxAlertAge \in Int /\ now \in Int
    OBVIOUS
  <2>2. /\ Insert(Inserted(FALSE, TRUE, now, now + MaxAlertAge))
        /\ UNCHANGED <<config, overlay, player, issued, job>>
    BY <1>3 DEF CreateTest
  <2> QED
    BY <2>1, <2>2, InsertRow
<1>4. CASE \E source \in Playbacks, speak \in BOOLEAN : Replay(source, speak, now)
  <2>1. now + MaxAlertAge \in Int /\ now \in Int
    OBVIOUS
  <2>2. PICK speak \in BOOLEAN :
          /\ Insert(Inserted(TRUE, speak, now, now + MaxAlertAge))
          /\ UNCHANGED <<config, overlay, player, issued, job>>
    BY <1>4 DEF Replay
  <2> QED
    BY <2>1, <2>2, InsertRow
<1>5. CASE Skip
  <2>1. PICK r \in Playbacks :
          /\ playback[r].status \in Open
          /\ playback' = [playback EXCEPT ![r] = Close(@, "skipped")]
    BY <1>5 DEF Skip, Rows, Open
  <2>2. /\ Close(playback[r], "skipped") \in Row
        /\ Ends(playback[r], Close(playback[r], "skipped"))
    BY <1>0, <2>1, CloseRow DEF Ends, Terminal
  <2>3. \A s \in Playbacks : Settled(playback[s], playback'[s])
    BY <1>0, <2>1, <2>2, StaysSettled DEF Settled
  <2>4. playback' \in [Playbacks -> Row]
    BY <1>0, <2>1, <2>2
  <2>5. UNCHANGED <<config, overlay, player, issued, last, job>>
    BY <1>5 DEF Skip
  <2> QED
    BY <2>3, <2>4, <2>5, QuietRows
<1>6. CASE SetOverlayTokenHash(now)
  <2>1. /\ playback' \in [Playbacks -> Row] /\ NonePlays(playback')
        /\ \A r \in Playbacks : Settled(playback[r], playback'[r])
    BY <1>0, <1>6, RecoverUser DEF SetOverlayTokenHash
  <2>2. player' = NoPlayer /\ UNCHANGED <<config, issued, last, job>>
        /\ overlay' \in 0 .. MaxTokens
    BY <1>6 DEF SetOverlayTokenHash, IInv, TypeOK
  <2> QED
    BY <2>1, <2>2 DEF IInv, TypeOK, Typed, Quiet, NoPlayer
<1> QED
  BY <1>1, <1>2, <1>3, <1>4, <1>5, <1>6 DEF Dashboard

LEMMA EnqueueKind ==
  ASSUME IInv, NEW now \in Clocks, NEW age \in 0 .. MaxAlertAge,
         NEW speak \in BOOLEAN, EnqueueIncoming(age, speak, now)
  PROVE  Typed /\ (Quiet \/ Accepts)
<1>0. playback \in [Playbacks -> Row] /\ now + MaxAlertAge - age \in Int /\ now \in Int
  BY Bounds DEF IInv, TypeOK
<1>1. CASE config.enabled /\ age + 1 < MaxAlertAge
  BY <1>0, <1>1, InsertRow DEF EnqueueIncoming
<1>2. CASE ~(config.enabled /\ age + 1 < MaxAlertAge)
  <2>1. /\ playback' = BoundBacklog(playback)
        /\ UNCHANGED <<config, overlay, player, issued, last, job>>
    BY <1>2 DEF EnqueueIncoming
  <2>2. \A r \in Playbacks : playback[r].status \in Waiting => ~playback[r].started
    BY DEF IInv
  <2>3. playback' \in [Playbacks -> Row] /\ OnlyEnds(playback, playback')
    BY <1>0, <2>1, <2>2, BoundBacklogRows
  <2> QED
    BY <2>1, <2>3, EndsSettled, QuietRows
<1> QED
  BY <1>1, <1>2

\* A request that recovers the player's row and maybe replaces the player.
LEMMA RecoverHolder ==
  ASSUME IInv, NEW now \in Int,
         playback' = RecoverAssignedPlayback(Holder, now)
  PROVE  /\ playback' \in [Playbacks -> Row] /\ NonePlays(playback')
         /\ \A r \in Playbacks : Settled(playback[r], playback'[r])
<1>0. playback \in [Playbacks -> Row]
  BY DEF IInv, TypeOK
<1>1. /\ playback' \in [Playbacks -> Row]
      /\ \A r \in Playbacks :
            /\ Settled(playback[r], playback'[r])
            /\ playback'[r].status = "playing" =>
                  playback'[r] = playback[r] /\ playback[r].holder # Holder
  BY <1>0, RecoverAssigned
<1>2. NonePlays(playback')
  BY <1>1 DEF NonePlays, IInv, PlayingHasPlayer
<1> QED
  BY <1>1, <1>2

LEMMA OpenPlayerKind ==
  ASSUME IInv, NEW now \in Clocks, OpenPlayer(now)
  PROVE  Typed /\ Quiet
<1> DEFINE id == Cardinality(issued) + 1
           generation == player.generation + 1
<1>1. id \in Nat /\ id # 0
  BY FS_CardinalityType DEF IInv
<1>2. generation \in Nat /\ overlay \in Nat
  BY Bounds DEF IInv, TypeOK
<1>3. /\ playback' = RecoverAssignedPlayback(Holder, now)
      /\ player' = [id |-> id, generation |-> generation, active |-> FALSE,
                    visible |-> FALSE, lease |-> now + PlayerLease]
      /\ issued' = issued \cup
                   {[token |-> overlay, id |-> id, generation |-> generation]}
      /\ UNCHANGED <<config, overlay, last, job>>
  BY DEF OpenPlayer
<1> HIDE DEF id, generation
<1>4. now \in Int /\ now + PlayerLease \in Int
  BY Bounds
<1>5. /\ player' \in [id: Nat, generation: Nat, active: BOOLEAN,
                      visible: BOOLEAN, lease: Int]
      /\ player'.id # 0
  BY <1>1, <1>2, <1>3, <1>4
<1>6. /\ issued' \subseteq [token: Nat, id: Nat, generation: Nat]
      /\ IsFiniteSet(issued')
  <2> DEFINE identity == [token |-> overlay, id |-> id, generation |-> generation]
  <2>1. identity \in [token: Nat, id: Nat, generation: Nat]
    BY <1>1, <1>2
  <2> HIDE DEF identity
  <2>2. issued' = issued \cup {identity}
    BY <1>3 DEF identity
  <2>3. IsFiniteSet(issued \cup {identity})
    BY FS_AddElement DEF IInv
  <2> QED
    BY <2>1, <2>2, <2>3 DEF IInv, TypeOK
<1>7. /\ playback' \in [Playbacks -> Row] /\ NonePlays(playback')
      /\ \A r \in Playbacks : Settled(playback[r], playback'[r])
  BY <1>3, <1>4, RecoverHolder
<1> QED
  BY <1>3, <1>5, <1>6, <1>7 DEF IInv, TypeOK, Typed, Quiet

LEMMA HeartbeatKind ==
  ASSUME IInv, NEW now \in Clocks, NEW who \in issued,
         NEW active \in BOOLEAN, NEW visible \in BOOLEAN,
         Heartbeat(who, active, visible, now)
  PROVE  Typed /\ Quiet
<1>1. now \in Int /\ now + PlayerLease \in Int
  BY Bounds
<1>2. /\ player' \in [id: Nat, generation: Nat, active: BOOLEAN,
                      visible: BOOLEAN, lease: Int]
      /\ player'.id = player.id /\ player'.generation = player.generation
  BY <1>1 DEF Heartbeat, IInv, TypeOK
<1>3. player.id # 0
  BY Bounds DEF Heartbeat, Leased, IInv, TypeOK
<1>4. /\ playback' \in [Playbacks -> Row]
      /\ \A r \in Playbacks : Settled(playback[r], playback'[r])
  <2>1. CASE active /\ visible
    BY <2>1, StaysSettled DEF Heartbeat, IInv, TypeOK
  <2>2. CASE ~(active /\ visible)
    BY <1>1, <2>2, RecoverHolder DEF Heartbeat
  <2> QED
    BY <2>1, <2>2
<1>5. UNCHANGED <<config, overlay, issued, last, job>>
  BY DEF Heartbeat
<1> QED
  BY <1>2, <1>3, <1>4, <1>5 DEF IInv, TypeOK, Typed, Quiet

LEMMA ReleaseKind ==
  ASSUME IInv, NEW now \in Clocks, NEW who \in issued,
         LeaseLost(who, now) \/ ReleasePlayer(who, now)
  PROVE  Typed /\ Quiet
<1>1. playback' = RecoverAssignedPlayback(Holder, now) /\ now \in Int
  BY Bounds DEF LeaseLost, ReleasePlayer
<1>2. /\ playback' \in [Playbacks -> Row] /\ NonePlays(playback')
      /\ \A r \in Playbacks : Settled(playback[r], playback'[r])
  BY <1>1, RecoverHolder
<1>3. player' = player \/ player' = NoPlayer
  BY DEF LeaseLost, ReleasePlayer
<1>4. /\ player' \in [id: Nat, generation: Nat, active: BOOLEAN,
                      visible: BOOLEAN, lease: Int]
      /\ player'.id = 0 => player'.lease = Past
  <2>1. CASE player' = player
    BY <2>1 DEF IInv, TypeOK
  <2>2. CASE player' = NoPlayer
    BY <2>2, Bounds DEF NoPlayer
  <2> QED
    BY <1>3, <2>1, <2>2
<1>5. UNCHANGED <<config, overlay, issued, last, job>>
  BY DEF LeaseLost, ReleasePlayer
<1> QED
  BY <1>2, <1>4, <1>5 DEF IInv, TypeOK, Typed, Quiet

LEMMA StreamStateKind ==
  ASSUME IInv, NEW now \in Clocks, NEW who \in issued, StreamState(who, now)
  PROVE  Typed /\ Quiet
<1>1. /\ playback \in [Playbacks -> Row] /\ now \in Int
      /\ playback' = RecoverTimedOutPlayback(now)
      /\ UNCHANGED <<config, overlay, player, issued, last, job>>
  BY Bounds DEF StreamState, IInv, TypeOK
<1>2. playback' \in [Playbacks -> Row] /\ OnlyEnds(playback, playback')
  BY <1>1, RecoverTimedOut
<1> QED
  BY <1>1, <1>2, EndsSettled, QuietRows

LEMMA ClaimPlaybackKind ==
  ASSUME IInv, NEW now \in Clocks, NEW who \in issued, ClaimPlayback(who, now)
  PROVE  Typed /\ (Quiet \/ Assigns)
<1> DEFINE timely == RecoverTimedOutPlayback(now)
           rows == ExpireWaiting(timely, now)
<1>0. /\ playback \in [Playbacks -> Row] /\ now \in Int
      /\ UNCHANGED <<config, overlay, player, issued, last, job>>
  BY Bounds DEF ClaimPlayback, IInv, TypeOK
<1>1. timely \in [Playbacks -> Row] /\ OnlyEnds(playback, timely)
  BY <1>0, RecoverTimedOut
<1> HIDE DEF timely
<1>2. \A r \in Playbacks : timely[r].status \in Waiting => ~timely[r].started
  BY <1>1 DEF OnlyEnds, Ends, IInv, Waiting, Terminal
<1>3. /\ rows \in [Playbacks -> Row] /\ OnlyEnds(timely, rows)
      /\ \A r \in Playbacks : rows[r].status \in Waiting => timely[r].expires > now
  BY <1>0, <1>1, <1>2, ExpireWaitingRows
<1>4. \A r \in Playbacks : rows[r].status \in Waiting => rows[r].expires > now
  BY <1>3 DEF OnlyEnds, Ends, Waiting, Terminal
<1> HIDE DEF rows
<1>5. OnlyEnds(playback, rows)
  BY <1>1, <1>3 DEF OnlyEnds, Ends, Terminal, Open, Waiting
<1>6. CASE playback' = rows
  BY <1>0, <1>3, <1>5, <1>6, EndsSettled, QuietRows
<1>7. CASE playback' # rows
  <2>1. PICK r \in Claimable(rows, now) :
          playback' = [rows EXCEPT ![r].status = "playing", ![r].holder = Holder]
    BY <1>7 DEF ClaimPlayback, rows, timely
  <2>2. /\ r \in Playbacks /\ rows[r].status = "pending"
        /\ \A s \in Playbacks : rows[s].status # "playing"
        /\ \A s \in Playbacks : s < r /\ rows[s].status \in Waiting
                                  => rows[s].expires <= now
    BY <2>1 DEF Claimable
  <2>3. \A s \in Playbacks : s < r => rows[s].status \notin Waiting
    <3> SUFFICES ASSUME NEW s \in Playbacks, s < r, rows[s].status \in Waiting
                 PROVE  FALSE
      OBVIOUS
    <3>1. rows[s].expires <= now /\ rows[s].expires > now
      BY <1>4, <2>2
    <3>2. rows[s].expires \in Int
      BY <1>3 DEF Row
    <3> QED
      BY <1>0, <3>1, <3>2
  <2>4. Holder \in [id: Nat, generation: Nat] /\ player.id # 0
    BY Bounds DEF Holder, ClaimPlayback, Leased, IInv, TypeOK
  <2>5. \A s \in Playbacks \ {r} : playback'[s] = rows[s]
    BY <1>3, <2>1
  <2>6. /\ playback'[r].status = "playing" /\ playback'[r].holder = Holder
        /\ playback'[r].started = rows[r].started /\ playback'[r] \in Row
    <3>1. rows[r] \in Row /\ playback'[r] = [rows[r] EXCEPT !.status = "playing", !.holder = Holder]
      BY <1>3, <2>1, <2>2
    <3> QED
      BY <2>4, <3>1 DEF Row, Open
  <2>7. playback' \in [Playbacks -> Row]
    BY <1>3, <2>1, <2>5, <2>6
  <2>8. playback[r].status = "pending" /\ playback[r] = rows[r]
    BY <1>5, <2>2 DEF OnlyEnds, Ends, Terminal
  <2>9. \A s \in Playbacks \ {r} : Settled(playback[s], playback'[s])
    BY <1>5, <2>5, EndsSettled
  <2>10. \A s \in Playbacks : s < r => playback'[s].status \notin Waiting
    BY <2>2, <2>3, <2>5 DEF Playbacks
  <2>11. Assigns
    BY <1>0, <2>2, <2>4, <2>5, <2>6, <2>8, <2>9, <2>10 DEF Assigns
  <2> QED
    BY <1>0, <2>7, <2>11 DEF IInv, TypeOK, Typed
<1> QED
  BY <1>6, <1>7

\* An action that replaces one row.
LEMMA OneRow ==
  ASSUME IInv, UNCHANGED <<config, overlay, player, issued, last, job>>,
         NEW r \in Playbacks, NEW row \in Row, Settled(playback[r], row),
         playback' = [playback EXCEPT ![r] = row]
  PROVE  Typed /\ Quiet
<1>1. playback \in [Playbacks -> Row]
  BY DEF IInv, TypeOK
<1>2. playback' \in [Playbacks -> Row]
  BY <1>1
<1>3. \A s \in Playbacks : Settled(playback[s], playback'[s])
  BY <1>1, StaysSettled
<1> QED
  BY <1>2, <1>3, QuietRows

LEMMA AcknowledgeKind ==
  ASSUME IInv, NEW now \in Clocks, NEW who \in issued, NEW r \in Playbacks,
         \/ StartPlayback(who, r, now)
         \/ FinishCompleted(who, r, now)
         \/ FinishInterrupted(who, r, now)
  PROVE  Typed /\ Quiet
<1>0. playback[r] \in Row /\ now \in Int /\ now + PlaybackAcknowledgementTimeout \in Int
  BY Bounds DEF IInv, TypeOK
<1>1. CASE StartPlayback(who, r, now)
  <2> DEFINE due == IF playback[r].started THEN playback[r].due
                    ELSE now + PlaybackAcknowledgementTimeout
             row == [playback[r] EXCEPT !.started = TRUE, !.due = due]
  <2>1. due \in Int
    BY <1>0 DEF Row
  <2> HIDE DEF due
  <2>2. /\ row \in Row /\ row.started /\ row.holder = playback[r].holder
        /\ row.status = playback[r].status
    BY <1>0, <2>1 DEF Row
  <2>3. /\ playback' = [playback EXCEPT ![r] = row]
        /\ playback[r].status = "playing"
        /\ UNCHANGED <<config, overlay, player, issued, last, job>>
    BY <1>1 DEF StartPlayback, IInv, TypeOK, due
  <2> HIDE DEF row
  <2>4. Settled(playback[r], row)
    BY <2>2, <2>3 DEF Settled, Starts
  <2> QED
    BY <2>2, <2>3, <2>4, OneRow
<1>2. CASE FinishCompleted(who, r, now)
  <2> DEFINE row == Close(playback[r], "completed")
  <2>1. /\ row \in Row /\ row.status = "completed"
        /\ row.started = playback[r].started /\ row.holder = playback[r].holder
    BY <1>0, CloseRow DEF Terminal
  <2>2. /\ playback' = [playback EXCEPT ![r] = row] /\ playback[r].started
        /\ playback[r].status \in {"playing", "completed"}
        /\ UNCHANGED <<config, overlay, player, issued, last, job>>
    BY <1>2 DEF FinishCompleted
  <2> HIDE DEF row
  <2>3. Settled(playback[r], row)
    BY <2>1, <2>2 DEF Settled, Ends, Stays, Open, Terminal
  <2> QED
    BY <2>1, <2>2, <2>3, OneRow
<1>3. CASE FinishInterrupted(who, r, now)
  <2> DEFINE row == Recover(playback[r], now)
  <2>1. /\ playback' = [playback EXCEPT ![r] = row]
        /\ playback[r].status \in {"playing", "interrupted"}
        /\ UNCHANGED <<config, overlay, player, issued, last, job>>
    BY <1>3 DEF FinishInterrupted
  <2>2. row \in Row /\ Settled(playback[r], row)
    <3>1. CASE playback[r].status = "playing"
      BY <1>0, <3>1, RecoverRow DEF Settled
    <3>2. CASE playback[r].status = "interrupted"
      <4>1. playback[r].started
        BY <3>2 DEF IInv
      <4>2. row = Close(playback[r], "interrupted")
        BY <4>1 DEF Recover
      <4> HIDE DEF row
      <4>3. /\ row \in Row /\ row.status = "interrupted"
            /\ row.started = playback[r].started
            /\ row.holder = playback[r].holder
        BY <1>0, <4>2, CloseRow DEF Terminal
      <4> QED
        BY <3>2, <4>3 DEF Settled, Stays
    <3> QED
      BY <2>1, <3>1, <3>2
  <2> HIDE DEF row
  <2> QED
    BY <2>1, <2>2, OneRow
<1> QED
  BY <1>1, <1>2, <1>3

LEMMA RendererKind ==
  ASSUME IInv, NEW now \in Clocks, NEW who \in issued, Renderer(who, now)
  PROVE  Typed /\ (Quiet \/ Assigns)
  BY ReleaseKind, HeartbeatKind, StreamStateKind, ClaimPlaybackKind, AcknowledgeKind
     DEF Renderer

LEMMA GiveUpRows ==
  ASSUME NEW before \in [Playbacks -> Row], NEW now \in Int
  PROVE  /\ GiveUpPreparation(before, now) \in [Playbacks -> Row]
         /\ \A r \in Playbacks :
               \/ GiveUpPreparation(before, now)[r] = before[r]
               \/ Prepared(before[r], GiveUpPreparation(before, now)[r])
<1> DEFINE rows == GiveUpPreparation(before, now)
           gives(r) == /\ Unleased(before[r], now) /\ before[r].expires > now
                       /\ before[r].attempts >= PreparationTries
           given(r) == [before[r] EXCEPT !.status = "pending", !.lease = Past]
<1>1. rows = [r \in Playbacks |-> IF gives(r) THEN given(r) ELSE before[r]]
  BY DEF GiveUpPreparation
<1>2. ASSUME NEW r \in Playbacks
      PROVE  /\ given(r) \in Row /\ given(r).status = "pending"
             /\ given(r).started = before[r].started
             /\ given(r).holder = before[r].holder
  BY Bounds DEF Row, Open, Waiting
<1>3. ASSUME NEW r \in Playbacks, gives(r)
      PROVE  Prepared(before[r], given(r))
  BY <1>2, <1>3 DEF Prepared, Unleased
<1> HIDE DEF gives, given, rows
<1>4. \A r \in Playbacks : rows[r] \in Row /\ (rows[r] = before[r] \/ Prepared(before[r], rows[r]))
  BY <1>1, <1>2, <1>3
<1>5. rows \in [Playbacks -> Row]
  BY <1>1, <1>4
<1> QED
  BY <1>4, <1>5 DEF rows

\* A speech action that keeps everything but playback and job.
LEMMA SpeechRows ==
  ASSUME IInv, UNCHANGED <<config, overlay, player, issued, last>>,
         job' \in [Workers -> {Idle} \cup [row: Playbacks, attempts: 1 .. PreparationTries]],
         playback' \in [Playbacks -> Row],
         \A r \in Playbacks : Settled(playback[r], playback'[r])
  PROVE  Typed /\ Quiet
  BY DEF IInv, TypeOK, Typed, Quiet

LEMMA ClaimPreparationKind ==
  ASSUME IInv, NEW now \in Clocks, NEW w \in Workers, ClaimPreparation(w, now)
  PROVE  Typed /\ Quiet
<1> DEFINE fresh == ExpireWaiting(playback, now)
           rows == GiveUpPreparation(fresh, now)
<1>0. /\ playback \in [Playbacks -> Row] /\ now \in Int /\ now + PreparationLease \in Int
      /\ UNCHANGED <<config, overlay, player, issued, last>>
      /\ \A r \in Playbacks : playback[r].status \in Waiting => ~playback[r].started
  BY Bounds DEF ClaimPreparation, IInv, TypeOK
<1>1. fresh \in [Playbacks -> Row] /\ OnlyEnds(playback, fresh)
  BY <1>0, ExpireWaitingRows
<1> HIDE DEF fresh
<1>2. /\ rows \in [Playbacks -> Row]
      /\ \A r \in Playbacks : rows[r] = fresh[r] \/ Prepared(fresh[r], rows[r])
  BY <1>0, <1>1, GiveUpRows
<1> HIDE DEF rows
<1>3. \A r \in Playbacks : Settled(playback[r], rows[r])
  BY <1>1, <1>2, StaysSettled DEF OnlyEnds, Settled, Ends, Prepared, Terminal
<1>4. CASE Preparable(rows, now) = {}
  <2>1. playback' = rows /\ job' = job
    BY <1>4 DEF ClaimPreparation, rows, fresh
  <2> QED
    BY <1>0, <1>2, <1>3, <2>1, SpeechRows DEF IInv, TypeOK
<1>5. CASE Preparable(rows, now) # {}
  <2>1. PICK r \in Preparable(rows, now) :
          /\ playback' = [rows EXCEPT ![r].attempts = @ + 1,
                                      ![r].lease = now + PreparationLease]
          /\ job' = [job EXCEPT ![w] = [row |-> r, attempts |-> rows[r].attempts + 1]]
    BY <1>5 DEF ClaimPreparation, rows, fresh
  <2>2. r \in Playbacks /\ rows[r].attempts < PreparationTries /\ rows[r] \in Row
    BY <1>2, <2>1 DEF Preparable
  <2>3. rows[r].attempts + 1 \in 1 .. PreparationTries
    BY <2>2, Bounds DEF Row
  <2> DEFINE row == [rows[r] EXCEPT !.attempts = @ + 1, !.lease = now + PreparationLease]
  <2>4. /\ row \in Row /\ row.status = rows[r].status
        /\ row.started = rows[r].started /\ row.holder = rows[r].holder
    <3>1. rows[r].attempts + 1 \in 0 .. PreparationTries
      BY <2>3
    <3> QED
      BY <1>0, <2>2, <3>1 DEF Row
  <2>5. playback' = [rows EXCEPT ![r] = row]
    BY <1>2, <2>1, <2>2
  <2> HIDE DEF row
  <2>6. playback' \in [Playbacks -> Row]
    BY <1>2, <2>2, <2>4, <2>5
  <2>7. \A s \in Playbacks \ {r} : playback'[s] = rows[s]
    BY <1>2, <2>5
  <2>8. Settled(playback[r], playback'[r])
    <3>1. playback'[r] = row
      BY <1>2, <2>2, <2>5
    <3> QED
      BY <1>3, <2>2, <2>4, <3>1
         DEF Settled, Stays, Ends, GivenBack, Prepared, Starts, Deleted
  <2>9. job' \in [Workers -> {Idle} \cup [row: Playbacks, attempts: 1 .. PreparationTries]]
    BY <2>1, <2>2, <2>3 DEF IInv, TypeOK
  <2> QED
    BY <1>0, <1>3, <2>6, <2>7, <2>8, <2>9, SpeechRows
<1> QED
  BY <1>4, <1>5

LEMMA FailedRow ==
  ASSUME NEW row \in Row, NEW attempts \in Nat, NEW now \in Int,
         row.status = "preparing", ~row.started
  PROVE  Failed(row, attempts, now) \in Row /\ Settled(row, Failed(row, attempts, now))
<1> DEFINE retry == now + attempts
           given == [row EXCEPT !.status = "pending", !.lease = Past]
           time  == IF row.expires < retry THEN row.expires ELSE retry
           again == [row EXCEPT !.lease = Past, !.available = time]
<1>1. CASE row.expires <= now
  <2>1. /\ Failed(row, attempts, now) = Expire(row)
        /\ Expire(row) \in Row /\ Expire(row).status = "expired"
        /\ Expire(row).started = row.started
    BY <1>1, ExpireRow DEF Failed
  <2> QED
    BY <2>1 DEF Settled, Ends, Open, Waiting, Terminal
<1>2. CASE ~(row.expires <= now) /\ attempts >= PreparationTries
  <2>1. /\ given \in Row /\ given.status = "pending"
        /\ given.started = row.started /\ given.holder = row.holder
    BY Bounds DEF Row, Open, Waiting
  <2>2. Failed(row, attempts, now) = given
    BY <1>2 DEF Failed
  <2> HIDE DEF given
  <2> QED
    BY <2>1, <2>2 DEF Settled, Prepared
<1>3. CASE ~(row.expires <= now) /\ ~(attempts >= PreparationTries)
  <2>1. retry \in Int /\ time \in Int
    BY DEF Row
  <2>2. Failed(row, attempts, now) = again
    BY <1>3 DEF Failed
  <2> HIDE DEF time
  <2>3. /\ again \in Row /\ again.status = row.status
        /\ again.started = row.started /\ again.holder = row.holder
    BY <2>1, Bounds DEF Row
  <2> HIDE DEF again
  <2> QED
    BY <2>2, <2>3 DEF Settled, Stays
<1> QED
  BY <1>1, <1>2, <1>3

LEMMA ReportKind ==
  ASSUME IInv, NEW now \in Clocks, NEW w \in Workers,
         \/ CompletePreparation(w)
         \/ FailPreparation(w, now)
         \/ AbandonPreparation(w)
  PROVE  Typed /\ Quiet
<1> DEFINE r == job[w].row
<1>0. /\ job[w] # Idle /\ job' = [job EXCEPT ![w] = Idle]
      /\ UNCHANGED <<config, overlay, player, issued, last>>
  BY DEF CompletePreparation, FailPreparation, AbandonPreparation
<1>1. /\ playback \in [Playbacks -> Row] /\ now \in Int
      /\ job[w] \in [row: Playbacks, attempts: 1 .. PreparationTries]
      /\ job' \in [Workers -> {Idle} \cup [row: Playbacks, attempts: 1 .. PreparationTries]]
  BY <1>0, Bounds DEF IInv, TypeOK
<1>2. r \in Playbacks /\ job[w].attempts \in Nat
  BY <1>1, Bounds
<1>3. CASE playback' = playback
  BY <1>0, <1>1, <1>3, StaysSettled, SpeechRows
<1>4. CASE playback' # playback
  <2>1. playback[r].status = "preparing" /\ ~playback[r].started
    BY <1>2, <1>4 DEF CompletePreparation, FailPreparation, AbandonPreparation,
                      Fenced, IInv, Waiting
  <2>2. PICK row \in Row : /\ playback' = [playback EXCEPT ![r] = row]
                           /\ Settled(playback[r], row)
    <3>1. CASE CompletePreparation(w)
      <4> DEFINE row == [playback[r] EXCEPT !.status = "pending", !.speech = TRUE,
                                            !.lease = Past]
      <4>1. /\ row \in Row /\ row.status = "pending"
            /\ row.started = playback[r].started /\ row.holder = playback[r].holder
        <5>1. playback[r] \in Row
          BY <1>1, <1>2
        <5> HIDE DEF r
        <5> QED
          BY <5>1, Bounds DEF Row, Open, Waiting
      <4>2. playback' = [playback EXCEPT ![r] = row]
        <5>1. playback' = [playback EXCEPT ![r].status = "pending", ![r].speech = TRUE,
                                           ![r].lease = Past]
          BY <1>4, <3>1 DEF CompletePreparation
        <5> HIDE DEF r
        <5> QED
          BY <1>1, <1>2, <5>1
      <4> HIDE DEF row
      <4>3. Settled(playback[r], row)
        BY <2>1, <4>1 DEF Settled, Prepared
      <4> QED
        BY <4>1, <4>2, <4>3
    <3>2. CASE FailPreparation(w, now)
      <4>1. playback' = [playback EXCEPT ![r] = Failed(playback[r], job[w].attempts, now)]
        BY <1>1, <1>2, <1>4, <3>2 DEF FailPreparation
      <4>2. /\ Failed(playback[r], job[w].attempts, now) \in Row
            /\ Settled(playback[r], Failed(playback[r], job[w].attempts, now))
        BY <1>1, <1>2, <2>1, FailedRow
      <4> QED
        BY <4>1, <4>2
    <3>3. CASE AbandonPreparation(w)
      BY <1>4, <3>3 DEF AbandonPreparation
    <3> QED
      BY <3>1, <3>2, <3>3
  <2> HIDE DEF r
  <2>3. /\ playback' \in [Playbacks -> Row]
        /\ \A s \in Playbacks : Settled(playback[s], playback'[s])
    BY <1>1, <1>2, <2>2, StaysSettled
  <2> QED
    BY <1>0, <1>1, <2>3, SpeechRows
<1> QED
  BY <1>3, <1>4

LEMMA SpeechKind ==
  ASSUME IInv, NEW now \in Clocks, NEW w \in Workers, Speech(w, now)
  PROVE  Typed /\ Quiet
  BY ClaimPreparationKind, ReportKind DEF Speech

LEMMA PruneKind ==
  ASSUME IInv, NEW old \in SUBSET Playbacks, PruneRetention(old)
  PROVE  Typed /\ Quiet
<1> DEFINE terminal == Rows(Terminal)
           ranked == {r \in terminal :
             Cardinality({s \in terminal : s > r}) >= MaxRetainedTerminalPlaybacks}
           gone == ranked \cup (old \cap terminal)
           blank == [Blank EXCEPT !.status = "deleted"]
<1>1. blank \in Row /\ blank.status = "deleted" /\ ~blank.started
  BY BlankRow DEF Row, Blank
<1>2. \A r \in gone : r \in Playbacks /\ playback[r].status \in Terminal
  BY DEF Rows
<1>3. /\ playback' = [r \in Playbacks |-> IF r \in gone THEN blank ELSE playback[r]]
      /\ UNCHANGED <<config, overlay, player, issued, last, job>>
  BY DEF PruneRetention
<1>4. playback \in [Playbacks -> Row]
  BY DEF IInv, TypeOK
<1> HIDE DEF gone, blank
<1>5. playback' \in [Playbacks -> Row]
  BY <1>1, <1>3, <1>4
<1>6. ASSUME NEW r \in Playbacks PROVE Settled(playback[r], playback'[r])
  <2>1. CASE r \in gone
    BY <1>1, <1>2, <1>3, <2>1 DEF Settled, Deleted
  <2>2. CASE r \notin gone
    BY <1>3, <2>2, StaysSettled
  <2> QED
    BY <2>1, <2>2
<1> QED
  BY <1>3, <1>5, <1>6, QuietRows

LEMMA EarlierTime == \A time \in Int : Earlier(time) \in Int
  BY Bounds DEF Earlier

LEMMA TickKind ==
  ASSUME IInv, Tick
  PROVE  Typed /\ Quiet
<1> DEFINE aged(row) == [row EXCEPT !.expires = Earlier(@), !.available = Earlier(@),
                                    !.due = Earlier(@), !.lease = Earlier(@)]
<1>1. ASSUME NEW row \in Row
      PROVE  /\ aged(row) \in Row /\ aged(row).status = row.status
             /\ aged(row).started = row.started /\ aged(row).holder = row.holder
  <2>1. /\ Earlier(row.expires) \in Int /\ Earlier(row.available) \in Int
        /\ Earlier(row.due) \in Int /\ Earlier(row.lease) \in Int
    BY EarlierTime DEF Row
  <2> QED
    BY <2>1 DEF Row
<1>2. /\ playback' = [r \in Playbacks |-> aged(playback[r])]
      /\ player' = [player EXCEPT !.lease = Earlier(@)]
      /\ UNCHANGED <<config, overlay, issued, last, job>>
  BY DEF Tick
<1> HIDE DEF aged
<1>3. playback \in [Playbacks -> Row]
  BY DEF IInv, TypeOK
<1>4. /\ playback' \in [Playbacks -> Row]
      /\ \A r \in Playbacks : Settled(playback[r], playback'[r])
  BY <1>1, <1>2, <1>3 DEF Settled, Stays
<1>5. /\ player' \in [id: Nat, generation: Nat, active: BOOLEAN,
                      visible: BOOLEAN, lease: Int]
      /\ player'.id = player.id /\ player'.generation = player.generation
      /\ player'.lease = Earlier(player.lease)
  BY <1>2, EarlierTime DEF IInv, TypeOK
<1>6. player'.id = 0 => player'.lease = Past
  BY <1>5, Bounds DEF IInv, Earlier
<1> QED
  BY <1>2, <1>4, <1>5, <1>6 DEF IInv, TypeOK, Typed, Quiet

LEMMA StepKind ==
  ASSUME IInv, [Next]_vars
  PROVE  Typed /\ (Quiet \/ Accepts \/ Assigns)
<1>1. CASE UNCHANGED vars
  BY <1>1, StaysSettled DEF vars, IInv, TypeOK, Typed, Quiet
<1>2. CASE Next
  <2>1. ASSUME NEW now \in Clocks, Dashboard(now)
        PROVE  Typed /\ (Quiet \/ Accepts)
    BY <2>1, DashboardKind
  <2>2. ASSUME NEW now \in Clocks, NEW age \in 0 .. MaxAlertAge,
               NEW speak \in BOOLEAN, EnqueueIncoming(age, speak, now)
        PROVE  Typed /\ (Quiet \/ Accepts)
    BY <2>2, EnqueueKind
  <2>3. ASSUME NEW now \in Clocks, OpenPlayer(now)
        PROVE  Typed /\ Quiet
    BY <2>3, OpenPlayerKind
  <2>4. ASSUME NEW now \in Clocks, NEW who \in issued, Renderer(who, now)
        PROVE  Typed /\ (Quiet \/ Assigns)
    BY <2>4, RendererKind
  <2>5. ASSUME NEW now \in Clocks, NEW w \in Workers, Speech(w, now)
        PROVE  Typed /\ Quiet
    BY <2>5, SpeechKind
  <2>6. ASSUME NEW old \in SUBSET Playbacks, PruneRetention(old)
        PROVE  Typed /\ Quiet
    BY <2>6, PruneKind
  <2>7. ASSUME Tick PROVE Typed /\ Quiet
    BY <2>7, TickKind
  <2> QED
    BY <1>2, <2>1, <2>2, <2>3, <2>4, <2>5, <2>6, <2>7 DEF Next
<1> QED
  BY <1>1, <1>2

-----------------------------------------------------------------------------
(* The invariant follows from the kinds of steps.                          *)

LEMMA InitInvariant == Init => IInv
<1> SUFFICES ASSUME Init PROVE IInv
  OBVIOUS
<1>1. TypeOK
  <2>1. playback \in [Playbacks -> Row]
    BY BlankRow DEF Init
  <2>2. player \in [id: Nat, generation: Nat, active: BOOLEAN,
                    visible: BOOLEAN, lease: Int]
    BY Bounds DEF Init, NoPlayer
  <2> QED
    BY <2>1, <2>2, Bounds DEF Init, TypeOK
<1>2. IsFiniteSet(issued)
  BY FS_EmptySet DEF Init
<1>3. \A r \in Playbacks : playback[r].status = "absent" /\ ~playback[r].started /\ r > last
  BY BlankRow, Bounds DEF Init, Playbacks
<1>4. player.id = 0 => player.lease = Past
  BY DEF Init, NoPlayer
<1>5. BacklogBound
  <2>1. Rows(Open) = {}
    BY <1>3 DEF Rows, Open, Waiting
  <2> QED
    BY <2>1, FS_EmptySet, Bounds DEF BacklogBound
<1> QED
  BY <1>1, <1>2, <1>3, <1>4, <1>5 DEF IInv, OnePlaying, PlayingHasPlayer, PlayingIsOldest, Waiting

\* The conjuncts about single rows.
RowInv(row, r, end) ==
    /\ row.status = "absent" <=> r > end
    /\ row.status \in Waiting \cup {"absent", "deleted"} => ~row.started
    /\ row.status \in {"completed", "interrupted"} => row.started

LEMMA SettledRow ==
  ASSUME NEW old, NEW new, NEW r, NEW end, RowInv(old, r, end), Settled(old, new)
  PROVE  RowInv(new, r, end)
<1> USE DEF RowInv, Waiting, Terminal, Open
<1>1. CASE Stays(old, new)
  BY <1>1 DEF Stays
<1>2. CASE Ends(old, new)
  BY <1>2 DEF Ends
<1>3. CASE GivenBack(old, new)
  BY <1>3 DEF GivenBack
<1>4. CASE Prepared(old, new)
  BY <1>4 DEF Prepared
<1>5. CASE Starts(old, new)
  BY <1>5 DEF Starts
<1>6. CASE Deleted(old, new)
  BY <1>6 DEF Deleted
<1> QED
  BY <1>1, <1>2, <1>3, <1>4, <1>5, <1>6 DEF Settled

LEMMA SettledStatus ==
  ASSUME NEW old, NEW new, Settled(old, new)
  PROVE  /\ new.status = "playing" => old.status = "playing" /\ new.holder = old.holder
         /\ new.status \in Waiting => old.status \in Waiting \cup {"playing"}
  BY DEF Settled, Stays, Ends, GivenBack, Prepared, Starts, Deleted, Waiting, Terminal

\* A step after which no row is open that was not open keeps the bound.
LEMMA NoNewOpenRow ==
  ASSUME IInv,
         \A r \in Playbacks : playback'[r].status \in Open => playback[r].status \in Open
  PROVE  BacklogBound'
<1>1. IsFiniteSet(Rows(Open)) /\ Rows(Open)' \in SUBSET Rows(Open)
  BY FiniteRows DEF Rows
<1>2. /\ IsFiniteSet(Rows(Open)') /\ Cardinality(Rows(Open)') <= Cardinality(Rows(Open))
  BY <1>1, FS_Subset
<1>3. Cardinality(Rows(Open)') \in Nat /\ Cardinality(Rows(Open)) \in Nat
  BY <1>1, <1>2, FS_CardinalityType
<1> QED
  BY <1>2, <1>3, Bounds DEF IInv, BacklogBound

LEMMA QuietInvariant ==
  ASSUME IInv, Typed, Quiet
  PROVE  IInv'
<1>1. ASSUME NEW r \in Playbacks PROVE RowInv(playback'[r], r, last')
  BY SettledRow DEF IInv, RowInv, Quiet
<1>2. ASSUME NEW r \in Playbacks
      PROVE  /\ playback'[r].status = "playing" =>
                   playback[r].status = "playing" /\ playback'[r].holder = playback[r].holder
             /\ playback'[r].status \in Waiting =>
                   playback[r].status \in Waiting \cup {"playing"}
  BY SettledStatus DEF Quiet
<1>3. OnePlaying'
  BY <1>2 DEF IInv, OnePlaying
<1>4. PlayingHasPlayer'
  <2>1. CASE NonePlays(playback')
    BY <2>1 DEF NonePlays, PlayingHasPlayer
  <2>2. CASE player'.id = player.id /\ player'.generation = player.generation
    BY <1>2, <2>2 DEF IInv, PlayingHasPlayer, Holder
  <2> QED
    BY <2>1, <2>2 DEF Quiet
<1>5. PlayingIsOldest'
  <2> SUFFICES ASSUME NEW r \in Playbacks, NEW s \in Playbacks,
                      playback'[r].status = "playing", playback'[s].status \in Waiting
               PROVE  r < s
    BY DEF PlayingIsOldest
  <2>1. playback[r].status = "playing" /\ r # s
    BY <1>2 DEF Waiting
  <2>2. playback[s].status \in Waiting
    BY <1>2, <2>1 DEF IInv, OnePlaying
  <2> QED
    BY <2>1, <2>2 DEF IInv, PlayingIsOldest
<1>6. BacklogBound'
  BY <1>2, NoNewOpenRow DEF Open
<1> QED
  BY <1>1, <1>3, <1>4, <1>5, <1>6 DEF IInv, RowInv, Typed

LEMMA AcceptsInvariant ==
  ASSUME IInv, Typed, Accepts
  PROVE  IInv'
<1>0. last \in Nat /\ last + 1 \in Playbacks /\ Playbacks \subseteq Nat
  BY Bounds DEF IInv, TypeOK, Accepts, Playbacks
<1>1. ASSUME NEW r \in Playbacks PROVE RowInv(playback'[r], r, last')
  <2>1. CASE r = last + 1
    BY <1>0, <2>1 DEF Accepts, RowInv, Waiting
  <2>2. CASE r # last + 1
    <3>1. RowInv(playback'[r], r, last)
      BY <2>2, SettledRow DEF IInv, RowInv, Accepts
    <3>2. r > last <=> r > last'
      BY <1>0, <2>2 DEF Accepts
    <3> QED
      BY <3>1, <3>2 DEF RowInv
  <2> QED
    BY <2>1, <2>2
<1>2. ASSUME NEW r \in Playbacks, r # last + 1
      PROVE  /\ playback'[r].status = "playing" =>
                   playback[r].status = "playing" /\ playback'[r].holder = playback[r].holder
             /\ playback'[r].status \in Waiting =>
                   playback[r].status \in Waiting \cup {"playing"}
  BY <1>2, SettledStatus DEF Accepts
<1>3. playback'[last + 1].status \in Waiting
  BY DEF Accepts
<1>4. \A r \in Playbacks : playback'[r].status = "playing" => r # last + 1
  BY <1>3 DEF Waiting
<1>5. OnePlaying'
  BY <1>2, <1>4 DEF IInv, OnePlaying
<1>6. PlayingHasPlayer'
  BY <1>2, <1>4 DEF IInv, PlayingHasPlayer, Holder, Accepts
<1>7. PlayingIsOldest'
  <2> SUFFICES ASSUME NEW r \in Playbacks, NEW s \in Playbacks,
                      playback'[r].status = "playing", playback'[s].status \in Waiting
               PROVE  r < s
    BY DEF PlayingIsOldest
  <2>1. playback[r].status = "playing" /\ r # s
    BY <1>2, <1>4 DEF Waiting
  <2>2. CASE s = last + 1
    BY <1>0, <2>1, <2>2 DEF IInv
  <2>3. CASE s # last + 1
    <3>1. playback[s].status \in Waiting
      BY <1>2, <2>1, <2>3 DEF IInv, OnePlaying
    <3> QED
      BY <2>1, <3>1 DEF IInv, PlayingIsOldest
  <2> QED
    BY <2>2, <2>3
<1>8. BacklogBound'
  <2> DEFINE waiting == {r \in Playbacks : playback'[r].status \in Waiting}
             playing == {r \in Playbacks : playback'[r].status = "playing"}
  <2>1. Rows(Open)' = waiting \cup playing
    BY DEF Rows, Open
  <2>2. IsFiniteSet(waiting) /\ IsFiniteSet(playing)
    BY FiniteRows
  <2>3. Cardinality(playing) <= 1
    <3>1. CASE playing = {}
      BY <3>1, FS_EmptySet
    <3>2. CASE playing # {}
      <4>1. PICK r \in playing : TRUE
        BY <3>2
      <4>2. playing = {r}
        BY <1>5, <4>1 DEF OnePlaying
      <4> HIDE DEF playing
      <4>3. Cardinality(playing) = 1
        BY <4>2, FS_Singleton
      <4> QED
        BY <4>3
    <3> QED
      BY <3>1, <3>2
  <2>4. Cardinality(waiting) <= MaxPendingAlerts
    BY DEF Accepts
  <2> HIDE DEF waiting, playing
  <2>5. /\ Cardinality(waiting) \in Nat /\ Cardinality(playing) \in Nat
        /\ Cardinality(waiting \cap playing) \in Nat
    BY <2>2, FS_CardinalityType, FS_Intersection
  <2>6. Cardinality(waiting \cup playing)
          = Cardinality(waiting) + Cardinality(playing) - Cardinality(waiting \cap playing)
    BY <2>2, FS_Union
  <2>7. Cardinality(waiting \cup playing) <= MaxPendingAlerts + 1
    BY <2>3, <2>4, <2>5, <2>6, Bounds
  <2> QED
    BY <2>1, <2>7 DEF BacklogBound
<1> QED
  BY <1>1, <1>5, <1>6, <1>7, <1>8 DEF IInv, RowInv, Typed

LEMMA AssignsInvariant ==
  ASSUME IInv, Typed, Assigns
  PROVE  IInv'
<1>0. PICK r \in Playbacks :
        /\ playback[r].status = "pending" /\ playback'[r].status = "playing"
        /\ playback'[r].started = playback[r].started
        /\ playback'[r].holder = Holder /\ player.id # 0
        /\ \A s \in Playbacks \ {r} : /\ Settled(playback[s], playback'[s])
                                      /\ playback'[s].status # "playing"
        /\ \A s \in Playbacks : s < r => playback'[s].status \notin Waiting
        /\ last' = last /\ player' = player
  BY DEF Assigns
<1>1. ASSUME NEW s \in Playbacks PROVE RowInv(playback'[s], s, last')
  <2>1. CASE s = r
    BY <1>0, <2>1 DEF IInv, RowInv, Waiting
  <2>2. CASE s # r
    BY <1>0, <2>2, SettledRow DEF IInv, RowInv
  <2> QED
    BY <2>1, <2>2
<1>2. OnePlaying'
  BY <1>0 DEF OnePlaying
<1>3. PlayingHasPlayer'
  BY <1>0 DEF PlayingHasPlayer, Holder
<1>4. PlayingIsOldest'
  BY <1>0 DEF PlayingIsOldest, Playbacks, Waiting
<1>5. BacklogBound'
  <2>1. \A s \in Playbacks : playback'[s].status \in Open => playback[s].status \in Open
    BY <1>0, SettledStatus DEF Open, Waiting
  <2> QED
    BY <2>1, NoNewOpenRow
<1> QED
  BY <1>1, <1>2, <1>3, <1>4, <1>5 DEF IInv, RowInv, Typed

LEMMA NextInvariant == IInv /\ [Next]_vars => IInv'
  BY StepKind, QuietInvariant, AcceptsInvariant, AssignsInvariant

THEOREM Invariance == Spec => []IInv
  BY InitInvariant, NextInvariant, PTL DEF Spec

-----------------------------------------------------------------------------
(* The results.                                                            *)

\* Type correctness; in particular no row is prepared more than
\* PreparationTries times and every busy worker holds a row that exists.
THEOREM TypeCorrect == Spec => []TypeOK
<1>1. IInv => TypeOK
  BY DEF IInv
<1> QED
  BY <1>1, Invariance, PTL

\* However requests of old and new players, sweeps and recoveries interleave,
\* at most one alert plays, it belongs to the player of record, and nothing
\* accepted before it still waits.
THEOREM QueueSafe == Spec => [](OnePlaying /\ PlayingHasPlayer /\ PlayingIsOldest)
<1>1. IInv => OnePlaying /\ PlayingHasPlayer /\ PlayingIsOldest
  BY DEF IInv
<1> QED
  BY <1>1, Invariance, PTL

\* Acceptance order survives slow preparations and recoveries: no claim passes
\* over a row that still waits (ClaimPlayback, recoverAssignedPlayback).
THEOREM PlayingIsTheOldest == Spec => []PlayingIsOldest
  BY QueueSafe, PTL

\* The backlog is bounded for every limit: boundBacklog leaves at most
\* MaxPendingAlerts rows waiting and only the one row that plays can return.
THEOREM BacklogBounded == Spec => []BacklogBound
<1>1. IInv => BacklogBound
  BY DEF IInv
<1> QED
  BY <1>1, Invariance, PTL

\* What a step does to one row, whatever its kind.
LEMMA RowStep ==
  ASSUME IInv, [Next]_vars, NEW r \in Playbacks
  PROVE  \/ Settled(playback[r], playback'[r])
         \/ /\ playback[r].status = "absent"
            /\ playback'[r].status \in Waiting /\ ~playback'[r].started
         \/ /\ playback[r].status = "pending" /\ playback'[r].status = "playing"
            /\ playback'[r].started = playback[r].started
<1>1. Quiet \/ Accepts \/ Assigns
  BY StepKind
<1>2. last + 1 > last
  BY Bounds DEF IInv, TypeOK
<1>3. CASE Quiet
  BY <1>3 DEF Quiet
<1>4. CASE Accepts
  <2>1. CASE r = last + 1
    BY <1>2, <1>4, <2>1 DEF Accepts, IInv
  <2>2. CASE r # last + 1
    BY <1>4, <2>2 DEF Accepts
  <2> QED
    BY <2>1, <2>2
<1>5. CASE Assigns
  BY <1>5 DEF Assigns
<1> QED
  BY <1>1, <1>3, <1>4, <1>5

\* An alert a renderer committed to show is never queued again and never
\* belongs to another player, whatever fails afterwards.
THEOREM ShownOnce == Spec => ShownToOnePlayer
<1> DEFINE Kept == \A r \in Playbacks :
              playback[r].started /\ playback'[r].status # "deleted" =>
                  /\ playback'[r].started /\ playback'[r].status \notin Waiting
                  /\ playback'[r].holder = playback[r].holder
<1>1. IInv /\ [Next]_vars => [Kept]_vars
  <2> SUFFICES ASSUME IInv, [Next]_vars, NEW r \in Playbacks,
                      playback[r].started, playback'[r].status # "deleted"
               PROVE  /\ playback'[r].started /\ playback'[r].status \notin Waiting
                      /\ playback'[r].holder = playback[r].holder
    OBVIOUS
  <2>1. playback[r].status \notin Waiting \cup {"absent", "deleted"}
    BY DEF IInv
  <2>2. Settled(playback[r], playback'[r])
    BY <2>1, RowStep DEF Waiting
  <2> QED
    BY <2>1, <2>2 DEF Settled, Stays, Ends, GivenBack, Prepared, Starts, Deleted,
                      Waiting, Terminal
<1> QED
  BY <1>1, Invariance, PTL DEF Spec, ShownToOnePlayer

\* The outcome of an alert never changes: a late acknowledgement, speech
\* worker or sweep cannot revive or relabel a closed row.
THEOREM OutcomeFinal == Spec => OutcomeIsFinal
<1> DEFINE Final == \A r \in Playbacks : playback[r].status \in Terminal =>
              playback'[r].status \in {playback[r].status, "deleted"}
<1>1. IInv /\ [Next]_vars => [Final]_vars
  <2> SUFFICES ASSUME IInv, [Next]_vars, NEW r \in Playbacks,
                      playback[r].status \in Terminal
               PROVE  playback'[r].status \in {playback[r].status, "deleted"}
    OBVIOUS
  <2>1. Settled(playback[r], playback'[r])
    BY RowStep DEF Terminal
  <2> QED
    BY <2>1 DEF Settled, Stays, Ends, GivenBack, Prepared, Starts, Deleted,
                Waiting, Terminal, Open
<1> QED
  BY <1>1, Invariance, PTL DEF Spec, OutcomeIsFinal

\* Only a speech worker's own report makes it idle.
LEMMA OthersKeepJob ==
  ASSUME NEW now \in Clocks,
         \/ Dashboard(now)
         \/ \E age \in 0 .. MaxAlertAge, speak \in BOOLEAN : EnqueueIncoming(age, speak, now)
         \/ OpenPlayer(now)
         \/ \E who \in issued : Renderer(who, now)
  PROVE  job' = job
<1>1. CASE Dashboard(now)
  BY <1>1 DEF Dashboard, UpdateSettings, SetPaused, CreateTest, Replay, Skip,
              SetOverlayTokenHash
<1>2. CASE \E age \in 0 .. MaxAlertAge, speak \in BOOLEAN : EnqueueIncoming(age, speak, now)
  BY <1>2 DEF EnqueueIncoming
<1>3. CASE OpenPlayer(now)
  BY <1>3 DEF OpenPlayer
<1>4. CASE \E who \in issued : Renderer(who, now)
  BY <1>4 DEF Renderer, LeaseLost, Heartbeat, ReleasePlayer, StreamState, ClaimPlayback,
              StartPlayback, FinishCompleted, FinishInterrupted
<1> QED
  BY <1>1, <1>2, <1>3, <1>4

LEMMA LateReport ==
  ASSUME TypeOK, NEW now \in Clocks, NEW v \in Workers, Speech(v, now),
         NEW w \in Workers, job[w] # Idle, job'[w] = Idle, ~Fenced(w)
  PROVE  playback' = playback
<1>0. job = [u \in Workers |-> job[u]]
  BY DEF TypeOK
<1>1. CASE ClaimPreparation(v, now)
  <2>1. job[v] = Idle
    BY <1>1 DEF ClaimPreparation
  <2>2. v # w
    BY <2>1
  <2>3. job' = job \/ \E new : job' = [job EXCEPT ![v] = new]
    BY <1>1 DEF ClaimPreparation
  <2>4. job'[w] = job[w]
    BY <1>0, <2>2, <2>3
  <2> QED
    BY <2>4
<1>2. CASE CompletePreparation(v) \/ FailPreparation(v, now) \/ AbandonPreparation(v)
  <2>1. job' = [job EXCEPT ![v] = Idle]
    BY <1>2 DEF CompletePreparation, FailPreparation, AbandonPreparation
  <2>2. v = w
    BY <1>0, <2>1
  <2> QED
    BY <1>2, <2>2 DEF CompletePreparation, FailPreparation, AbandonPreparation
<1> QED
  BY <1>1, <1>2 DEF Speech

\* A worker that reports after its lease was taken over, or after its row was
\* skipped, expired or played, leaves every row as it is: the fence of
\* CompletePreparation and FailPreparation (preparation_generation) suffices.
THEOREM LateWorkersHarmless == Spec => LateWorkerChangesNothing
<1> DEFINE Harmless == \A w \in Workers, r \in Playbacks :
              /\ job[w].row = r /\ job'[w] = Idle
              /\ \/ job[w].attempts # playback[r].attempts
                 \/ playback[r].status # "preparing"
              => playback' = playback
<1>1. TypeOK /\ [Next]_vars => [Harmless]_vars
  <2> SUFFICES ASSUME TypeOK, [Next]_vars, NEW w \in Workers, NEW r \in Playbacks,
                      job[w].row = r, job'[w] = Idle,
                      \/ job[w].attempts # playback[r].attempts
                      \/ playback[r].status # "preparing"
               PROVE  playback' = playback
    OBVIOUS
  <2>1. job[w] # Idle
    BY Bounds DEF Idle, Playbacks
  <2>2. ~Fenced(w)
    BY DEF Fenced
  <2>3. CASE UNCHANGED vars
    BY <2>3 DEF vars
  <2>4. ASSUME NEW now \in Clocks, NEW v \in Workers, Speech(v, now)
        PROVE  playback' = playback
    BY <2>1, <2>2, <2>4, LateReport
  <2>5. ASSUME NEW old \in SUBSET Playbacks, PruneRetention(old)
        PROVE  job' = job
    BY <2>5 DEF PruneRetention
  <2>6. ASSUME Tick PROVE job' = job
    BY <2>6 DEF Tick
  <2>7. job' # job
    BY <2>1
  <2> QED
    BY <2>3, <2>4, <2>5, <2>6, <2>7, OthersKeepJob DEF Next
<1> QED
  BY <1>1, TypeCorrect, PTL DEF Spec, LateWorkerChangesNothing

-----------------------------------------------------------------------------
(* The queue implements AlertDelivery.                                     *)

LEMMA SettledStage ==
  ASSUME NEW old, NEW new, Settled(old, new),
         old.started \in BOOLEAN, new.started \in BOOLEAN,
         old.status \in Waiting \cup {"absent", "deleted"} => ~old.started
  PROVE  /\ Stage(new) = Stage(old) \/ <<Stage(old), Stage(new)>> \in Delivery!Moves
         /\ Stage(new) # "unknown" \/ Stage(old) = "unknown"
         /\ Stage(old) = "queued" => Stage(new) # "assigned"
         /\ Stage(old) = "unknown" => Stage(new) = "unknown"
<1> USE DEF Stage, Delivery!Moves, Waiting, Terminal, Open
<1>1. CASE Stays(old, new)
  BY <1>1 DEF Stays
<1>2. CASE Ends(old, new)
  BY <1>2 DEF Ends
<1>3. CASE GivenBack(old, new)
  BY <1>3 DEF GivenBack
<1>4. CASE Prepared(old, new)
  BY <1>4 DEF Prepared
<1>5. CASE Starts(old, new)
  BY <1>5 DEF Starts
<1>6. CASE Deleted(old, new)
  BY <1>6 DEF Deleted
<1> QED
  BY <1>1, <1>2, <1>3, <1>4, <1>5, <1>6 DEF Settled

LEMMA StageStep ==
  ASSUME IInv, [Next]_vars, NEW r \in Playbacks
  PROVE  LET old == Stage(playback[r])
             new == Stage(playback'[r])
         IN /\ new = old \/ <<old, new>> \in Delivery!Moves
            /\ new \in Delivery!Stages
            /\ old # "unknown" => new # "unknown"
<1>1. playback[r] \in Row /\ playback'[r] \in Row
  BY StepKind DEF IInv, TypeOK, Typed
<1>2. playback[r].started \in BOOLEAN /\ playback'[r].started \in BOOLEAN
  BY <1>1 DEF Row
<1>3. Stage(playback'[r]) \in Delivery!Stages
  BY <1>2 DEF Stage, Delivery!Stages
<1>4. CASE Settled(playback[r], playback'[r])
  <2>1. playback[r].status \in Waiting \cup {"absent", "deleted"} => ~playback[r].started
    BY DEF IInv
  <2> QED
    BY <1>2, <1>3, <1>4, <2>1, SettledStage
<1>5. CASE /\ playback[r].status = "absent"
           /\ playback'[r].status \in Waiting /\ ~playback'[r].started
  BY <1>3, <1>5 DEF Stage, Delivery!Moves, Waiting
<1>6. CASE /\ playback[r].status = "pending" /\ playback'[r].status = "playing"
           /\ playback'[r].started = playback[r].started
  BY <1>3, <1>6 DEF Stage, Delivery!Moves, Waiting, IInv
<1> QED
  BY <1>4, <1>5, <1>6, RowStep

LEMMA StageFacts ==
  ASSUME NEW row
  PROVE  /\ Stage(row) \in {"assigned", "shown"} => row.status = "playing"
         /\ Stage(row) = "queued" <=> row.status \in Waiting
         /\ Stage(row) = "unknown" <=> row.status = "absent"
  BY DEF Stage, Waiting

LEMMA DeliveryInit == Init => Delivery!Init
  BY BlankRow, StageFacts DEF Init, Delivery!Init

LEMMA DeliveryNext == IInv /\ [Next]_vars => Delivery!Next
<1> SUFFICES ASSUME IInv, [Next]_vars PROVE Delivery!Next
  OBVIOUS
<1>1. Delivery!EachMoves /\ [r \in Playbacks |-> Stage(playback[r])]' \in [Playbacks -> Delivery!Stages]
  BY StageStep DEF Delivery!EachMoves
<1>2. IInv'
  BY NextInvariant
<1>3. Delivery!OneEngaged
  BY <1>2, StageFacts DEF Delivery!OneEngaged, Delivery!Engaged, IInv, OnePlaying
<1>4. Delivery!AcceptedLast
  <2> SUFFICES ASSUME NEW a \in Playbacks, NEW b \in Playbacks,
                      playback[a].status = "absent", playback'[a].status # "absent",
                      playback[b].status # "absent"
               PROVE  b < a
    BY StageFacts DEF Delivery!AcceptedLast
  <2>1. a > last /\ ~(b > last)
    BY DEF IInv
  <2> QED
    BY <2>1, Bounds DEF IInv, TypeOK, Playbacks
<1>5. Delivery!AssignedInOrder
  BY <1>2, StageFacts DEF Delivery!AssignedInOrder, IInv, PlayingIsOldest
<1> QED
  BY <1>1, <1>3, <1>4, <1>5 DEF Delivery!Next

\* The queue keeps what AlertDelivery promises: alerts are assigned one at a
\* time in acceptance order, shown at most once, and closed for good.
THEOREM Refinement == Spec => Delivers
<1>1. [Next]_vars /\ IInv => [Delivery!Next]_([r \in Playbacks |-> Stage(playback[r])])
  BY DeliveryNext
<1> QED
  BY <1>1, DeliveryInit, Invariance, PTL DEF Spec, Delivers, Delivery!Spec
=============================================================================
