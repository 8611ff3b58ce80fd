------------------------ MODULE DonationIngestProofs ------------------------
(***************************************************************************)
(* Theorems about DonationIngest, for every value of its constants.        *)
(*                                                                         *)
(* Everything rests on one fact: a row of the connection table that some   *)
(* goroutine still holds is never ahead of the saved one, and a row that   *)
(* carries the saved generation carries its account and grant too.  What   *)
(* the goroutines do to the saved row is one of a few Moves; the first     *)
(* half of the module shows what a Move keeps, the second half goes        *)
(* through the actions.                                                    *)
(***************************************************************************)
EXTENDS DonationIngest, FiniteSetTheorems, TLAPS

NotAhead(row, saved) ==
    \/ row.id < saved.id
    \/ /\ row.id = saved.id
       /\ \/ saved.status = "absent"
          \/ row.version < saved.version
          \/ /\ row.version = saved.version
             /\ row.account = saved.account /\ row.grant = saved.grant

Covered(row, rows) == \A n \in 1 .. row.checkpoint : <<row.account, n>> \in rows \cup Malformed

\* A batch has no row that was rejected, and one that moves the checkpoint has every
\* other one in between.
Clean(account, items) == \A n \in items : <<account, n>> \notin Malformed
Joins(row, batch) ==
    /\ Clean(row.account, batch.items)
    /\ batch.head # 0 =>
          \A n \in (row.checkpoint + 1) .. batch.head : n \in batch.items \/ <<row.account, n>> \in Malformed

\* The generation a listener writes with once its refresh is adopted.
Held(x) ==
    IF x.pc = "adopt" THEN [x.row EXCEPT !.version = @ + 1, !.grant = x.next] ELSE x.row

Alike(row, saved) ==
    saved.id = row.id /\ saved.account = row.account /\ saved.version = row.version

Writes(x, saved) ==
    /\ x.pc \notin {"idle", "ended"}
    /\ saved.status = "connected" /\ Alike(Held(x), saved)

\* A listener that holds another account than a row the supervisor is looking
\* at is behind that row, so that stopping it stops no serving one.
Behind(held, row) ==
    \/ held.id < row.id
    \/ held.id = row.id /\ (held.version < row.version \/ held.account = row.account)

Locals(x) ==
    /\ Held(x).version <= x.published
    /\ x.pc = "save" => x.published = x.row.version + 1
    /\ x.pc = "emit" => Joins(x.row, x.batch)

ListenerOK(l) ==
    /\ NotAhead(Held(listener[l]), conn) /\ Covered(listener[l].row, stored)
    /\ Locals(listener[l])
    /\ listener[l].cancelled => ~Writes(listener[l], conn)
    /\ Alive(l) /\ ~listener[l].cancelled => running = l
    /\ refreshing => /\ view = {} => ~Writes(listener[l], conn)
                     /\ \A row \in view : Behind(Held(listener[l]), row)

WorkerOK(h) ==
    /\ NotAhead(worker[h].row, conn) /\ Covered(worker[h].row, stored)
    /\ worker[h].pc = "save" => Joins(worker[h].row, worker[h].batch)

RequestOK(r) ==
    request[r].pc = "save" =>
        /\ request[r].batch.items = Decoded(request[r].account, 1 .. request[r].seen)
        /\ request[r].batch.head \in {0, request[r].seen}

ViewOK == \A row \in view : NotAhead(row, conn) /\ Covered(row, stored)

TableOK ==
    /\ conn.id = 0 => conn.status = "absent"
    /\ Covered(conn, stored)
    /\ \A d \in Donations : offers[d] # 0 => offers[d] = 1 /\ d \in stored
    /\ \A d \in Malformed : d \notin stored
    /\ \A a \in Accounts : \A n \in 1 .. imported[a] : <<a, n>> \in stored \cup Malformed

IInv ==
    /\ TypeOK /\ TableOK /\ ViewOK
    /\ \A l \in Slots : ListenerOK(l)
    /\ \A h \in Histories : WorkerOK(h)
    /\ \A r \in Requests : RequestOK(r)

-----------------------------------------------------------------------------
(* What a step may do to the saved row, and what that keeps.               *)

Stays(old, new) ==
    /\ new.id = old.id /\ new.status = old.status /\ new.version = old.version
    /\ new.account = old.account /\ new.grant = old.grant

Renewed(old, new) ==
    \/ new.id > old.id
    \/ /\ new.id = old.id /\ new.version > old.version
       /\ old.status # "absent" /\ new.status # "absent"

Ends(old, new) ==
    /\ new.id = old.id /\ new.status # "connected"
    /\ \/ new.status = "absent"
       \/ /\ old.status # "absent" /\ new.version = old.version
          /\ new.account = old.account /\ new.grant = old.grant

Moves == Stays(conn, conn') \/ Renewed(conn, conn') \/ Ends(conn, conn')
Grows == Moves /\ stored \subseteq stored'

LEMMA MoveKeeps ==
  ASSUME NEW old \in Row, NEW new \in Row, NEW row, row.id \in Int, row.version \in Int,
         Stays(old, new) \/ Renewed(old, new) \/ Ends(old, new), NotAhead(row, old)
  PROVE  NotAhead(row, new)
  BY DEF Row, NotAhead, Stays, Renewed, Ends

LEMMA HeldType ==
  ASSUME NEW x \in Goroutine
  PROVE  /\ Held(x).id \in Nat /\ Held(x).version \in Nat
         /\ Held(x).id = x.row.id /\ Held(x).account = x.row.account
         /\ Held(x).checkpoint = x.row.checkpoint
  BY DEF Goroutine, Row, Held

\* No Move lets a row be written by a goroutine that could not write before.
LEMMA MoveFences ==
  ASSUME NEW old \in Row, NEW new \in Row, NEW x \in Goroutine,
         Stays(old, new) \/ Renewed(old, new) \/ Ends(old, new),
         NotAhead(Held(x), old), Writes(x, new)
  PROVE  Writes(x, old)
<1> USE HeldType
<1>1. CASE Stays(old, new)
  BY <1>1 DEF Stays, Writes, Alike
<1>2. CASE Renewed(old, new)
  BY <1>2 DEF Renewed, Writes, Alike, NotAhead, Row
<1>3. CASE Ends(old, new)
  BY <1>3 DEF Ends, Writes, Alike
<1> QED
  BY <1>1, <1>2, <1>3

LEMMA ServesWrites ==
  ASSUME TypeOK, NEW l \in Slots
  PROVE  Serves(l) <=> Writes(listener[l], conn)
  BY DEF TypeOK, Goroutine, Row, Serves, Alive, Matches, Connected, Writes, Alike, Held

LEMMA OtherListeners ==
  ASSUME TypeOK, TypeOK', Grows, NEW l \in Slots, ListenerOK(l),
         listener'[l] = listener[l], UNCHANGED supervisor
  PROVE  ListenerOK(l)'
<1> DEFINE x == listener[l]
<1>1. x \in Goroutine /\ conn \in Row /\ conn' \in Row
  BY DEF TypeOK
<1>2. Held(x).id \in Int /\ Held(x).version \in Int
  BY <1>1, HeldType
<1>3. NotAhead(Held(x), conn) /\ NotAhead(Held(x), conn')
  BY <1>1, <1>2, MoveKeeps DEF Grows, Moves, ListenerOK
<1>4. Writes(x, conn') => Writes(x, conn)
  BY <1>1, <1>3, MoveFences DEF Grows, Moves
<1>5. Covered(x.row, stored')
  BY DEF ListenerOK, Covered, Grows
<1> QED
  BY <1>3, <1>4, <1>5 DEF ListenerOK, supervisor, Grows, Alive

LEMMA OtherWorkers ==
  ASSUME TypeOK, TypeOK', Grows, NEW h \in Histories, WorkerOK(h), worker'[h] = worker[h]
  PROVE  WorkerOK(h)'
<1>1. /\ conn \in Row /\ conn' \in Row
      /\ worker[h].row.id \in Int /\ worker[h].row.version \in Int
  BY DEF TypeOK, Worker, Row
<1>2. NotAhead(worker[h].row, conn')
  BY <1>1, MoveKeeps DEF Grows, Moves, WorkerOK
<1>3. Covered(worker[h].row, stored')
  BY DEF WorkerOK, Covered, Grows
<1> QED
  BY <1>2, <1>3 DEF WorkerOK, Grows

LEMMA SameView ==
  ASSUME TypeOK, TypeOK', Grows, ViewOK, view' = view
  PROVE  ViewOK'
<1>1. ASSUME NEW row \in view
      PROVE  NotAhead(row, conn') /\ Covered(row, stored')
  <2>1. conn \in Row /\ conn' \in Row /\ row.id \in Int /\ row.version \in Int
    BY DEF TypeOK, Row
  <2>2. NotAhead(row, conn')
    BY <2>1, MoveKeeps DEF Grows, Moves, ViewOK
  <2> QED
    BY <2>2 DEF ViewOK, Covered, Grows
<1> QED
  BY <1>1 DEF ViewOK

LEMMA SameRequests ==
  ASSUME IInv, NEW R, R \subseteq Requests, \A r \in R : request'[r] = request[r]
  PROVE  \A r \in R : RequestOK(r)'
  BY DEF IInv, RequestOK

\* What is left to show for a step of one listener.
LEMMA ListenerStep ==
  ASSUME IInv, TypeOK', TableOK', Grows, NEW l \in Slots, ListenerOK(l)',
         \A m \in Slots \ {l} : listener'[m] = listener[m],
         UNCHANGED <<request, supervisor, worker>>
  PROVE  IInv'
<1>1. \A m \in Slots : ListenerOK(m)'
  BY OtherListeners DEF IInv
<1>2. \A h \in Histories : WorkerOK(h)'
  BY OtherWorkers DEF IInv
<1>3. \A r \in Requests : RequestOK(r)'
  BY SameRequests
<1>4. ViewOK'
  BY SameView DEF IInv, supervisor
<1> QED
  BY <1>1, <1>2, <1>3, <1>4 DEF IInv

\* What is left to show for a step of one history worker.
LEMMA WorkerStep ==
  ASSUME IInv, TypeOK', TableOK', Grows, NEW h \in Histories, WorkerOK(h)',
         \A g \in Histories \ {h} : worker'[g] = worker[g],
         UNCHANGED <<request, supervisor, listener>>
  PROVE  IInv'
<1>1. \A m \in Slots : ListenerOK(m)'
  BY OtherListeners DEF IInv
<1>2. \A g \in Histories : WorkerOK(g)'
  BY OtherWorkers DEF IInv
<1>3. \A r \in Requests : RequestOK(r)'
  BY SameRequests
<1>4. ViewOK'
  BY SameView DEF IInv, supervisor
<1> QED
  BY <1>1, <1>2, <1>3, <1>4 DEF IInv

\* What is left to show for a step of the streamer or of a web request.
LEMMA StreamerStep ==
  ASSUME IInv, TypeOK', TableOK', Grows, \A r \in Requests : RequestOK(r)',
         UNCHANGED <<supervisor, listener, worker>>
  PROVE  IInv'
<1>1. \A m \in Slots : ListenerOK(m)'
  BY OtherListeners DEF IInv
<1>2. \A h \in Histories : WorkerOK(h)'
  BY OtherWorkers DEF IInv
<1>3. ViewOK'
  BY SameView DEF IInv, supervisor
<1> QED
  BY <1>1, <1>2, <1>3 DEF IInv

LEMMA Unmoved ==
  ASSUME TableOK, UNCHANGED <<conn, donations>>
  PROVE  TableOK' /\ Grows
  BY DEF TableOK, donations, Grows, Moves, Stays, Covered

-----------------------------------------------------------------------------
(* What the operators of the writers do.                                   *)

LEMMA FetchedBatch ==
  ASSUME TypeOK, NEW row \in Row, NEW after \in Nat
  PROVE  Fetched(row, after) \in Batch /\ Joins(row, Fetched(row, after))
<1>1. happened[row.account] \in 0 .. MaxDonations /\ row.checkpoint \in Nat
  BY BoundAssumption DEF TypeOK, Row
<1> QED
  BY <1>1, BoundAssumption DEF Fetched, Decoded, Batch, Joins, Clean

LEMMA PushedBatch ==
  ASSUME TypeOK, NEW row \in Row, NEW batch \in Pushed(row)
  PROVE  batch \in Batch /\ Joins(row, batch)
<1>1. CASE Cursor
  BY <1>1, FetchedBatch DEF Pushed
<1>2. CASE ~Cursor
  <2>1. PICK n \in Decoded(row.account, 1 .. happened[row.account]) : batch = [items |-> {n}, head |-> 0]
    BY <1>2 DEF Pushed
  <2>2. happened[row.account] \in 0 .. MaxDonations
    BY DEF TypeOK, Row
  <2>3. {n} \subseteq 1 .. MaxDonations /\ 0 \in 0 .. MaxDonations
    BY <2>2, BoundAssumption DEF Decoded
  <2> QED
    BY <2>1, <2>3 DEF Batch, Joins, Clean, Decoded
<1> QED
  BY <1>1, <1>2

LEMMA SaveKeeps ==
  ASSUME TypeOK, TableOK, NEW row \in Row, NEW batch \in Batch, Covered(row, stored),
         Joins(row, batch), Save(row, batch)
  PROVE  /\ conn' \in Row /\ stored' \subseteq Donations
         /\ offers' \in [Donations -> Nat] /\ imported' = imported
         /\ TableOK' /\ Grows
         /\ Covered([row EXCEPT !.checkpoint = batch.head], stored')
         /\ Stays(conn, conn')
<1>1. /\ batch.items \subseteq 1 .. MaxDonations /\ batch.head \in 0 .. MaxDonations
      /\ row.account \in Accounts /\ row.checkpoint \in 0 .. MaxDonations
      /\ conn \in Row
  BY DEF Batch, Row, TypeOK
<1>2. conn.account = row.account /\ conn.status = "connected"
  BY DEF Save, Matches, Connected
<1>3. /\ conn' \in Row /\ conn'.account = row.account
      /\ conn'.checkpoint = IF batch.head = 0 THEN conn.checkpoint ELSE batch.head
      /\ Stays(conn, conn')
  BY <1>1, <1>2 DEF Save, Row, Stays
<1>4. /\ stored' = stored \cup ({row.account} \X batch.items)
      /\ \A d \in Donations : \/ offers'[d] = offers[d]
                              \/ offers'[d] = offers[d] + 1 /\ d \in stored' \ stored
      /\ offers' \in [Donations -> Nat]
  BY DEF Save, Insert, New, TypeOK, Donations
<1>5. {row.account} \X batch.items \subseteq Donations
  BY <1>1 DEF Donations
<1>6. Covered([row EXCEPT !.checkpoint = batch.head], stored')
  <2> SUFFICES ASSUME NEW n \in 1 .. batch.head PROVE <<row.account, n>> \in stored' \cup Malformed
    BY <1>1 DEF Covered, Row
  <2>1. CASE n <= row.checkpoint
    BY <2>1, <1>1, <1>4, BoundAssumption DEF Covered
  <2>2. CASE n > row.checkpoint
    <3>1. n \in batch.items \/ <<row.account, n>> \in Malformed
      BY <2>2, <1>1, BoundAssumption DEF Joins
    <3> QED
      BY <3>1, <1>4
  <2> QED
    BY <2>1, <2>2, <1>1, BoundAssumption
<1>7. Covered(conn', stored')
  <2>1. CASE batch.head = 0
    BY <2>1, <1>2, <1>3, <1>4 DEF TableOK, Covered
  <2>2. CASE batch.head # 0
    BY <2>2, <1>1, <1>3, <1>6 DEF Covered, Row
  <2> QED
    BY <2>1, <2>2
<1>8. \A d \in Donations : offers'[d] # 0 => offers'[d] = 1 /\ d \in stored'
  BY <1>4 DEF TableOK, TypeOK
<1>9. imported' = imported
  BY DEF Save
<1>10. \A d \in Malformed : d \notin stored'
  BY <1>4 DEF TableOK, Joins, Clean
<1>11. TableOK'
  BY <1>2, <1>3, <1>4, <1>7, <1>8, <1>9, <1>10 DEF TableOK, Stays
<1> QED
  BY <1>3, <1>4, <1>5, <1>6, <1>9, <1>11 DEF Grows, Moves, TypeOK

\* A goroutine that may write holds the saved grant.
LEMMA WriterHolds ==
  ASSUME NEW row, NEW saved, NotAhead(row, saved), saved.status = "connected",
         Alike(row, saved), row.id \in Int, row.version \in Int
  PROVE  row.grant = saved.grant
  BY DEF NotAhead, Alike

-----------------------------------------------------------------------------
(* A listener goroutine.                                                   *)

\* A step that keeps the saved row and what the goroutine holds.
LEMMA QuietListener ==
  ASSUME IInv, NEW l \in Slots, TypeOK',
         UNCHANGED <<conn, donations, request, supervisor, worker>>,
         \A m \in Slots \ {l} : listener'[m] = listener[m],
         Alive(l), Held(listener'[l]) = Held(listener[l]), Locals(listener'[l]),
         listener'[l].cancelled = listener[l].cancelled
  PROVE  IInv'
<1> DEFINE x == listener[l]  y == listener'[l]
<1>1. x \in Goroutine /\ y \in Goroutine
  BY DEF IInv, TypeOK
<1>2. TableOK' /\ Grows
  BY Unmoved DEF IInv
<1>3. y.row.account = x.row.account /\ y.row.checkpoint = x.row.checkpoint
  BY <1>1, HeldType
<1>4. Covered(y.row, stored')
  BY <1>3 DEF IInv, ListenerOK, Covered, donations
<1>5. Writes(y, conn') => Writes(x, conn)
  BY DEF Writes, Alive
<1>6. ListenerOK(l)'
  BY <1>4, <1>5 DEF IInv, ListenerOK, supervisor, Alive
<1> QED
  BY <1>2, <1>6, ListenerStep DEF IInv

LEMMA BatchTypes == NoBatch \in Batch /\ 0 \in 0 .. MaxGrants /\ 0 \in Nat
  BY BoundAssumption DEF NoBatch, Batch

LEMMA OverType ==
  ASSUME NEW x \in Goroutine
  PROVE  /\ Over(x) \in Goroutine /\ Over(x).pc = "ended" /\ Over(x).row = x.row
         /\ Over(x).published = x.published /\ Over(x).cancelled = x.cancelled
  BY BatchTypes DEF Over, Goroutine

LEMMA LeaveStep == ASSUME IInv, NEW l \in Slots, Leave(l) PROVE IInv'
<1> USE DEF Leave
<1>1. listener[l] \in Goroutine /\ listener \in [Slots -> Goroutine]
  BY DEF IInv, TypeOK
<1>2. listener'[l] = Over(listener[l]) /\ \A m \in Slots \ {l} : listener'[m] = listener[m]
  BY <1>1
<1>3. TypeOK'
  BY <1>1, OverType DEF IInv, TypeOK, provider, donations, supervisor
<1>4. Held(listener'[l]) = Held(listener[l]) /\ Locals(listener'[l])
  BY <1>1, <1>2, OverType DEF IInv, ListenerOK, Locals, Held
<1> QED
  BY <1>1, <1>2, <1>3, <1>4, OverType, QuietListener DEF Alive

LEMMA PushStep == ASSUME IInv, NEW l \in Slots, Push(l) PROVE IInv'
<1> DEFINE x == listener[l]
<1>1. x \in Goroutine /\ x.row \in Row /\ listener \in [Slots -> Goroutine] /\ TypeOK
  BY DEF IInv, TypeOK, Goroutine
<1>2. PICK batch \in Pushed(x.row) :
         listener' = [listener EXCEPT ![l].pc = "emit", ![l].batch = batch]
  BY DEF Push
<1>3. batch \in Batch /\ Joins(x.row, batch)
  BY <1>1, PushedBatch
<1>4. /\ listener'[l] = [x EXCEPT !.pc = "emit", !.batch = batch]
      /\ \A m \in Slots \ {l} : listener'[m] = listener[m]
      /\ x.pc = "run"
  BY <1>1, <1>2 DEF Push
<1>5. /\ listener'[l] \in Goroutine /\ listener'[l].pc = "emit" /\ listener'[l].batch = batch
      /\ listener'[l].row = x.row /\ listener'[l].published = x.published
      /\ listener'[l].cancelled = x.cancelled
  BY <1>1, <1>3, <1>4 DEF Goroutine
<1>6. TypeOK'
  BY <1>1, <1>2, <1>4, <1>5 DEF Push, TypeOK, provider, donations, supervisor
<1>7. Held(listener'[l]) = Held(x) /\ Locals(listener'[l])
  BY <1>3, <1>4, <1>5 DEF IInv, ListenerOK, Locals, Held
<1> QED
  BY <1>4, <1>5, <1>6, <1>7, QuietListener DEF Push, Alive

\* A step that changes only where the goroutine is.
LEMMA PcStep ==
  ASSUME IInv, NEW l \in Slots, NEW p \in {"refresh", "reject", "error"},
         listener[l].pc \in {"run", "refresh"},
         listener' = [listener EXCEPT ![l].pc = p],
         UNCHANGED <<conn, provider, donations, request, supervisor, worker>>
  PROVE  IInv'
<1> DEFINE x == listener[l]
<1>1. /\ x \in Goroutine /\ x.row \in Row /\ listener \in [Slots -> Goroutine]
      /\ x.row.grant \in 0 .. MaxGrants /\ TypeOK
  BY DEF IInv, TypeOK, Goroutine, Row
<1>2. listener'[l] = [x EXCEPT !.pc = p] /\ \A m \in Slots \ {l} : listener'[m] = listener[m]
  BY <1>1
<1>3. /\ listener'[l] \in Goroutine /\ listener'[l].pc = p /\ listener'[l].row = x.row
      /\ listener'[l].published = x.published /\ listener'[l].cancelled = x.cancelled
  BY <1>1, <1>2 DEF Goroutine
<1>4. listener' \in [Slots -> Goroutine]
  BY <1>1, <1>2, <1>3
<1>5. TypeOK'
  BY <1>1, <1>4 DEF TypeOK, provider, donations, supervisor
<1>6. Held(listener'[l]) = Held(x) /\ Locals(listener'[l])
  BY <1>3 DEF IInv, ListenerOK, Locals, Held
<1> QED
  BY <1>2, <1>3, <1>5, <1>6, QuietListener DEF Alive

LEMMA UnauthorizedStep == ASSUME IInv, NEW l \in Slots, Unauthorized(l) PROVE IInv'
<1>1. CASE listener' = [listener EXCEPT ![l].pc = "reject"]
  BY <1>1, PcStep DEF Unauthorized
<1>2. CASE listener' = [listener EXCEPT ![l].pc = "refresh"]
  BY <1>2, PcStep DEF Unauthorized
<1> QED
  BY <1>1, <1>2 DEF Unauthorized

LEMMA RefreshRejectedStep == ASSUME IInv, NEW l \in Slots, RefreshRejected(l) PROVE IInv'
  BY PcStep DEF RefreshRejected

LEMMA FailStep == ASSUME IInv, NEW l \in Slots, Fail(l) PROVE IInv'
  BY PcStep DEF Fail

LEMMA RotateTypes ==
  ASSUME TypeOK, NEW l \in Slots, Rotate(l)
  PROVE  issued' \in 0 .. MaxGrants /\ live' \subseteq Grants /\ issued + 1 \in 0 .. MaxGrants
<1>1. /\ issued \in 0 .. MaxGrants /\ live \subseteq 1 .. MaxGrants /\ issued < MaxGrants
      /\ issued' = issued + 1
      /\ live' = (live \ {listener[l].row.grant}) \cup {issued + 1}
  BY DEF TypeOK, Rotate, Grants
<1>2. issued + 1 \in 1 .. MaxGrants /\ issued + 1 \in 0 .. MaxGrants
  BY <1>1, BoundAssumption
<1> QED
  BY <1>1, <1>2 DEF Grants

LEMMA RefreshAcceptedStep == ASSUME IInv, NEW l \in Slots, RefreshAccepted(l) PROVE IInv'
<1> DEFINE x == listener[l]
<1>1. /\ x \in Goroutine /\ x.row \in Row /\ listener \in [Slots -> Goroutine]
      /\ x.row.version \in Nat /\ TypeOK /\ issued + 1 \in 0 .. MaxGrants
      /\ x.pc = "refresh"
  BY RotateTypes DEF IInv, TypeOK, Goroutine, Row, RefreshAccepted, Rotate
<1>2. /\ listener'[l] = [x EXCEPT !.pc = "save", !.next = issued + 1,
                                  !.published = x.row.version + 1]
      /\ \A m \in Slots \ {l} : listener'[m] = listener[m]
  BY <1>1 DEF RefreshAccepted
<1>3. /\ listener'[l] \in Goroutine /\ listener'[l].pc = "save" /\ listener'[l].row = x.row
      /\ listener'[l].published = x.row.version + 1 /\ listener'[l].cancelled = x.cancelled
  <2>1. x.row.version + 1 \in Nat
    BY <1>1
  <2> QED
    BY <1>1, <1>2, <2>1 DEF Goroutine
<1>4. listener' \in [Slots -> Goroutine]
  BY <1>1, <1>2, <1>3 DEF RefreshAccepted
<1>5. TypeOK'
  <2>1. issued' \in 0 .. MaxGrants /\ live' \subseteq Grants
    BY <1>1, RotateTypes DEF RefreshAccepted
  <2> QED
    BY <1>1, <1>4, <2>1 DEF RefreshAccepted, TypeOK, donations, supervisor
<1>6. Held(listener'[l]) = Held(x) /\ Locals(listener'[l])
  BY <1>1, <1>3 DEF Locals, Held
<1> QED
  BY <1>1, <1>2, <1>3, <1>5, <1>6, QuietListener DEF RefreshAccepted, Alive

LEMMA RefreshLostStep == ASSUME IInv, NEW l \in Slots, RefreshLost(l) PROVE IInv'
<1>1. listener[l] \in Goroutine /\ listener \in [Slots -> Goroutine] /\ TypeOK
  BY DEF IInv, TypeOK
<1>2. listener'[l] = Over(listener[l]) /\ \A m \in Slots \ {l} : listener'[m] = listener[m]
  BY <1>1 DEF RefreshLost
<1>3. listener' \in [Slots -> Goroutine]
  BY <1>1, OverType DEF RefreshLost
<1>4. TypeOK'
  <2>1. issued' \in 0 .. MaxGrants /\ live' \subseteq Grants
    BY <1>1, RotateTypes DEF RefreshLost
  <2> QED
    BY <1>1, <1>3, <2>1 DEF RefreshLost, TypeOK, donations, supervisor
<1>5. listener[l].pc = "refresh"
  BY DEF RefreshLost, Rotate
<1>6. Held(listener'[l]) = Held(listener[l]) /\ Locals(listener'[l])
  <2>1. Locals(listener[l])
    BY DEF IInv, ListenerOK
  <2> QED
    BY <1>1, <1>2, <1>5, <2>1, OverType DEF Locals, Held
<1> QED
  BY <1>1, <1>2, <1>4, <1>5, <1>6, OverType, QuietListener DEF RefreshLost, Alive

LEMMA AdoptStep == ASSUME IInv, NEW l \in Slots, Adopt(l) PROVE IInv'
<1> DEFINE x == listener[l]
<1>1. /\ x \in Goroutine /\ x.row \in Row /\ listener \in [Slots -> Goroutine]
      /\ x.row.version \in Nat /\ x.next \in 0 .. MaxGrants /\ TypeOK /\ x.pc = "adopt"
  BY DEF IInv, TypeOK, Goroutine, Row, Adopt
<1>2. /\ listener'[l] = [x EXCEPT !.pc = "run", !.refreshed = TRUE, !.next = 0,
                !.row = [x.row EXCEPT !.grant = x.next, !.version = x.row.version + 1]]
      /\ \A m \in Slots \ {l} : listener'[m] = listener[m]
  BY <1>1 DEF Adopt
<1>3. [x.row EXCEPT !.grant = x.next, !.version = x.row.version + 1] \in Row
  <2>1. x.row.version + 1 \in Nat
    BY <1>1
  <2> QED
    BY <1>1, <2>1 DEF Row
<1>4. [x.row EXCEPT !.grant = x.next, !.version = x.row.version + 1]
        = [x.row EXCEPT !.version = x.row.version + 1, !.grant = x.next]
  BY <1>1 DEF Row
<1>5. /\ listener'[l] \in Goroutine /\ listener'[l].pc = "run"
      /\ listener'[l].row = [x.row EXCEPT !.version = x.row.version + 1, !.grant = x.next]
      /\ listener'[l].published = x.published /\ listener'[l].cancelled = x.cancelled
  BY <1>1, <1>2, <1>3, <1>4, BatchTypes DEF Goroutine
<1>6. listener' \in [Slots -> Goroutine]
  BY <1>1, <1>2, <1>5 DEF Adopt
<1>7. TypeOK'
  BY <1>1, <1>6 DEF Adopt, TypeOK, provider, donations, supervisor
<1>8. Held(listener'[l]) = Held(x)
  BY <1>1, <1>5 DEF Held
<1>9. Locals(listener'[l])
  BY <1>5, <1>8 DEF IInv, ListenerOK, Locals
<1> QED
  BY <1>1, <1>2, <1>5, <1>7, <1>8, <1>9, QuietListener DEF Adopt, Alive

\* A step that moves the saved row while the goroutine keeps its generation.
LEMMA MovingListener ==
  ASSUME IInv, NEW l \in Slots, TypeOK', TableOK', Grows,
         UNCHANGED <<request, supervisor, worker>>,
         \A m \in Slots \ {l} : listener'[m] = listener[m],
         Alive(l), Alike(Held(listener[l]), Held(listener'[l])),
         Held(listener'[l]).grant = Held(listener[l]).grant,
         Covered(listener'[l].row, stored'), Locals(listener'[l]),
         listener'[l].cancelled = listener[l].cancelled,
         listener'[l].pc \notin {"reject", "error"}
  PROVE  IInv'
<1> DEFINE x == listener[l]  y == listener'[l]
<1>1. x \in Goroutine /\ y \in Goroutine /\ conn \in Row /\ conn' \in Row
  BY DEF IInv, TypeOK
<1>2. Held(x).id \in Int /\ Held(x).version \in Int
  BY <1>1, HeldType
<1>3. NotAhead(Held(x), conn) /\ NotAhead(Held(x), conn')
  BY <1>1, <1>2, MoveKeeps DEF Grows, Moves, IInv, ListenerOK
<1>4. NotAhead(Held(y), conn')
  BY <1>3 DEF NotAhead, Alike
<1>5. Writes(x, conn') => Writes(x, conn)
  BY <1>1, <1>3, MoveFences DEF Grows, Moves
<1>6. Writes(y, conn') => Writes(x, conn')
  BY DEF Writes, Alike, Alive
<1>7. \A row \in view : Behind(Held(x), row) => Behind(Held(y), row)
  BY DEF Behind, Alike
<1>8. ListenerOK(l)'
  BY <1>4, <1>5, <1>6, <1>7 DEF IInv, ListenerOK, supervisor, Alive
<1> QED
  BY <1>8, ListenerStep

LEMMA SaveLiveStep == ASSUME IInv, NEW l \in Slots, SaveLive(l) PROVE IInv'
<1> DEFINE x == listener[l]  y == listener'[l]
<1>1. /\ x \in Goroutine /\ x.row \in Row /\ x.batch \in Batch
      /\ listener \in [Slots -> Goroutine] /\ TypeOK /\ TableOK /\ x.pc = "emit"
      /\ x.batch.head \in 0 .. MaxDonations
  BY DEF IInv, TypeOK, Goroutine, SaveLive, Batch
<1>2. Covered(x.row, stored) /\ Joins(x.row, x.batch) /\ Locals(x)
  BY <1>1 DEF IInv, ListenerOK, Locals
<1>3. /\ conn' \in Row /\ stored' \subseteq Donations
      /\ offers' \in [Donations -> Nat] /\ imported' = imported
      /\ TableOK' /\ Grows
      /\ Covered([x.row EXCEPT !.checkpoint = x.batch.head], stored')
  BY <1>1, <1>2, SaveKeeps DEF SaveLive
<1>4. Covered(x.row, stored')
  BY <1>2, <1>3 DEF Covered, Grows
<1>5. CASE listener' = [listener EXCEPT ![l].pc = "run", ![l].batch = NoBatch,
                                        ![l].row.checkpoint = x.batch.head]
  <2>1. [x.row EXCEPT !.checkpoint = x.batch.head] \in Row
    BY <1>1 DEF Row
  <2>2. y = [x EXCEPT !.pc = "run", !.batch = NoBatch,
                      !.row = [x.row EXCEPT !.checkpoint = x.batch.head]]
    BY <1>1, <1>5
  <2>3. /\ y \in Goroutine /\ y.pc = "run" /\ y.published = x.published
        /\ y.row = [x.row EXCEPT !.checkpoint = x.batch.head]
        /\ y.cancelled = x.cancelled
    BY <1>1, <2>1, <2>2, BatchTypes DEF Goroutine
  <2>4. \A m \in Slots \ {l} : listener'[m] = listener[m]
    BY <1>1, <1>5
  <2>5. listener' \in [Slots -> Goroutine]
    BY <1>1, <1>5, <2>3
  <2>6. TypeOK'
    BY <1>1, <1>3, <2>5 DEF SaveLive, TypeOK, provider, supervisor
  <2>7. /\ Alike(Held(x), Held(y)) /\ Held(y).grant = Held(x).grant
        /\ Held(y).version = Held(x).version
    BY <1>1, <2>3 DEF Held, Alike, Row
  <2>8. Locals(y)
    BY <1>2, <2>3, <2>7 DEF Locals
  <2> QED
    BY <1>1, <1>3, <2>3, <2>4, <2>6, <2>7, <2>8, MovingListener DEF SaveLive, Alive
<1>6. CASE listener' = [listener EXCEPT ![l] = Over(x)]
  <2>1. y = Over(x) /\ \A m \in Slots \ {l} : listener'[m] = listener[m]
    BY <1>1, <1>6
  <2>2. listener' \in [Slots -> Goroutine]
    BY <1>1, <1>6, OverType
  <2>3. TypeOK'
    BY <1>1, <1>3, <2>2 DEF SaveLive, TypeOK, provider, supervisor
  <2>4. Held(y) = Held(x)
    BY <1>1, <2>1, OverType DEF Held
  <2>5. Locals(y)
    BY <1>1, <1>2, <2>1, <2>4, OverType DEF Locals
  <2> QED
    BY <1>1, <1>3, <1>4, <2>1, <2>3, <2>4, <2>5, OverType, MovingListener
       DEF SaveLive, Alive, Alike
<1> QED
  BY <1>5, <1>6 DEF SaveLive

LEMMA RejectedRow ==
  ASSUME IInv, Connected,
         \/ conn' = [conn EXCEPT !.status = "reauthorization_required"]
         \/ conn' = [conn EXCEPT !.status = "error"]
         \/ conn' = Deleted,
         UNCHANGED donations
  PROVE  conn' \in Row /\ TableOK' /\ Grows
<1>1. conn \in Row /\ SomeAccount \in Accounts
  BY AccountAssumption DEF IInv, TypeOK, SomeAccount
<1>2. /\ conn' \in Row /\ conn'.id = conn.id /\ conn'.status \in Statuses \ {"connected"}
      /\ \/ conn'.status = "absent" /\ conn'.checkpoint = 0
         \/ /\ conn'.version = conn.version /\ conn'.account = conn.account
            /\ conn'.grant = conn.grant /\ conn'.checkpoint = conn.checkpoint
  BY <1>1, BoundAssumption DEF Row, Statuses, Deleted, NoRow
<1>3. conn.status = "connected"
  BY DEF Connected
<1>4. TableOK'
  <2>1. Covered(conn', stored')
    BY <1>2 DEF IInv, TableOK, Covered, donations
  <2>2. conn'.id = 0 => conn'.status = "absent"
    BY <1>2, <1>3 DEF IInv, TableOK
  <2> QED
    BY <2>1, <2>2 DEF IInv, TableOK, donations
<1> QED
  BY <1>2, <1>3, <1>4 DEF Grows, Moves, Ends, donations

\* A goroutine that ends the connection ends itself.
LEMMA EndingStep ==
  ASSUME IInv, NEW l \in Slots, listener[l].pc \in {"reject", "error"}, Connected,
         \/ conn' = [conn EXCEPT !.status = "reauthorization_required"]
         \/ conn' = [conn EXCEPT !.status = "error"]
         \/ conn' = Deleted,
         listener' = [listener EXCEPT ![l] = Over(@)],
         UNCHANGED <<provider, donations, request, supervisor, worker>>
  PROVE  IInv'
<1> DEFINE x == listener[l]  y == listener'[l]
<1>1. x \in Goroutine /\ listener \in [Slots -> Goroutine] /\ TypeOK
  BY DEF IInv, TypeOK
<1>2. y = Over(x) /\ \A m \in Slots \ {l} : listener'[m] = listener[m]
  BY <1>1
<1>3. conn' \in Row /\ TableOK' /\ Grows
  BY RejectedRow
<1>4. listener' \in [Slots -> Goroutine]
  BY <1>1, OverType
<1>5. TypeOK'
  BY <1>1, <1>3, <1>4 DEF TypeOK, provider, donations, supervisor
<1>6. Held(y) = Held(x)
  BY <1>1, <1>2, OverType DEF Held
<1>7. Locals(y) /\ Covered(y.row, stored')
  <2>1. Locals(x) /\ Covered(x.row, stored)
    BY DEF IInv, ListenerOK
  <2> QED
    BY <1>1, <1>2, <1>6, <2>1, OverType DEF Locals, Covered, donations
<1> QED
  BY <1>1, <1>2, <1>3, <1>5, <1>6, <1>7, OverType, MovingListener DEF Alive, Alike

LEMMA RequireReauthorizationStep ==
  ASSUME IInv, NEW l \in Slots, RequireReauthorization(l) PROVE IInv'
  BY EndingStep DEF RequireReauthorization, Matches

LEMMA MarkListenerErrorStep ==
  ASSUME IInv, NEW l \in Slots, MarkListenerError(l) PROVE IInv'
  BY EndingStep DEF MarkListenerError, MarkError, Matches

LEMMA SaveTokensStep == ASSUME IInv, NEW l \in Slots, SaveTokens(l) PROVE IInv'
<1> DEFINE x == listener[l]  y == listener'[l]
<1>1. /\ x \in Goroutine /\ x.row \in Row /\ x.row.version \in Nat /\ x.next \in 0 .. MaxGrants
      /\ listener \in [Slots -> Goroutine] /\ TypeOK /\ TableOK /\ x.pc = "save"
      /\ conn \in Row /\ x.row.version + 1 \in Nat
  BY DEF IInv, TypeOK, Goroutine, Row, SaveTokens
<1>2. /\ conn.status = "connected" /\ Alike(x.row, conn)
      /\ conn' = [conn EXCEPT !.version = conn.version + 1, !.grant = x.next]
  BY DEF SaveTokens, Matches, Connected, Alike
<1>3. /\ conn' \in Row /\ conn'.id = conn.id /\ conn'.version = x.row.version + 1
      /\ conn'.account = conn.account /\ conn'.grant = x.next
      /\ conn'.status = "connected" /\ conn'.checkpoint = conn.checkpoint
  BY <1>1, <1>2 DEF Row, Alike
<1>4. Grows
  BY <1>1, <1>2, <1>3 DEF Grows, Moves, Renewed, Alike, SaveTokens, donations
<1>5. TableOK'
  <2>1. Covered(conn', stored')
    BY <1>1, <1>3 DEF TableOK, Covered, SaveTokens, donations
  <2> QED
    BY <1>1, <1>2, <1>3, <2>1 DEF TableOK, SaveTokens, donations
<1>6. Covered(x.row, stored') /\ Locals(x) /\ ~x.cancelled
  <2>1. Writes(x, conn)
    BY <1>1, <1>2 DEF Writes, Held
  <2> QED
    BY <2>1 DEF IInv, ListenerOK, Covered, SaveTokens, donations
<1>7. CASE listener' = [listener EXCEPT ![l].pc = "adopt"]
  <2>1. /\ y = [x EXCEPT !.pc = "adopt"]
        /\ \A m \in Slots \ {l} : listener'[m] = listener[m]
    BY <1>1, <1>7
  <2>2. /\ y \in Goroutine /\ y.pc = "adopt" /\ y.row = x.row /\ y.next = x.next
        /\ y.published = x.published /\ y.cancelled = x.cancelled
    BY <1>1, <2>1 DEF Goroutine
  <2>3. listener' \in [Slots -> Goroutine]
    BY <1>1, <1>7, <2>2
  <2>4. TypeOK'
    BY <1>1, <1>3, <2>3 DEF SaveTokens, TypeOK, provider, donations, supervisor
  <2>5. /\ Held(y).id = x.row.id /\ Held(y).version = x.row.version + 1
        /\ Held(y).account = x.row.account /\ Held(y).grant = x.next
    BY <1>1, <2>2 DEF Held, Row
  <2>6. NotAhead(Held(y), conn')
    BY <1>2, <1>3, <2>5 DEF NotAhead, Alike
  <2>7. Locals(y)
    BY <1>1, <1>6, <2>2, <2>5 DEF Locals
  <2>8. ASSUME refreshing PROVE view # {} /\ \A row \in view : Behind(Held(y), row)
    <3>1. Writes(x, conn)
      BY <1>1, <1>2 DEF Writes, Held
    <3>2. Held(x) = x.row
      BY <1>1 DEF Held
    <3>3. view # {} /\ \A row \in view : Behind(x.row, row) /\ NotAhead(row, conn)
      BY <2>8, <3>1, <3>2 DEF IInv, ListenerOK, ViewOK
    <3>4. \A row \in view : row.version \in Nat /\ row.id \in Nat
      BY <1>1 DEF TypeOK, Row
    <3>5. conn.id = x.row.id /\ conn.version = x.row.version /\ x.row.id \in Nat
      BY <1>1, <1>2 DEF Alike, Row
    <3> QED
      BY <1>1, <1>2, <2>5, <3>3, <3>4, <3>5 DEF Behind, NotAhead
  <2>9. ListenerOK(l)'
    BY <1>1, <1>6, <2>2, <2>6, <2>7, <2>8 DEF IInv, ListenerOK, SaveTokens, supervisor, Alive
  <2> QED
    BY <1>4, <1>5, <2>1, <2>4, <2>9, ListenerStep DEF SaveTokens
<1>8. CASE listener' = [listener EXCEPT ![l] = Over(x)]
  <2>1. y = Over(x) /\ \A m \in Slots \ {l} : listener'[m] = listener[m]
    BY <1>1, <1>8
  <2>2. listener' \in [Slots -> Goroutine]
    BY <1>1, <1>8, OverType
  <2>3. TypeOK'
    BY <1>1, <1>3, <2>2 DEF SaveTokens, TypeOK, provider, donations, supervisor
  <2>4. Held(y) = Held(x)
    BY <1>1, <2>1, OverType DEF Held
  <2>5. Locals(y) /\ Covered(y.row, stored')
    BY <1>1, <1>6, <2>1, <2>4, OverType DEF Locals
  <2> QED
    BY <1>1, <1>4, <1>5, <2>1, <2>3, <2>4, <2>5, OverType, MovingListener
       DEF SaveTokens, Alive, Alike
<1> QED
  BY <1>7, <1>8 DEF SaveTokens

LEMMA ListenStep == ASSUME IInv, NEW l \in Slots, Listen(l) PROVE IInv'
  BY PushStep, SaveLiveStep, UnauthorizedStep, RefreshAcceptedStep, RefreshLostStep,
     RefreshRejectedStep, SaveTokensStep, AdoptStep, RequireReauthorizationStep, FailStep,
     MarkListenerErrorStep, LeaveStep
     DEF Listen

-----------------------------------------------------------------------------
(* A history worker.                                                       *)

LEMMA RestingType ==
  /\ NoRow \in Row /\ Resting \in Worker /\ Resting.pc = "idle" /\ Resting.row = NoRow
  /\ NoRow.id = 0 /\ NoRow.version = 0 /\ NoRow.checkpoint = 0 /\ NoRow.status = "absent"
  /\ Idle \in Goroutine /\ Idle.pc = "idle" /\ Idle.row = NoRow /\ Idle.published = 0
  /\ Idle.cancelled = FALSE
<1>1. SomeAccount \in Accounts
  BY AccountAssumption DEF SomeAccount
<1>2. NoRow \in Row
  BY <1>1, BoundAssumption DEF NoRow, Row, Statuses
<1> QED
  BY <1>2, BatchTypes DEF NoRow, Resting, Worker, Idle, Goroutine

\* A row that nobody holds.
LEMMA NoRowKept == ASSUME TypeOK, TableOK PROVE NotAhead(NoRow, conn) /\ Covered(NoRow, stored)
  BY RestingType DEF TypeOK, TableOK, Row, NotAhead, Covered

\* A worker's step that leaves the database alone.
LEMMA QuietWorker ==
  ASSUME IInv, NEW h \in Histories, worker' \in [Histories -> Worker],
         \A g \in Histories \ {h} : worker'[g] = worker[g],
         UNCHANGED <<conn, provider, donations, request, supervisor, listener>>,
         NotAhead(worker'[h].row, conn), Covered(worker'[h].row, stored),
         worker'[h].pc = "save" => Joins(worker'[h].row, worker'[h].batch)
  PROVE  IInv'
<1>1. TypeOK'
  BY DEF IInv, TypeOK, provider, donations, supervisor
<1>2. TableOK' /\ Grows
  BY Unmoved DEF IInv
<1>3. WorkerOK(h)'
  BY DEF WorkerOK, donations
<1> QED
  BY <1>1, <1>2, <1>3, WorkerStep

LEMMA DropHistoryStep == ASSUME IInv, NEW h \in Histories, DropHistory(h) PROVE IInv'
<1>1. worker \in [Histories -> Worker] /\ TypeOK /\ TableOK
  BY DEF IInv, TypeOK
<1>2. /\ worker' \in [Histories -> Worker] /\ worker'[h] = Resting
      /\ \A g \in Histories \ {h} : worker'[g] = worker[g]
  BY <1>1, RestingType DEF DropHistory
<1> QED
  BY <1>1, <1>2, RestingType, NoRowKept, QuietWorker DEF DropHistory, TypeOK

LEMMA ReadHistoryStep == ASSUME IInv, NEW h \in Histories, ReadHistory(h) PROVE IInv'
<1>1. worker \in [Histories -> Worker] /\ TypeOK /\ TableOK /\ conn \in Row
  BY DEF IInv, TypeOK
<1>2. worker' = [worker EXCEPT ![h] = [Resting EXCEPT !.pc = "fetch", !.row = conn]]
  BY DEF ReadHistory, Connections
<1>3. /\ [Resting EXCEPT !.pc = "fetch", !.row = conn] \in Worker
      /\ [Resting EXCEPT !.pc = "fetch", !.row = conn].pc = "fetch"
      /\ [Resting EXCEPT !.pc = "fetch", !.row = conn].row = conn
  BY <1>1, RestingType DEF Worker
<1>4. /\ worker' \in [Histories -> Worker] /\ worker'[h].pc = "fetch" /\ worker'[h].row = conn
      /\ \A g \in Histories \ {h} : worker'[g] = worker[g]
  BY <1>1, <1>2, <1>3
<1>5. NotAhead(conn, conn) /\ Covered(conn, stored)
  BY <1>1 DEF NotAhead, TableOK
<1> QED
  BY <1>1, <1>4, <1>5, QuietWorker DEF ReadHistory, TypeOK

LEMMA FetchHistoryStep == ASSUME IInv, NEW h \in Histories, FetchHistory(h) PROVE IInv'
<1> DEFINE x == worker[h]
<1>1. /\ worker \in [Histories -> Worker] /\ TypeOK /\ x \in Worker /\ x.row \in Row
  BY DEF IInv, TypeOK, Worker
<1>2. happened[x.row.account] \in 0 .. MaxDonations
  BY <1>1 DEF TypeOK, Row
<1>3. PICK after \in Nat :
         worker' = [worker EXCEPT ![h].pc = "save", ![h].batch = Fetched(x.row, after)]
  <2>1. PICK after \in (IF h = "recent" THEN 0 .. happened[x.row.account] ELSE {0}) :
           worker' = [worker EXCEPT ![h].pc = "save", ![h].batch = Fetched(x.row, after)]
    BY DEF FetchHistory
  <2>2. after \in Nat
    BY <1>2, <2>1, BoundAssumption
  <2> QED
    BY <2>1, <2>2
<1>4. Fetched(x.row, after) \in Batch /\ Joins(x.row, Fetched(x.row, after))
  BY <1>1, FetchedBatch
<1>5. /\ worker'[h] = [x EXCEPT !.pc = "save", !.batch = Fetched(x.row, after)]
      /\ \A g \in Histories \ {h} : worker'[g] = worker[g]
  BY <1>1, <1>3
<1>6. /\ worker'[h] \in Worker /\ worker'[h].pc = "save" /\ worker'[h].row = x.row
      /\ worker'[h].batch = Fetched(x.row, after)
  BY <1>1, <1>4, <1>5 DEF Worker
<1>7. worker' \in [Histories -> Worker]
  BY <1>1, <1>3, <1>6
<1>8. NotAhead(x.row, conn) /\ Covered(x.row, stored)
  BY DEF IInv, WorkerOK
<1> QED
  BY <1>1, <1>4, <1>5, <1>6, <1>7, <1>8, QuietWorker DEF FetchHistory, TypeOK

LEMMA FailHistoryStep == ASSUME IInv, NEW h \in Histories, FailHistory(h) PROVE IInv'
<1> DEFINE x == worker[h]
<1>1. /\ worker \in [Histories -> Worker] /\ TypeOK /\ x \in Worker /\ x.row \in Row
      /\ x.row.grant \in 0 .. MaxGrants
  BY DEF IInv, TypeOK, Worker, Row
<1>2. /\ worker'[h] = [x EXCEPT !.pc = "error"]
      /\ \A g \in Histories \ {h} : worker'[g] = worker[g]
  BY <1>1 DEF FailHistory
<1>3. worker'[h] \in Worker /\ worker'[h].pc = "error" /\ worker'[h].row = x.row
  BY <1>1, <1>2 DEF Worker
<1>4. worker' \in [Histories -> Worker]
  BY <1>1, <1>2, <1>3 DEF FailHistory
<1>5. NotAhead(x.row, conn) /\ Covered(x.row, stored)
  BY DEF IInv, WorkerOK
<1> QED
  BY <1>1, <1>2, <1>3, <1>4, <1>5, QuietWorker DEF FailHistory, TypeOK

LEMMA SaveHistoryStep == ASSUME IInv, NEW h \in Histories, SaveHistory(h) PROVE IInv'
<1> DEFINE x == worker[h]
<1>1. /\ worker \in [Histories -> Worker] /\ TypeOK /\ TableOK
      /\ x.row \in Row /\ x.batch \in Batch /\ x.pc = "save"
  BY DEF IInv, TypeOK, Worker, SaveHistory
<1>2. Covered(x.row, stored) /\ Joins(x.row, x.batch)
  BY <1>1 DEF IInv, WorkerOK
<1>3. /\ conn' \in Row /\ stored' \subseteq Donations
      /\ offers' \in [Donations -> Nat] /\ imported' = imported
      /\ TableOK' /\ Grows
  BY <1>1, <1>2, SaveKeeps DEF SaveHistory
<1>4. /\ worker' \in [Histories -> Worker] /\ worker'[h] = Resting
      /\ \A g \in Histories \ {h} : worker'[g] = worker[g]
  BY <1>1, RestingType DEF SaveHistory
<1>5. TypeOK'
  BY <1>1, <1>3, <1>4 DEF SaveHistory, TypeOK, provider, supervisor
<1>6. WorkerOK(h)'
  BY <1>3, <1>4, <1>5, NoRowKept, RestingType DEF WorkerOK, NotAhead, Covered, TableOK, TypeOK, Row
<1> QED
  BY <1>3, <1>4, <1>5, <1>6, WorkerStep DEF SaveHistory

LEMMA MarkHistoryErrorStep ==
  ASSUME IInv, NEW h \in Histories, MarkHistoryError(h) PROVE IInv'
<1>1. worker \in [Histories -> Worker] /\ TypeOK
  BY DEF IInv, TypeOK
<1>2. conn' \in Row /\ TableOK' /\ Grows
  BY RejectedRow DEF MarkHistoryError, MarkError, Matches
<1>3. /\ worker' \in [Histories -> Worker] /\ worker'[h] = Resting
      /\ \A g \in Histories \ {h} : worker'[g] = worker[g]
  BY <1>1, RestingType DEF MarkHistoryError
<1>4. TypeOK'
  BY <1>1, <1>2, <1>3 DEF MarkHistoryError, TypeOK, provider, donations, supervisor
<1>5. WorkerOK(h)'
  BY <1>2, <1>3, <1>4, RestingType DEF WorkerOK, NotAhead, Covered, TableOK, TypeOK, Row
<1> QED
  BY <1>2, <1>3, <1>4, <1>5, WorkerStep DEF MarkHistoryError

LEMMA ReplayStep == ASSUME IInv, NEW h \in Histories, Replay(h) PROVE IInv'
  BY ReadHistoryStep, FetchHistoryStep, SaveHistoryStep, FailHistoryStep,
     MarkHistoryErrorStep, DropHistoryStep
     DEF Replay

-----------------------------------------------------------------------------
(* The streamer, the provider and the web requests.                        *)

LEMMA DonateStep == ASSUME IInv, NEW a \in Accounts, Donate(a) PROVE IInv'
<1>1. TypeOK /\ happened[a] + 1 \in 0 .. MaxDonations
  BY BoundAssumption DEF IInv, TypeOK, Donate
<1>2. TypeOK'
  BY <1>1 DEF Donate, TypeOK, donations, supervisor
<1>3. TableOK' /\ Grows
  BY Unmoved DEF IInv, Donate
<1>4. \A r \in Requests : RequestOK(r)'
  BY SameRequests DEF Donate
<1> QED
  BY <1>2, <1>3, <1>4, StreamerStep DEF Donate

LEMMA RevokeStep == ASSUME IInv, NEW g \in live, Revoke(g) PROVE IInv'
<1>1. TypeOK'
  BY DEF IInv, Revoke, TypeOK, donations, supervisor
<1>2. TableOK' /\ Grows
  BY Unmoved DEF IInv, Revoke
<1>3. \A r \in Requests : RequestOK(r)'
  BY SameRequests DEF Revoke
<1> QED
  BY <1>1, <1>2, <1>3, StreamerStep DEF Revoke

LEMMA DisconnectStep == ASSUME IInv, Disconnect PROVE IInv'
<1>1. conn \in Row /\ SomeAccount \in Accounts
  BY AccountAssumption DEF IInv, TypeOK, SomeAccount
<1>2. /\ conn' \in Row /\ conn'.id = conn.id /\ conn'.status = "absent"
      /\ conn'.checkpoint = 0
  BY <1>1, BoundAssumption DEF Disconnect, Row, Statuses, Deleted, NoRow
<1>3. TypeOK'
  BY <1>2 DEF IInv, Disconnect, TypeOK, provider, donations, supervisor
<1>4. TableOK' /\ Grows
  BY <1>2 DEF IInv, TableOK, Covered, Disconnect, donations, Grows, Moves, Ends
<1>5. \A r \in Requests : RequestOK(r)'
  BY SameRequests DEF Disconnect
<1> QED
  BY <1>3, <1>4, <1>5, StreamerStep DEF Disconnect

LEMMA NoRequestType == NoRequest \in Request /\ NoRequest.pc = "none"
<1>1. SomeAccount \in Accounts
  BY AccountAssumption DEF SomeAccount
<1> QED
  BY <1>1, BatchTypes, BoundAssumption DEF NoRequest, Request

LEMMA ConnectFailStep == ASSUME IInv, NEW r \in Requests, ConnectFail(r) PROVE IInv'
<1>1. /\ request' \in [Requests -> Request] /\ request'[r] = NoRequest
      /\ \A q \in Requests \ {r} : request'[q] = request[q]
  BY NoRequestType DEF IInv, TypeOK, ConnectFail
<1>2. TypeOK'
  BY <1>1 DEF IInv, ConnectFail, TypeOK, provider, donations, supervisor
<1>3. TableOK' /\ Grows
  BY Unmoved DEF IInv, ConnectFail
<1>4. \A q \in Requests : RequestOK(q)'
  BY <1>1, NoRequestType DEF IInv, RequestOK
<1> QED
  BY <1>2, <1>3, <1>4, StreamerStep DEF ConnectFail

LEMMA ConnectFetchStep ==
  ASSUME IInv, NEW r \in Requests, NEW a \in Accounts, ConnectFetch(r, a) PROVE IInv'
<1> DEFINE n == happened[a]
           q == [pc |-> "save", account |-> a, grant |-> issued + 1, seen |-> n,
                 batch |-> [items |-> Decoded(a, 1 .. n), head |-> IF Cursor THEN n ELSE 0]]
<1>1. /\ n \in 0 .. MaxDonations /\ issued + 1 \in 1 .. MaxGrants
      /\ issued + 1 \in 0 .. MaxGrants /\ TypeOK
  BY BoundAssumption DEF IInv, TypeOK, ConnectFetch
<1>2. /\ Decoded(a, 1 .. n) \subseteq 1 .. MaxDonations
      /\ (IF Cursor THEN n ELSE 0) \in 0 .. MaxDonations
  BY <1>1, BoundAssumption DEF Decoded
<1>3. q.batch \in Batch
  BY <1>2 DEF Batch
<1>4. q \in Request
  BY <1>1, <1>3 DEF Request
<1>5. /\ request' \in [Requests -> Request] /\ request'[r] = q
      /\ \A p \in Requests \ {r} : request'[p] = request[p]
  BY <1>4 DEF IInv, TypeOK, ConnectFetch
<1>6. TypeOK'
  BY <1>1, <1>5 DEF ConnectFetch, TypeOK, Grants, donations, supervisor
<1>7. TableOK' /\ Grows
  BY Unmoved DEF IInv, ConnectFetch
<1>8. RequestOK(r)'
  BY <1>1, <1>5 DEF RequestOK
<1>9. \A p \in Requests : RequestOK(p)'
  BY <1>5, <1>8 DEF IInv, RequestOK
<1> QED
  BY <1>6, <1>7, <1>9, StreamerStep DEF ConnectFetch

LEMMA SavedRowType ==
  ASSUME TypeOK, TableOK, NEW q \in Request
  PROVE  /\ SavedRow(q) \in Row /\ Renewed(conn, SavedRow(q))
         /\ SavedRow(q).id # 0 /\ SavedRow(q).status = "connected"
         /\ SavedRow(q).account = q.account /\ SavedRow(q).checkpoint = q.batch.head
<1> DEFINE absent == conn.status = "absent"
           s == SavedRow(q)
<1>1. /\ conn \in Row /\ conn.id \in Nat /\ conn.version \in Nat
      /\ q.account \in Accounts /\ q.grant \in 0 .. MaxGrants
      /\ q.batch.head \in 0 .. MaxDonations
  BY DEF TypeOK, Row, Request, Batch
<1>2. conn.id + 1 \in Nat /\ conn.version + 1 \in Nat /\ 1 \in Nat
  BY <1>1
<1>3. /\ s.id = (IF absent THEN conn.id + 1 ELSE conn.id)
      /\ s.version = (IF absent THEN 1 ELSE conn.version + 1)
      /\ s.status = "connected" /\ s.account = q.account /\ s.checkpoint = q.batch.head
  BY DEF SavedRow
<1>4. s \in Row
  BY <1>1, <1>2 DEF SavedRow, Row, Statuses
<1>5. Renewed(conn, s) /\ s.id # 0
  BY <1>1, <1>3 DEF Renewed, TableOK
<1> QED
  BY <1>3, <1>4, <1>5

LEMMA ConnectSaveStep == ASSUME IInv, NEW r \in Requests, ConnectSave(r) PROVE IInv'
<1> DEFINE q == request[r]
           a == q.account
<1>1. /\ TypeOK /\ TableOK /\ q \in Request /\ a \in Accounts
      /\ q.batch.items \subseteq 1 .. MaxDonations
      /\ stored \subseteq Donations /\ imported \in [Accounts -> 0 .. MaxDonations]
  BY DEF IInv, TypeOK, Request, Batch
<1> DEFINE k == q.seen
           items == q.batch.items
<1>2. items = Decoded(a, 1 .. k) /\ q.batch.head \in {0, k}
  BY DEF IInv, RequestOK, ConnectSave
<1>3. k \in Nat /\ k \in 0 .. MaxDonations
  BY <1>1, BoundAssumption DEF Request
<1>4. /\ conn' \in Row /\ Renewed(conn, conn') /\ conn'.id # 0
      /\ conn'.account = a /\ conn'.checkpoint \in {0, k}
  BY <1>1, <1>2, SavedRowType DEF ConnectSave
<1>5. /\ stored' = stored \cup ({a} \X items)
      /\ imported' = [imported EXCEPT ![a] = k]
      /\ offers' = offers
  BY DEF ConnectSave, New
<1>6. stored' \subseteq Donations /\ imported' \in [Accounts -> 0 .. MaxDonations]
  <2>1. {a} \X items \subseteq Donations
    BY <1>1 DEF Donations
  <2> QED
    BY <1>1, <1>3, <1>5, <2>1
<1>7. /\ request' \in [Requests -> Request] /\ request'[r] = NoRequest
      /\ \A p \in Requests \ {r} : request'[p] = request[p]
  BY <1>1, NoRequestType DEF ConnectSave, TypeOK
<1>8. TypeOK'
  BY <1>1, <1>4, <1>5, <1>6, <1>7 DEF ConnectSave, TypeOK, provider, supervisor
<1>9. TableOK'
  <2>0. \A n \in 1 .. k : <<a, n>> \in stored' \cup Malformed
    BY <1>2, <1>5 DEF Decoded
  <2>1. Covered(conn', stored')
    BY <1>3, <1>4, <2>0 DEF Covered
  <2>2. \A b \in Accounts : \A n \in 1 .. imported'[b] : <<b, n>> \in stored' \cup Malformed
    BY <1>1, <1>5, <2>0 DEF TableOK
  <2>3. \A d \in Donations : offers'[d] # 0 => offers'[d] = 1 /\ d \in stored'
    BY <1>1, <1>5 DEF TableOK
  <2>4. \A d \in Malformed : d \notin stored'
    BY <1>1, <1>2, <1>5 DEF TableOK, Decoded
  <2> QED
    BY <1>4, <2>1, <2>2, <2>3, <2>4 DEF TableOK
<1>10. Grows
  BY <1>4, <1>5 DEF Grows, Moves, ConnectSave
<1>11. \A p \in Requests : RequestOK(p)'
  BY <1>7, NoRequestType DEF IInv, RequestOK
<1> QED
  BY <1>8, <1>9, <1>10, <1>11, StreamerStep DEF ConnectSave

LEMMA StreamersStep == ASSUME IInv, Streamer PROVE IInv'
  BY DonateStep, RevokeStep, DisconnectStep, ConnectFetchStep, ConnectSaveStep,
     ConnectFailStep
     DEF Streamer

-----------------------------------------------------------------------------
(* The supervisor.                                                         *)

\* What is left to show for a step of the supervisor.
LEMMA SupervisorStep ==
  ASSUME IInv, TypeOK', UNCHANGED <<conn, donations, request, worker>>, ViewOK',
         \A l \in Slots : ListenerOK(l)'
  PROVE  IInv'
<1>1. TableOK' /\ Grows
  BY Unmoved DEF IInv
<1>2. \A h \in Histories : WorkerOK(h)'
  BY <1>1, OtherWorkers DEF IInv
<1>3. \A r \in Requests : RequestOK(r)'
  BY SameRequests
<1> QED
  BY <1>1, <1>2, <1>3 DEF IInv

LEMMA ReadConnectionsStep == ASSUME IInv, ReadConnections PROVE IInv'
<1>1. conn \in Row /\ TypeOK /\ TableOK
  BY DEF IInv, TypeOK
<1>2. TypeOK'
  BY <1>1 DEF ReadConnections, Connections, TypeOK, provider, donations
<1>3. ViewOK'
  BY <1>1 DEF ReadConnections, Connections, ViewOK, TableOK, NotAhead, donations
<1>4. ASSUME NEW l \in Slots PROVE ListenerOK(l)'
  <2>1. ListenerOK(l)
    BY DEF IInv
  <2>2. view' = {} => ~Writes(listener[l], conn)
    BY DEF ReadConnections, Connections, Connected, Writes
  <2>3. ASSUME NEW row \in view' PROVE Behind(Held(listener[l]), row)
    BY <2>1, <2>3 DEF ReadConnections, Connections, Connected, ListenerOK, NotAhead, Behind
  <2> QED
    BY <2>1, <2>2, <2>3 DEF ReadConnections, ListenerOK, Alive, donations
<1> QED
  BY <1>2, <1>3, <1>4, SupervisorStep DEF ReadConnections

\* The stop that ~Keeps gives is never one of a listener that may write.
LEMMA StoppedIsBehind ==
  ASSUME IInv, refreshing, ~Keeps, running \in Slots
  PROVE  ~Writes(listener[running], conn)
<1> DEFINE x == listener[running]
<1>1. /\ x \in Goroutine /\ conn \in Row /\ ListenerOK(running) /\ ViewOK
      /\ view \subseteq Row /\ x.published \in Nat
      /\ x.row.version \in Nat /\ x.row.id \in Nat
  BY DEF IInv, TypeOK, Goroutine, Row
<1>2. CASE view = {}
  BY <1>1, <1>2 DEF ListenerOK
<1>3. ASSUME NEW row \in view, Writes(x, conn) PROVE FALSE
  <2>1. /\ row.id \in Nat /\ row.version \in Nat /\ conn.id \in Nat /\ conn.version \in Nat
        /\ Held(x).id \in Nat /\ Held(x).version \in Nat
        /\ Held(x).id = x.row.id /\ Held(x).account = x.row.account
    BY <1>1, HeldType DEF Row
  <2>2. /\ NotAhead(row, conn) /\ Behind(Held(x), row) /\ Held(x).version <= x.published
    BY <1>1 DEF ViewOK, ListenerOK, Locals
  <2>3. /\ conn.id = Held(x).id /\ conn.account = Held(x).account
        /\ conn.version = Held(x).version /\ conn.status = "connected"
    BY <1>3 DEF Writes, Alike
  <2>4. row.id = Held(x).id /\ row.version <= Held(x).version
    BY <2>1, <2>2, <2>3 DEF NotAhead, Behind
  <2>5. row.account = Held(x).account
    BY <2>1, <2>2, <2>4 DEF Behind
  <2>6. ~ReplacedBy(running, row)
    BY <1>1, <2>1, <2>2, <2>4, <2>5 DEF ReplacedBy
  <2>7. running # NoEntry
    BY SlotAssumption
  <2> QED
    BY <2>6, <2>7 DEF Keeps
<1> QED
  BY <1>2, <1>3

LEMMA StartedType ==
  ASSUME NEW row \in Row
  PROVE  /\ Started(row) \in Goroutine /\ Started(row).pc = "run" /\ Started(row).row = row
         /\ Started(row).published = row.version /\ Started(row).cancelled = FALSE
         /\ Idle \in Goroutine /\ Idle.pc = "idle" /\ Idle.row = NoRow
         /\ Idle.published = 0 /\ Idle.cancelled = FALSE
<1>1. row.version \in Nat
  BY DEF Row
<1>2. NoRow \in Row
  BY RestingType DEF Resting, Worker
<1> QED
  BY <1>1, <1>2, BatchTypes DEF Started, Idle, Goroutine

LEMMA ReconcileStep == ASSUME IInv, Reconcile PROVE IInv'
<1> DEFINE told(l) == [listener[l] EXCEPT !.cancelled = @ \/ (l = running /\ ~Keeps)]
           cancelled == [l \in Slots |-> [listener[l] EXCEPT
                             !.cancelled = @ \/ (l = running /\ ~Keeps)]]
<1>1. /\ TypeOK /\ ViewOK /\ listener \in [Slots -> Goroutine] /\ view \subseteq Row
      /\ refreshing /\ refreshing' = FALSE /\ view' = {}
      /\ UNCHANGED <<conn, provider, donations, request, worker>>
  BY DEF IInv, TypeOK, Reconcile
<1>2. ViewOK'
  BY <1>1 DEF ViewOK
<1>3. ASSUME NEW l \in Slots
      PROVE  /\ told(l) \in Goroutine /\ told(l).pc = listener[l].pc
             /\ told(l).row = listener[l].row /\ told(l).published = listener[l].published
             /\ told(l).batch = listener[l].batch /\ Held(told(l)) = Held(listener[l])
             /\ told(l).cancelled <=> listener[l].cancelled \/ (l = running /\ ~Keeps)
  <2>1. listener[l] \in Goroutine
    BY <1>1
  <2>2. told(l) = [listener[l] EXCEPT !.cancelled =
                       listener[l].cancelled \/ (l = running /\ ~Keeps)]
    OBVIOUS
  <2>3. (listener[l].cancelled \/ (l = running /\ ~Keeps)) \in BOOLEAN
    OBVIOUS
  <2> HIDE DEF told
  <2>4. /\ told(l) \in Goroutine /\ told(l).pc = listener[l].pc
        /\ told(l).row = listener[l].row /\ told(l).published = listener[l].published
        /\ told(l).batch = listener[l].batch /\ told(l).next = listener[l].next
        /\ told(l).cancelled <=> listener[l].cancelled \/ (l = running /\ ~Keeps)
    BY <2>1, <2>2, <2>3 DEF Goroutine
  <2> QED
    BY <2>4 DEF Held
<1> HIDE DEF told
<1>4. ASSUME NEW l \in Slots, listener'[l] = told(l), running' # l \/ Keeps,
             Keeps => running' = running
      PROVE  ListenerOK(l)'
  <2>1. ListenerOK(l)
    BY DEF IInv
  <2>2. Locals(told(l)) /\ Covered(told(l).row, stored)
    BY <1>3, <2>1 DEF ListenerOK, Locals
  <2>3. told(l).cancelled => ~Writes(told(l), conn)
    <3>1. ~Writes(listener[l], conn) => ~Writes(told(l), conn)
      BY <1>3 DEF Writes
    <3>2. CASE listener[l].cancelled
      BY <2>1, <3>1, <3>2 DEF ListenerOK
    <3>3. CASE l = running /\ ~Keeps
      BY <1>1, <3>1, <3>3, StoppedIsBehind
    <3> QED
      BY <1>3, <3>2, <3>3
  <2>4. told(l).pc \notin {"idle", "ended"} /\ ~told(l).cancelled => running' = l
    BY <1>3, <1>4, <2>1 DEF ListenerOK, Alive
  <2> QED
    BY <1>1, <1>3, <1>4, <2>1, <2>2, <2>3, <2>4 DEF ListenerOK, Alive, donations
<1>5. CASE Keeps /\ UNCHANGED <<running, listener>>
  <2>1. TypeOK'
    BY <1>1, <1>5 DEF TypeOK, provider, donations
  <2>2. ASSUME NEW l \in Slots PROVE ListenerOK(l)'
    BY <1>1, <1>5 DEF IInv, ListenerOK, Alive, donations
  <2> QED
    BY <1>1, <1>2, <2>1, <2>2, SupervisorStep
<1>6. CASE ~Keeps /\ running' = NoEntry /\ listener' = cancelled
  <2>1. \A l \in Slots : listener'[l] = told(l)
    BY <1>6 DEF told
  <2>2. listener' \in [Slots -> Goroutine]
    BY <1>3, <1>6, <2>1
  <2>3. TypeOK'
    BY <1>1, <1>6, <2>2 DEF TypeOK, provider, donations
  <2>4. ASSUME NEW l \in Slots PROVE ListenerOK(l)'
    BY <1>4, <1>6, <2>1, SlotAssumption
  <2> QED
    BY <1>1, <1>2, <2>3, <2>4, SupervisorStep
<1>7. ASSUME ~Keeps, NEW row \in view, NEW n \in Slots, running' = n,
             listener' = [cancelled EXCEPT ![n] = Started(row)]
      PROVE  IInv'
  <2>1. listener'[n] = Started(row) /\ \A l \in Slots \ {n} : listener'[l] = told(l)
    BY <1>7 DEF told
  <2>2. row \in Row /\ row.version \in Nat
    BY <1>1 DEF Row
  <2>3. listener' \in [Slots -> Goroutine]
    <3>1. Started(row) \in Goroutine
      BY <2>2, StartedType
    <3>2. \A l \in Slots : listener'[l] \in Goroutine
      BY <1>3, <2>1, <3>1
    <3>3. listener' = [l \in Slots |-> listener'[l]]
      BY <1>7
    <3> QED
      BY <3>2, <3>3
  <2>4. TypeOK'
    BY <1>1, <1>7, <2>3 DEF TypeOK, provider, donations
  <2>5. ASSUME NEW l \in Slots \ {n} PROVE ListenerOK(l)'
    BY <1>4, <1>7, <2>1
  <2>6. ListenerOK(n)'
    <3>1. Held(Started(row)) = row
      BY <2>2, StartedType DEF Held
    <3>2. Locals(Started(row))
      <4> DEFINE x == Started(row)
      <4>1. x.pc = "run" /\ x.published = row.version /\ Held(x) = row
        BY <2>2, <3>1, StartedType
      <4>2. row.version <= row.version
        BY <2>2
      <4> HIDE DEF x
      <4>3. Locals(x)
        BY <4>1, <4>2 DEF Locals
      <4> QED
        BY <4>3 DEF x
    <3> QED
      BY <1>1, <1>7, <2>1, <2>2, <3>1, <3>2, StartedType DEF ViewOK, ListenerOK, donations
  <2> QED
    BY <1>1, <1>2, <2>4, <2>5, <2>6, SupervisorStep
<1> QED
  BY <1>5, <1>6, <1>7 DEF Reconcile

LEMMA CompletedStep == ASSUME IInv, NEW l \in Slots, Completed(l) PROVE IInv'
<1>1. TypeOK /\ TableOK /\ ViewOK
  BY DEF IInv
<1>2. Idle \in Goroutine /\ Idle.pc = "idle" /\ Idle.row = NoRow
      /\ Idle.published = 0 /\ Idle.cancelled = FALSE
  BY RestingType, StartedType DEF Resting, Worker
<1>3. /\ listener' \in [Slots -> Goroutine] /\ listener'[l] = Idle
      /\ \A m \in Slots \ {l} : listener'[m] = listener[m]
  BY <1>1, <1>2 DEF Completed, TypeOK
<1>4. TypeOK'
  BY <1>1, <1>3 DEF Completed, TypeOK, provider, donations
<1>5. ViewOK'
  BY <1>1 DEF Completed, ViewOK, donations
<1>6. ListenerOK(l)'
  BY <1>1, <1>2, <1>3, NoRowKept
     DEF Completed, ListenerOK, Held, Locals, Writes, Alive, NoRow, donations
<1>7. ASSUME NEW m \in Slots \ {l} PROVE ListenerOK(m)'
  BY <1>3 DEF IInv, Completed, ListenerOK, Alive, donations
<1> QED
  BY <1>4, <1>5, <1>6, <1>7, SupervisorStep DEF Completed

LEMMA AtRest ==
  ASSUME TableOK, TypeOK,
         request = [r \in Requests |-> NoRequest], view = {}, refreshing = FALSE,
         running = NoEntry, listener = [l \in Slots |-> Idle],
         worker = [h \in Histories |-> Resting]
  PROVE  IInv
<1>1. /\ Idle.pc = "idle" /\ Idle.row = NoRow /\ Idle.published = 0
      /\ Idle.cancelled = FALSE
  BY DEF Idle
<1>2. Resting.pc = "idle" /\ Resting.row = NoRow
  BY DEF Resting
<1>3. NotAhead(NoRow, conn) /\ Covered(NoRow, stored)
  BY NoRowKept
<1>4. Held(Idle) = NoRow /\ NoRow.version = 0
  BY <1>1 DEF Held, NoRow
<1>5. Locals(Idle)
  BY <1>1, <1>4 DEF Locals
<1>6. \A l \in Slots : ListenerOK(l)
  BY <1>1, <1>3, <1>4, <1>5 DEF ListenerOK, Alive
<1>7. \A h \in Histories : WorkerOK(h)
  BY <1>2, <1>3 DEF WorkerOK
<1>8. \A r \in Requests : RequestOK(r)
  BY NoRequestType DEF RequestOK
<1> QED
  BY <1>6, <1>7, <1>8 DEF IInv, ViewOK

LEMMA RestType ==
  /\ [r \in Requests |-> NoRequest] \in [Requests -> Request]
  /\ [l \in Slots |-> Idle] \in [Slots -> Goroutine]
  /\ [h \in Histories |-> Resting] \in [Histories -> Worker]
  /\ NoRow \in Row
<1>1. Resting \in Worker /\ NoRow \in Row
  BY RestingType DEF Resting, Worker
<1>2. Idle \in Goroutine
  BY <1>1, StartedType
<1> QED
  BY <1>1, <1>2, NoRequestType

LEMMA RestartStep == ASSUME IInv, Restart PROVE IInv'
<1>1. TypeOK'
  BY RestType DEF IInv, Restart, TypeOK, provider, donations
<1>2. TableOK'
  BY DEF IInv, Restart, TableOK, Covered, donations
<1>3. /\ request' = [r \in Requests |-> NoRequest] /\ view' = {} /\ refreshing' = FALSE
      /\ running' = NoEntry /\ listener' = [l \in Slots |-> Idle]
      /\ worker' = [h \in Histories |-> Resting]
  BY DEF Restart
<1>4. (TableOK /\ TypeOK
       /\ request = [r \in Requests |-> NoRequest] /\ view = {} /\ refreshing = FALSE
       /\ running = NoEntry /\ listener = [l \in Slots |-> Idle]
       /\ worker = [h \in Histories |-> Resting] => IInv)'
  BY AtRest, PTL
<1> QED
  BY <1>1, <1>2, <1>3, <1>4

LEMMA InitHolds == Init => IInv
<1> SUFFICES ASSUME Init PROVE IInv
  OBVIOUS
<1>1. 0 \in 0 .. MaxDonations /\ 0 \in 0 .. MaxGrants /\ 0 \in Nat
  BY BoundAssumption
<1>2. TypeOK
  BY <1>1, RestType DEF Init, TypeOK
<1>3. Covered(NoRow, stored) /\ NoRow.id = 0 /\ NoRow.status = "absent"
  BY DEF Covered, NoRow
<1>4. TableOK
  BY <1>3 DEF Init, TableOK
<1> QED
  BY <1>2, <1>4, AtRest DEF Init

LEMMA Stutter == IInv /\ UNCHANGED vars => IInv'
<1> SUFFICES ASSUME IInv, UNCHANGED vars PROVE IInv'
  OBVIOUS
<1>1. TypeOK'
  BY DEF IInv, TypeOK, vars, provider, donations, supervisor
<1>2. TableOK' /\ Grows
  BY Unmoved DEF IInv, vars
<1>3. \A r \in Requests : RequestOK(r)'
  BY SameRequests DEF vars
<1> QED
  BY <1>1, <1>2, <1>3, StreamerStep DEF vars

LEMMA SuperviseStep == ASSUME IInv, Supervise PROVE IInv'
  BY ReadConnectionsStep, ReconcileStep, CompletedStep DEF Supervise

LEMMA NextKeeps == IInv /\ [Next]_vars => IInv'
  BY StreamersStep, SuperviseStep, ListenStep, ReplayStep, RestartStep, Stutter DEF Next

-----------------------------------------------------------------------------
(* The theorems.                                                           *)

\* The strengthening holds in every reachable state: it is what each action of
\* the service, the streamer and the provider keeps.
THEOREM Invariance == Spec => []IInv
  BY InitHolds, NextKeeps, PTL DEF Spec

\* For every number of accounts, requests, goroutines and workers, and for every
\* provider style, the variables keep their types.
THEOREM TypeCorrect == Spec => []TypeOK
<1>1. IInv => TypeOK
  BY DEF IInv
<1> QED
  BY <1>1, Invariance, PTL

\* However many goroutines linger, at most one listener of the user is not told
\* to stop (refreshListeners and runningListener).
THEOREM OneListenerHolds == Spec => []OneListener
<1>1. IInv => OneListener
  BY DEF IInv, OneListener, ListenerOK
<1> QED
  BY <1>1, Invariance, PTL

\* A snapshot of the connection table, of whatever age, makes the supervisor
\* stop no listener that serves the saved connection.
THEOREM ServingListenerIsKept == Spec => []ServingListenerKept
<1>1. IInv => ServingListenerKept
  BY ServesWrites DEF IInv, ServingListenerKept, ListenerOK
<1> QED
  BY <1>1, Invariance, PTL

\* However the live, recovery and initial batches overlap, EnqueueIncoming gets
\* a donation once at most.
THEOREM OfferedOnceHolds == Spec => []OfferedOnce
<1>1. ASSUME IInv PROVE OfferedOnce
  <2> SUFFICES ASSUME NEW d \in Donations PROVE offers[d] <= 1
    BY DEF OfferedOnce
  <2>1. offers[d] \in Nat /\ (offers[d] # 0 => offers[d] = 1)
    BY <1>1 DEF IInv, TypeOK, TableOK
  <2> QED
    BY <2>1
<1> QED
  BY <1>1, Invariance, PTL

\* The checkpoint that lets a history walk stop is never past a donation that is
\* not stored, other than one whose row was rejected: such a row may even be the
\* checkpoint, and is never stored (TableOK).
THEOREM CheckpointIsCovered == Spec => []CheckpointCovers
<1>1. IInv => CheckpointCovers
  BY DEF IInv, TableOK, CheckpointCovers, Covered
<1> QED
  BY <1>1, Invariance, PTL

\* Every step that reaches the two tables, and no other.
LEMMA Writers ==
  ASSUME [Next]_vars
  PROVE  \/ UNCHANGED <<conn, donations>>
         \/ \E l \in Slots : SaveLive(l) \/ SaveTokens(l) \/ RequireReauthorization(l)
                             \/ MarkListenerError(l)
         \/ \E h \in Histories : SaveHistory(h) \/ MarkHistoryError(h)
         \/ \E r \in Requests : ConnectSave(r)
         \/ Disconnect
<1>1. CASE Streamer
  BY <1>1 DEF Streamer, Donate, Revoke, ConnectFetch, ConnectFail
<1>2. CASE Supervise \/ Restart
  BY <1>2 DEF Supervise, ReadConnections, Reconcile, Completed, Restart
<1>3. ASSUME NEW l \in Slots, Listen(l)
      PROVE  \/ UNCHANGED <<conn, donations>>
             \/ SaveLive(l) \/ SaveTokens(l) \/ RequireReauthorization(l)
             \/ MarkListenerError(l)
  BY <1>3 DEF Listen, Push, Unauthorized, RefreshAccepted, RefreshLost, RefreshRejected,
              Adopt, Fail, Leave
<1>4. ASSUME NEW h \in Histories, Replay(h)
      PROVE  UNCHANGED <<conn, donations>> \/ SaveHistory(h) \/ MarkHistoryError(h)
  BY <1>4 DEF Replay, ReadHistory, FetchHistory, FailHistory, DropHistory
<1>5. CASE UNCHANGED vars
  BY <1>5 DEF vars
<1> QED
  BY <1>1, <1>2, <1>3, <1>4, <1>5 DEF Next

\* What Save may add, and what it may offer.
LEMMA SaveOffersNew ==
  ASSUME TypeOK, NEW row, NEW batch, Save(row, batch), NEW d \in Donations
  PROVE  /\ d \in stored' \ stored => d[1] = conn.account
         /\ offers'[d] # offers[d] => d \in stored' \ stored
         /\ conn'.account = conn.account /\ conn'.status = "connected"
  BY DEF TypeOK, Row, Save, Matches, Connected, Insert, New, Donations

\* What ends a connection other than its streamer is a goroutine that was
\* refused with the very grant the row holds.
LEMMA SavedGrant ==
  ASSUME NEW row \in Row, NotAhead(row, conn), Matches(row)
  PROVE  conn.grant = row.grant
<1>1. row.id \in Int /\ row.version \in Int /\ conn.status = "connected" /\ Alike(row, conn)
  BY DEF Row, Matches, Connected, Alike
<1> QED
  BY <1>1, WriterHolds

\* A donation row is only ever written while its account is the connected one,
\* for every number of concurrent writers.
THEOREM WritersAreFenced == Spec => FencedWriters
<1>1. ASSUME IInv, [Next]_vars, NEW d \in stored' \ stored
      PROVE  conn'.status = "connected" /\ conn'.account = d[1]
  <2>1. TypeOK /\ d \in Donations
    BY <1>1, NextKeeps DEF IInv, TypeOK
  <2>2. \A l \in Slots : SaveLive(l) => conn'.status = "connected" /\ conn'.account = d[1]
    BY <1>1, <2>1, SaveOffersNew DEF SaveLive
  <2>3. \A h \in Histories : SaveHistory(h) => conn'.status = "connected" /\ conn'.account = d[1]
    BY <1>1, <2>1, SaveOffersNew DEF SaveHistory
  <2>4. \A r \in Requests : ConnectSave(r) => conn'.status = "connected" /\ conn'.account = d[1]
    BY <1>1, <2>1 DEF ConnectSave, SavedRow, New
  <2>5. UNCHANGED stored => FALSE
    BY <1>1
  <2> QED
    BY <1>1, <2>2, <2>3, <2>4, <2>5, Writers
       DEF donations, SaveTokens, RequireReauthorization, MarkListenerError,
           MarkHistoryError, Disconnect
<1>2. IInv /\ [Next]_vars
         => [\A d \in stored' \ stored : conn'.status = "connected" /\ conn'.account = d[1]]_vars
  BY <1>1
<1> QED
  BY <1>2, Invariance, PTL DEF Spec, FencedWriters

\* What a saved import covers never becomes an alert, in whatever order the
\* import, the live batches and the history pages are saved.
THEOREM ImportedHistoryIsSilent == Spec => HistoryIsSilent
<1>1. ASSUME IInv, [Next]_vars, NEW d \in Donations, offers'[d] > offers[d]
      PROVE  d[2] > imported[d[1]]
  <2>1. /\ TypeOK /\ TableOK /\ d[1] \in Accounts /\ d[2] \in 1 .. MaxDonations
        /\ imported[d[1]] \in Nat /\ d = <<d[1], d[2]>> /\ offers[d] \in Nat
    BY <1>1, BoundAssumption DEF IInv, TypeOK, Donations
  <2>2. offers'[d] # offers[d]
    BY <1>1, <2>1
  <2>3. d \in stored' \ stored
    <3>1. \A l \in Slots : SaveLive(l) => d \in stored' \ stored
      BY <2>1, <2>2, SaveOffersNew DEF SaveLive
    <3>2. \A h \in Histories : SaveHistory(h) => d \in stored' \ stored
      BY <2>1, <2>2, SaveOffersNew DEF SaveHistory
    <3> QED
      BY <1>1, <2>2, <3>1, <3>2, Writers
         DEF donations, ConnectSave, SaveTokens, RequireReauthorization,
             MarkListenerError, MarkHistoryError, Disconnect
  <2>4. d \notin Malformed
    <3>1. IInv'
      BY <1>1, NextKeeps
    <3> QED
      BY <2>3, <3>1 DEF IInv, TableOK
  <2>5. d[2] \in 1 .. imported[d[1]] => <<d[1], d[2]>> \in stored
    BY <2>1, <2>4 DEF TableOK
  <2> QED
    BY <2>1, <2>3, <2>5, BoundAssumption
<1>2. IInv /\ [Next]_vars
         => [\A d \in Donations : offers'[d] > offers[d] => d[2] > imported[d[1]]]_vars
  BY <1>1
<1> QED
  BY <1>2, Invariance, PTL DEF Spec, HistoryIsSilent

\* Late answers about older credentials end no connection, however many
\* rotations and reconnects lie between.
THEOREM OnlyRefusedEndsHolds == Spec => OnlyRefusedEnds
<1>1. ASSUME IInv, [Next]_vars, Connected, conn'.status # "connected"
      PROVE  conn.grant \in Refused \/ Disconnect
  <2>1. /\ TypeOK /\ conn \in Row /\ conn.status = "connected"
        /\ \A l \in Slots : listener[l].row \in Row /\ ListenerOK(l)
        /\ \A h \in Histories : worker[h].row \in Row /\ WorkerOK(h)
    BY <1>1 DEF IInv, TypeOK, Goroutine, Worker, Connected
  <2>2. ASSUME NEW l \in Slots, listener[l].pc \in {"reject", "error"},
               Matches(listener[l].row)
        PROVE  conn.grant \in Refused
    BY <1>1, <2>1, <2>2, SavedGrant DEF ListenerOK, Held, Refused
  <2>3. ASSUME NEW h \in Histories, worker[h].pc = "error", Matches(worker[h].row)
        PROVE  conn.grant \in Refused
    BY <1>1, <2>1, <2>3, SavedGrant DEF WorkerOK, Refused
  <2>4. ASSUME NEW l \in Slots, RequireReauthorization(l) \/ MarkListenerError(l)
        PROVE  conn.grant \in Refused
    BY <2>2, <2>4 DEF RequireReauthorization, MarkListenerError, MarkError
  <2>5. ASSUME NEW h \in Histories, MarkHistoryError(h)
        PROVE  conn.grant \in Refused
    BY <2>3, <2>5 DEF MarkHistoryError, MarkError
  <2>6. ASSUME NEW l \in Slots, SaveLive(l) \/ SaveTokens(l)
        PROVE  conn'.status = conn.status
    BY <2>1, <2>6 DEF SaveLive, SaveTokens, Save, Row
  <2>7. ASSUME NEW h \in Histories, SaveHistory(h)
        PROVE  conn'.status = conn.status
    BY <2>1, <2>7 DEF SaveHistory, Save, Row
  <2>8. ASSUME NEW r \in Requests, ConnectSave(r)
        PROVE  conn'.status = "connected"
    BY <2>8 DEF ConnectSave, SavedRow
  <2> QED
    BY <1>1, <2>1, <2>4, <2>5, <2>6, <2>7, <2>8, Writers
<1>2. IInv /\ [Next]_vars
         => [Connected /\ conn'.status # "connected" => conn.grant \in Refused \/ Disconnect]_vars
  BY <1>1
<1> QED
  BY <1>2, Invariance, PTL DEF Spec, OnlyRefusedEnds

=============================================================================
