-------------------------- MODULE VideoQueueProofs --------------------------
(***************************************************************************)
(* Theorems about VideoQueue, for every number of workers and requests.    *)
(*                                                                         *)
(* A step writes rows one by one (With, Updated) or all at once            *)
(* (setQueueCurrency).  The first half says what a written row is, the     *)
(* second that every step writes only such rows.                           *)
(***************************************************************************)
EXTENDS VideoQueue, TLAPS

-----------------------------------------------------------------------------
(* Rows.                                                                    *)

(* A row has a priority exactly when it can be rated. *)
Ranked(row) == row.priority = "none" <=> ~Rated(row)

Sound(row) == row \in Row /\ Ranked(row)

PricesSound == thresholds \in [Priorities -> Nat] /\ thresholds["default"] = 0 /\ thresholds["paid"] > 0

(* The amount is in the currency, or is one of those Misleads names. *)
Counted(row, unit) == Misleads(row) \/ row.unit = unit

LEMMA NullRow == NoRow \in Row /\ Sound(NoRow) /\ NoRow.priority = "none"
BY DEF NoRow, Row, Sound, Ranked, Rated, Null, Starts, Ends, Durations, Priorities, QueueNames, Currencies

(* The default threshold is always reached. *)
LEMMA EarnedPriority ==
  ASSUME NEW row \in Row, row.amount # Null, NEW prices \in [Priorities -> Nat], prices["default"] = 0
  PROVE  Earned(row, prices) \in Priorities
<1> DEFINE reached == {p \in Priorities : prices[p] * (row.end - row.start) <= row.amount}
<1>1. row.end \in Int /\ row.start \in Int /\ row.amount \in Nat
  BY DEF Row, Null, Starts, Ends, Durations
<1>2. prices["default"] * (row.end - row.start) = 0
  BY <1>1
<1>3. "default" \in reached
  BY <1>1, <1>2 DEF Priorities
<1>4. prices["default"] \in Nat /\ prices["paid"] \in Nat
  BY DEF Priorities
<1>5. \E p \in reached : \A q \in reached : prices[q] <= prices[p]
  <2>1. CASE "paid" \in reached
    BY <1>3, <1>4, <2>1 DEF Priorities
  <2>2. CASE "paid" \notin reached
    BY <1>3, <1>4, <2>2 DEF Priorities
  <2> QED
    BY <2>1, <2>2
<1>6. (CHOOSE p \in reached : \A q \in reached : prices[q] <= prices[p]) \in reached
  BY <1>5
<1> QED
  BY <1>6 DEF Earned

LEMMA TriggerSound ==
  ASSUME NEW row \in Row, NEW old \in Row, NEW retain \in BOOLEAN,
         NEW prices \in [Priorities -> Nat], prices["default"] = 0
  PROVE  LET new == set_video_priority_id(row, old, retain, prices)
         IN  /\ Sound(new) /\ new.amount = row.amount /\ new.unit = row.unit
             /\ new.stale = row.stale /\ new.missed = row.missed
<1> DEFINE priority == IF ~Rated(row) THEN "none"
                       ELSE IF old.priority # "none" /\ (row.amount = old.amount \/ retain) /\ SameTiming(row, old)
                            THEN old.priority ELSE Earned(row, prices)
           new == [row EXCEPT !.priority = priority]
<1>1. set_video_priority_id(row, old, retain, prices) = new
  BY DEF set_video_priority_id
<1>2. priority \in Priorities \cup {"none"} /\ (priority = "none" <=> ~Rated(row))
  <2>1. CASE ~Rated(row)
    BY <2>1
  <2>2. CASE Rated(row)
    <3>1. Earned(row, prices) \in Priorities
      BY <2>2, EarnedPriority DEF Rated
    <3>2. old.priority \in Priorities \cup {"none"}
      BY DEF Row
    <3> QED
      BY <2>2, <3>1, <3>2 DEF Priorities
  <2> QED
    BY <2>1, <2>2
<1> HIDE DEF priority
<1>3. new \in Row /\ new.priority = priority /\ new.amount = row.amount /\ new.unit = row.unit
      /\ new.stale = row.stale /\ new.missed = row.missed
      /\ new.end = row.end /\ new.start = row.start /\ new.duration = row.duration
  BY <1>2 DEF Row
<1>4. Rated(new) <=> Rated(row)
  BY <1>3 DEF Rated
<1> QED
  BY <1>1, <1>2, <1>3, <1>4 DEF Sound, Ranked

(* Money is rescaled to a natural number. *)
LEMMA RescaledNatural ==
  ASSUME NEW number \in Nat, NEW from \in Currencies, NEW to \in Currencies
  PROVE  Rescaled(number, conversionFactorForCurrencyChange(from, to)) \in Nat
<1>1. CASE Worth[from] > Worth[to]
  BY <1>1 DEF Rescaled, conversionFactorForCurrencyChange, Rate
<1>2. CASE ~(Worth[from] > Worth[to])
  BY <1>2 DEF Rescaled, conversionFactorForCurrencyChange, Rate
<1> QED
  BY <1>1, <1>2

LEMMA TypedRow ==
  ASSUME NEW row \in Row, NEW number \in Nat, NEW shown \in Currencies
  PROVE  LET new == Typed(row, number, shown)
         IN  /\ new \in Row /\ new.start = row.start /\ new.end = row.end /\ new.duration = row.duration
             /\ new.amount = number /\ new.unit = shown
             /\ Counted(new, currency)
<1> DEFINE new == [row EXCEPT !.amount = number, !.unit = shown, !.stale = shown # currency, !.missed = FALSE]
<1>1. new \in Row
  BY DEF Row
<1>2. new.start = row.start /\ new.end = row.end /\ new.duration = row.duration
      /\ new.amount = number /\ new.unit = shown /\ new.stale = (shown # currency)
  BY DEF Row
<1>3. Typed(row, number, shown) = new
  BY DEF Typed
<1> HIDE DEF new
<1> QED
  BY <1>1, <1>2, <1>3 DEF Counted, Misleads

-----------------------------------------------------------------------------
(* The invariant.                                                           *)

Lock == [at: {"none", "locked", "rescaling", "converted"}, to: Currencies \cup {"none"}, right: BOOLEAN,
         rows: SUBSET Videos]
Ops == {"none", "addVideo", "updateVideo", "updateVideoPriority", "updateQueueCurrency", "inserted"}
Request == [op: Ops, shown: Currencies \cup {"none"}, number: Nat, to: Currencies \cup {"none"}, row: Row]
Task == [job: Videos \cup {"scan", "none"}, generation: 0..MaxClaims, unit: Currencies \cup {"none"}]
Lease == [generation: 0..MaxClaims, leased: BOOLEAN, done: BOOLEAN]

Money == currency \in Currencies /\ PricesSound

Table ==
    /\ DOMAIN videos \subseteq Videos
    /\ \A v \in DOMAIN videos : Sound(videos[v]) /\ Counted(videos[v], currency)

Change ==
    /\ change \in Lock /\ change.rows \subseteq DOMAIN videos
    /\ change.at # "none" => change.to \in Currencies
    /\ \A v \in change.rows : videos[v].amount # Null

Requests ==
    /\ tab \in [Tabs -> Request]
    /\ \A t \in Tabs : /\ tab[t].op \notin {"none", "inserted"} => tab[t].shown \in Currencies
                       /\ tab[t].op = "updateQueueCurrency" => tab[t].to \in Currencies
                       /\ tab[t].op = "updateVideoPriority" => tab[t].number > 0
                       /\ tab[t].op = "inserted" => Sound(tab[t].row)

(* A scan that has read the currency holds every change of it off. *)
Tasks ==
    /\ worker \in [Workers -> Task]
    /\ \A w \in Workers : /\ worker[w].unit # "none" => worker[w].unit = currency /\ change.at = "none"
                          /\ worker[w].job \in Videos => worker[w].job \in DOMAIN videos

Others ==
    /\ jobs \in [Videos \cup {"scan"} -> Lease]
    /\ queues.all \in SUBSET QueueNames /\ queues.default \in queues.all
    /\ left \in 0..MaxRequests

Page == \A i \in answer.items : i.number.misleads \/ i.number.unit = i.label

VideoInv == Money /\ Table /\ Change /\ Requests /\ Tasks /\ Others /\ Page

LEMMA InitInvariant == VideoInit => VideoInv
<1> SUFFICES ASSUME VideoInit PROVE VideoInv
  OBVIOUS
<1>1. Money
  BY DEF VideoInit, Money, PricesSound, Currencies, Worth, Priorities
<1>2. Table /\ Change
  BY DEF VideoInit, Table, Change, Lock, NoChange
<1>3. Requests
  BY NullRow DEF VideoInit, Requests, Request, Ops, NoRequest
<1>4. Tasks
  BY VideoBounds DEF VideoInit, Tasks, Task, NoTask, Videos
<1>5. Others /\ Page
  BY VideoBounds DEF VideoInit, Others, Page, Lease, NoLease, NoPage, QueueNames
<1> QED
  BY <1>1, <1>2, <1>3, <1>4, <1>5 DEF VideoInv

(* Rows are written one by one while the currency stays. *)
Fine(row) == Sound(row) /\ Counted(row, currency)

Writes ==
    /\ DOMAIN videos \subseteq DOMAIN videos' /\ DOMAIN videos' \subseteq Videos
    /\ \A v \in DOMAIN videos' :
         \/ v \in DOMAIN videos /\ videos'[v] = videos[v]
         \/ v \notin change.rows /\ Fine(videos'[v])

LEMMA WritesKeep ==
  ASSUME VideoInv, Writes, UNCHANGED <<currency, thresholds, change>> PROVE Money' /\ Table' /\ Change'
<1>1. Money'
  BY DEF VideoInv, Money, PricesSound
<1>2. Table'
  BY DEF VideoInv, Table, Writes, Fine, Sound, Ranked, Counted
<1>3. Change'
  BY DEF VideoInv, Change, Table, Writes, Fine
<1> QED
  BY <1>1, <1>2, <1>3

LEMMA NothingWritten == ASSUME VideoInv, UNCHANGED videos PROVE Writes
BY DEF VideoInv, Table, Writes

LEMMA TasksKept ==
  ASSUME VideoInv, UNCHANGED <<worker, currency, change>>, DOMAIN videos \subseteq DOMAIN videos' PROVE Tasks'
BY DEF VideoInv, Tasks

LEMMA OneWritten ==
  ASSUME VideoInv, NEW v \in DOMAIN videos, ~RowLocked(v), NEW row, Fine(row), videos' = [videos EXCEPT ![v] = row]
  PROVE  Writes
BY DEF VideoInv, Table, Writes, RowLocked

LEMMA OneInserted ==
  ASSUME VideoInv, NEW v \in Videos, NEW row, Fine(row), videos' = With(v, row) PROVE Writes
BY DEF VideoInv, Table, Change, Writes, With

(* The trigger on a row whose amount is the old one. *)
LEMMA SameAmountFine ==
  ASSUME VideoInv, NEW v \in DOMAIN videos, ~RowLocked(v), NEW row \in Row,
         row.amount = videos[v].amount, row.unit = videos[v].unit,
         row.stale = videos[v].stale, row.missed = videos[v].missed
  PROVE  Fine(set_video_priority_id(row, videos[v], FALSE, thresholds))
<1>1. videos[v] \in Row /\ Counted(videos[v], currency) /\ thresholds \in [Priorities -> Nat] /\ thresholds["default"] = 0
  BY DEF VideoInv, Table, Sound, Money, PricesSound
<1> DEFINE new == set_video_priority_id(row, videos[v], FALSE, thresholds)
<1>2. Sound(new) /\ new.amount = row.amount /\ new.unit = row.unit /\ new.stale = row.stale /\ new.missed = row.missed
  BY <1>1, TriggerSound
<1> HIDE DEF new
<1>3. Fine(new)
  BY <1>1, <1>2 DEF Fine, Counted, Misleads
<1> QED
  BY <1>3 DEF new

LEMMA RequestSet ==
  ASSUME VideoInv, NEW t \in Tabs, NEW r \in Request, tab' = [tab EXCEPT ![t] = r],
         r.op \notin {"none", "inserted"} => r.shown \in Currencies,
         r.op = "updateQueueCurrency" => r.to \in Currencies,
         r.op = "updateVideoPriority" => r.number > 0,
         r.op = "inserted" => Sound(r.row)
  PROVE  Requests'
<1>1. tab' \in [Tabs -> Request] /\ tab'[t] = r /\ \A u \in Tabs \ {t} : tab'[u] = tab[u]
  BY DEF VideoInv, Requests
<1> QED
  BY <1>1 DEF VideoInv, Requests, Sound, Ranked

LEMMA RepliedKeeps == ASSUME VideoInv, NEW t \in Tabs, Replied(t) PROVE Requests'
<1>1. NoRequest \in Request /\ NoRequest.op = "none"
  BY NullRow DEF NoRequest, Request, Ops
<1> QED
  BY <1>1, RequestSet DEF Replied

-----------------------------------------------------------------------------
(* Requests.                                                                *)

LEMMA SendKeeps == ASSUME VideoInv, NEW t \in Tabs, Send(t) PROVE VideoInv'
<1>1. /\ tab[t].op = "none" /\ left > 0 /\ left' = left - 1
      /\ UNCHANGED <<currency, change, queues, thresholds, videos, jobs, worker, answer>>
  BY DEF Send
<1>2. Writes /\ Money' /\ Table' /\ Change' /\ Tasks'
  BY <1>1, NothingWritten, WritesKeep, TasksKept
<1>3. PICK request \in [op: {"addVideo", "updateVideo", "updateVideoPriority"}, number: Numbers, to: {"none"}]
                        \cup [op: {"updateQueueCurrency"}, number: {0}, to: Currencies \ {currency}] :
        tab' = [tab EXCEPT ![t] = [NoRequest EXCEPT !.op = request.op, !.number = request.number,
                                                    !.to = request.to, !.shown = currency]]
  BY DEF Send
<1> DEFINE r == [NoRequest EXCEPT !.op = request.op, !.number = request.number, !.to = request.to, !.shown = currency]
<1>4. /\ currency \in Currencies /\ request.op \in Ops \ {"none", "inserted"} /\ request.number \in Nat
      /\ request.to \in Currencies \cup {"none"}
      /\ request.op = "updateQueueCurrency" => request.to \in Currencies
      /\ request.op = "updateVideoPriority" => request.number > 0
  BY <1>3 DEF VideoInv, Money, Ops, Numbers
<1>5. r \in Request /\ r.op = request.op /\ r.to = request.to /\ r.shown = currency /\ r.number = request.number
  BY <1>4, NullRow DEF NoRequest, Request, Ops
<1> HIDE DEF r
<1>6. Requests'
  BY <1>3, <1>4, <1>5, RequestSet DEF r
<1>7. Others' /\ Page'
  BY <1>1, VideoBounds DEF VideoInv, Others, Page
<1> QED
  BY <1>2, <1>6, <1>7 DEF VideoInv

LEMMA AddKeeps == ASSUME VideoInv, NEW t \in Tabs, addManualVideo(t) PROVE VideoInv'
<1>1. /\ tab[t].op = "addVideo"
      /\ UNCHANGED <<currency, change, queues, thresholds, videos, jobs, worker, answer, left>>
  BY DEF addManualVideo
<1>2. Writes /\ Money' /\ Table' /\ Change' /\ Tasks'
  BY <1>1, NothingWritten, WritesKeep, TasksKept
<1>3. PICK end \in Ends, queue \in queues.all :
        LET row == [Typed(NoRow, tab[t].number, tab[t].shown) EXCEPT !.end = end, !.queue = queue]
        IN  tab' = [tab EXCEPT ![t].op = "inserted", ![t].row = set_video_priority_id(row, NoRow, FALSE, thresholds)]
  BY DEF addManualVideo
<1> DEFINE typed == Typed(NoRow, tab[t].number, tab[t].shown)
           row == [typed EXCEPT !.end = end, !.queue = queue]
           new == set_video_priority_id(row, NoRow, FALSE, thresholds)
           r == [tab[t] EXCEPT !.op = "inserted", !.row = new]
<1>4. tab[t] \in Request /\ tab[t].shown \in Currencies /\ tab[t].number \in Nat /\ queue \in QueueNames
  BY <1>1 DEF VideoInv, Requests, Request, Others
<1>5. typed \in Row
  BY <1>4, NullRow, TypedRow
<1> HIDE DEF typed
<1>6. row \in Row
  BY <1>4, <1>5 DEF Row
<1>7. tab' = [tab EXCEPT ![t] = r]
  BY <1>3 DEF typed
<1> HIDE DEF row
<1>8. Sound(new)
  <2>1. thresholds \in [Priorities -> Nat] /\ thresholds["default"] = 0 /\ NoRow \in Row /\ FALSE \in BOOLEAN
    BY NullRow DEF VideoInv, Money, PricesSound
  <2> QED
    BY <1>6, <2>1, TriggerSound
<1> HIDE DEF new
<1>9. r \in Request /\ r.op = "inserted" /\ r.row = new
  BY <1>4, <1>8 DEF Request, Ops, Sound
<1> HIDE DEF r
<1>10. Requests'
  BY <1>7, <1>8, <1>9, RequestSet
<1>11. Others' /\ Page'
  BY <1>1 DEF VideoInv, Others, Page
<1> QED
  BY <1>2, <1>10, <1>11 DEF VideoInv

LEMMA CheckedKeeps == ASSUME VideoInv, NEW t \in Tabs, ForeignKeyChecked(t) PROVE VideoInv'
<1> DEFINE row == tab[t].row
           new == [row EXCEPT !.stale = row.unit # currency]
<1>1. /\ tab[t].op = "inserted" /\ change.at = "none" /\ videos' = With("added", new) /\ Replied(t)
      /\ UNCHANGED <<currency, change, queues, thresholds, jobs, worker, answer, left>>
  BY DEF ForeignKeyChecked, UserLocked
<1>2. row \in Row /\ Ranked(row)
  BY <1>1 DEF VideoInv, Requests, Sound
<1>3. new \in Row /\ new.stale = (row.unit # currency) /\ new.unit = row.unit
      /\ new.priority = row.priority /\ new.amount = row.amount /\ new.start = row.start
      /\ new.end = row.end /\ new.duration = row.duration
  BY <1>2 DEF Row
<1> HIDE DEF row, new
<1>4. Fine(new)
  BY <1>1, <1>2, <1>3 DEF Fine, Sound, Ranked, Rated, Counted, Misleads
<1>5. Writes
  BY <1>1, <1>4, OneInserted DEF Videos
<1>6. Money' /\ Table' /\ Change'
  BY <1>1, <1>5, WritesKeep
<1>7. Tasks'
  BY <1>1, <1>5, TasksKept DEF Writes
<1>8. Requests'
  BY <1>1, RepliedKeeps
<1>9. Others' /\ Page'
  BY <1>1 DEF VideoInv, Others, Page
<1> QED
  BY <1>6, <1>7, <1>8, <1>9 DEF VideoInv

LEMMA UpdateVideoKeeps == ASSUME VideoInv, NEW t \in Tabs, updateVideo(t) PROVE VideoInv'
<1>1. /\ tab[t].op = "updateVideo" /\ Replied(t)
      /\ UNCHANGED <<currency, change, queues, thresholds, jobs, worker, answer, left>>
  BY DEF updateVideo
<1>2. PICK v \in DOMAIN videos, start \in Starts, end \in Ends :
        LET until == IF end = Null THEN videos[v].duration ELSE end
            row   == Typed(videos[v], tab[t].number, tab[t].shown)
        IN  /\ ~RowLocked(v)
            /\ videos' = IF TimingAccepted(start, until)
                         THEN Updated(v, [row EXCEPT !.start = start, !.end = until]) ELSE videos
  BY DEF updateVideo
<1> DEFINE until == IF end = Null THEN videos[v].duration ELSE end
           typed == Typed(videos[v], tab[t].number, tab[t].shown)
           row == [typed EXCEPT !.start = start, !.end = until]
           new == set_video_priority_id(row, videos[v], FALSE, thresholds)
<1>3. videos[v] \in Row /\ tab[t].number \in Nat /\ tab[t].shown \in Currencies
      /\ thresholds \in [Priorities -> Nat] /\ thresholds["default"] = 0
  BY <1>1 DEF VideoInv, Table, Sound, Requests, Request, Money, PricesSound
<1>4. typed \in Row /\ Counted(typed, currency)
  BY <1>3, TypedRow
<1>5. until \in Ends \cup Durations
  BY <1>3 DEF Row, Ends
<1>6. videos' = videos \/ videos' = [videos EXCEPT ![v] = new]
  BY <1>2 DEF Updated
<1> HIDE DEF typed, until
<1>7. row \in Row /\ row.amount = typed.amount /\ row.unit = typed.unit
      /\ row.stale = typed.stale /\ row.missed = typed.missed
  BY <1>4, <1>5 DEF Row
<1> HIDE DEF row
<1>8. Sound(new) /\ new.amount = row.amount /\ new.unit = row.unit /\ new.stale = row.stale /\ new.missed = row.missed
  BY <1>3, <1>7, TriggerSound
<1> HIDE DEF new
<1>9. Fine(new)
  BY <1>4, <1>7, <1>8 DEF Fine, Counted, Misleads
<1>10. Writes
  BY <1>2, <1>6, <1>9, OneWritten, NothingWritten
<1>11. Money' /\ Table' /\ Change'
  BY <1>1, <1>10, WritesKeep
<1>12. Tasks'
  BY <1>1, <1>10, TasksKept DEF Writes
<1>13. Requests'
  BY <1>1, RepliedKeeps
<1>14. Others' /\ Page'
  BY <1>1 DEF VideoInv, Others, Page
<1> QED
  BY <1>11, <1>12, <1>13, <1>14 DEF VideoInv

LEMMA UpdatePriorityKeeps == ASSUME VideoInv, NEW t \in Tabs, updatePriority(t) PROVE VideoInv'
<1>1. /\ tab[t].op = "updateVideoPriority" /\ Replied(t)
      /\ UNCHANGED <<currency, change, queues, videos, jobs, worker, answer, left>>
  BY DEF updatePriority
<1>2. PICK p \in Priorities : thresholds' = [thresholds EXCEPT ![p] = IF p = "default" THEN 0 ELSE tab[t].number]
  BY DEF updatePriority
<1>3. tab[t].number \in Nat /\ tab[t].number > 0
  BY <1>1 DEF VideoInv, Requests, Request
<1>4. Money'
  BY <1>1, <1>2, <1>3 DEF VideoInv, Money, PricesSound, Priorities
<1>5. Table' /\ Change'
  BY <1>1 DEF VideoInv, Table, Change, Sound, Ranked, Counted
<1>6. Tasks'
  BY <1>1, TasksKept
<1>7. Requests'
  BY <1>1, RepliedKeeps
<1>8. Others' /\ Page'
  BY <1>1 DEF VideoInv, Others, Page
<1> QED
  BY <1>4, <1>5, <1>6, <1>7, <1>8 DEF VideoInv

-----------------------------------------------------------------------------
(* A change of the currency.                                                *)

LEMMA LocksKeep == ASSUME VideoInv, NEW t \in Tabs, LocksUser(t) PROVE VideoInv'
<1>1. /\ tab[t].op = "updateQueueCurrency" /\ change.at = "none" /\ Replied(t)
      /\ \A w \in Workers : worker[w].unit = "none"
      /\ change' = IF tab[t].to = currency THEN change
                   ELSE [NoChange EXCEPT !.at = "locked", !.to = tab[t].to, !.right = tab[t].shown = currency]
      /\ UNCHANGED <<currency, queues, thresholds, videos, jobs, worker, answer, left>>
  BY DEF LocksUser, UserLocked, UserShared
<1>2. tab[t].to \in Currencies
  BY <1>1 DEF VideoInv, Requests
<1>3. Change'
  <2>1. CASE change' = change
    BY <1>1, <2>1 DEF VideoInv, Change
  <2>2. CASE change' = [NoChange EXCEPT !.at = "locked", !.to = tab[t].to, !.right = tab[t].shown = currency]
    <3>1. change' \in Lock /\ change'.at = "locked" /\ change'.to = tab[t].to /\ change'.rows = {}
      BY <1>2, <2>2 DEF NoChange, Lock
    <3> QED
      BY <1>1, <1>2, <3>1 DEF Change
  <2> QED
    BY <1>1, <2>1, <2>2
<1>4. Money' /\ Table' /\ Tasks'
  BY <1>1 DEF VideoInv, Money, PricesSound, Table, Sound, Ranked, Counted, Tasks
<1>5. Requests'
  BY <1>1, RepliedKeeps
<1>6. Others' /\ Page'
  BY <1>1 DEF VideoInv, Others, Page
<1> QED
  BY <1>3, <1>4, <1>5, <1>6 DEF VideoInv

LEMMA RescalesKeep == ASSUME VideoInv, RescalesThresholds \/ RescalesVideos \/ RolledBack PROVE VideoInv'
<1>1. change.at # "none" /\ UNCHANGED <<currency, queues, thresholds, videos, jobs, worker, tab, answer, left>>
  BY DEF RescalesThresholds, RescalesVideos, RolledBack, UserLocked
<1>2. Change'
  <2>1. CASE RescalesThresholds
    <3>1. change' = [change EXCEPT !.at = "rescaling"]
      BY <2>1 DEF RescalesThresholds
    <3>2. change' \in Lock /\ change'.at = "rescaling" /\ change'.to = change.to /\ change'.rows = change.rows
      BY <3>1 DEF VideoInv, Change, Lock
    <3> QED
      BY <1>1, <3>2 DEF VideoInv, Change
  <2>2. CASE RescalesVideos
    <3> DEFINE rows == {v \in DOMAIN videos : videos[v].amount # Null}
    <3>1. change' = [change EXCEPT !.at = "converted", !.rows = rows]
      BY <2>2 DEF RescalesVideos
    <3>2. rows \in SUBSET Videos
      BY DEF VideoInv, Table
    <3>3. change' \in Lock /\ change'.at = "converted" /\ change'.to = change.to /\ change'.rows = rows
      BY <3>1, <3>2 DEF VideoInv, Change, Lock
    <3> QED
      BY <1>1, <3>3 DEF VideoInv, Change
  <2>3. CASE RolledBack
    BY <1>1, <2>3 DEF RolledBack, NoChange, Change, Lock
  <2> QED
    BY <2>1, <2>2, <2>3
<1>3. Tasks'
  BY <1>1 DEF VideoInv, Tasks
<1>4. Money' /\ Table' /\ Requests'
  BY <1>1 DEF VideoInv, Money, PricesSound, Table, Sound, Ranked, Counted, Requests
<1>5. Others' /\ Page'
  BY <1>1 DEF VideoInv, Others, Page
<1> QED
  BY <1>2, <1>3, <1>4, <1>5 DEF VideoInv

(* What the commit writes: no priority changes, whatever the rounding does to the amount. *)
LEMMA ConvertedRow ==
  ASSUME VideoInv, change.at = "converted", NEW v \in change.rows,
         NEW prices \in [Priorities -> Nat], prices["default"] = 0
  PROVE  LET new == set_video_priority_id(Converted(videos[v]), videos[v], TRUE, prices)
         IN  /\ Sound(new) /\ new.priority = videos[v].priority
             /\ Counted(new, change.to)
<1> DEFINE row == videos[v]
           amount == Rescaled(row.amount, conversionFactorForCurrencyChange(currency, change.to))
           unit == IF change.right /\ row.unit = currency THEN change.to ELSE "none"
           conv == [row EXCEPT !.amount = amount, !.unit = unit, !.stale = row.stale \/ ~change.right]
           new == set_video_priority_id(conv, row, TRUE, prices)
<1>1. row \in Row /\ Ranked(row) /\ row.amount # Null /\ Counted(row, currency)
  BY DEF VideoInv, Change, Table, Sound
<1>2. amount \in Nat /\ amount # Null
  <2>1. row.amount \in Nat
    BY <1>1 DEF Row
  <2>2. currency \in Currencies /\ change.to \in Currencies
    BY DEF VideoInv, Money, Change
  <2>3. amount \in Nat
    BY <2>1, <2>2, RescaledNatural
  <2> QED
    BY <2>3 DEF Null
<1>3. unit \in Currencies \cup {"none"} /\ change.right \in BOOLEAN /\ change.to \in Currencies
  BY DEF VideoInv, Change, Lock
<1>4. Converted(videos[v]) = conv
  BY DEF Converted
<1> HIDE DEF row, amount, unit
<1>5. conv \in Row /\ conv.amount = amount /\ conv.unit = unit /\ conv.start = row.start /\ conv.end = row.end
      /\ conv.duration = row.duration /\ conv.stale = (row.stale \/ ~change.right)
      /\ conv.missed = row.missed
  BY <1>1, <1>2, <1>3 DEF Row
<1> HIDE DEF conv
<1>6. Rated(conv) <=> Rated(row)
  BY <1>1, <1>2, <1>5 DEF Rated
<1>7. SameTiming(conv, row)
  BY <1>5 DEF SameTiming
<1>8. new = [conv EXCEPT !.priority = IF ~Rated(row) THEN "none" ELSE row.priority]
  BY <1>1, <1>6, <1>7 DEF set_video_priority_id, Ranked
<1>9. new.priority = row.priority
  BY <1>1, <1>5, <1>8 DEF Ranked, Row
<1>10. Sound(new) /\ new.stale = conv.stale /\ new.unit = conv.unit /\ new.missed = conv.missed
  <2>1. conv \in Row /\ row \in Row /\ TRUE \in BOOLEAN
    BY <1>1, <1>5
  <2> QED
    BY <2>1, TriggerSound
<1> HIDE DEF new
<1>11. Counted(new, change.to)
  BY <1>1, <1>3, <1>5, <1>10 DEF unit, Counted, Misleads
<1>12. set_video_priority_id(Converted(videos[v]), videos[v], TRUE, prices) = new
  BY <1>4 DEF new, row
<1> QED
  BY <1>9, <1>10, <1>11, <1>12 DEF row

LEMMA RepricedThresholds ==
  ASSUME VideoInv, setQueueCurrency
  PROVE  /\ thresholds' \in [Priorities -> Nat] /\ thresholds'["default"] = 0 /\ thresholds'["paid"] > 0
<1>1. thresholds' = [p \in Priorities |-> Repriced(p)] /\ currency \in Currencies /\ change.to \in Currencies
  BY DEF setQueueCurrency, VideoInv, Money, Change
<1>2. Repriced("default") = 0
  BY DEF Repriced
<1>3. Repriced("paid") \in Nat /\ Repriced("paid") > 0
  <2>1. thresholds["paid"] \in Nat
    BY DEF VideoInv, Money, PricesSound, Priorities
  <2>2. Rescaled(thresholds["paid"], conversionFactorForCurrencyChange(currency, change.to)) \in Nat
    BY <1>1, <2>1, RescaledNatural
  <2> QED
    BY <2>2 DEF Repriced
<1> QED
  BY <1>1, <1>2, <1>3 DEF Priorities

LEMMA ChangeWrites ==
  ASSUME VideoInv, setQueueCurrency
  PROVE  /\ DOMAIN videos' = DOMAIN videos
         /\ \A v \in DOMAIN videos : /\ Sound(videos'[v]) /\ videos'[v].priority = videos[v].priority
                                     /\ Counted(videos'[v], change.to)
<1>1. /\ change.at = "converted"
      /\ videos' = [v \in DOMAIN videos |->
                     IF v \in change.rows
                     THEN set_video_priority_id(Converted(videos[v]), videos[v], TRUE, thresholds')
                     ELSE PassedBy(videos[v])]
  BY DEF setQueueCurrency
<1>2. thresholds' \in [Priorities -> Nat] /\ thresholds'["default"] = 0
  BY RepricedThresholds
<1>3. ASSUME NEW v \in DOMAIN videos
      PROVE  Sound(videos'[v]) /\ videos'[v].priority = videos[v].priority /\ Counted(videos'[v], change.to)
  <2>1. CASE v \in change.rows
    <3> DEFINE new == set_video_priority_id(Converted(videos[v]), videos[v], TRUE, thresholds')
    <3>1. Sound(new) /\ new.priority = videos[v].priority /\ Counted(new, change.to)
      BY <1>1, <1>2, <2>1, ConvertedRow
    <3>2. videos'[v] = new
      BY <1>1, <2>1
    <3> HIDE DEF new
    <3> QED
      BY <3>1, <3>2
  <2>2. CASE v \notin change.rows
    <3>1. videos'[v] = PassedBy(videos[v])
      BY <1>1, <2>2
    <3>2. Sound(videos[v])
      BY DEF VideoInv, Table
    <3>3. /\ PassedBy(videos[v]) \in Row /\ PassedBy(videos[v]).priority = videos[v].priority
          /\ Rated(PassedBy(videos[v])) <=> Rated(videos[v])
          /\ Misleads(PassedBy(videos[v]))
      BY <3>2 DEF PassedBy, Sound, Row, Rated, Misleads
    <3> QED
      BY <3>1, <3>2, <3>3 DEF Counted, Sound, Ranked
  <2> QED
    BY <2>1, <2>2
<1> QED
  BY <1>1, <1>3

LEMMA CurrencyKeeps == ASSUME VideoInv, setQueueCurrency PROVE VideoInv'
<1>1. /\ change.at = "converted" /\ currency' = change.to /\ change' = NoChange
      /\ UNCHANGED <<queues, jobs, worker, tab, answer, left>>
  BY DEF setQueueCurrency
<1>2. Money'
  BY <1>1, RepricedThresholds DEF VideoInv, Change, Money, PricesSound
<1>3. Table'
  BY <1>1, ChangeWrites DEF VideoInv, Table, Sound, Ranked, Counted
<1>4. Change'
  BY <1>1 DEF Change, NoChange, Lock
<1>5. Tasks'
  BY <1>1, ChangeWrites DEF VideoInv, Tasks
<1>6. Requests' /\ Others' /\ Page'
  BY <1>1 DEF VideoInv, Requests, Sound, Ranked, Others, Page
<1> QED
  BY <1>2, <1>3, <1>4, <1>5, <1>6 DEF VideoInv

-----------------------------------------------------------------------------
(* Queues, workers and pages.                                               *)

LEMMA QueuesKeep == ASSUME VideoInv, createQueue \/ updateQueue \/ retryMetadata PROVE VideoInv'
<1>1. /\ left > 0 /\ left' = left - 1
      /\ UNCHANGED <<currency, change, thresholds, videos, worker, tab, answer>>
  BY DEF createQueue, updateQueue, retryMetadata
<1>2. Money' /\ Table' /\ Change' /\ Tasks'
  BY <1>1, NothingWritten, WritesKeep, TasksKept
<1>3. queues'.all \in SUBSET QueueNames /\ queues'.default \in queues'.all
  <2>1. CASE createQueue
    BY <2>1 DEF createQueue, VideoInv, Others
  <2>2. CASE updateQueue
    BY <2>2 DEF updateQueue, VideoInv, Others
  <2>3. CASE retryMetadata
    BY <2>3 DEF retryMetadata, VideoInv, Others
  <2> QED
    BY <2>1, <2>2, <2>3
<1>4. jobs' \in [Videos \cup {"scan"} -> Lease]
  <2>1. CASE jobs' = jobs
    BY <2>1 DEF VideoInv, Others
  <2>2. CASE retryMetadata
    <3>1. PICK v \in DOMAIN videos : jobs' = [jobs EXCEPT ![v].done = FALSE]
      BY <2>2 DEF retryMetadata
    <3>2. jobs \in [Videos \cup {"scan"} -> Lease] /\ v \in Videos
      BY DEF VideoInv, Others, Table
    <3> QED
      BY <3>1, <3>2 DEF Lease
  <2> QED
    BY <2>1, <2>2 DEF createQueue, updateQueue
<1>5. Requests' /\ Page'
  BY <1>1 DEF VideoInv, Requests, Sound, Ranked, Page
<1>6. left' \in 0..MaxRequests
  BY <1>1, VideoBounds DEF VideoInv, Others
<1> QED
  BY <1>2, <1>3, <1>4, <1>5, <1>6 DEF VideoInv, Others

LEMMA MoveKeeps == ASSUME VideoInv, moveVideo \/ updateStatus PROVE VideoInv'
<1>1. /\ left > 0 /\ left' = left - 1
      /\ UNCHANGED <<currency, change, queues, thresholds, jobs, worker, tab, answer>>
  BY DEF moveVideo, updateStatus
<1>2. Writes
  <2>1. CASE moveVideo
    <3>1. PICK v \in DOMAIN videos, queue \in queues.all :
            ~RowLocked(v) /\ videos' = Updated(v, [videos[v] EXCEPT !.queue = queue])
      BY <2>1 DEF moveVideo
    <3> DEFINE row == [videos[v] EXCEPT !.queue = queue]
    <3>2. videos[v] \in Row /\ queue \in QueueNames
      BY DEF VideoInv, Table, Sound, Others
    <3>3. row \in Row /\ row.amount = videos[v].amount /\ row.unit = videos[v].unit
          /\ row.stale = videos[v].stale /\ row.missed = videos[v].missed
      BY <3>2 DEF Row
    <3> HIDE DEF row
    <3>4. Fine(set_video_priority_id(row, videos[v], FALSE, thresholds))
      BY <3>1, <3>3, SameAmountFine
    <3> QED
      BY <3>1, <3>4, OneWritten DEF Updated, row
  <2>2. CASE updateStatus
    <3>1. PICK v \in DOMAIN videos, watched \in BOOLEAN :
            ~RowLocked(v) /\ videos' = [videos EXCEPT ![v].watched = watched]
      BY <2>2 DEF updateStatus
    <3> DEFINE row == [videos[v] EXCEPT !.watched = watched]
    <3>2. Sound(videos[v]) /\ Counted(videos[v], currency)
      BY <3>1 DEF VideoInv, Table
    <3>3. row \in Row /\ row.amount = videos[v].amount /\ row.unit = videos[v].unit
          /\ row.stale = videos[v].stale /\ row.missed = videos[v].missed
          /\ row.priority = videos[v].priority /\ row.start = videos[v].start /\ row.end = videos[v].end
          /\ row.duration = videos[v].duration
      BY <3>2 DEF Row, Sound
    <3>4. videos' = [videos EXCEPT ![v] = row]
      BY <3>1
    <3> HIDE DEF row
    <3>5. Fine(row)
      BY <3>2, <3>3 DEF Fine, Sound, Ranked, Rated, Counted, Misleads
    <3> QED
      BY <3>1, <3>4, <3>5, OneWritten
  <2> QED
    BY <2>1, <2>2
<1>3. Money' /\ Table' /\ Change'
  BY <1>1, <1>2, WritesKeep
<1>4. Tasks'
  BY <1>1, <1>2, TasksKept DEF Writes
<1>5. Requests' /\ Page'
  BY <1>1 DEF VideoInv, Requests, Sound, Ranked, Page
<1>6. Others'
  BY <1>1, VideoBounds DEF VideoInv, Others
<1> QED
  BY <1>3, <1>4, <1>5, <1>6 DEF VideoInv

(* A worker's task is replaced; its queue's other columns stay. *)
LEMMA TaskSet ==
  ASSUME VideoInv, NEW w \in Workers, NEW task \in Task, worker' = [worker EXCEPT ![w] = task],
         UNCHANGED <<currency, change>>, DOMAIN videos \subseteq DOMAIN videos',
         task.unit # "none" => task.unit = currency /\ change.at = "none",
         task.job \in Videos => task.job \in DOMAIN videos
  PROVE  Tasks'
<1>1. worker' \in [Workers -> Task] /\ worker'[w] = task /\ \A x \in Workers \ {w} : worker'[x] = worker[x]
  BY DEF VideoInv, Tasks
<1> QED
  BY <1>1 DEF VideoInv, Tasks

LEMMA FreedKeeps ==
  ASSUME VideoInv, NEW w \in Workers, Freed(w), UNCHANGED <<currency, change>>, DOMAIN videos \subseteq DOMAIN videos'
  PROVE  Tasks'
<1>1. NoTask \in Task /\ NoTask.unit = "none" /\ NoTask.job \notin Videos
  BY VideoBounds DEF NoTask, Task, Videos
<1> QED
  BY <1>1, TaskSet DEF Freed

LEMMA ClaimKeeps == ASSUME VideoInv, NEW w \in Workers, Claim(w) PROVE VideoInv'
<1>1. UNCHANGED <<currency, change, queues, thresholds, videos, tab, answer, left>>
  BY DEF Claim
<1>2. PICK j \in DOMAIN jobs :
        /\ Enqueued(j) /\ jobs[j].generation < MaxClaims
        /\ jobs' = [jobs EXCEPT ![j].generation = @ + 1, ![j].leased = TRUE]
        /\ worker' = [worker EXCEPT ![w] = [job |-> j, generation |-> jobs'[j].generation, unit |-> "none"]]
  BY DEF Claim
<1>3. jobs \in [Videos \cup {"scan"} -> Lease] /\ j \in Videos \cup {"scan"}
  BY DEF VideoInv, Others
<1> DEFINE lease == [jobs[j] EXCEPT !.generation = @ + 1, !.leased = TRUE]
<1>4. jobs' = [jobs EXCEPT ![j] = lease]
  BY <1>2
<1>5. lease \in Lease
  <2>1. jobs[j] \in Lease /\ jobs[j].generation + 1 \in 0..MaxClaims
    BY <1>2, <1>3, VideoBounds DEF Lease
  <2> QED
    BY <2>1 DEF Lease
<1> HIDE DEF lease
<1>6. jobs' \in [Videos \cup {"scan"} -> Lease] /\ jobs'[j] \in Lease
  BY <1>3, <1>4, <1>5
<1> DEFINE task == [job |-> j, generation |-> jobs'[j].generation, unit |-> "none"]
<1>7. task \in Task /\ task.unit = "none" /\ task.job = j
  BY <1>3, <1>6 DEF Task, Lease
<1>8. worker' = [worker EXCEPT ![w] = task]
  BY <1>2
<1>9. j \in Videos => j \in DOMAIN videos
  BY <1>2 DEF Enqueued, Videos
<1> HIDE DEF task
<1>10. Tasks'
  BY <1>1, <1>7, <1>8, <1>9, TaskSet
<1>11. Money' /\ Table' /\ Change'
  BY <1>1, NothingWritten, WritesKeep
<1>12. Requests' /\ Others' /\ Page'
  BY <1>1, <1>6 DEF VideoInv, Requests, Sound, Ranked, Others, Page
<1> QED
  BY <1>10, <1>11, <1>12 DEF VideoInv

LEMMA PricesKeep == ASSUME VideoInv, NEW w \in Workers, Prices(w) PROVE VideoInv'
<1>1. UNCHANGED <<currency, change, queues, thresholds, videos, jobs, tab, answer, left>> /\ change.at = "none"
  BY DEF Prices, convertedQueueAmount, UserLocked
<1> DEFINE task == [worker[w] EXCEPT !.unit = currency]
<1>2. worker' = [worker EXCEPT ![w] = task]
  BY DEF Prices
<1>3. task \in Task /\ task.unit = currency /\ task.job = worker[w].job
  BY DEF VideoInv, Tasks, Task, Money
<1>4. worker[w].job \in Videos => worker[w].job \in DOMAIN videos
  BY DEF VideoInv, Tasks
<1> HIDE DEF task
<1>5. Tasks'
  BY <1>1, <1>2, <1>3, <1>4, TaskSet
<1>6. Money' /\ Table' /\ Change'
  BY <1>1, NothingWritten, WritesKeep
<1>7. Requests' /\ Others' /\ Page'
  BY <1>1 DEF VideoInv, Requests, Sound, Ranked, Others, Page
<1> QED
  BY <1>5, <1>6, <1>7 DEF VideoInv

LEMMA JobSet ==
  ASSUME VideoInv, NEW j, NEW leased \in BOOLEAN, NEW done \in BOOLEAN,
         jobs' = [jobs EXCEPT ![j].leased = leased, ![j].done = done]
  PROVE  jobs' \in [Videos \cup {"scan"} -> Lease]
<1> DEFINE lease == [jobs[j] EXCEPT !.leased = leased, !.done = done]
<1>1. jobs' = [jobs EXCEPT ![j] = lease] /\ jobs \in [Videos \cup {"scan"} -> Lease]
  BY DEF VideoInv, Others
<1>2. j \in Videos \cup {"scan"} => lease \in Lease
  BY <1>1 DEF Lease
<1> HIDE DEF lease
<1> QED
  BY <1>1, <1>2

LEMMA CompleteKeeps == ASSUME VideoInv, NEW w \in Workers, Complete(w) PROVE VideoInv'
<1>1. /\ worker[w].unit # "none" /\ Freed(w)
      /\ jobs' = [jobs EXCEPT !["scan"].done = TRUE, !["scan"].leased = FALSE]
      /\ UNCHANGED <<currency, change, queues, thresholds, tab, answer, left>>
  BY DEF Complete
<1>2. PICK amount \in Numbers \cup {Null} :
        videos' = Inserted("scanned", [NoRow EXCEPT !.amount = amount, !.queue = queues.default,
                                                    !.unit = IF amount = Null THEN @ ELSE worker[w].unit])
  BY DEF Complete
<1> DEFINE unit == IF amount = Null THEN NoRow.unit ELSE worker[w].unit
           row == [NoRow EXCEPT !.amount = amount, !.queue = queues.default, !.unit = unit]
           new == set_video_priority_id(row, NoRow, FALSE, thresholds)
<1>3. worker[w].unit = currency /\ change.at = "none" /\ currency \in Currencies
      /\ queues.default \in QueueNames /\ thresholds \in [Priorities -> Nat] /\ thresholds["default"] = 0
  BY <1>1 DEF VideoInv, Tasks, Others, Money, PricesSound
<1>4. unit \in Currencies \cup {"none"} /\ (amount # Null => unit = currency) /\ amount \in Nat \cup {Null}
  BY <1>3 DEF NoRow, Numbers
<1>5. videos' = With("scanned", new)
  BY <1>2 DEF Inserted
<1> HIDE DEF unit
<1>6. row \in Row /\ row.amount = amount /\ row.unit = unit
  BY <1>3, <1>4, NullRow DEF Row, NoRow
<1> HIDE DEF row
<1>7. Sound(new) /\ new.amount = amount /\ new.unit = unit
  BY <1>3, <1>6, NullRow, TriggerSound
<1> HIDE DEF new
<1>8. Fine(new)
  BY <1>3, <1>4, <1>7 DEF Fine, Counted, Misleads
<1>9. Writes
  BY <1>5, <1>8, OneInserted DEF Videos
<1>10. Money' /\ Table' /\ Change'
  BY <1>1, <1>9, WritesKeep
<1>11. Tasks'
  BY <1>1, <1>9, FreedKeeps DEF Writes
<1>12. jobs' \in [Videos \cup {"scan"} -> Lease]
  <2>1. jobs \in [Videos \cup {"scan"} -> Lease]
    BY DEF VideoInv, Others
  <2> QED
    BY <1>1, <2>1 DEF Lease
<1>13. Requests' /\ Others' /\ Page'
  BY <1>1, <1>12 DEF VideoInv, Requests, Sound, Ranked, Others, Page
<1> QED
  BY <1>10, <1>11, <1>13 DEF VideoInv

LEMMA GiveUpKeeps == ASSUME VideoInv, NEW w \in Workers, GivesUp(w) \/ Retry(w) PROVE VideoInv'
<1>1. Freed(w) /\ UNCHANGED <<currency, change, queues, thresholds, videos, tab, answer, left>>
  BY DEF GivesUp, Retry
<1>2. jobs' \in [Videos \cup {"scan"} -> Lease]
  <2>1. CASE GivesUp(w)
    BY <2>1 DEF GivesUp, VideoInv, Others
  <2>2. CASE Retry(w)
    <3>1. PICK terminal \in BOOLEAN :
            jobs' = [jobs EXCEPT ![worker[w].job].leased = FALSE, ![worker[w].job].done = terminal]
      BY <2>2 DEF Retry
    <3> QED
      BY <3>1, JobSet
  <2> QED
    BY <2>1, <2>2
<1>3. Money' /\ Table' /\ Change' /\ Tasks'
  BY <1>1, NothingWritten, WritesKeep, FreedKeeps
<1>4. Requests' /\ Others' /\ Page'
  BY <1>1, <1>2 DEF VideoInv, Requests, Sound, Ranked, Others, Page
<1> QED
  BY <1>3, <1>4 DEF VideoInv

LEMMA MetadataKeeps == ASSUME VideoInv, NEW w \in Workers, processMetadata(w) PROVE VideoInv'
<1> DEFINE v == worker[w].job
<1>1. /\ v \in Videos /\ ~RowLocked(v) /\ Freed(w)
      /\ jobs' = [jobs EXCEPT ![v].done = TRUE, ![v].leased = FALSE]
      /\ UNCHANGED <<currency, change, queues, thresholds, tab, answer, left>>
  BY DEF processMetadata
<1>2. v \in DOMAIN videos
  BY <1>1 DEF VideoInv, Tasks
<1>3. PICK d \in Durations :
        LET row     == videos[v]
            clipped == IF row.end = Null \/ row.end > d THEN d ELSE row.end
        IN  videos' = Updated(v, [row EXCEPT !.duration = d, !.end = IF row.start < d THEN clipped ELSE @])
  BY DEF processMetadata
<1> DEFINE old == videos[v]
           end == IF old.start < d THEN IF old.end = Null \/ old.end > d THEN d ELSE old.end ELSE old.end
           row == [old EXCEPT !.duration = d, !.end = end]
<1>4. old \in Row
  BY <1>2 DEF VideoInv, Table, Sound
<1>5. end \in Ends \cup Durations
  BY <1>4 DEF Row
<1>6. videos' = Updated(v, row)
  BY <1>3
<1> HIDE DEF end
<1>7. row \in Row /\ row.amount = old.amount /\ row.unit = old.unit /\ row.stale = old.stale /\ row.missed = old.missed
  BY <1>4, <1>5 DEF Row
<1> HIDE DEF row
<1>8. Fine(set_video_priority_id(row, videos[v], FALSE, thresholds))
  BY <1>1, <1>2, <1>7, SameAmountFine
<1>9. Writes
  BY <1>1, <1>2, <1>6, <1>8, OneWritten DEF Updated
<1>10. Money' /\ Table' /\ Change'
  BY <1>1, <1>9, WritesKeep
<1>11. Tasks'
  BY <1>1, <1>9, FreedKeeps DEF Writes
<1>12. jobs' \in [Videos \cup {"scan"} -> Lease]
  <2>1. jobs \in [Videos \cup {"scan"} -> Lease]
    BY DEF VideoInv, Others
  <2> HIDE DEF v
  <2> QED
    BY <1>1, <2>1 DEF Lease
<1>13. Requests' /\ Others' /\ Page'
  BY <1>1, <1>12 DEF VideoInv, Requests, Sound, Ranked, Others, Page
<1> QED
  BY <1>10, <1>11, <1>13 DEF VideoInv

LEMMA ExpiryKeeps == ASSUME VideoInv, NEW j \in DOMAIN jobs, LeaseExpires(j) PROVE VideoInv'
<1>1. /\ jobs' = [jobs EXCEPT ![j].leased = FALSE]
      /\ UNCHANGED <<currency, change, queues, thresholds, videos, worker, tab, answer, left>>
  BY DEF LeaseExpires
<1>2. jobs' \in [Videos \cup {"scan"} -> Lease]
  <2>1. jobs \in [Videos \cup {"scan"} -> Lease]
    BY DEF VideoInv, Others
  <2> QED
    BY <1>1, <2>1 DEF Lease
<1>3. Money' /\ Table' /\ Change' /\ Tasks'
  BY <1>1, NothingWritten, WritesKeep, TasksKept
<1>4. Requests' /\ Others' /\ Page'
  BY <1>1, <1>2 DEF VideoInv, Requests, Sound, Ranked, Others, Page
<1> QED
  BY <1>3, <1>4 DEF VideoInv

LEMMA PagesKeep == ASSUME VideoInv, listPage \/ listSharedPage \/ Rows \/ Looked PROVE VideoInv'
<1>1. UNCHANGED <<currency, change, queues, thresholds, videos, jobs, worker, tab>>
      /\ (left' = left \/ (left > 0 /\ left' = left - 1))
  BY DEF listPage, listSharedPage, Counts, Rows, Looked
<1>2. Page'
  <2>1. CASE Rows
    <3>1. PICK shown \in SUBSET DOMAIN videos :
            answer' = [NoPage EXCEPT !.at = "read", !.items = { [label |-> currency, number |-> Shown(v)] : v \in shown }]
      BY <2>1 DEF Rows, Matching
    <3>2. answer'.items = { [label |-> currency, number |-> Shown(v)] : v \in shown }
      BY <3>1 DEF NoPage
    <3>3. \A v \in shown : Shown(v).misleads \/ Shown(v).unit = currency
      BY DEF VideoInv, Table, Counted, Shown
    <3> QED
      BY <3>2, <3>3 DEF Page
  <2>2. CASE Looked
    BY <2>2 DEF Looked, NoPage, Page
  <2>3. CASE listPage \/ listSharedPage
    BY <2>3 DEF listPage, listSharedPage, Counts, Page
  <2> QED
    BY <2>1, <2>2, <2>3
<1>3. Money' /\ Table' /\ Change' /\ Tasks'
  BY <1>1, NothingWritten, WritesKeep, TasksKept
<1>4. Requests'
  BY <1>1 DEF VideoInv, Requests, Sound, Ranked
<1>5. Others'
  BY <1>1, VideoBounds DEF VideoInv, Others
<1> QED
  BY <1>2, <1>3, <1>4, <1>5 DEF VideoInv

-----------------------------------------------------------------------------
(* The results.                                                             *)

LEMMA VideoNextInvariant == VideoInv /\ [VideoNext]_vars => VideoInv'
<1> SUFFICES ASSUME VideoInv, [VideoNext]_vars PROVE VideoInv'
  OBVIOUS
<1>1. CASE UNCHANGED vars
  BY <1>1 DEF vars, VideoInv, Money, PricesSound, Table, Sound, Ranked, Counted, Change, Requests, Tasks, Others, Page
<1>2. CASE \E t \in Tabs : \/ Send(t) \/ addManualVideo(t) \/ ForeignKeyChecked(t) \/ updateVideo(t)
                           \/ updatePriority(t) \/ LocksUser(t)
  BY <1>2, SendKeeps, AddKeeps, CheckedKeeps, UpdateVideoKeeps, UpdatePriorityKeeps, LocksKeep
<1>3. CASE RescalesThresholds \/ RescalesVideos \/ setQueueCurrency \/ RolledBack
  BY <1>3, RescalesKeep, CurrencyKeeps
<1>4. CASE createQueue \/ updateQueue \/ moveVideo \/ updateStatus \/ retryMetadata
  BY <1>4, QueuesKeep, MoveKeeps
<1>5. CASE \E w \in Workers : Claim(w) \/ GivesUp(w) \/ Prices(w) \/ Complete(w) \/ Retry(w) \/ processMetadata(w)
  BY <1>5, ClaimKeeps, GiveUpKeeps, PricesKeep, CompleteKeeps, MetadataKeeps
<1>6. CASE \E j \in DOMAIN jobs : LeaseExpires(j)
  BY <1>6, ExpiryKeeps
<1>7. CASE listPage \/ listSharedPage \/ Rows \/ Looked
  BY <1>7, PagesKeep
<1> QED
  BY <1>1, <1>2, <1>3, <1>4, <1>5, <1>6, <1>7 DEF VideoNext

LEMMA VideoInvariance == VideoSpec => []VideoInv
BY InitInvariant, VideoNextInvariant, PTL DEF VideoSpec

\* Type correctness; in particular money stays a natural number through every
\* rounding, and no statement writes a row the table refuses.
THEOREM VideoTyped == VideoSpec => []VideoTypeOK
<1>1. VideoInv => VideoTypeOK
  BY DEF VideoInv, Money, PricesSound, Table, Sound, Change, Lock, Tasks, Task, Others, Lease, VideoTypeOK
<1> QED
  BY <1>1, VideoInvariance, PTL

(* Only setQueueCurrency changes the currency. *)
LEMMA CurrencyStep ==
  ASSUME VideoInv, [VideoNext]_vars, currency' # currency
  PROVE  /\ \A v \in DOMAIN videos : videos'[v].priority = videos[v].priority
         /\ thresholds'["default"] = 0 /\ thresholds'["paid"] > 0
<1>1. setQueueCurrency
  BY DEF VideoNext, vars, Send, addManualVideo, ForeignKeyChecked, updateVideo, updatePriority, LocksUser,
     RescalesThresholds, RescalesVideos, RolledBack, createQueue, updateQueue, moveVideo, updateStatus,
     retryMetadata, Claim, GivesUp, Prices, Complete, Retry, processMetadata, LeaseExpires,
     listPage, listSharedPage, Counts, Rows, Looked
<1> QED
  BY <1>1, ChangeWrites, RepricedThresholds

\* With any number of tabs, workers and requests, every number in the queue and
\* on a page is in the currency it is shown in, unless the owner misread a page or
\* typed it into a row without an amount beside a change that had not committed
\* (Misleads; the code leaves that one in the old currency, see OneCurrency), and a
\* change of currency moves no video to another priority (setQueueCurrency's FOR
\* UPDATE against Complete's FOR SHARE, and the trigger's retained priorities).
THEOREM AmountsFollowCurrency == VideoSpec => AmountsInQueueCurrency
<1>1. VideoInv => /\ \A v \in DOMAIN videos : Misleads(videos[v]) \/ videos[v].unit = currency
              /\ \A i \in answer.items : i.number.misleads \/ i.number.unit = i.label
  BY DEF VideoInv, Table, Counted, Page
<1>2. VideoInv /\ [VideoNext]_vars =>
        [currency' # currency =>
             /\ \A v \in DOMAIN videos : videos'[v].priority = videos[v].priority
             /\ thresholds'["default"] = 0 /\ thresholds'["paid"] > 0]_vars
  BY CurrencyStep
<1> QED
  BY <1>1, <1>2, VideoInvariance, PTL DEF VideoSpec, AmountsInQueueCurrency
=============================================================================
