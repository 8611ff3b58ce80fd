----------------------------- MODULE VideoQueue -----------------------------
(***************************************************************************)
(* The owner's video queues in Postgres: the web server's statements on    *)
(* them (PostgresVideoQueue), the trigger that assigns priorities, and the *)
(* workers that insert a donation's video and look up its duration.        *)
(* Statements of READ COMMITTED transactions interleave as their row locks *)
(* allow; the variables hold committed data, and a transaction that holds  *)
(* locks between two statements is a record of its own.                    *)
(***************************************************************************)
EXTENDS Integers, FiniteSets

CONSTANTS
    Workers,        \* goroutines, each free to take any job
    Tabs,           \* numbers of requests of the owner that can be in flight together
    MaxRequests,    \* how many the owner sends
    MaxClaims       \* claims of one job

ASSUME VideoBounds == Tabs \subseteq Nat /\ MaxRequests \in Nat /\ MaxClaims \in Nat

VARIABLES
    currency,       \* "user".queue_currency
    change,         \* setQueueCurrency's transaction, from its lock to its end
    queues,         \* the queues, and which is the default
    thresholds,     \* video_priority.min_price_per_minute
    videos,         \* the rows of video
    jobs,           \* donation_video_scan and video_metadata_job
    worker, tab,    \* what each is doing
    answer,         \* a page being read, by the owner or a viewer
    left            \* of MaxRequests
vars == <<currency, change, queues, thresholds, videos, jobs, worker, tab, answer, left>>

Null       == -1
Worth      == [RUB |-> 1, USD |-> 2, EUR |-> 3]     \* order of rublesPerUnit
Currencies == DOMAIN Worth
Priorities == {"default", "paid"}
QueueNames == {"first", "second"}
Videos     == {"scanned", "added"}
Numbers    == {1, 4}            \* amounts and thresholds the owner types
Rate       == 3                 \* the rate the owner types
Starts     == {0, 1}
Ends       == {Null, 2}
Durations  == {1}

NoRow     == [amount |-> Null, unit |-> "none", stale |-> FALSE, missed |-> FALSE, start |-> 0, end |-> Null,
              duration |-> Null, priority |-> "none", queue |-> "none", watched |-> FALSE]
Row       == [amount: Nat \cup {Null}, unit: Currencies \cup {"none"}, stale: BOOLEAN, missed: BOOLEAN, start: Starts,
              end: Ends \cup Durations, duration: Durations \cup {Null}, priority: Priorities \cup {"none"},
              queue: QueueNames \cup {"none"}, watched: BOOLEAN]
NoChange  == [at |-> "none", to |-> "none", right |-> TRUE, rows |-> {}]
NoRequest == [op |-> "none", shown |-> "none", number |-> 0, to |-> "none", row |-> NoRow]
NoTask    == [job |-> "none", generation |-> 0, unit |-> "none"]
NoLease   == [generation |-> 0, leased |-> FALSE, done |-> FALSE]
NoPage    == [at |-> "none", queue |-> "none", watched |-> FALSE, page |-> 0, items |-> {}]

VideoTypeOK ==
    /\ currency \in Currencies
    /\ change \in [at: {"none", "locked", "rescaling", "converted"}, to: Currencies \cup {"none"}, right: BOOLEAN,
                   rows: SUBSET Videos]
    /\ queues.all \in SUBSET QueueNames /\ queues.default \in queues.all
    /\ thresholds \in [Priorities -> Nat]
    /\ DOMAIN videos \subseteq Videos /\ \A v \in DOMAIN videos : videos[v] \in Row
    /\ jobs \in [Videos \cup {"scan"} -> [generation: 0..MaxClaims, leased: BOOLEAN, done: BOOLEAN]]
    /\ worker \in [Workers -> [job: Videos \cup {"scan", "none"}, generation: 0..MaxClaims, unit: Currencies \cup {"none"}]]
    /\ left \in 0..MaxRequests

-----------------------------------------------------------------------------
(* Row locks that are held between statements.                              *)

UserLocked      == change.at # "none"
UserShared      == \E w \in Workers : worker[w].unit # "none"
ThresholdLocked == change.at \in {"rescaling", "converted"}
RowLocked(v)    == v \in change.rows

-----------------------------------------------------------------------------
(* Money.                                                                   *)

conversionFactorForCurrencyChange(from, to) ==
    IF Worth[from] > Worth[to] THEN [numerator |-> Rate, denominator |-> 1]
                               ELSE [numerator |-> 1, denominator |-> Rate]

Rescaled(number, factor) ==
    LET exact == number * factor.numerator IN (2 * exact + factor.denominator) \div (2 * factor.denominator)

-----------------------------------------------------------------------------
(* Triggers.                                                                *)

(* The highest threshold the row's price per minute reaches. *)
Earned(row, prices) ==
    LET reached == { p \in Priorities : prices[p] * (row.end - row.start) <= row.amount }
    IN  CHOOSE p \in reached : \A q \in reached : prices[q] <= prices[p]

Rated(row) == row.amount # Null /\ row.end # Null /\ ~(row.duration # Null /\ row.start >= row.duration)

SameTiming(row, old) == row.start = old.start /\ row.end = old.end

(* retain is the setting streambrew.retain_video_priority of the transaction. *)
set_video_priority_id(row, old, retain, prices) ==
    [row EXCEPT !.priority =
        IF ~Rated(row) THEN "none"
        ELSE IF old.priority # "none" /\ (row.amount = old.amount \/ retain) /\ SameTiming(row, old) THEN old.priority
        ELSE Earned(row, prices)]

(* A committed row as any other transaction writes it. *)
With(v, row)     == [x \in DOMAIN videos \cup {v} |-> IF x \in DOMAIN videos THEN videos[x] ELSE row]
Inserted(v, row) == With(v, set_video_priority_id(row, NoRow, FALSE, thresholds))
Updated(v, row)  == [videos EXCEPT ![v] = set_video_priority_id(row, videos[v], FALSE, thresholds)]

(* The owner's number, typed on a page that showed another currency, is misread. *)
Typed(row, number, shown) ==
    [row EXCEPT !.amount = number, !.unit = shown, !.stale = shown # currency, !.missed = FALSE]

-----------------------------------------------------------------------------
(* Requests.                                                                *)

Replied(t) == tab' = [tab EXCEPT ![t] = NoRequest]

(* A page the owner types in shows the currency of its last answer.  Requests have *)
(* no identity: a new one takes the lowest number that is free.                    *)
Send(t) ==
    /\ tab[t].op = "none" /\ left > 0
    /\ \A u \in Tabs : u < t => tab[u].op # "none"
    /\ left' = left - 1
    /\ \E request \in [op: {"addVideo", "updateVideo", "updateVideoPriority"}, number: Numbers, to: {"none"}]
                   \cup [op: {"updateQueueCurrency"}, number: {0}, to: Currencies \ {currency}] :
         tab' = [tab EXCEPT ![t] = [NoRequest EXCEPT !.op = request.op, !.number = request.number,
                                                      !.to = request.to, !.shown = currency]]
    /\ UNCHANGED <<currency, change, queues, thresholds, videos, jobs, worker, answer>>

(* addManualVideo: the trigger reads the thresholds, then the foreign key waits for *)
(* the owner's row.                                                                 *)
addManualVideo(t) ==
    /\ tab[t].op = "addVideo" /\ "added" \notin DOMAIN videos
    /\ \A other \in Tabs : tab[other].op # "inserted"
    /\ \E end \in Ends : \E queue \in queues.all :
         LET row == [Typed(NoRow, tab[t].number, tab[t].shown) EXCEPT !.end = end, !.queue = queue] IN
         tab' = [tab EXCEPT ![t].op = "inserted", ![t].row = set_video_priority_id(row, NoRow, FALSE, thresholds)]
    /\ UNCHANGED <<currency, change, queues, thresholds, videos, jobs, worker, answer, left>>

ForeignKeyChecked(t) ==
    LET row == tab[t].row IN
    /\ tab[t].op = "inserted" /\ ~UserLocked
    /\ videos' = With("added", [row EXCEPT !.stale = row.unit # currency])
    /\ Replied(t)
    /\ UNCHANGED <<currency, change, queues, thresholds, jobs, worker, answer, left>>

(* A violated constraint refuses the whole statement. *)
TimingAccepted(start, until) == until = Null \/ start < until

(* updateVideo: without an end it takes the duration; the table refuses an end that *)
(* is not after the start.                                                          *)
updateVideo(t) ==
    /\ tab[t].op = "updateVideo"
    /\ \E v \in DOMAIN videos, start \in Starts, end \in Ends :
         LET until == IF end = Null THEN videos[v].duration ELSE end
             row   == Typed(videos[v], tab[t].number, tab[t].shown)
         IN  /\ ~RowLocked(v)
             /\ videos' = IF TimingAccepted(start, until)
                          THEN Updated(v, [row EXCEPT !.start = start, !.end = until]) ELSE videos
    /\ Replied(t)
    /\ UNCHANGED <<currency, change, queues, thresholds, jobs, worker, answer, left>>

(* updatePriority: the default threshold stays zero; no video is assigned again. *)
updatePriority(t) ==
    /\ tab[t].op = "updateVideoPriority" /\ ~ThresholdLocked
    /\ \E p \in Priorities :
         thresholds' = [thresholds EXCEPT ![p] = IF p = "default" THEN 0 ELSE tab[t].number]
    /\ Replied(t)
    /\ UNCHANGED <<currency, change, queues, videos, jobs, worker, answer, left>>
-----------------------------------------------------------------------------
(* setQueueCurrency, one transaction of four statements.                    *)

LocksUser(t) ==
    /\ tab[t].op = "updateQueueCurrency" /\ ~UserLocked /\ ~UserShared
    /\ Replied(t)
    /\ change' = IF tab[t].to = currency THEN change
                 ELSE [NoChange EXCEPT !.at = "locked", !.to = tab[t].to, !.right = tab[t].shown = currency]
    /\ UNCHANGED <<currency, queues, thresholds, videos, jobs, worker, answer, left>>

RescalesThresholds ==
    /\ change.at = "locked"
    /\ change' = [change EXCEPT !.at = "rescaling"]
    /\ UNCHANGED <<currency, queues, thresholds, videos, jobs, worker, tab, answer, left>>

RescalesVideos ==
    /\ change.at = "rescaling"
    /\ change' = [change EXCEPT !.at = "converted", !.rows = { v \in DOMAIN videos : videos[v].amount # Null }]
    /\ UNCHANGED <<currency, queues, thresholds, videos, jobs, worker, tab, answer, left>>

(* A threshold stays positive. *)
Repriced(p) ==
    LET factor == conversionFactorForCurrencyChange(currency, change.to)
        number == Rescaled(thresholds[p], factor)
    IN  IF p = "default" THEN 0 ELSE IF number > 1 THEN number ELSE 1

Converted(row) ==
    [row EXCEPT !.amount = Rescaled(row.amount, conversionFactorForCurrencyChange(currency, change.to)),
                !.unit = IF change.right /\ row.unit = currency THEN change.to ELSE "none",
                !.stale = row.stale \/ ~change.right]

(* A row that had no amount is not locked: one typed since into it is left as it is. *)
PassedBy(row) == [row EXCEPT !.missed = row.amount # Null]

(* What the statements wrote becomes visible at once. *)
setQueueCurrency ==
    /\ change.at = "converted"
    /\ thresholds' = [p \in Priorities |-> Repriced(p)]
    /\ videos' = [v \in DOMAIN videos |->
                     IF v \in change.rows
                     THEN set_video_priority_id(Converted(videos[v]), videos[v], TRUE, thresholds')
                     ELSE PassedBy(videos[v])]
    /\ currency' = change.to
    /\ change' = NoChange
    /\ UNCHANGED <<queues, jobs, worker, tab, answer, left>>

(* The connection or the process is lost. *)
RolledBack ==
    /\ UserLocked
    /\ change' = NoChange
    /\ UNCHANGED <<currency, queues, thresholds, videos, jobs, worker, tab, answer, left>>

-----------------------------------------------------------------------------
(* Queues, status and retries: one statement each, or one transaction whose *)
(* statements nobody sees apart.                                            *)

createQueue ==
    /\ left > 0 /\ left' = left - 1
    /\ ~UserLocked
    /\ \E queue \in QueueNames \ queues.all : queues' = [queues EXCEPT !.all = @ \cup {queue}]
    /\ UNCHANGED <<currency, change, thresholds, videos, jobs, worker, tab, answer>>

updateQueue ==
    /\ left > 0 /\ left' = left - 1
    /\ ~UserLocked /\ ~UserShared
    /\ \E queue \in queues.all, isDefault \in BOOLEAN :
         queues' = [queues EXCEPT !.default = IF isDefault THEN queue ELSE @]
    /\ UNCHANGED <<currency, change, thresholds, videos, jobs, worker, tab, answer>>

moveVideo ==
    /\ left > 0 /\ left' = left - 1
    /\ \E v \in DOMAIN videos, queue \in queues.all :
         /\ ~RowLocked(v) /\ videos' = Updated(v, [videos[v] EXCEPT !.queue = queue])
    /\ UNCHANGED <<currency, change, queues, thresholds, jobs, worker, tab, answer>>

(* updateStatus: no trigger fires. *)
updateStatus ==
    /\ left > 0 /\ left' = left - 1
    /\ \E v \in DOMAIN videos, watched \in BOOLEAN :
         /\ ~RowLocked(v) /\ videos' = [videos EXCEPT ![v].watched = watched]
    /\ UNCHANGED <<currency, change, queues, thresholds, jobs, worker, tab, answer>>

(* Not while a worker has the job, nor for a minute after its last attempt. *)
retryMetadata ==
    /\ left > 0 /\ left' = left - 1
    /\ \E v \in DOMAIN videos :
         /\ videos[v].duration = Null /\ ~jobs[v].leased
         /\ jobs' = [jobs EXCEPT ![v].done = FALSE]
    /\ UNCHANGED <<currency, change, queues, thresholds, videos, worker, tab, answer>>

-----------------------------------------------------------------------------
(* Workers.                                                                 *)

(* A donation is enqueued with its row, a video without a duration with its own. *)
Enqueued(j) == j = "scan" \/ j \in DOMAIN videos

(* SKIP LOCKED: not while a transaction has the job's row. *)
Claim(w) ==
    /\ worker[w].job = "none"
    /\ \E j \in DOMAIN jobs :
         /\ Enqueued(j) /\ ~jobs[j].done /\ ~jobs[j].leased /\ jobs[j].generation < MaxClaims
         /\ ~(j = "scan" /\ UserShared)
         /\ jobs' = [jobs EXCEPT ![j].generation = @ + 1, ![j].leased = TRUE]
         /\ worker' = [worker EXCEPT ![w] = [job |-> j, generation |-> jobs'[j].generation, unit |-> "none"]]
    /\ UNCHANGED <<currency, change, queues, thresholds, videos, tab, answer, left>>

LeaseExpires(j) ==
    /\ jobs[j].leased
    /\ jobs' = [jobs EXCEPT ![j].leased = FALSE]
    /\ UNCHANGED <<currency, change, queues, thresholds, videos, worker, tab, answer, left>>

Holds(w) ==
    LET job == jobs[worker[w].job] IN job.generation = worker[w].generation /\ job.leased /\ ~job.done

Freed(w) == worker' = [worker EXCEPT ![w] = NoTask]

(* Complete or processMetadata finds its lease lost, or the process stops; a scan's *)
(* transaction rolls back.                                                          *)
GivesUp(w) ==
    /\ worker[w].job # "none"
    /\ Freed(w)
    /\ UNCHANGED <<currency, change, queues, thresholds, videos, jobs, tab, answer, left>>

unlockedAmount(w) == worker[w].job = "scan" /\ worker[w].unit = "none" /\ Holds(w)

(* convertedQueueAmount waits for a change of currency, and then holds it off. *)
convertedQueueAmount(w) ==
    worker[w].job = "scan" /\ worker[w].unit = "none" /\ Holds(w) /\ ~UserLocked

(* Complete, up to its insertions. *)
Prices(w) ==
    /\ convertedQueueAmount(w)
    /\ worker' = [worker EXCEPT ![w].unit = currency]
    /\ UNCHANGED <<currency, change, queues, thresholds, videos, jobs, tab, answer, left>>

(* A donation of an unsupported currency leaves the amount empty. *)
Complete(w) ==
    /\ worker[w].unit # "none"
    /\ \E amount \in Numbers \cup {Null} :
         videos' = Inserted("scanned", [NoRow EXCEPT !.amount = amount, !.queue = queues.default,
                                                     !.unit = IF amount = Null THEN @ ELSE worker[w].unit])
    /\ jobs' = [jobs EXCEPT !["scan"].done = TRUE, !["scan"].leased = FALSE]
    /\ Freed(w)
    /\ UNCHANGED <<currency, change, queues, thresholds, tab, answer, left>>

(* Retry, and a lookup that failed for now or for good. *)
Retry(w) ==
    /\ worker[w].job # "none" /\ worker[w].unit = "none" /\ Holds(w)
    /\ \E terminal \in IF worker[w].job = "scan" THEN {FALSE} ELSE BOOLEAN :
         jobs' = [jobs EXCEPT ![worker[w].job].leased = FALSE, ![worker[w].job].done = terminal]
    /\ Freed(w)
    /\ UNCHANGED <<currency, change, queues, thresholds, videos, tab, answer, left>>

(* The lookup found the duration; the row may have been edited meanwhile. *)
processMetadata(w) ==
    LET v == worker[w].job IN
    /\ v \in Videos /\ Holds(w) /\ ~RowLocked(v)
    /\ \E d \in Durations :
         LET row     == videos[v]
             clipped == IF row.end = Null \/ row.end > d THEN d ELSE row.end
         IN  videos' = Updated(v, [row EXCEPT !.duration = d, !.end = IF row.start < d THEN clipped ELSE @])
    /\ jobs' = [jobs EXCEPT ![v].done = TRUE, ![v].leased = FALSE]
    /\ Freed(w)
    /\ UNCHANGED <<currency, change, queues, thresholds, tab, answer, left>>

-----------------------------------------------------------------------------
(* Pages of the list, in two statements: the window from a count, then the  *)
(* rows, each with its number and the currency it is shown in.              *)

Matching(queue, watched) == { v \in DOMAIN videos : videos[v].queue = queue /\ videos[v].watched = watched }

(* getPaginationWindow, for pages of one row. *)
Window(total, requested) == IF requested > total THEN IF total = 0 THEN 1 ELSE total ELSE requested

Counts(queue, watched) ==
    /\ answer.at = "none" /\ left > 0 /\ left' = left - 1
    /\ \E requested \in 1..2 :
         answer' = [at |-> "counted", queue |-> queue, watched |-> watched, items |-> {},
                    page |-> Window(Cardinality(Matching(queue, watched)), requested)]
    /\ UNCHANGED <<currency, change, queues, thresholds, videos, jobs, worker, tab>>

(* listPage names the queue, listSharedPage may take the default one. *)
listPage       == \E queue \in queues.all, watched \in BOOLEAN : Counts(queue, watched)
listSharedPage == \E watched \in BOOLEAN : Counts(queues.default, watched)

Misleads(row) == row.amount = Null \/ row.stale \/ row.missed
Shown(v)      == [unit |-> videos[v].unit, misleads |-> Misleads(videos[v])]

(* The rows of the page, in an order nothing here depends on. *)
Rows ==
    LET matching == Matching(answer.queue, answer.watched) IN
    /\ answer.at = "counted"
    /\ \E shown \in SUBSET matching :
         /\ Cardinality(shown) = IF answer.page <= Cardinality(matching) THEN 1 ELSE 0
         /\ answer' = [NoPage EXCEPT !.at = "read", !.items = { [label |-> currency, number |-> Shown(v)] : v \in shown }]
    /\ UNCHANGED <<currency, change, queues, thresholds, videos, jobs, worker, tab, left>>

Looked ==
    /\ answer.at = "read" /\ answer' = NoPage
    /\ UNCHANGED <<currency, change, queues, thresholds, videos, jobs, worker, tab, left>>
-----------------------------------------------------------------------------

VideoInit ==
    /\ currency = "RUB" /\ change = NoChange
    /\ queues = [all |-> {"first"}, default |-> "first"]
    /\ thresholds = [default |-> 0, paid |-> 2]
    /\ videos = [v \in {} |-> NoRow]
    /\ jobs = [j \in Videos \cup {"scan"} |-> NoLease]
    /\ worker = [w \in Workers |-> NoTask]
    /\ tab = [t \in Tabs |-> NoRequest]
    /\ answer = NoPage
    /\ left = MaxRequests

VideoNext ==
    \/ \E t \in Tabs : \/ Send(t) \/ addManualVideo(t) \/ ForeignKeyChecked(t) \/ updateVideo(t)
                       \/ updatePriority(t) \/ LocksUser(t)
    \/ RescalesThresholds \/ RescalesVideos \/ setQueueCurrency \/ RolledBack
    \/ createQueue \/ updateQueue \/ moveVideo \/ updateStatus \/ retryMetadata
    \/ \E w \in Workers : Claim(w) \/ GivesUp(w) \/ Prices(w) \/ Complete(w) \/ Retry(w) \/ processMetadata(w)
    \/ \E j \in DOMAIN jobs : LeaseExpires(j)
    \/ listPage \/ listSharedPage \/ Rows \/ Looked

VideoSpec == VideoInit /\ [][VideoNext]_vars

-----------------------------------------------------------------------------
(* Properties.                                                              *)

(* Every number of the queue is in the queue's currency, and is shown with it,     *)
(* unless the owner typed it, or the rate that converted it, on a page that showed *)
(* another currency than the queue had when it was stored, or typed it into a row  *)
(* without an amount while a change that had looked for amounts already was not    *)
(* committed (missed; OneCurrency): "a concurrent currency change either waits and *)
(* converts these videos or commits first and determines their currency"           *)
(* (Complete).  And the change itself moves no video to another priority, whatever *)
(* its rounding does, and leaves thresholds the table accepts (setQueueCurrency).  *)
AmountsInQueueCurrency ==
    /\ [](/\ \A v \in DOMAIN videos : Misleads(videos[v]) \/ videos[v].unit = currency
          /\ \A i \in answer.items : i.number.misleads \/ i.number.unit = i.label)
    /\ [][currency' # currency =>
             /\ \A v \in DOMAIN videos : videos'[v].priority = videos[v].priority
             /\ thresholds'["default"] = 0 /\ thresholds'["paid"] > 0 ]_vars

(* "The owning user's `queue_currency` is the single currency for all of their     *)
(* video amounts" (docs/features/currencies.md:9), typed by an owner who saw it.   *)
(* Not so: setQueueCurrency converts and locks only rows with an amount, and       *)
(* updateVideo may give one to another row before the change commits.              *)
OneCurrency ==
    \A v \in DOMAIN videos : videos[v].amount = Null \/ videos[v].stale \/ videos[v].unit = currency
=============================================================================
