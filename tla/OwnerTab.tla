------------------------------ MODULE OwnerTab ------------------------------
(***************************************************************************)
(* One tab of the web application on one of the owner's pages, against the *)
(* server: the cached answers of one of the page's queries, the mutations  *)
(* its buttons and one of its forms send, the refetches they start and     *)
(* wait for, and the text in that form.  Init picks the page, the query    *)
(* and the form, so that every pair that shares a page is watched.         *)
(*                                                                         *)
(* The server's data is a version, raised by whatever changes the query's  *)
(* answer.  A paged query has a cached answer per page of the address.     *)
(***************************************************************************)
EXTENDS OwnerPages

CONSTANTS
    MaxEvents   \* presses, saves and page turns of the owner, changes made
                \* elsewhere, and failed requests
ASSUME MaxEventsAssumption == MaxEvents \in Nat

VARIABLES
    place,      \* the page, and which of its queries and forms are watched
    server,     \* the version of the query's data, and its number of pages
    url,        \* the page number in the address
    cache,      \* per page number: the last answer, whether the last fetch
                \* failed, and the fetch in flight with its reply
    mutation,   \* the mutation of the pressed button and that of the form
    text,       \* of the form: "clean", "typed", or "sent" and not typed in since
    owed,       \* per page number: the version settled saves promised to show
    left        \* of MaxEvents
vars == <<place, server, url, cache, mutation, text, owed, left>>

Numbers   == {1, 2}
Senders   == {"button", "form"}
NoAnswer  == [version |-> 0, page |-> 0]
Answer    == [version: 0..MaxEvents + 1, page: 0..2]
NotLoaded == [answer |-> NoAnswer, failed |-> FALSE, fetch |-> "none", reply |-> NoAnswer]
Idle      == [op |-> "none", at |-> "idle", wrote |-> 0, key |-> 1, mine |-> FALSE, before |-> NoAnswer]

page  == Pages[place.page]
query == place.query
paged == query \in PagedQueries
fm    == IF place.form = "none" THEN Form({}) ELSE page.forms[place.form]

TypeOK ==
    /\ place.page \in DOMAIN Pages
    /\ query \in page.queries
    /\ place.form \in DOMAIN page.forms \cup {"none"}
    /\ server \in [version: 1..MaxEvents + 1, pages: Numbers]
    /\ url \in Numbers /\ (url = 1 \/ paged)
    /\ cache \in [Numbers -> [answer: Answer, failed: BOOLEAN, fetch: {"none", "asked", "read"}, reply: Answer]]
    /\ mutation \in [Senders -> [op: Operations \cup {"none"}, at: {"idle", "sent", "applied", "refetching", "settling"},
                                 wrote: 0..MaxEvents + 1, key: Numbers, mine: BOOLEAN, before: Answer]]
    /\ text \in {"clean", "typed", "sent"}
    /\ owed \in [Numbers -> 0..MaxEvents + 1]
    /\ left \in 0..MaxEvents

-----------------------------------------------------------------------------
(* What is on screen.                                                       *)

Loaded == cache[url].answer.version > 0

(* A part is rendered from its query's data, and an error may replace it.   *)
Renders(part, entry) == part.host = query => entry.answer # NoAnswer /\ ~(part.hides /\ entry.failed)
Shown(part) == Renders(part, cache[url])

(* isPending, as the button or form that asks sees it: the mutation of a form *)
(* that was closed since is seen only if its hook belongs to the page.        *)
Pending(ops) ==
    \E s \in Senders : /\ mutation[s].at # "idle" /\ mutation[s].op \in ops
                       /\ s = "form" => fm.shared \/ mutation[s].mine

Forgotten(m) == [m EXCEPT !["form"].mine = FALSE]

(* A part that is no longer shown takes its form, and the text in it, away; the *)
(* rows of one page are not those of another.                                   *)
Rerender(t, m) ==
    IF Renders(fm, cache'[url']) /\ (fm.rows /\ fm.host = query => url' = url)
    THEN text' = t /\ mutation' = m
    ELSE text' = "clean" /\ mutation' = Forgotten(m)

-----------------------------------------------------------------------------
(* External: @tanstack/react-query, as the hooks use it.                    *)

Asked(entry) == [entry EXCEPT !.fetch = "asked", !.reply = NoAnswer]

(* An observer that mounts joins the fetch in flight, or starts one. *)
Mounted(n, c) == IF c[n].fetch = "none" THEN [c EXCEPT ![n] = Asked(@)] ELSE c

(* invalidateQueries starts the fetch anew, except that it joins the first one. *)
Joins == cache[url].answer = NoAnswer /\ cache[url].fetch # "none"
Invalidated == IF Joins THEN cache ELSE [cache EXCEPT ![url] = Asked(@)]

(* The mutations that wait for the fetch of a page go on when it has ended. *)
Resumed(n, showed) ==
    [s \in Senders |->
        IF mutation[s].at = "refetching" /\ mutation[s].key = n
        THEN [mutation[s] EXCEPT !.at = "settling", !.wrote = IF showed THEN @ ELSE 0]
        ELSE mutation[s]]

-----------------------------------------------------------------------------
(* The owner.                                                               *)

Spends == left > 0 /\ left' = left - 1

Type ==
    /\ place.form # "none" /\ Shown(fm) /\ ~Pending(fm.frozenBy)
    /\ text' = "typed"
    /\ mutation' = IF fm.detaches THEN Forgotten(mutation) ELSE mutation
    /\ UNCHANGED <<place, server, url, cache, owed, left>>

(* At most one save of the form is in flight in the model. *)
Submit ==
    /\ text = "typed" /\ Shown(fm) /\ ~Pending(fm.frozenBy) /\ mutation["form"].at = "idle"
    /\ Spends
    /\ text' = "sent"
    /\ \E op \in fm.saves :
         mutation' = [mutation EXCEPT !["form"] = [Idle EXCEPT !.op = op, !.at = "sent", !.mine = TRUE]]
    /\ UNCHANGED <<place, server, url, cache, owed>>

Leave ==
    /\ fm.leave /\ text # "clean" /\ ~Pending(fm.heldBy)
    /\ text' = "clean"
    /\ mutation' = Forgotten(mutation)
    /\ UNCHANGED <<place, server, url, cache, owed, left>>

(* An optimistic mutation first stops the fetch in flight and keeps what was shown. *)
Press ==
    /\ mutation["button"].at = "idle"
    /\ Spends
    /\ \E button \in page.buttons :
         /\ Shown(button) /\ ~Pending(button.blockedBy)
         /\ mutation' = [mutation EXCEPT !["button"] =
                            [Idle EXCEPT !.op = button.op, !.at = "sent",
                                         !.before = IF button.op \in Optimistic THEN cache[url].answer ELSE @]]
         /\ cache' = IF button.op \in Optimistic
                     THEN [cache EXCEPT ![url].fetch = "none", ![url].reply = NoAnswer, ![url].failed = FALSE]
                     ELSE cache
    /\ UNCHANGED <<place, server, url, text, owed>>

AnyPagination == Loaded /\ ~cache[url].failed /\ cache[url].fetch = "none"

(* PagePagination: not while the page is loading, nor when its last fetch failed. *)
PagePagination == paged /\ Loaded /\ ~cache[url].failed /\ cache[url].fetch = "none"

Turn ==
    /\ PagePagination
    /\ Spends
    /\ url' \in Numbers \ {url}
    /\ cache' = Mounted(url', cache)
    /\ Rerender(text, mutation)
    /\ UNCHANGED <<place, server, owed>>

-----------------------------------------------------------------------------
(* The page's own effects.                                                  *)

(* The address follows the answer: the page it was clamped to. *)
Corrects ==
    /\ paged /\ Loaded /\ cache[url].answer.page # url
    /\ url' = cache[url].answer.page
    /\ cache' = Mounted(url', cache)
    /\ Rerender(text, mutation)
    /\ UNCHANGED <<place, server, owed, left>>

(* A timer, where the query has one; and focus, a retry button or an event, anywhere. *)
Asks ==
    /\ cache[url].fetch = "none"
    /\ cache' = [cache EXCEPT ![url] = Asked(@)]
    /\ UNCHANGED <<place, server, url, mutation, text, owed, left>>
PollUntilError == query \in PolledQueries /\ ~cache[url].failed /\ Asks

Poll    == query \in PolledQueries /\ Asks
Refocus == Asks

-----------------------------------------------------------------------------
(* Mutations.                                                               *)

Changed(v) == server' \in [version: {v}, pages: IF paged THEN Numbers ELSE {server.pages}]

(* The server does what it was asked; the answer is on its way back. *)
Applied(s) ==
    /\ mutation[s].at = "sent"
    /\ IF query \in Writes[mutation[s].op]
       THEN Changed(server.version + 1) ELSE server' = server
    /\ mutation' = [mutation EXCEPT ![s].at = "applied",
                                    ![s].wrote = IF server' = server THEN 0 ELSE server'.version]
    /\ UNCHANGED <<place, url, cache, text, owed, left>>

(* onSuccess: the hook invalidates its queries and, but for two hooks, waits for *)
(* them. A mutation that joined the first fetch promises nothing.                *)
Refetches(s) ==
    LET m == mutation[s]  stale == query \in Invalidates[m.op] IN
    /\ cache' = IF stale THEN Invalidated ELSE cache
    /\ mutation' = [mutation EXCEPT ![s] =
           [m EXCEPT !.at    = IF stale /\ m.op \notin Unawaited THEN "refetching" ELSE "settling",
                     !.wrote = IF stale /\ (Joins \/ m.op \in Unawaited) THEN 0 ELSE @,
                     !.key   = url]]

Succeeds(s) ==
    /\ mutation[s].at = "applied"
    /\ Refetches(s)
    /\ UNCHANGED <<place, server, url, text, owed, left>>

(* The server refuses, or either message is lost: the text is the owner's again. *)
Fails(s) ==
    /\ mutation[s].at \in {"sent", "applied"}
    /\ mutation[s].op \notin DOMAIN Navigations \cup Optimistic
    /\ Spends
    /\ mutation' = [mutation EXCEPT ![s] = Idle]
    /\ text' = IF s = "form" /\ mutation[s].mine /\ text = "sent" THEN "typed" ELSE text
    /\ UNCHANGED <<place, server, url, cache, owed>>

(* setSourceEnabled: what was shown before is put back, and asked again either way. *)
TakenBack ==
    LET m == mutation["button"]
        restored == [cache EXCEPT ![url].answer = m.before, ![url].failed = FALSE] IN
    /\ m.at \in {"sent", "applied"} /\ m.op \in Optimistic
    /\ Spends
    /\ cache' = [restored EXCEPT ![url] = Asked(@)]
    /\ mutation' = [mutation EXCEPT !["button"].at = "refetching", !["button"].wrote = 0, !["button"].key = url,
                                    !["button"].before = NoAnswer]
    /\ UNCHANGED <<place, server, url, text, owed>>

(* The mutation is no longer pending, and the callbacks of its form run.   *)
Settled(s) ==
    /\ mutation[s].at = "settling"
    /\ owed' = [owed EXCEPT ![mutation[s].key] = IF mutation[s].wrote > @ THEN mutation[s].wrote ELSE @]
    /\ mutation' = [mutation EXCEPT ![s] = Idle]

ButtonSettles ==
    /\ Settled("button")
    /\ UNCHANGED <<place, server, url, cache, text, left>>

FormSettles ==
    LET m == mutation["form"] IN
    /\ Settled("form")
    /\ text' = IF (m.mine /\ ~(fm.keeps /\ text = "typed")) \/ (~m.mine /\ fm.late) THEN "clean" ELSE text
    /\ url' = IF m.mine /\ fm.rewinds THEN 1 ELSE url
    /\ cache' = IF url' = url THEN cache ELSE Mounted(url', cache)
    /\ UNCHANGED <<place, server, left>>

-----------------------------------------------------------------------------
(* Fetches.                                                                 *)

(* getPaginationWindow: the server answers for the last page there is. *)
Reads(n) ==
    /\ cache[n].fetch = "asked"
    /\ cache' = [cache EXCEPT ![n].fetch = "read",
                              ![n].reply = [version |-> server.version,
                                            page    |-> IF n > server.pages THEN server.pages ELSE n]]
    /\ UNCHANGED <<place, server, url, mutation, text, owed, left>>

(* A changed answer may have dropped the row that holds the form, and changes what *)
(* an adopting form has filled in.                                                *)
Lands(n) ==
    LET news == n = url /\ fm.host = query /\ cache[n].answer # NoAnswer
                /\ cache[n].reply.version # cache[n].answer.version IN
    /\ cache[n].fetch = "read"
    /\ cache' = [cache EXCEPT ![n] = [NotLoaded EXCEPT !.answer = cache[n].reply]]
    /\ url' = url
    /\ \/ Rerender(text, Resumed(n, TRUE))
       \/ news /\ fm.rows   /\ text' = "clean" /\ mutation' = Forgotten(Resumed(n, TRUE))
       \/ news /\ fm.adopts /\ text' = "clean" /\ mutation' = Resumed(n, TRUE)
    /\ UNCHANGED <<place, server, owed, left>>

Breaks(n) ==
    /\ cache[n].fetch # "none"
    /\ Spends
    /\ cache' = [cache EXCEPT ![n].fetch = "none", ![n].reply = NoAnswer, ![n].failed = TRUE]
    /\ url' = url
    /\ Rerender(text, Resumed(n, FALSE))
    /\ UNCHANGED <<place, server, owed>>

(* An answer nobody looks at is dropped after five minutes. *)
Collected(n) ==
    /\ n # url /\ cache[n].fetch = "none" /\ cache[n] # NotLoaded
    /\ cache' = [cache EXCEPT ![n] = NotLoaded]
    /\ UNCHANGED <<place, server, url, mutation, text, owed, left>>

(* External: another tab, a collector or a viewer changes the data. *)
Elsewhere ==
    /\ Spends
    /\ Changed(server.version + 1)
    /\ UNCHANGED <<place, url, cache, mutation, text, owed>>

-----------------------------------------------------------------------------

(* A form is watched with the query it is rendered from and those it changes. *)
Concerns(f, q) == f.host \in {q, "none"} \/ \E op \in f.saves : q \in Writes[op]

Init ==
    /\ \E name \in DOMAIN Pages : \E q \in Pages[name].queries :
         LET forms == { f \in DOMAIN Pages[name].forms : Concerns(Pages[name].forms[f], q) } IN
         \E f \in IF forms = {} THEN {"none"} ELSE forms : place = [page |-> name, query |-> q, form |-> f]
    /\ server \in [version: {1}, pages: IF paged THEN Numbers ELSE {1}]
    /\ url = 1
    /\ cache = Mounted(url, [n \in Numbers |-> NotLoaded])
    /\ mutation = [s \in Senders |-> Idle]
    /\ text = "clean" /\ owed = [n \in Numbers |-> 0] /\ left = MaxEvents

Next ==
    \/ Type \/ Submit \/ Leave \/ Press \/ Turn \/ Corrects \/ Poll \/ Refocus
    \/ \E s \in Senders : Applied(s) \/ Succeeds(s) \/ Fails(s)
    \/ TakenBack \/ ButtonSettles \/ FormSettles
    \/ \E n \in Numbers : Reads(n) \/ Lands(n) \/ Breaks(n) \/ Collected(n)
    \/ Elsewhere

Spec == Init /\ [][Next]_vars

(* The browser runs its callbacks and effects, timers fire, and a request that *)
(* does not fail is answered.                                                  *)
FairSpec ==
    /\ Spec
    /\ WF_vars(Corrects) /\ WF_vars(Poll)
    /\ WF_vars((\E s \in Senders : Applied(s) \/ Succeeds(s)) \/ ButtonSettles \/ FormSettles)
    /\ \A n \in Numbers : WF_vars(Reads(n) \/ Lands(n))

-----------------------------------------------------------------------------
(* Properties.                                                              *)

(* Once a button or a form has stopped saying it is saving, the page shows what *)
(* was saved, unless the refetch failed: no later poll, retry, page turn or     *)
(* other mutation brings back an answer from before it. (The hooks of           *)
(* hooks/api.ts, restream.ts, alerts.ts and chat-service.ts wait for the        *)
(* queries they invalidate.)                                                    *)
ReadYourWrites ==
    \A n \in Numbers : cache[n].answer # NoAnswer => cache[n].answer.version >= owed[n]

(* The forms that lose text, and to what; every other form loses nothing.       *)
ClearedByOwnSave  == {"PriorityForm", "SlugEditor", "QueueCurrency", "PublicQueue", "Destination",
                      "AlertEditor", "Search"}
ClosedByOlderSave == {"AddVideo", "Destination"}
LostToErrors      == {"VideoEditor", "PriorityForm", "Destination"}
LostToAnswers     == {"VideoEditor", "QueueCurrency"}
LostToCorrection  == {"VideoEditor", "AddVideo"}

(* What the owner typed stays in its form until the owner leaves the form or the *)
(* page of the list, or it has been saved; the exceptions are the forms above.   *)
NothingTypedIsLost ==
    [][text # "clean" /\ text' = "clean" =>
          \/ Leave
          \/ Turn
          \/ FormSettles /\ mutation["form"].mine
                /\ (text = "sent" \/ place.form \in ClearedByOwnSave)
          \/ FormSettles /\ ~mutation["form"].mine /\ place.form \in ClosedByOlderSave
          \/ place.form \in LostToErrors  /\ \E n \in Numbers : Breaks(n)
          \/ place.form \in LostToAnswers /\ \E n \in Numbers : Lands(n)
          \/ place.form \in LostToCorrection /\ Corrects ]_vars

(* When the owner and everyone else have stopped, no button or form stays pending, *)
(* a paged list shows the page its address names (the address is corrected to the  *)
(* page the server clamped it to, and does not swing between two pages), and a     *)
(* page that polls has come to show what the server holds, after any failures and  *)
(* wherever its fetches were when the data changed last.                           *)
PageSettles ==
    <>[](/\ \A s \in Senders : mutation[s].at = "idle"
         /\ paged /\ Loaded => cache[url].answer.page = url
         /\ query \in PolledQueries => cache[url].answer.version = server.version)
=============================================================================
