--------------------------- MODULE ProviderConnect ---------------------------
(***************************************************************************)
(* Connecting a donation provider by OAuth, in one browser: attempts begun *)
(* in several tabs share one state cookie per provider, the signed-in      *)
(* account may change between the steps, and the page a provider returns   *)
(* to may be loaded again while its first answer is on its way.            *)
(***************************************************************************)
EXTENDS Integers, FiniteSets

CONSTANTS
    MaxAttempts,    \* attempts begun
    MaxReturns,     \* loads of the pages the providers return to
    MaxSwitches     \* times the browser signs in or out
ASSUME ConnectAssumption == MaxAttempts \in Nat /\ MaxReturns \in Nat /\ MaxSwitches \in Nat

VARIABLES
    account,        \* who is signed in, "none" for nobody
    switches,       \* left of MaxSwitches
    cookie,         \* of each provider with a state: the attempt it names, 0: none
    attempt,        \* n: its provider, the account that began it
    callback,       \* the loads: their attempt, and what the browser sent with them
    exchanged,      \* codes that a provider has exchanged, by attempt
    linked          \* donation_integration: the attempt whose grant an account has
connectVars == <<account, switches, cookie, attempt, callback, exchanged, linked>>

Attempts  == 1..MaxAttempts
Loads     == 1..MaxReturns
Accounts  == {"first", "second"}
Stateful  == {"streamlabs", "streamelements"}
Providers == Stateful \cup {"donationalerts"}

NoAttempt == [at |-> "none", provider |-> "streamlabs", user |-> "none"]
NoLoad    == [at |-> "none", of |-> 0, state |-> 0, user |-> "none", code |-> FALSE, again |-> FALSE]

ConnectTypeOK ==
    /\ account \in Accounts \cup {"none"} /\ cookie \in [Stateful -> 0..MaxAttempts]
    /\ attempt \in [Attempts -> [at: {"none", "asked", "offered", "refused"},
                                 provider: Providers, user: Accounts \cup {"none"}]]
    /\ \A k \in Loads : callback[k].of \in 0..MaxAttempts /\ callback[k].state \in 0..MaxAttempts
    /\ exchanged \subseteq Attempts /\ linked \in [Accounts -> [Providers -> 0..MaxAttempts]]

-----------------------------------------------------------------------------
(* The browser.                                                             *)

SignsInOrOut ==
    /\ switches > 0 /\ switches' = switches - 1
    /\ account' \in (Accounts \cup {"none"}) \ {account}
    /\ UNCHANGED <<cookie, attempt, callback, exchanged, linked>>

(* A tab follows the link; the request has the session of its moment. *)
Begins(n) ==
    /\ attempt[n].at = "none" /\ \A m \in 1..(n - 1) : attempt[m].at # "none"
    /\ \E provider \in Providers :
         attempt' = [attempt EXCEPT ![n] = [at |-> "asked", provider |-> provider, user |-> account]]
    /\ UNCHANGED <<account, switches, cookie, callback, exchanged, linked>>

(* The provider sends the browser back, with a code or without one; or the page is *)
(* loaded again.                                                                   *)
Returns(k) ==
    /\ callback[k].at = "none" /\ \A j \in 1..(k - 1) : callback[j].at # "none"
    /\ \E n \in Attempts, granted \in BOOLEAN :
         LET before == { j \in Loads : callback[j].of = n } IN
         /\ attempt[n].at = "offered"
         /\ \A j \in before : callback[j].code = granted
         /\ callback' = [callback EXCEPT ![k] =
               [at |-> "sent", of |-> n, user |-> account, code |-> granted,
                state |-> IF attempt[n].provider \in Stateful THEN cookie[attempt[n].provider] ELSE 0,
                again |-> \E j \in before : callback[j].at = "answered"]]
    /\ UNCHANGED <<account, switches, cookie, attempt, exchanged, linked>>

-----------------------------------------------------------------------------
(* The web server.                                                          *)

(* A new cookie replaces that of an earlier attempt. *)
create(provider, n) == cookie' = [cookie EXCEPT ![provider] = n]
clear(provider)     == cookie' = [cookie EXCEPT ![provider] = 0]

Offers(n)  == attempt[n].user # "none" /\ attempt' = [attempt EXCEPT ![n].at = "offered"]
Refuses(n) == attempt' = [attempt EXCEPT ![n].at = "refused"]

(* Nobody is signed in, or the donation service gives no address. *)
handleDonationAlertsAuthorize(n) ==
    /\ attempt[n].provider = "donationalerts"
    /\ (Offers(n) \/ Refuses(n)) /\ UNCHANGED cookie

handleStreamlabsAuthorize(n) ==
    /\ attempt[n].provider = "streamlabs"
    /\ \/ Offers(n) /\ create("streamlabs", n)
       \/ Refuses(n) /\ UNCHANGED cookie

(* A failure clears the cookie. *)
handleStreamElementsAuthorize(n) ==
    /\ attempt[n].provider = "streamelements"
    /\ \/ Offers(n) /\ create("streamelements", n)
       \/ Refuses(n) /\ IF attempt[n].user = "none" THEN UNCHANGED cookie ELSE clear("streamelements")

Authorizes(n) ==
    /\ attempt[n].at = "asked"
    /\ handleDonationAlertsAuthorize(n) \/ handleStreamlabsAuthorize(n) \/ handleStreamElementsAuthorize(n)
    /\ UNCHANGED <<account, switches, callback, exchanged, linked>>

unsigned(state, of, user) == state = of

(* The cookie holds the state that came back, signed for the account of the request. *)
verify(state, of, user) == state = of /\ attempt[of].user = user

Connects(k) == callback' = [callback EXCEPT ![k].at = "exchanging"]
Answers(k)  == callback' = [callback EXCEPT ![k].at = "answered"]

(* A session that has ended since the request was sent is nobody's. *)
getUserId(k) == {callback[k].user} \cup IF account = callback[k].user THEN {} ELSE {"none"}

handleDonationAlertsCallback(k) ==
    /\ attempt[callback[k].of].provider = "donationalerts"
    /\ \E user \in getUserId(k) : IF callback[k].code /\ user # "none" THEN Connects(k) ELSE Answers(k)
    /\ UNCHANGED cookie

(* Whatever the answer is, it clears the cookie. *)
handleStatefulCallback(k, provider) ==
    LET load == callback[k] IN
    /\ attempt[load.of].provider = provider
    /\ \E user \in getUserId(k) :
         IF user # "none" /\ verify(load.state, load.of, user) /\ load.code
         THEN Connects(k) /\ UNCHANGED cookie
         ELSE Answers(k) /\ clear(provider)

handleStreamlabsCallback(k)     == handleStatefulCallback(k, "streamlabs")
handleStreamElementsCallback(k) == handleStatefulCallback(k, "streamelements")

Receives(k) ==
    /\ callback[k].at = "sent"
    /\ \/ handleDonationAlertsCallback(k) \/ handleStreamlabsCallback(k) \/ handleStreamElementsCallback(k)
    /\ UNCHANGED <<account, switches, attempt, exchanged, linked>>

(* The answer to a request that reached the donation service. *)
ClearsCookie(k) ==
    LET provider == attempt[callback[k].of].provider IN
    IF provider \in Stateful THEN clear(provider) ELSE UNCHANGED cookie

Redirects(k) ==
    /\ callback[k].at \in {"saved", "failed"}
    /\ Answers(k)
    /\ ClearsCookie(k)               \* whatever the answer was
    /\ UNCHANGED <<account, switches, attempt, exchanged, linked>>

-----------------------------------------------------------------------------
(* The donation service (DonationIngest has what follows a connection).      *)

(* A provider exchanges a code once. *)
IssueConnection(k) ==
    LET n == callback[k].of IN
    /\ callback[k].at = "exchanging"
    /\ \E issued \in BOOLEAN :
         /\ issued => n \notin exchanged
         /\ exchanged' = IF issued THEN exchanged \cup {n} ELSE exchanged
         /\ callback' = [callback EXCEPT ![k].at = IF issued THEN "importing" ELSE "failed"]
    /\ UNCHANGED <<account, switches, cookie, attempt, linked>>

(* The connection and its history, or neither. *)
SaveConnectionWithDonations(k) ==
    LET n == callback[k].of IN
    /\ callback[k].at = "importing"
    /\ \E saved \in BOOLEAN :
         /\ linked' = IF saved THEN [linked EXCEPT ![callback[k].user][attempt[n].provider] = n] ELSE linked
         /\ callback' = [callback EXCEPT ![k].at = IF saved THEN "saved" ELSE "failed"]
    /\ UNCHANGED <<account, switches, cookie, attempt, exchanged>>

-----------------------------------------------------------------------------

ConnectInit ==
    /\ account = "first" /\ switches = MaxSwitches
    /\ cookie = [provider \in Stateful |-> 0]
    /\ attempt = [n \in Attempts |-> NoAttempt]
    /\ callback = [k \in Loads |-> NoLoad]
    /\ exchanged = {}
    /\ linked = [user \in Accounts |-> [provider \in Providers |-> 0]]

ConnectNext ==
    \/ SignsInOrOut
    \/ \E n \in Attempts : Begins(n) \/ Authorizes(n)
    \/ \E k \in Loads : Returns(k) \/ Receives(k) \/ Redirects(k) \/ IssueConnection(k) \/ SaveConnectionWithDonations(k)

ConnectSpec == ConnectInit /\ [][ConnectNext]_connectVars

-----------------------------------------------------------------------------
(* Properties.                                                              *)

(* However tabs, sign-ins and reloads interleave, a grant that a provider with a    *)
(* state gave to an attempt is stored for the account that began it and for no      *)
(* other, and once an attempt's page has been answered, loading it again does not   *)
(* ask the donation service to connect a second time (verify, the cleared cookie).  *)
ConnectsWhoBegan ==
    /\ \A user \in Accounts, provider \in Stateful :
         linked[user][provider] # 0 => attempt[linked[user][provider]].user = user
    /\ \A k \in Loads : callback[k].again /\ attempt[callback[k].of].provider \in Stateful
                            => callback[k].at \in {"sent", "answered"}
=============================================================================
