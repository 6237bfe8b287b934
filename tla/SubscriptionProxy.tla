--------------------------- MODULE SubscriptionProxy ---------------------------
(***************************************************************************)
(* The subscriptions of several clients on the WebSocket proxy, which      *)
(* share the pool of broker connections of their user.  The proxy answers  *)
(* one message at a time in its event loop; a login in another thread      *)
(* discards the pool under its feet.  The pool sends a symbol's highest    *)
(* mode to the broker, rebuilds itself when the broker calls its token     *)
(* stale, and subscribes everything again.                                 *)
(***************************************************************************)
EXTENDS Integers, Sequences, FiniteSets, FiniteSetsExt

CONSTANTS
    Subscribers,  \* the clients of the proxy, all of one user
    Instruments,  \* the pairs of a symbol and an exchange
    MaxSymbols,   \* MAX_SYMBOLS_PER_WEBSOCKET
    Scenarios,    \* [limit, keepAlive, feeds]: MAX_WEBSOCKET_CONNECTIONS; does
                  \* the broker's session outlive the last client?; the pairs of
                  \* a symbol and a mode that each client asks for.  The modes
                  \* are 1 = LTP, 2 = quote, 3 = depth; each contains the lower
                  \* ones
    MaxLogins, MaxFailures   \* bounds of the exploration

VARIABLES
    scenario,     \* one of Scenarios, fixed
    authenticated,  \* the clients in user_mapping
    wants,        \* subscriptions and subscription_index, by client and symbol
    adapter,      \* is the user in broker_adapters?
    registered,   \* is the pool of that adapter in _POOLED_ADAPTERS?
    pool,         \* [counts, initialized, tracked, home, streams]
    call,         \* [step, client, symbol, mode, pending]: what the loop is at
    mail,         \* is a cache invalidation on its way to the proxy?
    login,        \* "none" or "published"
    logins,
    failures,     \* of the broker, those that it recovers from included
    lost,         \* symbols that nobody streams although someone wants them,
                  \* after a failure that the code reports to nobody
    kept          \* symbols whose unsubscription the broker refused

vars == <<scenario, authenticated, wants, adapter, registered, pool, call, mail,
          login, logins, failures, lost, kept>>

Feeds == UNION {scenario.feeds[c] : c \in Subscribers}

NoCall == [step |-> "none", client |-> 0, symbol |-> 0, mode |-> 0, pending |-> {}]

\* ConnectionPool after __init__ and after disconnect: no adapter, no subscription.
EmptyPool ==
    [counts |-> <<>>,                            \* adapter_symbol_counts
     initialized |-> FALSE,
     tracked |-> [s \in Instruments |-> {}],      \* subscription_map: modes,
     home |-> [s \in Instruments |-> 0],          \* and the connection
     streams |-> [s \in Instruments |-> 0]]       \* the mode the broker sends

FirstAdapter(p) == [p EXCEPT !.counts = Append(@, 0), !.initialized = TRUE]

Highest(modes) == IF modes = {} THEN 0 ELSE Max(modes)

Init ==
    /\ scenario \in Scenarios
    /\ authenticated = {}
    /\ wants = [c \in Subscribers |-> [s \in Instruments |-> {}]]
    /\ adapter = FALSE
    /\ registered = FALSE
    /\ pool = EmptyPool
    /\ call = NoCall
    /\ mail = FALSE
    /\ login = "none"
    /\ logins = 0
    /\ failures = 0
    /\ lost = {}
    /\ kept = {}

-----------------------------------------------------------------------------
(* The pool: what each call may leave behind.  An outcome names the symbols  *)
(* that it loses or keeps.                                                   *)

Outcome(p, answer, dropped, held) ==
    [pool |-> p, answer |-> answer, lost |-> dropped, kept |-> held]

Success(p) == Outcome(p, "success", {}, {})
Refused(p) == {Outcome(p, a, {}, {}) : a \in {"error", "auth error"}}

\* The broker is asked for one mode of one symbol.
Ask(p, s, m) ==
    {Success([p EXCEPT !.tracked[s] = @ \cup {m}, !.streams[s] = m])} \cup Refused(p)

\* A symbol without subscriptions is counted on the connection it goes to.
AskOn(p, i, s, m) ==
    {Success([p EXCEPT !.tracked[s] = {m}, !.streams[s] = m, !.home[s] = i,
                       !.counts[i] = @ + 1])} \cup Refused(p)

\* _get_adapter_with_capacity: the results of initialize and connect are not
\* looked at, their exceptions are answered.
AskOnNew(p, s, m) ==
    AskOn([p EXCEPT !.counts = Append(@, 0)], Len(p.counts) + 1, s, m) \cup Refused(p)

WithRoom(p) == {i \in DOMAIN p.counts : p.counts[i] < MaxSymbols}

NewSymbol(p, s, m) ==
    CASE WithRoom(p) # {} -> AskOn(p, Min(WithRoom(p)), s, m)
      [] WithRoom(p) = {} /\ Len(p.counts) < scenario.limit -> AskOnNew(p, s, m)
      [] OTHER -> {Outcome(p, "error", {}, {})}

\* _subscribe_inner
SubscribeInner(p, s, m) ==
    CASE p.tracked[s] = {} -> NewSymbol(p, s, m)
      [] m > Highest(p.tracked[s]) /\ p.tracked[s] # {} -> Ask(p, s, m)
      [] OTHER -> {Success([p EXCEPT !.tracked[s] = @ \cup {m}])}

\* The last mode of a symbol: tracked again if the broker refuses.
Remove(p, s) ==
    {Success([p EXCEPT !.tracked[s] = {}, !.streams[s] = 0, !.home[s] = 0,
                       !.counts[p.home[s]] = @ - 1]),
     Outcome(p, "error", {}, {s})}

\* The highest of several modes: the broker is to switch down.  If it refuses,
\* the old mode is tracked again and asked for again, and nobody looks at the
\* answer; an exception skips the second request, or both.
Downgrade(p, s, m) ==
    LET rest == p.tracked[s] \ {m}
    IN  {Success([p EXCEPT !.tracked[s] = rest, !.streams[s] = Highest(rest)]),
         Outcome([p EXCEPT !.streams[s] = m], "error", {}, {s}),
         Outcome([p EXCEPT !.streams[s] = 0], "error", {s}, {s}),
         Outcome(p, "error", {}, {s})}

\* Mutant: the pool forgets that other modes of the symbol remain.
RemoveAnyway(p, s, m) ==
    {Success([p EXCEPT !.tracked[s] = @ \ {m}, !.streams[s] = 0])}

Unsubscribe(p, s, m) ==
    CASE m \notin p.tracked[s] -> {Outcome(p, "not subscribed", {}, {})}
      [] p.tracked[s] = {m} -> Remove(p, s)
      [] m = Highest(p.tracked[s]) /\ p.tracked[s] # {m} -> Downgrade(p, s, m)
      [] OTHER -> {Success([p EXCEPT !.tracked[s] = @ \ {m}])}

UnsubscribeAll(p) == [EmptyPool EXCEPT !.counts = [i \in DOMAIN p.counts |-> 0],
                                       !.initialized = p.initialized]

-----------------------------------------------------------------------------
(* Steps of the event loop and of the login *)

Wanted(s) == UNION {wants[c][s] : c \in Subscribers}
WantedSymbols == {s \in Instruments : Wanted(s) # {}}
Pending(s) == {f \in call.pending : f[1] = s}

\* A symbol is lost until neither a client nor the pool knows it, and kept until
\* the pool has given it up.
Mark(dropped, held) ==
    LET known(s) == pool'.tracked[s] # {} \/ \E f \in call'.pending : f[1] = s
        wanted(s) == \E c \in Subscribers : wants'[c][s] # {}
    IN  /\ lost' = {s \in lost \cup dropped : known(s) \/ wanted(s)}
        /\ kept' = {s \in kept \cup held : known(s)}

Failing(fails) ==
    /\ fails => failures < MaxFailures
    /\ failures' = failures + (IF fails THEN 1 ELSE 0)

Idle == call.step = "none"

\* authenticate_client: the client belongs to the user, connection or not.
Authenticate(c) ==
    /\ Idle
    /\ authenticated' = authenticated \cup {c}
    /\ UNCHANGED <<scenario, wants, call, mail, login, logins, failures>>
    /\ \/ UNCHANGED <<adapter, registered, pool, lost, kept>>
       \/ /\ ~adapter
          /\ adapter' = TRUE
          /\ registered' = TRUE
          /\ pool' = FirstAdapter(EmptyPool)
          /\ Mark({}, {})

Served(c) == c \in authenticated /\ adapter

\* The end of a subscription: by the answer of the pool the client is in the
\* index or is told that it is not.
Answer(c, s, m, o) ==
    /\ pool' = o.pool
    /\ call' = NoCall
    /\ wants' = IF o.answer = "success"
                THEN [wants EXCEPT ![c][s] = @ \cup {m}] ELSE wants
    /\ Mark({}, {})
    /\ UNCHANGED <<scenario, authenticated, adapter, registered, mail, login,
                   logins, failures>>

SubscribeClient(c, s, m) ==
    /\ Idle
    /\ Served(c)
    /\ \E o \in SubscribeInner(pool, s, m) :
          o.answer # "auth error" /\ Answer(c, s, m, o)

\* subscribe: the broker refuses the token, _attempt_auth_recovery begins.
TokenRefused(c, s, m) ==
    /\ Idle
    /\ Served(c)
    /\ \E o \in SubscribeInner(pool, s, m) :
          /\ o.answer = "auth error"
          /\ pool' = o.pool
    /\ Failing(TRUE)
    /\ call' = [NoCall EXCEPT !.step = "snapshot", !.client = c, !.symbol = s,
                              !.mode = m]
    /\ UNCHANGED <<scenario, authenticated, wants, adapter, registered, mail,
                   login, logins, lost, kept>>

Snapshot ==
    /\ call.step = "snapshot"
    /\ call' = [call EXCEPT !.step = "initialize",
                            !.pending = {f \in Feeds : f[2] \in pool.tracked[f[1]]}]
    /\ UNCHANGED <<scenario, authenticated, wants, adapter, registered, pool, mail,
                   login, logins, failures, lost, kept>>

\* The recovery returns False: what it has not restored stays away.
GiveUp(p) ==
    /\ call' = NoCall
    /\ Mark({f[1] : f \in {g \in call.pending : g[2] \notin p.tracked[g[1]]}}, {})

\* initialize(force=True): a pool that was discarded meanwhile is not cleared.
Initialize ==
    LET cleared == IF pool.initialized THEN EmptyPool ELSE pool
    IN  /\ call.step = "initialize"
        /\ UNCHANGED <<scenario, authenticated, wants, adapter, registered, mail,
                       login, logins>>
        /\ \/ /\ pool' = FirstAdapter(cleared)
              /\ call' = [call EXCEPT !.step = "connect"]
              /\ Mark({}, {})
              /\ Failing(FALSE)
           \/ pool' = cleared /\ GiveUp(cleared) /\ Failing(TRUE)

Connect ==
    /\ call.step = "connect"
    /\ UNCHANGED <<scenario, authenticated, wants, adapter, registered, pool, mail,
                   login, logins>>
    /\ \/ /\ pool.counts # <<>>
          /\ call' = [call EXCEPT !.step = "restore"]
          /\ UNCHANGED <<failures, lost, kept>>
       \/ GiveUp(pool) /\ Failing(pool.counts # <<>>)

\* A subscription that is refused here is only logged.
Restore(s, m) ==
    /\ call.step = "restore"
    /\ <<s, m>> \in call.pending
    /\ call' = [call EXCEPT !.pending = @ \ {<<s, m>>}]
    /\ UNCHANGED <<scenario, authenticated, wants, adapter, registered, mail,
                   login, logins>>
    /\ \E o \in SubscribeInner(pool, s, m) :
          /\ pool' = o.pool
          /\ Failing(o.answer # "success")
          /\ Mark(IF o.answer = "success" THEN {} ELSE {s}, {})

Retry ==
    /\ call.step = "restore"
    /\ call.pending = {}
    /\ \E o \in SubscribeInner(pool, call.symbol, call.mode) :
          Answer(call.client, call.symbol, call.mode, o)

\* The index drops the client, and only the last one asks the pool.
Drop(c, s, m) ==
    LET others == \E d \in Subscribers \ {c} : m \in wants[d][s]
    IN  /\ m \in wants[c][s]
        /\ wants' = [wants EXCEPT ![c][s] = @ \ {m}]
        /\ UNCHANGED <<scenario, authenticated, adapter, registered, call, mail,
                       login, logins>>
        /\ \E o \in IF others \/ ~adapter THEN {Success(pool)}
                    ELSE Unsubscribe(pool, s, m) :
              /\ pool' = o.pool
              /\ Failing(o.answer = "error")
              /\ Mark(o.lost, o.kept)

UnsubscribeClient(c, s, m) == Idle /\ Served(c) /\ Drop(c, s, m)

\* cleanup_client: the subscriptions one by one,
Leave(c) ==
    /\ Idle
    /\ c \in authenticated
    /\ call' = [NoCall EXCEPT !.step = "leave", !.client = c]
    /\ UNCHANGED <<scenario, authenticated, wants, adapter, registered, pool, mail,
                   login, logins, failures, lost, kept>>

DropNext(s, m) == call.step = "leave" /\ Drop(call.client, s, m)

\* then, after the last client of the user, the connections.
Left ==
    LET last == authenticated = {call.client} /\ adapter
        closes == last /\ ~scenario.keepAlive
    IN  /\ call.step = "leave"
        /\ \A s \in Instruments : wants[call.client][s] = {}
        /\ authenticated' = authenticated \ {call.client}
        /\ call' = NoCall
        /\ adapter' = (adapter /\ ~closes)
        /\ registered' = (registered /\ ~closes)
        /\ pool' = CASE closes -> EmptyPool
                     [] last /\ ~closes -> UnsubscribeAll(pool)
                     [] OTHER -> pool
        /\ UNCHANGED <<scenario, wants, mail, login, logins, failures>>
        /\ Mark({}, {})

\* upsert_auth: the invalidation is published, or its failure is logged,
Publish ==
    /\ login = "none"
    /\ logins < MaxLogins
    /\ login' = "published"
    /\ logins' = logins + 1
    /\ mail' \in {mail, TRUE}
    /\ UNCHANGED <<scenario, authenticated, wants, adapter, registered, pool, call,
                   failures, lost, kept>>

\* then cleanup_pools_for_user disconnects the pool that is registered by now.
Discard ==
    /\ login = "published"
    /\ login' = "none"
    /\ registered' = FALSE
    /\ pool' = IF registered THEN EmptyPool ELSE pool
    /\ UNCHANGED <<scenario, authenticated, wants, adapter, call, mail, logins,
                   failures>>
    /\ Mark(IF registered THEN WantedSymbols ELSE {}, {})

\* _handle_cache_invalidation: the clients stay, without an adapter.
HandleInvalidation ==
    /\ Idle
    /\ mail
    /\ mail' = FALSE
    /\ adapter' = FALSE
    /\ registered' = (registered /\ ~adapter)
    /\ pool' = IF adapter THEN EmptyPool ELSE pool
    /\ UNCHANGED <<scenario, authenticated, wants, call, login, logins, failures>>
    /\ Mark(IF adapter THEN WantedSymbols ELSE {}, {})

Next ==
    \/ \E c \in Subscribers : Authenticate(c) \/ Leave(c)
    \/ \E c \in Subscribers : \E f \in scenario.feeds[c] :
          \/ SubscribeClient(c, f[1], f[2])
          \/ TokenRefused(c, f[1], f[2])
          \/ UnsubscribeClient(c, f[1], f[2])
    \/ \E f \in Feeds : Restore(f[1], f[2]) \/ DropNext(f[1], f[2])
    \/ Snapshot \/ Initialize \/ Connect \/ Retry \/ Left
    \/ Publish \/ Discard \/ HandleInvalidation

Spec == Init /\ [][Next]_vars

-----------------------------------------------------------------------------
(* Properties *)

\* Whoever is subscribed gets its ticks: the broker streams the symbol in the
\* client's mode or a higher one, which contains it.
SubscribersGetTicks ==
    \A c \in Subscribers, s \in Instruments \ lost :
        Pending(s) = {} => pool.streams[s] >= Highest(wants[c][s])

\* The broker streams nothing that nobody wants, unless it refused to stop.
NothingStreamsForNobody ==
    \A s \in Instruments \ kept : pool.streams[s] <= Highest(Wanted(s))

\* The count that decides where a symbol goes is right, and no connection
\* carries more symbols than the broker admits.
CountsAreRight ==
    \A i \in DOMAIN pool.counts :
        /\ pool.counts[i] = Cardinality({s \in Instruments : pool.home[s] = i})
        /\ pool.counts[i] <= MaxSymbols

\* The clients' subscriptions, the pool's books and the broker's streams agree
\* through shared symbols, modes that contain each other, refused calls and
\* recoveries from stale tokens; a client is cut off without being told only by
\* a login or by a failure while the pool puts back what it had.
StreamsMatchSubscriptions ==
    SubscribersGetTicks /\ NothingStreamsForNobody /\ CountsAreRight
=============================================================================
