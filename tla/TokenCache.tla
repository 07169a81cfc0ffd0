----------------------------- MODULE TokenCache -----------------------------
(***************************************************************************)
(* The cache of tokens: the marks that crawlers and ledgers leave in       *)
(* cache.todos, the worker that serves them (cache/worker.js,              *)
(* cache/tokens.js), and the pushes to the websocket clients that have     *)
(* subscribed (lib/ipc.js, srv/ws.js).                                     *)
(*                                                                         *)
(* A task of this worker does not wait: it reads the core database, writes *)
(* the row, and pushes it, in one step.                                    *)
(***************************************************************************)
EXTENDS Props, Exchanges

CONSTANTS
  Clients,
  Writes,       \* bound: what crawlers write: [subject, source, props]
  Trades,       \* bound: exchanges, without token and ledger
  Snapshot,     \* the tokens of the ledger state the history begins with
  Counts,       \* bound: numbers of holders a ledger may leave
  MaxChanges    \* bound: changes of the core database, and tasks that fail

ASSUME CacheAssumption ==
  /\ Snapshot \subseteq Tokens
  /\ IsFiniteSet(Snapshot)

Series == INSTANCE Points

VARIABLES
  rows,         \* AccountProp, TokenProp
  tokens,       \* core.tokens: the tokens there are
  holders,      \* TokenHolders: by token, the points of its number of holders
  first, last,  \* the ledgers there are
  exchanges,    \* TokenExchange
  todos,        \* cache.todos: <<task, subject>>, oldest first
  cache,        \* cache.tokens
  clients,      \* by client: link, alive, subscriptions
  changes,      \* bound: how many there were
  unheard,      \* history: parts of a row that changed without a mark, or whose
                \* task has failed, and which nothing has marked since
  known         \* history: what a subscriber was last told, or could read at first

core == <<rows, tokens, holders, first, last, exchanges>>
vars == <<core, todos, cache, clients, changes, unheard, known>>

Parts == {"own", "issuer", "holders", "market"}
NoFigures == [current |-> 0, day |-> 0, week |-> 0]
NoMarket == [price |-> Free, day |-> Free, week |-> Free, volume |-> 0, count |-> 0, takers |-> 0]
NoRow == [own |-> {}, issuer |-> {}, holders |-> NoFigures, market |-> NoMarket]
Absent == [link |-> "none", alive |-> FALSE, subscriptions |-> {}]

---------------------------------------------------------------------------
(* What a row should show.                                                 *)

\* getCommonLedgerSequences: the last ledger, and those of a day and a week
\* before, or the first there is.
Ago(ledgers) == Max({first, last - ledgers})

Holders(token, ledger) == Series!ReadPoint(holders[token], ledger)

\* updateCacheForTokenMetrics.
Figures(token) ==
  [current |-> Holders(token, last),
   day     |-> Holders(token, last) - Holders(token, Ago(1)),
   week    |-> Holders(token, last) - Holders(token, Ago(2))]

\* updateCacheForTokenExchanges: all that may be read.
Markets(token) ==
  {[price  |-> now, day |-> day, week |-> week,
    volume |-> Volume(exchanges, token, Ago(1), last),
    count  |-> Count(exchanges, token, Ago(1), last),
    takers |-> Takers(exchanges, token, Ago(1), last)] :
     now  \in Prices(exchanges, token, last),
     day  \in Prices(exchanges, token, Ago(1)),
     week \in Prices(exchanges, token, Ago(2))}

\* readTokenProps asks for no ledger: it reads the newest point there is.
Held == {token \in Tokens : Holders(token, last) > 0}

TokenView(token) == ReadTokenProps(rows, {}, Held, token)
IssuerView(token) == ReadAccountProps(rows, {}, IssuerOf[token])

IssuedBy(account) == {token \in tokens : IssuerOf[token] = account}

---------------------------------------------------------------------------
(* Marks: a todo is unique, one that is there already keeps its place.     *)

Mark_Ahead(tasks) == todos' = SetToSeq(tasks) \o SelectSeq(todos, LAMBDA todo : todo \notin tasks)
Mark(tasks) == todos' = todos \o SetToSeq(tasks \ Range(todos))

Change == changes < MaxChanges /\ changes' = changes + 1

PropsOf(subject) == <<IF subject \in Accounts THEN "account.props" ELSE "token.props", subject>>

\* What a task will bring up to date.
PartsOf(todo) ==
  CASE todo[1] = "account.props"         -> {"own", "issuer"} \X IssuedBy(todo[2])
    [] todo[1] = "token.props"           -> {"own"} \X {todo[2]}
    [] todo[1] = "token.metrics.holders" -> {"holders"} \X {todo[2]}
    [] todo[1] = "token.exchanges"       -> {"market"} \X {todo[2]}

Write(write) ==
  /\ write.subject \in Accounts \cup tokens
  /\ rows' = ApplyProps(rows, write.subject, write.props, write.source)
  /\ IF rows' = rows THEN UNCHANGED changes ELSE Change
  /\ UNCHANGED <<tokens, holders, first, last, exchanges, cache, clients, known>>

\* writeAccountProps, writeTokenProps: they mark what they write even if it
\* was there already, which may happen as often as a crawler comes by.
Crawled(write) ==
  /\ Write(write)
  /\ Mark({PropsOf(write.subject)})
  /\ unheard' = unheard \ PartsOf(PropsOf(write.subject))

\* A chunk of a diff marks nothing: what it changes is marked at the end of the
\* diff, if the diff comes to its end (module Crawl says when it does not).
Listed(write) ==
  /\ Write(write)
  /\ rows' # rows
  /\ unheard' = unheard \cup PartsOf(PropsOf(write.subject))
  /\ UNCHANGED todos

DiffEnds(subject) ==
  /\ PartsOf(PropsOf(subject)) \cap unheard # {}
  /\ Mark({PropsOf(subject)})
  /\ unheard' = unheard \ PartsOf(PropsOf(subject))
  /\ UNCHANGED <<core, cache, clients, changes, known>>

---------------------------------------------------------------------------
(* What a ledger adds.                                                     *)

Exchange(trade, token, ledger) ==
  [token |-> token, ledger |-> ledger, sells |-> trade.sells,
   paid  |-> trade.paid, got |-> trade.got, taker |-> trade.taker]

\* diff of a token's trust lines: the token may be new, and so may be the
\* number of its holders, written at the ledger in hand.
Recount(token, ledger) ==
  \E count \in Counts :
    /\ tokens' = tokens \cup {token}
    /\ holders' = [holders EXCEPT ![token] = Series!WriteMetric(@, ledger, count)]
    /\ UNCHANGED exchanges

Trade(token, ledger) ==
  \E trade \in Trades :
    /\ tokens' = tokens \cup {token}
    /\ exchanges' = exchanges \cup {Exchange(trade, token, ledger)}
    /\ UNCHANGED holders

\* What no ledger marks, of the sync or not: the properties of a new token, and
\* the trust passed on when the first holder comes or the last one goes.
Unmarked(token) ==
  {part \in {"own", "issuer"} \X {token} :
     token \notin tokens \/ (part[1] = "own" /\ (token \in Held) # (token \in Held'))}

\* A ledger of the sync, in one transaction.
Traded_XRPOnly(token) == {}
Traded(token) == {<<"token.exchanges", token>>}

Ledger ==
  /\ Change
  /\ last' = last + 1
  /\ \E token \in Tokens :
       \/ /\ Recount(token, last')
          /\ Mark({<<"token.metrics.holders", token>>})
          /\ unheard' = (unheard \ {<<"holders", token>>}) \cup Unmarked(token)
       \/ /\ Trade(token, last')
          /\ Mark(Traded(token))
          /\ unheard' = (unheard \ {<<"market", token>>}) \cup Unmarked(token)
  /\ UNCHANGED <<rows, first, cache, clients, known>>

\* What only the backfill leaves unmarked.  It writes at its own ledger, yet a
\* token may have no newer point, or no newer exchange, than that.
Overlooked(token) ==
  {part \in {"holders", "market"} \X {token} :
     \/ part[1] = "holders" /\ Holders(token, last)' # Holders(token, last)
     \/ part[1] = "market" /\ exchanges' # exchanges /\ Newest(exchanges, token, last) = {}}

\* A ledger of the backfill marks nothing.  From its target on the last one may
\* come again; its exchanges are there already.
Backfilled ==
  /\ Change
  /\ first' = Max({1, first - 1}) /\ last' = last
  /\ \E token \in Tokens :
       /\ \/ Recount(token, first')
          \/ first > 1 /\ Trade(token, first')
       /\ unheard' = unheard \cup Unmarked(token) \cup Overlooked(token)
  /\ UNCHANGED <<rows, todos, cache, clients, known>>

---------------------------------------------------------------------------
(* The worker.                                                             *)

Subscribed(client, token) == token \in clients[client].subscriptions

\* dispatchTokenUpdate, pushTokenUpdate: a row that has changed is sent to all
\* who have subscribed.
Push_Alive(after) ==
  /\ cache' = after
  /\ known' = [client \in Clients |-> [token \in Tokens |->
       IF after[token] # cache[token] /\ clients[client].alive /\ Subscribed(client, token)
       THEN after[token] ELSE known[client][token]]]
Push(after) ==
  /\ cache' = after
  /\ known' = [client \in Clients |-> [token \in Tokens |->
       IF after[token] # cache[token] /\ clients[client].link # "none" /\ Subscribed(client, token)
       THEN after[token] ELSE known[client][token]]]

\* createOne, for each of these rows.
Update(changed) ==
  Push([token \in Tokens |-> IF token \in DOMAIN changed THEN changed[token] ELSE cache[token]])

Heard(parts, subjects) == unheard' = unheard \ (parts \X subjects)

OfAccount_Tokenless(account) ==
  /\ Update([token \in IssuedBy(account) |-> [cache[token] EXCEPT !.issuer = IssuerView(token)]])
  /\ Heard({"issuer"}, IssuedBy(account))

\* updateCacheForAccountProps: all tokens of an issuer, and what they take
\* from it themselves.
OfAccount(account) ==
  /\ Update([token \in IssuedBy(account) |->
               [cache[token] EXCEPT !.issuer = IssuerView(token), !.own = TokenView(token)]])
  /\ Heard({"own", "issuer"}, IssuedBy(account))

OfToken(token) ==
  /\ Update([t \in {token} |-> [cache[t] EXCEPT !.own = TokenView(t)]])
  /\ Heard({"own"}, {token})

OfHolders(token) ==
  /\ Update([t \in {token} |-> [cache[t] EXCEPT !.holders = Figures(t)]])
  /\ Heard({"holders"}, {token})

OfExchanges(token) ==
  /\ \E market \in Markets(token) : Update([t \in {token} |-> [cache[t] EXCEPT !.market = market]])
  /\ Heard({"market"}, {token})

\* The switch of startMetaCacheWorker.
Task(todo) ==
  \/ todo[1] = "account.props" /\ OfAccount(todo[2])
  \/ todo[1] = "token.props" /\ OfToken(todo[2])
  \/ todo[1] = "token.metrics.holders" /\ OfHolders(todo[2])
  \/ todo[1] = "token.exchanges" /\ OfExchanges(todo[2])

Serve ==
  /\ todos # <<>>
  /\ Task(Head(todos))
  /\ todos' = Tail(todos)
  /\ UNCHANGED <<core, clients, changes>>

\* A task that fails is deleted like one that succeeds.
Fail ==
  /\ Change
  /\ todos # <<>>
  /\ unheard' = unheard \cup PartsOf(Head(todos))
  /\ todos' = Tail(todos)
  /\ UNCHANGED <<core, cache, clients, known>>

---------------------------------------------------------------------------
(* The clients.                                                            *)

Connect(client) ==
  /\ clients[client].link = "none"
  /\ clients' = [clients EXCEPT ![client] = [link |-> "open", alive |-> TRUE, subscriptions |-> {}]]
  /\ UNCHANGED <<core, todos, cache, changes, unheard, known>>

Subscribe(client, token) ==
  /\ clients[client].link = "open"
  /\ ~Subscribed(client, token)
  /\ token \in tokens
  /\ clients' = [clients EXCEPT ![client].subscriptions = @ \cup {token}]
  /\ known' = [known EXCEPT ![client][token] = cache[token]]
  /\ UNCHANGED <<core, todos, cache, changes, unheard>>

Unsubscribe(client, token) ==
  /\ clients[client].link = "open"
  /\ Subscribed(client, token)
  /\ clients' = [clients EXCEPT ![client].subscriptions = @ \ {token}]
  /\ known' = [known EXCEPT ![client][token] = NoRow]
  /\ UNCHANGED <<core, todos, cache, changes, unheard>>

\* The network no longer reaches a client, or its user has gone.
Vanish(client) ==
  /\ clients[client].link = "open"
  /\ clients' = [clients EXCEPT ![client].link = "lost"]
  /\ UNCHANGED <<core, todos, cache, changes, unheard, known>>

\* checkAliveInterval: who has not answered since the last time is closed, the
\* others are asked.
Check_Trusting(client) ==
  IF client.link = "none" \/ client.alive THEN client
  ELSE [client EXCEPT !.link = "closing"]
Check(client) ==
  IF client.link = "none" THEN client
  ELSE IF client.alive THEN [client EXCEPT !.alive = FALSE]
  ELSE [client EXCEPT !.link = "closing"]
CheckAlive ==
  /\ clients' = [client \in Clients |-> Check(clients[client])]
  /\ UNCHANGED <<core, todos, cache, changes, unheard, known>>

Pong(client) ==
  /\ clients[client].link = "open"
  /\ ~clients[client].alive
  /\ clients' = [clients EXCEPT ![client].alive = TRUE]
  /\ UNCHANGED <<core, todos, cache, changes, unheard, known>>

\* The 'close' event: the client is forgotten.
Closed(client) ==
  /\ clients[client].link = "closing"
  /\ clients' = [clients EXCEPT ![client] = Absent]
  /\ known' = [known EXCEPT ![client] = [token \in Tokens |-> NoRow]]
  /\ UNCHANGED <<core, todos, cache, changes, unheard>>

---------------------------------------------------------------------------
Init ==
  /\ rows = {} /\ tokens = Snapshot /\ exchanges = {}
  /\ first = 2 /\ last = 2
  /\ holders = [token \in Tokens |->
       IF token \in Snapshot THEN Series!SetPoint(Series!NoPoints, 0, 1) ELSE Series!NoPoints]
  /\ todos = SetToSeq({"token.metrics.holders"} \X Snapshot)
  /\ cache = [token \in Tokens |-> NoRow]
  /\ clients = [client \in Clients |-> Absent]
  /\ changes = 0
  /\ unheard = {}
  /\ known = [client \in Clients |-> [token \in Tokens |-> NoRow]]

Next ==
  \/ \E write \in Writes : Crawled(write) \/ Listed(write)
  \/ \E subject \in Subjects : DiffEnds(subject)
  \/ Ledger \/ Backfilled
  \/ Serve \/ Fail
  \/ CheckAlive
  \/ \E client \in Clients :
       \/ Connect(client) \/ Vanish(client) \/ Pong(client) \/ Closed(client)
       \/ \E token \in Tokens : Subscribe(client, token) \/ Unsubscribe(client, token)

\* The worker's loop never ends, the interval comes again, and the socket
\* library closes what it was told to close.
Fairness ==
  /\ WF_vars(Serve)
  /\ WF_vars(CheckAlive)
  /\ \A client \in Clients : WF_vars(Closed(client))

Spec == Init /\ [][Next]_vars /\ Fairness

---------------------------------------------------------------------------
\* Type correctness; a todo is there once.
TypeOK ==
  /\ tokens \subseteq Tokens
  /\ 1 <= first /\ first <= last
  /\ \A token \in Tokens : DOMAIN holders[token] \subseteq 0 .. last
  /\ \A i, j \in DOMAIN todos : todos[i] = todos[j] => i = j
  /\ \A client \in Clients : /\ clients[client].link \in {"none", "open", "lost", "closing"}
                             /\ clients[client].subscriptions \subseteq tokens
  /\ unheard \subseteq Parts \X Tokens

Pending(task, subject) == <<task, subject>> \in Range(todos)

\* Once no task is pending for it, the row of a token shows the properties of
\* the core database, the trust its issuer passes on included, and so it does
\* for each token of an issuer - but for parts that changed without a mark.
PropsAreFresh ==
  \A token \in tokens : ~Pending("account.props", IssuerOf[token]) =>
     /\ <<"issuer", token>> \notin unheard => cache[token].issuer = IssuerView(token)
     /\ ~Pending("token.props", token) /\ <<"own", token>> \notin unheard
          => cache[token].own = TokenView(token)

\* Likewise the number of holders and the price, in whatever ledgers the worker
\* found time: the newest exchange of the sync is what is shown.
FiguresAreFresh ==
  \A token \in tokens :
     /\ ~Pending("token.metrics.holders", token) /\ <<"holders", token>> \notin unheard
          => cache[token].holders.current = Holders(token, last)
     /\ ~Pending("token.exchanges", token) /\ <<"market", token>> \notin unheard
          => cache[token].market.price \in Prices(exchanges, token, last)

\* A client that has subscribed to a token has been told of every change of
\* its row since, and was told the newest last.
SubscribersKnow ==
  \A client \in Clients : \A token \in Tokens :
     clients[client].link \in {"open", "closing", "lost"} /\ Subscribed(client, token)
       => known[client][token] = cache[token]

\* A client that has gone is forgotten, and so are its subscriptions, unless
\* the last answer it gave was for ever.
GoneAreForgotten ==
  \A client \in Clients : clients[client].link = "lost" ~> clients[client].link = "none"

\* What is marked is served or has failed: no task starves behind others that
\* are marked again and again.
MarksAreServed ==
  \A account \in Accounts : Pending("account.props", account) ~> ~Pending("account.props", account)
=============================================================================
