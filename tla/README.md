# Verification of Beacon (xrplmeta), the XRP Ledger indexer

Beacon follows the XRP Ledger through websocket connections to ledger nodes, writes a
point-in-time history of tokens, balances, offers, NFTs and pools to SQLite, derives
metrics from it, and serves the result over HTTP and websockets. Everything runs in one
Node.js process on one event loop: `spawn()` (`lib/workers.js`) is a dynamic import, and only
the request workers of `srv/worker.js` are threads. What makes the code hard is therefore not
parallel memory access but what happens *between two awaits* - which of several asynchronous
loops runs next, and what state it read before it waited - and what a crash leaves in the
database.

This directory holds TLA+ modules that model the parts of the program with the most such
behaviour, TLC configurations that check them on small instances, and TLAPS proofs that
extend the most important results to every instance. `PROJECT.json` maps each definition to
the lines it models and each hazard to the properties that guard against it. Paths below are
relative to `src/src/` unless they say otherwise.

1. [Inventory](#1-inventory)
2. [Plan](#2-plan)
3. [How to read the models](#3-how-to-read-the-models)
4. [The modules](#4-the-modules)
5. [The runs](#5-the-runs)
6. [The proofs](#6-the-proofs)
7. [Where the code does not do what it says](#7-where-the-code-does-not-do-what-it-says)
8. [What is not modelled](#8-what-is-not-modelled)

## 1. Inventory

### The way of the data

    rippled nodes
        |  websocket: answers to requests; 'ledgerClosed' and 'transaction' messages
    xrpl/socket.js -> xrpl/node.js -> xrpl/nodepool.js
        |  pool.request(...)                    |  pool.on('ledger')
    xrpl/snapshot.js   xrpl/stream.js  <--------+
        |                  |  next()
    ledger/snapshot.js   ledger/sync.js   ledger/backfill.js        (app/ledger.js)
        |                  |                  |
        +---- ledger/state/*, ledger/events/*, ledger/derived/* ----> core database
                           |  marks what has changed                      ^
                       cache/todo.js --> cache database                   |
                           |                 ^                      crawl/* (token lists,
                       cache/worker.js ------+                       domains, KYC, avatars)
                           |  ipc: token updates
                       srv/ws.js, srv/http.js, srv/worker.js (threads) --> clients

### Components

| component | state it keeps | operations | what makes it correct |
|---|---|---|---|
| **Sockets, nodes, pool: requests** (`xrpl/socket.js`, `node.js`, `nodepool.js`) | queue of requests and their timers; per connection: the messages in flight by id, `busy`, tickets, known ledgers | `request`, the work queue, bids, answers, two levels of timeouts, loss of a connection, reconnecting | an answer goes to its own request; a node is busy only while an answer is awaited; every request is settled |
| **Pool: live ledgers** (`nodepool.js`) | hashes seen, a buffer per ledger | the event handler | a ledger is emitted once, with exactly its transactions; assembly is bounded |
| **Ledger stream** (`xrpl/stream.js`) | registry of ledgers held, current and target sequence, reservations, each worker's position | `next`, `put`, `extend`, the filler's workers | each ledger is handed out once, in order; the window bounds memory; nothing is lost, nothing sleeps for ever |
| **Snapshot, sync, backfill** (`ledger/snapshot.js`, `sync.js`, `backfill.js`, `xrpl/snapshot.js`, `app/ledger.js`) | rows of ledgers, snapshot row with its marker, what has been applied | bootstrap of a launch, chunked resumable copy, the two loops, the trigger of the backfill | across crashes the history has no gap, each change is in it once, on a complete state |
| **Token balances and metrics** (`ledger/state/index.js`, `tokens.js`, `mptoken.js`, `pseudoaccounts.js`, `db/helpers/common.js`, `tokenmetrics.js`) | time series of points | the deltas of a ledger, forwards and backwards; the copy of entries | what is read for any ledger is what the network had then, and stays so |
| Offers (`ledger/state/tokenoffers.js`, `nftoffers.js`) | points that expire | as above | a book read for a ledger has the offers of that ledger |
| NFTs (`ledger/state/nfts.js`, `events/nfts.js`) | owner, URI, collection | page diffs; mint, burn, modification, exchange | the owner is the one of the newest ledger, in whatever order pages are diffed |
| Events and derived metrics (`ledger/events/*`, `ledger/derived/*`) | exchanges, ledger statistics, market cap series | per ledger; in bulk after the snapshot; backwards over a range | the fast path for a range equals point-wise writing |
| Cache tasks (`cache/todo.js`, `worker.js`, `tokens.js`, `nfts.js`) | todo rows, cache rows | marking, two workers | what has changed is refreshed after the change |
| Icons, NFT media (`cache/icons.js`, `nftmedia.js`, `nftenrich.js`) | users of icons, files, builds in progress | download, link, unlink, delete, evict | a linked file exists; limits hold; concurrent requests share a build |
| Crawlers and properties (`crawl/*`, `db/helpers/props.js`) | operations table, properties per source | three schedules; chunked diff and sweep | an item is crawled once per interval; what a source no longer says goes away, and the cache hears of it |
| Request workers (`srv/worker.js`) | pool of threads, pending requests | dispatch, crash, replacement | every request ends; a crash does not poison the pool |
| Server (`srv/http.js`, `ws.js`, `server.js`) | clients, subscriptions, rate limits | routing, push, keep-alive, shedding | updates reach subscribers; the dead are removed |
| API, database, vendored code | - | queries, sanitising, codecs, structdb, xfl | pure, or without state of their own |

### How they interact

*Calls and promises.* The streams, the snapshot feed and every crawler of the ledger call
`pool.request` and wait for its promise; nobody else has a timer, so the two timeouts of the
pool and the socket are what the liveness of all others rests on. *Events.* The pool emits
`ledger` to the forward stream. *Callbacks.* `onceInSync` of the sync starts the backfill.
*Shared state.* The sync and the backfill write to the same tables, each in one transaction
per ledger and from the two ends of the history; the workers of a stream share a registry; the
cache workers take from a table that all others fill. *Persistence.* core.db and cache.db are
two SQLite files in WAL mode with `synchronous = NORMAL`: a crash of the process loses the open
transaction, a power loss may lose the last ones.

### What is hard, and what is not there

Interleavings of the loops at their awaits; answers that come late or over a new connection;
messages repeated, missing or in another order; retries with reservations held; a launch that
has to conclude from the database where the last one stopped; two loops that write the same
series from both ends; a balance and a total kept incrementally. There is no distributed
agreement in this code, no lock, and no two writers of one transaction.

## 2. Plan

Order: what everything else relies on first. *Done*:

1. `LedgerStream` (with its abstraction `LedgerFeed`);
2. `LedgerIndexer` (with its abstraction `IndexedRange`), and `LedgerProofs` about both;
3. `Points`, `TokenHistory`, and `TokenHistoryProofs` about both;
4. `LiveLedgers` and `LiveLedgersProofs`; 5. `NodeRequests` and `NodeRequestsProofs`;
6. `Props` and `Crawl`: properties, the three schedules and all crawlers; `CrawlProofs`;
7. `Exchanges` and `TokenCache`, on `Props`: marks, the token worker, websocket clients; `TokenCacheProofs`;
8. `IconCache` and `IconCacheProofs`;
9. `Requests`, `WorkerPool` and `ImageCache`, composed by `Server`, and `ServerProofs`.

*Left*, in this order:

| module | models | main properties | to prove |
|---|---|---|---|
| `NFTHistory` | pages in any order, modification, burn, sync and backfill | owner and URI are those of the newest ledger | the owner without backfill |
| `OfferBook` | expiring points over sync and backfill, on `Points` | the book of any ledger applied | one interval for each point |
| `MetricSeries` | `writeMetricSeriesBackward` against the fold of `WriteMetric` | equality over all small series | the step lemma |
| the collections' cache (`cache/nfts.js`) | one more kind of task in `TokenCache` | as `FiguresAreFresh` | - |

Compositions. `TokenCache` and `Crawl` share `Props`: one says which rows and marks crawlers leave, the
other what is made of marks. `Server` joins threads and images by the requests that wait for them. The
stream's consumer inside `LedgerIndexer` is the abstract feed that `LedgerStream` implements; `LiveLedgers` is the
source of `LedgerStream`'s `Extend`.

## 3. How to read the models

* **A step is what runs between two awaits.** Node.js runs one callback to its end. A handler
  is one action, with everything it calls; a loop that awaits in several places is one action
  per stretch. A database transaction is synchronous and therefore one step as well;
  `TokenHistory` splits it into one step per delta for readability and lets nothing else run
  before it is closed.
* **Data.** A ledger is its sequence number, a transaction or request a model value, an amount a
  small integer. Logging, wording, pacing and payload formats are left out.
* **Mutants.** A definition `X_How` right before `X` is `X` with a plausible bug. It is used nowhere
  in the specification; `PROJECT.json` names the property that it breaks, which shows that the
  property says something about `X`.
* **Stated, not run.** A few definitions after the last line of a module are used by no run: type invariants that the
  proofs establish or need, properties that follow from one that is run and are theorems of their own
  (`WithinWindow`, `HandedOutContiguous`, `Contiguous`, `RecordedIsFinal`), and promises that do not hold (section 7).
* **Bounds** are named in the comments of the constants with the word *bound*; they have no
  counterpart in the code.
* Variables marked *history* record what happened for the properties to refer to and influence no
  step.

## 4. The modules

### LedgerFeed, LedgerStream

`createForwardStream` and `createBackwardStream` of `xrpl/stream.js`: the registry
(`currentSequence`, `targetSequence`, `ledgers`), the filler (`reservations` and each worker's
own `sequence`), and the caller of `next()`.

| action | code |
|---|---|
| `WakeUp(w)` | one of the filler's two waits ends (beyond the target, outside the window) |
| `FetchSucceeds(w)` | `put`, release of the reservation, on with the loop |
| `FetchFails(w)`, `BackoffEnds(w)` | the `catch`: the reservation is held while it waits, then the same position is tried again |
| `Extend(l)` | the live feed's `extend` |
| `HandOut`, `Await` | `next()` with and without the current ledger at hand |

`RunFiller` is the part they share: the loop has no await where it skips a sequence, so a
worker walks on in the same turn until it fetches or sleeps. The registry does not know the
direction of its stream and takes it from `target >= current` (`Direction`); in a forward
stream this is right as long as nothing beyond the target is held (`WithinWindow`), while a
backward stream really turns round after its target, as `OnceInOrderToTarget` and
`NothingAbandoned` allow for.

`LedgerFeed` is what the sync relies on: ledgers in ascending order, each once, none beyond
the newest known. `ImplementsFeed` is the refinement, with `next <- currentSequence` and
`head <- targetSequence`.

`MaxLag`: workers sleep at most a second or for the time of a fetch, in which the live feed can
carry the consumer forward only by a few ledgers. If it could carry it more than `MaxSize` past a worker,
`accepts()` (an absolute distance, tested before "behind current") would keep that worker asleep
for good. The constant is the assumption that this does not happen, made explicit. The proofs
do not use it.

### IndexedRange, LedgerIndexer

How `app/ledger.js` brings the database from empty to a full history, over any number of
launches. `db` is what the database holds, `stable` what a power loss leaves of it; the rest is
memory of the process.

| action | code |
|---|---|
| `Boot` | `createSnapshot` decides from the snapshot row (entries, marker, completion) what is left to do; also `startSync` where all is done |
| `WriteLedgerRow`, `CreateSnapshot` | the two commits of `createSnapshotState` |
| `FetchChunk`, `TakeChunk`, `EndOfFeed` | the producer and `next()` of `xrpl/snapshot.js` |
| `CopyBatch` | one mini-batch, one transaction; the last one of a chunk records the marker |
| `Complete` | `updateAllDerived`, and the commit that completes the snapshot |
| `SyncLedger`, `OnceInSync`, `StartBackfill`, `BackfillLedger` | the two loops and the trigger between them |
| `BackfillAgain` | the loop of the backfill after its target: a ledger handed out again is applied again |
| `Crash`, `PowerLoss`, `Flush`, `NewLedger` | the environment |

`written` and `applied` inside `db` are histories which follow the database through power
losses: how often the entries of a mini-batch and the changes of a ledger are in it. The
target of the sync's stream in `SyncLedger` is any ledger between the current one and the
network's newest, as the stream may not have heard of the rest. Requests of the feed that fail are
repeated, with half the limit; on the model this has no effect.

The loop of `ledger/backfill.js:28-97` has no end. When its stream has handed out the target, the cursor turns round
(`Onward`, after `stream.js:138`) and goes to and fro between the last two ledgers; it waits there for ever, unless a worker of the
stream has lagged behind and fetches one of the two again, which is then applied a second time. `turned` is the phase of the
backfill from then on, `opened` the ledger at which its stream began (above which it has nothing), `MaxRepeats` the bound on
repetitions. `AppliedOnce` says what remains true: a ledger's changes are there exactly if its row is, and more than once only for
these two and only when the target has been reached. `TokenHistory` leaves repetitions out: what it says of the
tables holds until a ledger is applied again.

`TornCreation` says whether the process may end between the two commits of
`createSnapshotState`. It may; that leads to the first finding of section 7. With FALSE all else
is checked and proved.

`IndexedRange` is what readers rely on: an interval that grows at its two ends, and may shrink only
by a power loss.

### Points, TokenHistory

`Points` is the arithmetic of `readPoint` and `writePoint` on a time series: a function from the
ledgers of its points to values. Writing zero deletes the point of the same ledger or adds
a marker, which makes reads of *other* ledgers depend on what is written.

`TokenHistory` is one token. An entry - one side of a trust line, or an MPToken - is named by its
account. The snapshot (`StartBatch`, `CopyEntry`, `EndBatch`), the sync (`StartLedger`, `SyncDelta`,
`SideVanishes`, `EndLedger`) and the backfill (`StartUndo`, `UndoDelta`, `EndUndo`) read what the
network's ledgers contain by choosing it, and keep it in `truth`, with which the properties compare what the
tables return. `Grouped` selects the code path (TRUE: trust lines, whose deltas of a ledger add up in memory; FALSE: MPTokens, each read and
written alone), `Pools` the accounts that do not count as holders. Nothing is assumed of what the network does: an entry may appear with any
amount, change several times in a ledger, and leave a line that stays; the roots of pools and the entries come in any mini-batches; the backfill
always runs.

The snapshot's own ledger is applied by neither loop (`ledger/backfill.js:13-25` starts below it), although the balances of entries that it changed are filed
under it (`ledger/state/index.js:97`). `SkipSnapshot` is what the backfill finds when it opens the ledger below: such entries had any value before, last
changed in any older ledger, and nothing undoes the change.

Of that, several cases go wrong in the code (section 7). The model follows the code into them, and three histories say which balance or metric was met by
one, so that the properties answer for all others:

| history | what enters it |
|---|---|
| `shaken` | accounts whose entry was there before the snapshot's ledger changed it (`SkipSnapshot`), was made with a balance in a ledger undone (`UndoCreation`), was changed twice in one (`UndoChange`, `UndoDeletion`), or whose side of a line vanished with a balance (`SideVanishes`) |
| `skewed` | metrics to which a pool was added as a holder (`CopyEntry`), that went on counting a side that vanished (`SideVanishes`), or that the backfill has written before the sync did (`Skew`) |
| `undone` | whether the backfill has written a metric at all: below the first point of the sync, what it wrote is read instead of the snapshot's totals |

### LiveLedgers

The event handler of the pool. `Receive(c)` is a message from a connection: repeated
(`OnRepeated`), a header (`OnHeader`) or a transaction (`OnTransaction`); both of the latter end in
`Deliver`, which creates the buffer, gives up the oldest if there are too many, and emits the ledger
when it is complete. Connections deliver the ledgers in order and the messages of a ledger in any order;
what they do not deliver they missed (`Advance`). The buffer that `Deliver` has just created may itself be
the oldest one and be given up at once, as in the code.

### NodeRequests

The three files from `pool.request` to the wire. A pass of the work queue is one step: it goes
through the queue, asks every node for its bid, and hands requests out; within a pass a node that got a command is
busy, while one that reserved a ticket is free again at once. `Close` is the socket's `close` event: it rejects what
is in flight, which frees the node. `Expire` and `RequestTimeout` are the two timeouts of 30 s. An expired
request stays in the queue and is sent later, with its answer going nowhere (documented in
`docs/audit-findings.md:335-338`). `wire` holds what the node at the other end has not answered; answers come in
any order, late, or never. The subscription that a node makes by itself after `open` goes through the same ids.

### Props, Crawl

`Props` is what `db/helpers/props.js` makes of the rows of a source: `ApplyProps` is one write, `ApplyEntry` one entry of a
diff with what the diff collects, `Stale` what it sweeps, and `ReadTokenProps` what trust an issuer passes on
to its tokens. `Crawl` runs the crawlers on it.

| action | code |
|---|---|
| `Listed`, `WriteChunk`, `ChunkFails`, `SweepChunk`, `EndDiff` | `scheduleGlobal` and the diffs of trust lists, curated assets, services, well-known accounts: the request, a transaction for each chunk, an entry that cannot be written (an address that is none), the sweep, the marks at the end |
| `NewPass`, `Take`, `Answered`, `Failed` | `scheduleIterator` for kyc, avatars, gravatars and domains; what is done without a request (`Direct`, `Cleared`) is part of `Take` |
| `OpenPass`, `Gather`, `LastBatch`, `BatchCommitted`, `BatchFailed` | `scheduleBatchedIterator` with the tasks of the crawler of X |
| `Expire`, `LedgerDomain`, `Serve`, `Crash` | time, the ledger, the cache worker, the end of the process between any two commits |

What a list says and what a request answers are constants, small sets to choose from; the assumptions on them say what
comes out of the parsers: a list names accounts or tokens and gives keys numbers or nothing (an entry of the well-known accounts
may lack its account), and an answer gives numbers. `behind` is a history: what has changed since the cache last
looked at it; `lost` is the part of it that a crash, or a chunk that fails, has left without a mark: the marks
of a diff are collected in memory up to its end, `crawl/schedule.js:92` catches the error and starts the list again, and the next diff
finds the rows unchanged, so nothing marks them later. The sweep does not mark icons, so an icon that a list no longer names stays in the
icon cache until its subject is marked for another reason; `behind` follows the code in this.

### Exchanges, TokenCache

`Exchanges` are the queries of `db/helpers/tokenexchanges.js` over a set of exchanges with XRP. `TokenCache` is the way from a change to a
client. `Crawled` and `Ledger` change the core database and leave marks; `Listed` is a change in a chunk of a diff, whose mark comes with `DiffEnds` or, if
that never comes, not at all; `Backfilled` leaves none, as `cache/todo.js:80` suppresses them.
`Serve` is one turn of `startMetaCacheWorker` (it reads, writes the row and pushes it in one step, as nothing in it
waits), `Fail` a turn that throws; the rest are the handlers of `srv/ws.js`. A client is `lost` when the network
no longer reaches it and no `close` event has come.

The number of holders of a token is a series of points, written and read as in `Points`: a ledger of the sync writes at the end of it, a ledger of the backfill
at its own sequence. A token of the ledger state (`Snapshot`) has its point at 0 until the sync writes one; if the backfill comes first, its
point is the newest, and it changes the figure that is shown and, when it comes to zero or leaves it, the trust taken from the issuer, although no mark is left.
The history `unheard` names the parts of a row that changed although the code marks nothing, until something else marks them: the properties of a token that
has just appeared; the trust it takes from its issuer, when the first holder comes or the last one goes; what a chunk has changed before its diff has
ended; the holders written, and the first price found, by the backfill (`Overlooked`); what a task that failed would have brought up to date.
`known` is what a subscriber has been told.

### IconCache

`updateIconCacheFor` of `cache/icons.js`, step by step between its downloads: `Begin`, `Take` for each url, `Downloaded` or
`DownloadFailed`, and `End` with the unlinking and deletion of what is no longer used (`Finish`; `FinishFails` where a
token has no row yet, at which the code throws). The worker deletes the todo only then (`lost`: what was
marked meanwhile). `Write` is a change that is marked, `Diff` one that is not or not yet: the sweep of a diff (`db/helpers/props.js:224-230, 265-274`)
takes icons away and marks the properties of their subjects only, so that a subject stays user of an url it no longer names until it is marked for another
reason, and is `lost` until then. A picture is its content, since files are named by a hash of it.

### Requests, WorkerPool, ImageCache, Server

`Requests` is what HTTP requests, messages and images have in common: they wait, and they end. `WorkerPool` is `srv/worker.js` and
its threads: the ranking (`First`), messages in both directions, a thread that has stopped (`Stop`) before the main
thread hears of it (`Die`), and its replacement, which may fail (`Replace`). `ImageCache` is `serveNFTImage` and
`cacheThumbnail`: requests of one NFT share a build (`Join`), a build waits for the metadata (`Resume`), the picture (`Fetched`) and each
thumbnail (`Resized`), and what was served least recently is evicted. `Server` puts them together: an action for each entry point,
and the interleaving of threads and builds. Dispatch times are a clock that grows with each request; two requests in the same millisecond tie in the
code, and the order of the slots decides.

## 5. The runs

| run | question | instance | why it is enough |
|---|---|---|---|
| `stream_forward` | does the consumer get each ledger once and in order, and all of them? | 2 workers, window 2, ledgers 3 to 6, the newest at the start 4, or 2 (none to fetch yet) | two workers suffice for each race over one sequence; live ledgers before, in and beyond the window; 14,471 states |
| `stream_backward` | the same for a backfill to its target | 3 workers, window 1, 5 ledgers | more workers than window: workers wait on both sides; passes the target |
| `indexer_crashes` | does the history come out right over crashes and power losses? | 6 ledgers, snapshot at 2 or 3, 2 chunks of 2 mini-batches, 2 ends of the process | one end inside the copy and one inside sync or backfill; one ledger applied again after the target; 33,768 states |
| `indexer_redo` | a comment of the code about restarts (section 7) | one end of the process | - |
| `tokens_iou` | are the metrics exact? | 2 accounts, one a pool, amounts to 1, 3 ledgers, snapshot at 2, 2 deltas each | every transition between gone, zero and an amount, twice in one ledger, for a holder and a pool, in a ledger synced and in one undone; 2,903,693 states |
| `tokens_rewind` | do sync and backfill leave each other's answers alone? | 1 account, amounts to 2, snapshot at 3 of 4 ledgers, 2 deltas each | balances of different accounts do not meet; both ends grow, interleaved, and two ledgers are undone below the snapshot's; 2,905,279 states |
| `live_ledgers` | is each ledger assembled from any mix of messages? | 2 connections, 4 ledgers, 3 transactions, 2 buffers | a ledger can be empty, given up, begun again; 140,071 states, by symmetry |
| `node_requests` | does every request end, and with its own answer? | 2 requests, 2 connections to one host, 2 openings | reuse of a node and of a connection after a loss; 328,461 states |
| `crawl` | do rows, marks and operations agree whatever fails? | 2 issuers, an IOU and an MPT; four configurations of crawlers, each list in two versions; chunks and batches of 1; 2 requests, 1 change on the ledger, 1 crash; any chunk may fail | a list that shrinks (sweep) and grows, an account named twice, two workers at one queue, a token of two batches; a second crash only repeats the first, as no memory survives; 278,833 states |
| `token_cache` | does what is shown follow what is stored? | an issuer with two tokens, one client; one of the tokens in the snapshot; 3 writes of crawlers, 2 sorts of exchange, 0 or 1 holders; 2 changes or tasks that fail | what is written again is marked without counting as a change, so an issuer and both its tokens can be pending at once, in any order with the ledgers of both ends; 168,209 states |
| `icons` | do users, links and files agree? | an issuer with two tokens, 2 urls, 2 pictures, 3 changes, one renewal, failure and crash | an url of two users, two urls with one picture, an issuer and its token with the same url; 620,794 states, by symmetry |
| `server` | is every request answered, once and with its own answer? | 3 requests, 2 threads, one crash; 3 NFTs of which 2 share an image, 2 sizes, room for one image, 2 builds at once | three requests are more than threads and more than builds; an eviction while another build of the url is half-way; 234,679 states |

Deadlock is checked in the stream runs only: in all others the environment is finite (`Ledgers`, `Requests`, the bounds on
changes and requests) and the system stops when it is used up.

**Fairness.** *Streams:* timers elapse and the consumer keeps calling `next()` (weak fairness); a fetch that is
repeated for ever succeeds some time (strong fairness of `FetchSucceeds`), which is what it means that nodes
are not down for ever. *Indexer:* the process is started again after each end and its loops go on; the number of ends
is bounded, and the last ledger of the network comes when the sync and `onceInSync` of a launch are under way and no end
follows, as if ledgers kept coming. Without this, the network would stop before the trigger of the backfill is heard, which
it never does. *Requests to nodes:* only timers are fair; nodes may be silent, connections may stay down, and the work queue may
never run. *Token cache:* the worker's loop goes on, the interval of `checkAlive` comes again, and the socket library reports `close`
for a socket it was told to close; nothing is assumed of clients, crawlers or ledgers. *Server:* threads
run, messages arrive and the death of a thread is noticed; a fetch ends, with its picture or
without: `lib/fetch.js:44` bounds the time until the headers arrive, the timeouts of the HTTP library and the limit of bytes the reading of the body. Nothing is assumed of a
replacement. *Token history, live ledgers, crawlers, icons:* safety only.

## 6. The proofs

`tlapm` proves the theorems for every value of the constants that satisfies the assumptions named in
the modules - any number of workers, ledgers, chunks, crashes, accounts - under the conditions below.

**LedgerProofs**, of the stream: in both directions type correctness, `OneFetchPerLedger` and `WithinWindow`; forward (`Stride = 1`)
`NothingAbandoned`, `HandedOutContiguous`, `HandedOutOnce`, and that the stream implements `LedgerFeed`; backward
(`Stride = -1`, and no live ledgers, to which `createBackwardStream` does not subscribe) `OnceInOrderToTarget`, for any number of workers,
any window and any target, reachable or not. `BackInv` says that the ledgers handed out are those above the current one, or, once `next()` has turned
round, those from the target on, where the current one is the target or its upper neighbour; that nothing is held or fetched
below the target is what keeps `next()` from turning round before.
`NothingAbandoned` looks at the window only and is not inductive: a worker may be beyond the window. The invariant
has `AllWalkedPastAreHeld` instead: *every* sequence from the current one on that all workers have passed is held.
A worker passes a sequence only if it is behind the consumer, held, or reserved; in the last case another worker is *at* it and has not
passed it, which is where `OneFetchPerLedger` comes in. `RunFillerEnds` turns the loop into a walk of so many steps, `WalksUp` and `WalksDown` say where it leads, once and
for all.

**LedgerProofs**, of the indexer (`~TornCreation`): `Contiguous`, `AppliedOnce`, `AppliedOnCompleteState`, `MarkerIsSound`,
`RecordedIsFinal`, and that the indexer implements `IndexedRange`. The invariant `Sound(d)` says what any
database must satisfy for a launch to go on from it, and holds of `db` *and* of `stable`: a power loss then needs no
argument of its own. `Running` ties the memory of the process to `db` in each phase; of a backfill that has turned round, it says that the cursor stays
at the target and its upper neighbour, both of which have rows, so that what is applied again is one of these two. Between the two commits of
`createSnapshotState` the database is not sound (`Creating`), hence the condition.

**TokenHistoryProofs**: what the operations on series return and leave alone; type correctness of `TokenHistory`, `BalancesExact` and `BalancesAreFinal`, without
condition, for snapshot, sync and backfill in any order of their ledgers and for entries last changed in any ledger. What they exempt, they exempt by account (`shaken`):
each of these cases goes wrong in the code (section 7), and without its exemption TLC finds the violation. `Faithful(a)` is what they come from: no point
of a balance lies beyond the ledger in hand (`Front`), the balance read there is the entry's, and every ledger answered reads as in `truth`. Without
the first part a write could hide behind a later point. It says nothing of what the backfill will do; `Deep(a)` does: below
the ledgers undone (`Depth(a)`, which for an account already undone in the open transaction is the ledger at hand) there is
no point but one, at the ledger in which the entry that remains came about, with its amount. So what the backfill writes comes before
every point there is but that one, whatever the sync has written since (`SetBefore`, `ZeroBefore`). Of an entry last changed in the snapshot's own ledger the
point is that of the snapshot, until the backfill opens the ledger below and finds what was before (`BalancesSkip`). `Untouched(a)` says that an
entry the snapshot has still to copy has changed in no ledger, and `Phases` what snapshot, sync, backfill and open transaction leave to one another.
`MetricsExact` is proved of issued currencies (`Grouped`; it is false otherwise, section 7), with the backfill at work. The metrics are never recounted: each delta adds
what it changes to the values in memory. `MetricInv` says of every metric that is not `skewed` that these values are the
totals over `Counted`, the entries that the snapshot has come to and the sync has brought up to date, that no point lies beyond
the last ledger written, and that it reads as the totals at every ledger from the snapshot on - once the backfill has written (`undone`), from the first point of the sync on (`Begun`).
What the backfill writes lies below all points of the sync: `WriteMetricBefore` says that reads from there on stay as they are, and `Skew` that a metric without
such a point is given up. A supply is a sum over accounts, in the order in which a `CHOOSE` takes them: `AllSubsets` is induction over sets of accounts,
stated as a fact about sets of sets, and `SumsChange` says that a sum changes by as much as its one term that changes.

**LiveLedgersProofs**: `EmittedExact`, `EmittedOnce` and `CompleteIsEmitted`, under two conditions that the code relies on
without checking: transactions carry their ledger (`Indexed`), and `WindowFits`, by which the messages of the ledgers around any one of
them, as far as two connections may be apart, are no more than `MaxSeen`, the 10000 hashes of `nodepool.js:53`. `EmittedOnce` says
nothing of hashes and is not inductive. `SeenInv` is what makes it so: what was delivered is remembered as long as
some connection has not passed its ledger, since what came after it into the window is of ledgers at most `MaxApart` below its own.
`ForgottenIsPast` counts: if a hash is dropped, the window behind it holds `MaxSeen` different messages, too many to be all from ledgers near that of a
connection that could still repeat it. `AssemblyInv` relates each buffer to what was delivered: it holds part of it
while the ledger is open, and all of it (`NothingLost`) until one of its buffers is given up.

**NodeRequestsProofs**: `OwnAnswer` and `BusyIsWaiting`, without condition. An answer carries the id of a message and nothing else, so
`OwnAnswer` rests on `OwnMessages` (a message on the wire that is still waited for is waited for by its own request), and this on ids below `nextId` in
`FlightType` and `WireType`. `BusyIsWaiting` needs `OneRequestEach`: a second request in flight would be left when the first ends and
frees the node. A pass of the work queue is a recursive function; that it gives each request to one free node at most is carried from one
request in the queue to the next (`PassInv`) by induction over the numbers, which `SetInduction` states as a fact about sets.

**TokenCacheProofs**: `PropsAreFresh`, `FiguresAreFresh` and `SubscribersKnow`, without condition. `CacheInv` is stated part by part of a row:
it shows what is stored now, or a mark of it is pending, or it changed without one (`unheard`). It needs three things. A mark is in the queue once
(`MarkFacts`, `ServedFacts`), or serving it would leave another behind and `Pending` would say nothing. What is read of a token depends on
its own rows, its issuer's, and whether it is held (`RowsKept`, `ViewsKept`), so that a write concerns no other row than those of its mark, and a ledger no other
properties than those of its token (`LedgerProps`): by `ReadLater` the number of holders of the others is read as before although the ledger is a new one. A diff leaves no mark
and enters in `unheard` what it changes; its end exchanges one for the other (`CacheDiffEnds`). `CacheBackfilled` holds because a change of the newest point of holders, which the backfill does make,
is one of the things `Overlooked`; nothing else of the row can change.
The newest exchange is not changed by a new ledger without one, by another token's, or by one that the backfill finds before it (`NewestKept`), for
which all exchanges must lie in the ledgers there are (`LedgersType`). Figures are stated for tokens that are yet to appear as well: when the first ledger
of a token comes its price has no mark. At first, tokens of the snapshot have holders and a mark of them (`SnapshotIsMarked`).

**CrawlProofs**: `TypeOK`, `OneFetchEach`, `ChangesMarked`, `KycIsFinal` and `ListIsExact`, without condition - for lists of any length and
content, chunks and batches of any size, any number of workers, crashes and diffs that fail. `Types` is the type invariant with what a list, a queue
and a batch consist of, without which no fold over them could be typed. The folds are recursive, and what they compute is not taken from a
theorem: each is a function that exists because it can be extended by one more element (`IsFold`), its values on the first elements of a
sequence are a trace (`WrittenTrace`, `DiffedTrace`) in which each is one write after the one before, and a fact about the last follows by
induction over the numbers, which `NumbersUpTo` states of sets. `OneFetchEach` needs that no item is in a queue twice (`NoneTwice`).
`KycIsFinal` rests on it: a worker that waits for an answer has seen that its item is not approved (`NoneAsked`), which stays so because nobody else is at that item and
nobody else writes rows of kyc (`KycRows`). `ChangesMarked` is inductive as it stands, once it is known of each write which rows it changes and of each
diff that it collects them: a chunk that fails moves what was collected to `lost`.
`ListIsExact` is not, as it looks at a list only when it is done. `AllExact` says at any moment, of a list half heard, that the keys it keeps are those
its entries have given so far, that the rows of its source under these keys are what these entries said last, and that a
table already swept has no other rows; chunks add to this, other crawlers leave it alone (`SourceLeft`), and the sweep of a table makes
"under these keys" superfluous. A crash, or a chunk that fails, forgets the list, so the next diff starts from any rows; the invariant says nothing of rows not
yet heard of, which is why it survives.

**IconCacheProofs**: `UsersAreExact`, `IconsHaveUsers`, `LinksResolve` and `IconsAreShown`, without condition. The four need one another:
a link may be kept only while its url has a user, a file only while an icon has it, and both are decided at the end of a task from what
the task has made of the users. A diff disturbs none of it, as its subject is `lost` until a task begins for it. The invariant adds what a task has done so far, url by url, to what holds between tasks.

**ServerProofs**: `WaitingIsPending`, `OwnAnswers`, `LoadIsExact`, `BuildsAreCounted` and `MediaAreKept`, without condition. That a request
waits in exactly one place is a fact about threads and builds together: its kind says in which of the two (`ThreadsInv`, `BuildsInv`),
and each part says that it is there once. `IdsInv` keeps answers apart: an id is below its thread's next one as long as a message with it
is under way, and a thread that has died leaves no messages. `MediaAreKept` holds for any number of sizes with `SizesInv`: a build at a
size has written those before it, unless an eviction took them (`torn`).

**Assumptions on constants** are named in the modules. Besides the types of parameters they say that names do not coincide: a token is not an
account (`Tokens \cap Accounts = {}`), nor "none" or the subscription a request (`None`, `Subscribe`). `TokenHistory` and `Crawl` assume that there are
finitely many accounts (and tokens), `TokenCache` that the snapshot has finitely many, `LiveLedgers` finitely many transactions; `Crawl` what lists, answers and the rows of the first launch
consist of, and that no account is the "nobody" of an idle worker; `LedgerStream` and `LedgerIndexer` what their sections say.

**Only model-checked**: all liveness (`DeliversAll`, `ReachesTarget`, `FullHistory`, `EverySettled`, `GoneAreForgotten`, `MarksAreServed`,
`AllAnswered`), which is out of the prover's reach, as is ENABLED. Nothing is
claimed of the metrics of MPTokens, which go wrong (section 7).

## 7. Where the code does not do what it says

One has a run in which TLC finds the violation, and the sentence it contradicts in `PROJECT.json`:

* `indexer_redo`: "re-processing is safe" (`ledger/snapshot.js:134-135`) holds for rows, not for the metrics, which
  add up the entries of a mini-batch that is copied twice.

The others can be seen by changing a constant, adding an invariant to the configuration named, or taking the exemption out of a property or of the action that
makes it. They are why a constant, an exemption or a history variable excludes these cases from the passing runs.

| where | what | to see it |
|---|---|---|
| `ledger/snapshot.js:71` | `createSnapshotState` commits the ledger's row and the snapshot's row separately. A process that ends between them leaves a ledger row alone; the next launch begins its backfill below it, and the ledgers between it and the new snapshot are never derived, although "this indexer re-derives any lost ledgers" (`vendor/structdb/adapters/better-sqlite3.js:47-48` under `src/`) | `indexer_crashes` with `TornCreation = TRUE`: `GrowsAtItsEnds`, and `FullHistory` when it is checked alone |
| `xrpl/stream.js:138`, `ledger/backfill.js:28` | after its target the stream of the backfill goes to and fro between its last two ledgers; if a worker has lagged behind, one of them is handed out and applied again, and its metrics add up twice | `indexer_crashes`: `AppliedOnce` with `db.applied[l] <= 1` |
| `ledger/state/index.js:97`, `ledger/backfill.js:13-25` | the balance of an entry that the snapshot's own ledger changed is filed under that ledger, which neither loop applies: the balance it had before is written by nothing, and the ledgers just below read 0, or an older balance once the backfill has found one | `tokens_rewind`, `SkipSnapshot` without `shaken`: `BalancesExact` |
| `ledger/state/pseudoaccounts.js:62` | a pool whose trust line is copied in an earlier mini-batch than its AccountRoot counts as a holder for good (`docs/api.md:324-325` says it does not) | `tokens_iou`, `CopyEntry` without `skewed`: `MetricsExact` |
| `ledger/state/tokens.js:153` | undoing the creation of an entry writes balance 0 at the ledger that created it, over the balance the entry had there | `tokens_rewind`, `UndoCreation` without `Shake`: `BalancesAreFinal` |
| `ledger/state/tokens.js:146` | an entry changed twice in a ledger: undoing the second change writes the balance between the two at that very ledger, over the one after both | `tokens_rewind`, `UndoChange` (or `UndoDeletion`) without `Shake`: `BalancesAreFinal` |
| `ledger/state/tokens.js:90` | the backfill reads metrics at its own ledger, where only the snapshot's point 0 is, and writes what it makes of them as a newer point; where the sync has not written the metric yet, it starts from these values, and the ledgers from the snapshot to the first point of the sync read wrong | `tokens_iou`: `MetricsExact` without its premise on `undone`, or `Skew` with `skewed` left as it is |
| `db/helpers/common.js:77` | an MPT taken to zero, up, and to zero again in one ledger: the second zero deletes the first one's marker, and an older value is read | `tokens_iou` with `Grouped = FALSE`: `MetricsExact` |
| `ledger/state/tokens.js:56` | a side that leaves a line which stays goes on counting, and keeps its balance | `SideVanishes` in `tokens_iou` without `skewed`: `MetricsExact`; in `tokens_rewind` without `shaken`: `BalancesExact` |
| `xrpl/nodepool.js:53` | a connection farther behind than the hashes remembered makes a ledger come twice | `live_ledgers` with `MaxSeen = 3`: `EmittedOnce` |
| `crawl/schedule.js:194` | a token that waits for two handles in two batches is done when one succeeds, although "a failed commit (HTTP error, rate limit, bad response) must be retried, not silently abandoned until the next full fetchInterval" (184-186) | `crawl` with `Configs = {{"x"}}`, `MaxChanges = 0`, `MaxCrashes = 0`: `FailedIsRetried` |
| `db/helpers/props.js:278` | `dedupeTokens` hands issuance ids over under a name that `isSameToken` does not look at, so that MPT tokens are never the same as themselves, and a diff that changes them leaves no mark | `crawl`: `ChangesMarked` without its exemption of `MPTs` |
| `crawl/schedule.js:92`, `db/helpers/props.js:210` | an entry that cannot be written (an address that is none) ends the diff after some of its chunks; the marks collected for them are forgotten, and the diff after it finds the rows unchanged. No crash is needed | `crawl`: `ChangesMarked`, `ChunkFails` without `lost` |
| `db/helpers/props.js:226` | a crash between the chunks of a diff and its marks: the rows are there, the next diff finds nothing changed, the mark never comes | `crawl`: `ChangesMarked`, `Restart` without `lost` |
| `ledger/state/tokens.js:164`, `cache/todo.js:80` | a ledger of the backfill that comes before the sync's first point writes the newest number of holders; its mark is suppressed, and the row, and the trust it takes from its issuer, stay as they were | `token_cache`, `Backfilled` without `Overlooked`: `FiguresAreFresh`; without `Unmarked` of tokens there are: `PropsAreFresh` |
| `db/helpers/props.js:224-230, 265-274` | a sweep takes icons away and marks the properties only: the subject stays user of an url it no longer names, and icon and picture are kept, until it is marked for another reason | `icons`, `Diff` without `lost`: `UsersAreExact` |
| `cache/icons.js:131` | an icon whose download failed is not due at the next task that meets it, which links it without hash; the manifest then shows an url that answers 404 "Make sure to only use icon URLs from the live token manifest" (`srv/http.js:584`) | `icons`: `ManifestIconsExist` |
| `cache/worker.js:173` | a subject marked while its icon task runs is the row that the task deletes at its end; the mark is lost | `icons`, `Write` without `lost`: `UsersAreExact` |
| `cache/nftmedia.js:116` | eviction removes all files of an url, also those that another build of it has just written; its row is then incomplete. A build that fails after its first thumbnail leaves files that no row counts | `server`: `MediaAreKept` without `torn` |

## 8. What is not modelled

`PROJECT.json` lists every component with its status. Besides what section 2 plans:

* the API procedures and sanitizers: queries and validation without state, whose results depend on parameters and on the
  tables only. The parts that interact with others are in the models (`subscribe` in `TokenCache`, the icons of a manifest
  in `IconCache`);
* codecs and conversions, the vendored arithmetic and parsers (structdb, xfl, txmeta, xls26): pure; amounts are small integers here;
* configuration, logging, start-up, schema and migrations;
* AMM pools, vaults, oracles and accounts, which write one row per entry; the XRP balance of an account follows the pattern that
  `TokenHistory` models.

Within the modelled parts: the keepalive ping of the socket (off by default, and it can only close a connection, which may happen
anyway), `pool.close` (never called), failure messages and their rate limits, back-off times; the parameters of HTTP routes and the rate limiter
of the server, a library; how an URI of an NFT is resolved and its metadata parsed, and the setting that disables the media cache; how exchanges are
found in a transaction; the series of exchanges by interval.
