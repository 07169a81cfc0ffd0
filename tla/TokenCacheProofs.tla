-------------------------- MODULE TokenCacheProofs --------------------------
(***************************************************************************)
(* Proofs about TokenCache, for every number of issuers, tokens and        *)
(* clients, and whatever crawlers write and ledgers bring.                 *)
(*                                                                         *)
(* A task reads what is stored when it is served, not when it was marked.  *)
(* The invariant says that each part of a row shows what is stored now, or *)
(* a mark of it is still pending, or it changed without one; a mark is in  *)
(* the queue once, so that serving it leaves none behind.                  *)
(***************************************************************************)
EXTENDS TokenCache, FiniteSetTheorems, TLAPS

USE SubjectAssumption, CacheAssumption

---------------------------------------------------------------------------
(* Type correctness.                                                       *)

TokenTasks == {"token.props", "token.metrics.holders", "token.exchanges"}
Todos == ({"account.props"} \X Accounts) \cup (TokenTasks \X Tokens)

IsRow(row) == DOMAIN row = Parts

QueueType == todos \in Seq(Todos) /\ IsInjective(todos)

\* The ledgers there are, one after the other, and the exchanges in them.
LedgersType ==
  /\ first \in Nat /\ last \in Nat /\ 1 <= first /\ first <= last
  /\ DOMAIN holders = Tokens
  /\ \A token \in Tokens : DOMAIN holders[token] \subseteq 0 .. last
  /\ \A e \in exchanges : e.ledger \in first .. last

CacheType == DOMAIN cache = Tokens /\ \A token \in Tokens : IsRow(cache[token])

ClientsType ==
  clients \in [Clients -> [link : {"none", "open", "lost", "closing"}, alive : BOOLEAN,
                           subscriptions : SUBSET tokens]]

KnownType ==
  DOMAIN known = Clients /\ \A client \in Clients : DOMAIN known[client] = Tokens

TypeInv ==
  /\ tokens \subseteq Tokens
  /\ QueueType /\ LedgersType /\ CacheType /\ ClientsType /\ KnownType
  /\ unheard \subseteq Parts \X Tokens

---------------------------------------------------------------------------
(* The queue of marks.                                                     *)

\* At most one mark is left at a time.
LEMMA SetToSeqFacts ==
  ASSUME NEW S, NEW x, S \subseteq {x}
  PROVE  SetToSeq(S) = IF S = {} THEN <<>> ELSE <<x>>
<1>1. CASE S = {}
  <2>1. Cardinality(S) = 0
    BY <1>1, FS_EmptySet
  <2>2. <<>> \in Seq(S) /\ Len(<<>>) = 0
    OBVIOUS
  <2>3. <<>> \in [1 .. Cardinality(S) -> S] /\ IsInjective(<<>>)
    BY <2>1, <2>2 DEF IsInjective
  <2>4. ASSUME NEW f \in [1 .. Cardinality(S) -> S] PROVE f = <<>>
    <3>1. f \in Seq(S) /\ Len(f) = 0
      BY <2>1
    <3> QED
      BY <3>1
  <2> QED
    BY <1>1, <2>3, <2>4 DEF SetToSeq
<1>2. CASE S = {x}
  <2>1. Cardinality(S) = 1
    BY <1>2, FS_Singleton
  <2>2. <<x>> \in [1 .. Cardinality(S) -> S] /\ IsInjective(<<x>>)
    BY <1>2, <2>1 DEF IsInjective
  <2>3. ASSUME NEW f \in [1 .. Cardinality(S) -> S] PROVE f = <<x>>
    BY <1>2, <2>1, <2>3
  <2> QED
    BY <1>2, <2>2, <2>3 DEF SetToSeq
<1> QED
  BY <1>1, <1>2

\* A mark joins the queue unless it is there.
LEMMA MarkFacts ==
  ASSUME QueueType, NEW todo \in Todos, NEW tasks, tasks \subseteq {todo}, Mark(tasks)
  PROVE  QueueType' /\ Range(todos') = Range(todos) \cup tasks
<1>1. CASE tasks \ Range(todos) = {}
  <2>1. todos' = todos \o <<>>
    BY <1>1, SetToSeqFacts DEF Mark
  <2>2. todos' = todos
    BY <2>1 DEF QueueType
  <2> QED
    BY <1>1, <2>2 DEF QueueType
<1>2. CASE tasks \ Range(todos) # {}
  <2>1. tasks = {todo} /\ todo \notin Range(todos)
    BY <1>2
  <2>2. SetToSeq(tasks \ Range(todos)) = <<todo>>
    <3>1. tasks \ Range(todos) = {todo}
      BY <2>1
    <3>2. SetToSeq({todo}) = IF {todo} = {} THEN <<>> ELSE <<todo>>
      BY SetToSeqFacts
    <3> QED
      BY <3>1, <3>2
  <2>3. todos' = todos \o <<todo>>
    BY <2>2 DEF Mark
  <2>4. /\ todos' \in Seq(Todos) /\ Len(todos') = Len(todos) + 1
        /\ \A i \in 1 .. Len(todos) : todos'[i] = todos[i]
        /\ todos'[Len(todos) + 1] = todo
    BY <2>3 DEF QueueType
  <2>5. \A i \in 1 .. Len(todos) : todos[i] # todo
    BY <2>1 DEF Range, QueueType
  <2>6. IsInjective(todos')
    BY <2>4, <2>5 DEF QueueType, IsInjective
  <2>7. Range(todos') = Range(todos) \cup {todo}
    <3>1. DOMAIN todos' = 1 .. Len(todos) + 1 /\ DOMAIN todos = 1 .. Len(todos) /\ Len(todos) \in Nat
      BY <2>4 DEF QueueType
    <3> QED
      BY <2>4, <3>1 DEF Range
  <2> QED
    BY <2>1, <2>4, <2>6, <2>7 DEF QueueType
<1> QED
  BY <1>1, <1>2

\* A mark that is served or has failed is not in the queue any more.
LEMMA ServedFacts ==
  ASSUME QueueType, todos # <<>>, todos' = Tail(todos)
  PROVE  /\ Head(todos) \in Todos
         /\ QueueType' /\ Range(todos') = Range(todos) \ {Head(todos)}
<1>1. /\ todos' \in Seq(Todos) /\ Len(todos') = Len(todos) - 1 /\ Len(todos) \in Nat \ {0}
      /\ \A i \in 1 .. Len(todos') : todos'[i] = todos[i + 1]
      /\ Head(todos) = todos[1] /\ todos[1] \in Todos
  BY DEF QueueType
<1>2. IsInjective(todos')
  BY <1>1 DEF QueueType, IsInjective
<1>3. DOMAIN todos = 1 .. Len(todos) /\ DOMAIN todos' = 1 .. Len(todos) - 1
  BY <1>1 DEF QueueType
<1>4. \A i \in 1 .. Len(todos) : i # 1 => todos[i] # todos[1]
  BY <1>1, <1>3 DEF QueueType, IsInjective
<1>5. Range(todos') = Range(todos) \ {Head(todos)}
  <2>1. ASSUME NEW x \in Range(todos'), NEW i \in 1 .. Len(todos) - 1, x = todos'[i]
        PROVE  x \in Range(todos) \ {Head(todos)}
    BY <1>1, <1>3, <1>4, <2>1 DEF Range
  <2>2. ASSUME NEW x \in Range(todos), x # Head(todos) PROVE x \in Range(todos')
    <3>1. PICK i \in 1 .. Len(todos) : x = todos[i]
      BY <1>3 DEF Range
    <3>2. i - 1 \in 1 .. Len(todos) - 1 /\ todos'[i - 1] = x
      BY <1>1, <2>2, <3>1
    <3> QED
      BY <1>3, <3>2 DEF Range
  <2> QED
    BY <1>3, <2>1, <2>2 DEF Range
<1> QED
  BY <1>1, <1>2, <1>5 DEF QueueType
---------------------------------------------------------------------------
(* Type correctness is inductive.                                          *)

\* A row that a task has changed is a row still.
LEMMA UpdateType ==
  ASSUME TypeInv, NEW after, Push(after), DOMAIN after = Tokens,
         \A token \in Tokens : IsRow(after[token])
  PROVE  CacheType' /\ KnownType'
  BY DEF Push, CacheType, KnownType

\* A task for the issuer of a token.
ForIssuer(todo, token) == todo = <<"account.props", IssuerOf[token]>> /\ token \in tokens

\* The row of a token after a task: what the task is for is read again, all
\* other parts and rows are as they were.
Served(todo, token, row) ==
  /\ row.issuer = IF ForIssuer(todo, token) THEN IssuerView(token) ELSE cache[token].issuer
  /\ row.own = IF ForIssuer(todo, token) \/ todo = <<"token.props", token>>
               THEN TokenView(token) ELSE cache[token].own
  /\ row.holders = IF todo = <<"token.metrics.holders", token>>
                   THEN Figures(token) ELSE cache[token].holders
  /\ IF todo = <<"token.exchanges", token>>
     THEN row.market \in Markets(token) ELSE row.market = cache[token].market

\* No other part counts as heard of.
HeardOnly(todo, token) ==
  /\ <<"issuer", token>> \in unheard => <<"issuer", token>> \in unheard' \/ ForIssuer(todo, token)
  /\ <<"own", token>> \in unheard
       => \/ <<"own", token>> \in unheard'
          \/ ForIssuer(todo, token)
          \/ todo = <<"token.props", token>>
  /\ <<"holders", token>> \in unheard
       => <<"holders", token>> \in unheard' \/ todo = <<"token.metrics.holders", token>>
  /\ <<"market", token>> \in unheard
       => <<"market", token>> \in unheard' \/ todo = <<"token.exchanges", token>>

LEMMA TaskFacts ==
  ASSUME TypeInv, NEW todo \in Todos, Task(todo)
  PROVE  \E after :
           /\ Push(after) /\ DOMAIN after = Tokens
           /\ \A token \in Tokens :
                IsRow(after[token]) /\ Served(todo, token, after[token])
<1>1. CacheType
  BY DEF TypeInv
<1>2. CASE todo[1] = "account.props"
  <2>1. todo[2] \in Accounts /\ todo = <<"account.props", todo[2]>> /\ OfAccount(todo[2])
    BY <1>2 DEF Task, Todos, TokenTasks
  <2> DEFINE after == [token \in Tokens |->
                IF token \in IssuedBy(todo[2])
                THEN [cache[token] EXCEPT !.issuer = IssuerView(token), !.own = TokenView(token)]
                ELSE cache[token]]
  <2>2. Push(after)
    BY <2>1 DEF OfAccount, Update
  <2>3. \A token \in Tokens : /\ IsRow(after[token])
                              /\ after[token].holders = cache[token].holders
                              /\ after[token].market = cache[token].market
    BY <1>1 DEF CacheType, IsRow, Parts
  <2>4. \A token \in Tokens : token \in IssuedBy(todo[2])
           => after[token].issuer = IssuerView(token) /\ after[token].own = TokenView(token)
    BY <1>1 DEF CacheType, IsRow, Parts
  <2>5. \A token \in Tokens : token \notin IssuedBy(todo[2])
           => after[token].issuer = cache[token].issuer /\ after[token].own = cache[token].own
    OBVIOUS
  <2>6. \A token \in Tokens : token \in IssuedBy(todo[2])
           <=> (todo = <<"account.props", IssuerOf[token]>> /\ token \in tokens)
    BY <2>1 DEF IssuedBy, TypeInv
  <2>7. DOMAIN after = Tokens
    OBVIOUS
  <2> HIDE DEF after
  <2>8. \A token \in Tokens : /\ todo # <<"token.props", token>>
                              /\ todo # <<"token.metrics.holders", token>>
                              /\ todo # <<"token.exchanges", token>>
    BY <2>1
  <2> QED
    BY <2>2, <2>3, <2>4, <2>5, <2>6, <2>7, <2>8 DEF Served, ForIssuer
<1>3. CASE todo[1] = "token.props"
  <2>1. todo[2] \in Tokens /\ todo = <<"token.props", todo[2]>> /\ OfToken(todo[2])
    BY <1>3 DEF Task, Todos, TokenTasks
  <2> DEFINE after == [token \in Tokens |->
                IF token \in {todo[2]} THEN [cache[token] EXCEPT !.own = TokenView(token)]
                ELSE cache[token]]
  <2>2. Push(after)
    BY <2>1 DEF OfToken, Update
  <2>3. \A token \in Tokens : /\ IsRow(after[token])
                              /\ after[token].holders = cache[token].holders
                              /\ after[token].market = cache[token].market
                              /\ after[token].issuer = cache[token].issuer
    BY <1>1 DEF CacheType, IsRow, Parts
  <2>4. after[todo[2]].own = TokenView(todo[2])
    BY <1>1, <2>1 DEF CacheType, IsRow, Parts
  <2>5. \A token \in Tokens : token # todo[2] => after[token].own = cache[token].own
    OBVIOUS
  <2>6. DOMAIN after = Tokens
    OBVIOUS
  <2> HIDE DEF after
  <2>7. \A token \in Tokens : /\ todo # <<"account.props", IssuerOf[token]>>
                              /\ todo # <<"token.metrics.holders", token>>
                              /\ todo # <<"token.exchanges", token>>
                              /\ todo = <<"token.props", token>> <=> token = todo[2]
    BY <2>1
  <2> QED
    BY <2>2, <2>3, <2>4, <2>5, <2>6, <2>7 DEF Served, ForIssuer
<1>4. CASE todo[1] = "token.metrics.holders"
  <2>1. todo[2] \in Tokens /\ todo = <<"token.metrics.holders", todo[2]>> /\ OfHolders(todo[2])
    BY <1>4 DEF Task, Todos, TokenTasks
  <2> DEFINE after == [token \in Tokens |->
                IF token \in {todo[2]} THEN [cache[token] EXCEPT !.holders = Figures(token)]
                ELSE cache[token]]
  <2>2. Push(after)
    BY <2>1 DEF OfHolders, Update
  <2>3. \A token \in Tokens : /\ IsRow(after[token])
                              /\ after[token].own = cache[token].own
                              /\ after[token].market = cache[token].market
                              /\ after[token].issuer = cache[token].issuer
    BY <1>1 DEF CacheType, IsRow, Parts
  <2>4. after[todo[2]].holders = Figures(todo[2])
    BY <1>1, <2>1 DEF CacheType, IsRow, Parts
  <2>5. \A token \in Tokens : token # todo[2] => after[token].holders = cache[token].holders
    OBVIOUS
  <2>6. DOMAIN after = Tokens
    OBVIOUS
  <2> HIDE DEF after
  <2>7. \A token \in Tokens : /\ todo # <<"account.props", IssuerOf[token]>>
                              /\ todo # <<"token.props", token>>
                              /\ todo # <<"token.exchanges", token>>
                              /\ todo = <<"token.metrics.holders", token>> <=> token = todo[2]
    BY <2>1
  <2> QED
    BY <2>2, <2>3, <2>4, <2>5, <2>6, <2>7 DEF Served, ForIssuer
<1>5. CASE todo[1] = "token.exchanges"
  <2>1. todo[2] \in Tokens /\ todo = <<"token.exchanges", todo[2]>> /\ OfExchanges(todo[2])
    BY <1>5 DEF Task, Todos, TokenTasks
  <2>2. PICK market \in Markets(todo[2]) :
          Update([t \in {todo[2]} |-> [cache[t] EXCEPT !.market = market]])
    BY <2>1 DEF OfExchanges
  <2> DEFINE after == [token \in Tokens |->
                IF token \in {todo[2]} THEN [cache[token] EXCEPT !.market = market]
                ELSE cache[token]]
  <2>3. Push(after)
    BY <2>2 DEF Update
  <2>4. \A token \in Tokens : /\ IsRow(after[token])
                              /\ after[token].own = cache[token].own
                              /\ after[token].holders = cache[token].holders
                              /\ after[token].issuer = cache[token].issuer
    BY <1>1 DEF CacheType, IsRow, Parts
  <2>5. after[todo[2]].market = market
    BY <1>1, <2>1 DEF CacheType, IsRow, Parts
  <2>6. \A token \in Tokens : token # todo[2] => after[token].market = cache[token].market
    OBVIOUS
  <2>7. DOMAIN after = Tokens
    OBVIOUS
  <2> HIDE DEF after
  <2>8. \A token \in Tokens : /\ todo # <<"account.props", IssuerOf[token]>>
                              /\ todo # <<"token.props", token>>
                              /\ todo # <<"token.metrics.holders", token>>
                              /\ todo = <<"token.exchanges", token>> <=> token = todo[2]
    BY <2>1
  <2> QED
    BY <2>3, <2>4, <2>5, <2>6, <2>7, <2>8 DEF Served, ForIssuer
<1> QED
  BY <1>2, <1>3, <1>4, <1>5 DEF Task

LEMMA HeardFacts ==
  ASSUME TypeInv, NEW todo \in Todos, Task(todo)
  PROVE  unheard' \subseteq unheard /\ \A token \in Tokens : HeardOnly(todo, token)
<1>1. CASE todo[1] = "account.props"
  <2>1. todo[2] \in Accounts /\ todo = <<"account.props", todo[2]>> /\ OfAccount(todo[2])
    BY <1>1 DEF Task, Todos, TokenTasks
  <2>2. unheard' = unheard \ ({"own", "issuer"} \X IssuedBy(todo[2]))
    BY <2>1 DEF OfAccount, Heard
  <2>3. \A token \in Tokens : token \in IssuedBy(todo[2]) => ForIssuer(todo, token)
    BY <2>1 DEF IssuedBy, ForIssuer
  <2> QED
    BY <2>2, <2>3 DEF HeardOnly
<1>2. CASE todo[1] = "token.props"
  <2>1. todo = <<"token.props", todo[2]>> /\ OfToken(todo[2])
    BY <1>2 DEF Task, Todos, TokenTasks
  <2>2. unheard' = unheard \ ({"own"} \X {todo[2]})
    BY <2>1 DEF OfToken, Heard
  <2> QED
    BY <2>1, <2>2 DEF HeardOnly
<1>3. CASE todo[1] = "token.metrics.holders"
  <2>1. todo = <<"token.metrics.holders", todo[2]>> /\ OfHolders(todo[2])
    BY <1>3 DEF Task, Todos, TokenTasks
  <2>2. unheard' = unheard \ ({"holders"} \X {todo[2]})
    BY <2>1 DEF OfHolders, Heard
  <2> QED
    BY <2>1, <2>2 DEF HeardOnly
<1>4. CASE todo[1] = "token.exchanges"
  <2>1. todo = <<"token.exchanges", todo[2]>> /\ OfExchanges(todo[2])
    BY <1>4 DEF Task, Todos, TokenTasks
  <2>2. unheard' = unheard \ ({"market"} \X {todo[2]})
    BY <2>1 DEF OfExchanges, Heard
  <2> QED
    BY <2>1, <2>2 DEF HeardOnly
<1> QED
  BY <1>1, <1>2, <1>3, <1>4 DEF Task

LEMMA PartsOfType ==
  ASSUME TypeInv, NEW todo \in Todos
  PROVE  PartsOf(todo) \subseteq Parts \X Tokens
  BY DEF PartsOf, Todos, TokenTasks, Parts, IssuedBy, TypeInv

\* The backfill goes down to the first ledger there may be.
LEMMA FirstOf ==
  ASSUME NEW f \in Nat, 1 <= f
  PROVE  /\ Max({1, f - 1}) = IF f > 1 THEN f - 1 ELSE 1
<1> DEFINE m == IF f > 1 THEN f - 1 ELSE 1
<1>1. m \in {1, f - 1} /\ \A x \in {1, f - 1} : x <= m
  OBVIOUS
<1>2. \A y \in {1, f - 1} : (\A x \in {1, f - 1} : x <= y) => y = m
  OBVIOUS
<1> QED
  BY <1>1, <1>2 DEF Max

\* A ledger adds a point to the holders of one token, or an exchange.
LEMMA RecountType ==
  ASSUME LedgersType, tokens \subseteq Tokens, NEW token \in Tokens, NEW ledger \in Nat,
         Recount(token, ledger), first' \in Nat, last' \in Nat, 1 <= first', first' <= last',
         first' <= first, last <= last', ledger <= last'
  PROVE  tokens' = tokens \cup {token} /\ LedgersType'
<1>1. PICK count \in Counts :
        holders' = [holders EXCEPT ![token] = Series!WriteMetric(@, ledger, count)]
  BY DEF Recount
<1>2. DOMAIN Series!WriteMetric(holders[token], ledger, count) \subseteq DOMAIN holders[token] \cup {ledger}
  BY DEF Series!WriteMetric, Series!WritePoint, Series!ClearPoint, Series!SetPoint, Series!RemovePoint
<1>3. DOMAIN holders' = Tokens /\ \A other \in Tokens : DOMAIN holders'[other] \subseteq 0 .. last'
  BY <1>1, <1>2 DEF LedgersType
<1>4. \A e \in exchanges' : e.ledger \in first' .. last'
  BY DEF Recount, LedgersType
<1> QED
  BY <1>3, <1>4 DEF Recount, LedgersType

LEMMA TradeType ==
  ASSUME LedgersType, tokens \subseteq Tokens, NEW token \in Tokens, NEW ledger \in Nat,
         Trade(token, ledger), first' \in Nat, last' \in Nat, 1 <= first', first' <= last',
         first' <= first, last <= last', ledger \in first' .. last'
  PROVE  tokens' = tokens \cup {token} /\ LedgersType'
<1>1. \A e \in exchanges' : e.ledger \in first' .. last'
  BY DEF Trade, Exchange, LedgersType
<1>2. DOMAIN holders' = Tokens /\ \A other \in Tokens : DOMAIN holders'[other] \subseteq 0 .. last'
  BY DEF Trade, LedgersType
<1> QED
  BY <1>1, <1>2 DEF Trade, LedgersType

LEMMA TypeStep == TypeInv /\ [Next]_vars => TypeInv'
<1> SUFFICES ASSUME TypeInv, [Next]_vars PROVE TypeInv'
  OBVIOUS
<1> USE DEF core
<1>1. ASSUME NEW write \in Writes, Crawled(write) \/ Listed(write) PROVE TypeInv'
  <2>1. write.subject \in Subjects /\ PropsOf(write.subject) \in Todos
    BY <1>1 DEF Crawled, Listed, Write, PropsOf, Todos, TokenTasks, TypeInv, Subjects
  <2>2. QueueType'
    BY <1>1, <2>1, MarkFacts DEF Crawled, Listed, TypeInv, QueueType
  <2>3. unheard' \subseteq Parts \X Tokens
    BY <1>1, <2>1, PartsOfType DEF Crawled, Listed, TypeInv
  <2>4. UNCHANGED <<tokens, holders, first, last, exchanges, cache, clients, known>>
    BY <1>1 DEF Crawled, Listed, Write
  <2> QED
    BY <2>2, <2>3, <2>4 DEF TypeInv, LedgersType, CacheType, ClientsType, KnownType
<1>12. ASSUME NEW subject \in Subjects, DiffEnds(subject) PROVE TypeInv'
  <2>1. PropsOf(subject) \in Todos
    BY DEF PropsOf, Todos, TokenTasks, Subjects
  <2>2. QueueType'
    BY <1>12, <2>1, MarkFacts DEF DiffEnds, TypeInv
  <2> QED
    BY <1>12, <2>2 DEF DiffEnds, TypeInv, LedgersType, CacheType, ClientsType, KnownType
<1>2. CASE Ledger
  <2>1. /\ last' = last + 1 /\ first' = first /\ last \in Nat
        /\ UNCHANGED <<cache, clients, known>>
    BY <1>2 DEF Ledger, TypeInv, LedgersType
  <2>2. PICK token \in Tokens :
          /\ Recount(token, last') \/ Trade(token, last')
          /\ \/ Mark({<<"token.metrics.holders", token>>})
             \/ Mark({<<"token.exchanges", token>>})
          /\ unheard' \subseteq unheard \cup Unmarked(token)
    BY <1>2 DEF Ledger, Traded
  <2>3. /\ <<"token.metrics.holders", token>> \in Todos
        /\ <<"token.exchanges", token>> \in Todos
    BY DEF Todos, TokenTasks
  <2>4. QueueType'
    BY <2>2, <2>3, MarkFacts DEF TypeInv
  <2>8. /\ LedgersType /\ tokens \subseteq Tokens
        /\ first' \in Nat /\ last' \in Nat /\ 1 <= first' /\ first' <= last'
        /\ first' <= first /\ last <= last' /\ last' <= last' /\ last' \in first' .. last'
    BY <2>1 DEF TypeInv, LedgersType
  <2>5. tokens' = tokens \cup {token} /\ LedgersType'
    <3>1. CASE Recount(token, last')
      BY <2>8, <3>1, RecountType
    <3>2. CASE Trade(token, last')
      BY <2>8, <3>2, TradeType
    <3> QED
      BY <2>2, <3>1, <3>2
  <2>6. ClientsType'
    BY <2>1, <2>5 DEF ClientsType, TypeInv
  <2>7. unheard' \subseteq Parts \X Tokens
    BY <2>2 DEF Unmarked, TypeInv, Parts
  <2> QED
    BY <2>1, <2>4, <2>5, <2>6, <2>7 DEF TypeInv, CacheType, KnownType
<1>3. CASE Backfilled
  <2>1. /\ first' = Max({1, first - 1}) /\ last' = last
        /\ UNCHANGED <<todos, cache, clients, known>>
    BY <1>3 DEF Backfilled
  <2>2. PICK token \in Tokens :
          /\ Recount(token, first') \/ Trade(token, first')
          /\ unheard' = unheard \cup Unmarked(token) \cup Overlooked(token)
    BY <1>3 DEF Backfilled
  <2>3. first' \in Nat /\ 1 <= first' /\ first' <= first /\ first \in Nat /\ last \in Nat /\ first <= last
    BY <2>1, FirstOf DEF TypeInv, LedgersType
  <2>7. LedgersType /\ tokens \subseteq Tokens
    BY DEF TypeInv
  <2>8. last' \in Nat /\ first' <= last' /\ last <= last' /\ first' \in first' .. last'
    <3>1. last' = last
      BY <2>1
    <3> QED
      BY <2>3, <3>1
  <2>4. tokens' = tokens \cup {token} /\ LedgersType'
    <3>1. CASE Recount(token, first')
      BY <2>3, <2>7, <2>8, <3>1, RecountType
    <3>2. CASE Trade(token, first')
      BY <2>3, <2>7, <2>8, <3>2, TradeType
    <3> QED
      BY <2>2, <3>1, <3>2
  <2>5. ClientsType'
    BY <2>1, <2>4 DEF ClientsType, TypeInv
  <2>6. unheard' \subseteq Parts \X Tokens
    BY <2>2 DEF Unmarked, Overlooked, TypeInv, Parts
  <2> QED
    BY <2>1, <2>4, <2>5, <2>6 DEF TypeInv, QueueType, CacheType, KnownType
<1>4. CASE Serve
  <2>1. Head(todos) \in Todos /\ QueueType'
    BY <1>4, ServedFacts DEF Serve, TypeInv
  <2>2. PICK after : /\ Push(after) /\ DOMAIN after = Tokens
                     /\ \A token \in Tokens : IsRow(after[token])
    BY <1>4, <2>1, TaskFacts DEF Serve
  <2>3. CacheType' /\ KnownType'
    BY <2>2, UpdateType
  <2>4. unheard' \subseteq Parts \X Tokens
    BY <1>4, <2>1, HeardFacts DEF Serve, TypeInv
  <2> QED
    BY <1>4, <2>1, <2>3, <2>4 DEF Serve, TypeInv, LedgersType, ClientsType
<1>5. CASE Fail
  <2>1. Head(todos) \in Todos /\ QueueType'
    BY <1>5, ServedFacts DEF Fail, TypeInv
  <2>2. PartsOf(Head(todos)) \subseteq Parts \X Tokens
    BY <2>1, PartsOfType
  <2>3. unheard' \subseteq Parts \X Tokens
    BY <1>5, <2>2 DEF Fail, TypeInv
  <2> QED
    BY <1>5, <2>1, <2>3 DEF Fail, TypeInv, LedgersType, ClientsType, CacheType, KnownType
<1>6. ASSUME UNCHANGED <<core, todos, cache, unheard>>, ClientsType', KnownType' PROVE TypeInv'
  BY <1>6 DEF TypeInv, QueueType, LedgersType, CacheType
<1>7. CASE CheckAlive
  <2>1. ClientsType'
    BY <1>7 DEF CheckAlive, Check, ClientsType, TypeInv
  <2> QED
    BY <1>6, <1>7, <2>1 DEF CheckAlive, KnownType, TypeInv
<1>8. ASSUME NEW client \in Clients PROVE /\ Connect(client) => TypeInv'
                                          /\ Vanish(client) => TypeInv'
                                          /\ Pong(client) => TypeInv'
                                          /\ Closed(client) => TypeInv'
  <2>1. CASE Connect(client)
    <3>1. ClientsType'
      BY <2>1 DEF Connect, ClientsType, TypeInv
    <3> QED
      BY <1>6, <2>1, <3>1 DEF Connect, KnownType, TypeInv
  <2>2. CASE Vanish(client)
    <3>1. ClientsType'
      BY <2>2 DEF Vanish, ClientsType, TypeInv
    <3> QED
      BY <1>6, <2>2, <3>1 DEF Vanish, KnownType, TypeInv
  <2>3. CASE Pong(client)
    <3>1. ClientsType'
      BY <2>3 DEF Pong, ClientsType, TypeInv
    <3> QED
      BY <1>6, <2>3, <3>1 DEF Pong, KnownType, TypeInv
  <2>4. CASE Closed(client)
    <3>1. ClientsType' /\ KnownType'
      BY <2>4 DEF Closed, Absent, ClientsType, KnownType, TypeInv
    <3> QED
      BY <1>6, <2>4, <3>1 DEF Closed
  <2> QED
    BY <2>1, <2>2, <2>3, <2>4
<1>9. ASSUME NEW client \in Clients, NEW token \in Tokens, Subscribe(client, token) PROVE TypeInv'
  <2>1. ClientsType' /\ KnownType'
    BY <1>9 DEF Subscribe, ClientsType, KnownType, TypeInv
  <2> QED
    BY <1>6, <1>9, <2>1 DEF Subscribe
<1>10. ASSUME NEW client \in Clients, NEW token \in Tokens, Unsubscribe(client, token) PROVE TypeInv'
  <2>1. ClientsType' /\ KnownType'
    BY <1>10 DEF Unsubscribe, ClientsType, KnownType, TypeInv
  <2> QED
    BY <1>6, <1>10, <2>1 DEF Unsubscribe
<1>11. CASE UNCHANGED vars
  BY <1>6, <1>11 DEF vars, ClientsType, KnownType, TypeInv
<1> QED
  BY <1>1, <1>2, <1>3, <1>4, <1>5, <1>7, <1>8, <1>9, <1>10, <1>11, <1>12 DEF Next

\* Each token of the snapshot is marked at first, and once.
LEMMA SnapshotIsMarked ==
  ASSUME Init
  PROVE  QueueType /\ Range(todos) = {"token.metrics.holders"} \X Snapshot
<1> DEFINE marks == {"token.metrics.holders"} \X Snapshot
<1>1. marks \subseteq Todos
  BY DEF Todos, TokenTasks
<1>2. IsFiniteSet(marks)
  BY FS_Singleton, FS_Product
<1>3. todos = SetToSeq(marks)
  BY DEF Init
<1> HIDE DEF marks
<1>4. PICK f \in [1 .. Cardinality(marks) -> marks] : IsInjective(f)
  <2>1. PICK f : f \in Bijection(1 .. Cardinality(marks), marks)
    BY <1>2, FS_CardinalityType DEF ExistsBijection
  <2> QED
    BY <2>1 DEF Bijection, Injection, IsInjective
<1>5. todos \in [1 .. Cardinality(marks) -> marks] /\ IsInjective(todos)
  BY <1>3, <1>4 DEF SetToSeq
<1>6. todos \in Seq(Todos)
  BY <1>1, <1>2, <1>5, FS_CardinalityType
<1>7. Range(todos) = marks
  <2>1. todos \in Injection(1 .. Cardinality(marks), marks)
    BY <1>5 DEF Injection, IsInjective
  <2>2. Cardinality(1 .. Cardinality(marks)) = Cardinality(marks) /\ IsFiniteSet(1 .. Cardinality(marks))
    BY <1>2, FS_CardinalityType, FS_Interval
  <2>3. todos \in Surjection(1 .. Cardinality(marks), marks)
    BY <1>2, <2>1, <2>2, FS_Injection
  <2> QED
    BY <1>5, <2>3 DEF Surjection, Range
<1> QED
  BY <1>5, <1>6, <1>7 DEF QueueType, marks

LEMMA TypeInit == Init => TypeInv
<1> SUFFICES ASSUME Init PROVE TypeInv
  OBVIOUS
<1>1. QueueType
  BY SnapshotIsMarked
<1>2. LedgersType
  BY DEF LedgersType, Init, Series!SetPoint, Series!NoPoints
<1>3. CacheType /\ KnownType
  BY DEF CacheType, KnownType, IsRow, NoRow, Parts, Init
<1>4. ClientsType
  BY DEF ClientsType, Absent, Init
<1> QED
  BY <1>1, <1>2, <1>3, <1>4 DEF TypeInv, Init

\* Type correctness, with the ledgers one after the other, and a todo there
\* once however often it is marked.
THEOREM TypeCorrect == Spec => []TypeOK
<1>1. TypeInv => TypeOK
  <2> SUFFICES ASSUME TypeInv PROVE TypeOK
    OBVIOUS
  <2>1. \A i, j \in DOMAIN todos : todos[i] = todos[j] => i = j
    BY DEF TypeInv, QueueType, IsInjective
  <2>2. 1 <= first /\ first <= last /\ \A token \in Tokens : DOMAIN holders[token] \subseteq 0 .. last
    BY DEF TypeInv, LedgersType
  <2>3. \A client \in Clients : /\ clients[client].link \in {"none", "open", "lost", "closing"}
                                /\ clients[client].subscriptions \subseteq tokens
    BY DEF TypeInv, ClientsType
  <2> QED
    BY <2>1, <2>2, <2>3 DEF TypeOK, TypeInv
<1> QED
  BY <1>1, TypeInit, TypeStep, PTL DEF Spec

---------------------------------------------------------------------------
(* What is read of a token depends on its own rows, those of its issuer,   *)
(* and on whether somebody holds it.                                       *)

LEMMA RowsKept ==
  ASSUME NEW stored, NEW props, NEW source, NEW subject, NEW other, other # subject
  PROVE  RowsOf(ApplyProps(stored, subject, props, source), other) = RowsOf(stored, other)
  BY DEF RowsOf, ApplyProps, Row

LEMMA ViewsKept ==
  ASSUME NEW token \in Tokens, RowsOf(rows', token) = RowsOf(rows, token),
         RowsOf(rows', IssuerOf[token]) = RowsOf(rows, IssuerOf[token]),
         token \in Held' <=> token \in Held
  PROVE  TokenView(token)' = TokenView(token) /\ IssuerView(token)' = IssuerView(token)
<1>1. ReadAccountProps(rows', {}, IssuerOf[token]) = ReadAccountProps(rows, {}, IssuerOf[token])
  BY DEF ReadAccountProps
<1>2. ReadTokenProps(rows', {}, Held', token) = ReadTokenProps(rows, {}, Held, token)
  BY <1>1 DEF ReadTokenProps
<1> QED
  BY <1>1, <1>2 DEF TokenView, IssuerView

\* An exchange that is no newer than all others, or of another token, does not
\* change the newest one.
LEMMA NewestKept ==
  ASSUME LedgersType, NEW e, NEW token,
         e.token # token \/ (e.ledger = first - 1 /\ Newest(exchanges, token, last) # {})
  PROVE  Newest(exchanges \cup {e}, token, last) = Newest(exchanges, token, last)
<1>1. CASE e.token # token
  BY <1>1 DEF Newest
<1>2. CASE e.ledger = first - 1 /\ Newest(exchanges, token, last) # {}
  <2>1. PICK n \in Newest(exchanges, token, last) : TRUE
    BY <1>2
  <2>2. n \in exchanges /\ n.token = token /\ InXRP(n) > 0 /\ n.ledger > e.ledger /\ n.ledger <= last
    BY <1>2, <2>1 DEF Newest, LedgersType
  <2>3. \A f \in exchanges : e.ledger <= f.ledger
    BY <1>2 DEF LedgersType
  <2>4. ~(n.ledger <= e.ledger)
    BY <1>2, <2>2 DEF LedgersType
  <2> QED
    BY <2>2, <2>3, <2>4 DEF Newest
<1> QED
  BY <1>1, <1>2

\* Nor does the passing of a ledger.
LEMMA NewestLater ==
  ASSUME LedgersType, NEW token
  PROVE  Newest(exchanges, token, last + 1) = Newest(exchanges, token, last)
<1>1. \A e \in exchanges : e.ledger <= last /\ e.ledger <= last + 1
  BY DEF LedgersType
<1> QED
  BY <1>1 DEF Newest

\* No point lies beyond the last ledger: what is read then is read when the
\* next one has come.
LEMMA ReadLater ==
  ASSUME LedgersType, NEW token \in Tokens
  PROVE  Series!ReadPoint(holders[token], last + 1) = Series!ReadPoint(holders[token], last)
<1>1. Series!UpTo(holders[token], last + 1) = Series!UpTo(holders[token], last)
  BY DEF LedgersType, Series!UpTo
<1> QED
  BY <1>1 DEF Series!ReadPoint

---------------------------------------------------------------------------
(* What is shown.                                                          *)

\* The properties in the row of a token.
PropsFresh(token) ==
  ~Pending("account.props", IssuerOf[token]) =>
     /\ <<"issuer", token>> \notin unheard => cache[token].issuer = IssuerView(token)
     /\ ~Pending("token.props", token) /\ <<"own", token>> \notin unheard
          => cache[token].own = TokenView(token)

\* Its figures: of tokens that are yet to appear as well, whose rows show
\* neither holders nor a price.
FiguresFresh(token) ==
  /\ ~Pending("token.metrics.holders", token) /\ <<"holders", token>> \notin unheard
       => cache[token].holders.current = Holders(token, last)
  /\ ~Pending("token.exchanges", token) /\ <<"market", token>> \notin unheard
       => cache[token].market.price \in Prices(exchanges, token, last)

CacheInv ==
  /\ TypeInv
  /\ \A token \in tokens : PropsFresh(token)
  /\ \A token \in Tokens : FiguresFresh(token)

\* What is stored of a token stays, or its mark comes, or the change is known to
\* have none.
LEMMA PropsKept ==
  ASSUME NEW token \in Tokens, PropsFresh(token), cache' = cache,
         Range(todos) \subseteq Range(todos'),
         \/ Pending("account.props", IssuerOf[token])'
         \/ /\ <<"issuer", token>> \in unheard => <<"issuer", token>> \in unheard'
            /\ <<"issuer", token>> \in unheard' \/ IssuerView(token)' = IssuerView(token)
            /\ \/ Pending("token.props", token)'
               \/ /\ <<"own", token>> \in unheard => <<"own", token>> \in unheard'
                  /\ <<"own", token>> \in unheard' \/ TokenView(token)' = TokenView(token)
  PROVE  PropsFresh(token)'
  BY DEF PropsFresh, Pending

LEMMA FiguresKept ==
  ASSUME NEW token \in Tokens, FiguresFresh(token), cache' = cache,
         Range(todos) \subseteq Range(todos'),
         \/ Pending("token.metrics.holders", token)'
         \/ /\ <<"holders", token>> \in unheard => <<"holders", token>> \in unheard'
            /\ <<"holders", token>> \in unheard' \/ Holders(token, last)' = Holders(token, last),
         \/ Pending("token.exchanges", token)'
         \/ /\ <<"market", token>> \in unheard => <<"market", token>> \in unheard'
            /\ \/ <<"market", token>> \in unheard'
               \/ Prices(exchanges, token, last)' = Prices(exchanges, token, last)
  PROVE  FiguresFresh(token)'
  BY DEF FiguresFresh, Pending

\* The parts that the mark of a subject's properties is for.
LEMMA PropsParts ==
  ASSUME tokens \subseteq Tokens, NEW subject \in Subjects, NEW token \in Tokens
  PROVE  /\ token \in tokens =>
              /\ <<"issuer", token>> \in PartsOf(PropsOf(subject)) <=> subject = IssuerOf[token]
              /\ <<"own", token>> \in PartsOf(PropsOf(subject)) <=> subject \in {IssuerOf[token], token}
         /\ <<"holders", token>> \notin PartsOf(PropsOf(subject))
         /\ <<"market", token>> \notin PartsOf(PropsOf(subject))
<1>1. CASE subject \in Accounts
  <2>1. PartsOf(PropsOf(subject)) = {"own", "issuer"} \X IssuedBy(subject)
    BY <1>1 DEF PartsOf, PropsOf
  <2>2. token \notin Accounts
    OBVIOUS
  <2> QED
    BY <1>1, <2>1, <2>2 DEF IssuedBy
<1>2. CASE subject \in Tokens
  <2>1. subject \notin Accounts /\ IssuerOf[token] \in Accounts
    BY <1>2
  <2>2. PartsOf(PropsOf(subject)) = {"own"} \X {subject}
    BY <2>1 DEF PartsOf, PropsOf
  <2> QED
    BY <2>1, <2>2
<1> QED
  BY <1>1, <1>2 DEF Subjects

\* A crawler changes rows of one subject and marks it, or does not.
LEMMA CacheProps ==
  ASSUME CacheInv, TypeInv', NEW subject \in Subjects,
         UNCHANGED <<tokens, holders, last, exchanges, cache>>,
         \A other : other # subject => RowsOf(rows', other) = RowsOf(rows, other),
         \/ Mark({PropsOf(subject)}) /\ unheard' = unheard \ PartsOf(PropsOf(subject))
         \/ todos' = todos /\ unheard' = unheard \cup PartsOf(PropsOf(subject))
  PROVE  CacheInv'
<1> DEFINE todo == PropsOf(subject)
<1>1. todo \in Todos /\ tokens \subseteq Tokens /\ QueueType
  BY DEF PropsOf, Todos, TokenTasks, Subjects, TypeInv, CacheInv
<1>2. /\ Range(todos) \subseteq Range(todos')
      /\ todo \in Range(todos') \/ unheard' = unheard \cup PartsOf(todo)
  BY <1>1, MarkFacts
<1>3. ASSUME NEW token \in tokens PROVE PropsFresh(token)'
  <2>1. /\ token \in Tokens /\ PropsFresh(token) /\ token \notin Accounts
        /\ IssuerOf[token] \in Accounts /\ token \in Held' <=> token \in Held
    BY <1>1 DEF CacheInv, Held, Holders
  <2>2. /\ <<"issuer", token>> \in PartsOf(todo) <=> subject = IssuerOf[token]
        /\ <<"own", token>> \in PartsOf(todo) <=> subject \in {IssuerOf[token], token}
    BY <1>1, <2>1, PropsParts
  <2>3. CASE subject = IssuerOf[token]
    <3>1. todo = <<"account.props", IssuerOf[token]>>
      BY <2>1, <2>3 DEF PropsOf
    <3>2. CASE todo \in Range(todos')
      <4>1. Pending("account.props", IssuerOf[token])'
        BY <3>1, <3>2 DEF Pending
      <4> QED
        BY <1>2, <2>1, <4>1, PropsKept
    <3>3. CASE unheard' = unheard \cup PartsOf(todo)
      BY <2>2, <2>3, <3>3 DEF PropsFresh
    <3> QED
      BY <1>2, <3>2, <3>3
  <2>4. CASE subject = token
    <3>1. todo = <<"token.props", token>>
      BY <2>1, <2>4 DEF PropsOf
    <3>2. RowsOf(rows', IssuerOf[token]) = RowsOf(rows, IssuerOf[token])
      BY <2>1, <2>4
    <3>3. IssuerView(token)' = IssuerView(token)
      <4>1. ReadAccountProps(rows', {}, IssuerOf[token]) = ReadAccountProps(rows, {}, IssuerOf[token])
        BY <3>2 DEF ReadAccountProps
      <4> QED
        BY <4>1 DEF IssuerView
    <3>4. <<"issuer", token>> \notin PartsOf(todo)
      BY <2>1, <2>2, <2>4
    <3>5. CASE todo \in Range(todos')
      <4>1. Pending("token.props", token)'
        BY <3>1, <3>5 DEF Pending
      <4> QED
        BY <1>2, <2>1, <3>3, <3>4, <4>1, PropsKept
    <3>6. CASE unheard' = unheard \cup PartsOf(todo)
      <4>1. <<"own", token>> \in unheard'
        BY <2>2, <2>4, <3>6
      <4> QED
        BY <1>2, <2>1, <3>3, <3>4, <3>6, <4>1, PropsKept
    <3> QED
      BY <1>2, <3>5, <3>6
  <2>5. CASE subject # token /\ subject # IssuerOf[token]
    <3>1. RowsOf(rows', token) = RowsOf(rows, token)
          /\ RowsOf(rows', IssuerOf[token]) = RowsOf(rows, IssuerOf[token])
      BY <2>5
    <3>2. TokenView(token)' = TokenView(token) /\ IssuerView(token)' = IssuerView(token)
      BY <2>1, <3>1, ViewsKept
    <3>3. <<"issuer", token>> \notin PartsOf(todo) /\ <<"own", token>> \notin PartsOf(todo)
      BY <2>2, <2>5
    <3> QED
      BY <1>2, <2>1, <3>2, <3>3, PropsKept
  <2> QED
    BY <2>3, <2>4, <2>5
<1>4. ASSUME NEW token \in Tokens PROVE FiguresFresh(token)'
  <2>1. /\ FiguresFresh(token) /\ Holders(token, last)' = Holders(token, last)
        /\ Prices(exchanges, token, last)' = Prices(exchanges, token, last)
    BY DEF CacheInv, Holders
  <2>2. <<"holders", token>> \notin PartsOf(todo) /\ <<"market", token>> \notin PartsOf(todo)
    BY <1>1, PropsParts
  <2> QED
    BY <1>2, <2>1, <2>2, FiguresKept
<1> QED
  BY <1>3, <1>4 DEF CacheInv

LEMMA CacheCrawled ==
  ASSUME CacheInv, TypeInv', NEW write \in Writes, Crawled(write) \/ Listed(write)
  PROVE  CacheInv'
<1>1. /\ write.subject \in Subjects
      /\ rows' = ApplyProps(rows, write.subject, write.props, write.source)
      /\ UNCHANGED <<tokens, holders, last, exchanges, cache>>
  BY DEF Crawled, Listed, Write, Subjects, CacheInv, TypeInv
<1>2. \A other : other # write.subject => RowsOf(rows', other) = RowsOf(rows, other)
  BY <1>1, RowsKept
<1> QED
  BY <1>1, <1>2, CacheProps DEF Crawled, Listed

LEMMA CacheDiffEnds ==
  ASSUME CacheInv, TypeInv', NEW subject \in Subjects, DiffEnds(subject)
  PROVE  CacheInv'
<1>1. UNCHANGED <<rows, tokens, holders, last, exchanges, cache>>
  BY DEF DiffEnds, core
<1>2. \A other : other # subject => RowsOf(rows', other) = RowsOf(rows, other)
  BY <1>1
<1> QED
  BY <1>1, <1>2, CacheProps DEF DiffEnds

\* A ledger changes the holders of one token, and says by Unmarked what becomes
\* of the properties shown.
LEMMA LedgerProps ==
  ASSUME CacheInv, rows' = rows, cache' = cache, NEW token \in Tokens,
         tokens' = tokens \cup {token}, Range(todos) \subseteq Range(todos'),
         Unmarked(token) \subseteq unheard',
         \A other \in Tokens : \A part \in {"own", "issuer"} :
           <<part, other>> \in unheard => <<part, other>> \in unheard',
         \A other \in Tokens : other # token => (other \in Held' <=> other \in Held),
         NEW other \in tokens'
  PROVE  PropsFresh(other)'
<1>1. tokens \subseteq Tokens
  BY DEF CacheInv, TypeInv
<1>2. CASE other \notin tokens
  <2>1. <<"own", other>> \in unheard' /\ <<"issuer", other>> \in unheard'
    BY <1>2 DEF Unmarked
  <2> QED
    BY <2>1 DEF PropsFresh
<1>3. CASE other \in tokens
  <2>1. other \in Tokens /\ PropsFresh(other)
    BY <1>1, <1>3 DEF CacheInv
  <2>2. <<"own", other>> \in unheard' \/ (other \in Held' <=> other \in Held)
    <3>1. CASE other # token
      BY <2>1, <3>1
    <3>2. CASE other = token
      <4>1. (token \in Held) # (token \in Held') => <<"own", token>> \in Unmarked(token)
        BY DEF Unmarked
      <4>2. (token \in Held) \in BOOLEAN /\ (token \in Held') \in BOOLEAN
        OBVIOUS
      <4> QED
        BY <3>2, <4>1, <4>2
    <3> QED
      BY <3>1, <3>2
  <2>3. IssuerView(other)' = IssuerView(other)
    BY DEF IssuerView
  <2>4. <<"own", other>> \in unheard' \/ TokenView(other)' = TokenView(other)
    BY <2>1, <2>2, ViewsKept
  <2>5. \A part \in {"own", "issuer"} : <<part, other>> \in unheard => <<part, other>> \in unheard'
    BY <2>1
  <2> QED
    BY <2>1, <2>3, <2>4, <2>5, PropsKept
<1> QED
  BY <1>2, <1>3

LEMMA CacheLedger ==
  ASSUME CacheInv, TypeInv', Ledger
  PROVE  CacheInv'
<1>1. /\ last' = last + 1 /\ last \in Nat /\ LedgersType /\ QueueType
      /\ UNCHANGED <<rows, cache>> /\ tokens \subseteq Tokens
  BY DEF Ledger, CacheInv, TypeInv, LedgersType
<1>2. ASSUME NEW other \in Tokens, holders'[other] = holders[other]
      PROVE  Holders(other, last)' = Holders(other, last)
  BY <1>1, <1>2, ReadLater DEF Holders
<1>3. ASSUME NEW token \in Tokens, Recount(token, last'),
             Mark({<<"token.metrics.holders", token>>}),
             unheard' = (unheard \ {<<"holders", token>>}) \cup Unmarked(token)
      PROVE  CacheInv'
  <2>1. <<"token.metrics.holders", token>> \in Todos
    BY DEF Todos, TokenTasks
  <2>2. Range(todos') = Range(todos) \cup {<<"token.metrics.holders", token>>}
    BY <1>1, <1>3, <2>1, MarkFacts
  <2>3. \A other \in Tokens : other # token => Holders(other, last)' = Holders(other, last)
    BY <1>1, <1>2, <1>3 DEF Recount, LedgersType
  <2>4. \A other \in Tokens : other # token => (other \in Held' <=> other \in Held)
    BY <2>3 DEF Held
  <2>5. tokens' = tokens \cup {token} /\ exchanges' = exchanges
    BY <1>3 DEF Recount
  <2>6. ASSUME NEW other \in tokens' PROVE PropsFresh(other)'
    <3>1. \A t \in Tokens : \A part \in {"own", "issuer"} :
            <<part, t>> \in unheard => <<part, t>> \in unheard'
      BY <1>3
    <3>2. Range(todos) \subseteq Range(todos') /\ Unmarked(token) \subseteq unheard'
      BY <1>3, <2>2
    <3> QED
      BY <1>1, <2>4, <2>5, <3>1, <3>2, LedgerProps
  <2>7. ASSUME NEW other \in Tokens PROVE FiguresFresh(other)'
    <3>1. FiguresFresh(other)
      BY DEF CacheInv
    <3>2. \/ Pending("token.metrics.holders", other)'
          \/ /\ <<"holders", other>> \in unheard => <<"holders", other>> \in unheard'
             /\ Holders(other, last)' = Holders(other, last)
      BY <1>3, <2>2, <2>3 DEF Pending
    <3>3. Prices(exchanges, other, last)' = Prices(exchanges, other, last)
      <4>1. Newest(exchanges', other, last') = Newest(exchanges, other, last)
        BY <1>1, <2>5, NewestLater
      <4> QED
        BY <4>1 DEF Prices
    <3>4. <<"market", other>> \in unheard => <<"market", other>> \in unheard'
      BY <1>3
    <3> QED
      BY <1>1, <2>2, <3>1, <3>2, <3>3, <3>4, FiguresKept
  <2> QED
    BY <2>6, <2>7 DEF CacheInv
<1>4. ASSUME NEW token \in Tokens, Trade(token, last'), Mark(Traded(token)),
             unheard' = (unheard \ {<<"market", token>>}) \cup Unmarked(token)
      PROVE  CacheInv'
  <2>1. <<"token.exchanges", token>> \in Todos
    BY DEF Todos, TokenTasks
  <2>2. Range(todos') = Range(todos) \cup {<<"token.exchanges", token>>}
    BY <1>1, <1>4, <2>1, MarkFacts DEF Traded
  <2>3. \A other \in Tokens : Holders(other, last)' = Holders(other, last)
    BY <1>2, <1>4 DEF Trade
  <2>4. \A other \in Tokens : other \in Held' <=> other \in Held
    BY <2>3 DEF Held
  <2>5. PICK trade \in Trades : exchanges' = exchanges \cup {Exchange(trade, token, last')}
    BY <1>4 DEF Trade
  <2>6. ASSUME NEW other \in tokens' PROVE PropsFresh(other)'
    <3>1. \A t \in Tokens : \A part \in {"own", "issuer"} :
            <<part, t>> \in unheard => <<part, t>> \in unheard'
      BY <1>4
    <3>2. /\ Range(todos) \subseteq Range(todos') /\ Unmarked(token) \subseteq unheard'
          /\ tokens' = tokens \cup {token}
      BY <1>4, <2>2 DEF Trade
    <3> QED
      BY <1>1, <2>4, <3>1, <3>2, LedgerProps
  <2>7. ASSUME NEW other \in Tokens PROVE FiguresFresh(other)'
    <3>1. /\ FiguresFresh(other) /\ Holders(other, last)' = Holders(other, last)
          /\ <<"holders", other>> \in unheard => <<"holders", other>> \in unheard'
      BY <1>4, <2>3 DEF CacheInv
    <3>2. CASE other = token
      <4>1. Pending("token.exchanges", other)'
        BY <2>2, <3>2 DEF Pending
      <4> QED
        BY <1>1, <2>2, <3>1, <4>1, FiguresKept
    <3>3. CASE other # token
      <4>1. Exchange(trade, token, last').token # other
        BY <3>3 DEF Exchange
      <4>2. Newest(exchanges', other, last') = Newest(exchanges, other, last')
        BY <2>5, <4>1 DEF Newest
      <4>3. Prices(exchanges, other, last)' = Prices(exchanges, other, last)
        BY <1>1, <4>2, NewestLater DEF Prices
      <4>4. <<"market", other>> \in unheard => <<"market", other>> \in unheard'
        BY <1>4, <3>3
      <4> QED
        BY <1>1, <2>2, <3>1, <4>3, <4>4, FiguresKept
    <3> QED
      BY <3>2, <3>3
  <2> QED
    BY <2>6, <2>7 DEF CacheInv
<1> QED
  BY <1>3, <1>4 DEF Ledger

LEMMA CacheBackfilled ==
  ASSUME CacheInv, TypeInv', Backfilled
  PROVE  CacheInv'
<1>1. /\ UNCHANGED <<rows, last, todos, cache>> /\ first \in Nat /\ 1 <= first
      /\ first' = Max({1, first - 1}) /\ LedgersType
  BY DEF Backfilled, CacheInv, TypeInv, LedgersType
<1>2. PICK token \in Tokens :
        /\ Recount(token, first') \/ (first > 1 /\ Trade(token, first'))
        /\ unheard' = unheard \cup Unmarked(token) \cup Overlooked(token)
  BY DEF Backfilled
<1>3. tokens' = tokens \cup {token}
  BY <1>2 DEF Recount, Trade
<1>4. \A other \in Tokens : other # token => Holders(other, last)' = Holders(other, last)
  BY <1>1, <1>2 DEF Recount, Trade, Holders, LedgersType
<1>5. \A other \in Tokens : other # token => (other \in Held' <=> other \in Held)
  BY <1>4 DEF Held
<1>6. ASSUME NEW other \in tokens' PROVE PropsFresh(other)'
  <2>1. \A t \in Tokens : \A part \in {"own", "issuer"} :
          <<part, t>> \in unheard => <<part, t>> \in unheard'
    BY <1>2
  <2>2. Range(todos) \subseteq Range(todos') /\ Unmarked(token) \subseteq unheard'
    BY <1>1, <1>2
  <2> QED
    BY <1>1, <1>3, <1>5, <2>1, <2>2, LedgerProps
<1>7. ASSUME NEW other \in Tokens PROVE FiguresFresh(other)'
  <2>1. /\ FiguresFresh(other)
        /\ <<"holders", other>> \in unheard => <<"holders", other>> \in unheard'
        /\ <<"market", other>> \in unheard => <<"market", other>> \in unheard'
    BY <1>2 DEF CacheInv
  <2>2. <<"holders", other>> \in unheard' \/ Holders(other, last)' = Holders(other, last)
    BY <1>2, <1>4 DEF Overlooked
  <2>3. <<"market", other>> \in unheard' \/ Prices(exchanges, other, last)' = Prices(exchanges, other, last)
    <3>1. CASE exchanges' = exchanges
      BY <1>1, <3>1
    <3>2. CASE exchanges' # exchanges /\ other = token /\ Newest(exchanges, token, last) = {}
      BY <1>2, <3>2 DEF Overlooked
    <3>3. CASE exchanges' # exchanges /\ (other # token \/ Newest(exchanges, token, last) # {})
      <4>1. first > 1 /\ Trade(token, first') /\ first' = first - 1
        BY <1>1, <1>2, <3>3, FirstOf DEF Recount
      <4>2. PICK trade \in Trades : exchanges' = exchanges \cup {Exchange(trade, token, first - 1)}
        BY <4>1 DEF Trade
      <4> DEFINE e == Exchange(trade, token, first - 1)
      <4>3. e.token = token /\ e.ledger = first - 1
        BY DEF Exchange
      <4> HIDE DEF e
      <4>4. exchanges' = exchanges \cup {e}
        BY <4>2 DEF e
      <4>5. Newest(exchanges', other, last') = Newest(exchanges, other, last)
        BY <1>1, <3>3, <4>3, <4>4, NewestKept
      <4> QED
        BY <4>5 DEF Prices
    <3> QED
      BY <3>1, <3>2, <3>3
  <2> QED
    BY <1>1, <2>1, <2>2, <2>3, FiguresKept
<1> QED
  BY <1>6, <1>7 DEF CacheInv

\* A task brings up to date what it takes the mark of.
LEMMA CacheServe ==
  ASSUME CacheInv, TypeInv', Serve
  PROVE  CacheInv'
<1> DEFINE todo == Head(todos)
<1>1. TypeInv /\ QueueType /\ tokens \subseteq Tokens
  BY DEF CacheInv, TypeInv
<1>2. todo \in Todos /\ Range(todos') = Range(todos) \ {todo}
  BY <1>1, ServedFacts DEF Serve
<1>3. UNCHANGED core /\ Task(todo)
  BY DEF Serve
<1> HIDE DEF todo
<1>4. PICK after : Push(after) /\ \A token \in Tokens : Served(todo, token, after[token])
  BY <1>1, <1>2, <1>3, TaskFacts
<1>5. \A token \in Tokens : Served(todo, token, cache'[token])
  BY <1>4 DEF Push
<1>6. unheard' \subseteq unheard /\ \A token \in Tokens : HeardOnly(todo, token)
  BY <1>1, <1>2, <1>3, HeardFacts
<1>7. ASSUME NEW token \in tokens' PROVE PropsFresh(token)'
  <2>1. token \in tokens /\ token \in Tokens /\ PropsFresh(token)
    BY <1>1, <1>3, <1>7 DEF CacheInv, core
  <2>2. TokenView(token)' = TokenView(token) /\ IssuerView(token)' = IssuerView(token)
    BY <1>3 DEF TokenView, IssuerView, Held, Holders, core
  <2>3. Served(todo, token, cache'[token]) /\ HeardOnly(todo, token)
    BY <1>5, <1>6, <2>1
  <2>4. ForIssuer(todo, token) <=> todo = <<"account.props", IssuerOf[token]>>
    BY <2>1 DEF ForIssuer
  <2> QED
    BY <1>2, <2>1, <2>2, <2>3, <2>4 DEF PropsFresh, Pending, Served, HeardOnly
<1>8. ASSUME NEW token \in Tokens PROVE FiguresFresh(token)'
  <2>1. FiguresFresh(token)
    BY DEF CacheInv
  <2>2. Holders(token, last)' = Holders(token, last) /\ Prices(exchanges, token, last)' = Prices(exchanges, token, last)
    BY <1>3 DEF Holders, Prices, core
  <2>3. Served(todo, token, cache'[token]) /\ HeardOnly(todo, token)
    BY <1>5, <1>6
  <2>4. ~Pending("token.metrics.holders", token)' /\ <<"holders", token>> \notin unheard'
          => cache'[token].holders.current = Holders(token, last)
    <3>1. CASE todo = <<"token.metrics.holders", token>>
      BY <2>3, <3>1 DEF Served, Figures
    <3>2. CASE todo # <<"token.metrics.holders", token>>
      BY <1>2, <2>1, <2>3, <3>2 DEF FiguresFresh, Pending, Served, HeardOnly
    <3> QED
      BY <3>1, <3>2
  <2>5. ~Pending("token.exchanges", token)' /\ <<"market", token>> \notin unheard'
          => cache'[token].market.price \in Prices(exchanges, token, last)
    <3>1. CASE todo = <<"token.exchanges", token>>
      <4>1. \A market \in Markets(token) : market.price \in Prices(exchanges, token, last)
        BY DEF Markets
      <4> QED
        BY <2>3, <3>1, <4>1 DEF Served
    <3>2. CASE todo # <<"token.exchanges", token>>
      BY <1>2, <2>1, <2>3, <3>2 DEF FiguresFresh, Pending, Served, HeardOnly
    <3> QED
      BY <3>1, <3>2
  <2> QED
    BY <2>2, <2>4, <2>5 DEF FiguresFresh
<1> QED
  BY <1>7, <1>8 DEF CacheInv

LEMMA CacheFail ==
  ASSUME CacheInv, TypeInv', Fail
  PROVE  CacheInv'
<1> DEFINE todo == Head(todos)
<1>1. TypeInv /\ QueueType /\ tokens \subseteq Tokens
  BY DEF CacheInv, TypeInv
<1>2. todo \in Todos /\ Range(todos') = Range(todos) \ {todo}
  BY <1>1, ServedFacts DEF Fail
<1>3. UNCHANGED <<core, cache>> /\ unheard' = unheard \cup PartsOf(todo)
  BY DEF Fail
<1> HIDE DEF todo
<1>4. ASSUME NEW token \in tokens' PROVE PropsFresh(token)'
  <2>1. token \in tokens /\ token \in Tokens /\ PropsFresh(token)
    BY <1>1, <1>3, <1>4 DEF CacheInv, core
  <2>2. TokenView(token)' = TokenView(token) /\ IssuerView(token)' = IssuerView(token)
    BY <1>3 DEF TokenView, IssuerView, Held, Holders, core
  <2>3. todo = <<"account.props", IssuerOf[token]>>
          => <<"issuer", token>> \in unheard' /\ <<"own", token>> \in unheard'
    BY <1>3, <2>1 DEF PartsOf, IssuedBy
  <2>4. todo = <<"token.props", token>> => <<"own", token>> \in unheard'
    BY <1>3 DEF PartsOf
  <2> QED
    BY <1>2, <1>3, <2>1, <2>2, <2>3, <2>4 DEF PropsFresh, Pending
<1>5. ASSUME NEW token \in Tokens PROVE FiguresFresh(token)'
  <2>1. FiguresFresh(token)
    BY DEF CacheInv
  <2>2. Holders(token, last)' = Holders(token, last) /\ Prices(exchanges, token, last)' = Prices(exchanges, token, last)
    BY <1>3 DEF Holders, Prices, core
  <2>3. todo = <<"token.metrics.holders", token>> => <<"holders", token>> \in unheard'
    BY <1>3 DEF PartsOf
  <2>4. todo = <<"token.exchanges", token>> => <<"market", token>> \in unheard'
    BY <1>3 DEF PartsOf
  <2> QED
    BY <1>2, <1>3, <2>1, <2>2, <2>3, <2>4 DEF FiguresFresh, Pending
<1> QED
  BY <1>4, <1>5 DEF CacheInv

LEMMA CacheStep == CacheInv /\ [Next]_vars => CacheInv'
<1> SUFFICES ASSUME CacheInv, [Next]_vars PROVE CacheInv'
  OBVIOUS
<1>0. TypeInv'
  BY TypeStep DEF CacheInv
<1>1. ASSUME NEW write \in Writes, Crawled(write) \/ Listed(write) PROVE CacheInv'
  BY <1>0, <1>1, CacheCrawled
<1>10. ASSUME NEW subject \in Subjects, DiffEnds(subject) PROVE CacheInv'
  BY <1>0, <1>10, CacheDiffEnds
<1>2. CASE Ledger
  BY <1>0, <1>2, CacheLedger
<1>3. CASE Backfilled
  BY <1>0, <1>3, CacheBackfilled
<1>4. CASE Serve
  BY <1>0, <1>4, CacheServe
<1>5. CASE Fail
  BY <1>0, <1>5, CacheFail
<1>6. ASSUME UNCHANGED <<core, todos, cache, unheard>> PROVE CacheInv'
  <2>1. ASSUME NEW token \in tokens PROVE PropsFresh(token)'
    <3>1. TokenView(token)' = TokenView(token) /\ IssuerView(token)' = IssuerView(token)
      BY <1>6 DEF TokenView, IssuerView, Held, Holders, core
    <3> QED
      BY <1>6, <3>1 DEF CacheInv, PropsFresh, Pending
  <2>2. ASSUME NEW token \in Tokens PROVE FiguresFresh(token)'
    <3>1. /\ Holders(token, last)' = Holders(token, last)
          /\ Prices(exchanges, token, last)' = Prices(exchanges, token, last)
      BY <1>6 DEF Holders, Prices, core
    <3> QED
      BY <1>6, <3>1 DEF CacheInv, FiguresFresh, Pending
  <2> QED
    BY <1>0, <1>6, <2>1, <2>2 DEF CacheInv, core
<1>7. CASE CheckAlive
  BY <1>6, <1>7 DEF CheckAlive
<1>8. ASSUME NEW client \in Clients,
             \/ Connect(client) \/ Vanish(client) \/ Pong(client) \/ Closed(client)
             \/ \E token \in Tokens : Subscribe(client, token) \/ Unsubscribe(client, token)
      PROVE  CacheInv'
  BY <1>6, <1>8 DEF Connect, Vanish, Pong, Closed, Subscribe, Unsubscribe
<1>9. CASE UNCHANGED vars
  BY <1>6, <1>9 DEF vars
<1> QED
  BY <1>1, <1>2, <1>3, <1>4, <1>5, <1>7, <1>8, <1>9, <1>10 DEF Next

LEMMA CacheInit == Init => CacheInv
<1> SUFFICES ASSUME Init PROVE CacheInv
  OBVIOUS
<1>1. \A token \in Tokens : FiguresFresh(token)
  <2>1. ASSUME NEW token \in Tokens, ~Pending("token.metrics.holders", token)
        PROVE  cache[token].holders.current = Holders(token, last)
    <3>1. token \notin Snapshot
      BY <2>1, SnapshotIsMarked DEF Pending
    <3>2. holders[token] = Series!NoPoints
      BY <3>1 DEF Init
    <3>3. Series!UpTo(holders[token], last) = {}
      BY <3>2 DEF Series!UpTo, Series!NoPoints
    <3> QED
      BY <3>3 DEF Init, NoRow, NoFigures, Holders, Series!ReadPoint
  <2>2. \A token \in Tokens : cache[token].market.price = Free /\ Newest(exchanges, token, last) = {}
    BY DEF Init, NoRow, NoMarket, Newest
  <2> QED
    BY <2>1, <2>2 DEF FiguresFresh, Prices
<1>2. ASSUME NEW token \in Tokens PROVE PropsFresh(token)
  <2>1. \A account : ReadAccountProps({}, {}, account) = {}
    BY DEF ReadAccountProps, RowsOf, Raised
  <2>2. ReadTokenProps({}, {}, Held, token) = {}
    BY <2>1 DEF ReadTokenProps, RowsOf, Raised
  <2>3. cache[token].own = {} /\ cache[token].issuer = {} /\ rows = {}
    BY DEF Init, NoRow
  <2> QED
    BY <2>1, <2>2, <2>3 DEF PropsFresh, TokenView, IssuerView
<1> QED
  BY <1>1, <1>2, TypeInit DEF Init, CacheInv

---------------------------------------------------------------------------
(* What a client knows.                                                    *)

SubscribersInv == TypeInv /\ SubscribersKnow

LEMMA SubscribersStep == SubscribersInv /\ [Next]_vars => SubscribersInv'
<1> SUFFICES ASSUME SubscribersInv, [Next]_vars PROVE SubscribersKnow'
  BY TypeStep DEF SubscribersInv
<1>0. TypeInv
  BY DEF SubscribersInv
<1>1. ASSUME UNCHANGED <<cache, clients, known>> PROVE SubscribersKnow'
  BY <1>1 DEF SubscribersInv, SubscribersKnow, Subscribed
<1>2. ASSUME NEW write \in Writes, Crawled(write) \/ Listed(write) PROVE SubscribersKnow'
  BY <1>1, <1>2 DEF Crawled, Listed, Write
<1>12. ASSUME NEW subject \in Subjects, DiffEnds(subject) PROVE SubscribersKnow'
  BY <1>1, <1>12 DEF DiffEnds
<1>3. CASE Ledger
  BY <1>1, <1>3 DEF Ledger
<1>4. CASE Backfilled
  BY <1>1, <1>4 DEF Backfilled
<1>5. CASE Serve
  <2>1. Head(todos) \in Todos
    BY <1>0, <1>5, ServedFacts DEF Serve, TypeInv
  <2>2. PICK after : Push(after)
    BY <1>0, <1>5, <2>1, TaskFacts DEF Serve
  <2>3. \A client \in Clients, token \in Tokens :
          known'[client][token] =
            IF cache'[token] # cache[token] /\ clients[client].link # "none" /\ Subscribed(client, token)
            THEN cache'[token] ELSE known[client][token]
    BY <2>2 DEF Push
  <2>4. clients' = clients
    BY <1>5 DEF Serve
  <2> QED
    BY <2>3, <2>4 DEF SubscribersInv, SubscribersKnow, Subscribed
<1>6. CASE Fail
  BY <1>1, <1>6 DEF Fail
<1>7. CASE CheckAlive
  <2>1. \A client \in Clients :
          /\ clients'[client].subscriptions = clients[client].subscriptions
          /\ clients'[client].link # "none" => clients[client].link # "none"
    BY <1>0, <1>7 DEF CheckAlive, Check, TypeInv, ClientsType
  <2>2. UNCHANGED <<cache, known>>
    BY <1>7 DEF CheckAlive
  <2>3. \A client \in Clients :
          clients[client].link # "none" => clients[client].link \in {"open", "closing", "lost"}
    BY <1>0 DEF TypeInv, ClientsType
  <2> QED
    BY <2>1, <2>2, <2>3 DEF SubscribersInv, SubscribersKnow, Subscribed
<1>8. ASSUME NEW client \in Clients PROVE /\ Connect(client) => SubscribersKnow'
                                          /\ Vanish(client) => SubscribersKnow'
                                          /\ Pong(client) => SubscribersKnow'
                                          /\ Closed(client) => SubscribersKnow'
  <2>1. CASE Connect(client)
    BY <1>0, <2>1 DEF Connect, SubscribersInv, SubscribersKnow, Subscribed, TypeInv, ClientsType
  <2>2. CASE Vanish(client)
    BY <1>0, <2>2 DEF Vanish, SubscribersInv, SubscribersKnow, Subscribed, TypeInv, ClientsType
  <2>3. CASE Pong(client)
    BY <1>0, <2>3 DEF Pong, SubscribersInv, SubscribersKnow, Subscribed, TypeInv, ClientsType
  <2>4. CASE Closed(client)
    BY <1>0, <2>4 DEF Closed, Absent, SubscribersInv, SubscribersKnow, Subscribed, TypeInv, ClientsType, KnownType
  <2> QED
    BY <2>1, <2>2, <2>3, <2>4
<1>9. ASSUME NEW client \in Clients, NEW token \in Tokens, Subscribe(client, token) PROVE SubscribersKnow'
  BY <1>0, <1>9 DEF Subscribe, SubscribersInv, SubscribersKnow, Subscribed, TypeInv, ClientsType, KnownType
<1>10. ASSUME NEW client \in Clients, NEW token \in Tokens, Unsubscribe(client, token) PROVE SubscribersKnow'
  BY <1>0, <1>10 DEF Unsubscribe, SubscribersInv, SubscribersKnow, Subscribed, TypeInv, ClientsType, KnownType
<1>11. CASE UNCHANGED vars
  BY <1>1, <1>11 DEF vars
<1> QED
  BY <1>2, <1>3, <1>4, <1>5, <1>6, <1>7, <1>8, <1>9, <1>10, <1>11, <1>12 DEF Next

---------------------------------------------------------------------------
\* The invariant of the worker: each part of a row is what is stored now, or
\* is marked, or has changed without a mark.
THEOREM CacheInvariant == Spec => []CacheInv
  BY CacheInit, CacheStep, PTL DEF Spec

\* Once no task is pending for it, the row of a token shows the properties of
\* the core database, its issuer's trust included - whatever crawlers wrote
\* and ledgers changed while tasks of it and of its issuer were pending.
THEOREM PropsFreshAlways == Spec => []PropsAreFresh
<1>1. CacheInv => PropsAreFresh
  BY DEF CacheInv, PropsAreFresh, PropsFresh
<1> QED
  BY <1>1, CacheInvariant, PTL

\* Likewise its holders and its price.
THEOREM FiguresFreshAlways == Spec => []FiguresAreFresh
<1>1. CacheInv => FiguresAreFresh
  BY DEF CacheInv, FiguresAreFresh, FiguresFresh, TypeInv
<1> QED
  BY <1>1, CacheInvariant, PTL

\* Who has subscribed to a token has been told of every change of its row
\* since, whenever subscription, connection and tasks come.
THEOREM SubscribersKnowAlways == Spec => []SubscribersKnow
<1>1. Init => SubscribersInv
  <2> SUFFICES ASSUME Init PROVE SubscribersInv
    OBVIOUS
  <2>1. TypeInv
    BY TypeInit
  <2>2. \A client \in Clients : clients[client].link = "none"
    BY DEF Init, Absent
  <2> QED
    BY <2>1, <2>2 DEF SubscribersInv, SubscribersKnow
<1>2. SubscribersInv => SubscribersKnow
  BY DEF SubscribersInv
<1> QED
  BY <1>1, <1>2, SubscribersStep, PTL DEF Spec
=============================================================================
