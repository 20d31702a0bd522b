------------------------------- MODULE Pages -------------------------------
(***************************************************************************)
(* The subgraph client: lists of orders, vaults, trades and balance        *)
(* changes, read in pages from tables that the indexer changes between two *)
(* requests. A call reads one page, or all pages, or the trades of all     *)
(* orders, or the same page of several subgraphs at once.                  *)
(***************************************************************************)
EXTENDS Integers, Sequences, FiniteSets, SequencesExt

CONSTANTS
  Subgraphs,     \* the URLs
  InitialTables, \* the tables there may be when the call begins
  Calls,         \* the calls that may be made
  Owners, Ids,   \* of the rows that the indexer adds
  PageSize,      \* ALL_PAGES_QUERY_PAGE_SIZE, and 200 for balance changes
  U16,           \* 2^16
  MaxChanges,    \* bound: changes of the tables during the call
  LastTime,      \* u64::MAX
  Main,          \* the subgraph of calls that ask one
  None           \* Option::None

Entities == {"orders", "vaults", "trades", "changes"}

ASSUME PagesAssumption ==
  /\ PageSize \in Nat \ {0} /\ U16 \in Nat \ {0} /\ PageSize < U16
  /\ Main \in Subgraphs

VARIABLES
  tables,   \* what each subgraph has indexed
  call,     \* the call, and where it is
  unmoved,  \* rows that are as they were when the call began
  changes   \* the changes since

vars == <<tables, call, unmoved, changes>>

-----------------------------------------------------------------------------
(* The subgraph *)

(* Is row r wanted by filter f? Filters that are not given are not sent.   *)
Wanted(e, f, r) ==
  /\ f.owners # {} => r.owner \in f.owners
  /\ f.live # None => r.live = f.live
  /\ f.id # None => r.id = f.id
  /\ f.of # None => r.of = f.of
  /\ e = "trades" => r.key >= f.from /\ r.key <= f.to

(* The newest first; vaults have their id as key.                          *)
Newer(a, b) == a.key > b.key \/ (a.key = b.key /\ a.id < b.id)

Sorted(S, Before(_, _)) ==
  [i \in 1 .. Cardinality(S) |->
     CHOOSE r \in S : Cardinality({q \in S : Before(q, r)}) = i - 1]

Rows(g, e, f) ==
  Sorted({r \in tables[g][e] : Wanted(e, f, r)}, Newer)

FirstMin(a, b) == IF a < b THEN a ELSE b

(* Mutation: first counts from the beginning of the list.                  *)
SliceTo(rows, skip, first) ==
  SubSeq(rows, skip + 1, FirstMin(Len(rows), first))

(* slice_list, and skip and first of a query                               *)
SliceList(rows, skip, first) ==
  SubSeq(rows, skip + 1, FirstMin(Len(rows), skip + first))

Replaced(g, e, old, new) ==
  tables' = [tables EXCEPT ![g][e] = (@ \ old) \cup new]

LastKey ==
  LET keys == UNION {{r.key : r \in tables[g][e]} :
                g \in Subgraphs, e \in Entities \ {"vaults"}}
  IN  CHOOSE k \in keys \cup {0} : \A l \in keys : l <= k

(* Bound: what the call does not read, or not any more, is left as it is.  *)
Read(g, e) ==
  /\ g \in call.args.subgraphs /\ call.pc \notin {"done", "error"}
  /\ \/ e = call.args.entity
     \/ e = "trades" /\ call.args.kind = "allTrades"

(* The indexer at work: an order is added, again after it was removed, or  *)
(* removed; a vault gets its first balance or loses its last; a trade or a *)
(* balance change happens. The clock may stand between two of them.        *)
Change(g, e, old, new) ==
  /\ changes < MaxChanges /\ Read(g, e)
  /\ changes' = changes + 1
  /\ Replaced(g, e, old, new)
  /\ unmoved' = [unmoved EXCEPT ![g][e] = @ \ old]
  /\ UNCHANGED call

Row(id, key, owner, live, of) ==
  [id |-> id, key |-> key, owner |-> owner, live |-> live, of |-> of,
   bad |-> {}]

IndexOrder(g, id, owner, now) ==
  LET old == {r \in tables[g].orders : r.id = id}
  IN  /\ \A r \in old : r.owner = owner /\ ~r.live
      /\ Change(g, "orders", old, {Row(id, now, owner, TRUE, None)})

IndexRemoval(g, r) ==
  r.live /\ Change(g, "orders", {r}, {[r EXCEPT !.live = FALSE]})

IndexVault(g, id, owner) ==
  LET old == {r \in tables[g].vaults : r.id = id}
  IN  /\ \A r \in old : r.owner = owner
      /\ Change(g, "vaults", old,
           IF old = {} THEN {Row(id, id, owner, TRUE, None)}
           ELSE {[r EXCEPT !.live = ~r.live] : r \in old})

IndexEvent(g, e, id, of, now) ==
  /\ id \notin {r.id : r \in tables[g][e]}
  /\ Change(g, e, {}, {Row(id, now, of.owner, TRUE, of.id)})

Indexer ==
  \E g \in Subgraphs, id \in Ids, o \in Owners, now \in {LastKey, LastKey + 1} :
    \/ IndexOrder(g, id, o, now)
    \/ \E r \in tables[g].orders : IndexRemoval(g, r)
    \/ IndexVault(g, id, o)
    \/ \E r \in tables[g].orders : IndexEvent(g, "trades", id, r, now)
    \/ \E r \in tables[g].vaults : IndexEvent(g, "changes", id, r, now)

-----------------------------------------------------------------------------
(* The client *)

(* What the subgraph is asked for                                          *)
NoFilter ==
  [owners |-> {}, live |-> None, id |-> None, of |-> None, from |-> 0, to |-> LastTime]

OrdersFilter(owners, active, hash) ==
  [NoFilter EXCEPT !.owners = owners, !.live = active, !.id = hash]

VaultsFilter(owners, hideZeroBalance) ==
  [NoFilter EXCEPT !.owners = owners, !.live = IF hideZeroBalance THEN TRUE ELSE None]

TradesFilter(order, start, end) ==
  [NoFilter EXCEPT !.of = order, !.from = IF start = None THEN 0 ELSE start,
                   !.to = IF end = None THEN LastTime ELSE end]

ChangesFilter(vault) == [NoFilter EXCEPT !.of = vault]

IdFilter(id) == [NoFilter EXCEPT !.id = id]

(* A call of the client, and what is made of its rows: nothing, a flat     *)
(* form for a table or a file, or the source in their meta data            *)
Asked(kind, entity, filter, page, size, made) ==
  [kind |-> kind, entity |-> entity, filter |-> filter, page |-> page,
   size |-> size, made |-> made, subgraphs |-> {Main}]

OrdersListAll(made) ==
  Asked("all", "orders", OrdersFilter({}, None, None), 1, PageSize, made)

VaultsListAll(made) ==
  Asked("all", "vaults", VaultsFilter({}, TRUE), 1, PageSize, made)

OrderTradesListAll(order, start, end, made) ==
  Asked("all", "trades", TradesFilter(order, start, end), 1, PageSize, made)

VaultBalanceChangesListAll(vault, made) ==
  Asked("all", "changes", ChangesFilter(vault), 1, PageSize, made)

AllTradesList(start, end) ==
  Asked("allTrades", "orders", TradesFilter(None, start, end), 1, PageSize, "raw")

(* The lists of the CLI; cli is what was given on the command line.        *)
CliOrderList(csv, cli) ==
  IF csv THEN OrdersListAll("flat")
  ELSE Asked("page", "orders", OrdersFilter(cli.owners, cli.active, cli.hash),
             cli.page, cli.size, "flat")

CliVaultList(csv, cli) ==
  IF csv THEN VaultsListAll("flat")
  ELSE Asked("page", "vaults", VaultsFilter(cli.owners, cli.hide),
             cli.page, cli.size, "flat")

CliTradeList(csv, order, cli) ==
  IF csv THEN OrderTradesListAll(order, None, None, "flat")
  ELSE Asked("page", "trades", TradesFilter(order, None, None),
             cli.page, cli.size, "flat")

CliBalanceChangesList(csv, vault, cli) ==
  IF csv THEN VaultBalanceChangesListAll(vault, "flat")
  ELSE Asked("page", "changes", ChangesFilter(vault), cli.page, cli.size, "flat")

CliOrderDetail(id) == Asked("detail", "orders", IdFilter(id), 1, 1, "source")
CliVaultDetail(id) == Asked("detail", "vaults", IdFilter(id), 1, 1, "raw")
CliTradeDetail(id) == Asked("detail", "trades", IdFilter(id), 1, 1, "raw")

(* The pages and details of the apps, and the files and counts of trades   *)
AppBalanceChangesList(vault, page, size) ==
  Asked("page", "changes", ChangesFilter(vault), page, size, "raw")
AppTradesList(order, page, size, start, end) ==
  Asked("page", "trades", TradesFilter(order, start, end), page, size, "raw")
AppOrderDetail(id) == Asked("detail", "orders", IdFilter(id), 1, 1, "source")
AppVaultDetail(id) == Asked("detail", "vaults", IdFilter(id), 1, 1, "raw")
WebOrder(id) == Asked("detail", "orders", IdFilter(id), 1, 1, "raw")
AppBalanceChangesWriteCsv(vault) == VaultBalanceChangesListAll(vault, "flat")
AppVaultsWriteCsv == VaultsListAll("flat")
AppOrdersWriteCsv == OrdersListAll("flat")
AppTradesWriteCsv(order, start, end) == OrderTradesListAll(order, start, end, "flat")
AppTradesCount(order, start, end) == OrderTradesListAll(order, start, end, "raw")

(* The tables of the apps load the next page as long as there is one; they *)
(* ask every subgraph for its page.                                        *)
OrdersTable(subgraphs, owners, active, hash, size) ==
  [Asked("table", "orders", OrdersFilter(owners, active, hash), 1, size, "raw")
     EXCEPT !.subgraphs = subgraphs]

VaultsTable(subgraphs, owners, hide, size) ==
  [Asked("table", "vaults", VaultsFilter(owners, hide), 1, size, "raw")
     EXCEPT !.subgraphs = subgraphs]

(* Mutation: skip counts from the page after the one that is asked for.    *)
SkipPage(page, size) == (page * size) % U16

(* parse_pagination_args, in u16                                           *)
Skip(page, size) == (((page - 1) % U16) * size) % U16

Page == call.page
Size == call.args.size
Filter == call.args.filter

(* The fields that each flat form, and the source of an order, are made of *)
FlatOrder == {"bytes", "timestamp"}
FlatVault == {"amount", "decimals"}
FlatTake == {"timestamp", "amount", "decimals"}
FlatBalanceChange == {"timestamp", "amount", "decimals"}
SourceOfOrder == {"meta"}

FieldsRead(c) ==
  IF c.made = "raw" THEN {}
  ELSE IF c.made = "source" THEN SourceOfOrder
  ELSE CASE c.entity = "orders" -> FlatOrder
         [] c.entity = "vaults" -> FlatVault
         [] c.entity = "trades" -> FlatTake
         [] c.entity = "changes" -> FlatBalanceChange

(* One row with a field that cannot be read fails the whole list.          *)
Ended(rows) ==
  LET readable == \A i \in DOMAIN rows : rows[i].bad \cap FieldsRead(call.args) = {}
  IN  [call EXCEPT !.got = rows, !.pc = IF readable THEN "done" ELSE "error"]

Init ==
  /\ tables \in InitialTables
  /\ \E c \in Calls :
       call = [args |-> c, page |-> c.page,
               pc |-> IF c.kind = "table" THEN "multi"
                      ELSE IF c.entity = "changes" THEN "changes" ELSE "list",
               inner |-> <<>>, innerSkip |-> 0, got |-> <<>>,
               todo |-> <<>>, answers |-> [g \in {} |-> <<>>]]
  /\ unmoved = tables
  /\ changes = 0

Server == UNCHANGED <<tables, unmoved, changes>>

All == call.args.kind \in {"all", "allTrades"}

(* A page of a list that is read to its end, up to the first empty one     *)
NextPage(rows) ==
  IF rows # <<>>
  THEN call' = [call EXCEPT !.got = @ \o rows, !.page = (@ + 1) % U16,
                            !.inner = <<>>, !.innerSkip = 0]
  ELSE call' = CASE call.args.kind = "all" -> Ended(call.got)
                 [] OTHER -> [call EXCEPT !.pc = "trades", !.todo = call.got,
                                          !.got = <<>>, !.page = 1]

(* orders_list, vaults_list, order_trades_list, each alone or for _all     *)
ListPage ==
  LET page == SliceList(Rows(Main, call.args.entity, Filter), Skip(Page, Size), Size)
  IN  /\ call.pc = "list"
      /\ \/ All /\ NextPage(page)
         \/ call.args.kind = "page" /\ call' = Ended(page)
      /\ Server

(* order_detail, vault_detail, order_trade_detail                          *)
Detail ==
  LET rows == Rows(Main, call.args.entity, Filter)
  IN  /\ call.pc = "list" /\ call.args.kind = "detail"
      /\ call' = IF rows = <<>> THEN [call EXCEPT !.pc = "error"] ELSE Ended(rows)
      /\ Server

(* sort_results                                                            *)
SortResults(rows) ==
  LET before(i, j) ==
        \/ rows[i].key > rows[j].key
        \/ rows[i].key = rows[j].key /\ i < j
      order == Sorted(DOMAIN rows, before)
  IN  [i \in DOMAIN rows |-> rows[order[i]]]

(* Mutation: a page without rows does not end the loop.                    *)
ChangesPageAgain ==
  LET skip == Skip(Page, Size)
      fetched == SliceList(Rows(Main, "changes", Filter), call.innerSkip, PageSize)
      wanted == SliceList(call.inner, skip, Size)
  IN  /\ call.pc = "changes"
      /\ \/ /\ Len(call.inner) < skip + Size
            /\ call' = IF fetched = <<>> THEN call
                       ELSE [call EXCEPT !.inner = SortResults(@ \o fetched),
                                         !.innerSkip = @ + PageSize]
         \/ /\ Len(call.inner) >= skip + Size
            /\ IF All THEN NextPage(wanted) ELSE call' = Ended(wanted)
      /\ Server

(* query_paginated: pages are fetched until there are enough rows for the  *)
(* page that is wanted, sorted again each time, and sliced.                *)
ChangesPage ==
  LET skip == Skip(Page, Size)
      fetched == SliceList(Rows(Main, "changes", Filter), call.innerSkip, PageSize)
      wanted == SliceList(call.inner, skip, Size)
  IN  /\ call.pc = "changes"
      /\ \/ /\ Len(call.inner) < skip + Size
            /\ fetched # <<>>
            /\ call' = [call EXCEPT !.inner = SortResults(@ \o fetched),
                                    !.innerSkip = @ + PageSize]
         \/ /\ fetched = <<>> \/ Len(call.inner) >= skip + Size
            /\ IF All THEN NextPage(wanted) ELSE call' = Ended(wanted)
      /\ Server

(* all_trades_list: the trades of each order that was listed, in the order *)
(* of time in the end                                                      *)
Oldest(rows) ==
  LET before(i, j) ==
        \/ rows[i].key < rows[j].key
        \/ rows[i].key = rows[j].key /\ i < j
      order == Sorted(DOMAIN rows, before)
  IN  [i \in DOMAIN rows |-> rows[order[i]]]

TradesPage ==
  /\ call.pc = "trades"
  /\ \/ call.todo = <<>> /\ call' = Ended(Oldest(call.got))
     \/ /\ call.todo # <<>>
        /\ LET f == [call.args.filter EXCEPT !.of = Head(call.todo).id]
               page == SliceList(Rows(Main, "trades", f),
                                 Skip(Page, Size), Size)
           IN  call' = IF page = <<>>
                       THEN [call EXCEPT !.todo = Tail(@), !.page = 1]
                       ELSE [call EXCEPT !.got = @ \o page,
                                         !.page = (@ + 1) % U16]
  /\ Server

(* A request fails, and with it the call.                                  *)
RequestFails ==
  /\ call.pc \in {"list", "changes", "trades"}
  /\ call' = [call EXCEPT !.pc = "error"]
  /\ Server

(* MultiOrderbookSubgraphClient: a subgraph answers or fails; when all have*)
(* what was answered is put together, orders by time. The table goes on to *)
(* the next page if this one has as many rows as a page has.               *)
Answer(g, rows) ==
  /\ call.pc = "multi" /\ g \in call.args.subgraphs \ DOMAIN call.answers
  /\ call' = [call EXCEPT !.answers =
                [h \in DOMAIN @ \cup {g} |-> IF h = g THEN rows ELSE @[h]]]
  /\ Server

MultiAnswer(g) ==
  Answer(g, SliceList(Rows(g, call.args.entity, call.args.filter),
                      Skip(Page, Size), Size))

MultiFails(g) == Answer(g, None)

(* Results that are errors are left out.                                   *)
Answered ==
  SelectSeq(SetToSeq(call.args.subgraphs), LAMBDA g : call.answers[g] # None)

MultiMerge ==
  LET named(g) == [i \in DOMAIN call.answers[g] |->
                     [subgraph |-> g] @@ call.answers[g][i]]
      rows == FlattenSeq([i \in DOMAIN Answered |-> named(Answered[i])])
  IN  /\ call.pc = "multi" /\ DOMAIN call.answers = call.args.subgraphs
      /\ call' = LET page == IF call.args.entity = "orders" THEN SortResults(rows)
                             ELSE rows
                 IN  IF Len(rows) = Size
                     THEN [call EXCEPT !.got = @ \o page, !.page = @ + 1,
                                       !.answers = [g \in {} |-> <<>>]]
                     ELSE Ended(call.got \o page)
      /\ Server

Client ==
  \/ ListPage \/ Detail \/ ChangesPage \/ TradesPage \/ MultiMerge
  \/ \E g \in Subgraphs : MultiAnswer(g)

Next ==
  \/ Indexer
  \/ Client
  \/ RequestFails
  \/ \E g \in Subgraphs : MultiFails(g)

(* A request that does not fail is answered.                               *)
Spec == Init /\ [][Next]_vars /\ WF_vars(Client)

-----------------------------------------------------------------------------
(* Properties *)

Done == call.pc = "done"
NoneFailed == \A g \in DOMAIN call.answers : call.answers[g] # None
Listed(r) == \E i \in DOMAIN call.got : call.got[i] = r
Matching(g, e, f) == {r \in tables[g][e] : Wanted(e, f, r)}

(* Every part of the state has the form it should have: tables have one row*)
(* for an id (ids are primary keys of the subgraph), pages and skips stay  *)
(* in u16, and only rows come back.                                        *)
TypeOK ==
  /\ \A g \in Subgraphs, e \in Entities :
       \A r, q \in tables[g][e] : r.id = q.id => r = q
  /\ call.pc \in {"list", "changes", "trades", "multi", "done", "error"}
  /\ Page \in 0 .. U16 - 1 /\ Size \in 0 .. U16 - 1
  /\ \A g \in Subgraphs, e \in Entities : unmoved[g][e] \subseteq tables[g][e]
  /\ changes \in 0 .. MaxChanges

(* The _all lists of orders, trades and balance changes (orderbook_client) *)
(* have every row that stood still while the pages were read, whatever the *)
(* indexer put in front of it meanwhile.                                   *)
NothingMissed ==
  /\ TypeOK
  /\ Done =>
    /\ call.args.kind = "all" /\ call.args.entity # "vaults" =>
         \A r \in unmoved[Main][call.args.entity] :
           Wanted(call.args.entity, Filter, r) => Listed(r)
    /\ call.args.kind = "allTrades" =>
         \A o \in unmoved[Main].orders, r \in unmoved[Main].trades :
           Wanted("trades", [call.args.filter EXCEPT !.of = o.id], r) => Listed(r)

(* Is r on the page of a list, counting the rows before it?                *)
OnPage(rows, r, page, size) ==
  LET before == Cardinality({q \in rows : Newer(q, r)})
  IN  (page - 1) * size <= before /\ before < page * size

(* What a call promises of tables that stand still                         *)
Promised ==
  LET c == call.args
      rows(g) == Matching(g, c.entity, Filter)
      page(g) == {r \in rows(g) : OnPage(rows(g), r, c.page, c.size)}
  IN  CASE c.kind \in {"all", "detail"} -> rows(Main)
        [] c.kind = "page" -> page(Main)
        [] c.kind = "allTrades" ->
             UNION {Matching(Main, "trades", [c.filter EXCEPT !.of = o.id]) :
                      o \in tables[Main].orders}
        [] c.kind = "table" ->
             {[subgraph |-> Main] @@ r : r \in rows(Main)}

(* While the indexer stands still, a call of one subgraph lists exactly the*)
(* rows that its page and filter have, each once, in the order of the      *)
(* query: the page of query_paginated is the one that a query for that page*)
(* would give, and the table of an app has loaded all of its pages.        *)
ExactWhenStill ==
  Done /\ changes = 0 /\ Cardinality(call.args.subgraphs) = 1 /\ NoneFailed =>
    LET got == call.got
        c == call.args
        inOrder(a, b) == IF c.kind = "allTrades" THEN a.key <= b.key
                         ELSE a.key >= b.key
    IN  /\ {got[i] : i \in DOMAIN got} = Promised
        /\ Len(got) = Cardinality(Promised)
        /\ \A i, j \in DOMAIN got : i < j => inOrder(got[i], got[j])

(* The table of several subgraphs has no row twice while the indexer stands*)
(* still, and a subgraph that fails takes no row from the others: the first*)
(* page of each that answered last is there.                               *)
FailureHidesNoOther ==
  Done /\ call.args.kind = "table" /\ changes = 0 =>
    /\ \A i, j \in DOMAIN call.got : call.got[i] = call.got[j] => i = j
    /\ \A g \in call.args.subgraphs :
         LET rows == Matching(g, call.args.entity, Filter)
         IN  call.answers[g] # None =>
               \A r \in rows : OnPage(rows, r, Page, Size) =>
                                 Listed([subgraph |-> g] @@ r)

(* While the indexer stands still a call lists what it promises, and what  *)
(* other subgraphs do not answer takes nothing from it.                    *)
ListedWhenStill == ExactWhenStill /\ FailureHidesNoOther

(* Every call ends, the ones that go on until a page is empty too.         *)
CallsEnd == <>(call.pc \in {"done", "error"})

=============================================================================
