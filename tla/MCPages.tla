------------------------------ MODULE MCPages ------------------------------
(* Pages with a subgraph of a few rows, read in pages of one or two, while *)
(* rows are added, moved and removed; and a second subgraph.               *)
EXTENDS Pages

CONSTANTS alice, bob, g1, g2

(* Two orders of Alice, one of them removed, and one of Bob; a vault that  *)
(* is empty; trades of the same second; an order that cannot be read       *)
Table ==
  [orders |-> {Row(1, 1, alice, TRUE, None), Row(2, 2, alice, FALSE, None),
               Row(3, 2, bob, TRUE, None)},
   vaults |-> {Row(1, 1, alice, TRUE, None), Row(2, 2, bob, FALSE, None),
               Row(3, 3, alice, TRUE, None)},
   trades |-> {Row(1, 2, alice, TRUE, 1), Row(2, 3, bob, TRUE, 3),
               Row(3, 3, alice, TRUE, 1), Row(4, 4, alice, TRUE, 2)},
   changes |-> {Row(1, 2, alice, TRUE, 1), Row(2, 3, alice, TRUE, 1),
                Row(3, 3, alice, TRUE, 1), Row(4, 4, alice, TRUE, 3)}]

Spoiled(table) ==
  [e \in Entities |-> {[r EXCEPT !.bad = IF r.id = 1 THEN {"decimals", "meta"} ELSE {}] :
                        r \in table[e]}]

SecondTable ==
  [e \in Entities |-> {r \in Table[e] : r.id = 2}]

MCTables ==
  {[g \in Subgraphs |-> IF g = g1 THEN t ELSE SecondTable] :
     t \in {Table, Spoiled(Table), [e \in Entities |-> {}]}}

Given(owners, active, hide, hash, page, size) ==
  [owners |-> owners, active |-> active, hide |-> hide, hash |-> hash,
   page |-> page, size |-> size]
Pages == {Given({}, None, FALSE, None, p, s) : p, s \in {1, 2}}

MCCalls ==
  {OrdersListAll("raw"), AllTradesList(2, 3), AppTradesCount(1, None, 3), AppTradesWriteCsv(1, 3, None),
   CliOrderDetail(1), CliVaultDetail(4), CliTradeDetail(3),
   AppOrderDetail(1), AppVaultDetail(4), WebOrder(1), AppBalanceChangesWriteCsv(1),
   AppBalanceChangesList(1, 1, 2), AppTradesList(1, 1, 2, None, 3),
   CliOrderList(FALSE, Given({alice}, TRUE, TRUE, None, 1, 2)),
   CliOrderList(FALSE, Given({}, None, TRUE, 3, 1, 2)),
   CliVaultList(FALSE, Given({alice}, TRUE, TRUE, None, 2, 1)),
   OrdersTable({g1}, {}, None, None, 2), VaultsTable({g1}, {}, TRUE, 1),
   OrdersTable(Subgraphs, {}, None, None, 2), VaultsTable(Subgraphs, {}, FALSE, 2)}
  \cup {CliOrderList(csv, p) : csv \in BOOLEAN, p \in Pages}
  \cup {CliVaultList(csv, p) : csv \in BOOLEAN, p \in Pages}
  \cup {CliTradeList(csv, 1, p) : csv \in BOOLEAN, p \in Pages}
  \cup {CliBalanceChangesList(csv, 1, p) : csv \in BOOLEAN, p \in Pages}

=============================================================================
