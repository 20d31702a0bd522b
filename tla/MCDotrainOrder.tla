--------------------------- MODULE MCDotrainOrder ---------------------------
(***************************************************************************)
(* Small documents for DotrainOrder: two lists of networks in the front    *)
(* matter and one in the settings, a scenario with a child, an order that  *)
(* names its deployer and one that does not.                               *)
(* And for Filter: two networks, an order on each, the scenario of one     *)
(* deployment a child of the other's. A behaviour is of one of the two;    *)
(* the other one has ended before it begins.                               *)
(***************************************************************************)
EXTENDS Dotrain

ChainAt(name, url, usable) ==
  [shortName |-> name,
   rpc |-> << [url |-> "wss", usable |-> FALSE],
              [url |-> url, usable |-> usable] >>]

MCLists ==
  "one" :> << ChainAt("a", "u", TRUE), ChainAt("b", "u", FALSE) >> @@
  "two" :> << ChainAt("c", "u", TRUE) >> @@
  "taken" :> << ChainAt("b", "w", TRUE), ChainAt("a", "w", TRUE) >> @@
  "late" :> << ChainAt("b", "u", TRUE) >>

IO(t) == << [token |-> t, vaultId |-> None] >>

Remote(u) == [url |-> u, format |-> "chainid"]

Frontmatter ==
  [DefaultSource EXCEPT
     !.usingNetworksFrom = "l1" :> Remote("one") @@ "l2" :> Remote("two"),
     !.networks = "n" :> [rpc |-> "rpc"],
     !.tokens = "t" :> [network |-> "n", address |-> "0x1"] @@
                "u" :> [network |-> "n", address |-> "0x2"],
     !.deployers =
       "d" :> [address |-> "0x1", network |-> "n", label |-> None] @@
       "e" :> [address |-> "0x2", network |-> "n", label |-> "E"],
     !.orders =
       "o" :> [inputs |-> IO("t"), outputs |-> IO("u"),
               deployer |-> None, orderbook |-> "m"] @@
       "q" :> [inputs |-> << [token |-> "u", vaultId |-> 1] >>, outputs |-> <<>>,
               deployer |-> "d", orderbook |-> None],
     !.scenarios =
       <<"s">> :> [deployer |-> "d", bindings |-> <<>>] @@
       <<"s", "c">> :> [deployer |-> "gone", bindings |-> "y" :> 1] @@
       <<"e">> :> [deployer |-> None, bindings |-> <<>>],
     !.charts = "e" :> [scenario |-> None],
     !.deployments =
       "do" :> [scenario |-> <<"s", "c">>, order |-> "o"] @@
       "dq" :> [scenario |-> <<"s">>, order |-> "q"] @@
       "eo" :> [scenario |-> <<"e">>, order |-> "o"],
     !.subgraphs = "n" :> "s1",
     !.accounts = "x" :> "0x9"]

Settings1 ==
  [DefaultSource EXCEPT
     !.usingNetworksFrom = "l3" :> Remote("late"),
     !.networks = "m" :> [rpc |-> "rpc"],
     !.subgraphs = "m" :> "s2",
     !.orderbooks = "m" :> [address |-> "0x7", network |-> "n",
                            subgraph |-> None],
     !.metaboards = "n" :> "mb",
     !.accounts = "y" :> "0x8",
     !.sentry = TRUE]

(* The second is another main whose lists overlap, the third settings that *)
(* repeat a name, the fourth an order on two networks, the fifth a list    *)
(* in a format that is not known, the sixth an order of another deployer   *)
(* than its scenario's, the seventh settings that repeat a token.          *)
MCDocuments ==
  {[main |-> Frontmatter, top |-> Settings1],
   [main |-> [Frontmatter EXCEPT !.usingNetworksFrom =
                "l1" :> Remote("one") @@ "l2" :> Remote("taken")],
    top |-> [Settings1 EXCEPT !.usingNetworksFrom = <<>>]],
   [main |-> Frontmatter,
    top |-> [Settings1 EXCEPT !.subgraphs = "n" :> "s3" @@ "m" :> "s2"]],
   [main |-> Frontmatter,
    top |-> [Settings1 EXCEPT !.orderbooks["m"].network = "m"]],
   [main |-> [Frontmatter EXCEPT
      !.usingNetworksFrom["l2"].format = "yaml"], top |-> Settings1],
   [main |-> [Frontmatter EXCEPT !.deployments["eo"].order = "q"],
    top |-> Settings1],
   [main |-> Frontmatter,
    top |-> [Settings1 EXCEPT !.tokens =
               "t" :> [network |-> "n", address |-> "0x5"]]]}

MCBindings == {"x" :> 1, "y" :> 2}

Plain ==
  [DefaultSource EXCEPT
     !.networks = "n" :> [rpc |-> "r1"] @@ "m" :> [rpc |-> "r2"] @@
                  "l" :> [rpc |-> "r3"],
     !.subgraphs = "g" :> "s1" @@ "h" :> "s2",
     !.orderbooks = "n" :> [address |-> "0x7", network |-> None,
                            subgraph |-> "g"],
     !.tokens = "t" :> [network |-> "n", address |-> "0x1"] @@
                "u" :> [network |-> "n", address |-> "0x2"] @@
                "v" :> [network |-> "m", address |-> "0x1"],
     !.deployers =
       "d" :> [address |-> "0x1", network |-> "l", label |-> None] @@
       "e" :> [address |-> "0x2", network |-> "m", label |-> None],
     !.orders =
       "o" :> [inputs |-> IO("t"), outputs |-> IO("u"),
               deployer |-> None, orderbook |-> "n"] @@
       "q" :> [inputs |-> IO("v"), outputs |-> IO("v"),
               deployer |-> "e", orderbook |-> None],
     !.scenarios =
       <<"d">> :> [deployer |-> None, bindings |-> "x" :> 1] @@
       <<"d", "c">> :> [deployer |-> None, bindings |-> "y" :> 1] @@
       <<"s">> :> [deployer |-> "e", bindings |-> <<>>],
     !.charts = "s" :> [scenario |-> None] @@
                "k" :> [scenario |-> <<"d", "c">>],
     !.deployments =
       "do" :> [scenario |-> <<"d", "c">>, order |-> "o"] @@
       "ro" :> [scenario |-> <<"d">>, order |-> "o"] @@
       "sq" :> [scenario |-> <<"s">>, order |-> "q"]]

(* Equal tokens, equal orders, a child with its own deployer, the same     *)
(* with a deployer equal to another, a chart of another tree on a network  *)
(* that is used                                                            *)
AliasedTokens == [Plain EXCEPT !.tokens["u"].address = "0x1"]
AliasedOrders == [Plain EXCEPT !.orders = @ @@ "p" :> Plain.orders["o"]]
TwoDeployers == [Plain EXCEPT !.scenarios[<<"d", "c">>].deployer = "e"]
AliasedDeployers ==
  [Plain EXCEPT !.deployers = @ @@ "f" :> Plain.deployers["e"],
                !.scenarios[<<"d", "c">>].deployer = "f"]
ForeignChart ==
  [Plain EXCEPT !.scenarios = @ @@ <<"e">> :> [deployer |-> None,
                                               bindings |-> <<>>],
                !.charts = @ @@ "e" :> [scenario |-> None]]

MCFilterDocuments ==
  {Plain, AliasedTokens, AliasedOrders, TwoDeployers, AliasedDeployers,
   ForeignChart}

MCAliasedDocuments == {AliasedDeployers}

MCRequests ==
  {<<"do">>, <<"sq">>, <<"do", "ro">>, <<"sq", "do">>, <<"ro", "sq", "do">>,
   <<"do", "gone">>}

MCBodies == {<<>>, <<"body">>}

-----------------------------------------------------------------------------
(* Made, fetched and updated, with no filter *)
NotFiltered ==
  /\ given = DefaultSource /\ cut = DefaultSource
  /\ body = <<>> /\ request = <<>> /\ found = <<>> /\ left = <<>>
  /\ outcome = "panicked"

(* A filter, and no order that is made *)
NotMade ==
  /\ doc \in Documents /\ doc.main = Frontmatter /\ doc.top = Settings1
  /\ stage = "failed" /\ pending = {}
  /\ source = DefaultSource /\ top = DefaultSource /\ config = NoConfig

MCInit == (Init /\ NotFiltered) \/ (FilterInit /\ NotMade)

MCSpec ==
  /\ MCInit /\ [][DotrainNext]_<<vars, filterVars>>
  /\ WF_filterVars(FilterNext)

=============================================================================
