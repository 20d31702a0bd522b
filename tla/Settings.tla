------------------------------ MODULE Settings ------------------------------
(***************************************************************************)
(* What the settings crate does to a configuration: the YAML source, the   *)
(* merge of two sources, and the conversion of a source, whose entries     *)
(* name each other, into a configuration, whose entries contain each       *)
(* other.                                                                  *)
(*                                                                         *)
(* A HashMap is a function whose domain is its keys, an Option is a value  *)
(* or None. An address stands for everything of an entry that is only      *)
(* copied (decimals, labels, symbols). A scenario is a function from paths *)
(* to what the source says at that path: <<"a", "b">> is what Rust calls   *)
(* a.b, a name that no key of another map can have.                        *)
(***************************************************************************)
EXTENDS Naturals, Sequences, FiniteSets, TLC

Elements(seq) == {seq[i] : i \in DOMAIN seq}

CONSTANT None   \* Option::None

Opt(S) == S \cup {None}

Front(p) == SubSeq(p, 1, Len(p) - 1)

(* The map f, and what g has beyond it.                                    *)
Joined(f, g) ==
  [k \in DOMAIN f \cup DOMAIN g |-> IF k \in DOMAIN f THEN f[k] ELSE g[k]]

(* The entry of a map that an entry called name refers to: the one it says *)
(* or else the one of its own name.                                        *)
Ref(said, name) == IF said = None THEN name ELSE said

-----------------------------------------------------------------------------
(* Sources *)

RemoteSource == [url : STRING, format : STRING]
NetworkSource == [rpc : STRING]
OrderbookSource ==
  [address : STRING, network : Opt(STRING), subgraph : Opt(STRING)]
TokenSource == [network : STRING, address : STRING]
DeployerSource ==
  [address : STRING, network : Opt(STRING), label : Opt(STRING)]
IOSource == [token : STRING, vaultId : Opt(Nat)]
OrderSource ==
  [inputs : Seq(IOSource), outputs : Seq(IOSource),
   deployer : Opt(STRING), orderbook : Opt(STRING)]
ChartSource == [scenario : Opt(Seq(STRING))]
DeploymentSource == [scenario : Seq(STRING), order : STRING]

(* The sections of a source that are maps from names. *)
Sections == {"networks", "usingNetworksFrom", "subgraphs", "metaboards",
             "orderbooks", "tokens", "deployers", "orders", "scenarios",
             "charts", "deployments"}

SourceFields == Sections \cup {"sentry", "accounts", "raindexVersion", "gui"}

DefaultSource == [f \in SourceFields |-> IF f \in Sections THEN <<>> ELSE None]

(* The scenario at a path and those it is inside.                          *)
Around(p) == {SubSeq(p, 1, i) : i \in 1..Len(p)}

IsSource(s) ==
  /\ DOMAIN s = SourceFields
  /\ \A n \in DOMAIN s.networks : s.networks[n] \in NetworkSource
  /\ \A n \in DOMAIN s.usingNetworksFrom :
       s.usingNetworksFrom[n] \in RemoteSource
  /\ \A n \in DOMAIN s.orderbooks : s.orderbooks[n] \in OrderbookSource
  /\ \A n \in DOMAIN s.tokens : s.tokens[n] \in TokenSource
  /\ \A n \in DOMAIN s.deployers : s.deployers[n] \in DeployerSource
  /\ \A n \in DOMAIN s.orders : s.orders[n] \in OrderSource
  /\ \A n \in DOMAIN s.charts : s.charts[n] \in ChartSource
  /\ \A n \in DOMAIN s.deployments : s.deployments[n] \in DeploymentSource
  /\ \A p \in DOMAIN s.scenarios :
       /\ p \in Seq(STRING) /\ p # <<>>
       /\ Around(p) \subseteq DOMAIN s.scenarios
       /\ DOMAIN s.scenarios[p] = {"deployer", "bindings"}
       /\ s.scenarios[p].deployer \in Opt(STRING)

-----------------------------------------------------------------------------
(* Networks from a list on the web *)

(* The first RPC address of a chain that needs no key and is no web socket *)
UsableRpcs(chain) == {i \in DOMAIN chain.rpc : chain.rpc[i].usable}
Supported(chain) == UsableRpcs(chain) # {}
ChainNetwork(chain) ==
  LET first == CHOOSE i \in UsableRpcs(chain) :
                 \A j \in UsableRpcs(chain) : i <= j
  IN  [rpc |-> chain.rpc[first].url]

(* The chains are added in their order, and one whose name is taken by     *)
(* then is an error, be it supported or not.                               *)
ConflictingNetworks(networks, chains) ==
  \E i \in DOMAIN chains :
    \/ chains[i].shortName \in DOMAIN networks
    \/ \E j \in 1..(i - 1) : /\ chains[j].shortName = chains[i].shortName
                             /\ Supported(chains[j])

WithChains(networks, chains) ==
  LET added == {chains[i].shortName :
                  i \in {j \in DOMAIN chains : Supported(chains[j])}}
      chain(n) == CHOOSE c \in {chains[i] : i \in DOMAIN chains} :
                    c.shortName = n /\ Supported(c)
  IN  Joined(networks, [n \in added |-> ChainNetwork(chain(n))])

-----------------------------------------------------------------------------
(* Merging *)

(* Mutation: a token replaces one of its name.                             *)
SameSectionButTokens(a, b, f) ==
  f # "tokens" /\ DOMAIN a[f] \cap DOMAIN b[f] # {}

SameSection(a, b, f) == DOMAIN a[f] \cap DOMAIN b[f] # {}

SentryCollision(a, b) == a.sentry # None /\ b.sentry # None

AccountsCollision(a, b) ==
  /\ a.accounts # None /\ b.accounts # None
  /\ DOMAIN a.accounts \cap DOMAIN b.accounts # {}

MergeCollides(a, b) ==
  \/ \E f \in Sections : SameSection(a, b, f)
  \/ SentryCollision(a, b)
  \/ AccountsCollision(a, b)

(* What a becomes; the version and the gui of b are not taken over.        *)
Merged(a, b) ==
  [f \in DOMAIN a |->
     CASE f \in Sections -> Joined(b[f], a[f])
       [] f = "sentry" -> IF a.sentry # None THEN a.sentry ELSE b.sentry
       [] f = "accounts" -> IF a.accounts = None THEN b.accounts
                            ELSE IF b.accounts = None THEN a.accounts
                            ELSE Joined(a.accounts, b.accounts)
       [] OTHER -> a[f]]

-----------------------------------------------------------------------------
(* Conversion: each section with what makes it fail *)

Network(s, n) == [name |-> n, rpc |-> s.networks[n].rpc]

OrderbookResolves(s, n) ==
  /\ Ref(s.orderbooks[n].network, n) \in DOMAIN s.networks
  /\ Ref(s.orderbooks[n].subgraph, n) \in DOMAIN s.subgraphs
Orderbook(s, n) ==
  [address |-> s.orderbooks[n].address,
   network |-> Network(s, Ref(s.orderbooks[n].network, n)),
   subgraph |-> s.subgraphs[Ref(s.orderbooks[n].subgraph, n)]]

TokenResolves(s, n) == s.tokens[n].network \in DOMAIN s.networks
Token(s, n) ==
  [network |-> Network(s, s.tokens[n].network),
   address |-> s.tokens[n].address]

DeployerResolves(s, n) ==
  Ref(s.deployers[n].network, n) \in DOMAIN s.networks
Deployer(s, n) ==
  [address |-> s.deployers[n].address,
   network |-> Network(s, Ref(s.deployers[n].network, n)),
   label |-> s.deployers[n].label]

IOTokens(o) == {o.inputs[i].token : i \in DOMAIN o.inputs}
                 \cup {o.outputs[i].token : i \in DOMAIN o.outputs}

OrderNetworks(s, o) ==
  {Deployer(s, n).network : n \in {o.deployer} \ {None}}
    \cup {Orderbook(s, n).network : n \in {o.orderbook} \ {None}}
    \cup {Token(s, n).network : n \in IOTokens(o)}

(* Mutation: the parts of an order may be on different networks.           *)
OrderResolvesAnywhere(s, n) ==
  LET o == s.orders[n]
  IN  /\ o.deployer \in Opt(DOMAIN s.deployers)
      /\ o.orderbook \in Opt(DOMAIN s.orderbooks)
      /\ IOTokens(o) \subseteq DOMAIN s.tokens

(* Everything an order names exists and is on one network.                 *)
OrderResolves(s, n) ==
  LET o == s.orders[n]
  IN  /\ o.deployer \in Opt(DOMAIN s.deployers)
      /\ o.orderbook \in Opt(DOMAIN s.orderbooks)
      /\ IOTokens(o) \subseteq DOMAIN s.tokens
      /\ Cardinality(OrderNetworks(s, o)) = 1

OrderIO(s, io) ==
  [i \in DOMAIN io |->
     [token |-> Token(s, io[i].token), vaultId |-> io[i].vaultId]]

Order(s, n) ==
  LET o == s.orders[n]
  IN  [inputs |-> OrderIO(s, o.inputs), outputs |-> OrderIO(s, o.outputs),
       network |-> CHOOSE net \in OrderNetworks(s, o) : TRUE,
       deployer |-> IF o.deployer = None THEN None
                    ELSE Deployer(s, o.deployer),
       orderbook |-> IF o.orderbook = None THEN None
                     ELSE Orderbook(s, o.orderbook)]

-----------------------------------------------------------------------------
(* Scenarios: a child takes over its parent's bindings and deployer, and   *)
(* so those of the innermost scenario around it that says any. Only one at *)
(* the root can have the name of a deployer.                               *)

Innermost(P) == CHOOSE p \in P : \A q \in P : Len(q) <= Len(p)

DeployerName(s, p) ==
  IF s.scenarios[p].deployer # None THEN s.scenarios[p].deployer
  ELSE IF Len(p) = 1 THEN p[1] ELSE None

ScenarioDeployer(s, p) ==
  LET saying == {q \in Around(p) : DeployerName(s, q) \in DOMAIN s.deployers}
  IN  IF saying = {} THEN None
      ELSE Deployer(s, DeployerName(s, Innermost(saying)))

OwnBindings(s, p) == s.scenarios[p].bindings

SayingBinding(s, p, k) == {q \in Around(p) : k \in DOMAIN OwnBindings(s, q)}

ScenarioBindings(s, p) ==
  [k \in UNION {DOMAIN OwnBindings(s, q) : q \in Around(p)} |->
     OwnBindings(s, Innermost(SayingBinding(s, p, k)))[k]]

(* Mutation: a child may give a binding of its parent another value.       *)
ScenariosShadow(s) ==
  \A p \in DOMAIN s.scenarios : ScenarioDeployer(s, p) # None

HaveDeployers(s) ==
  \A p \in DOMAIN s.scenarios :
    /\ ScenarioDeployer(s, p) # None
    /\ Len(p) > 1 =>
         ScenarioDeployer(s, p).label = ScenarioDeployer(s, Front(p)).label

NoneShadowed(s) ==
  \A p \in DOMAIN s.scenarios :
    Len(p) > 1 =>
      \A k \in DOMAIN OwnBindings(s, p)
              \cap DOMAIN ScenarioBindings(s, Front(p)) :
        OwnBindings(s, p)[k] = ScenarioBindings(s, Front(p))[k]

ScenariosResolve(s) == HaveDeployers(s) /\ NoneShadowed(s)

Scenario(s, p) ==
  [name |-> p, bindings |-> ScenarioBindings(s, p),
   deployer |-> ScenarioDeployer(s, p)]

-----------------------------------------------------------------------------
(* Deployments, charts and the gui *)

DeploymentResolves(s, n) ==
  LET d == s.deployments[n]
  IN  /\ d.scenario \in DOMAIN s.scenarios
      /\ d.order \in DOMAIN s.orders
      /\ s.orders[d.order].deployer # None =>
           Order(s, d.order).deployer = ScenarioDeployer(s, d.scenario)

Deployment(s, n) ==
  [scenario |-> Scenario(s, s.deployments[n].scenario),
   order |-> Order(s, s.deployments[n].order)]

ChartScenario(s, n) == Ref(s.charts[n].scenario, <<n>>)

GuiDeploymentSources(s) == IF s.gui = None THEN {} ELSE Elements(s.gui)

GuiResolves(s) ==
  \A g \in GuiDeploymentSources(s) :
    /\ g.deployment \in DOMAIN s.deployments
    /\ \A d \in Elements(g.deposits) : d.token \in DOMAIN s.tokens

Gui(s) ==
  IF s.gui = None THEN None
  ELSE [i \in DOMAIN s.gui |->
          [deploymentName |-> s.gui[i].deployment,
           deployment |-> Deployment(s, s.gui[i].deployment),
           deposits |->
             [d \in DOMAIN s.gui[i].deposits |->
                [tokenName |-> s.gui[i].deposits[d].token,
                 token |-> Token(s, s.gui[i].deposits[d].token),
                 presets |-> s.gui[i].deposits[d].presets]],
           fields |-> s.gui[i].fields,
           selectTokens |-> s.gui[i].selectTokens]]

(* What TryFrom<ConfigSource> accepts, and what it makes of it *)
Resolvable(s) ==
  /\ \A n \in DOMAIN s.orderbooks : OrderbookResolves(s, n)
  /\ \A n \in DOMAIN s.tokens : TokenResolves(s, n)
  /\ \A n \in DOMAIN s.deployers : DeployerResolves(s, n)
  /\ \A n \in DOMAIN s.orders : OrderResolves(s, n)
  /\ ScenariosResolve(s)
  /\ \A n \in DOMAIN s.deployments : DeploymentResolves(s, n)
  /\ \A n \in DOMAIN s.charts : ChartScenario(s, n) \in DOMAIN s.scenarios
  /\ GuiResolves(s)

Config(s) ==
  [networks |-> [n \in DOMAIN s.networks |-> Network(s, n)],
   subgraphs |-> s.subgraphs,
   metaboards |-> s.metaboards,
   orderbooks |-> [n \in DOMAIN s.orderbooks |-> Orderbook(s, n)],
   tokens |-> [n \in DOMAIN s.tokens |-> Token(s, n)],
   deployers |-> [n \in DOMAIN s.deployers |-> Deployer(s, n)],
   orders |-> [n \in DOMAIN s.orders |-> Order(s, n)],
   scenarios |-> [p \in DOMAIN s.scenarios |-> Scenario(s, p)],
   deployments |-> [n \in DOMAIN s.deployments |-> Deployment(s, n)],
   charts |-> [n \in DOMAIN s.charts |->
                 [scenario |-> Scenario(s, ChartScenario(s, n))]],
   sentry |-> s.sentry,
   accounts |-> s.accounts,
   raindexVersion |-> s.raindexVersion,
   gui |-> Gui(s)]

-----------------------------------------------------------------------------
(* The sources that the updates of a DotrainOrder make *)

WithBindings(s, p, bindings) == [s EXCEPT !.scenarios[p].bindings = bindings]

(* Mutation: vault ids are filled in whether they were set or not.         *)
FilledOver(io, id) == [i \in DOMAIN io |-> [io[i] EXCEPT !.vaultId = id]]

Filled(io, id) ==
  [i \in DOMAIN io |->
     IF io[i].vaultId = None THEN [io[i] EXCEPT !.vaultId = id] ELSE io[i]]

WithVaultIds(s, o, id) ==
  [s EXCEPT !.orders[o].inputs = Filled(@, id),
            !.orders[o].outputs = Filled(@, id)]

WithTokenAddress(s, t, address) == [s EXCEPT !.tokens[t].address = address]

WithVaultId(s, o, side, i, id) == [s EXCEPT !.orders[o][side][i].vaultId = id]

=============================================================================
