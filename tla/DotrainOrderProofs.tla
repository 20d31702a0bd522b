------------------------- MODULE DotrainOrderProofs -------------------------
(***************************************************************************)
(* A DotrainOrder loses nothing of what it is made from, and its updates   *)
(* keep its configuration consistent, for all documents, lists, paths of   *)
(* scenarios and numbers of updates. And a filter makes what was asked for *)
(* and nothing else, for all configurations and deployments.               *)
(***************************************************************************)
EXTENDS Dotrain, SettingsProofs

-----------------------------------------------------------------------------
(* Networks *)

LEMMA JoinedFacts ==
  ASSUME NEW f, NEW g
  PROVE  /\ DOMAIN Joined(f, g) = DOMAIN f \cup DOMAIN g
         /\ \A k \in DOMAIN f : Joined(f, g)[k] = f[k]
         /\ \A k \in DOMAIN g \ DOMAIN f : Joined(f, g)[k] = g[k]
BY DEF Joined

LEMMA JoinedSaid ==
  ASSUME NEW f, NEW g, DOMAIN f \cap DOMAIN g = {}
  PROVE  Said(Joined(f, g)) = Said(f) \cup Said(g)
<1> DEFINE j == Joined(f, g)
<1>1. DOMAIN j = DOMAIN f \cup DOMAIN g
  BY DEF Joined
<1>2. \A k \in DOMAIN f : j[k] = f[k]
  BY DEF Joined
<1>3. \A k \in DOMAIN g : j[k] = g[k]
  BY DEF Joined
<1> HIDE DEF j
<1>4. Said(j) = {<<n, j[n].rpc>> : n \in DOMAIN f}
                  \cup {<<n, j[n].rpc>> : n \in DOMAIN g}
  BY <1>1 DEF Said
<1>5. {<<n, j[n].rpc>> : n \in DOMAIN f} = Said(f)
  BY <1>2 DEF Said
<1>6. {<<n, j[n].rpc>> : n \in DOMAIN g} = Said(g)
  BY <1>3 DEF Said
<1> QED BY <1>4, <1>5, <1>6 DEF j

(* A supported chain has a first usable address.                           *)
LEMMA ChainNetworkType ==
  ASSUME NEW c \in Chain, Supported(c)
  PROVE  ChainNetwork(c) \in NetworkSource
<1>1. c.rpc \in Seq([url : STRING, usable : BOOLEAN])
  BY DEF Chain
<1>2. UsableRpcs(c) \in SUBSET Nat /\ UsableRpcs(c) # {}
  BY <1>1 DEF UsableRpcs, Supported
<1>3. \E i \in UsableRpcs(c) : \A j \in UsableRpcs(c) : i <= j
  BY <1>2, Least
<1> DEFINE first == CHOOSE i \in UsableRpcs(c) :
                      \A j \in UsableRpcs(c) : i <= j
<1>4. first \in UsableRpcs(c)
  BY <1>3
<1> HIDE DEF first
<1>5. c.rpc[first] \in [url : STRING, usable : BOOLEAN]
  <2> DEFINE R == [url : STRING, usable : BOOLEAN]
             rpc == c.rpc
  <2>1. first \in DOMAIN rpc
    BY <1>4 DEF UsableRpcs
  <2>2. rpc \in Seq(R)
    BY <1>1
  <2> HIDE DEF R, rpc
  <2>3. rpc[first] \in R
    BY <2>1, <2>2
  <2> QED BY <2>3 DEF R, rpc
<1> QED BY <1>5 DEF ChainNetwork, NetworkSource, first

(* Two networks, a list and the chains in it, of which none conflicts: the *)
(* networks are those there were and all that the list offers.             *)
LEMMA WithChainsFacts ==
  ASSUME NEW networks, NEW chains \in Seq(Chain),
         \A n \in DOMAIN networks : networks[n] \in NetworkSource,
         ~ConflictingNetworks(networks, chains)
  PROVE  /\ \A n \in DOMAIN WithChains(networks, chains) :
              WithChains(networks, chains)[n] \in NetworkSource
         /\ Said(WithChains(networks, chains)) = Said(networks) \cup
              {<<c.shortName, ChainNetwork(c).rpc>> :
                 c \in {d \in Elements(chains) : Supported(d)}}
<1> DEFINE added == {chains[i].shortName :
                       i \in {j \in DOMAIN chains : Supported(chains[j])}}
           chain(n) == CHOOSE c \in {chains[i] : i \in DOMAIN chains} :
                         c.shortName = n /\ Supported(c)
           new == [n \in added |-> ChainNetwork(chain(n))]
           supported == {d \in Elements(chains) : Supported(d)}
<1>1. WithChains(networks, chains) = Joined(networks, new)
  BY DEF WithChains
<1>2. \A i \in DOMAIN chains : chains[i] \in Chain
  OBVIOUS
<1>3. ASSUME NEW i \in DOMAIN chains, NEW j \in DOMAIN chains,
             Supported(chains[i]), Supported(chains[j]),
             chains[i].shortName = chains[j].shortName
      PROVE  i = j
  <2>1. i \in Nat /\ j \in Nat /\ i >= 1 /\ j >= 1
    OBVIOUS
  <2>2. CASE i < j
    <3>1. i \in 1..(j - 1)
      BY <2>1, <2>2
    <3> QED BY <1>3, <3>1 DEF ConflictingNetworks
  <2>3. CASE j < i
    <3>1. j \in 1..(i - 1)
      BY <2>1, <2>3
    <3> QED BY <1>3, <3>1 DEF ConflictingNetworks
  <2> QED BY <2>1, <2>2, <2>3
<1>4. ASSUME NEW i \in DOMAIN chains, Supported(chains[i])
      PROVE  chain(chains[i].shortName) = chains[i]
  <2>1. \A c \in {chains[j] : j \in DOMAIN chains} :
          c.shortName = chains[i].shortName /\ Supported(c) => c = chains[i]
    BY <1>3, <1>4
  <2>2. chains[i] \in {chains[j] : j \in DOMAIN chains}
    OBVIOUS
  <2> QED BY <1>4, <2>1, <2>2
<1>5. \A n \in added : n \notin DOMAIN networks
  BY DEF ConflictingNetworks
<1>6. \A c \in supported : /\ c \in Chain /\ c.shortName \in added
                           /\ new[c.shortName] = ChainNetwork(c)
                           /\ ChainNetwork(c) \in NetworkSource
  <2> SUFFICES ASSUME NEW c \in supported
               PROVE  /\ c \in Chain /\ c.shortName \in added
                      /\ new[c.shortName] = ChainNetwork(c)
                      /\ ChainNetwork(c) \in NetworkSource
    OBVIOUS
  <2>1. PICK i \in DOMAIN chains : c = chains[i] /\ Supported(chains[i])
    BY DEF Elements
  <2>2. c.shortName \in added
    BY <2>1
  <2>3. chain(c.shortName) = c
    BY <1>4, <2>1
  <2> HIDE DEF chain
  <2> QED BY <1>2, <2>1, <2>2, <2>3, ChainNetworkType
<1>7. \A n \in added : \E c \in supported : n = c.shortName
  BY DEF Elements
<1> HIDE DEF added, new, supported
<1>8. DOMAIN new = added
  BY DEF new
<1>9. ASSUME NEW n \in DOMAIN Joined(networks, new)
      PROVE  Joined(networks, new)[n] \in NetworkSource
  <2>1. CASE n \in DOMAIN networks
    BY <2>1 DEF Joined
  <2>2. CASE n \notin DOMAIN networks
    <3>1. n \in added /\ Joined(networks, new)[n] = new[n]
      BY <1>8, <1>9, <2>2 DEF Joined
    <3> QED BY <1>6, <1>7, <3>1
  <2> QED BY <2>1, <2>2
<1>10. Said(Joined(networks, new)) = Said(networks) \cup
         {<<c.shortName, ChainNetwork(c).rpc>> : c \in supported}
  <2>1. Said(Joined(networks, new)) = Said(networks) \cup Said(new)
    BY <1>5, <1>8, JoinedSaid
  <2>2. Said(new) = {<<c.shortName, ChainNetwork(c).rpc>> : c \in supported}
    BY <1>6, <1>7, <1>8 DEF Said
  <2> QED BY <2>1, <2>2
<1> QED BY <1>1, <1>9, <1>10 DEF supported

-----------------------------------------------------------------------------
(* The merge *)

(* The section f of a merge has the entries of both.                       *)
LEMMA MergedSection ==
  ASSUME NEW a, NEW b, IsSource(a), NEW f \in Sections, ~MergeCollides(a, b)
  PROVE  /\ Merged(a, b)[f] = Joined(b[f], a[f])
         /\ DOMAIN Merged(a, b)[f] = DOMAIN a[f] \cup DOMAIN b[f]
         /\ \A n \in DOMAIN a[f] : Merged(a, b)[f][n] = a[f][n]
         /\ \A n \in DOMAIN b[f] : Merged(a, b)[f][n] = b[f][n]
<1>1. f \in DOMAIN a
  BY DEF IsSource, SourceFields
<1>2. Merged(a, b)[f] = Joined(b[f], a[f])
  BY <1>1 DEF Merged, Sections
<1>3. DOMAIN a[f] \cap DOMAIN b[f] = {}
  BY DEF MergeCollides, SameSection
<1> HIDE DEF Merged
<1> QED BY <1>2, <1>3 DEF Joined

LEMMA MergedSource ==
  ASSUME NEW a, NEW b, IsSource(a), IsSource(b), ~MergeCollides(a, b)
  PROVE  IsSource(Merged(a, b))
<1> DEFINE m == Merged(a, b)
<1>1. DOMAIN m = SourceFields
  BY DEF Merged, IsSource
<1>2. \A f \in Sections :
        /\ DOMAIN m[f] = DOMAIN a[f] \cup DOMAIN b[f]
        /\ \A n \in DOMAIN a[f] : m[f][n] = a[f][n]
        /\ \A n \in DOMAIN b[f] : m[f][n] = b[f][n]
  BY MergedSection
<1> HIDE DEF m
<1>3. \A n \in DOMAIN m.networks : m.networks[n] \in NetworkSource
  BY <1>2 DEF Sections, IsSource
<1>4. \A n \in DOMAIN m.usingNetworksFrom :
        m.usingNetworksFrom[n] \in RemoteSource
  BY <1>2 DEF Sections, IsSource
<1>5. \A n \in DOMAIN m.orderbooks : m.orderbooks[n] \in OrderbookSource
  BY <1>2 DEF Sections, IsSource
<1>6. \A n \in DOMAIN m.tokens : m.tokens[n] \in TokenSource
  BY <1>2 DEF Sections, IsSource
<1>7. \A n \in DOMAIN m.deployers : m.deployers[n] \in DeployerSource
  BY <1>2 DEF Sections, IsSource
<1>8. \A n \in DOMAIN m.orders : m.orders[n] \in OrderSource
  BY <1>2 DEF Sections, IsSource
<1>9. \A n \in DOMAIN m.charts : m.charts[n] \in ChartSource
  BY <1>2 DEF Sections, IsSource
<1>10. \A n \in DOMAIN m.deployments : m.deployments[n] \in DeploymentSource
  BY <1>2 DEF Sections, IsSource
<1>11. \A p \in DOMAIN m.scenarios :
         /\ p \in Seq(STRING) /\ p # <<>>
         /\ Around(p) \subseteq DOMAIN m.scenarios
         /\ DOMAIN m.scenarios[p] = {"deployer", "bindings"}
         /\ m.scenarios[p].deployer \in Opt(STRING)
  BY <1>2 DEF Sections, IsSource
<1> QED BY <1>1, <1>3, <1>4, <1>5, <1>6, <1>7, <1>8, <1>9, <1>10, <1>11
        DEF IsSource, m

-----------------------------------------------------------------------------
(* What a configuration holds *)

(* The networks of an order's parts are finitely many, and so a single one *)
(* when there is one of them.                                              *)
LEMMA SingleNetwork ==
  ASSUME NEW s, IsSource(s), NEW n \in DOMAIN s.orders, OrderResolves(s, n)
  PROVE  \A net \in OrderNetworks(s, s.orders[n]) : Order(s, n).network = net
<1> DEFINE o == s.orders[n]
           N == OrderNetworks(s, o)
           in(io) == [i \in DOMAIN io |-> Token(s, io[i].token).network]
           F(io) == {Token(s, io[i].token).network : i \in DOMAIN io}
<1>1. o \in OrderSource
  BY DEF IsSource
<1>2. ASSUME NEW io \in Seq(IOSource)
      PROVE  IsFiniteSet(F(io))
  <2>1. DOMAIN io = 1..Len(io) /\ IsFiniteSet(1..Len(io))
    BY FS_Interval
  <2>2. in(io) \in Surjection(DOMAIN io, F(io))
    BY DEF Surjection
  <2> QED BY <2>1, <2>2, FS_Surjection
<1>3. IsFiniteSet(F(o.inputs)) /\ IsFiniteSet(F(o.outputs))
  BY <1>1, <1>2 DEF OrderSource
<1>4. IsFiniteSet({}) /\ \A x : IsFiniteSet({x})
  BY FS_EmptySet, FS_Singleton
<1>5. IsFiniteSet({Deployer(s, m).network : m \in {o.deployer} \ {None}})
  <2> DEFINE D == {Deployer(s, m).network : m \in {o.deployer} \ {None}}
  <2>1. D = {} \/ D = {Deployer(s, o.deployer).network}
    OBVIOUS
  <2>2. IsFiniteSet(D)
    <3> HIDE DEF D
    <3> QED BY <1>4, <2>1
  <2> QED BY <2>2
<1>6. IsFiniteSet({Orderbook(s, m).network : m \in {o.orderbook} \ {None}})
  <2> DEFINE B == {Orderbook(s, m).network : m \in {o.orderbook} \ {None}}
  <2>1. B = {} \/ B = {Orderbook(s, o.orderbook).network}
    OBVIOUS
  <2>2. IsFiniteSet(B)
    <3> HIDE DEF B
    <3> QED BY <1>4, <2>1
  <2> QED BY <2>2
<1>7. {Token(s, m).network : m \in IOTokens(o)} = F(o.inputs) \cup F(o.outputs)
  BY DEF IOTokens
<1>8. IsFiniteSet(N)
  BY <1>3, <1>5, <1>6, <1>7, FS_Union DEF OrderNetworks
<1>9. Cardinality(N) = 1
  BY DEF OrderResolves
<1>10. PICK x : N = {x}
  BY <1>8, <1>9, FS_Singleton
<1>11. Order(s, n).network = CHOOSE net \in N : TRUE
  BY DEF Order
<1> HIDE DEF N
<1> QED BY <1>10, <1>11 DEF N

LEMMA ConfiguredOrder ==
  ASSUME NEW s, IsSource(s), NEW n \in DOMAIN s.orders, OrderResolves(s, n)
  PROVE  OnOneNetwork(Order(s, n))
<1> DEFINE o == s.orders[n]
           c == Order(s, n)
<1>1. \A net \in OrderNetworks(s, o) : c.network = net
  BY SingleNetwork
<1>2. /\ c.inputs = OrderIO(s, o.inputs)
      /\ c.outputs = OrderIO(s, o.outputs)
      /\ c.deployer = IF o.deployer = None THEN None ELSE Deployer(s, o.deployer)
      /\ c.orderbook = IF o.orderbook = None THEN None
                       ELSE Orderbook(s, o.orderbook)
  BY DEF Order
<1> HIDE DEF c, o
<1>3. ASSUME NEW io \in Elements(c.inputs)
      PROVE  io.token.network = c.network
  <2>1. PICK i \in DOMAIN o.inputs : io.token = Token(s, o.inputs[i].token)
    BY <1>2 DEF Elements, OrderIO
  <2>2. o.inputs[i].token \in IOTokens(o)
    BY DEF IOTokens
  <2> QED BY <1>1, <2>1, <2>2 DEF OrderNetworks
<1>4. ASSUME NEW io \in Elements(c.outputs)
      PROVE  io.token.network = c.network
  <2>1. PICK i \in DOMAIN o.outputs : io.token = Token(s, o.outputs[i].token)
    BY <1>2 DEF Elements, OrderIO
  <2>2. o.outputs[i].token \in IOTokens(o)
    BY DEF IOTokens
  <2> QED BY <1>1, <2>1, <2>2 DEF OrderNetworks
<1>5. c.orderbook # None => c.orderbook.network = c.network
  BY <1>1, <1>2 DEF OrderNetworks
<1>6. c.deployer # None => c.deployer.network = c.network
  BY <1>1, <1>2 DEF OrderNetworks
<1> QED BY <1>3, <1>4, <1>5, <1>6 DEF OnOneNetwork, c

LEMMA ConfiguredDeployment ==
  ASSUME NEW s, NEW n \in DOMAIN s.deployments, DeploymentResolves(s, n)
  PROVE  /\ s.deployments[n].scenario \in DOMAIN s.scenarios
         /\ s.deployments[n].order \in DOMAIN s.orders
         /\ Deployment(s, n).order.deployer
              \in {None, Deployment(s, n).scenario.deployer}
BY DEF DeploymentResolves, Deployment, Scenario, Order

(* A scenario has the bindings of the one that it is in.                   *)
LEMMA ConfiguredScenario ==
  ASSUME NEW s, IsSource(s), NoneShadowed(s),
         NEW p \in DOMAIN s.scenarios, Len(p) > 1
  PROVE  Inherited(Scenario(s, Front(p)), Scenario(s, p))
<1> DEFINE f == Front(p)
           inF(k) == SayingBinding(s, f, k)
           inP(k) == SayingBinding(s, p, k)
<1>1. p \in Seq(STRING)
  BY DEF IsSource
<1>2. /\ f \in Seq(STRING) /\ Around(p) = Around(f) \cup {p}
      /\ \A q \in Around(f) : Len(q) < Len(p)
  BY <1>1, AroundChild
<1> HIDE DEF f
<1>3. ASSUME NEW k \in DOMAIN ScenarioBindings(s, f)
      PROVE  /\ k \in DOMAIN ScenarioBindings(s, p)
             /\ ScenarioBindings(s, p)[k] = ScenarioBindings(s, f)[k]
  <2>1. k \in UNION {DOMAIN OwnBindings(s, q) : q \in Around(f)}
    BY DEF ScenarioBindings
  <2>2. k \in UNION {DOMAIN OwnBindings(s, q) : q \in Around(p)}
    BY <1>2, <2>1
  <2>3. /\ ScenarioBindings(s, f)[k] = OwnBindings(s, Innermost(inF(k)))[k]
        /\ ScenarioBindings(s, p)[k] = OwnBindings(s, Innermost(inP(k)))[k]
    BY <2>1, <2>2 DEF ScenarioBindings
  <2>4. CASE k \in DOMAIN OwnBindings(s, p)
    <3>1. OwnBindings(s, p)[k] = ScenarioBindings(s, f)[k]
      BY <2>4 DEF NoneShadowed, f
    <3>2. p \in inP(k)
      BY <1>2, <2>4 DEF SayingBinding
    <3>3. Innermost(inP(k)) \in inP(k) /\ Len(p) <= Len(Innermost(inP(k)))
      <4>1. inP(k) \in SUBSET Around(p) /\ inP(k) # {}
        BY <3>2 DEF SayingBinding
      <4> HIDE DEF inP
      <4> QED BY <1>1, <3>2, <4>1, InnermostFacts
    <3>4. Innermost(inP(k)) \in Around(p)
      BY <3>3 DEF SayingBinding
    <3>5. Innermost(inP(k)) = p
      <4>1. \A q \in Around(f) : Len(q) \in Nat
        BY <1>2, AroundFacts
      <4>2. Len(p) \in Nat
        BY <1>1
      <4> QED BY <1>2, <3>3, <3>4, <4>1, <4>2
    <3> QED BY <2>2, <2>3, <3>1, <3>5 DEF ScenarioBindings
  <2>5. CASE k \notin DOMAIN OwnBindings(s, p)
    <3>1. inP(k) = inF(k)
      BY <1>2, <2>5 DEF SayingBinding
    <3> QED BY <2>2, <2>3, <3>1 DEF ScenarioBindings
  <2> QED BY <2>4, <2>5
<1>4. /\ Scenario(s, f).bindings = ScenarioBindings(s, f)
      /\ Scenario(s, p).bindings = ScenarioBindings(s, p)
  BY DEF Scenario
<1> QED BY <1>3, <1>4 DEF Inherited, f

(* Without any bindings a source resolves, if it does but for them.        *)
LEMMA BindingsDropped ==
  ASSUME NEW s, IsSource(s), ResolvesButBindings(s)
  PROVE  Resolvable([s EXCEPT !.scenarios =
           [p \in DOMAIN s.scenarios |->
              [s.scenarios[p] EXCEPT !.bindings = <<>>]]])
<1> DEFINE new == [p \in DOMAIN s.scenarios |->
                     [s.scenarios[p] EXCEPT !.bindings = <<>>]]
           t == [s EXCEPT !.scenarios = new]
<1>1. DOMAIN s = SourceFields /\ "scenarios" \in SourceFields
  BY DEF IsSource, SourceFields, Sections
<1>2. /\ t.scenarios = new
      /\ \A f \in SourceFields \ {"scenarios"} : t[f] = s[f]
  BY <1>1
<1>3. \A p \in DOMAIN s.scenarios :
        /\ new[p].bindings = <<>>
        /\ new[p].deployer = s.scenarios[p].deployer
  BY DEF IsSource
<1>4. DOMAIN new = DOMAIN s.scenarios
  OBVIOUS
<1> HIDE DEF t, new
<1>5. Alike(s, t)
  BY <1>2, <1>3, <1>4 DEF Alike, SourceFields, Sections
<1>6. NoneShadowed(t)
  <2>1. \A p \in DOMAIN t.scenarios : DOMAIN OwnBindings(t, p) = {}
    BY <1>2, <1>3, <1>4 DEF OwnBindings
  <2> QED BY <2>1 DEF NoneShadowed
<1> QED BY <1>5, <1>6, AlikeResolves, ResolvableFacts DEF t, new

-----------------------------------------------------------------------------
(* The inductive invariant *)

(* The configuration c holds everything its document does, or its lists.   *)
Keeps(c) == NetworksLoaded(c) /\ NothingOverwritten(c)

(* The inputs or outputs io with other vault ids, perhaps.                 *)
GivenIO(io, new) ==
  /\ DOMAIN new = DOMAIN io
  /\ \A i \in DOMAIN io :
       /\ new[i].token = io[i].token
       /\ new[i].vaultId \in {io[i].vaultId} \cup VaultIds

(* The source t has what s has but for what updates give.                  *)
Updated(s, t) ==
  /\ \A n \in DOMAIN s.tokens :
       t.tokens[n].address \in {s.tokens[n].address} \cup Addresses
  /\ \A n \in DOMAIN s.orders :
       /\ GivenIO(s.orders[n].inputs, t.orders[n].inputs)
       /\ GivenIO(s.orders[n].outputs, t.orders[n].outputs)
  /\ \A p \in DOMAIN s.scenarios :
       t.scenarios[p].bindings \in {s.scenarios[p].bindings} \cup NewBindings

NotUpdated == {"subgraphs", "metaboards", "orderbooks", "deployers", "charts",
               "deployments"}

(* The source s is part of t, but for what updates give.                   *)
Held(s, t) ==
  /\ \A f \in NotUpdated : \A n \in DOMAIN s[f] :
       n \in DOMAIN t[f] /\ t[f][n] = s[f][n]
  /\ \A n \in DOMAIN s.tokens :
       n \in DOMAIN t.tokens /\ t.tokens[n].network = s.tokens[n].network
  /\ \A n \in DOMAIN s.orders :
       /\ n \in DOMAIN t.orders
       /\ t.orders[n].deployer = s.orders[n].deployer
       /\ t.orders[n].orderbook = s.orders[n].orderbook
  /\ \A p \in DOMAIN s.scenarios :
       /\ p \in DOMAIN t.scenarios
       /\ t.scenarios[p].deployer = s.scenarios[p].deployer
  /\ s.accounts # None => \A n \in DOMAIN s.accounts :
       n \in DOMAIN t.accounts /\ t.accounts[n] = s.accounts[n]
  /\ s.sentry # None => t.sentry = s.sentry
  /\ Updated(s, t)

(* So does the source, from which the configuration has it.                *)
KeepsSource(t) ==
  /\ NetworksLoaded(t)
  /\ Held(doc.main, t) /\ Held(doc.top, t)

(* What the properties say of a configuration, whatever it is made from.   *)
Consistent(c) ==
  /\ \A n \in DOMAIN c.orders : OnOneNetwork(c.orders[n])
  /\ \A n \in DOMAIN c.deployments :
       c.deployments[n].order.deployer
         \in {None, c.deployments[n].scenario.deployer}
  /\ \A p \in DOMAIN c.scenarios :
       Len(p) > 1 => Inherited(c.scenarios[Front(p)], c.scenarios[p])

(* The source x is d with the lists R fetched.                             *)
Fetched(d, x, R) ==
  /\ IsSource(d) /\ IsSource(x)
  /\ \A f \in SourceFields \ {"networks"} : x[f] = d[f]
  /\ Said(x.networks) = Said(d.networks) \cup Offered(d, R)

FetchedAll(d, x) == Fetched(d, x, DOMAIN d.usingNetworksFrom)

Fetching(d, x) ==
  /\ pending \subseteq DOMAIN d.usingNetworksFrom
  /\ Fetched(d, x, DOMAIN d.usingNetworksFrom \ pending)

MainInv == Fetching(doc.main, source) /\ top = doc.top

TopInv == FetchedAll(doc.main, source) /\ Fetching(doc.top, top)

(* The configuration is the one the source converts to, if it does. When   *)
(* bindings stop it from converting, it still would without them.          *)
ReadyInv ==
  /\ KeepsSource(source) /\ Keeps(config)
  /\ ResolvesButBindings(source)
  /\ Resolvable(source) => config = Config(source)
  /\ Consistent(config)

Inv ==
  /\ TypeOK
  /\ stage = "main" => MainInv
  /\ stage = "top" => TopInv
  /\ stage = "ready" => ReadyInv

-----------------------------------------------------------------------------
(* What fetching, merging, converting and updating keep *)

LEMMA FetchedOne ==
  ASSUME NEW d, NEW x, NEW R, Fetched(d, x, R),
         NEW r, NEW chains \in Seq(Chain),
         chains = Lists[d.usingNetworksFrom[r].url],
         ~ConflictingNetworks(x.networks, chains)
  PROVE  LET y == [x EXCEPT !.networks = WithChains(x.networks, chains)]
         IN  Fetched(d, y, R \cup {r})
<1> DEFINE new == WithChains(x.networks, chains)
           y == [x EXCEPT !.networks = new]
           offer(q) == Lists[d.usingNetworksFrom[q].url]
<1>1. /\ IsSource(d) /\ IsSource(x)
      /\ \A f \in SourceFields \ {"networks"} : x[f] = d[f]
      /\ Said(x.networks) = Said(d.networks) \cup Offered(d, R)
  BY DEF Fetched
<1>2. \A n \in DOMAIN x.networks : x.networks[n] \in NetworkSource
  BY <1>1 DEF IsSource
<1>3. /\ \A n \in DOMAIN new : new[n] \in NetworkSource
      /\ Said(new) = Said(x.networks) \cup
           {<<c.shortName, ChainNetwork(c).rpc>> :
              c \in {e \in Elements(chains) : Supported(e)}}
  BY <1>2, WithChainsFacts
<1> HIDE DEF new
<1>4. DOMAIN x = SourceFields /\ "networks" \in SourceFields
  BY <1>1 DEF IsSource, SourceFields, Sections
<1>5. /\ DOMAIN y = SourceFields /\ y.networks = new
      /\ \A f \in SourceFields \ {"networks"} : y[f] = x[f]
  BY <1>4
<1> HIDE DEF y
<1>6. IsSource(y)
  <2>1. /\ y.usingNetworksFrom = x.usingNetworksFrom
        /\ y.orderbooks = x.orderbooks /\ y.tokens = x.tokens
        /\ y.deployers = x.deployers /\ y.orders = x.orders
        /\ y.charts = x.charts /\ y.deployments = x.deployments
        /\ y.scenarios = x.scenarios
    BY <1>5 DEF SourceFields, Sections
  <2> QED BY <1>1, <1>3, <1>5, <2>1 DEF IsSource
<1>7. Offered(d, R \cup {r}) = Offered(d, R) \cup
        {<<c.shortName, ChainNetwork(c).rpc>> :
           c \in {e \in Elements(chains) : Supported(e)}}
  <2>1. UNION {Elements(offer(q)) : q \in R \cup {r}}
          = (UNION {Elements(offer(q)) : q \in R}) \cup Elements(chains)
    OBVIOUS
  <2> QED BY <2>1 DEF Offered
<1> QED BY <1>1, <1>3, <1>5, <1>6, <1>7 DEF Fetched, y, new

LEMMA MergedKeeps ==
  ASSUME IsSource(doc.main), IsSource(doc.top),
         FetchedAll(doc.main, source), FetchedAll(doc.top, top),
         ~MergeCollides(source, top)
  PROVE  KeepsSource(Merged(source, top))
<1> DEFINE m == Merged(source, top)
<1>1. IsSource(source)
  BY DEF FetchedAll, Fetched
<1>2. \A f \in Sections :
        /\ m[f] = Joined(top[f], source[f])
        /\ DOMAIN m[f] = DOMAIN source[f] \cup DOMAIN top[f]
        /\ \A n \in DOMAIN source[f] : m[f][n] = source[f][n]
        /\ \A n \in DOMAIN top[f] : m[f][n] = top[f][n]
  BY <1>1, MergedSection
<1>3. Said(m.networks) = WithOffers(doc.main) \cup WithOffers(doc.top)
  <2>1. DOMAIN source.networks \cap DOMAIN top.networks = {}
    BY DEF MergeCollides, SameSection, Sections
  <2>2. m.networks = Joined(top.networks, source.networks)
    BY <1>2 DEF Sections
  <2>3. Said(m.networks) = Said(top.networks) \cup Said(source.networks)
    BY <2>1, <2>2, JoinedSaid
  <2> QED BY <2>3 DEF FetchedAll, Fetched, WithOffers
<1>4. ASSUME NEW s \in {doc.main, doc.top}, NEW f \in Sections \ {"networks"}
      PROVE  \A n \in DOMAIN s[f] : n \in DOMAIN m[f] /\ m[f][n] = s[f][n]
  <2>1. f \in SourceFields \ {"networks"}
    BY DEF SourceFields
  <2>2. source[f] = doc.main[f] /\ top[f] = doc.top[f]
    BY <2>1 DEF FetchedAll, Fetched
  <2> QED BY <1>2, <2>2
<1>5. /\ source.accounts = doc.main.accounts
      /\ top.accounts = doc.top.accounts
  BY DEF FetchedAll, Fetched, SourceFields, Sections
<1>6. m.accounts = IF source.accounts = None THEN top.accounts
                   ELSE IF top.accounts = None THEN source.accounts
                   ELSE Joined(source.accounts, top.accounts)
  BY <1>1 DEF Merged, IsSource, SourceFields, Sections
<1>7. source.accounts # None /\ top.accounts # None =>
        DOMAIN source.accounts \cap DOMAIN top.accounts = {}
  BY DEF MergeCollides, AccountsCollision
<1> HIDE DEF m
<1>8. ASSUME NEW s \in {doc.main, doc.top}, s.accounts # None,
             NEW n \in DOMAIN s.accounts
      PROVE  n \in DOMAIN m.accounts /\ m.accounts[n] = s.accounts[n]
  <2> DEFINE a == source.accounts
             b == top.accounts
             j == Joined(a, b)
  <2>1. /\ DOMAIN j = DOMAIN a \cup DOMAIN b
        /\ \A k \in DOMAIN a : j[k] = a[k]
        /\ \A k \in DOMAIN b \ DOMAIN a : j[k] = b[k]
    BY JoinedFacts
  <2>2. s.accounts = a \/ s.accounts = b
    BY <1>5
  <2> HIDE DEF a, b, j
  <2>3. m.accounts = IF a = None THEN b ELSE IF b = None THEN a ELSE j
    BY <1>6 DEF a, b, j
  <2>4. a # None /\ b # None => DOMAIN a \cap DOMAIN b = {}
    BY <1>7 DEF a, b
  <2> QED BY <1>8, <2>1, <2>2, <2>3, <2>4
<1>9. ASSUME NEW s \in {doc.main, doc.top}
      PROVE  s.sentry # None => m.sentry = s.sentry
  <2>1. source.sentry = doc.main.sentry /\ top.sentry = doc.top.sentry
    BY DEF FetchedAll, Fetched, SourceFields, Sections
  <2>2. m.sentry = IF source.sentry # None THEN source.sentry ELSE top.sentry
    BY <1>1 DEF Merged, IsSource, SourceFields, Sections, m
  <2>3. source.sentry = None \/ top.sentry = None
    BY DEF MergeCollides, SentryCollision
  <2> QED BY <2>1, <2>2, <2>3
<1>10. ASSUME NEW s \in {doc.main, doc.top}
       PROVE  Held(s, m)
  <2>1. /\ \A n \in DOMAIN s.tokens :
             n \in DOMAIN m.tokens /\ m.tokens[n] = s.tokens[n]
        /\ \A n \in DOMAIN s.orders :
             n \in DOMAIN m.orders /\ m.orders[n] = s.orders[n]
        /\ \A p \in DOMAIN s.scenarios :
             p \in DOMAIN m.scenarios /\ m.scenarios[p] = s.scenarios[p]
    BY <1>4 DEF Sections
  <2>2. \A f \in NotUpdated : \A n \in DOMAIN s[f] :
          n \in DOMAIN m[f] /\ m[f][n] = s[f][n]
    BY <1>4 DEF NotUpdated, Sections
  <2>3. Updated(s, m)
    BY <2>1 DEF Updated, GivenIO
  <2> QED BY <1>8, <1>9, <2>1, <2>2, <2>3 DEF Held
<1> QED BY <1>3, <1>10 DEF KeepsSource, NetworksLoaded, m

(* What a scenario says itself comes before what is said around it.        *)
LEMMA OwnFirst ==
  ASSUME NEW t, IsSource(t), NEW p \in DOMAIN t.scenarios
  PROVE  /\ t.scenarios[p].deployer \in DOMAIN t.deployers \ {None} =>
              ScenarioDeployer(t, p) = Deployer(t, t.scenarios[p].deployer)
         /\ \A k \in DOMAIN t.scenarios[p].bindings :
              /\ k \in DOMAIN ScenarioBindings(t, p)
              /\ ScenarioBindings(t, p)[k] = t.scenarios[p].bindings[k]
<1>1. p \in Seq(STRING) /\ p # <<>>
  BY DEF IsSource
<1>2. p \in Around(p) /\ \A q \in Around(p) : Len(q) <= Len(p)
  BY <1>1, AroundFacts
<1>3. ASSUME t.scenarios[p].deployer \in DOMAIN t.deployers \ {None}
      PROVE  ScenarioDeployer(t, p) = Deployer(t, t.scenarios[p].deployer)
  <2>1. DeployerName(t, p) = t.scenarios[p].deployer
    BY <1>3 DEF DeployerName
  <2>2. p \in Saying(t, p) /\ Saying(t, p) \in SUBSET Around(p)
    BY <1>2, <1>3, <2>1 DEF Saying
  <2>3. Innermost(Saying(t, p)) = p
    BY <1>1, <1>2, <2>2, InnermostIs
  <2> QED BY <2>1, <2>2, <2>3, SayingFacts
<1>4. ASSUME NEW k \in DOMAIN t.scenarios[p].bindings
      PROVE  /\ k \in DOMAIN ScenarioBindings(t, p)
             /\ ScenarioBindings(t, p)[k] = t.scenarios[p].bindings[k]
  <2> DEFINE S == SayingBinding(t, p, k)
  <2>1. p \in S /\ S \in SUBSET Around(p)
    BY <1>2 DEF SayingBinding, OwnBindings
  <2>2. Innermost(S) = p
    <3> HIDE DEF S
    <3> QED BY <1>1, <1>2, <2>1, InnermostIs
  <2>3. k \in UNION {DOMAIN OwnBindings(t, q) : q \in Around(p)}
    BY <1>2 DEF OwnBindings
  <2> QED BY <2>2, <2>3 DEF ScenarioBindings, OwnBindings
<1> QED BY <1>3, <1>4

(* What a source holds, its configuration keeps.                           *)
LEMMA ConfigHeld ==
  ASSUME NEW s, NEW t, Held(s, t), IsSource(t), Resolvable(t)
  PROVE  LET c == Config(t)
         IN  /\ PartsKept(s, c) /\ OrdersKept(s, c) /\ ScenariosKept(s, c)
             /\ \A n \in DOMAIN s.charts :
                  /\ n \in DOMAIN c.charts
                  /\ c.charts[n].scenario = c.scenarios[ChartScenario(s, n)]
             /\ \A n \in DOMAIN s.deployments :
                  /\ n \in DOMAIN c.deployments
                  /\ c.deployments[n].scenario
                       = c.scenarios[s.deployments[n].scenario]
                  /\ c.deployments[n].order = c.orders[s.deployments[n].order]
<1> DEFINE c == Config(t)
<1>1. /\ c.networks = [n \in DOMAIN t.networks |-> Network(t, n)]
      /\ c.subgraphs = t.subgraphs
      /\ c.orderbooks = [n \in DOMAIN t.orderbooks |-> Orderbook(t, n)]
      /\ c.tokens = [n \in DOMAIN t.tokens |-> Token(t, n)]
      /\ c.deployers = [n \in DOMAIN t.deployers |-> Deployer(t, n)]
      /\ c.orders = [n \in DOMAIN t.orders |-> Order(t, n)]
      /\ c.scenarios = [p \in DOMAIN t.scenarios |-> Scenario(t, p)]
      /\ c.deployments = [n \in DOMAIN t.deployments |-> Deployment(t, n)]
      /\ c.charts = [n \in DOMAIN t.charts |->
                       [scenario |-> Scenario(t, ChartScenario(t, n))]]
  BY DEF Config
<1> HIDE DEF c
<1>2. /\ \A n \in DOMAIN s.orderbooks :
           n \in DOMAIN t.orderbooks /\ t.orderbooks[n] = s.orderbooks[n]
      /\ \A n \in DOMAIN s.deployers :
           n \in DOMAIN t.deployers /\ t.deployers[n] = s.deployers[n]
      /\ \A n \in DOMAIN s.charts :
           n \in DOMAIN t.charts /\ t.charts[n] = s.charts[n]
      /\ \A n \in DOMAIN s.deployments :
           n \in DOMAIN t.deployments /\ t.deployments[n] = s.deployments[n]
  BY DEF Held, NotUpdated
<1>3. PartsKept(s, c)
  <2>1. ASSUME NEW n \in DOMAIN s.orderbooks
        PROVE  LET o == s.orderbooks[n]
               IN  /\ n \in DOMAIN c.orderbooks
                   /\ c.orderbooks[n] =
                        [address |-> o.address,
                         network |-> c.networks[Ref(o.network, n)],
                         subgraph |-> c.subgraphs[Ref(o.subgraph, n)]]
    BY <1>1, <1>2 DEF Resolvable, OrderbookResolves, Orderbook
  <2>2. ASSUME NEW n \in DOMAIN s.tokens
        PROVE  /\ n \in DOMAIN c.tokens
               /\ c.tokens[n].network = c.networks[s.tokens[n].network]
               /\ c.tokens[n].address \in {s.tokens[n].address} \cup Addresses
    BY <1>1 DEF Held, Updated, Resolvable, TokenResolves, Token
  <2>3. ASSUME NEW n \in DOMAIN s.deployers
        PROVE  LET d == s.deployers[n]
               IN  /\ n \in DOMAIN c.deployers
                   /\ c.deployers[n] =
                        [address |-> d.address, label |-> d.label,
                         network |-> c.networks[Ref(d.network, n)]]
    BY <1>1, <1>2 DEF Resolvable, DeployerResolves, Deployer
  <2> QED BY <2>1, <2>2, <2>3 DEF PartsKept
<1>4. OrdersKept(s, c)
  <2> SUFFICES ASSUME NEW n \in DOMAIN s.orders
               PROVE  /\ n \in DOMAIN c.orders
                      /\ IOKept(c, s.orders[n].inputs, c.orders[n].inputs)
                      /\ IOKept(c, s.orders[n].outputs, c.orders[n].outputs)
                      /\ s.orders[n].deployer # None =>
                           c.orders[n].deployer = c.deployers[s.orders[n].deployer]
                      /\ s.orders[n].orderbook # None =>
                           c.orders[n].orderbook
                             = c.orderbooks[s.orders[n].orderbook]
    BY DEF OrdersKept
  <2> DEFINE o == t.orders[n]
  <2>1. /\ n \in DOMAIN t.orders /\ OrderResolves(t, n)
        /\ o.deployer = s.orders[n].deployer
        /\ o.orderbook = s.orders[n].orderbook
        /\ GivenIO(s.orders[n].inputs, o.inputs)
        /\ GivenIO(s.orders[n].outputs, o.outputs)
    BY DEF Held, Updated, Resolvable
  <2>2. n \in DOMAIN c.orders /\ c.orders[n] = Order(t, n)
    BY <1>1, <2>1
  <2>3. /\ c.orders[n].inputs = OrderIO(t, o.inputs)
        /\ c.orders[n].outputs = OrderIO(t, o.outputs)
        /\ o.deployer # None => c.orders[n].deployer = Deployer(t, o.deployer)
        /\ o.orderbook # None => c.orders[n].orderbook = Orderbook(t, o.orderbook)
    BY <2>2 DEF Order
  <2>4. /\ o.deployer \in Opt(DOMAIN t.deployers)
        /\ o.orderbook \in Opt(DOMAIN t.orderbooks)
        /\ IOTokens(o) \subseteq DOMAIN t.tokens
    BY <2>1 DEF OrderResolves
  <2>5. /\ \A i \in DOMAIN o.inputs : o.inputs[i].token \in DOMAIN t.tokens
        /\ \A i \in DOMAIN o.outputs : o.outputs[i].token \in DOMAIN t.tokens
    BY <2>4 DEF IOTokens
  <2> HIDE DEF o
  <2>6. ASSUME NEW io, NEW new, GivenIO(io, new),
               \A i \in DOMAIN new : new[i].token \in DOMAIN t.tokens
        PROVE  IOKept(c, io, OrderIO(t, new))
    BY <1>1, <2>6 DEF GivenIO, IOKept, OrderIO
  <2>7. /\ IOKept(c, s.orders[n].inputs, c.orders[n].inputs)
        /\ IOKept(c, s.orders[n].outputs, c.orders[n].outputs)
    BY <2>1, <2>3, <2>5, <2>6
  <2> QED BY <1>1, <2>1, <2>2, <2>3, <2>4, <2>7 DEF Opt
<1>5. ScenariosKept(s, c)
  <2> SUFFICES ASSUME NEW p \in DOMAIN s.scenarios
               PROVE  /\ p \in DOMAIN c.scenarios
                      /\ s.scenarios[p].deployer \in DOMAIN c.deployers \ {None} =>
                           c.scenarios[p].deployer
                             = c.deployers[s.scenarios[p].deployer]
                      /\ \E b \in {s.scenarios[p].bindings} \cup NewBindings :
                           \A k \in DOMAIN b :
                             /\ k \in DOMAIN c.scenarios[p].bindings
                             /\ c.scenarios[p].bindings[k] = b[k]
    BY DEF ScenariosKept
  <2>1. /\ p \in DOMAIN t.scenarios
        /\ t.scenarios[p].deployer = s.scenarios[p].deployer
        /\ t.scenarios[p].bindings \in {s.scenarios[p].bindings} \cup NewBindings
    BY DEF Held, Updated
  <2>2. /\ p \in DOMAIN c.scenarios
        /\ c.scenarios[p].deployer = ScenarioDeployer(t, p)
        /\ c.scenarios[p].bindings = ScenarioBindings(t, p)
    BY <1>1, <2>1 DEF Scenario
  <2>3. s.scenarios[p].deployer \in DOMAIN c.deployers \ {None} =>
          c.scenarios[p].deployer = c.deployers[s.scenarios[p].deployer]
    <3>1. DOMAIN c.deployers = DOMAIN t.deployers
      BY <1>1
    <3> QED BY <1>1, <2>1, <2>2, <3>1, OwnFirst
  <2>4. \A k \in DOMAIN t.scenarios[p].bindings :
          /\ k \in DOMAIN c.scenarios[p].bindings
          /\ c.scenarios[p].bindings[k] = t.scenarios[p].bindings[k]
    BY <2>1, <2>2, OwnFirst
  <2> QED BY <2>1, <2>2, <2>3, <2>4
<1>6. ASSUME NEW n \in DOMAIN s.charts
      PROVE  /\ n \in DOMAIN c.charts
             /\ c.charts[n].scenario = c.scenarios[ChartScenario(s, n)]
  <2>1. ChartScenario(t, n) = ChartScenario(s, n)
    BY <1>2 DEF ChartScenario
  <2>2. ChartScenario(t, n) \in DOMAIN t.scenarios
    BY <1>2 DEF Resolvable
  <2> QED BY <1>1, <1>2, <2>1, <2>2
<1>7. ASSUME NEW n \in DOMAIN s.deployments
      PROVE  /\ n \in DOMAIN c.deployments
             /\ c.deployments[n].scenario = c.scenarios[s.deployments[n].scenario]
             /\ c.deployments[n].order = c.orders[s.deployments[n].order]
  <2>1. n \in DOMAIN t.deployments /\ DeploymentResolves(t, n)
    BY <1>2 DEF Resolvable
  <2> QED BY <1>1, <1>2, <2>1, ConfiguredDeployment DEF Deployment
<1> QED BY <1>3, <1>4, <1>5, <1>6, <1>7 DEF c

LEMMA ConfigKeeps ==
  ASSUME NEW t, KeepsSource(t), IsSource(t), Resolvable(t)
  PROVE  Keeps(Config(t))
<1> DEFINE c == Config(t)
<1>1. Said(c.networks) = Said(t.networks)
  BY DEF Said, Config, Network
<1>2. /\ c.subgraphs = t.subgraphs /\ c.metaboards = t.metaboards
      /\ c.accounts = t.accounts /\ c.sentry = t.sentry
  BY DEF Config
<1> HIDE DEF c
<1>3. ASSUME NEW s \in {doc.main, doc.top}
      PROVE  /\ \A f \in {"subgraphs", "metaboards"} : \A n \in DOMAIN s[f] :
                  n \in DOMAIN c[f] /\ c[f][n] = s[f][n]
             /\ s.accounts # None => \A n \in DOMAIN s.accounts :
                  n \in DOMAIN c.accounts /\ c.accounts[n] = s.accounts[n]
             /\ s.sentry # None => c.sentry = s.sentry
  BY <1>2 DEF KeepsSource, Held, NotUpdated
<1>4. \A s \in {doc.main, doc.top} : Held(s, t)
  BY DEF KeepsSource
<1>5. NothingOverwritten(c)
  BY <1>3, <1>4, ConfigHeld DEF NothingOverwritten, c
<1>6. NetworksLoaded(c)
  BY <1>1 DEF KeepsSource, NetworksLoaded
<1> QED BY <1>5, <1>6 DEF Keeps, c

(* What a source holds, it holds after an update.                          *)
LEMMA UpdatedHolds ==
  ASSUME NEW s, NEW t, NEW u, Held(s, t), Alike(t, u), Updated(t, u)
  PROVE  Held(s, u)
<1>1. /\ \A f \in NotUpdated : u[f] = t[f]
      /\ u.accounts = t.accounts /\ u.sentry = t.sentry
  BY DEF Alike, NotUpdated, SourceFields, Sections
<1>2. ASSUME NEW a, NEW b, NEW d, GivenIO(a, b), GivenIO(b, d)
      PROVE  GivenIO(a, d)
  BY <1>2 DEF GivenIO
<1>3. \A n \in DOMAIN s.tokens :
        u.tokens[n].address \in {s.tokens[n].address} \cup Addresses
  BY DEF Held, Updated
<1>4. \A n \in DOMAIN s.orders :
        /\ GivenIO(s.orders[n].inputs, u.orders[n].inputs)
        /\ GivenIO(s.orders[n].outputs, u.orders[n].outputs)
  BY <1>2 DEF Held, Updated
<1>5. \A p \in DOMAIN s.scenarios :
        u.scenarios[p].bindings \in {s.scenarios[p].bindings} \cup NewBindings
  BY DEF Held, Updated
<1>6. Updated(s, u)
  BY <1>3, <1>4, <1>5 DEF Updated
<1> QED BY <1>1, <1>6 DEF Held, Alike

LEMMA UpdatedKeeps ==
  ASSUME NEW s, NEW t, KeepsSource(s), Alike(s, t), Updated(s, t)
  PROVE  KeepsSource(t)
<1>1. Said(t.networks) = Said(s.networks)
  BY AlikeFields
<1> QED BY <1>1, UpdatedHolds DEF KeepsSource, NetworksLoaded

LEMMA ConfigConsistent ==
  ASSUME NEW s, IsSource(s), Resolvable(s)
  PROVE  Consistent(Config(s))
<1> DEFINE c == Config(s)
<1>1. /\ c.orders = [n \in DOMAIN s.orders |-> Order(s, n)]
      /\ c.scenarios = [p \in DOMAIN s.scenarios |-> Scenario(s, p)]
      /\ c.deployments = [n \in DOMAIN s.deployments |-> Deployment(s, n)]
  BY DEF Config
<1> HIDE DEF c
<1>2. \A n \in DOMAIN c.orders : OnOneNetwork(c.orders[n])
  BY <1>1, ConfiguredOrder DEF Resolvable
<1>3. \A n \in DOMAIN c.deployments :
        c.deployments[n].order.deployer
          \in {None, c.deployments[n].scenario.deployer}
  BY <1>1, ConfiguredDeployment DEF Resolvable
<1>4. \A p \in DOMAIN c.scenarios :
        Len(p) > 1 => Inherited(c.scenarios[Front(p)], c.scenarios[p])
  BY <1>1, ConfiguredScenario, ParentThere, ResolvableFacts
<1> QED BY <1>2, <1>3, <1>4 DEF Consistent, c

(* An update keeps the invariant, whether its source converts or not.      *)
LEMMA UpdateKeepsInv ==
  ASSUME Inv, stage = "ready", NEW new, Alike(source, new),
         Updated(source, new), IsSource(new), UpdateConfigSource(new)
  PROVE  Inv'
<1>1. ReadyInv /\ IsSource(source) /\ doc \in Documents
  BY DEF Inv, TypeOK
<1>2. /\ source' = new /\ stage' = "ready" /\ doc' = doc /\ top' = top
      /\ config' = IF Resolvable(new) THEN Config(new) ELSE config
  BY DEF UpdateConfigSource
<1>3. KeepsSource(new)
  BY <1>1, UpdatedKeeps DEF ReadyInv
<1>4. Keeps(IF Resolvable(new) THEN Config(new) ELSE config)
  BY <1>1, <1>3, ConfigKeeps DEF ReadyInv
<1>5. ResolvesButBindings(new)
  BY <1>1, AlikeResolves DEF ReadyInv
<1>6. Consistent(config')
  BY <1>1, <1>2, ConfigConsistent DEF ReadyInv
<1>7. KeepsSource(source)' /\ Keeps(config)'
  BY <1>2, <1>3, <1>4 DEF KeepsSource, Keeps, NetworksLoaded, NothingOverwritten
<1>8. ReadyInv'
  BY <1>2, <1>5, <1>6, <1>7 DEF ReadyInv
<1>9. TypeOK'
  <2>1. DOMAIN config' = DOMAIN NoConfig
    BY <1>2 DEF Inv, TypeOK, NoConfig, Config
  <2> QED BY <1>1, <1>2, <2>1 DEF Inv, TypeOK
<1> QED BY <1>2, <1>8, <1>9 DEF Inv

LEMMA FetchKeepsInv ==
  ASSUME Inv, NEW r \in pending, Fetch(r)
  PROVE  Inv'
<1> DEFINE chains == FetchedList(r)
           loaded == [Loading EXCEPT !.networks =
                        WithChains(Loading.networks, chains)]
<1>1. CASE ~Acceptable(r)
  BY <1>1 DEF Fetch, Fail, Inv, TypeOK
<1>2. CASE Acceptable(r) /\ stage = "main"
  <2>1. MainInv /\ TypeOK
    BY <1>2 DEF Inv
  <2>2. Fetching(doc.main, source) /\ Loading = source
    BY <1>2, <2>1 DEF MainInv, Loading
  <2>3. /\ pending' = pending \ {r} /\ source' = loaded /\ top' = top
        /\ doc' = doc /\ stage' = "main" /\ config' = config
    BY <1>2 DEF Fetch
  <2>4. /\ source.usingNetworksFrom = doc.main.usingNetworksFrom
        /\ r \in DOMAIN doc.main.usingNetworksFrom
    BY <2>2 DEF Fetching, Fetched, SourceFields, Sections
  <2>5. chains = Lists[doc.main.usingNetworksFrom[r].url] /\ chains \in Seq(Chain)
    BY <2>1, <2>2, <2>4, DotrainAssumption DEF FetchedList, TypeOK
  <2>6. ~ConflictingNetworks(source.networks, chains)
    BY <1>2, <2>2 DEF Acceptable
  <2> HIDE DEF chains
  <2>7. Fetched(doc.main, loaded,
                (DOMAIN doc.main.usingNetworksFrom \ pending) \cup {r})
    BY <2>2, <2>5, <2>6, FetchedOne DEF Fetching
  <2> HIDE DEF loaded
  <2>8. (DOMAIN doc.main.usingNetworksFrom \ pending) \cup {r}
          = DOMAIN doc.main.usingNetworksFrom \ pending'
    BY <2>3, <2>4
  <2>9. MainInv'
    BY <2>1, <2>2, <2>3, <2>7, <2>8 DEF MainInv, Fetching
  <2>10. TypeOK'
    <3>1. IsSource(loaded) /\ loaded.usingNetworksFrom = doc.main.usingNetworksFrom
      BY <2>7 DEF Fetched, SourceFields, Sections
    <3> QED BY <2>1, <2>2, <2>3, <3>1 DEF TypeOK, Loading, Fetching
  <2> QED BY <2>3, <2>9, <2>10 DEF Inv
<1>3. CASE Acceptable(r) /\ stage = "top"
  <2>1. TopInv /\ TypeOK
    BY <1>3 DEF Inv
  <2>2. Fetching(doc.top, top) /\ Loading = top
    BY <1>3, <2>1 DEF TopInv, Loading
  <2>3. /\ pending' = pending \ {r} /\ top' = loaded /\ source' = source
        /\ doc' = doc /\ stage' = "top" /\ config' = config
    BY <1>3 DEF Fetch
  <2>4. /\ top.usingNetworksFrom = doc.top.usingNetworksFrom
        /\ r \in DOMAIN doc.top.usingNetworksFrom
    BY <2>2 DEF Fetching, Fetched, SourceFields, Sections
  <2>5. chains = Lists[doc.top.usingNetworksFrom[r].url] /\ chains \in Seq(Chain)
    BY <2>1, <2>2, <2>4, DotrainAssumption DEF FetchedList, TypeOK
  <2>6. ~ConflictingNetworks(top.networks, chains)
    BY <1>3, <2>2 DEF Acceptable
  <2> HIDE DEF chains
  <2>7. Fetched(doc.top, loaded,
                (DOMAIN doc.top.usingNetworksFrom \ pending) \cup {r})
    BY <2>2, <2>5, <2>6, FetchedOne DEF Fetching
  <2> HIDE DEF loaded
  <2>8. (DOMAIN doc.top.usingNetworksFrom \ pending) \cup {r}
          = DOMAIN doc.top.usingNetworksFrom \ pending'
    BY <2>3, <2>4
  <2>9. TopInv'
    BY <2>1, <2>2, <2>3, <2>7, <2>8 DEF TopInv, Fetching, FetchedAll
  <2>10. TypeOK'
    <3>1. IsSource(loaded) /\ loaded.usingNetworksFrom = doc.top.usingNetworksFrom
      BY <2>7 DEF Fetched, SourceFields, Sections
    <3> QED BY <2>1, <2>2, <2>3, <3>1 DEF TypeOK, Loading, Fetching
  <2> QED BY <2>3, <2>9, <2>10 DEF Inv
<1> QED BY <1>1, <1>2, <1>3 DEF Fetch

LEMMA BuildKeepsInv ==
  ASSUME Inv, Build
  PROVE  Inv'
<1> DEFINE m == Merged(source, top)
<1>1. TypeOK /\ TopInv /\ pending = {}
  BY DEF Inv, Build
<1>2. CASE MergeCollides(source, top) \/ ~Resolvable(m)
  BY <1>1, <1>2 DEF Build, Fail, Inv, TypeOK
<1>3. CASE ~MergeCollides(source, top) /\ Resolvable(m)
  <2>1. /\ source' = m /\ config' = Config(m) /\ stage' = "ready"
        /\ doc' = doc /\ pending' = pending /\ top' = top
    BY <1>3 DEF Build
  <2>2. FetchedAll(doc.main, source) /\ FetchedAll(doc.top, top)
    BY <1>1 DEF TopInv, Fetching, FetchedAll
  <2>3. IsSource(doc.main) /\ IsSource(doc.top)
    BY <2>2 DEF FetchedAll, Fetched
  <2>4. KeepsSource(m)
    BY <1>3, <2>2, <2>3, MergedKeeps
  <2>5. IsSource(m)
    BY <1>1, <1>3, MergedSource DEF TypeOK
  <2> HIDE DEF m
  <2>6. Keeps(Config(m)) /\ Consistent(Config(m))
    BY <1>3, <2>4, <2>5, ConfigKeeps, ConfigConsistent
  <2>7. KeepsSource(source)' /\ Keeps(config)'
    BY <2>1, <2>4, <2>6 DEF KeepsSource, Keeps, NetworksLoaded, NothingOverwritten
  <2>8. ReadyInv'
    BY <1>3, <2>1, <2>6, <2>7, ResolvableFacts DEF ReadyInv
  <2>9. TypeOK'
    BY <1>1, <2>1, <2>5 DEF TypeOK, NoConfig, Config
  <2> QED BY <2>1, <2>8, <2>9 DEF Inv
<1> QED BY <1>2, <1>3

LEMMA InitInv ==
  ASSUME Init
  PROVE  Inv
<1>1. /\ doc \in Documents /\ stage = "main" /\ source = doc.main
      /\ top = doc.top /\ pending = DOMAIN doc.main.usingNetworksFrom
      /\ config = NoConfig
  BY DEF Init
<1>2. IsSource(doc.main) /\ IsSource(doc.top)
  BY <1>1, DotrainAssumption
<1>3. Offered(doc.main, {}) = {}
  BY DEF Offered
<1>4. Fetched(doc.main, source, {})
  BY <1>1, <1>2, <1>3 DEF Fetched
<1>5. DOMAIN doc.main.usingNetworksFrom \ pending = {}
  BY <1>1
<1>6. MainInv
  BY <1>1, <1>4, <1>5 DEF MainInv, Fetching
<1>7. TypeOK
  BY <1>1, <1>2 DEF TypeOK, Loading
<1> QED BY <1>1, <1>6, <1>7 DEF Inv

LEMMA MainFetchedKeepsInv ==
  ASSUME Inv, MainFetched
  PROVE  Inv'
<1>1. MainInv /\ TypeOK /\ pending = {}
  BY DEF Inv, MainFetched
<1>2. /\ stage' = "top" /\ pending' = DOMAIN top.usingNetworksFrom
      /\ doc' = doc /\ source' = source /\ top' = top /\ config' = config
  BY DEF MainFetched
<1>3. top = doc.top /\ IsSource(doc.top)
  BY <1>1, DotrainAssumption DEF MainInv, TypeOK
<1>4. FetchedAll(doc.main, source)
  BY <1>1 DEF MainInv, Fetching, FetchedAll
<1>5. Fetched(doc.top, top, {})
  BY <1>3 DEF Fetched, Offered
<1>6. DOMAIN doc.top.usingNetworksFrom \ pending' = {}
  BY <1>2, <1>3
<1>7. TopInv'
  BY <1>2, <1>3, <1>4, <1>5, <1>6 DEF TopInv, Fetching, FetchedAll
<1>8. TypeOK'
  BY <1>1, <1>2 DEF TypeOK, Loading
<1> QED BY <1>2, <1>7, <1>8 DEF Inv

LEMMA UpdatesKeepInv ==
  ASSUME Inv, Updates
  PROVE  Inv'
<1>1. IsSource(source) /\ Addresses \subseteq STRING /\ VaultIds \subseteq Nat
  BY DotrainAssumption DEF Inv, TypeOK
<1>2. CASE \E p \in DOMAIN source.scenarios, b \in NewBindings :
             UpdateBindings(p, b)
  <2>1. PICK p \in DOMAIN source.scenarios, b \in NewBindings :
          UpdateBindings(p, b)
    BY <1>2
  <2> DEFINE t == WithBindings(source, p, b)
  <2>2. UpdateConfigSource(t) /\ stage = "ready"
    BY <2>1 DEF UpdateBindings, UpdateConfigSource
  <2>3. IsSource(t) /\ Alike(source, t)
    BY <1>1, BindingsUpdated
  <2>4. Updated(source, t)
    <3>1. /\ t.orders = source.orders /\ t.tokens = source.tokens
          /\ t.scenarios[p].bindings = b
          /\ \A q \in DOMAIN source.scenarios \ {p} :
               t.scenarios[q] = source.scenarios[q]
      BY <1>1, BindingsUpdated
    <3> HIDE DEF t
    <3> QED BY <3>1 DEF Updated, GivenIO
  <2> HIDE DEF t
  <2> QED BY <2>2, <2>3, <2>4, UpdateKeepsInv
<1>3. CASE \E d \in DOMAIN source.deployments, id \in VaultIds :
             PopulateVaultIds(d, id)
  <2>1. PICK d \in DOMAIN source.deployments, id \in VaultIds :
          PopulateVaultIds(d, id)
    BY <1>3
  <2> DEFINE t == WithVaultIds(source, OrderOf(d), id)
  <2>2. UpdateConfigSource(t) /\ stage = "ready"
    BY <2>1 DEF PopulateVaultIds, UpdateConfigSource
  <2>3. OrderOf(d) \in DOMAIN source.orders /\ id \in Nat
    BY <1>1, <2>1 DEF PopulateVaultIds, HasOrder
  <2>4. IsSource(t) /\ Alike(source, t)
    BY <1>1, <2>3, VaultIdsUpdated
  <2>5. Updated(source, t)
    <3> DEFINE o == OrderOf(d)
    <3>1. /\ t.tokens = source.tokens /\ t.scenarios = source.scenarios
          /\ \A n \in DOMAIN source.orders \ {o} : t.orders[n] = source.orders[n]
          /\ \A side \in {"inputs", "outputs"} :
               /\ SameTokens(source.orders[o][side], t.orders[o][side])
               /\ \A i \in DOMAIN source.orders[o][side] :
                    t.orders[o][side][i].vaultId
                      \in {source.orders[o][side][i].vaultId, id}
      BY <1>1, <2>3, VaultIdsUpdated
    <3> HIDE DEF t, o
    <3>2. /\ GivenIO(source.orders[o].inputs, t.orders[o].inputs)
          /\ GivenIO(source.orders[o].outputs, t.orders[o].outputs)
      BY <3>1 DEF GivenIO, SameTokens
    <3> QED BY <3>1, <3>2 DEF Updated, GivenIO
  <2> HIDE DEF t
  <2> QED BY <2>2, <2>4, <2>5, UpdateKeepsInv
<1>4. CASE \E n \in DOMAIN source.tokens, a \in Addresses :
             UpdateTokenAddress(n, a)
  <2>1. PICK n \in DOMAIN source.tokens, a \in Addresses :
          UpdateTokenAddress(n, a)
    BY <1>4
  <2> DEFINE t == WithTokenAddress(source, n, a)
  <2>2. UpdateConfigSource(t) /\ stage = "ready"
    BY <2>1 DEF UpdateTokenAddress, UpdateConfigSource
  <2>3. IsSource(t) /\ Alike(source, t)
    BY <1>1, TokenUpdated
  <2>4. Updated(source, t)
    <3>1. /\ t.orders = source.orders /\ t.scenarios = source.scenarios
          /\ t.tokens[n].address = a
          /\ \A m \in DOMAIN source.tokens \ {n} : t.tokens[m] = source.tokens[m]
      BY <1>1, TokenUpdated
    <3> HIDE DEF t
    <3> QED BY <3>1 DEF Updated, GivenIO
  <2> HIDE DEF t
  <2> QED BY <2>2, <2>3, <2>4, UpdateKeepsInv
<1>5. CASE \E d \in DOMAIN source.deployments, side \in {"inputs", "outputs"} :
             \E i \in DOMAIN source.orders[OrderOf(d)][side], id \in VaultIds :
               SetVaultId(d, side, i, id)
  <2>1. PICK d \in DOMAIN source.deployments, side \in {"inputs", "outputs"} :
          \E i \in DOMAIN source.orders[OrderOf(d)][side], id \in VaultIds :
            SetVaultId(d, side, i, id)
    BY <1>5
  <2>2. PICK i \in DOMAIN source.orders[OrderOf(d)][side], id \in VaultIds :
          SetVaultId(d, side, i, id)
    BY <2>1
  <2> DEFINE t == WithVaultId(source, OrderOf(d), side, i, id)
  <2>3. UpdateConfigSource(t) /\ stage = "ready"
    BY <2>2 DEF SetVaultId, UpdateConfigSource
  <2>4. OrderOf(d) \in DOMAIN source.orders /\ id \in Nat
    BY <1>1, <2>2 DEF SetVaultId, HasOrder
  <2>5. /\ IsSource(t) /\ Alike(source, t)
        /\ t.tokens = source.tokens /\ t.scenarios = source.scenarios
        /\ \A n \in DOMAIN source.orders \ {OrderOf(d)} :
             t.orders[n] = source.orders[n]
        /\ \A other \in {"inputs", "outputs"} :
             \A j \in DOMAIN source.orders[OrderOf(d)][other] :
               other # side \/ j # i =>
                 t.orders[OrderOf(d)][other][j]
                   = source.orders[OrderOf(d)][other][j]
        /\ \A other \in {"inputs", "outputs"} :
             SameTokens(source.orders[OrderOf(d)][other], t.orders[OrderOf(d)][other])
        /\ t.orders[OrderOf(d)][side][i].vaultId = id
    <3> HIDE DEF OrderOf
    <3> QED BY <1>1, <2>4, VaultIdUpdated
  <2>6. Updated(source, t)
    <3> DEFINE o == OrderOf(d)
    <3> HIDE DEF t, o
    <3>1. /\ t.tokens = source.tokens /\ t.scenarios = source.scenarios
          /\ \A n \in DOMAIN source.orders \ {o} : t.orders[n] = source.orders[n]
          /\ \A other \in {"inputs", "outputs"} :
               /\ SameTokens(source.orders[o][other], t.orders[o][other])
               /\ \A j \in DOMAIN source.orders[o][other] :
                    other # side \/ j # i =>
                      t.orders[o][other][j] = source.orders[o][other][j]
          /\ t.orders[o][side][i].vaultId = id
      BY <2>5 DEF o
    <3> HIDE DEF t, o
    <3>2. /\ GivenIO(source.orders[o].inputs, t.orders[o].inputs)
          /\ GivenIO(source.orders[o].outputs, t.orders[o].outputs)
      BY <3>1 DEF GivenIO, SameTokens
    <3> QED BY <3>1, <3>2 DEF Updated, GivenIO
  <2> HIDE DEF t
  <2> QED BY <2>3, <2>5, <2>6, UpdateKeepsInv
<1> QED BY <1>2, <1>3, <1>4, <1>5 DEF Updates

LEMMA NextKeepsInv ==
  ASSUME Inv, [Next]_vars
  PROVE  Inv'
<1>1. CASE \E r \in pending : Fetch(r)
  BY <1>1, FetchKeepsInv
<1>2. CASE \E r \in pending : FetchFails(r)
  BY <1>2 DEF FetchFails, Fail, Inv, TypeOK
<1>3. CASE MainFetched
  BY <1>3, MainFetchedKeepsInv
<1>4. CASE Build
  BY <1>4, BuildKeepsInv
<1>5. CASE Updates
  BY <1>5, UpdatesKeepInv
<1>6. CASE UNCHANGED vars
  BY <1>6 DEF vars, Inv, TypeOK, Loading, MainInv, TopInv, FetchedAll, Fetching,
              ReadyInv, KeepsSource, Keeps, NetworksLoaded,
              NothingOverwritten
<1> QED BY <1>1, <1>2, <1>3, <1>4, <1>5, <1>6 DEF Next

-----------------------------------------------------------------------------
(* Theorems *)

THEOREM Invariance == Spec => []Inv
<1>1. Init => Inv
  BY InitInv
<1>2. Inv /\ [Next]_vars => Inv'
  BY NextKeepsInv
<1> QED BY <1>1, <1>2, PTL DEF Spec

(* The fields of a DotrainOrder always hold what they can: sources stay    *)
(* sources under fetching, merging and any updates.                        *)
THEOREM SourcesStaySources == Spec => []TypeOK
<1>1. Inv => TypeOK
  BY DEF Inv
<1> QED BY <1>1, Invariance, PTL

(* An order that is made has all networks that its documents and their     *)
(* lists have and no others, and every entry of both sources in every      *)
(* section, saying what it says there of the entries it names there; after *)
(* any updates too, but for the values that they give.                     *)
THEOREM MakingLosesNothing == Spec => []NothingLost
<1>1. Inv => NothingLost
  BY DEF Inv, ReadyInv, Keeps, NothingLost
<1> QED BY <1>1, Invariance, PTL

(* No order of a configuration ever spans networks, and no deployment runs *)
(* on another deployer than its order's.                                   *)
THEOREM OneNetworkPerOrder == Spec => []OrdersOnOneNetwork
<1>1. Inv => OrdersOnOneNetwork
  BY DEF Inv, ReadyInv, Consistent, OrdersOnOneNetwork
<1> QED BY <1>1, Invariance, PTL

(* Bindings are inherited, and a source that an update left without a      *)
(* configuration lacks nothing but other bindings.                         *)
THEOREM BindingsStaySound == Spec => []BindingsSound
<1>1. Inv => BindingsInherited
  BY DEF Inv, ReadyInv, Consistent, BindingsInherited
<1>2. Inv => OnlyBindingsBreak
  <2> SUFFICES ASSUME Inv, stage = "ready", ~Resolvable(source)
               PROVE  OnlyBindingsBreak
    BY DEF OnlyBindingsBreak
  <2>1. IsSource(source) /\ ResolvesButBindings(source)
    BY DEF Inv, TypeOK, ReadyInv
  <2>2. HaveDeployers(source) /\ ~NoneShadowed(source)
    BY <2>1, ResolvableFacts DEF ResolvesButBindings
  <2> QED BY <2>1, <2>2, BindingsDropped DEF OnlyBindingsBreak
<1> QED BY <1>1, <1>2, Invariance, PTL DEF BindingsSound

-----------------------------------------------------------------------------
(* What an update leaves alone *)

LEMMA ScenarioLeft ==
  ASSUME NEW s, NEW t, IsSource(s), Alike(s, t), NEW p \in DOMAIN s.scenarios,
         \A q \in Around(p) : OwnBindings(t, q) = OwnBindings(s, q)
  PROVE  Scenario(t, p) = Scenario(s, p)
<1>1. p \in Seq(STRING)
  BY DEF IsSource
<1>2. ScenarioBindings(t, p) = ScenarioBindings(s, p)
  BY <1>1, SameBindings
<1> QED BY <1>2, AlikeDeployers DEF Scenario

LEMMA OrderLeft ==
  ASSUME NEW s, NEW t, Alike(s, t), NEW n \in DOMAIN s.orders,
         OrderResolves(s, n), t.orders[n] = s.orders[n],
         \A m \in IOTokens(s.orders[n]) : t.tokens[m] = s.tokens[m]
  PROVE  Order(t, n) = Order(s, n)
<1> DEFINE o == s.orders[n]
<1>1. \A m \in IOTokens(o) : Token(t, m) = Token(s, m)
  BY AlikeFields DEF Token, Network
<1>2. \A i \in DOMAIN o.inputs : o.inputs[i].token \in IOTokens(o)
  BY DEF IOTokens
<1>3. \A i \in DOMAIN o.outputs : o.outputs[i].token \in IOTokens(o)
  BY DEF IOTokens
<1>4. OrderIO(t, o.inputs) = OrderIO(s, o.inputs)
  BY <1>1, <1>2 DEF OrderIO
<1>5. OrderIO(t, o.outputs) = OrderIO(s, o.outputs)
  BY <1>1, <1>3 DEF OrderIO
<1>6. OrderNetworks(t, o) = OrderNetworks(s, o)
  BY AlikeOrders
<1>7. /\ o.deployer # None => Deployer(t, o.deployer) = Deployer(s, o.deployer)
      /\ o.orderbook # None =>
           Orderbook(t, o.orderbook) = Orderbook(s, o.orderbook)
  BY AlikeNetworks DEF OrderResolves, Opt
<1> DEFINE R(x) == [inputs |-> OrderIO(x, o.inputs),
                    outputs |-> OrderIO(x, o.outputs),
                    network |-> CHOOSE net \in OrderNetworks(x, o) : TRUE,
                    deployer |-> IF o.deployer = None THEN None
                                 ELSE Deployer(x, o.deployer),
                    orderbook |-> IF o.orderbook = None THEN None
                                  ELSE Orderbook(x, o.orderbook)]
<1>8. Order(s, n) = R(s) /\ Order(t, n) = R(t)
  BY DEF Order
<1>9. R(t) = R(s)
  BY <1>4, <1>5, <1>6, <1>7
<1> HIDE DEF R
<1> QED BY <1>8, <1>9

(* A deployment is left as it is when its order is, its order's tokens are *)
(* and the bindings are of its scenario and of those around that.          *)
LEMMA DeploymentLeft ==
  ASSUME Inv, stage = "ready", Resolvable(source),
         NEW new, Alike(source, new), UpdateConfigSource(new),
         NEW d \in DOMAIN source.deployments,
         \A q \in Around(source.deployments[d].scenario) :
           OwnBindings(new, q) = OwnBindings(source, q),
         new.orders[OrderOf(d)] = source.orders[OrderOf(d)],
         \A m \in IOTokens(source.orders[OrderOf(d)]) :
           new.tokens[m] = source.tokens[m]
  PROVE  Same(d)
<1>1. IsSource(source) /\ config = Config(source)
  BY DEF Inv, TypeOK, ReadyInv
<1>2. DeploymentResolves(source, d)
  BY DEF Resolvable
<1>3. /\ source.deployments[d].scenario \in DOMAIN source.scenarios
      /\ OrderOf(d) \in DOMAIN source.orders
  BY <1>2, ConfiguredDeployment DEF OrderOf
<1>4. Scenario(new, source.deployments[d].scenario)
        = Scenario(source, source.deployments[d].scenario)
  BY <1>1, <1>3, ScenarioLeft
<1>5. OrderResolves(source, OrderOf(d))
  BY <1>3 DEF Resolvable
<1>6. Order(new, OrderOf(d)) = Order(source, OrderOf(d))
  BY <1>3, <1>5, OrderLeft
<1>7. new.deployments = source.deployments
  BY AlikeFields
<1>8. Deployment(new, d) = Deployment(source, d)
  BY <1>4, <1>6, <1>7 DEF Deployment, OrderOf
<1>9. /\ Config(new).deployments[d] = Deployment(new, d)
      /\ Config(source).deployments[d] = Deployment(source, d)
  BY <1>7 DEF Config
<1>10. config' = IF Resolvable(new) THEN Config(new) ELSE config
  BY DEF UpdateConfigSource
<1> QED BY <1>1, <1>8, <1>9, <1>10 DEF Same

(* Only set_vault_id of it replaces a vault id.                            *)
LEMMA VaultIdsStay ==
  ASSUME Inv, stage = "ready", [Next]_vars, NEW n \in DOMAIN source.orders,
         NEW side \in {"inputs", "outputs"},
         NEW i \in DOMAIN source.orders[n][side], Replaced(n, side, i)
  PROVE  \E d \in DOMAIN source.deployments, id \in VaultIds :
           OrderOf(d) = n /\ SetVaultId(d, side, i, id)
<1>1. IsSource(source) /\ Addresses \subseteq STRING /\ VaultIds \subseteq Nat
  BY DotrainAssumption DEF Inv, TypeOK
<1>2. source'.orders # source.orders
  BY DEF Replaced
<1>3. Updates
  BY <1>2 DEF Next, vars, Fetch, FetchFails, MainFetched, Build
<1>4. ASSUME NEW p \in DOMAIN source.scenarios, NEW b \in NewBindings,
             UpdateBindings(p, b)
      PROVE  FALSE
  <2>1. source' = WithBindings(source, p, b)
    BY <1>4 DEF UpdateBindings, UpdateConfigSource
  <2> QED BY <1>1, <1>2, <2>1, BindingsUpdated
<1>5. ASSUME NEW m \in DOMAIN source.tokens, NEW a \in Addresses,
             UpdateTokenAddress(m, a)
      PROVE  FALSE
  <2>1. source' = WithTokenAddress(source, m, a)
    BY <1>5 DEF UpdateTokenAddress, UpdateConfigSource
  <2> QED BY <1>1, <1>2, <2>1, TokenUpdated
<1>6. ASSUME NEW d \in DOMAIN source.deployments, NEW id \in VaultIds,
             PopulateVaultIds(d, id)
      PROVE  FALSE
  <2> DEFINE t == WithVaultIds(source, OrderOf(d), id)
  <2>1. source' = t /\ OrderOf(d) \in DOMAIN source.orders
    BY <1>6 DEF PopulateVaultIds, HasOrder, UpdateConfigSource
  <2>2. /\ \A m \in DOMAIN source.orders \ {OrderOf(d)} :
             t.orders[m] = source.orders[m]
        /\ \A x \in {"inputs", "outputs"} :
             \A j \in DOMAIN source.orders[OrderOf(d)][x] :
               source.orders[OrderOf(d)][x][j].vaultId # None =>
                 t.orders[OrderOf(d)][x][j] = source.orders[OrderOf(d)][x][j]
    BY <1>1, <2>1, VaultIdsUpdated
  <2> HIDE DEF t
  <2> QED BY <2>1, <2>2 DEF Replaced
<1>7. ASSUME NEW d \in DOMAIN source.deployments,
             NEW x \in {"inputs", "outputs"},
             NEW j \in DOMAIN source.orders[OrderOf(d)][x], NEW id \in VaultIds,
             SetVaultId(d, x, j, id)
      PROVE  OrderOf(d) = n /\ x = side /\ j = i
  <2> DEFINE t == WithVaultId(source, OrderOf(d), x, j, id)
  <2>1. source' = t /\ OrderOf(d) \in DOMAIN source.orders
    BY <1>7 DEF SetVaultId, HasOrder, UpdateConfigSource
  <2>2. /\ \A m \in DOMAIN source.orders \ {OrderOf(d)} :
             t.orders[m] = source.orders[m]
        /\ \A y \in {"inputs", "outputs"} :
             \A k \in DOMAIN source.orders[OrderOf(d)][y] :
               y # x \/ k # j =>
                 t.orders[OrderOf(d)][y][k] = source.orders[OrderOf(d)][y][k]
    BY <1>1, <2>1, VaultIdUpdated
  <2> HIDE DEF t
  <2> QED BY <2>1, <2>2 DEF Replaced
<1>8. PICK d \in DOMAIN source.deployments, x \in {"inputs", "outputs"} :
        \E j \in DOMAIN source.orders[OrderOf(d)][x], id \in VaultIds :
          SetVaultId(d, x, j, id)
  BY <1>3, <1>4, <1>5, <1>6 DEF Updates
<1>9. PICK j \in DOMAIN source.orders[OrderOf(d)][x], id \in VaultIds :
        SetVaultId(d, x, j, id)
  BY <1>8
<1>10. OrderOf(d) = n /\ x = side /\ j = i
  BY <1>7, <1>9
<1> QED BY <1>9, <1>10

(* Another scenario's bindings, another token's address and another        *)
(* order's vault ids may change, and a deployment does not.                *)
LEMMA UpdatesAreLocalSteps ==
  ASSUME Inv, stage = "ready", Resolvable(source),
         NEW d \in DOMAIN source.deployments
  PROVE  /\ \A p \in DOMAIN source.scenarios, b \in NewBindings :
              UpdateBindings(p, b) /\ ~Inherits(d, p) => Same(d)
         /\ \A t \in DOMAIN source.tokens, a \in Addresses :
              UpdateTokenAddress(t, a)
                /\ t \notin IOTokens(source.orders[OrderOf(d)]) => Same(d)
         /\ \A e \in DOMAIN source.deployments, id \in VaultIds :
              OrderOf(e) # OrderOf(d) =>
                /\ PopulateVaultIds(e, id) => Same(d)
                /\ \A i \in 1..2, side \in {"inputs", "outputs"} :
                     SetVaultId(e, side, i, id) => Same(d)
<1> DEFINE q == source.deployments[d].scenario
           o == OrderOf(d)
<1>1. IsSource(source) /\ Addresses \subseteq STRING /\ VaultIds \subseteq Nat
  BY DotrainAssumption DEF Inv, TypeOK
<1>2. DeploymentResolves(source, d)
  BY DEF Resolvable
<1>3. q \in DOMAIN source.scenarios /\ o \in DOMAIN source.orders
  BY <1>2, ConfiguredDeployment DEF OrderOf
<1>4. Around(q) \subseteq DOMAIN source.scenarios /\ q \in Seq(STRING)
  BY <1>1, <1>3 DEF IsSource
<1>5. OrderResolves(source, o)
  BY <1>3 DEF Resolvable
<1>6. IOTokens(source.orders[o]) \subseteq DOMAIN source.tokens
  BY <1>5 DEF OrderResolves
<1>7. ASSUME NEW p \in DOMAIN source.scenarios, NEW b \in NewBindings,
             UpdateBindings(p, b), ~Inherits(d, p)
      PROVE  Same(d)
  <2> DEFINE t == WithBindings(source, p, b)
  <2>1. UpdateConfigSource(t)
    BY <1>7 DEF UpdateBindings
  <2>2. p \notin Around(q)
    <3> SUFFICES ASSUME p \in Around(q)
                 PROVE  FALSE
      OBVIOUS
    <3>1. PICK i \in 1..Len(q) : p = SubSeq(q, 1, i)
      BY DEF Around
    <3>2. Len(p) = i
      BY <1>4, <3>1, AroundFacts
    <3> QED BY <1>7, <3>1, <3>2 DEF Inherits
  <2>3. /\ Alike(source, t) /\ t.orders = source.orders
        /\ t.tokens = source.tokens
        /\ \A r \in DOMAIN source.scenarios \ {p} :
             t.scenarios[r] = source.scenarios[r]
    BY <1>1, BindingsUpdated
  <2> HIDE DEF t
  <2>4. \A r \in Around(q) : OwnBindings(t, r) = OwnBindings(source, r)
    BY <1>4, <2>2, <2>3 DEF OwnBindings
  <2> QED BY <2>1, <2>3, <2>4, DeploymentLeft
<1>8. ASSUME NEW m \in DOMAIN source.tokens, NEW a \in Addresses,
             UpdateTokenAddress(m, a), m \notin IOTokens(source.orders[o])
      PROVE  Same(d)
  <2> DEFINE t == WithTokenAddress(source, m, a)
  <2>1. UpdateConfigSource(t)
    BY <1>8 DEF UpdateTokenAddress
  <2>2. /\ Alike(source, t) /\ t.orders = source.orders
        /\ t.scenarios = source.scenarios
        /\ \A r \in DOMAIN source.tokens \ {m} : t.tokens[r] = source.tokens[r]
    BY <1>1, TokenUpdated
  <2> HIDE DEF t
  <2>3. \A r \in IOTokens(source.orders[o]) : t.tokens[r] = source.tokens[r]
    BY <1>6, <1>8, <2>2
  <2> QED BY <2>1, <2>2, <2>3, DeploymentLeft DEF OwnBindings
<1>9. ASSUME NEW e \in DOMAIN source.deployments, NEW id \in VaultIds,
             OrderOf(e) # o, PopulateVaultIds(e, id)
      PROVE  Same(d)
  <2> DEFINE t == WithVaultIds(source, OrderOf(e), id)
  <2>1. UpdateConfigSource(t) /\ OrderOf(e) \in DOMAIN source.orders
    BY <1>9 DEF PopulateVaultIds, HasOrder
  <2>2. /\ Alike(source, t) /\ t.tokens = source.tokens
        /\ t.scenarios = source.scenarios
        /\ \A n \in DOMAIN source.orders \ {OrderOf(e)} :
             t.orders[n] = source.orders[n]
    BY <1>1, <2>1, VaultIdsUpdated
  <2> HIDE DEF t
  <2>3. t.orders[o] = source.orders[o]
    BY <1>3, <1>9, <2>2
  <2> QED BY <2>1, <2>2, <2>3, DeploymentLeft DEF OwnBindings
<1>10. ASSUME NEW e \in DOMAIN source.deployments, NEW id \in VaultIds,
              OrderOf(e) # o, NEW i \in 1..2, NEW side \in {"inputs", "outputs"},
              SetVaultId(e, side, i, id)
       PROVE  Same(d)
  <2> DEFINE t == WithVaultId(source, OrderOf(e), side, i, id)
  <2>1. /\ UpdateConfigSource(t) /\ OrderOf(e) \in DOMAIN source.orders
        /\ i \in DOMAIN source.orders[OrderOf(e)][side]
    BY <1>10 DEF SetVaultId, HasOrder
  <2>2. /\ Alike(source, t) /\ t.tokens = source.tokens
        /\ t.scenarios = source.scenarios
        /\ \A n \in DOMAIN source.orders \ {OrderOf(e)} :
             t.orders[n] = source.orders[n]
    BY <1>1, <2>1, VaultIdUpdated
  <2> HIDE DEF t
  <2>3. t.orders[o] = source.orders[o]
    BY <1>3, <1>10, <2>2
  <2> QED BY <2>1, <2>2, <2>3, DeploymentLeft DEF OwnBindings
<1> QED BY <1>7, <1>8, <1>9, <1>10

(* An update leaves alone what it is not about: an order's vault ids, and  *)
(* deployments with another scenario, token or order.                      *)
THEOREM UpdatesLeaveTheRest == Spec => UpdatesKeepTheRest
<1>1. Inv /\ [Next]_vars =>
        [stage = "ready" =>
           \A n \in DOMAIN source.orders, side \in {"inputs", "outputs"} :
             \A i \in DOMAIN source.orders[n][side] :
               Replaced(n, side, i) =>
                 \E d \in DOMAIN source.deployments, id \in VaultIds :
                   OrderOf(d) = n /\ SetVaultId(d, side, i, id)]_vars
  BY VaultIdsStay
<1>2. Spec => VaultIdsKept
  BY <1>1, Invariance, PTL DEF Spec, VaultIdsKept
<1>3. Inv /\ [Next]_vars =>
        [stage = "ready" /\ Resolvable(source) =>
           \A d \in DOMAIN source.deployments :
             /\ \A p \in DOMAIN source.scenarios, b \in NewBindings :
                  UpdateBindings(p, b) /\ ~Inherits(d, p) => Same(d)
             /\ \A t \in DOMAIN source.tokens, a \in Addresses :
                  UpdateTokenAddress(t, a)
                    /\ t \notin IOTokens(source.orders[OrderOf(d)]) => Same(d)
             /\ \A e \in DOMAIN source.deployments, id \in VaultIds :
                  OrderOf(e) # OrderOf(d) =>
                    /\ PopulateVaultIds(e, id) => Same(d)
                    /\ \A i \in 1..2, side \in {"inputs", "outputs"} :
                         SetVaultId(e, side, i, id) => Same(d)]_vars
  BY UpdatesAreLocalSteps
<1>4. Spec => UpdatesAreLocal
  BY <1>3, Invariance, PTL DEF Spec, UpdatesAreLocal
<1> QED BY <1>2, <1>4 DEF UpdatesKeepTheRest

-----------------------------------------------------------------------------
(* The filter: what deployments use, and where a search finds it *)

Given ==
  /\ IsSource(given) /\ Resolvable(given)
  /\ \A f \in Searched : found[f] \in Finds(f)

LEMMA ParsedFields ==
  /\ parsed.orders = [n \in DOMAIN given.orders |-> Order(given, n)]
  /\ parsed.deployers = [n \in DOMAIN given.deployers |-> Deployer(given, n)]
  /\ parsed.orderbooks = [n \in DOMAIN given.orderbooks |-> Orderbook(given, n)]
  /\ parsed.subgraphs = given.subgraphs
  /\ parsed.tokens = [n \in DOMAIN given.tokens |-> Token(given, n)]
  /\ parsed.deployments =
       [n \in DOMAIN given.deployments |-> Deployment(given, n)]
  /\ DOMAIN parsed.charts = DOMAIN given.charts
  /\ parsed.networks = [n \in DOMAIN given.networks |-> Network(given, n)]
BY DEF parsed, Config

(* What is searched for is found under a key with the same value.          *)
LEMMA KeyFound ==
  ASSUME Given, NEW f \in Searched, NEW k \in DOMAIN parsed[f]
  PROVE  /\ KeyOf(f, parsed[f][k]) \in DOMAIN parsed[f]
         /\ parsed[f][KeyOf(f, parsed[f][k])] = parsed[f][k]
         /\ found[f] = DOMAIN parsed[f] => KeyOf(f, parsed[f][k]) = k
<1> DEFINE v == parsed[f][k]
<1>1. PICK l \in found[f] : {m \in found[f] : parsed[f][m] = v} = {l}
  BY DEF Given, Finds
<1>2. found[f] \subseteq DOMAIN parsed[f]
  BY DEF Given, Finds
<1>3. KeyOf(f, v) = l /\ parsed[f][l] = v
  BY <1>1 DEF KeyOf
<1>4. found[f] = DOMAIN parsed[f] => k = l
  BY <1>1
<1> QED BY <1>2, <1>3, <1>4

LEMMA KeysGiven ==
  ASSUME Given
  PROVE  /\ \A k \in DOMAIN parsed.orders :
              KeyOf("orders", parsed.orders[k]) \in DOMAIN given.orders
         /\ \A k \in DOMAIN parsed.deployers :
              KeyOf("deployers", parsed.deployers[k]) \in DOMAIN given.deployers
         /\ \A k \in DOMAIN parsed.orderbooks :
              KeyOf("orderbooks", parsed.orderbooks[k]) \in DOMAIN given.orderbooks
         /\ \A k \in DOMAIN parsed.subgraphs :
              KeyOf("subgraphs", parsed.subgraphs[k]) \in DOMAIN given.subgraphs
         /\ \A k \in DOMAIN parsed.tokens :
              KeyOf("tokens", parsed.tokens[k]) \in DOMAIN given.tokens
<1>1. \A k \in DOMAIN parsed.orders :
        KeyOf("orders", parsed.orders[k]) \in DOMAIN parsed.orders
  BY KeyFound DEF Searched
<1>2. \A k \in DOMAIN parsed.deployers :
        KeyOf("deployers", parsed.deployers[k]) \in DOMAIN parsed.deployers
  BY KeyFound DEF Searched
<1>3. \A k \in DOMAIN parsed.orderbooks :
        KeyOf("orderbooks", parsed.orderbooks[k]) \in DOMAIN parsed.orderbooks
  BY KeyFound DEF Searched
<1>4. \A k \in DOMAIN parsed.subgraphs :
        KeyOf("subgraphs", parsed.subgraphs[k]) \in DOMAIN parsed.subgraphs
  BY KeyFound DEF Searched
<1>5. \A k \in DOMAIN parsed.tokens :
        KeyOf("tokens", parsed.tokens[k]) \in DOMAIN parsed.tokens
  BY KeyFound DEF Searched
<1> QED BY <1>1, <1>2, <1>3, <1>4, <1>5, ParsedFields

(* The scenario and the order of a deployment                              *)
LEMMA DeploymentGiven ==
  ASSUME Given, NEW n \in DOMAIN given.deployments
  PROVE  LET d == parsed.deployments[n]
             p == given.deployments[n].scenario
             o == given.deployments[n].order
         IN  /\ p \in DOMAIN given.scenarios /\ o \in DOMAIN given.orders
             /\ d.scenario = Scenario(given, p) /\ d.scenario.name = p
             /\ d.order = Order(given, o) /\ d.order = parsed.orders[o]
<1>1. parsed.deployments[n] = Deployment(given, n)
  BY ParsedFields
<1>2. DeploymentResolves(given, n)
  BY DEF Given, Resolvable
<1> QED BY <1>1, <1>2, ParsedFields DEF Deployment, DeploymentResolves, Scenario

(* What a deployment uses is in the source.                                *)
LEMMA DeployersGiven ==
  ASSUME Given, NEW n \in DOMAIN given.deployments,
         NEW v \in DeployersOf(parsed.deployments[n])
  PROVE  \E k \in DOMAIN given.deployers : v = Deployer(given, k)
<1> DEFINE d == parsed.deployments[n]
           p == given.deployments[n].scenario
           o == given.deployments[n].order
<1>1. /\ p \in DOMAIN given.scenarios /\ o \in DOMAIN given.orders
      /\ d.scenario = Scenario(given, p) /\ d.order = Order(given, o)
  BY DeploymentGiven
<1>2. CASE v = ScenarioDeployer(given, p)
  <2>1. v # None
    BY <1>1, <1>2 DEF Given, Resolvable, ScenariosResolve, HaveDeployers
  <2>2. p \in Seq(STRING)
    BY <1>1 DEF Given, IsSource
  <2>3. Saying(given, p) # {} /\ Saying(given, p) \in SUBSET Around(p)
    BY <1>2, <2>1, SayingFacts DEF Saying
  <2>4. Innermost(Saying(given, p)) \in Saying(given, p)
    BY <2>2, <2>3, InnermostFacts
  <2>5. DeployerName(given, Innermost(Saying(given, p))) \in DOMAIN given.deployers
    BY <2>4 DEF Saying
  <2> QED BY <1>2, <2>3, <2>5, SayingFacts
<1>3. CASE v \in {Order(given, o).deployer} \ {None}
  <2>1. given.orders[o].deployer \in Opt(DOMAIN given.deployers)
    BY <1>1 DEF Given, Resolvable, OrderResolves
  <2>2. v = Deployer(given, given.orders[o].deployer)
        /\ given.orders[o].deployer # None
    BY <1>3 DEF Order
  <2> QED BY <2>1, <2>2 DEF Opt
<1> QED BY <1>1, <1>2, <1>3 DEF DeployersOf, Scenario

LEMMA OrderbooksGiven ==
  ASSUME Given, NEW n \in DOMAIN given.deployments,
         NEW v \in OrderbooksOf(parsed.deployments[n])
  PROVE  \E k \in DOMAIN given.orderbooks : v = Orderbook(given, k)
<1> DEFINE o == given.deployments[n].order
<1>1. /\ o \in DOMAIN given.orders
      /\ parsed.deployments[n].order = Order(given, o)
  BY DeploymentGiven
<1>2. given.orders[o].orderbook \in Opt(DOMAIN given.orderbooks)
  BY <1>1 DEF Given, Resolvable, OrderResolves
<1>3. v = Order(given, o).orderbook /\ v # None
  BY <1>1 DEF OrderbooksOf
<1>4. v = Orderbook(given, given.orders[o].orderbook)
      /\ given.orders[o].orderbook # None
  BY <1>3 DEF Order
<1> QED BY <1>2, <1>4 DEF Opt

LEMMA TokensGiven ==
  ASSUME Given, NEW n \in DOMAIN given.deployments,
         NEW v \in TokensOf(parsed.deployments[n].order)
  PROVE  \E k \in DOMAIN given.tokens : v = Token(given, k)
<1> DEFINE o == given.deployments[n].order
           s == given.orders[o]
<1>1. /\ o \in DOMAIN given.orders
      /\ parsed.deployments[n].order = Order(given, o)
  BY DeploymentGiven
<1>2. IOTokens(s) \subseteq DOMAIN given.tokens
  BY <1>1 DEF Given, Resolvable, OrderResolves
<1>3. /\ Order(given, o).inputs = OrderIO(given, s.inputs)
      /\ Order(given, o).outputs = OrderIO(given, s.outputs)
  BY DEF Order
<1>4. ASSUME NEW io
      PROVE  /\ DOMAIN OrderIO(given, io) = DOMAIN io
             /\ \A i \in DOMAIN io :
                  OrderIO(given, io)[i].token = Token(given, io[i].token)
  BY DEF OrderIO
<1>5. \/ \E i \in DOMAIN s.inputs : v = Token(given, s.inputs[i].token)
      \/ \E i \in DOMAIN s.outputs : v = Token(given, s.outputs[i].token)
  <2>1. \E io \in Elements(OrderIO(given, s.inputs))
                  \cup Elements(OrderIO(given, s.outputs)) : v = io.token
    BY <1>1, <1>3 DEF TokensOf
  <2>2. ASSUME NEW x, NEW io \in Elements(OrderIO(given, x))
        PROVE  \E i \in DOMAIN x : io.token = Token(given, x[i].token)
    BY <1>4 DEF Elements
  <2> QED BY <2>1, <2>2
<1>6. /\ \A i \in DOMAIN s.inputs : s.inputs[i].token \in IOTokens(s)
      /\ \A i \in DOMAIN s.outputs : s.outputs[i].token \in IOTokens(s)
  BY DEF IOTokens
<1> HIDE DEF s
<1> QED BY <1>2, <1>5, <1>6

(* So are the networks of all that.                                        *)
LEMMA PartNetworksGiven ==
  ASSUME Given
  PROVE  /\ \A k \in DOMAIN given.deployers :
              \E m \in DOMAIN given.networks :
                Deployer(given, k).network = Network(given, m)
         /\ \A k \in DOMAIN given.orderbooks :
              \E m \in DOMAIN given.networks :
                Orderbook(given, k).network = Network(given, m)
         /\ \A k \in DOMAIN given.tokens :
              \E m \in DOMAIN given.networks :
                Token(given, k).network = Network(given, m)
BY DEF Given, Resolvable, Deployer, DeployerResolves, Orderbook,
       OrderbookResolves, Token, TokenResolves

LEMMA NetworksGiven ==
  ASSUME Given, NEW n \in DOMAIN given.deployments,
         NEW v \in NetworksOf(parsed.deployments[n])
  PROVE  \E k \in DOMAIN given.networks : v = Network(given, k)
<1> DEFINE d == parsed.deployments[n]
           o == given.deployments[n].order
           s == given.orders[o]
<1>1. o \in DOMAIN given.orders /\ d.order = Order(given, o)
  BY DeploymentGiven
<1>2. CASE \E u \in TokensOf(d.order) \cup DeployersOf(d) \cup OrderbooksOf(d) :
             v = u.network
  <2>1. PICK u \in TokensOf(d.order) \cup DeployersOf(d) \cup OrderbooksOf(d) :
          v = u.network
    BY <1>2
  <2>2. \/ \E k \in DOMAIN given.tokens : u = Token(given, k)
        \/ \E k \in DOMAIN given.deployers : u = Deployer(given, k)
        \/ \E k \in DOMAIN given.orderbooks : u = Orderbook(given, k)
    BY TokensGiven, DeployersGiven, OrderbooksGiven
  <2> QED BY <2>1, <2>2, PartNetworksGiven
<1>3. CASE v = Order(given, o).network
  <2>1. OrderResolves(given, o) /\ IsSource(given)
    BY <1>1 DEF Given, Resolvable
  <2>2. OrderNetworks(given, s) # {}
    BY <2>1, FS_EmptySet DEF OrderResolves
  <2>3. v \in OrderNetworks(given, s)
    BY <1>1, <1>3, <2>1, <2>2, SingleNetwork
  <2>4. /\ s.deployer \in Opt(DOMAIN given.deployers)
        /\ s.orderbook \in Opt(DOMAIN given.orderbooks)
        /\ IOTokens(s) \subseteq DOMAIN given.tokens
    BY <2>1 DEF OrderResolves
  <2> HIDE DEF s
  <2>5. \/ \E k \in DOMAIN given.tokens : v = Token(given, k).network
        \/ \E k \in DOMAIN given.deployers : v = Deployer(given, k).network
        \/ \E k \in DOMAIN given.orderbooks : v = Orderbook(given, k).network
    BY <2>3, <2>4 DEF OrderNetworks, Opt
  <2> QED BY <2>5, PartNetworksGiven
<1> QED BY <1>1, <1>2, <1>3 DEF NetworksOf

(* What is copied for a deployment is in the source.                       *)
LEMMA CopiedGiven ==
  ASSUME Given, NEW n \in DOMAIN given.deployments
  PROVE  /\ DOMAIN Copied(n) = CopiedSections
         /\ \A f \in CopiedSections : Copied(n)[f] \subseteq DOMAIN given[f]
<1> DEFINE d == parsed.deployments[n]
           c == Copied(n)
<1>1. /\ c.deployments = {n} /\ c.scenarios = Tree(d.scenario.name)
      /\ c.orders = {KeyOf("orders", v) : v \in {d.order}}
      /\ c.deployers = {KeyOf("deployers", v) : v \in DeployersOf(d)}
      /\ c.networks = {v.name : v \in NetworksOf(d)}
      /\ c.orderbooks = {KeyOf("orderbooks", v) : v \in OrderbooksOf(d)}
      /\ c.subgraphs =
           {KeyOf("subgraphs", u) : u \in {v.subgraph : v \in OrderbooksOf(d)}}
      /\ c.tokens = {KeyOf("tokens", v) : v \in TokensOf(d.order)}
      /\ c.charts = ChartsOf(d)
      /\ DOMAIN c = CopiedSections
  BY DEF Copied, CopiedSections, Searched
<1> HIDE DEF c
<1>2. c.deployments \subseteq DOMAIN given.deployments
  BY <1>1
<1>3. c.scenarios \subseteq DOMAIN given.scenarios
  BY <1>1 DEF Tree
<1>4. c.charts \subseteq DOMAIN given.charts
  BY <1>1, ParsedFields DEF ChartsOf
<1>5. c.orders \subseteq DOMAIN given.orders
  <2>1. \E o \in DOMAIN parsed.orders : d.order = parsed.orders[o]
    BY DeploymentGiven, ParsedFields
  <2> QED BY <1>1, <2>1, KeysGiven
<1>6. c.deployers \subseteq DOMAIN given.deployers
  <2>1. ASSUME NEW v \in DeployersOf(d)
        PROVE  KeyOf("deployers", v) \in DOMAIN given.deployers
    <3>1. PICK k \in DOMAIN given.deployers : v = Deployer(given, k)
      BY DeployersGiven
    <3>2. k \in DOMAIN parsed.deployers /\ parsed.deployers[k] = v
      BY <3>1, ParsedFields
    <3> QED BY <3>2, KeysGiven
  <2> QED BY <1>1, <2>1
<1>7. c.orderbooks \subseteq DOMAIN given.orderbooks
  <2>1. ASSUME NEW v \in OrderbooksOf(d)
        PROVE  KeyOf("orderbooks", v) \in DOMAIN given.orderbooks
    <3>1. PICK k \in DOMAIN given.orderbooks : v = Orderbook(given, k)
      BY OrderbooksGiven
    <3>2. k \in DOMAIN parsed.orderbooks /\ parsed.orderbooks[k] = v
      BY <3>1, ParsedFields
    <3> QED BY <3>2, KeysGiven
  <2> QED BY <1>1, <2>1
<1>8. c.tokens \subseteq DOMAIN given.tokens
  <2>1. ASSUME NEW v \in TokensOf(d.order)
        PROVE  KeyOf("tokens", v) \in DOMAIN given.tokens
    <3>1. PICK k \in DOMAIN given.tokens : v = Token(given, k)
      BY TokensGiven
    <3>2. k \in DOMAIN parsed.tokens /\ parsed.tokens[k] = v
      BY <3>1, ParsedFields
    <3> QED BY <3>2, KeysGiven
  <2> QED BY <1>1, <2>1
<1>9. c.subgraphs \subseteq DOMAIN given.subgraphs
  <2>1. ASSUME NEW v \in OrderbooksOf(d)
        PROVE  KeyOf("subgraphs", v.subgraph) \in DOMAIN given.subgraphs
    <3>1. PICK k \in DOMAIN given.orderbooks : v = Orderbook(given, k)
      BY OrderbooksGiven
    <3>2. OrderbookResolves(given, k)
      BY DEF Given, Resolvable
    <3>3. \E m \in DOMAIN parsed.subgraphs : v.subgraph = parsed.subgraphs[m]
      BY <3>1, <3>2, ParsedFields DEF Orderbook, OrderbookResolves
    <3> QED BY <3>3, KeysGiven
  <2> QED BY <1>1, <2>1
<1>10. c.networks \subseteq DOMAIN given.networks
  <2>1. \A k : Network(given, k).name = k
    BY DEF Network
  <2> QED BY <1>1, <2>1, NetworksGiven
<1> QED BY <1>1, <1>2, <1>3, <1>4, <1>5, <1>6, <1>7, <1>8, <1>9, <1>10
        DEF CopiedSections, Searched, c

(* What including a deployment does to each section                        *)
LEMMA IncludedSections ==
  ASSUME Given, NEW n \in DOMAIN given.deployments,
         DOMAIN cut = SourceFields, Part(cut, given)
  PROVE  LET new == WithCopied(n)
         IN  /\ DOMAIN new = SourceFields
             /\ Part(new, given)
             /\ \A f \in CopiedSections :
                  DOMAIN new[f] = DOMAIN cut[f] \cup Copied(n)[f]
             /\ \A f \in SourceFields \ CopiedSections : new[f] = cut[f]
<1> DEFINE new == WithCopied(n)
<1>1. CopiedSections \subseteq Sections /\ Sections \subseteq SourceFields
  BY DEF CopiedSections, Searched, Sections, SourceFields
<1>2. /\ DOMAIN new = SourceFields
      /\ \A f \in CopiedSections :
           new[f] = Joined(cut[f], [k \in Copied(n)[f] |-> given[f][k]])
      /\ \A f \in SourceFields \ CopiedSections : new[f] = cut[f]
  BY <1>1, CopiedGiven DEF WithCopied
<1>3. ASSUME NEW f \in CopiedSections
      PROVE  /\ DOMAIN new[f] = DOMAIN cut[f] \cup Copied(n)[f]
             /\ \A k \in DOMAIN new[f] : new[f][k] = given[f][k]
  <2> DEFINE g == [k \in Copied(n)[f] |-> given[f][k]]
  <2>1. \A k \in DOMAIN cut[f] : cut[f][k] = given[f][k]
    BY <1>1 DEF Part
  <2>2. DOMAIN g = Copied(n)[f] /\ \A k \in DOMAIN g : g[k] = given[f][k]
    OBVIOUS
  <2>3. new[f] = Joined(cut[f], g)
    BY <1>2
  <2> HIDE DEF g, new
  <2>4. /\ DOMAIN new[f] = DOMAIN cut[f] \cup DOMAIN g
        /\ \A k \in DOMAIN new[f] :
             new[f][k] = IF k \in DOMAIN cut[f] THEN cut[f][k] ELSE g[k]
    BY <2>3 DEF Joined
  <2> QED BY <2>1, <2>2, <2>4
<1>4. Part(new, given)
  <2> HIDE DEF new
  <2>1. ASSUME NEW f \in Sections
        PROVE  /\ DOMAIN new[f] \subseteq DOMAIN given[f]
               /\ \A k \in DOMAIN new[f] : new[f][k] = given[f][k]
    <3>1. CASE f \in CopiedSections
      BY <1>3, <3>1, CopiedGiven DEF Part
    <3>2. CASE f \notin CopiedSections
      BY <1>1, <1>2, <3>2 DEF Part
    <3> QED BY <3>1, <3>2
  <2> QED BY <2>1 DEF Part
<1> QED BY <1>2, <1>3, <1>4

-----------------------------------------------------------------------------
(* The filter: the inductive invariant *)

Used(n) == n \in DOMAIN given.deployments /\ n \in Elements(request)

(* What came out was copied for a deployment asked for, scenarios come out *)
(* as whole trees, and the deployments that are no longer left have all    *)
(* that they use.                                                          *)
Justified ==
  \A f \in CopiedSections : \A k \in DOMAIN cut[f] :
    \E n \in DOMAIN given.deployments : Used(n) /\ k \in Copied(n)[f]
WholeTrees ==
  \A p \in DOMAIN cut.scenarios : Tree(p) \subseteq DOMAIN cut.scenarios
Included ==
  outcome \in {"running", "made"} =>
    \A n \in Elements(request) \ Elements(left) :
      /\ n \in DOMAIN given.deployments
      /\ \A f \in CopiedSections : Copied(n)[f] \subseteq DOMAIN cut[f]
MadeConverts == outcome = "made" => left = <<>> /\ Resolvable(cut)
OthersEmpty ==
  \A f \in SourceFields \ CopiedSections : cut[f] = DefaultSource[f]

FilterInv ==
  /\ Given
  /\ request \in Seq(STRING) /\ left \in Seq(STRING)
  /\ Elements(left) \subseteq Elements(request)
  /\ outcome \in {"running", "made", "failed", "panicked"}
  /\ DOMAIN cut = SourceFields /\ Part(cut, given)
  /\ Justified /\ WholeTrees /\ Included /\ MadeConverts /\ OthersEmpty

LEMMA FilterInitInv ==
  ASSUME FilterInit
  PROVE  FilterInv
<1>1. given \in FilterDocuments /\ Resolvable(given)
  BY DEF FilterInit
<1>2. IsSource(given) /\ request \in Seq(STRING) /\ left = request
  BY <1>1, FilterAssumption DEF FilterInit
<1>3. \A f \in Searched : found[f] \in Finds(f)
  BY DEF FilterInit, Searched
<1>4. cut = [f \in SourceFields |-> IF f \in Sections THEN <<>> ELSE None]
  BY DEF FilterInit, DefaultSource
<1>5. DOMAIN cut = SourceFields /\ \A f \in Sections : DOMAIN cut[f] = {}
  BY <1>4 DEF SourceFields
<1>6. CopiedSections \subseteq Sections /\ "scenarios" \in Sections
  BY DEF CopiedSections, Searched, Sections
<1>7. DOMAIN cut.scenarios = {}
  BY <1>5, <1>6
<1>8. outcome = "running"
  BY DEF FilterInit
<1>9. Justified
  BY <1>5, <1>6 DEF Justified
<1>10. WholeTrees
  BY <1>7 DEF WholeTrees
<1>11. Part(cut, given)
  BY <1>5 DEF Part
<1>12. Included /\ MadeConverts
  BY <1>2, <1>8 DEF Included, MadeConverts
<1>13. OthersEmpty
  BY <1>4 DEF OthersEmpty, DefaultSource
<1> QED BY <1>1, <1>2, <1>3, <1>5, <1>8, <1>9, <1>10, <1>11, <1>12, <1>13
        DEF FilterInv, Given

LEMMA HeadAndTail ==
  ASSUME NEW q \in Seq(STRING), q # <<>>
  PROVE  /\ Tail(q) \in Seq(STRING)
         /\ Elements(q) = {Head(q)} \cup Elements(Tail(q))
<1>1. /\ Tail(q) \in Seq(STRING) /\ Len(Tail(q)) = Len(q) - 1
      /\ \A i \in 1..Len(Tail(q)) : Tail(q)[i] = q[i + 1]
  BY HeadTailProperties
<1>2. /\ Len(q) \in Nat \ {0} /\ DOMAIN q = 1..Len(q) /\ Head(q) = q[1]
      /\ DOMAIN Tail(q) = 1..Len(Tail(q))
  BY <1>1
<1>3. \A i \in 1..Len(q) : i = 1 \/ (i - 1 \in DOMAIN Tail(q) /\ Tail(q)[i - 1] = q[i])
  BY <1>1, <1>2
<1>4. Elements(q) \subseteq {Head(q)} \cup Elements(Tail(q))
  BY <1>2, <1>3 DEF Elements
<1>5. \A i \in DOMAIN Tail(q) : i + 1 \in DOMAIN q /\ Tail(q)[i] = q[i + 1]
  BY <1>1, <1>2
<1>6. {Head(q)} \cup Elements(Tail(q)) \subseteq Elements(q)
  BY <1>2, <1>5 DEF Elements
<1> QED BY <1>1, <1>4, <1>6

(* The scenarios around one have its root.                                 *)
LEMMA AroundRoot ==
  ASSUME NEW p \in Seq(STRING), NEW q \in Around(p)
  PROVE  Root(q) = Root(p)
<1>1. PICK i \in 1..Len(p) : q = SubSeq(p, 1, i)
  BY DEF Around
<1>2. \A j \in 1..i : p[j] \in STRING
  OBVIOUS
<1>3. q[1] = p[1]
  BY <1>1, <1>2, SubSeqProperties
<1> QED BY <1>3 DEF Root

(* A tree of scenarios is the tree of each of them.                        *)
LEMMA TreeOfTree ==
  ASSUME NEW p, NEW q \in Tree(p)
  PROVE  Tree(q) = Tree(p)
BY DEF Tree

LEMMA IncludeKeepsInv ==
  ASSUME FilterInv, Include, Head(left) \in DOMAIN given.deployments
  PROVE  FilterInv'
<1> DEFINE n == Head(left)
<1>1. /\ outcome = "running" /\ outcome' = "running" /\ left # <<>>
      /\ left' = Tail(left) /\ cut' = WithCopied(n)
      /\ given' = given /\ request' = request /\ found' = found
  BY ParsedFields DEF Include
<1>2. Given /\ DOMAIN cut = SourceFields /\ Part(cut, given) /\ left \in Seq(STRING)
  BY DEF FilterInv
<1>3. /\ DOMAIN cut' = SourceFields /\ Part(cut', given)
      /\ \A f \in CopiedSections : DOMAIN cut'[f] = DOMAIN cut[f] \cup Copied(n)[f]
      /\ \A f \in SourceFields \ CopiedSections : cut'[f] = cut[f]
  BY <1>1, <1>2, IncludedSections
<1>4. /\ left' \in Seq(STRING)
      /\ Elements(left) = {n} \cup Elements(left')
  BY <1>1, <1>2, HeadAndTail
<1>5. Used(n)
  BY <1>4 DEF FilterInv, Used
<1>6. /\ \A m : Copied(m)' = Copied(m)
      /\ \A m : Used(m)' <=> Used(m)
      /\ \A p : Tree(p)' = Tree(p)
      /\ Given'
  <2>1. \A f : Finds(f)' = Finds(f)
    BY <1>1 DEF Finds, parsed
  <2> QED BY <1>1, <1>2, <2>1 DEF Copied, Used, Tree, parsed, KeyOf, ChartsOf, Given
<1>7. Justified'
  <2>1. Justified
    BY DEF FilterInv
  <2>2. ASSUME NEW f \in CopiedSections, NEW k \in DOMAIN cut'[f]
        PROVE  \E m \in DOMAIN given.deployments : Used(m) /\ k \in Copied(m)[f]
    <3>1. k \in DOMAIN cut[f] \/ k \in Copied(n)[f]
      BY <1>3
    <3> QED BY <1>5, <2>1, <3>1 DEF Justified
  <2> QED BY <1>1, <1>6, <2>2 DEF Justified
<1>8. WholeTrees'
  <2>1. DOMAIN cut'.scenarios
          = DOMAIN cut.scenarios \cup Tree(parsed.deployments[n].scenario.name)
    <3>1. "scenarios" \in CopiedSections
      BY DEF CopiedSections
    <3>2. Copied(n).scenarios = Tree(parsed.deployments[n].scenario.name)
      BY DEF Copied
    <3> QED BY <1>3, <3>1, <3>2
  <2>2. WholeTrees
    BY DEF FilterInv
  <2>3. \A p \in DOMAIN cut'.scenarios : Tree(p) \subseteq DOMAIN cut'.scenarios
    BY <2>1, <2>2, TreeOfTree DEF WholeTrees
  <2> QED BY <1>6, <2>3 DEF WholeTrees
<1>9. Included'
  <2>1. Included
    BY DEF FilterInv
  <2>2. ASSUME NEW m \in Elements(request) \ Elements(left')
        PROVE  /\ m \in DOMAIN given.deployments
               /\ \A f \in CopiedSections : Copied(m)[f] \subseteq DOMAIN cut'[f]
    <3>1. CASE m = n
      BY <1>3, <3>1
    <3>2. CASE m # n
      BY <1>1, <1>3, <1>4, <2>1, <3>2 DEF Included
    <3> QED BY <3>1, <3>2
  <2> QED BY <1>1, <1>6, <2>2 DEF Included
<1>10. MadeConverts'
  BY <1>1 DEF MadeConverts
<1>11. Elements(left') \subseteq Elements(request)
  BY <1>4 DEF FilterInv
<1>12. OthersEmpty'
  BY <1>3 DEF FilterInv, OthersEmpty
<1> QED BY <1>1, <1>3, <1>4, <1>6, <1>7, <1>8, <1>9, <1>10, <1>11, <1>12
        DEF FilterInv

(* A step that leaves the new source as it is                              *)
LEMMA SameCutKeepsInv ==
  ASSUME FilterInv, UNCHANGED <<given, request, found, cut>>,
         left' \in Seq(STRING), Elements(left') \subseteq Elements(left),
         outcome' \in {"running", "made", "failed", "panicked"},
         outcome' \in {"running", "made"} =>
           left' = left /\ outcome \in {"running", "made"},
         outcome' = "made" => left = <<>> /\ Resolvable(cut)
  PROVE  FilterInv'
<1>1. Given /\ Justified /\ WholeTrees /\ Included
  BY DEF FilterInv
<1>2. /\ \A m : Copied(m)' = Copied(m)
      /\ \A m : Used(m)' <=> Used(m)
      /\ \A p : Tree(p)' = Tree(p)
      /\ Given'
  <2>1. \A f : Finds(f)' = Finds(f)
    BY DEF Finds, parsed
  <2> QED BY <1>1, <2>1 DEF Copied, Used, Tree, parsed, KeyOf, ChartsOf, Given
<1>3. Justified'
  BY <1>1, <1>2 DEF Justified
<1>4. WholeTrees'
  BY <1>1, <1>2 DEF WholeTrees
<1>5. Included'
  BY <1>1, <1>2 DEF Included
<1>6. MadeConverts'
  BY DEF MadeConverts
<1>7. OthersEmpty'
  BY DEF FilterInv, OthersEmpty
<1> QED BY <1>2, <1>3, <1>4, <1>5, <1>6, <1>7 DEF FilterInv

LEMMA FilterNextKeepsInv ==
  ASSUME FilterInv, [FilterNext]_filterVars
  PROVE  FilterInv'
<1>1. /\ left \in Seq(STRING)
      /\ outcome \in {"running", "made", "failed", "panicked"}
      /\ MadeConverts
  BY DEF FilterInv
<1>2. CASE Include /\ Head(left) \in DOMAIN given.deployments
  BY <1>2, IncludeKeepsInv
<1>3. CASE Include /\ Head(left) \notin DOMAIN given.deployments
  <2>1. /\ UNCHANGED <<given, request, found, cut>>
        /\ left # <<>> /\ left' = Tail(left) /\ outcome' = "failed"
    BY <1>3, ParsedFields DEF Include
  <2>2. left' \in Seq(STRING) /\ Elements(left') \subseteq Elements(left)
    BY <1>1, <2>1, HeadAndTail
  <2> QED BY <2>1, <2>2, SameCutKeepsInv
<1>4. CASE Rebuild
  <2>1. /\ UNCHANGED <<given, request, found, cut, left>>
        /\ left = <<>> /\ outcome = "running"
        /\ outcome' \in {"made", "failed", "panicked"}
        /\ outcome' = "made" => Resolvable(cut)
    BY <1>4 DEF Rebuild
  <2> QED BY <1>1, <2>1, SameCutKeepsInv
<1>5. CASE UNCHANGED filterVars
  <2>1. UNCHANGED <<given, request, found, cut, left, outcome>>
    BY <1>5 DEF filterVars
  <2> QED BY <1>1, <2>1, SameCutKeepsInv DEF MadeConverts
<1> QED BY <1>2, <1>3, <1>4, <1>5 DEF FilterNext

(* The new source is one at every step.                                    *)
LEMMA FilterTypes ==
  ASSUME FilterInv
  PROVE  FilterTypeOK
<1>1. /\ IsSource(given) /\ Part(cut, given) /\ DOMAIN cut = SourceFields
      /\ WholeTrees
  BY DEF FilterInv, Given
<1>2. ASSUME NEW p \in DOMAIN cut.scenarios
      PROVE  /\ p \in Seq(STRING) /\ p # <<>>
             /\ Around(p) \subseteq DOMAIN cut.scenarios
             /\ DOMAIN cut.scenarios[p] = {"deployer", "bindings"}
             /\ cut.scenarios[p].deployer \in Opt(STRING)
  <2>1. p \in DOMAIN given.scenarios /\ cut.scenarios[p] = given.scenarios[p]
    BY <1>1, PartFields
  <2>2. /\ p \in Seq(STRING) /\ p # <<>>
        /\ Around(p) \subseteq DOMAIN given.scenarios
        /\ DOMAIN given.scenarios[p] = {"deployer", "bindings"}
        /\ given.scenarios[p].deployer \in Opt(STRING)
    BY <1>1, <2>1 DEF IsSource
  <2>3. Around(p) \subseteq Tree(p)
    BY <2>2, AroundRoot DEF Tree
  <2> QED BY <1>1, <2>1, <2>2, <2>3 DEF WholeTrees
<1>3. /\ \A n \in DOMAIN cut.networks : cut.networks[n] \in NetworkSource
      /\ \A n \in DOMAIN cut.orderbooks : cut.orderbooks[n] \in OrderbookSource
      /\ \A n \in DOMAIN cut.tokens : cut.tokens[n] \in TokenSource
      /\ \A n \in DOMAIN cut.deployers : cut.deployers[n] \in DeployerSource
      /\ \A n \in DOMAIN cut.orders : cut.orders[n] \in OrderSource
      /\ \A n \in DOMAIN cut.deployments : cut.deployments[n] \in DeploymentSource
  BY <1>1, PartFields DEF IsSource
<1>4. /\ \A n \in DOMAIN cut.usingNetworksFrom :
           cut.usingNetworksFrom[n] \in RemoteSource
      /\ \A n \in DOMAIN cut.charts : cut.charts[n] \in ChartSource
  BY <1>1 DEF Part, Sections, IsSource
<1>5. IsSource(cut)
  BY <1>1, <1>2, <1>3, <1>4 DEF IsSource
<1> QED BY <1>1, <1>5 DEF FilterTypeOK, FilterInv, DefaultSource

-----------------------------------------------------------------------------
(* The filter: what comes out *)

LEMMA AllIncluded ==
  ASSUME FilterInv, outcome = "made"
  PROVE  /\ Resolvable(cut) /\ IsSource(cut) /\ Part(cut, given)
         /\ \A n \in Elements(request) :
              /\ n \in DOMAIN given.deployments
              /\ \A f \in CopiedSections : Copied(n)[f] \subseteq DOMAIN cut[f]
<1>1. left = <<>> /\ Resolvable(cut) /\ Included
  BY DEF FilterInv, MadeConverts
<1>2. Elements(left) = {}
  BY <1>1 DEF Elements
<1>3. IsSource(cut) /\ Part(cut, given)
  BY FilterTypes DEF FilterTypeOK, FilterInv
<1> QED BY <1>1, <1>2, <1>3 DEF Included

(* Where searches find the deployers that scenarios name, they come along. *)
LEMMA DistinctDeployerKept ==
  ASSUME FilterInv, outcome = "made", DeployersDistinct,
         NEW n \in Elements(request), NEW p \in DOMAIN cut.scenarios,
         p = given.deployments[n].scenario
  PROVE  ScenarioDeployer(cut, p) = ScenarioDeployer(given, p)
<1>1. /\ Given /\ Resolvable(cut) /\ IsSource(cut) /\ Part(cut, given)
      /\ n \in DOMAIN given.deployments
      /\ \A f \in CopiedSections : Copied(n)[f] \subseteq DOMAIN cut[f]
  BY AllIncluded DEF FilterInv
<1>2. p \in Seq(STRING) /\ Around(p) \subseteq DOMAIN cut.scenarios
  BY <1>1 DEF IsSource
<1> DEFINE d == parsed.deployments[n]
           v == ScenarioDeployer(given, p)
           x == DeployerName(given, Innermost(Saying(given, p)))
<1>3. d.scenario = Scenario(given, p) /\ p \in DOMAIN given.scenarios
  BY <1>1, DeploymentGiven
<1>4. v # None
  BY <1>1, <1>3 DEF Given, Resolvable, ScenariosResolve, HaveDeployers
<1>5. Saying(given, p) # {} /\ v = Deployer(given, x)
  BY <1>4, SayingFacts
<1>6. x \in DOMAIN given.deployers
  <2>1. Saying(given, p) \in SUBSET Around(p)
    BY DEF Saying
  <2>2. Innermost(Saying(given, p)) \in Saying(given, p)
    BY <1>2, <1>5, <2>1, InnermostFacts
  <2> QED BY <2>2 DEF Saying
<1> HIDE DEF x
<1>7. x \in DOMAIN parsed.deployers /\ parsed.deployers[x] = v
  BY <1>5, <1>6, ParsedFields
<1>8. KeyOf("deployers", v) = x
  <2>1. "deployers" \in Searched
    BY DEF Searched
  <2>2. found["deployers"] = DOMAIN parsed["deployers"]
    BY DEF DeployersDistinct
  <2> QED BY <1>1, <1>7, <2>1, <2>2, KeyFound
<1>9. x \in Copied(n).deployers
  <2>1. v \in DeployersOf(d)
    BY <1>3 DEF DeployersOf, Scenario
  <2>2. Copied(n).deployers = {KeyOf("deployers", u) : u \in DeployersOf(d)}
    BY DEF Copied
  <2> HIDE DEF v, d
  <2> QED BY <1>8, <2>1, <2>2
<1>10. x \in DOMAIN cut.deployers
  <2>1. "deployers" \in CopiedSections
    BY DEF CopiedSections, Searched
  <2> QED BY <1>1, <1>9, <2>1
<1> QED BY <1>1, <1>2, <1>5, <1>10, PartHasInnermost DEF x

(* And where all scenarios of a tree have one deployer, so have those kept.*)
LEMMA OneDeployerKept ==
  ASSUME FilterInv, outcome = "made", OneDeployerPerTree,
         NEW p \in DOMAIN cut.scenarios
  PROVE  ScenarioDeployer(cut, p) = ScenarioDeployer(given, p)
<1>1. /\ IsSource(given) /\ Resolvable(cut) /\ IsSource(cut)
      /\ Part(cut, given)
  BY AllIncluded DEF FilterInv, Given
<1>2. /\ p \in Seq(STRING) /\ Around(p) \subseteq DOMAIN cut.scenarios
      /\ p \in DOMAIN given.scenarios
  BY <1>1, PartFields DEF IsSource
<1>3. Around(p) \subseteq DOMAIN given.scenarios
  BY <1>1, <1>2 DEF IsSource
<1>4. ASSUME NEW q \in Around(p)
      PROVE  ScenarioDeployer(given, q) = ScenarioDeployer(given, p)
  <2>1. Root(q) = Root(p)
    BY <1>2, AroundRoot
  <2>2. /\ ScenarioDeployer(given, q) = ScenarioDeployer(given, Root(q))
        /\ ScenarioDeployer(given, p) = ScenarioDeployer(given, Root(p))
    BY <1>2, <1>3 DEF OneDeployerPerTree
  <2> QED BY <2>1, <2>2
<1> QED BY <1>1, <1>2, <1>4, PartOfOneDeployer

LEMMA DeploymentsCome ==
  ASSUME FilterInv
  PROVE  DeploymentsUnchanged
<1> SUFFICES ASSUME outcome = "made"
             PROVE  /\ DOMAIN cut.deployments = Elements(request)
                    /\ DeployersDistinct \/ OneDeployerPerTree =>
                         \A n \in Elements(request) :
                           Config(cut).deployments[n] = parsed.deployments[n]
  BY DEF DeploymentsUnchanged
<1>1. /\ Given /\ Resolvable(cut) /\ IsSource(cut) /\ Part(cut, given)
      /\ \A n \in Elements(request) :
           /\ n \in DOMAIN given.deployments
           /\ \A f \in CopiedSections : Copied(n)[f] \subseteq DOMAIN cut[f]
  BY AllIncluded DEF FilterInv
<1>2. "deployments" \in CopiedSections /\ \A n : Copied(n).deployments = {n}
  BY DEF CopiedSections, Copied
<1>3. Elements(request) \subseteq DOMAIN cut.deployments
  BY <1>1, <1>2
<1>4. DOMAIN cut.deployments \subseteq Elements(request)
  BY <1>2 DEF FilterInv, Justified, Used
<1>5. ASSUME DeployersDistinct \/ OneDeployerPerTree,
             NEW n \in Elements(request)
      PROVE  Config(cut).deployments[n] = parsed.deployments[n]
  <2> DEFINE p == given.deployments[n].scenario
             o == given.deployments[n].order
  <2>1. /\ n \in DOMAIN given.deployments /\ n \in DOMAIN cut.deployments
        /\ cut.deployments[n] = given.deployments[n]
    BY <1>1, <1>3, PartFields
  <2>2. p \in DOMAIN cut.scenarios /\ o \in DOMAIN cut.orders
    BY <1>1, <2>1 DEF Resolvable, DeploymentResolves
  <2>3. Config(cut).deployments[n] = Deployment(cut, n)
    BY <2>1 DEF Config
  <2>4. parsed.deployments[n] = Deployment(given, n)
    BY <2>1, ParsedFields
  <2>5. Order(cut, o) = Order(given, o)
    BY <1>1, <2>2, PartOrders
  <2>6. ScenarioDeployer(cut, p) = ScenarioDeployer(given, p)
    BY <1>5, <2>2, DistinctDeployerKept, OneDeployerKept
  <2>7. ScenarioBindings(cut, p) = ScenarioBindings(given, p)
    <3>1. p \in Seq(STRING) /\ Around(p) \subseteq DOMAIN cut.scenarios
      BY <1>1, <2>2 DEF IsSource
    <3>2. \A q \in Around(p) : OwnBindings(cut, q) = OwnBindings(given, q)
      BY <1>1, <3>1, PartFields DEF OwnBindings
    <3> QED BY <3>1, <3>2, SameBindings
  <2>8. Scenario(cut, p) = Scenario(given, p)
    BY <2>6, <2>7 DEF Scenario
  <2> QED BY <2>1, <2>3, <2>4, <2>5, <2>8 DEF Deployment
<1> QED BY <1>3, <1>4, <1>5

(* A value that a section has is also the one of the key found for it.     *)
LEMMA FoundValue ==
  ASSUME Given, NEW f \in Searched, NEW v, \E k \in DOMAIN parsed[f] : v = parsed[f][k]
  PROVE  parsed[f][KeyOf(f, v)] = v
BY KeyFound

(* The entries copied for a deployment have the values that it uses.       *)
LEMMA CopiedUsed ==
  ASSUME Given, NEW n \in DOMAIN given.deployments,
         NEW f \in CopiedSections, NEW k \in Copied(n)[f]
  PROVE  parsed[f][k] \in UsedBy(parsed.deployments[n])[f]
<1> DEFINE d == parsed.deployments[n]
<1>1. CASE f = "deployments"
  BY <1>1 DEF Copied, UsedBy
<1>2. CASE f = "scenarios"
  BY <1>2 DEF Copied, UsedBy
<1>3. CASE f = "charts"
  BY <1>3 DEF Copied, UsedBy
<1>4. CASE f = "networks"
  <2>1. PICK v \in NetworksOf(d) : k = v.name
    BY <1>4 DEF Copied
  <2>2. PICK m \in DOMAIN given.networks : v = Network(given, m)
    BY NetworksGiven
  <2>3. parsed.networks[k] = v
    BY <2>1, <2>2, ParsedFields DEF Network
  <2> QED BY <1>4, <2>3 DEF UsedBy
<1>5. CASE f = "orders"
  <2>1. k = KeyOf("orders", d.order)
    BY <1>5 DEF Copied
  <2>2. \E o \in DOMAIN parsed.orders : d.order = parsed.orders[o]
    BY DeploymentGiven, ParsedFields
  <2>3. parsed.orders[k] = d.order
    BY <2>1, <2>2, FoundValue DEF Searched
  <2> QED BY <1>5, <2>3 DEF UsedBy
<1>6. CASE f = "deployers"
  <2>1. PICK v \in DeployersOf(d) : k = KeyOf("deployers", v)
    BY <1>6 DEF Copied
  <2>2. \E m \in DOMAIN parsed.deployers : v = parsed.deployers[m]
    <3>1. PICK m \in DOMAIN given.deployers : v = Deployer(given, m)
      BY DeployersGiven
    <3>2. m \in DOMAIN parsed.deployers /\ parsed.deployers[m] = v
      BY <3>1, ParsedFields
    <3> QED BY <3>2
  <2>3. parsed.deployers[k] = v
    BY <2>1, <2>2, FoundValue DEF Searched
  <2> QED BY <1>6, <2>3 DEF UsedBy
<1>7. CASE f = "orderbooks"
  <2>1. PICK v \in OrderbooksOf(d) : k = KeyOf("orderbooks", v)
    BY <1>7 DEF Copied
  <2>2. \E m \in DOMAIN parsed.orderbooks : v = parsed.orderbooks[m]
    <3>1. PICK m \in DOMAIN given.orderbooks : v = Orderbook(given, m)
      BY OrderbooksGiven
    <3>2. m \in DOMAIN parsed.orderbooks /\ parsed.orderbooks[m] = v
      BY <3>1, ParsedFields
    <3> QED BY <3>2
  <2>3. parsed.orderbooks[k] = v
    BY <2>1, <2>2, FoundValue DEF Searched
  <2> QED BY <1>7, <2>3 DEF UsedBy
<1>8. CASE f = "tokens"
  <2>1. PICK v \in TokensOf(d.order) : k = KeyOf("tokens", v)
    BY <1>8 DEF Copied
  <2>2. \E m \in DOMAIN parsed.tokens : v = parsed.tokens[m]
    <3>1. PICK m \in DOMAIN given.tokens : v = Token(given, m)
      BY TokensGiven
    <3>2. m \in DOMAIN parsed.tokens /\ parsed.tokens[m] = v
      BY <3>1, ParsedFields
    <3> QED BY <3>2
  <2>3. parsed.tokens[k] = v
    BY <2>1, <2>2, FoundValue DEF Searched
  <2> QED BY <1>8, <2>3 DEF UsedBy
<1>9. CASE f = "subgraphs"
  <2>1. PICK v \in OrderbooksOf(d) : k = KeyOf("subgraphs", v.subgraph)
    BY <1>9 DEF Copied
  <2>2. PICK m \in DOMAIN given.orderbooks : v = Orderbook(given, m)
    BY OrderbooksGiven
  <2>3. OrderbookResolves(given, m)
    BY DEF Given, Resolvable
  <2>4. \E g \in DOMAIN parsed.subgraphs : v.subgraph = parsed.subgraphs[g]
    BY <2>2, <2>3, ParsedFields DEF Orderbook, OrderbookResolves
  <2> QED BY <1>9, <2>1, <2>4, FoundValue DEF UsedBy, Searched
<1> QED BY <1>1, <1>2, <1>3, <1>4, <1>5, <1>6, <1>7, <1>8, <1>9
        DEF CopiedSections, Searched

LEMMA NothingElseComes ==
  ASSUME FilterInv
  PROVE  NothingElse
<1> DEFINE used == {parsed.deployments[n] : n \in Elements(request)}
<1>1. /\ Given /\ Justified /\ Part(cut, given) /\ OthersEmpty
      /\ CopiedSections \subseteq Sections
  BY DEF FilterInv, CopiedSections, Searched, Sections
<1>2. ASSUME NEW f \in CopiedSections, NEW k \in DOMAIN cut[f]
      PROVE  /\ cut[f][k] = given[f][k]
             /\ \E d \in used : parsed[f][k] \in UsedBy(d)[f]
  <2>1. PICK n \in DOMAIN given.deployments : Used(n) /\ k \in Copied(n)[f]
    BY <1>1 DEF Justified
  <2>2. parsed[f][k] \in UsedBy(parsed.deployments[n])[f]
    BY <1>1, <2>1, CopiedUsed
  <2>3. parsed.deployments[n] \in used
    BY <2>1 DEF Used
  <2>4. cut[f][k] = given[f][k]
    BY <1>1 DEF Part
  <2> QED BY <2>2, <2>3, <2>4
<1> QED BY <1>1, <1>2 DEF NothingElse, OthersEmpty

LEMMA FilterInvariance == FilterInit /\ [][FilterNext]_filterVars => []FilterInv
<1>1. FilterInit => FilterInv
  BY FilterInitInv
<1>2. FilterInv /\ [FilterNext]_filterVars => FilterInv'
  BY FilterNextKeepsInv
<1> QED BY <1>1, <1>2, PTL

(* filter_by_deployment makes what it was asked for, from any              *)
(* configuration and for any deployments, in whatever order the hash maps  *)
(* are searched, when deployers are all different or trees of scenarios    *)
(* have one each. And in every section, all that it makes has the value of *)
(* something that a deployment asked for uses.                             *)
THEOREM FilterMakesWhatWasAsked == FilterSpec => []FilteredAsAsked
<1>1. FilterInv => FilteredAsAsked
  BY DeploymentsCome, NothingElseComes DEF FilteredAsAsked
<1> QED BY <1>1, FilterInvariance, PTL DEF FilterSpec

(* Sources stay sources while a DotrainOrder is made and updated and       *)
(* another one is filtered.                                                *)
THEOREM DotrainTypesOK == DotrainSpec => []TypesOK
<1>1. DotrainInit => Inv /\ FilterInv
  BY InitInv, FilterInitInv DEF DotrainInit
<1>2. Inv /\ FilterInv /\ [DotrainNext]_<<vars, filterVars>> => (Inv /\ FilterInv)'
  <2> SUFFICES ASSUME Inv, FilterInv, [DotrainNext]_<<vars, filterVars>>
               PROVE  Inv' /\ FilterInv'
    OBVIOUS
  <2>1. [Next]_vars /\ [FilterNext]_filterVars
    BY DEF DotrainNext
  <2> QED BY <2>1, NextKeepsInv, FilterNextKeepsInv
<1>3. Inv /\ FilterInv => TypesOK
  BY FilterTypes DEF Inv, TypesOK
<1> QED BY <1>1, <1>2, <1>3, PTL DEF DotrainSpec

=============================================================================
