---------------------------- MODULE DotrainOrder ----------------------------
(***************************************************************************)
(* A DotrainOrder of the common crate: it is made from the front matter of *)
(* a dotrain and the application's settings, whose lists of networks it    *)
(* fetches one after the other, and it is changed by updates of its source *)
(* that each convert the whole source again.                               *)
(***************************************************************************)
EXTENDS Settings

CONSTANTS
  Documents,    \* the pairs of sources one may be made from
  Lists,        \* the chains that each URL answers with
  NewBindings,  \* the bindings a scenario may be given
  Addresses,    \* the addresses a token may be given
  VaultIds      \* the vault ids an input or output may be given

(* A chain of a list: its name, and its RPC addresses as they come.        *)
Chain == [shortName : STRING, rpc : Seq([url : STRING, usable : BOOLEAN])]

ASSUME DotrainAssumption ==
  /\ \A d \in Documents : \A s \in {d.main, d.top} :
       /\ IsSource(s)
       /\ \A r \in DOMAIN s.usingNetworksFrom :
            Lists[s.usingNetworksFrom[r].url] \in Seq(Chain)
  /\ Addresses \subseteq STRING
  /\ VaultIds \subseteq Nat

VARIABLES
  doc,          \* the document it is made from
  stage,        \* whose lists are being fetched, or how new() ended
  pending,      \* the lists not fetched yet of the source at this stage
  source,       \* config_source: until it is ready, the front matter
  top,          \* the settings, until they are merged
  config

vars == <<doc, stage, pending, source, top, config>>

NoConfig == Config(DefaultSource)

-----------------------------------------------------------------------------
(* Making it *)

(* Mutation: the lists of both sources are fetched for the main one.       *)
InitBoth ==
  /\ doc \in Documents
  /\ stage = "main"
  /\ source = doc.main
  /\ top = doc.top
  /\ pending = DOMAIN doc.main.usingNetworksFrom
                 \cup DOMAIN doc.top.usingNetworksFrom
  /\ config = NoConfig

(* try_from_string parses both sources and begins with the main one.       *)
Init ==
  /\ doc \in Documents
  /\ stage = "main"
  /\ source = doc.main
  /\ top = doc.top
  /\ pending = DOMAIN doc.main.usingNetworksFrom
  /\ config = NoConfig

Fail ==
  /\ stage' = "failed"
  /\ UNCHANGED <<doc, pending, source, top, config>>

Loading == IF stage = "main" THEN source ELSE top

(* One list is fetched, the HashMap says which.                            *)
FetchedList(r) == Lists[Loading.usingNetworksFrom[r].url]

Acceptable(r) ==
  /\ Loading.usingNetworksFrom[r].format = "chainid"
  /\ ~ConflictingNetworks(Loading.networks, FetchedList(r))

Fetch(r) ==
  LET loaded == [Loading EXCEPT !.networks =
                   WithChains(Loading.networks, FetchedList(r))]
  IN  /\ stage \in {"main", "top"} /\ r \in pending
      /\ IF Acceptable(r)
           THEN /\ pending' = pending \ {r}
                /\ IF stage = "main" THEN source' = loaded /\ top' = top
                                     ELSE top' = loaded /\ source' = source
                /\ UNCHANGED <<doc, stage, config>>
           ELSE Fail

(* The request fails, or what it answers does not parse.                   *)
FetchFails(r) == stage \in {"main", "top"} /\ r \in pending /\ Fail

MainFetched ==
  /\ stage = "main" /\ pending = {}
  /\ stage' = "top"
  /\ pending' = DOMAIN top.usingNetworksFrom
  /\ UNCHANGED <<doc, source, top, config>>

(* The two are merged and the result is converted.                         *)
Build ==
  /\ stage = "top" /\ pending = {}
  /\ IF MergeCollides(source, top) \/ ~Resolvable(Merged(source, top))
       THEN Fail
       ELSE /\ stage' = "ready"
            /\ source' = Merged(source, top)
            /\ config' = Config(source')
            /\ UNCHANGED <<doc, pending, top>>

-----------------------------------------------------------------------------
(* Updates *)

(* update_config_source keeps the new source also when it does not convert *)
(* and the config is then the old one.                                     *)
UpdateConfigSource(new) ==
  /\ stage = "ready"
  /\ source' = new
  /\ config' = IF Resolvable(new) THEN Config(new) ELSE config
  /\ UNCHANGED <<doc, stage, pending, top>>

(* Mutation: the bindings go to the root of the tree the scenario is in.   *)
UpdateRootBindings(p, bindings) ==
  /\ p \in DOMAIN source.scenarios
  /\ UpdateConfigSource(WithBindings(source, <<p[1]>>, bindings))

UpdateBindings(p, bindings) ==
  /\ p \in DOMAIN source.scenarios
  /\ UpdateConfigSource(WithBindings(source, p, bindings))

OrderOf(d) == source.deployments[d].order

HasOrder(d) ==
  d \in DOMAIN source.deployments /\ OrderOf(d) \in DOMAIN source.orders

PopulateVaultIds(d, id) ==
  HasOrder(d) /\ UpdateConfigSource(WithVaultIds(source, OrderOf(d), id))

UpdateTokenAddress(t, address) ==
  /\ t \in DOMAIN source.tokens
  /\ UpdateConfigSource(WithTokenAddress(source, t, address))

SetVaultId(d, side, i, id) ==
  /\ HasOrder(d)
  /\ i \in DOMAIN source.orders[OrderOf(d)][side]
  /\ UpdateConfigSource(WithVaultId(source, OrderOf(d), side, i, id))

Updates ==
  \/ \E p \in DOMAIN source.scenarios, b \in NewBindings :
       UpdateBindings(p, b)
  \/ \E d \in DOMAIN source.deployments, id \in VaultIds :
       PopulateVaultIds(d, id)
  \/ \E t \in DOMAIN source.tokens, a \in Addresses : UpdateTokenAddress(t, a)
  \/ \E d \in DOMAIN source.deployments, side \in {"inputs", "outputs"} :
       \E i \in DOMAIN source.orders[OrderOf(d)][side], id \in VaultIds :
         SetVaultId(d, side, i, id)

Next ==
  \/ \E r \in pending : Fetch(r) \/ FetchFails(r)
  \/ MainFetched
  \/ Build
  \/ Updates

Spec == Init /\ [][Next]_vars

-----------------------------------------------------------------------------
(* Properties *)

(* What the fields of a DotrainOrder can hold while it is made and after.  *)
TypeOK ==
  /\ doc \in Documents
  /\ stage \in {"main", "top", "ready", "failed"}
  /\ stage \in {"main", "top"} =>
       pending \subseteq DOMAIN Loading.usingNetworksFrom
  /\ IsSource(source) /\ IsSource(top)
  /\ DOMAIN config = DOMAIN NoConfig

(* The networks that lists offer, and those written down, with their URLs. *)
Offered(s, R) ==
  {<<c.shortName, ChainNetwork(c).rpc>> :
     c \in {d \in UNION {Elements(Lists[s.usingNetworksFrom[r].url]) :
                           r \in R} : Supported(d)}}

Said(networks) == {<<n, networks[n].rpc>> : n \in DOMAIN networks}

WithOffers(s) ==
  Said(s.networks) \cup Offered(s, DOMAIN s.usingNetworksFrom)

(* The supported networks of all lists and the networks written down are   *)
(* there, whatever the order the lists came in, and no other; so none has  *)
(* been dropped for one of the same name (try_from_string and merge).      *)
NetworksLoaded(c) ==
  Said(c.networks) = WithOffers(doc.main) \cup WithOffers(doc.top)

(* The inputs or outputs io of a source are those of an order in c.        *)
IOKept(c, io, kept) ==
  /\ DOMAIN kept = DOMAIN io
  /\ \A i \in DOMAIN io :
       /\ kept[i].token = c.tokens[io[i].token]
       /\ kept[i].vaultId \in {io[i].vaultId} \cup VaultIds

OrdersKept(s, c) ==
  \A n \in DOMAIN s.orders :
    /\ n \in DOMAIN c.orders
    /\ IOKept(c, s.orders[n].inputs, c.orders[n].inputs)
    /\ IOKept(c, s.orders[n].outputs, c.orders[n].outputs)
    /\ s.orders[n].deployer # None =>
         c.orders[n].deployer = c.deployers[s.orders[n].deployer]
    /\ s.orders[n].orderbook # None =>
         c.orders[n].orderbook = c.orderbooks[s.orders[n].orderbook]

ScenariosKept(s, c) ==
  \A p \in DOMAIN s.scenarios :
    /\ p \in DOMAIN c.scenarios
    /\ s.scenarios[p].deployer \in DOMAIN c.deployers \ {None} =>
         c.scenarios[p].deployer = c.deployers[s.scenarios[p].deployer]
    /\ \E b \in {s.scenarios[p].bindings} \cup NewBindings :
         \A k \in DOMAIN b : /\ k \in DOMAIN c.scenarios[p].bindings
                             /\ c.scenarios[p].bindings[k] = b[k]

PartsKept(s, c) ==
  /\ \A n \in DOMAIN s.orderbooks :
       LET o == s.orderbooks[n]
       IN  /\ n \in DOMAIN c.orderbooks
           /\ c.orderbooks[n] = [address |-> o.address,
                                 network |-> c.networks[Ref(o.network, n)],
                                 subgraph |-> c.subgraphs[Ref(o.subgraph, n)]]
  /\ \A n \in DOMAIN s.tokens :
       /\ n \in DOMAIN c.tokens
       /\ c.tokens[n].network = c.networks[s.tokens[n].network]
       /\ c.tokens[n].address \in {s.tokens[n].address} \cup Addresses
  /\ \A n \in DOMAIN s.deployers :
       LET d == s.deployers[n]
       IN  /\ n \in DOMAIN c.deployers
           /\ c.deployers[n] = [address |-> d.address, label |-> d.label,
                                network |-> c.networks[Ref(d.network, n)]]

(* No section of a ready configuration has lost an entry of either source, *)
(* and no entry has become another one's: each says what the source says,  *)
(* of the entries of the names the source says, but for the values that    *)
(* updates give. The merge refuses equal names, in every section.          *)
NothingOverwritten(c) ==
  \A s \in {doc.main, doc.top} :
    /\ \A f \in {"subgraphs", "metaboards"} : \A n \in DOMAIN s[f] :
         n \in DOMAIN c[f] /\ c[f][n] = s[f][n]
    /\ PartsKept(s, c) /\ OrdersKept(s, c) /\ ScenariosKept(s, c)
    /\ \A n \in DOMAIN s.charts :
         /\ n \in DOMAIN c.charts
         /\ c.charts[n].scenario = c.scenarios[ChartScenario(s, n)]
    /\ \A n \in DOMAIN s.deployments :
         /\ n \in DOMAIN c.deployments
         /\ c.deployments[n].scenario = c.scenarios[s.deployments[n].scenario]
         /\ c.deployments[n].order = c.orders[s.deployments[n].order]
    /\ s.accounts # None => \A n \in DOMAIN s.accounts :
         n \in DOMAIN c.accounts /\ c.accounts[n] = s.accounts[n]
    /\ s.sentry # None => c.sentry = s.sentry

(* Making an order loses nothing of its two sources.                       *)
NothingLost ==
  stage = "ready" => NetworksLoaded(config) /\ NothingOverwritten(config)

OnOneNetwork(o) ==
  /\ \A io \in Elements(o.inputs) \cup Elements(o.outputs) :
       io.token.network = o.network
  /\ o.orderbook # None => o.orderbook.network = o.network
  /\ o.deployer # None => o.deployer.network = o.network

(* Everything in an order of a configuration is on the order's network,    *)
(* and a deployment whose order names a deployer is run by that deployer,  *)
(* after any updates (try_into_order, try_into_deployment).                *)
OrdersOnOneNetwork ==
  stage = "ready" =>
    /\ \A n \in DOMAIN config.orders : OnOneNetwork(config.orders[n])
    /\ \A n \in DOMAIN config.deployments :
         LET d == config.deployments[n]
         IN  d.order.deployer \in {None, d.scenario.deployer}

(* A scenario has every binding of the scenarios above it with the value   *)
(* it has there, also after the bindings of one of them are replaced.      *)
Inherited(parent, child) ==
  \A k \in DOMAIN parent.bindings :
    k \in DOMAIN child.bindings /\ child.bindings[k] = parent.bindings[k]
BindingsInherited ==
  stage = "ready" =>
    \A p \in DOMAIN config.scenarios :
      Len(p) > 1 =>
        Inherited(config.scenarios[Front(p)], config.scenarios[p])

(* An update that leaves a source that does not convert can be made good   *)
(* by another one: only the bindings of scenarios stand in the way.        *)
OnlyBindingsBreak ==
  stage = "ready" /\ ~Resolvable(source) =>
    /\ HaveDeployers(source) /\ ~NoneShadowed(source)
    /\ Resolvable([source EXCEPT !.scenarios =
         [p \in DOMAIN source.scenarios |->
            [source.scenarios[p] EXCEPT !.bindings = <<>>]]])

(* Scenarios have the bindings that they inherit, and only bindings can    *)
(* leave an order without a configuration, until they are made good.       *)
BindingsSound == BindingsInherited /\ OnlyBindingsBreak

(* A vault id that an order has is never replaced but by set_vault_id of   *)
(* it alone, so that funds already in a vault stay with the order.         *)
Replaced(n, side, i) ==
  /\ source.orders[n][side][i].vaultId # None
  /\ source'.orders[n][side][i].vaultId # source.orders[n][side][i].vaultId
VaultIdsKept ==
  [][stage = "ready" =>
       \A n \in DOMAIN source.orders, side \in {"inputs", "outputs"} :
         \A i \in DOMAIN source.orders[n][side] :
           Replaced(n, side, i) =>
             \E d \in DOMAIN source.deployments, id \in VaultIds :
               OrderOf(d) = n /\ SetVaultId(d, side, i, id)]_vars

(* An update changes the deployments alone that have the order or token,   *)
(* or a scenario at or under the one it is about.                          *)
Inherits(d, p) ==
  LET q == source.deployments[d].scenario
  IN  Len(p) <= Len(q) /\ SubSeq(q, 1, Len(p)) = p
Same(d) == config'.deployments[d] = config.deployments[d]
UpdatesAreLocal ==
  [][stage = "ready" /\ Resolvable(source) =>
       \A d \in DOMAIN source.deployments :
         /\ \A p \in DOMAIN source.scenarios, b \in NewBindings :
              UpdateBindings(p, b) /\ ~Inherits(d, p) => Same(d)
         /\ \A t \in DOMAIN source.tokens, a \in Addresses :
              UpdateTokenAddress(t, a)
                /\ t \notin IOTokens(source.orders[OrderOf(d)]) => Same(d)
         /\ \A e \in DOMAIN source.deployments, id \in VaultIds :
              OrderOf(e) # OrderOf(d) =>
                /\ PopulateVaultIds(e, id) => Same(d)
                /\ \A i \in 1..2, side \in {"inputs", "outputs"} :
                     SetVaultId(e, side, i, id) => Same(d)]_vars

(* An update leaves alone what it is not about, vault ids above all.       *)
UpdatesKeepTheRest == VaultIdsKept /\ UpdatesAreLocal

=============================================================================
