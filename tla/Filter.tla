------------------------------- MODULE Filter -------------------------------
(***************************************************************************)
(* filter_by_deployment: the front matter of a DotrainOrder cut down to    *)
(* what some of its deployments need, one deployment after the other, and  *)
(* a new DotrainOrder made of it and of the body. What a deployment uses   *)
(* is looked up in the configuration by value, in the order of a HashMap,  *)
(* and copied from the source by the key found.                            *)
(***************************************************************************)
EXTENDS Settings

CONSTANTS
  FilterDocuments,  \* sources a DotrainOrder was made from
  Requests,         \* sequences of names of deployments to keep
  Bodies            \* what follows the front matter, cut at each "---"

ASSUME FilterAssumption ==
  /\ \A s \in FilterDocuments : IsSource(s)
  /\ Requests \subseteq Seq(STRING)

VARIABLES
  given,       \* config_source of the order that is filtered
  body, request,
  found,       \* the keys that searches by value find, per section
  left,        \* the deployments still to come
  cut,         \* new_config_source
  outcome      \* of the whole call

filterVars == <<given, body, request, found, left, cut, outcome>>

parsed == Config(given)

(* The sections searched by value, and all from which something is copied. *)
Searched == {"orders", "deployers", "orderbooks", "subgraphs", "tokens"}
CopiedSections ==
  Searched \cup {"deployments", "scenarios", "networks", "charts"}

(* A search goes through a HashMap in one order, so of the keys with one   *)
(* value it is always the same that is found.                              *)
Finds(f) ==
  {K \in SUBSET DOMAIN parsed[f] :
     \A k \in DOMAIN parsed[f] : \E l \in K :
       {m \in K : parsed[f][m] = parsed[f][k]} = {l}}

KeyOf(f, v) == CHOOSE k \in found[f] : parsed[f][k] = v

FilterInit ==
  /\ given \in {s \in FilterDocuments : Resolvable(s)}
  /\ body \in Bodies
  /\ request \in Requests
  /\ found \in [orders : Finds("orders"), deployers : Finds("deployers"),
                orderbooks : Finds("orderbooks"),
                subgraphs : Finds("subgraphs"), tokens : Finds("tokens")]
  /\ left = request
  /\ cut = DefaultSource
  /\ outcome = "running"

-----------------------------------------------------------------------------
(* What one deployment uses *)

Root(p) == <<p[1]>>

Tree(p) == {q \in DOMAIN given.scenarios : Root(q) = Root(p)}

(* The order is the one found, whatever its name.                          *)
TokensOf(o) ==
  {io.token : io \in Elements(o.inputs) \cup Elements(o.outputs)}
DeployersOf(d) == {d.scenario.deployer} \cup ({d.order.deployer} \ {None})
OrderbooksOf(d) == {d.order.orderbook} \ {None}

(* Mutation: the network of the deployer of the order alone.               *)
NetworksUsedByOrder(d) == {d.order.network}

NetworksOf(d) ==
  {v.network : v \in TokensOf(d.order) \cup DeployersOf(d) \cup OrderbooksOf(d)}
    \cup {d.order.network}

ChartsOf(d) ==
  {c \in DOMAIN parsed.charts :
     LET s == parsed.charts[c].scenario
     IN  \/ Root(s.name) = Root(d.scenario.name)
         \/ s.deployer.network \in NetworksOf(d)}

(* The keys copied for a deployment, per section *)
Copied(n) ==
  LET d == parsed.deployments[n]
      keys(f, S) == {KeyOf(f, v) : v \in S}
  IN  [deployments |-> {n},
       scenarios |-> Tree(d.scenario.name),
       orders |-> keys("orders", {d.order}),
       deployers |-> keys("deployers", DeployersOf(d)),
       networks |-> {v.name : v \in NetworksOf(d)},
       orderbooks |-> keys("orderbooks", OrderbooksOf(d)),
       subgraphs |-> keys("subgraphs", {v.subgraph : v \in OrderbooksOf(d)}),
       tokens |-> keys("tokens", TokensOf(d.order)),
       charts |-> ChartsOf(d)]

(* The new source with what a deployment uses added to it                  *)
WithCopied(n) ==
  [f \in DOMAIN cut |->
     IF f \in DOMAIN Copied(n)
       THEN Joined(cut[f], [k \in Copied(n)[f] |-> given[f][k]])
       ELSE cut[f]]

(* Mutation: a deployment that is not there is passed over.                *)
IncludeFound ==
  /\ outcome = "running" /\ left # <<>>
  /\ left' = Tail(left)
  /\ cut' = IF Head(left) \in DOMAIN parsed.deployments
              THEN WithCopied(Head(left)) ELSE cut
  /\ UNCHANGED <<given, body, request, found, outcome>>

Include ==
  /\ outcome = "running" /\ left # <<>>
  /\ left' = Tail(left)
  /\ IF Head(left) \in DOMAIN parsed.deployments
       THEN /\ cut' = WithCopied(Head(left))
            /\ outcome' = outcome
       ELSE /\ outcome' = "failed"
            /\ cut' = cut
  /\ UNCHANGED <<given, body, request, found>>

(* The new front matter and the piece of the dotrain after the first       *)
(* separator, body[1], make a DotrainOrder; without one, unwrap panics.    *)
Rebuild ==
  /\ outcome = "running" /\ left = <<>>
  /\ outcome' = IF body = <<>> THEN "panicked"
                ELSE IF Resolvable(cut) THEN "made" ELSE "failed"
  /\ UNCHANGED <<given, body, request, found, left, cut>>

FilterNext == Include \/ Rebuild

FilterSpec == FilterInit /\ [][FilterNext]_filterVars /\ WF_filterVars(FilterNext)

-----------------------------------------------------------------------------
(* Properties *)

(* The fields while the filter runs.                                       *)
FilterTypeOK ==
  /\ IsSource(given) /\ IsSource(cut)
  /\ outcome \in {"running", "made", "failed", "panicked"}
  /\ DOMAIN cut = DOMAIN DefaultSource

(* Every deployment asked for is in the new front matter and runs on the   *)
(* deployer it ran on, as the comment at filter.rs:26 says: it includes    *)
(* the deployments and their related fields. Not so when a search finds    *)
(* another deployer with the same value: a scenario whose deployer is not  *)
(* there takes the one of its parent.                                      *)
DeployersKept ==
  outcome = "made" =>
    \A n \in Elements(request) :
      Config(cut).deployments[n].scenario.deployer
        = parsed.deployments[n].scenario.deployer

(* Either of these keeps a scenario from taking another deployer.          *)
OneDeployerPerTree ==
  \A p \in DOMAIN given.scenarios :
    ScenarioDeployer(given, p) = ScenarioDeployer(given, Root(p))
DeployersDistinct == found.deployers = DOMAIN parsed.deployers

(* Each deployment asked for comes out with the scenario, the order, the   *)
(* addresses and the networks it had, whichever of several equal entries   *)
(* a search found, and no other deployment comes out. It takes deployers   *)
(* that are all different, or trees of scenarios on one deployer each.     *)
DeploymentsUnchanged ==
  outcome = "made" =>
    /\ DOMAIN cut.deployments = Elements(request)
    /\ DeployersDistinct \/ OneDeployerPerTree =>
         \A n \in Elements(request) :
           Config(cut).deployments[n] = parsed.deployments[n]

(* The values a deployment uses, per section                               *)
UsedBy(d) ==
  [deployments |-> {d},
   scenarios |-> {parsed.scenarios[p] : p \in Tree(d.scenario.name)},
   orders |-> {d.order}, deployers |-> DeployersOf(d),
   networks |-> NetworksOf(d), orderbooks |-> OrderbooksOf(d),
   subgraphs |-> {v.subgraph : v \in OrderbooksOf(d)},
   tokens |-> TokensOf(d.order),
   charts |-> {parsed.charts[c] : c \in ChartsOf(d)}]

(* Whatever comes out, in any section, is an entry of the source as it was *)
(* there, and its value one that a deployment asked for uses. (Where two   *)
(* entries have one value, it may be the one that no deployment names.)    *)
(* The sections that the filter does not know stay empty.                  *)
NothingElse ==
  outcome = "made" =>
    LET used == {parsed.deployments[n] : n \in Elements(request)}
    IN  /\ \A f \in CopiedSections : \A k \in DOMAIN cut[f] :
             /\ cut[f][k] = given[f][k]
             /\ \E d \in used : parsed[f][k] \in UsedBy(d)[f]
        /\ \A f \in SourceFields \ CopiedSections : cut[f] = DefaultSource[f]

(* What was asked for comes out as it was, and nothing that has another    *)
(* value than what it uses.                                                *)
FilteredAsAsked == DeploymentsUnchanged /\ NothingElse

(* When no two entries of a section are equal, the scenarios of one tree   *)
(* have one deployer, and the charts on the networks used show scenarios   *)
(* that are kept, the filter makes what was asked for.                     *)
Unaliased ==
  \A f \in DOMAIN found : found[f] = DOMAIN parsed[f]
ChartsKept ==
  \A c \in DOMAIN parsed.charts : \A n \in Elements(request) :
    c \in ChartsOf(parsed.deployments[n]) =>
      \E m \in Elements(request) :
        Root(parsed.charts[c].scenario.name)
          = Root(parsed.deployments[m].scenario.name)
PlainDocumentsFiltered ==
  /\ body # <<>>
  /\ Elements(request) \subseteq DOMAIN given.deployments
  /\ Unaliased /\ OneDeployerPerTree /\ ChartsKept
  => <>(outcome = "made")

=============================================================================
