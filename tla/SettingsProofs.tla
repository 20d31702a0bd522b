--------------------------- MODULE SettingsProofs ---------------------------
(***************************************************************************)
(* Lemmas about sources and what they convert to: which scenarios one is   *)
(* in, what updates change, and that they leave what a source needs to     *)
(* convert.                                                                *)
(***************************************************************************)
EXTENDS Settings, FiniteSetTheorems, WellFoundedInduction, SequenceTheorems, TLAPS

-----------------------------------------------------------------------------
(* Least numbers, innermost scenarios *)

(* There is a least of any numbers.                                        *)
LEMMA Least ==
  ASSUME NEW S \in SUBSET Nat, S # {}
  PROVE  \E n \in S : \A m \in S : n <= m
<1> DEFINE R == {ss \in Nat \X Nat : ss[1] < ss[2]}
<1>1. IsWellFoundedOn(R, Nat)
  BY NatLessThanWellFounded DEF OpToRel
<1>2. PICK x \in S : \A y \in S : <<y, x>> \notin R
  <2> HIDE DEF R
  <2> QED BY <1>1, WFMin
<1>3. ASSUME NEW y \in S PROVE x <= y
  <2>1. <<y, x>> \in Nat \X Nat
    OBVIOUS
  <2>2. ~(y < x)
    BY <1>2, <2>1
  <2> QED BY <2>2
<1> QED BY <1>3

LEMMA AroundFacts ==
  ASSUME NEW p \in Seq(STRING)
  PROVE  /\ \A q \in Around(p) : q \in Seq(STRING) /\ Len(q) \in 1..Len(p)
         /\ \A i \in 1..Len(p) : Len(SubSeq(p, 1, i)) = i
         /\ p # <<>> => p \in Around(p)
<1>1. ASSUME NEW i \in 1..Len(p)
      PROVE  SubSeq(p, 1, i) \in Seq(STRING) /\ Len(SubSeq(p, 1, i)) = i
  <2>1. \A j \in 1..i : p[j] \in STRING
    OBVIOUS
  <2> QED BY <2>1, SubSeqProperties
<1>2. SubSeq(p, 1, Len(p)) = p
  BY SubSeqFull
<1>3. p # <<>> => Len(p) \in 1..Len(p)
  OBVIOUS
<1> QED BY <1>1, <1>2, <1>3 DEF Around

(* Of scenarios around one the innermost is one of them, and the longest. *)
LEMMA InnermostFacts ==
  ASSUME NEW p \in Seq(STRING), NEW P \in SUBSET Around(p), P # {}
  PROVE  /\ Innermost(P) \in P
         /\ \A q \in P : Len(q) <= Len(Innermost(P))
<1> DEFINE S == {Len(p) - Len(q) : q \in P}
<1>1. \A q \in P : q \in Seq(STRING) /\ Len(q) \in 1..Len(p)
  BY AroundFacts
<1>2. S \in SUBSET Nat /\ S # {}
  BY <1>1
<1>3. PICK n \in S : \A m \in S : n <= m
  BY <1>2, Least
<1>4. PICK q \in P : n = Len(p) - Len(q)
  BY <1>3
<1>5. ASSUME NEW r \in P PROVE Len(r) <= Len(q)
  <2>1. Len(p) - Len(r) \in S
    OBVIOUS
  <2>2. Len(p) - Len(q) <= Len(p) - Len(r)
    BY <1>3, <1>4, <2>1
  <2>3. Len(r) \in Nat /\ Len(q) \in Nat /\ Len(p) \in Nat
    BY <1>1
  <2> QED BY <2>2, <2>3
<1>6. q \in P
  BY <1>4
<1> QED BY <1>5, <1>6 DEF Innermost

(* The scenarios around a child are those around its parent, and it.       *)
LEMMA AroundChild ==
  ASSUME NEW p \in Seq(STRING), Len(p) > 1
  PROVE  /\ Front(p) \in Seq(STRING) /\ Front(p) # <<>>
         /\ Around(p) = Around(Front(p)) \cup {p}
         /\ \A q \in Around(Front(p)) : Len(q) < Len(p)
<1> DEFINE f == Front(p)
           n == Len(p) - 1
<1>1. n \in 1..Len(p) /\ Len(p) \in 1..Len(p) /\ n + 1 = Len(p)
  OBVIOUS
<1>2. f \in Seq(STRING) /\ Len(f) = n
  <2>1. \A j \in 1..n : p[j] \in STRING
    OBVIOUS
  <2> QED BY <1>1, <2>1, SubSeqProperties DEF Front
<1>3. ASSUME NEW i \in 1..n
      PROVE  SubSeq(f, 1, i) = SubSeq(p, 1, i)
  <2>1. 1 \in 1..Len(p) /\ 1 \in 1..(n - 1 + 1) /\ i \in 1..(n - 1 + 1)
    BY <1>1
  <2>2. SubSeq(SubSeq(p, 1, n), 1, i) = SubSeq(p, 1 + 1 - 1, 1 + i - 1)
    BY <1>1, <1>2, <2>1, SubSeqOfSubSeq DEF Front
  <2> QED BY <2>2 DEF Front
<1>4. SubSeq(p, 1, Len(p)) = p
  BY SubSeqFull
<1>5. Around(p) = Around(f) \cup {p}
  <2>1. Around(f) = {SubSeq(p, 1, i) : i \in 1..n}
    BY <1>2, <1>3 DEF Around
  <2>2. 1..Len(p) = (1..n) \cup {Len(p)}
    BY <1>1
  <2>3. Around(p) = {SubSeq(p, 1, i) : i \in 1..n} \cup {SubSeq(p, 1, Len(p))}
    BY <2>2 DEF Around
  <2> QED BY <1>4, <2>1, <2>3
<1>6. \A q \in Around(f) : Len(q) < Len(p)
  <2>1. \A q \in Around(f) : Len(q) \in 1..n
    BY <1>2, AroundFacts
  <2> QED BY <1>1, <2>1
<1>7. f # <<>>
  BY <1>1, <1>2
<1> QED BY <1>2, <1>5, <1>6, <1>7

-----------------------------------------------------------------------------
(* Updates *)

(* What no update changes: what names what, and which deployer is said     *)
(* where.                                                                  *)
Alike(s, t) ==
  /\ \A f \in SourceFields \ {"scenarios", "orders", "tokens"} : t[f] = s[f]
  /\ DOMAIN t.tokens = DOMAIN s.tokens
  /\ \A n \in DOMAIN s.tokens : t.tokens[n].network = s.tokens[n].network
  /\ DOMAIN t.orders = DOMAIN s.orders
  /\ \A n \in DOMAIN s.orders : /\ IOTokens(t.orders[n]) = IOTokens(s.orders[n])
                                /\ t.orders[n].deployer = s.orders[n].deployer
                                /\ t.orders[n].orderbook = s.orders[n].orderbook
  /\ DOMAIN t.scenarios = DOMAIN s.scenarios
  /\ \A p \in DOMAIN s.scenarios :
       t.scenarios[p].deployer = s.scenarios[p].deployer

LEMMA AlikeSame ==
  ASSUME NEW s
  PROVE  /\ Alike(s, s)
         /\ \A t : Alike(s, t) => Alike(t, s)
         /\ \A t, u : Alike(s, t) /\ Alike(t, u) => Alike(s, u)
BY DEF Alike

LEMMA BindingsUpdated ==
  ASSUME NEW s, IsSource(s), NEW p \in DOMAIN s.scenarios, NEW bindings
  PROVE  LET t == WithBindings(s, p, bindings)
         IN  /\ IsSource(t) /\ Alike(s, t)
             /\ t.orders = s.orders /\ t.tokens = s.tokens
             /\ \A q \in DOMAIN s.scenarios \ {p} :
                  t.scenarios[q] = s.scenarios[q]
             /\ t.scenarios[p].bindings = bindings
<1> DEFINE t == WithBindings(s, p, bindings)
<1>1. DOMAIN s = SourceFields /\ "scenarios" \in SourceFields
  BY DEF IsSource, SourceFields, Sections
<1>2. /\ DOMAIN t = SourceFields
      /\ \A f \in SourceFields \ {"scenarios"} : t[f] = s[f]
      /\ t.scenarios = [s.scenarios EXCEPT ![p].bindings = bindings]
  BY <1>1 DEF WithBindings
<1>3. "bindings" \in DOMAIN s.scenarios[p] /\ "deployer" \in DOMAIN s.scenarios[p]
  BY DEF IsSource
<1> HIDE DEF t
<1>4. /\ DOMAIN t.scenarios = DOMAIN s.scenarios
      /\ \A q \in DOMAIN s.scenarios \ {p} : t.scenarios[q] = s.scenarios[q]
      /\ t.scenarios[p].deployer = s.scenarios[p].deployer
      /\ t.scenarios[p].bindings = bindings
      /\ DOMAIN t.scenarios[p] = DOMAIN s.scenarios[p]
  BY <1>2, <1>3
<1>5. \A q \in DOMAIN s.scenarios :
        /\ t.scenarios[q].deployer = s.scenarios[q].deployer
        /\ DOMAIN t.scenarios[q] = DOMAIN s.scenarios[q]
  BY <1>4
<1>6. \A f \in SourceFields \ {"scenarios"} : t[f] = s[f]
  BY <1>2
<1>7. /\ t.networks = s.networks /\ t.usingNetworksFrom = s.usingNetworksFrom
      /\ t.orderbooks = s.orderbooks /\ t.tokens = s.tokens
      /\ t.deployers = s.deployers /\ t.orders = s.orders
      /\ t.charts = s.charts /\ t.deployments = s.deployments
  BY <1>6 DEF SourceFields, Sections
<1>8. IsSource(t)
  BY <1>2, <1>4, <1>5, <1>7 DEF IsSource
<1>9. Alike(s, t)
  BY <1>4, <1>5, <1>6, <1>7 DEF Alike
<1> QED BY <1>4, <1>7, <1>8, <1>9 DEF t

LEMMA TokenUpdated ==
  ASSUME NEW s, IsSource(s), NEW n \in DOMAIN s.tokens, NEW address \in STRING
  PROVE  LET t == WithTokenAddress(s, n, address)
         IN  /\ IsSource(t) /\ Alike(s, t)
             /\ t.orders = s.orders /\ t.scenarios = s.scenarios
             /\ \A m \in DOMAIN s.tokens \ {n} : t.tokens[m] = s.tokens[m]
             /\ t.tokens[n].address = address
<1> DEFINE t == WithTokenAddress(s, n, address)
<1>1. DOMAIN s = SourceFields /\ "tokens" \in SourceFields
  BY DEF IsSource, SourceFields, Sections
<1>2. /\ DOMAIN t = SourceFields
      /\ \A f \in SourceFields \ {"tokens"} : t[f] = s[f]
      /\ t.tokens = [s.tokens EXCEPT ![n].address = address]
  BY <1>1 DEF WithTokenAddress
<1>3. s.tokens[n] \in TokenSource
  BY DEF IsSource
<1> HIDE DEF t
<1>4. /\ DOMAIN t.tokens = DOMAIN s.tokens
      /\ \A m \in DOMAIN s.tokens \ {n} : t.tokens[m] = s.tokens[m]
      /\ t.tokens[n] = [s.tokens[n] EXCEPT !.address = address]
  BY <1>2
<1>5. /\ t.tokens[n].network = s.tokens[n].network
      /\ t.tokens[n].address = address /\ t.tokens[n] \in TokenSource
  BY <1>3, <1>4 DEF TokenSource
<1>6. \A m \in DOMAIN t.tokens : /\ t.tokens[m].network = s.tokens[m].network
                                 /\ t.tokens[m] \in TokenSource
  BY <1>4, <1>5 DEF IsSource
<1>7. /\ t.networks = s.networks /\ t.usingNetworksFrom = s.usingNetworksFrom
      /\ t.orderbooks = s.orderbooks /\ t.scenarios = s.scenarios
      /\ t.deployers = s.deployers /\ t.orders = s.orders
      /\ t.charts = s.charts /\ t.deployments = s.deployments
  BY <1>2 DEF SourceFields, Sections
<1>8. IsSource(t)
  BY <1>2, <1>6, <1>7 DEF IsSource
<1>9. Alike(s, t)
  BY <1>2, <1>4, <1>6, <1>7 DEF Alike
<1> QED BY <1>4, <1>5, <1>7, <1>8, <1>9 DEF t

(* An order's inputs and outputs with other vault ids for the same tokens. *)
SameTokens(io, new) ==
  /\ new \in Seq(IOSource)
  /\ DOMAIN new = DOMAIN io
  /\ \A i \in DOMAIN io : new[i].token = io[i].token

(* The source s with other inputs and outputs for an order.                *)
WithIO(s, o, inputs, outputs) ==
  [s EXCEPT !.orders[o] = [@ EXCEPT !.inputs = inputs, !.outputs = outputs]]

LEMMA OrderUpdated ==
  ASSUME NEW s, IsSource(s), NEW o \in DOMAIN s.orders, NEW inputs, NEW outputs,
         SameTokens(s.orders[o].inputs, inputs),
         SameTokens(s.orders[o].outputs, outputs)
  PROVE  LET t == WithIO(s, o, inputs, outputs)
         IN  /\ IsSource(t) /\ Alike(s, t)
             /\ t.tokens = s.tokens /\ t.scenarios = s.scenarios
             /\ \A n \in DOMAIN s.orders \ {o} : t.orders[n] = s.orders[n]
             /\ t.orders[o].inputs = inputs /\ t.orders[o].outputs = outputs
<1> DEFINE t == WithIO(s, o, inputs, outputs)
           r == s.orders[o]
           IOs == Seq(IOSource)
<1>1. DOMAIN s = SourceFields /\ "orders" \in SourceFields
  BY DEF IsSource, SourceFields, Sections
<1>2. /\ DOMAIN t = SourceFields
      /\ \A f \in SourceFields \ {"orders"} : t[f] = s[f]
      /\ t.orders = [s.orders EXCEPT ![o] =
                       [@ EXCEPT !.inputs = inputs, !.outputs = outputs]]
  BY <1>1 DEF WithIO
<1> HIDE DEF t
<1>3. r \in [inputs : IOs, outputs : IOs,
             deployer : Opt(STRING), orderbook : Opt(STRING)]
  BY DEF IsSource, OrderSource
<1>4. /\ DOMAIN t.orders = DOMAIN s.orders
      /\ \A n \in DOMAIN s.orders \ {o} : t.orders[n] = s.orders[n]
      /\ t.orders[o] = [r EXCEPT !.inputs = inputs, !.outputs = outputs]
  BY <1>2
<1>5. inputs \in IOs /\ outputs \in IOs
  BY DEF SameTokens
<1> HIDE DEF IOs, r
<1>6. /\ t.orders[o].inputs = inputs /\ t.orders[o].outputs = outputs
      /\ t.orders[o].deployer = r.deployer
      /\ t.orders[o].orderbook = r.orderbook
      /\ t.orders[o] \in [inputs : IOs, outputs : IOs,
                          deployer : Opt(STRING), orderbook : Opt(STRING)]
  BY <1>3, <1>4, <1>5
<1>7. t.orders[o] \in OrderSource
  BY <1>6 DEF OrderSource, IOs
<1>8. IOTokens(t.orders[o]) = IOTokens(r)
  <2>1. {inputs[i].token : i \in DOMAIN inputs}
          = {r.inputs[i].token : i \in DOMAIN r.inputs}
    BY DEF SameTokens, r
  <2>2. {outputs[i].token : i \in DOMAIN outputs}
          = {r.outputs[i].token : i \in DOMAIN r.outputs}
    BY DEF SameTokens, r
  <2> QED BY <1>6, <2>1, <2>2 DEF IOTokens
<1>9. \A n \in DOMAIN s.orders : /\ IOTokens(t.orders[n]) = IOTokens(s.orders[n])
                                /\ t.orders[n].deployer = s.orders[n].deployer
                                /\ t.orders[n].orderbook = s.orders[n].orderbook
                                /\ t.orders[n] \in OrderSource
  BY <1>4, <1>6, <1>7, <1>8 DEF IsSource, r
<1>10. /\ t.networks = s.networks /\ t.usingNetworksFrom = s.usingNetworksFrom
       /\ t.orderbooks = s.orderbooks /\ t.scenarios = s.scenarios
       /\ t.deployers = s.deployers /\ t.tokens = s.tokens
       /\ t.charts = s.charts /\ t.deployments = s.deployments
  BY <1>2 DEF SourceFields, Sections
<1>11. IsSource(t)
  BY <1>2, <1>4, <1>9, <1>10 DEF IsSource
<1>12. Alike(s, t)
  BY <1>2, <1>4, <1>9, <1>10 DEF Alike
<1> QED BY <1>4, <1>6, <1>10, <1>11, <1>12 DEF t

LEMMA FilledTokens ==
  ASSUME NEW io \in Seq(IOSource), NEW id \in Nat
  PROVE  /\ SameTokens(io, Filled(io, id))
         /\ \A i \in DOMAIN io : io[i].vaultId # None => Filled(io, id)[i] = io[i]
         /\ \A i \in DOMAIN io : Filled(io, id)[i].vaultId \in {io[i].vaultId, id}
<1> DEFINE new == Filled(io, id)
<1>1. DOMAIN new = 1..Len(io) /\ DOMAIN io = 1..Len(io) /\ Len(io) \in Nat
  BY DEF Filled
<1>2. \A i \in DOMAIN io : io[i] \in IOSource
  OBVIOUS
<1>3. ASSUME NEW i \in DOMAIN io
      PROVE  /\ new[i] \in IOSource /\ new[i].token = io[i].token
             /\ io[i].vaultId # None => new[i] = io[i]
             /\ new[i].vaultId \in {io[i].vaultId, id}
  <2>1. new[i] = IF io[i].vaultId = None THEN [io[i] EXCEPT !.vaultId = id]
                                         ELSE io[i]
    BY DEF Filled
  <2> QED BY <1>2, <2>1 DEF IOSource, Opt
<1>4. new = [i \in 1..Len(io) |-> new[i]]
  BY <1>1 DEF Filled
<1> HIDE DEF new
<1>5. new \in [1..Len(io) -> IOSource]
  BY <1>1, <1>3, <1>4
<1>6. new \in Seq(IOSource)
  BY <1>1, <1>5
<1> QED BY <1>1, <1>3, <1>6 DEF SameTokens, new

LEMMA VaultIdsUpdated ==
  ASSUME NEW s, IsSource(s), NEW o \in DOMAIN s.orders, NEW id \in Nat
  PROVE  LET t == WithVaultIds(s, o, id)
         IN  /\ IsSource(t) /\ Alike(s, t)
             /\ t.tokens = s.tokens /\ t.scenarios = s.scenarios
             /\ \A n \in DOMAIN s.orders \ {o} : t.orders[n] = s.orders[n]
             /\ \A side \in {"inputs", "outputs"} :
                  \A i \in DOMAIN s.orders[o][side] :
                    s.orders[o][side][i].vaultId # None =>
                      t.orders[o][side][i] = s.orders[o][side][i]
             /\ t.orders[o].inputs = Filled(s.orders[o].inputs, id)
             /\ t.orders[o].outputs = Filled(s.orders[o].outputs, id)
             /\ \A side \in {"inputs", "outputs"} :
                  /\ SameTokens(s.orders[o][side], t.orders[o][side])
                  /\ \A i \in DOMAIN s.orders[o][side] :
                       t.orders[o][side][i].vaultId
                         \in {s.orders[o][side][i].vaultId, id}
<1> DEFINE t == WithVaultIds(s, o, id)
           inputs == Filled(s.orders[o].inputs, id)
           outputs == Filled(s.orders[o].outputs, id)
<1>1. s.orders[o] \in OrderSource /\ DOMAIN s = SourceFields
  BY DEF IsSource
<1>2. s.orders[o].inputs \in Seq(IOSource) /\ s.orders[o].outputs \in Seq(IOSource)
  BY <1>1 DEF OrderSource
<1>3. /\ SameTokens(s.orders[o].inputs, inputs)
      /\ SameTokens(s.orders[o].outputs, outputs)
  BY <1>2, FilledTokens
<1>4. t = WithIO(s, o, inputs, outputs)
  <2>1. "orders" \in SourceFields
    BY DEF SourceFields, Sections
  <2>2. {"inputs", "outputs"} \subseteq DOMAIN s.orders[o]
    BY <1>1 DEF OrderSource
  <2> HIDE DEF inputs, outputs
  <2>3. t = [s EXCEPT !.orders[o].inputs = inputs, !.orders[o].outputs = outputs]
    BY DEF WithVaultIds, inputs, outputs
  <2> QED BY <1>1, <2>1, <2>2, <2>3 DEF WithIO
<1> HIDE DEF t, inputs, outputs
<1>5. /\ IsSource(t) /\ Alike(s, t)
      /\ t.tokens = s.tokens /\ t.scenarios = s.scenarios
      /\ \A n \in DOMAIN s.orders \ {o} : t.orders[n] = s.orders[n]
      /\ t.orders[o].inputs = inputs /\ t.orders[o].outputs = outputs
  BY <1>3, <1>4, OrderUpdated
<1>6. ASSUME NEW side \in {"inputs", "outputs"}, NEW i \in DOMAIN s.orders[o][side],
             s.orders[o][side][i].vaultId # None
      PROVE  t.orders[o][side][i] = s.orders[o][side][i]
  <2>1. CASE side = "inputs"
    BY <1>2, <1>5, <1>6, <2>1, FilledTokens DEF inputs
  <2>2. CASE side = "outputs"
    BY <1>2, <1>5, <1>6, <2>2, FilledTokens DEF outputs
  <2> QED BY <2>1, <2>2
<1>7. /\ \A i \in DOMAIN s.orders[o].inputs :
           inputs[i].vaultId \in {s.orders[o].inputs[i].vaultId, id}
      /\ \A i \in DOMAIN s.orders[o].outputs :
           outputs[i].vaultId \in {s.orders[o].outputs[i].vaultId, id}
  BY <1>2, FilledTokens DEF inputs, outputs
<1>8. ASSUME NEW side \in {"inputs", "outputs"}
      PROVE  /\ SameTokens(s.orders[o][side], t.orders[o][side])
             /\ \A i \in DOMAIN s.orders[o][side] :
                  t.orders[o][side][i].vaultId
                    \in {s.orders[o][side][i].vaultId, id}
  <2>1. CASE side = "inputs"
    BY <1>3, <1>5, <1>7, <2>1
  <2>2. CASE side = "outputs"
    BY <1>3, <1>5, <1>7, <2>2
  <2> QED BY <2>1, <2>2
<1> QED BY <1>5, <1>6, <1>8 DEF t, inputs, outputs

(* set_vault_id changes the one vault id.                                  *)
LEMMA VaultIdUpdated ==
  ASSUME NEW s, IsSource(s), NEW o \in DOMAIN s.orders, NEW id \in Nat,
         NEW side \in {"inputs", "outputs"}, NEW i \in DOMAIN s.orders[o][side]
  PROVE  LET t == WithVaultId(s, o, side, i, id)
         IN  /\ IsSource(t) /\ Alike(s, t)
             /\ t.tokens = s.tokens /\ t.scenarios = s.scenarios
             /\ \A n \in DOMAIN s.orders \ {o} : t.orders[n] = s.orders[n]
             /\ \A other \in {"inputs", "outputs"} :
                  \A j \in DOMAIN s.orders[o][other] :
                    other # side \/ j # i =>
                      t.orders[o][other][j] = s.orders[o][other][j]
             /\ \A other \in {"inputs", "outputs"} :
                  SameTokens(s.orders[o][other], t.orders[o][other])
             /\ t.orders[o][side][i].vaultId = id
<1> DEFINE t == WithVaultId(s, o, side, i, id)
           io == s.orders[o][side]
           new == [io EXCEPT ![i].vaultId = id]
<1>1. s.orders[o] \in OrderSource /\ DOMAIN s = SourceFields
  BY DEF IsSource
<1>2. s.orders[o].inputs \in Seq(IOSource) /\ s.orders[o].outputs \in Seq(IOSource)
  BY <1>1 DEF OrderSource
<1>3. io \in Seq(IOSource)
  BY <1>2
<1>4. SameTokens(io, new)
  <2> HIDE DEF io
  <2>1. io[i] \in IOSource
    BY <1>3 DEF io
  <2>2. [io[i] EXCEPT !.vaultId = id] \in IOSource
    BY <2>1 DEF IOSource, Opt
  <2>3. new = [io EXCEPT ![i] = [io[i] EXCEPT !.vaultId = id]]
    OBVIOUS
  <2>4. [io[i] EXCEPT !.vaultId = id].token = io[i].token
    BY <2>1 DEF IOSource
  <2> HIDE DEF new
  <2>5. DOMAIN new = DOMAIN io /\ \A j \in DOMAIN io : new[j].token = io[j].token
    BY <2>3, <2>4
  <2>6. new \in Seq(IOSource)
    <3>1. i \in 1..Len(io)
      BY <1>3 DEF io
    <3> QED BY <1>3, <2>2, <2>3, <3>1, ExceptSeq
  <2> QED BY <2>5, <2>6 DEF SameTokens
<1>5. SameTokens(s.orders[o].inputs, s.orders[o].inputs)
  BY <1>2 DEF SameTokens
<1>6. SameTokens(s.orders[o].outputs, s.orders[o].outputs)
  BY <1>2 DEF SameTokens
<1>7. "orders" \in SourceFields
  BY DEF SourceFields, Sections
<1>8. t = [s EXCEPT !.orders[o] = [@ EXCEPT ![side] = new]]
  BY DEF WithVaultId
<1>9. /\ \A j \in DOMAIN io : j # i => new[j] = io[j]
      /\ new[i].vaultId = id
  <2> HIDE DEF io
  <2>1. io[i] \in IOSource /\ i \in DOMAIN io
    BY <1>3 DEF io
  <2> QED BY <2>1 DEF IOSource
<1> HIDE DEF new, t
<1>10. CASE side = "inputs"
  <2>1. t = WithIO(s, o, new, s.orders[o].outputs)
    BY <1>1, <1>7, <1>8, <1>10 DEF WithIO, OrderSource
  <2>2. /\ IsSource(t) /\ Alike(s, t)
        /\ t.tokens = s.tokens /\ t.scenarios = s.scenarios
        /\ \A n \in DOMAIN s.orders \ {o} : t.orders[n] = s.orders[n]
        /\ t.orders[o].inputs = new /\ t.orders[o].outputs = s.orders[o].outputs
    BY <1>4, <1>6, <1>10, <2>1, OrderUpdated
  <2> QED BY <1>4, <1>6, <1>9, <1>10, <2>2 DEF t
<1>11. CASE side = "outputs"
  <2>1. t = WithIO(s, o, s.orders[o].inputs, new)
    BY <1>1, <1>7, <1>8, <1>11 DEF WithIO, OrderSource
  <2>2. /\ IsSource(t) /\ Alike(s, t)
        /\ t.tokens = s.tokens /\ t.scenarios = s.scenarios
        /\ \A n \in DOMAIN s.orders \ {o} : t.orders[n] = s.orders[n]
        /\ t.orders[o].inputs = s.orders[o].inputs /\ t.orders[o].outputs = new
    BY <1>4, <1>5, <1>11, <2>1, OrderUpdated
  <2> QED BY <1>4, <1>5, <1>9, <1>11, <2>2 DEF t
<1> QED BY <1>10, <1>11

-----------------------------------------------------------------------------
(* Conversion *)

(* Everything that a source needs to convert but for the bindings.         *)
ResolvesButBindings(s) ==
  /\ \A n \in DOMAIN s.orderbooks : OrderbookResolves(s, n)
  /\ \A n \in DOMAIN s.tokens : TokenResolves(s, n)
  /\ \A n \in DOMAIN s.deployers : DeployerResolves(s, n)
  /\ \A n \in DOMAIN s.orders : OrderResolves(s, n)
  /\ HaveDeployers(s)
  /\ \A n \in DOMAIN s.deployments : DeploymentResolves(s, n)
  /\ \A n \in DOMAIN s.charts : ChartScenario(s, n) \in DOMAIN s.scenarios
  /\ GuiResolves(s)

LEMMA ResolvableFacts ==
  ASSUME NEW s
  PROVE  Resolvable(s) <=> ResolvesButBindings(s) /\ NoneShadowed(s)
BY DEF Resolvable, ResolvesButBindings, ScenariosResolve

(* Sources that are alike share the sections that no update is about.     *)
LEMMA AlikeFields ==
  ASSUME NEW s, NEW t, Alike(s, t)
  PROVE  /\ t.networks = s.networks /\ t.subgraphs = s.subgraphs
         /\ t.metaboards = s.metaboards /\ t.orderbooks = s.orderbooks
         /\ t.deployers = s.deployers /\ t.charts = s.charts
         /\ t.deployments = s.deployments /\ t.gui = s.gui
         /\ t.accounts = s.accounts
BY DEF Alike, SourceFields, Sections

(* Sources that are alike have their parts on the same networks.           *)
LEMMA AlikeNetworks ==
  ASSUME NEW s, NEW t, Alike(s, t)
  PROVE  /\ \A n \in DOMAIN s.orderbooks :
              /\ Orderbook(t, n) = Orderbook(s, n)
              /\ OrderbookResolves(t, n) <=> OrderbookResolves(s, n)
         /\ \A n \in DOMAIN s.deployers :
              /\ Deployer(t, n) = Deployer(s, n)
              /\ DeployerResolves(t, n) <=> DeployerResolves(s, n)
         /\ \A n \in DOMAIN s.tokens :
              /\ Token(t, n).network = Token(s, n).network
              /\ TokenResolves(t, n) <=> TokenResolves(s, n)
<1>1. \A n : Network(t, n) = Network(s, n)
  BY AlikeFields DEF Network
<1> QED BY <1>1, AlikeFields
        DEF Orderbook, OrderbookResolves, Deployer, DeployerResolves,
            Token, TokenResolves, Alike

LEMMA AlikeOrders ==
  ASSUME NEW s, NEW t, Alike(s, t),
         NEW n \in DOMAIN s.orders, OrderResolves(s, n)
  PROVE  /\ OrderNetworks(t, t.orders[n]) = OrderNetworks(s, s.orders[n])
         /\ OrderResolves(t, n)
         /\ Order(t, n).deployer = Order(s, n).deployer
         /\ Order(t, n).orderbook = Order(s, n).orderbook
         /\ Order(t, n).network = Order(s, n).network
<1> DEFINE o == s.orders[n]
           q == t.orders[n]
<1>1. /\ IOTokens(q) = IOTokens(o) /\ q.deployer = o.deployer
      /\ q.orderbook = o.orderbook
  BY DEF Alike
<1>2. /\ o.deployer \in Opt(DOMAIN s.deployers)
      /\ o.orderbook \in Opt(DOMAIN s.orderbooks)
      /\ IOTokens(o) \subseteq DOMAIN s.tokens
      /\ Cardinality(OrderNetworks(s, o)) = 1
  BY DEF OrderResolves
<1>3. /\ DOMAIN t.deployers = DOMAIN s.deployers
      /\ DOMAIN t.orderbooks = DOMAIN s.orderbooks
      /\ DOMAIN t.tokens = DOMAIN s.tokens
  BY AlikeFields DEF Alike
<1> HIDE DEF o, q
<1>4. {Deployer(t, m).network : m \in {q.deployer} \ {None}}
        = {Deployer(s, m).network : m \in {o.deployer} \ {None}}
  BY <1>1, <1>2, AlikeNetworks DEF Opt
<1>5. {Orderbook(t, m).network : m \in {q.orderbook} \ {None}}
        = {Orderbook(s, m).network : m \in {o.orderbook} \ {None}}
  BY <1>1, <1>2, AlikeNetworks DEF Opt
<1>6. {Token(t, m).network : m \in IOTokens(q)}
        = {Token(s, m).network : m \in IOTokens(o)}
  BY <1>1, <1>2, AlikeNetworks
<1>7. OrderNetworks(t, q) = OrderNetworks(s, o)
  BY <1>4, <1>5, <1>6 DEF OrderNetworks
<1>8. OrderResolves(t, n)
  BY <1>1, <1>2, <1>3, <1>7 DEF OrderResolves, q
<1>9. /\ Order(t, n).deployer = IF q.deployer = None THEN None
                                ELSE Deployer(t, q.deployer)
      /\ Order(s, n).deployer = IF o.deployer = None THEN None
                                ELSE Deployer(s, o.deployer)
  BY DEF Order, q, o
<1>10. /\ Order(t, n).orderbook = IF q.orderbook = None THEN None
                                  ELSE Orderbook(t, q.orderbook)
       /\ Order(s, n).orderbook = IF o.orderbook = None THEN None
                                  ELSE Orderbook(s, o.orderbook)
  BY DEF Order, q, o
<1>11. Order(t, n).network = Order(s, n).network
  BY <1>7 DEF Order, q, o
<1>12. Order(t, n).deployer = Order(s, n).deployer
  BY <1>1, <1>2, <1>9, AlikeNetworks DEF Opt
<1>13. Order(t, n).orderbook = Order(s, n).orderbook
  BY <1>1, <1>2, <1>10, AlikeNetworks DEF Opt
<1> QED BY <1>7, <1>8, <1>11, <1>12, <1>13 DEF o, q

LEMMA AlikeDeployers ==
  ASSUME NEW s, NEW t, IsSource(s), Alike(s, t), NEW p \in DOMAIN s.scenarios
  PROVE  ScenarioDeployer(t, p) = ScenarioDeployer(s, p)
<1>1. \A q \in Around(p) : DeployerName(t, q) = DeployerName(s, q)
  BY DEF IsSource, Alike, DeployerName
<1> DEFINE A == {q \in Around(p) : DeployerName(s, q) \in DOMAIN s.deployers}
<1>2. {q \in Around(p) : DeployerName(t, q) \in DOMAIN t.deployers} = A
  BY <1>1, AlikeFields
<1>3. p \in Seq(STRING)
  BY DEF IsSource
<1>4. CASE A = {}
  BY <1>2, <1>4 DEF ScenarioDeployer
<1>5. CASE A # {}
  <2>1. Innermost(A) \in A
    BY <1>3, <1>5, InnermostFacts
  <2>2. DeployerName(t, Innermost(A)) = DeployerName(s, Innermost(A))
    BY <1>1, <2>1
  <2>3. DeployerName(s, Innermost(A)) \in DOMAIN s.deployers
    BY <2>1
  <2>4. ScenarioDeployer(t, p) = Deployer(t, DeployerName(t, Innermost(A)))
    BY <1>2, <1>5 DEF ScenarioDeployer
  <2>5. ScenarioDeployer(s, p) = Deployer(s, DeployerName(s, Innermost(A)))
    BY <1>5 DEF ScenarioDeployer
  <2> QED BY <2>2, <2>3, <2>4, <2>5, AlikeNetworks
<1> QED BY <1>4, <1>5

(* The scenario that one is in is there too.                               *)
LEMMA ParentThere ==
  ASSUME NEW s, IsSource(s), NEW p \in DOMAIN s.scenarios, Len(p) > 1
  PROVE  Front(p) \in DOMAIN s.scenarios
<1>1. p \in Seq(STRING) /\ Around(p) \subseteq DOMAIN s.scenarios
  BY DEF IsSource
<1>2. Front(p) \in Around(Front(p)) /\ Around(p) = Around(Front(p)) \cup {p}
  BY <1>1, AroundChild, AroundFacts
<1> QED BY <1>1, <1>2

(* Updates leave what a source needs to convert, but for bindings.         *)
LEMMA AlikeResolves ==
  ASSUME NEW s, NEW t, IsSource(s), Alike(s, t), ResolvesButBindings(s)
  PROVE  ResolvesButBindings(t)
<1>1. /\ \A n \in DOMAIN t.orderbooks : OrderbookResolves(t, n)
      /\ \A n \in DOMAIN t.deployers : DeployerResolves(t, n)
      /\ \A n \in DOMAIN t.tokens : TokenResolves(t, n)
  <2>1. /\ \A n \in DOMAIN s.orderbooks : OrderbookResolves(s, n)
        /\ \A n \in DOMAIN s.deployers : DeployerResolves(s, n)
        /\ \A n \in DOMAIN s.tokens : TokenResolves(s, n)
    BY DEF ResolvesButBindings
  <2>2. /\ t.orderbooks = s.orderbooks /\ t.deployers = s.deployers
        /\ DOMAIN t.tokens = DOMAIN s.tokens
    BY AlikeFields DEF Alike
  <2> QED BY <2>1, <2>2, AlikeNetworks
<1>2. \A n \in DOMAIN t.orders : OrderResolves(t, n)
  BY AlikeOrders DEF ResolvesButBindings, Alike
<1>3. DOMAIN t.scenarios = DOMAIN s.scenarios
  BY DEF Alike
<1>4. HaveDeployers(t)
  <2>1. \A p \in DOMAIN s.scenarios :
          ScenarioDeployer(t, p) = ScenarioDeployer(s, p)
    BY AlikeDeployers
  <2> QED BY <1>3, <2>1, ParentThere DEF ResolvesButBindings, HaveDeployers
<1>5. ASSUME NEW n \in DOMAIN t.deployments
      PROVE  DeploymentResolves(t, n)
  <2> DEFINE d == s.deployments[n]
  <2>1. t.deployments = s.deployments /\ DOMAIN t.orders = DOMAIN s.orders
    BY AlikeFields DEF Alike
  <2>2. DeploymentResolves(s, n)
    BY <2>1 DEF ResolvesButBindings
  <2>3. /\ d.scenario \in DOMAIN s.scenarios /\ d.order \in DOMAIN s.orders
        /\ s.orders[d.order].deployer # None =>
             Order(s, d.order).deployer = ScenarioDeployer(s, d.scenario)
    BY <2>2 DEF DeploymentResolves
  <2> HIDE DEF d
  <2>4. Order(t, d.order).deployer = Order(s, d.order).deployer
    BY <2>3, AlikeOrders DEF ResolvesButBindings
  <2>5. ScenarioDeployer(t, d.scenario) = ScenarioDeployer(s, d.scenario)
    BY <2>3, AlikeDeployers
  <2>6. t.orders[d.order].deployer = s.orders[d.order].deployer
    BY <2>3 DEF Alike
  <2> QED BY <1>3, <2>1, <2>3, <2>4, <2>5, <2>6 DEF DeploymentResolves, d
<1>6. \A n \in DOMAIN t.charts : ChartScenario(t, n) \in DOMAIN t.scenarios
  BY <1>3, AlikeFields DEF ResolvesButBindings, ChartScenario
<1>7. GuiResolves(t)
  <2>1. GuiDeploymentSources(t) = GuiDeploymentSources(s)
    BY AlikeFields DEF GuiDeploymentSources
  <2> QED BY <2>1, AlikeFields
          DEF ResolvesButBindings, GuiResolves, Alike
<1> QED BY <1>1, <1>2, <1>4, <1>5, <1>6, <1>7 DEF ResolvesButBindings

-----------------------------------------------------------------------------
(* Parts of a source *)

(* A source that has some of the entries of another one, unchanged.        *)
Part(s, t) ==
  \A f \in Sections : /\ DOMAIN s[f] \subseteq DOMAIN t[f]
                      /\ \A k \in DOMAIN s[f] : s[f][k] = t[f][k]

LEMMA PartFields ==
  ASSUME NEW s, NEW t, Part(s, t)
  PROVE  /\ \A n \in DOMAIN s.networks :
              n \in DOMAIN t.networks /\ s.networks[n] = t.networks[n]
         /\ \A n \in DOMAIN s.subgraphs :
              n \in DOMAIN t.subgraphs /\ s.subgraphs[n] = t.subgraphs[n]
         /\ \A n \in DOMAIN s.orderbooks :
              n \in DOMAIN t.orderbooks /\ s.orderbooks[n] = t.orderbooks[n]
         /\ \A n \in DOMAIN s.tokens :
              n \in DOMAIN t.tokens /\ s.tokens[n] = t.tokens[n]
         /\ \A n \in DOMAIN s.deployers :
              n \in DOMAIN t.deployers /\ s.deployers[n] = t.deployers[n]
         /\ \A n \in DOMAIN s.orders :
              n \in DOMAIN t.orders /\ s.orders[n] = t.orders[n]
         /\ \A p \in DOMAIN s.scenarios :
              p \in DOMAIN t.scenarios /\ s.scenarios[p] = t.scenarios[p]
         /\ \A n \in DOMAIN s.deployments :
              n \in DOMAIN t.deployments /\ s.deployments[n] = t.deployments[n]
BY DEF Part, Sections

(* What a part of a source converts, it converts as the whole does.        *)
LEMMA PartNetworks ==
  ASSUME NEW s, NEW t, Part(s, t)
  PROVE  /\ \A n \in DOMAIN s.orderbooks :
              OrderbookResolves(s, n) => Orderbook(s, n) = Orderbook(t, n)
         /\ \A n \in DOMAIN s.deployers :
              DeployerResolves(s, n) => Deployer(s, n) = Deployer(t, n)
         /\ \A n \in DOMAIN s.tokens :
              TokenResolves(s, n) => Token(s, n) = Token(t, n)
<1>1. \A n \in DOMAIN s.networks : Network(s, n) = Network(t, n)
  BY PartFields DEF Network
<1>2. \A n \in DOMAIN s.orderbooks :
        OrderbookResolves(s, n) => Orderbook(s, n) = Orderbook(t, n)
  BY <1>1, PartFields DEF Orderbook, OrderbookResolves
<1>3. \A n \in DOMAIN s.deployers :
        DeployerResolves(s, n) => Deployer(s, n) = Deployer(t, n)
  BY <1>1, PartFields DEF Deployer, DeployerResolves
<1>4. \A n \in DOMAIN s.tokens :
        TokenResolves(s, n) => Token(s, n) = Token(t, n)
  BY <1>1, PartFields DEF Token, TokenResolves
<1> QED BY <1>2, <1>3, <1>4

LEMMA PartOrders ==
  ASSUME NEW s, NEW t, Part(s, t), Resolvable(s), NEW n \in DOMAIN s.orders
  PROVE  Order(s, n) = Order(t, n)
<1> DEFINE o == t.orders[n]
<1>1. s.orders[n] = o
  BY PartFields
<1>2. /\ o.deployer \in Opt(DOMAIN s.deployers)
      /\ o.orderbook \in Opt(DOMAIN s.orderbooks)
      /\ IOTokens(o) \subseteq DOMAIN s.tokens
  BY <1>1 DEF Resolvable, OrderResolves
<1>3. \A m \in DOMAIN s.tokens : Token(s, m) = Token(t, m)
  BY PartNetworks DEF Resolvable
<1>4. \A m \in DOMAIN s.deployers : Deployer(s, m) = Deployer(t, m)
  BY PartNetworks DEF Resolvable
<1>5. \A m \in DOMAIN s.orderbooks : Orderbook(s, m) = Orderbook(t, m)
  BY PartNetworks DEF Resolvable
<1>6. \A i \in DOMAIN o.inputs : o.inputs[i].token \in IOTokens(o)
  BY DEF IOTokens
<1>7. \A i \in DOMAIN o.outputs : o.outputs[i].token \in IOTokens(o)
  BY DEF IOTokens
<1>8. OrderIO(s, o.inputs) = OrderIO(t, o.inputs)
  BY <1>2, <1>3, <1>6 DEF OrderIO
<1>9. OrderIO(s, o.outputs) = OrderIO(t, o.outputs)
  BY <1>2, <1>3, <1>7 DEF OrderIO
<1> DEFINE R(x) == [inputs |-> OrderIO(x, o.inputs),
                    outputs |-> OrderIO(x, o.outputs),
                    network |-> CHOOSE net \in OrderNetworks(x, o) : TRUE,
                    deployer |-> IF o.deployer = None THEN None
                                 ELSE Deployer(x, o.deployer),
                    orderbook |-> IF o.orderbook = None THEN None
                                  ELSE Orderbook(x, o.orderbook)]
<1>10. Order(t, n) = R(t)
  BY DEF Order
<1>11. Order(s, n) = R(s)
  BY <1>1 DEF Order
<1> HIDE DEF o
<1>12. o.deployer # None => Deployer(s, o.deployer) = Deployer(t, o.deployer)
  BY <1>2, <1>4 DEF Opt
<1>13. o.orderbook # None =>
         Orderbook(s, o.orderbook) = Orderbook(t, o.orderbook)
  BY <1>2, <1>5 DEF Opt
<1>14. OrderNetworks(s, o) = OrderNetworks(t, o)
  <2>1. {Deployer(s, m).network : m \in {o.deployer} \ {None}}
          = {Deployer(t, m).network : m \in {o.deployer} \ {None}}
    BY <1>12
  <2>2. {Orderbook(s, m).network : m \in {o.orderbook} \ {None}}
          = {Orderbook(t, m).network : m \in {o.orderbook} \ {None}}
    BY <1>13
  <2>3. {Token(s, m).network : m \in IOTokens(o)}
          = {Token(t, m).network : m \in IOTokens(o)}
    BY <1>2, <1>3
  <2> QED BY <2>1, <2>2, <2>3 DEF OrderNetworks
<1>15. R(s) = R(t)
  BY <1>8, <1>9, <1>12, <1>13, <1>14
<1> HIDE DEF R
<1> QED BY <1>10, <1>11, <1>15

(* The bindings of a scenario are those of the scenarios around it.        *)
LEMMA SameBindings ==
  ASSUME NEW s, NEW t, NEW p \in Seq(STRING),
         \A q \in Around(p) : OwnBindings(t, q) = OwnBindings(s, q)
  PROVE  ScenarioBindings(t, p) = ScenarioBindings(s, p)
<1> DEFINE D(x) == UNION {DOMAIN OwnBindings(x, q) : q \in Around(p)}
<1>1. D(t) = D(s)
  OBVIOUS
<1>2. ASSUME NEW k \in D(s)
      PROVE  OwnBindings(t, Innermost(SayingBinding(t, p, k)))[k]
               = OwnBindings(s, Innermost(SayingBinding(s, p, k)))[k]
  <2>1. SayingBinding(t, p, k) = SayingBinding(s, p, k)
    BY DEF SayingBinding
  <2>2. SayingBinding(s, p, k) \in SUBSET Around(p) /\ SayingBinding(s, p, k) # {}
    BY DEF SayingBinding
  <2>3. Innermost(SayingBinding(s, p, k)) \in Around(p)
    BY <2>2, InnermostFacts
  <2> QED BY <2>1, <2>3
<1>3. /\ ScenarioBindings(t, p) =
           [k \in D(t) |-> OwnBindings(t, Innermost(SayingBinding(t, p, k)))[k]]
      /\ ScenarioBindings(s, p) =
           [k \in D(s) |-> OwnBindings(s, Innermost(SayingBinding(s, p, k)))[k]]
  BY DEF ScenarioBindings
<1> HIDE DEF D
<1> QED BY <1>1, <1>2, <1>3

(* The longest of scenarios around one is the innermost.                   *)
LEMMA InnermostIs ==
  ASSUME NEW p \in Seq(STRING), NEW P \in SUBSET Around(p), NEW q \in P,
         \A r \in P : Len(r) <= Len(q)
  PROVE  Innermost(P) = q
<1>1. /\ Innermost(P) \in P
      /\ \A r \in P : Len(r) <= Len(Innermost(P))
  BY InnermostFacts
<1>2. \A r \in Around(p) : Len(r) \in 1..Len(p) /\ r = SubSeq(p, 1, Len(r))
  BY AroundFacts DEF Around
<1>3. Len(Innermost(P)) = Len(q)
  BY <1>1, <1>2
<1> QED BY <1>1, <1>2, <1>3

(* A scenario of a part has the deployer it has in the whole when the part *)
(* has the deployer that is said innermost, or when all scenarios around   *)
(* it have the same deployer.                                              *)
Saying(s, p) == {q \in Around(p) : DeployerName(s, q) \in DOMAIN s.deployers}

LEMMA PartSaying ==
  ASSUME NEW s, NEW t, Part(s, t), NEW p \in Seq(STRING),
         Around(p) \subseteq DOMAIN s.scenarios
  PROVE  /\ \A q \in Around(p) : DeployerName(s, q) = DeployerName(t, q)
         /\ Saying(s, p) \subseteq Saying(t, p)
<1>1. \A q \in Around(p) : DeployerName(s, q) = DeployerName(t, q)
  BY PartFields DEF DeployerName
<1> QED BY <1>1, PartFields DEF Saying

LEMMA SayingFacts ==
  ASSUME NEW s, NEW p
  PROVE  ScenarioDeployer(s, p) =
           IF Saying(s, p) = {} THEN None
           ELSE Deployer(s, DeployerName(s, Innermost(Saying(s, p))))
BY DEF ScenarioDeployer, Saying

LEMMA PartHasInnermost ==
  ASSUME NEW s, NEW t, Part(s, t), Resolvable(s), NEW p \in Seq(STRING),
         Around(p) \subseteq DOMAIN s.scenarios, Saying(t, p) # {},
         DeployerName(t, Innermost(Saying(t, p))) \in DOMAIN s.deployers
  PROVE  ScenarioDeployer(s, p) = ScenarioDeployer(t, p)
<1> DEFINE q == Innermost(Saying(t, p))
<1>1. /\ q \in Saying(t, p) /\ q \in Around(p)
      /\ \A r \in Saying(t, p) : Len(r) <= Len(q)
  BY InnermostFacts DEF Saying
<1>2. /\ DeployerName(s, q) = DeployerName(t, q)
      /\ Saying(s, p) \subseteq Saying(t, p)
  BY <1>1, PartSaying
<1>3. q \in Saying(s, p) /\ Saying(s, p) \in SUBSET Around(p)
  BY <1>1, <1>2 DEF Saying
<1>4. Innermost(Saying(s, p)) = q
  BY <1>1, <1>2, <1>3, InnermostIs
<1>5. Deployer(s, DeployerName(t, q)) = Deployer(t, DeployerName(t, q))
  BY PartNetworks DEF Resolvable
<1> QED BY <1>2, <1>3, <1>4, <1>5, SayingFacts

LEMMA PartOfOneDeployer ==
  ASSUME NEW s, NEW t, Part(s, t), Resolvable(s), NEW p \in DOMAIN s.scenarios,
         p \in Seq(STRING), Around(p) \subseteq DOMAIN s.scenarios,
         \A q \in Around(p) : ScenarioDeployer(t, q) = ScenarioDeployer(t, p)
  PROVE  ScenarioDeployer(s, p) = ScenarioDeployer(t, p)
<1> DEFINE q == Innermost(Saying(s, p))
<1>1. Saying(s, p) # {}
  <2>1. ScenarioDeployer(s, p) # None
    BY DEF Resolvable, ScenariosResolve, HaveDeployers
  <2> QED BY <2>1, SayingFacts
<1>2. q \in Saying(s, p) /\ q \in Around(p) /\ q \in Seq(STRING)
  <2>1. Saying(s, p) \in SUBSET Around(p)
    BY DEF Saying
  <2>2. q \in Saying(s, p)
    BY <1>1, <2>1, InnermostFacts
  <2> QED BY <2>1, <2>2, AroundFacts
<1>3. DeployerName(s, q) = DeployerName(t, q) /\ q \in Saying(t, p)
  BY <1>2, PartSaying
<1>4. q # <<>> /\ \A r \in Around(q) : Len(r) <= Len(q)
  BY <1>2, AroundFacts
<1>5. q \in Saying(t, q) /\ Saying(t, q) \in SUBSET Around(q)
  BY <1>2, <1>3, <1>4, AroundFacts DEF Saying
<1>6. Innermost(Saying(t, q)) = q
  BY <1>2, <1>4, <1>5, InnermostIs
<1>7. Deployer(s, DeployerName(s, q)) = Deployer(t, DeployerName(s, q))
  BY <1>2, PartNetworks DEF Resolvable, Saying
<1>8. ScenarioDeployer(t, q) = Deployer(t, DeployerName(t, q))
  BY <1>5, <1>6, SayingFacts
<1>9. ScenarioDeployer(s, p) = Deployer(s, DeployerName(s, q))
  BY <1>1, SayingFacts
<1>10. ScenarioDeployer(t, q) = ScenarioDeployer(t, p)
  BY <1>2
<1> HIDE DEF q
<1> QED BY <1>3, <1>7, <1>8, <1>9, <1>10

=============================================================================
