----------------------------- MODULE GuiProofs ------------------------------
(***************************************************************************)
(* The gui of a dotrain: its copies of the configuration agree, what it    *)
(* saves it restores, and the calldata that it makes is of what was        *)
(* entered, for all documents and inputs.                                  *)
(***************************************************************************)
EXTENDS Gui, SettingsProofs

-----------------------------------------------------------------------------
(* Numbers *)

LEMMA FirstFacts ==
  ASSUME NEW S \in SUBSET Nat, S # {}
  PROVE  First(S) \in S /\ \A j \in S : First(S) <= j
BY Least DEF First

(* A finite set of numbers is what Nth counts, each once.                  *)
LEMMA NthFacts ==
  ASSUME NEW S \in SUBSET Nat, IsFiniteSet(S)
  PROVE  /\ Cardinality(S) \in Nat
         /\ \A n \in 1 .. Cardinality(S) : Nth(S, n) \in S
         /\ \A i \in S : \E n \in 1 .. Cardinality(S) : Nth(S, n) = i
         /\ \A m, n \in 1 .. Cardinality(S) : Nth(S, m) = Nth(S, n) => m = n
<1> DEFINE N == Cardinality(S)
           below(i) == {j \in S : j < i}
           rank == [i \in S |-> Cardinality(below(i)) + 1]
<1>1. N \in Nat
  BY FS_CardinalityType
<1>2. ASSUME NEW i \in S
      PROVE  IsFiniteSet(below(i)) /\ Cardinality(below(i)) \in Nat /\ rank[i] \in 1 .. N
  <2>1. IsFiniteSet(below(i)) /\ Cardinality(below(i)) <= N
    BY FS_Subset
  <2>2. below(i) # S
    OBVIOUS
  <2>3. Cardinality(below(i)) \in Nat
    BY <2>1, FS_CardinalityType
  <2>4. Cardinality(below(i)) # N
    BY <2>1, <2>2, FS_Subset
  <2>5. Cardinality(below(i)) + 1 \in 1 .. N
    <3> HIDE DEF below, N
    <3> QED BY <1>1, <2>1, <2>3, <2>4
  <2> QED BY <2>1, <2>3, <2>5
<1>3. ASSUME NEW i \in S, NEW k \in S, i < k
      PROVE  rank[i] < rank[k]
  <2>1. below(i) \subseteq below(k) /\ below(i) # below(k)
    <3>1. i \in below(k) /\ i \notin below(i)
      BY <1>3
    <3>2. \A j \in S : j \in Nat
      OBVIOUS
    <3>3. i \in Nat /\ k \in Nat
      OBVIOUS
    <3>4. \A j \in S : j < i => j < k
      BY <1>3, <3>2, <3>3
    <3> QED BY <3>1, <3>4
  <2>2. Cardinality(below(i)) <= Cardinality(below(k))
        /\ Cardinality(below(i)) # Cardinality(below(k))
    <3> HIDE DEF below
    <3> QED BY <1>2, <2>1, FS_Subset
  <2> HIDE DEF below
  <2> QED BY <1>2, <2>2
<1>4. \A i, k \in S : rank[i] = rank[k] => i = k
  <2> SUFFICES ASSUME NEW i \in S, NEW k \in S, rank[i] = rank[k], i # k PROVE FALSE
    OBVIOUS
  <2>1. i < k \/ k < i
    OBVIOUS
  <2>2. rank[i] \in Nat /\ rank[k] \in Nat
    <3>1. rank[i] \in 1 .. N /\ rank[k] \in 1 .. N
      BY <1>2, Zenon
    <3> HIDE DEF rank, N, below
    <3> QED BY <1>1, <3>1
  <2> HIDE DEF rank
  <2> QED BY <1>3, <2>1, <2>2
<1>5. rank \in Injection(S, 1 .. N)
  <2>1. rank \in [S -> 1 .. N]
    <3>1. \A i \in S : rank[i] \in 1 .. N
      BY <1>2
    <3> QED BY <3>1
  <2> HIDE DEF rank, N
  <2> QED BY <1>4, <2>1 DEF Injection, IsInjective
<1>6. rank \in Surjection(S, 1 .. N)
  <2>1. IsFiniteSet(1 .. N) /\ Cardinality(1 .. N) = N
    BY <1>1, FS_Interval
  <2> HIDE DEF rank
  <2> QED BY <1>5, <2>1, FS_Injection, FS_Surjection
<1>7. ASSUME NEW n \in 1 .. N
      PROVE  Nth(S, n) \in S /\ rank[Nth(S, n)] = n
  <2>1. PICK i \in S : rank[i] = n
    <3> HIDE DEF rank, N
    <3> QED BY <1>6 DEF Surjection
  <2>2. Cardinality(below(i)) = n - 1
    BY <1>1, <1>2, <2>1
  <2>3. Nth(S, n) \in S /\ Cardinality({j \in S : j < Nth(S, n)}) = n - 1
    BY <2>2 DEF Nth
  <2> QED BY <1>1, <2>3
<1>8. ASSUME NEW i \in S
      PROVE  \E n \in 1 .. N : Nth(S, n) = i
  <2>1. rank[i] \in 1 .. N
    BY <1>2
  <2> HIDE DEF rank
  <2> QED BY <1>4, <1>7, <2>1
<1> HIDE DEF rank
<1> QED BY <1>1, <1>7, <1>8
-----------------------------------------------------------------------------
(* The gui of sources that are alike *)

Names(d) == {g.deployment : g \in Elements(d.gui)}
Declared(d, name) == {i \in DOMAIN d.gui : d.gui[i].deployment = name}
Declaration(d, name) == d.gui[First(Declared(d, name))]

LEMMA DocumentFacts ==
  ASSUME NEW d \in Documents
  PROVE  /\ IsSource(d) /\ Resolvable(d) /\ d.gui # None
         /\ DOMAIN d.gui \subseteq Nat
         /\ \A i \in DOMAIN d.gui :
              /\ d.gui[i] \in GuiDeploymentSource
              /\ \A e \in Elements(d.gui[i].deposits) : e.token \in Elements(NameOrder)
              /\ d.gui[i].selectTokens # None =>
                   None \notin [d.gui[i].selectTokens -> Selections \cup {Zero}]
<1>1. d.gui \in Seq(GuiDeploymentSource) /\ IsSource(d) /\ Resolvable(d) /\ d.gui # None
  BY GuiAssumption
<1>2. DOMAIN d.gui = 1 .. Len(d.gui) /\ Len(d.gui) \in Nat
  BY <1>1
<1>3. \A i \in DOMAIN d.gui : d.gui[i] \in GuiDeploymentSource
  <2> HIDE DEF GuiDeploymentSource
  <2> QED BY <1>1, <1>2
<1>4. \A i \in DOMAIN d.gui : d.gui[i] \in Elements(d.gui)
  BY DEF Elements
<1> QED BY <1>1, <1>2, <1>3, <1>4, GuiAssumption, NoneAssumption

(* The declaration of a name is the first with that name.                  *)
LEMMA DeclarationFacts ==
  ASSUME NEW d \in Documents, NEW name \in Names(d)
  PROVE  /\ First(Declared(d, name)) \in DOMAIN d.gui
         /\ Declaration(d, name) \in Elements(d.gui)
         /\ Declaration(d, name) \in GuiDeploymentSource
         /\ Declaration(d, name).deployment = name
<1>1. PICK i \in DOMAIN d.gui : d.gui[i].deployment = name
  BY DEF Names, Elements
<1>2. Declared(d, name) \in SUBSET Nat /\ Declared(d, name) # {}
  BY <1>1, DocumentFacts DEF Declared
<1>3. First(Declared(d, name)) \in Declared(d, name)
  BY <1>2, FirstFacts
<1> QED BY <1>3, DocumentFacts DEF Declared, Declaration, Elements

(* What a configuration made of s has of a declaration e                   *)
Made(s, g, e) ==
  /\ g.deploymentName = e.deployment /\ g.fields = e.fields
  /\ g.selectTokens = e.selectTokens /\ g.deployment = Deployment(s, e.deployment)
  /\ DOMAIN g.deposits = DOMAIN e.deposits
  /\ \A k \in DOMAIN e.deposits :
       /\ g.deposits[k].tokenName = e.deposits[k].token
       /\ g.deposits[k].token = Token(s, e.deposits[k].token)
       /\ g.deposits[k].presets = e.deposits[k].presets

LEMMA GuiFacts ==
  ASSUME NEW d \in Documents, NEW s, Alike(d, s), NEW i \in DOMAIN d.gui
  PROVE  Made(s, Gui(s)[i], d.gui[i])
<1>1. s.gui = d.gui /\ s.gui # None
  BY AlikeFields, DocumentFacts
<1> QED BY <1>1 DEF Gui, Made

LEMMA NamedFacts ==
  ASSUME NEW d \in Documents, NEW s, Alike(d, s), NEW name \in Names(d)
  PROVE  /\ Named(Config(s), name) = Gui(s)[First(Declared(d, name))]
         /\ MadeFrom(Config(s).gui, d.gui)
<1>1. s.gui = d.gui /\ s.gui # None
  BY AlikeFields, DocumentFacts
<1>2. Config(s).gui = Gui(s)
  BY DEF Config
<1>3. DOMAIN Gui(s) = DOMAIN d.gui
  BY <1>1 DEF Gui
<1>8. \A i \in DOMAIN d.gui : Made(s, Gui(s)[i], d.gui[i])
  BY GuiFacts
<1>7. \A i \in DOMAIN d.gui :
        /\ Gui(s)[i].deploymentName = d.gui[i].deployment
        /\ Gui(s)[i].fields = d.gui[i].fields
        /\ Gui(s)[i].selectTokens = d.gui[i].selectTokens
  BY <1>8 DEF Made
<1>4. {i \in DOMAIN Gui(s) : Gui(s)[i].deploymentName = name} = Declared(d, name)
  BY <1>3, <1>7 DEF Declared
<1>5. Named(Config(s), name) = Gui(s)[First(Declared(d, name))]
  BY <1>2, <1>4 DEF Named
<1>6. MadeFrom(Config(s).gui, d.gui)
  BY <1>2, <1>3, <1>7 DEF MadeFrom
<1> QED BY <1>5, <1>6

-----------------------------------------------------------------------------
(* The copies: the source is the document with updates, and the deployment *)
(* is that of the last source that converted.                              *)
Copies(d) ==
  /\ IsSource(source) /\ Alike(d, source)
  /\ \E s : Alike(d, s) /\ config = Config(s)
  /\ Resolvable(source) => config = Config(source)
  /\ deployment.deploymentName \in Names(d)
  /\ deployment = Named(config, deployment.deploymentName)

(* What a deployment says, whatever was updated                            *)
Declares(d, g, name) ==
  /\ g.deploymentName = name
  /\ g.fields = Declaration(d, name).fields
  /\ g.selectTokens = Declaration(d, name).selectTokens
  /\ DOMAIN g.deposits = DOMAIN Declaration(d, name).deposits
  /\ \A k \in DOMAIN g.deposits :
       /\ g.deposits[k].tokenName = Declaration(d, name).deposits[k].token
       /\ g.deposits[k].presets = Declaration(d, name).deposits[k].presets
  /\ \E s : Alike(d, s) /\ g.deployment = Deployment(s, name)

LEMMA DeclaresFacts ==
  ASSUME NEW d \in Documents, NEW s, Alike(d, s), NEW name \in Names(d)
  PROVE  Declares(d, Named(Config(s), name), name)
<1> DEFINE i == First(Declared(d, name))
<1>1. i \in DOMAIN d.gui /\ d.gui[i] = Declaration(d, name)
      /\ d.gui[i].deployment = name
  BY DeclarationFacts DEF Declaration
<1>2. Named(Config(s), name) = Gui(s)[i]
  BY NamedFacts
<1> HIDE DEF i
<1>3. Made(s, Named(Config(s), name), Declaration(d, name))
  BY <1>1, <1>2, GuiFacts
<1> QED BY <1>1, <1>3 DEF Declares, Made

LEMMA CopiesFacts ==
  ASSUME NEW d \in Documents, Copies(d)
  PROVE  Declares(d, deployment, deployment.deploymentName)
<1>1. PICK s : Alike(d, s) /\ config = Config(s)
  BY DEF Copies
<1> QED BY <1>1, DeclaresFacts DEF Copies

(* What an update leaves: the copies agree, and the declaration is as it   *)
(* was.                                                                    *)
Left ==
  /\ deployment'.deploymentName = deployment.deploymentName
  /\ deployment'.fields = deployment.fields
  /\ deployment'.selectTokens = deployment.selectTokens

LEMMA CopiesKept ==
  ASSUME NEW d \in Documents, Copies(d), IsSource(source'), Alike(source, source'),
         NEW s, Alike(d, s), config' = Config(s),
         Resolvable(source') => config' = Config(source'),
         deployment' = Named(config', deployment.deploymentName)
  PROVE  Copies(d)' /\ Left
<1> DEFINE name == deployment.deploymentName
<1>1. name \in Names(d) /\ Alike(d, source)
  BY DEF Copies
<1>2. Alike(d, source')
  BY <1>1, AlikeSame
<1>3. Declares(d, deployment', name)
  BY <1>1, DeclaresFacts
<1>4. Declares(d, deployment, name)
  BY CopiesFacts
<1>5. deployment'.deploymentName = name
  BY <1>3 DEF Declares
<1>6. Copies(d)'
  BY <1>1, <1>2, <1>5 DEF Copies
<1> QED BY <1>3, <1>4, <1>6 DEF Declares, Left

LEMMA Updated ==
  ASSUME NEW d \in Documents, Copies(d), NEW new, IsSource(new), Alike(source, new),
         Update(new)
  PROVE  Copies(d)' /\ Left
<1>1. PICK s : Alike(d, s) /\ config = Config(s)
  BY DEF Copies
<1>2. Alike(d, new)
  BY AlikeSame DEF Copies
<1> DEFINE t == IF Resolvable(new) THEN new ELSE s
<1>3. Alike(d, t) /\ config' = Config(t) /\ source' = new
      /\ deployment' = Named(config', deployment.deploymentName)
  BY <1>1, <1>2 DEF Update
<1>4. Resolvable(source') => config' = Config(source')
  BY <1>3
<1> HIDE DEF t
<1> QED BY <1>3, <1>4, CopiesKept
(* A stale source would convert but for its bindings, and has the order and*)
(* the scenario that are asked for.                                        *)
LEMMA SourceFacts ==
  ASSUME NEW d \in Documents, Copies(d)
  PROVE  /\ ResolvesButBindings(source) /\ IsSource(source)
         /\ OrderName \in DOMAIN source.orders
         /\ deployment.deployment.scenario.name
              = source.deployments[deployment.deploymentName].scenario
         /\ deployment.deployment.scenario.name \in DOMAIN source.scenarios
         /\ \A e \in Elements(Declaration(d, deployment.deploymentName).deposits) :
              e.token \in DOMAIN source.tokens
<1> DEFINE name == deployment.deploymentName
<1>1. name \in Names(d) /\ Alike(d, source) /\ IsSource(source)
  BY DEF Copies
<1>2. ResolvesButBindings(d) /\ IsSource(d)
  BY DocumentFacts, ResolvableFacts
<1>3. ResolvesButBindings(source)
  BY <1>1, <1>2, AlikeResolves
<1>4. /\ Declaration(d, name) \in Elements(d.gui) /\ Declaration(d, name).deployment = name
      /\ source.gui = d.gui /\ d.gui # None
  BY <1>1, DeclarationFacts, AlikeFields, DocumentFacts
<1>5. Declaration(d, name) \in GuiDeploymentSources(source)
  BY <1>4 DEF GuiDeploymentSources
<1> HIDE DEF name
<1>6. /\ name \in DOMAIN source.deployments
      /\ \A e \in Elements(Declaration(d, name).deposits) : e.token \in DOMAIN source.tokens
  BY <1>3, <1>4, <1>5 DEF ResolvesButBindings, GuiResolves
<1>7. /\ source.deployments[name].order \in DOMAIN source.orders
      /\ source.deployments[name].scenario \in DOMAIN source.scenarios
  BY <1>3, <1>6 DEF ResolvesButBindings, DeploymentResolves
<1>8. PICK s : Alike(d, s) /\ deployment.deployment = Deployment(s, name)
  BY CopiesFacts DEF Declares, name
<1>9. s.deployments = source.deployments
  BY <1>1, <1>8, AlikeFields
<1>10. deployment.deployment.scenario.name = source.deployments[name].scenario
  BY <1>8, <1>9 DEF Deployment, Scenario
<1> QED BY <1>1, <1>3, <1>6, <1>7, <1>10 DEF OrderName, name

LEMMA SameScenarioBindings ==
  ASSUME NEW s, NEW t, t.scenarios = s.scenarios
  PROVE  \A p : /\ OwnBindings(t, p) = OwnBindings(s, p)
                /\ ScenarioBindings(t, p) = ScenarioBindings(s, p)
<1>1. \A p : OwnBindings(t, p) = OwnBindings(s, p)
  BY DEF OwnBindings
<1> SUFFICES ASSUME NEW p
             PROVE  ScenarioBindings(t, p) = ScenarioBindings(s, p)
  BY <1>1
<1>2. \A k : SayingBinding(t, p, k) = SayingBinding(s, p, k)
  BY <1>1 DEF SayingBinding
<1>3. UNION {DOMAIN OwnBindings(t, q) : q \in Around(p)}
        = UNION {DOMAIN OwnBindings(s, q) : q \in Around(p)}
  BY <1>1
<1> QED BY <1>1, <1>2, <1>3 DEF ScenarioBindings

(* populate_vault_ids and update_config_source_bindings                    *)
LEMMA PopulatedFacts ==
  ASSUME NEW d \in Documents, Copies(d), NEW id \in VaultIds
  PROVE  LET t == WithVaultIds(source, OrderName, id)
         IN  /\ IsSource(t) /\ Alike(source, t)
             /\ t.tokens = source.tokens /\ t.scenarios = source.scenarios
             /\ Resolvable(t) => Resolvable(source)
<1> DEFINE t == WithVaultIds(source, OrderName, id)
<1>1. OrderName \in DOMAIN source.orders /\ id \in Nat
      /\ ResolvesButBindings(source) /\ IsSource(source)
  BY SourceFacts, GuiAssumption
<1>2. IsSource(t) /\ Alike(source, t) /\ t.tokens = source.tokens
      /\ t.scenarios = source.scenarios
  BY <1>1, VaultIdsUpdated
<1> HIDE DEF t
<1>3. NoneShadowed(t) => NoneShadowed(source)
  <2>1. \A p : /\ OwnBindings(t, p) = OwnBindings(source, p)
               /\ ScenarioBindings(t, p) = ScenarioBindings(source, p)
    BY <1>2, SameScenarioBindings
  <2> QED BY <1>2, <2>1 DEF NoneShadowed
<1>4. Resolvable(t) => Resolvable(source)
  BY <1>1, <1>3, ResolvableFacts
<1> QED BY <1>2, <1>4 DEF t

LEMMA BoundFacts ==
  ASSUME NEW d \in Documents, Copies(d), NEW s, IsSource(s), Alike(source, s)
  PROVE  /\ IsSource(Bound(s)) /\ Alike(source, Bound(s))
         /\ Bound(s).orders = s.orders /\ Bound(s).tokens = s.tokens
         /\ Bound(s).scenarios[deployment.deployment.scenario.name].bindings = Bindings
<1> DEFINE p == deployment.deployment.scenario.name
<1>1. p \in DOMAIN s.scenarios
  BY SourceFacts DEF Alike
<1> HIDE DEF p
<1>2. /\ IsSource(WithBindings(s, p, Bindings)) /\ Alike(s, WithBindings(s, p, Bindings))
      /\ WithBindings(s, p, Bindings).orders = s.orders
      /\ WithBindings(s, p, Bindings).tokens = s.tokens
  BY <1>1, BindingsUpdated
<1>3. Alike(source, WithBindings(s, p, Bindings))
  BY <1>2, AlikeSame
<1>4. WithBindings(s, p, Bindings).scenarios[p].bindings = Bindings
  <2>1. "scenarios" \in DOMAIN s /\ "bindings" \in DOMAIN s.scenarios[p]
    BY <1>1 DEF IsSource, SourceFields, Sections
  <2> QED BY <1>1, <2>1 DEF WithBindings
<1> QED BY <1>2, <1>3, <1>4 DEF Bound, p

-----------------------------------------------------------------------------
(* What was entered, selected and saved *)

Entered ==
  /\ \A b \in DOMAIN fieldValues : fieldValues[b].isPreset \in BOOLEAN
  /\ \A t \in DOMAIN deposits : deposits[t].isPreset \in BOOLEAN

(* Only the addresses of tokens to select may change.                      *)
Selectable == IF deployment.selectTokens = None THEN {} ELSE deployment.selectTokens
Selected ==
  /\ (selectTokens = None) = (deployment.selectTokens = None)
  /\ selectTokens # None =>
       selectTokens \in [deployment.selectTokens -> Selections \cup {Zero}]
  /\ tokenInfo \subseteq Selections
       \cup {source.tokens[t].address : t \in DOMAIN source.tokens \ Selectable}

(* What is saved of a field is a text or a preset that the field has.      *)
Readable(state) ==
  /\ state.fieldValues = [b \in DOMAIN state.fieldValues |-> state.fieldValues[b]]
  /\ \A b \in DOMAIN state.fieldValues :
       LET v == state.fieldValues[b]
       IN  \/ v = [id |-> Text, value |-> v.value]
           \/ b \in Fields /\ HasPreset(b, v.id)
               /\ v = [id |-> v.id, value |-> PresetValue(b, v.id)]
  /\ \A t \in DOMAIN state.deposits :
       LET v == state.deposits[t]
       IN  v.id = Text => v = [id |-> Text, value |-> v.value]
Saved == \A state \in saved : state \in Foreign \/ Readable(state)

GuiInv == (\E d \in Documents : Copies(d)) /\ Entered /\ Selected /\ Saved

(* A field and a deposit are those of their name.                          *)
LEMMA FieldFacts ==
  ASSUME NEW d \in Documents, Copies(d), NEW b \in Fields
  PROVE  \A id : HasPreset(b, id) => id \in Nat /\ id # Text
<1> DEFINE fields == deployment.fields
           S == {i \in DOMAIN fields : fields[i].binding = b}
<1>1. fields \in Seq(FieldSource)
  <2>1. Declaration(d, deployment.deploymentName) \in GuiDeploymentSource
    BY DeclarationFacts DEF Copies
  <2>2. fields = Declaration(d, deployment.deploymentName).fields
    BY CopiesFacts DEF Declares
  <2> QED BY <2>1, <2>2 DEF GuiDeploymentSource
<1>2. S \in SUBSET Nat /\ S # {}
  BY <1>1 DEF Fields, Elements
<1>3. First(S) \in DOMAIN fields /\ Field(b) = fields[First(S)]
  BY <1>2, FirstFacts DEF Field
<1>4. Field(b) \in FieldSource
  <2> HIDE DEF fields, S
  <2> QED BY <1>1, <1>3
<1>5. Field(b).presets \in Opt(Seq(Nat))
  BY <1>4 DEF FieldSource
<1> QED BY <1>5, GuiAssumption DEF HasPreset, Opt

LEMMA DepositFacts ==
  ASSUME NEW d \in Documents, Copies(d), NEW t \in DepositTokens
  PROVE  /\ Deposit(t).tokenName = t /\ Deposit(t).presets \in Seq(Nat)
         /\ Deposit(t) \in Elements(deployment.deposits)
         /\ t \in Elements(NameOrder)
<1> DEFINE declared == deployment.deposits
           e == Declaration(d, deployment.deploymentName)
           S == {i \in DOMAIN declared : declared[i].tokenName = t}
<1>1. e \in GuiDeploymentSource /\ e \in Elements(d.gui)
  BY DeclarationFacts DEF Copies
<1>2. /\ DOMAIN declared = DOMAIN e.deposits
      /\ \A k \in DOMAIN declared : /\ declared[k].tokenName = e.deposits[k].token
                                     /\ declared[k].presets = e.deposits[k].presets
  BY CopiesFacts DEF Declares
<1>3. e.deposits \in Seq(DepositSource)
  BY <1>1 DEF GuiDeploymentSource
<1> HIDE DEF e
<1>4. DOMAIN declared \subseteq Nat
      /\ \A k \in DOMAIN declared : declared[k].presets \in Seq(Nat)
  <2>1. DOMAIN e.deposits \subseteq Nat
        /\ \A k \in DOMAIN e.deposits : e.deposits[k] \in DepositSource
    <3> HIDE DEF DepositSource
    <3> QED BY <1>3
  <2> QED BY <1>2, <2>1 DEF DepositSource
<1>5. S \in SUBSET Nat /\ S # {}
  BY <1>4 DEF DepositTokens, Elements
<1>6. First(S) \in S /\ Deposit(t) = declared[First(S)]
  BY <1>5, FirstFacts DEF Deposit
<1>7. e.deposits[First(S)] \in Elements(e.deposits) /\ e.deposits[First(S)].token = t
  BY <1>2, <1>6 DEF Elements
<1>8. t \in Elements(NameOrder)
  BY <1>1, <1>7, GuiAssumption
<1> QED BY <1>4, <1>6, <1>8 DEF Elements

-----------------------------------------------------------------------------
(* GuiInv is inductive *)

LEMMA SameFields ==
  ASSUME deployment'.fields = deployment.fields
  PROVE  Fields' = Fields /\ \A b : Field(b)' = Field(b)
BY DEF Fields, Field

LEMMA SavedKept ==
  ASSUME Saved, Left, UNCHANGED saved
  PROVE  Saved'
<1>1. Fields' = Fields /\ \A b : Field(b)' = Field(b)
  BY SameFields DEF Left
<1>2. \A b, id : /\ HasPreset(b, id)' <=> HasPreset(b, id)
                 /\ PresetValue(b, id)' = PresetValue(b, id)
  BY <1>1 DEF HasPreset, PresetValue
<1>3. \A state : Readable(state) => Readable(state)'
  BY <1>1, <1>2 DEF Readable
<1> QED BY <1>3 DEF Saved

(* Calls about values leave the order and what is selected for it.         *)
LEMMA OrderLeft ==
  ASSUME NEW d \in Documents, Copies(d), Selected,
         UNCHANGED <<dotrain, deployment, selectTokens, tokenInfo>>
  PROVE  Copies(d)' /\ Selected' /\ Left
BY DEF Copies, Selected, Selectable, Left, dotrain

LEMMA ValueCalls ==
  ASSUME NEW d \in Documents, Copies(d), Entered, Selected, Saved,
         \/ \E b \in Fields, v \in FieldInputs : SaveFieldValue(b, v)
         \/ \E b, c \in Fields, v, w \in FieldInputs : SaveFieldValues(b, v, c, w)
         \/ \E b \in Fields : RemoveFieldValue(b)
         \/ \E t \in DOMAIN source.tokens, a \in Amounts : SaveDeposit(t, a)
         \/ \E t \in DepositTokens : RemoveDeposit(t)
         \/ \E s \in saved : Deserialize(s)
         \/ ClearState
  PROVE  GuiInv'
<1>1. UNCHANGED <<dotrain, deployment, selectTokens, tokenInfo, saved>>
  BY DEF SaveFieldValue, SaveFieldValues, RemoveFieldValue, SaveDeposit,
         RemoveDeposit, Deserialize, ClearState
<1>2. Copies(d)' /\ Selected' /\ Left /\ Saved'
  BY <1>1, OrderLeft, SavedKept
<1>3. \A b, v : v.isPreset \in BOOLEAN =>
        \A f : (\A x \in DOMAIN f : f[x].isPreset \in BOOLEAN) =>
          \A x \in DOMAIN Inserted(f, b, v) : Inserted(f, b, v)[x].isPreset \in BOOLEAN
  BY DEF Inserted
<1>4. Entered'
  <2>1. CASE \E b \in Fields, v \in FieldInputs : SaveFieldValue(b, v)
    <3>1. PICK b \in Fields, v \in FieldInputs : SaveFieldValue(b, v)
      BY <2>1
    <3>2. v.isPreset \in BOOLEAN
      BY GuiAssumption
    <3>3. fieldValues' \in {fieldValues, Inserted(fieldValues, b, v)} /\ deposits' = deposits
      BY <3>1 DEF SaveFieldValue
    <3> QED BY <1>3, <3>2, <3>3 DEF Entered
  <2>2. CASE \E b, c \in Fields, v, w \in FieldInputs : SaveFieldValues(b, v, c, w)
    <3>1. PICK b \in Fields, c \in Fields, v \in FieldInputs, w \in FieldInputs :
            SaveFieldValues(b, v, c, w)
      BY <2>2
    <3> DEFINE one == IF FieldAccepts(b, v) THEN Inserted(fieldValues, b, v)
                      ELSE fieldValues
    <3>2. v.isPreset \in BOOLEAN /\ w.isPreset \in BOOLEAN
      BY GuiAssumption
    <3>3. \A x \in DOMAIN one : one[x].isPreset \in BOOLEAN
      BY <1>3, <3>2 DEF Entered
    <3>4. fieldValues' \in {one, Inserted(one, c, w)} /\ deposits' = deposits
      BY <3>1 DEF SaveFieldValues
    <3> HIDE DEF one
    <3> QED BY <1>3, <3>2, <3>3, <3>4 DEF Entered
  <2>3. CASE \E b \in Fields : RemoveFieldValue(b)
    BY <2>3 DEF RemoveFieldValue, Without, Entered
  <2>4. CASE \E t \in DOMAIN source.tokens, a \in Amounts : SaveDeposit(t, a)
    <3>1. PICK t \in DOMAIN source.tokens, a \in Amounts : SaveDeposit(t, a)
      BY <2>4
    <3> DEFINE pair == IF a \in Elements(Deposit(t).presets)
              THEN [isPreset |-> TRUE, value |-> Position(Deposit(t).presets, a) - 1]
              ELSE [isPreset |-> FALSE, value |-> a]
    <3>2. pair.isPreset \in BOOLEAN
      OBVIOUS
    <3>3. deposits' \in {deposits, Inserted(deposits, t, pair)} /\ fieldValues' = fieldValues
      BY <3>1 DEF SaveDeposit
    <3> HIDE DEF pair
    <3> QED BY <1>3, <3>2, <3>3 DEF Entered
  <2>5. CASE \E t \in DepositTokens : RemoveDeposit(t)
    BY <2>5 DEF RemoveDeposit, Without, Entered
  <2>6. CASE \E s \in saved : Deserialize(s)
    <3>1. PICK s \in saved : Deserialize(s)
      BY <2>6
    <3>2. \A values : \A k \in DOMAIN Restored(values) :
            Restored(values)[k].isPreset \in BOOLEAN
      BY DEF Restored
    <3>3. fieldValues' = Restored(s.fieldValues) /\ deposits' = Restored(s.deposits)
      BY <3>1 DEF Deserialize
    <3> QED BY <3>2, <3>3 DEF Entered
  <2>7. CASE ClearState
    <3>1. DOMAIN fieldValues' = {} /\ DOMAIN deposits' = {}
      BY <2>7 DEF ClearState
    <3> QED BY <3>1 DEF Entered
  <2> QED BY <2>1, <2>2, <2>3, <2>4, <2>5, <2>6, <2>7
<1> QED BY <1>2, <1>4 DEF GuiInv

(* What is serialized can be read again.                                   *)
LEMMA SerializedReadable ==
  ASSUME NEW d \in Documents, Copies(d), Entered, FieldsReadable, DepositsReadable
  PROVE  Readable(Serialized)
<1>1. ASSUME NEW b \in DOMAIN fieldValues
      PROVE  LET v == SerializedFields[b]
             IN  \/ v = [id |-> Text, value |-> v.value]
                 \/ b \in Fields /\ HasPreset(b, v.id)
                     /\ v = [id |-> v.id, value |-> PresetValue(b, v.id)]
  <2>1. CASE fieldValues[b].isPreset
    <3>1. b \in Fields /\ HasPreset(b, fieldValues[b].value)
      BY <2>1 DEF FieldsReadable
    <3>2. SerializedFields[b] = [id |-> fieldValues[b].value,
                                 value |-> PresetValue(b, fieldValues[b].value)]
      BY <2>1 DEF SerializedFields, FieldValue
    <3> QED BY <3>1, <3>2
  <2>2. CASE ~fieldValues[b].isPreset
    BY <2>2 DEF SerializedFields
  <2> QED BY <2>1, <2>2
<1>2. ASSUME NEW t \in DOMAIN deposits
      PROVE  LET v == SerializedDeposit(t)
             IN  v.id = Text => v = [id |-> Text, value |-> v.value]
  BY DEF SerializedDeposit
<1>3. /\ Serialized.fieldValues = SerializedFields
      /\ DOMAIN Serialized.deposits = DOMAIN deposits
      /\ \A t \in DOMAIN deposits : Serialized.deposits[t] = SerializedDeposit(t)
  BY DEF Serialized
<1>4. DOMAIN SerializedFields = DOMAIN fieldValues
      /\ SerializedFields = [b \in DOMAIN SerializedFields |-> SerializedFields[b]]
  BY DEF SerializedFields
<1> QED BY <1>1, <1>2, <1>3, <1>4 DEF Readable

LEMMA SerializeCall ==
  ASSUME NEW d \in Documents, Copies(d), Entered, Selected, Saved, Serialize
  PROVE  GuiInv'
<1>1. UNCHANGED <<dotrain, deployment, selectTokens, tokenInfo>> /\ UNCHANGED entered
  BY DEF Serialize
<1>2. Copies(d)' /\ Selected' /\ Entered'
  BY <1>1, OrderLeft DEF Entered, entered
<1>3. \A state : Readable(state)' <=> Readable(state)
  BY <1>1 DEF Readable, Fields, Field, HasPreset, PresetValue
<1>4. \A state \in saved' : state \in saved \/ Readable(state)
  BY SerializedReadable DEF Serialize
<1>5. Saved'
  BY <1>3, <1>4 DEF Saved
<1> QED BY <1>2, <1>5 DEF GuiInv

(* Calls about the order leave what was entered and the tokens.            *)
LEMMA ValuesLeft ==
  ASSUME NEW d \in Documents, Copies(d)', Left, Entered, Selected, Saved,
         UNCHANGED <<entered, selectTokens, tokenInfo, saved>>,
         source'.tokens = source.tokens
  PROVE  GuiInv'
<1>1. Entered' /\ Saved'
  BY SavedKept DEF Entered, entered
<1>2. Selected'
  BY DEF Selected, Selectable, Left
<1> QED BY <1>1, <1>2 DEF GuiInv

LEMMA SelectCall ==
  ASSUME NEW d \in Documents, Copies(d), Entered, Selected, Saved,
         NEW t \in DOMAIN source.tokens, NEW a \in Selections, NEW answers \in BOOLEAN,
         SaveSelectTokenAddress(t, a, answers)
  PROVE  GuiInv' /\ Left /\ UNCHANGED source.orders
<1>1. UNCHANGED entered /\ UNCHANGED saved /\ selectTokens # None
      /\ a \in STRING /\ IsSource(source)
  BY GuiAssumption DEF SaveSelectTokenAddress, Copies
<1> DEFINE new == WithTokenAddress(source, t, a)
           wanted == deployment.selectTokens
<1>2. /\ IsSource(new) /\ Alike(source, new) /\ new.orders = source.orders
      /\ \A m \in DOMAIN source.tokens \ {t} : new.tokens[m] = source.tokens[m]
      /\ DOMAIN new.tokens = DOMAIN source.tokens
  <2>1. /\ IsSource(new) /\ Alike(source, new)
        /\ new.orders = source.orders /\ new.scenarios = source.scenarios
        /\ \A m \in DOMAIN source.tokens \ {t} : new.tokens[m] = source.tokens[m]
        /\ new.tokens[t].address = a
    BY <1>1, TokenUpdated
  <2> HIDE DEF new
  <2> QED BY <2>1 DEF Alike
<1> HIDE DEF new
<1>3. /\ wanted # None /\ selectTokens \in [wanted -> Selections \cup {Zero}]
      /\ Selectable = wanted
      /\ tokenInfo \subseteq Selections
           \cup {source.tokens[m].address : m \in DOMAIN source.tokens \ wanted}
  BY <1>1 DEF Selected, Selectable
<1>4. CASE UNCHANGED <<dotrain, deployment, tokenInfo, selectTokens>>
  <2>1. UNCHANGED entered /\ Copies(d)' /\ Selected' /\ Left
    BY <1>1, <1>4, OrderLeft
  <2> QED BY <1>1, <1>4, <2>1, SavedKept DEF GuiInv, Entered, entered, dotrain
<1>5. CASE t \in DOMAIN selectTokens
  <2>1. selectTokens' = [selectTokens EXCEPT ![t] = a]
    BY <1>5 DEF SaveSelectTokenAddress
  <2>2. selectTokens' \in [wanted -> Selections \cup {Zero}] /\ selectTokens' # None
    <3>1. selectTokens' \in [wanted -> Selections \cup {Zero}]
      BY <1>3, <2>1
    <3>4. wanted = Declaration(d, deployment.deploymentName).selectTokens
      BY CopiesFacts DEF Declares
    <3>5. None \notin [wanted -> Selections \cup {Zero}]
      BY <1>3, <3>4, DeclarationFacts, NoneAssumption DEF Copies
    <3> QED BY <3>1, <3>5
  <2>3. CASE answers
    <3>1. Update(new) /\ tokenInfo' = tokenInfo \cup {a} /\ source' = new
      BY <1>5, <2>3 DEF SaveSelectTokenAddress, Update, new
    <3>2. Copies(d)' /\ Left
      BY <1>2, <3>1, Updated
    <3>3. t \in wanted
      BY <1>3, <1>5
    <3>4. {source.tokens[m].address : m \in DOMAIN source.tokens \ wanted}
            = {source'.tokens[m].address : m \in DOMAIN source'.tokens \ wanted}
      BY <1>2, <3>1, <3>3
    <3>5. deployment'.selectTokens = wanted
      BY <3>2 DEF Left
    <3>6. Selected'
      BY <1>3, <2>2, <3>1, <3>4, <3>5 DEF Selected, Selectable
    <3>7. Saved' /\ Entered'
      BY <1>1, <3>2, SavedKept DEF Entered, entered
    <3> QED BY <1>2, <3>1, <3>2, <3>6, <3>7 DEF GuiInv
  <2>4. CASE ~answers
    <3>1. UNCHANGED <<dotrain, deployment, tokenInfo>>
      BY <1>5, <2>4 DEF SaveSelectTokenAddress
    <3>2. Copies(d)' /\ Left
      BY <3>1 DEF Copies, Left, dotrain
    <3>3. Selected'
      BY <1>3, <2>2, <3>1 DEF Selected, Selectable, dotrain
    <3>4. Saved' /\ Entered'
      BY <1>1, <3>2, SavedKept DEF Entered, entered
    <3> QED BY <3>1, <3>2, <3>3, <3>4 DEF GuiInv, dotrain
  <2> QED BY <2>3, <2>4
<1>6. CASE t \notin DOMAIN selectTokens
  BY <1>4, <1>6 DEF SaveSelectTokenAddress
<1> QED BY <1>5, <1>6

LEMMA SetVaultCall ==
  ASSUME NEW d \in Documents, Copies(d), Entered, Selected, Saved,
         NEW side \in {"inputs", "outputs"}, NEW id \in VaultIds,
         NEW i \in DOMAIN source.orders[OrderName][side], SetVaultId(side, i, id)
  PROVE  GuiInv'
<1> DEFINE new == WithVaultId(source, OrderName, side, i, id)
<1>1. IsSource(new) /\ Alike(source, new) /\ new.tokens = source.tokens
  BY SourceFacts, VaultIdUpdated, GuiAssumption
<1>2. Update(new) /\ UNCHANGED <<entered, selectTokens, tokenInfo, saved>>
      /\ source' = new
  BY DEF SetVaultId, Update
<1> HIDE DEF new
<1>3. Copies(d)' /\ Left
  BY <1>1, <1>2, Updated
<1> QED BY <1>1, <1>2, <1>3, ValuesLeft

(* What the two calls that make calldata do to the order: the vault ids are*)
(* populated, the bindings may be, and only a source that converts is what *)
(* the result is made of.                                                  *)
Populated(id) == WithVaultIds(source, OrderName, id)

LEMMA DepositsCall ==
  ASSUME NEW d \in Documents, Copies(d), NEW id \in VaultIds, GenerateDeposits(id)
  PROVE  /\ Copies(d)' /\ Left /\ source'.tokens = source.tokens
         /\ UNCHANGED <<entered, selectTokens, tokenInfo, saved>>
         /\ source'.orders \in {source.orders, Populated(id).orders}
<1> DEFINE new == Populated(id)
<1>1. IsSource(new) /\ Alike(source, new) /\ new.tokens = source.tokens
  BY PopulatedFacts DEF Populated
<1>2. CASE ~AllSelected
  <2>1. UNCHANGED <<entered, selectTokens, tokenInfo, saved>>
        /\ UNCHANGED <<dotrain, deployment>>
    BY <1>2 DEF GenerateDeposits, Fails
  <2> QED BY <2>1 DEF Copies, Left, dotrain
<1>3. CASE AllSelected
  <2>1. Update(new) /\ UNCHANGED <<entered, selectTokens, tokenInfo, saved>>
    BY <1>3 DEF GenerateDeposits, Fails, Populated
  <2> HIDE DEF new
  <2>2. source' = new
    BY <2>1 DEF Update
  <2> QED BY <1>1, <2>1, <2>2, Updated DEF new
<1> QED BY <1>2, <1>3

LEMMA AddOrderCall ==
  ASSUME NEW d \in Documents, Copies(d), NEW id \in VaultIds,
         NEW withDeposits \in BOOLEAN, NEW parses \in BOOLEAN,
         GenerateAddOrder(id, withDeposits, parses)
  PROVE  /\ Copies(d)' /\ Left /\ source'.tokens = source.tokens
         /\ UNCHANGED <<entered, selectTokens, tokenInfo, saved>>
         /\ source'.orders \in {source.orders, Populated(id).orders}
<1> DEFINE populated == Populated(id)
           bound == Bound(populated)
<1>1. IsSource(populated) /\ Alike(source, populated)
      /\ populated.tokens = source.tokens
  BY PopulatedFacts DEF Populated
<1>2. /\ IsSource(bound) /\ Alike(source, bound) /\ bound.tokens = source.tokens
      /\ bound.orders = populated.orders
  BY <1>1, BoundFacts
<1>3. UNCHANGED <<entered, selectTokens, tokenInfo, saved>>
  BY DEF GenerateAddOrder, AddOrderFails, Fails
<1>4. \/ UNCHANGED <<dotrain, deployment>>
      \/ Update(populated)
      \/ /\ source' = bound /\ ~Resolvable(bound) /\ config' = Config(populated)
         /\ deployment' = Named(config', deployment.deploymentName)
      \/ Update(bound)
  BY DEF GenerateAddOrder, Populated
<1> HIDE DEF populated, bound
<1>5. CASE UNCHANGED <<dotrain, deployment>>
  BY <1>3, <1>5 DEF Copies, Left, dotrain
<1>6. CASE Update(populated)
  <2>1. source' = populated
    BY <1>6 DEF Update
  <2> QED BY <1>1, <1>3, <1>6, <2>1, Updated DEF populated
<1>7. CASE /\ source' = bound /\ ~Resolvable(bound) /\ config' = Config(populated)
           /\ deployment' = Named(config', deployment.deploymentName)
  <2>1. Alike(d, populated)
    BY <1>1, AlikeSame DEF Copies
  <2>2. Copies(d)' /\ Left
    BY <1>2, <1>7, <2>1, CopiesKept
  <2> QED BY <1>2, <1>3, <1>7, <2>2 DEF populated
<1>8. CASE Update(bound)
  <2>1. source' = bound
    BY <1>8 DEF Update
  <2> QED BY <1>2, <1>3, <1>8, <2>1, Updated DEF populated
<1> QED BY <1>4, <1>5, <1>6, <1>7, <1>8

LEMMA GuiInvInit == Init => GuiInv
<1> SUFFICES ASSUME Init PROVE GuiInv
  OBVIOUS
<1> DEFINE d == source
<1>1. d \in Documents /\ config = Config(d) /\ saved = Foreign
      /\ fieldValues = <<>> /\ deposits = <<>>
  BY DEF Init
<1>2. IsSource(d) /\ Resolvable(d) /\ Alike(d, d) /\ d.gui # None
  BY <1>1, DocumentFacts, AlikeSame
<1>3. PICK g \in Elements(config.gui) : deployment = Named(config, g.deploymentName)
  BY DEF Init
<1>4. g.deploymentName \in Names(d)
  <2>1. config.gui = Gui(d) /\ DOMAIN Gui(d) = DOMAIN d.gui
    BY <1>1, <1>2 DEF Config, Gui
  <2>2. PICK i \in DOMAIN d.gui : g = Gui(d)[i]
    BY <1>3, <2>1 DEF Elements
  <2>3. Made(d, Gui(d)[i], d.gui[i])
    BY <1>1, <1>2, GuiFacts
  <2> QED BY <2>2, <2>3 DEF Made, Names, Elements
<1>5. Declares(d, deployment, g.deploymentName)
  BY <1>1, <1>2, <1>3, <1>4, DeclaresFacts
<1>6. Copies(d)
  BY <1>1, <1>2, <1>3, <1>4, <1>5 DEF Copies, Declares
<1>7. Entered /\ Saved
  BY <1>1 DEF Entered, Saved
<1> DEFINE wanted == deployment.selectTokens
<1>8. selectTokens = IF wanted = None THEN None ELSE [t \in wanted |-> Zero]
  BY DEF Init
<1>9. wanted # None =>
        selectTokens \in [wanted -> Selections \cup {Zero}] /\ selectTokens # None
  <2> SUFFICES ASSUME wanted # None
               PROVE  selectTokens \in [wanted -> Selections \cup {Zero}]
                      /\ selectTokens # None
    OBVIOUS
  <2>1. selectTokens \in [wanted -> Selections \cup {Zero}]
    BY <1>8
  <2>2. wanted = Declaration(d, g.deploymentName).selectTokens
    BY <1>5 DEF Declares
  <2>3. None \notin [wanted -> Selections \cup {Zero}]
    BY <1>1, <1>4, <2>2, DeclarationFacts, NoneAssumption
  <2> QED BY <2>1, <2>3
<1>10. tokenInfo \subseteq {source.tokens[t].address : t \in DOMAIN source.tokens \ Selectable}
  <2> SUFFICES ASSUME NEW e \in Elements(deployment.deposits),
                      selectTokens = None \/ e.tokenName \notin DOMAIN selectTokens
               PROVE  e.token.address \in {source.tokens[t].address :
                                     t \in DOMAIN source.tokens \ Selectable}
    BY DEF Init
  <2>1. e.tokenName \notin Selectable
    BY <1>8, <1>9 DEF Selectable
  <2> DEFINE name == g.deploymentName
             D == Declaration(d, name)
  <2>2. PICK k \in DOMAIN deployment.deposits : e = deployment.deposits[k]
    BY DEF Elements
  <2>3. Made(d, deployment, D)
    <3>1. First(Declared(d, name)) \in DOMAIN d.gui
      BY <1>1, <1>4, DeclarationFacts
    <3>2. deployment = Gui(d)[First(Declared(d, name))]
      BY <1>1, <1>2, <1>3, <1>4, NamedFacts
    <3> QED BY <1>1, <1>2, <3>1, <3>2, GuiFacts DEF Declaration
  <2> HIDE DEF D
  <2>4. k \in DOMAIN D.deposits /\ e.tokenName = D.deposits[k].token
        /\ e.token = Token(d, e.tokenName)
    BY <2>2, <2>3 DEF Made
  <2>5. e.token.address = source.tokens[e.tokenName].address
    BY <2>4 DEF Token
  <2>6. D.deposits[k] \in Elements(D.deposits)
    BY <2>4 DEF Elements
  <2>7. e.tokenName \in DOMAIN source.tokens
    <3>1. deployment.deploymentName = name
      BY <1>5 DEF Declares
    <3> QED BY <1>1, <1>6, <2>4, <2>6, <3>1, SourceFacts DEF D
  <2> QED BY <2>1, <2>5, <2>7
<1>11. Selected
  BY <1>8, <1>9, <1>10 DEF Selected
<1> QED BY <1>1, <1>6, <1>7, <1>11 DEF GuiInv

LEMMA GuiInvStep == GuiInv /\ [Next]_vars => GuiInv'
<1> SUFFICES ASSUME GuiInv, [Next]_vars PROVE GuiInv'
  OBVIOUS
<1> PICK d \in Documents : Copies(d)
  BY DEF GuiInv
<1> USE DEF GuiInv
<1>1. CASE \/ \E b \in Fields, v \in FieldInputs : SaveFieldValue(b, v)
           \/ \E b, c \in Fields, v, w \in FieldInputs : SaveFieldValues(b, v, c, w)
           \/ \E b \in Fields : RemoveFieldValue(b)
           \/ \E t \in DOMAIN source.tokens, a \in Amounts : SaveDeposit(t, a)
           \/ \E t \in DepositTokens : RemoveDeposit(t)
           \/ \E s \in saved : Deserialize(s)
           \/ ClearState
  <2> HIDE DEF GuiInv
  <2>1. Entered /\ Selected /\ Saved
    BY DEF GuiInv
  <2> QED BY <1>1, <2>1, ValueCalls
<1>2. CASE Serialize
  BY <1>2, SerializeCall
<1>3. CASE \E t \in DOMAIN source.tokens, a \in Selections, answers \in BOOLEAN :
             SaveSelectTokenAddress(t, a, answers)
  BY <1>3, SelectCall
<1>4. CASE \E side \in {"inputs", "outputs"}, id \in VaultIds :
             \E i \in DOMAIN source.orders[OrderName][side] : SetVaultId(side, i, id)
  BY <1>4, SetVaultCall
<1>5. CASE \E id \in VaultIds : GenerateDeposits(id)
  <2>1. Copies(d)' /\ Left /\ source'.tokens = source.tokens
        /\ UNCHANGED <<entered, selectTokens, tokenInfo, saved>>
    BY <1>5, DepositsCall
  <2> QED BY <2>1, ValuesLeft
<1>6. CASE \E id \in VaultIds, withDeposits, parses \in BOOLEAN :
             GenerateAddOrder(id, withDeposits, parses)
  <2>1. Copies(d)' /\ Left /\ source'.tokens = source.tokens
        /\ UNCHANGED <<entered, selectTokens, tokenInfo, saved>>
    BY <1>6, AddOrderCall
  <2> QED BY <2>1, ValuesLeft
<1>7. CASE UNCHANGED vars
  <2>1. UNCHANGED entered /\ UNCHANGED saved /\ UNCHANGED dotrain
        /\ UNCHANGED <<deployment, selectTokens, tokenInfo>>
    BY <1>7 DEF vars, entered, dotrain
  <2>2. Copies(d)' /\ Left /\ source'.tokens = source.tokens
    BY <2>1 DEF Copies, Left, dotrain
  <2> QED BY <2>1, <2>2, ValuesLeft
<1> QED BY <1>1, <1>2, <1>3, <1>4, <1>5, <1>6, <1>7 DEF Next

LEMMA GuiInvHolds == Spec => []GuiInv
BY GuiInvInit, GuiInvStep, PTL DEF Spec

(* The source, the config and the deployment of a gui agree after every    *)
(* call, and what was entered is of them (DotrainOrderGui and its          *)
(* refresh_gui_deployment).                                                *)
THEOREM CopiesAlwaysAgree == Spec => []CopiesAgree
<1>1. GuiInv => CopiesAgree
  <2> SUFFICES ASSUME GuiInv PROVE CopiesAgree
    OBVIOUS
  <2>1. PICK d \in Documents : Copies(d)
    BY DEF GuiInv
  <2>2. Entered /\ Selected
    BY DEF GuiInv
  <2>3. selectTokens # None =>
          /\ DOMAIN selectTokens = deployment.selectTokens
          /\ \A t \in DOMAIN selectTokens : selectTokens[t] \in Selections \cup {Zero}
    BY <2>2 DEF Selected
  <2>4. tokenInfo \subseteq Selections
          \cup {source.tokens[t].address : t \in DOMAIN source.tokens}
    BY <2>2 DEF Selected
  <2>5. TypeOK
    BY <2>1, <2>2, <2>3, <2>4 DEF TypeOK, Copies, Entered, Selected
  <2> QED BY <2>1, <2>5 DEF CopiesAgree, Copies
<1> QED BY <1>1, GuiInvHolds, PTL

-----------------------------------------------------------------------------
(* A state that is restored *)

LEMMA RestoredReads ==
  ASSUME NEW d \in Documents, Copies(d), NEW state, Readable(state),
         fieldValues' = Restored(state.fieldValues),
         deposits' = Restored(state.deposits), deployment' = deployment
  PROVE  /\ FieldsReadable' /\ SerializedFields' = state.fieldValues
         /\ DOMAIN deposits' = DOMAIN state.deposits
         /\ \A t \in DOMAIN deposits' :
              state.deposits[t].id = Text => SerializedDeposit(t)' = state.deposits[t]
<1>1. /\ Fields' = Fields
      /\ \A b, id : /\ HasPreset(b, id)' <=> HasPreset(b, id)
                    /\ PresetValue(b, id)' = PresetValue(b, id)
  BY DEF Fields, Field, HasPreset, PresetValue
<1>2. DOMAIN fieldValues' = DOMAIN state.fieldValues
      /\ DOMAIN deposits' = DOMAIN state.deposits
  BY DEF Restored
<1>3. ASSUME NEW b \in DOMAIN state.fieldValues
      PROVE  /\ fieldValues'[b].isPreset =>
                  b \in Fields /\ HasPreset(b, fieldValues'[b].value)
             /\ SerializedFields'[b] = state.fieldValues[b]
  <2> DEFINE v == state.fieldValues[b]
  <2>1. \/ v = [id |-> Text, value |-> v.value]
        \/ b \in Fields /\ HasPreset(b, v.id)
            /\ v = [id |-> v.id, value |-> PresetValue(b, v.id)]
    BY DEF Readable
  <2>2. fieldValues'[b] = IF v.id # Text THEN [isPreset |-> TRUE, value |-> v.id]
                          ELSE [isPreset |-> FALSE, value |-> v.value]
    BY DEF Restored
  <2>3. SerializedFields'[b] =
          IF fieldValues'[b].isPreset
            THEN [id |-> fieldValues'[b].value,
                  value |-> PresetValue(b, fieldValues'[b].value)]
            ELSE [id |-> Text, value |-> fieldValues'[b].value]
    BY <1>1, <1>2 DEF SerializedFields, FieldValue
  <2>4. CASE v.id = Text
    <3>1. v = [id |-> Text, value |-> v.value]
      BY <2>1, <2>4, FieldFacts
    <3>2. fieldValues'[b] = [isPreset |-> FALSE, value |-> v.value]
      BY <2>2, <2>4
    <3>3. SerializedFields'[b] = [id |-> Text, value |-> v.value]
      BY <2>3, <3>2
    <3> QED BY <3>1, <3>2, <3>3
  <2>5. CASE v.id # Text
    <3>1. b \in Fields /\ HasPreset(b, v.id)
          /\ v = [id |-> v.id, value |-> PresetValue(b, v.id)]
      BY <2>1, <2>5
    <3>2. fieldValues'[b] = [isPreset |-> TRUE, value |-> v.id]
      BY <2>2, <2>5
    <3>3. SerializedFields'[b] = [id |-> v.id, value |-> PresetValue(b, v.id)]
      BY <2>3, <3>2
    <3> QED BY <3>1, <3>2, <3>3
  <2> QED BY <2>4, <2>5
<1>4. FieldsReadable'
  BY <1>1, <1>2, <1>3 DEF FieldsReadable
<1>5. SerializedFields' = [b \in DOMAIN state.fieldValues |-> state.fieldValues[b]]
  <2>1. SerializedFields' = [b \in DOMAIN state.fieldValues |-> SerializedFields'[b]]
    BY <1>2 DEF SerializedFields
  <2> QED BY <1>3, <2>1
<1>6. SerializedFields' = state.fieldValues
  BY <1>5 DEF Readable
<1>7. ASSUME NEW t \in DOMAIN state.deposits, state.deposits[t].id = Text
      PROVE  SerializedDeposit(t)' = state.deposits[t]
  <2>1. state.deposits[t] = [id |-> Text, value |-> state.deposits[t].value]
    BY <1>7 DEF Readable
  <2>2. deposits'[t] = [isPreset |-> FALSE, value |-> state.deposits[t].value]
    BY <1>7 DEF Restored
  <2>3. SerializedDeposit(t)' = [id |-> Text, value |-> state.deposits[t].value]
    BY <2>2 DEF SerializedDeposit
  <2> QED BY <2>1, <2>3
<1> QED BY <1>2, <1>4, <1>6, <1>7

(* Which calls a restored state and a generated order are results of       *)
LEMMA CallNames ==
  ASSUME Next
  PROVE  /\ call'[1] = "deserialize" => \E state \in saved : Deserialize(state)
         /\ call'[1] = "generateAddOrder" =>
              \E id \in VaultIds, withDeposits, parses \in BOOLEAN :
                GenerateAddOrder(id, withDeposits, parses)
         /\ call'[1] # "setVaultId" =>
              \A side \in {"inputs", "outputs"}, id \in VaultIds :
                \A i \in DOMAIN source.orders[OrderName][side] : ~SetVaultId(side, i, id)
<1> DEFINE others == {"saveFieldValue", "saveFieldValues", "removeFieldValue",
                      "saveDeposit", "removeDeposit", "serialize", "clear", "select",
                      "generateDeposits"}
<1>1. \A b, v : SaveFieldValue(b, v) => call'[1] = "saveFieldValue"
  BY DEF SaveFieldValue
<1>2. \A b, c, v, w : SaveFieldValues(b, v, c, w) => call'[1] = "saveFieldValues"
  BY DEF SaveFieldValues
<1>3. \A b : RemoveFieldValue(b) => call'[1] = "removeFieldValue"
  BY DEF RemoveFieldValue
<1>4. \A t, a : SaveDeposit(t, a) => call'[1] = "saveDeposit"
  BY DEF SaveDeposit
<1>5. \A t : RemoveDeposit(t) => call'[1] = "removeDeposit"
  BY DEF RemoveDeposit
<1>6. Serialize => call'[1] = "serialize"
  BY DEF Serialize
<1>7. ClearState => call'[1] = "clear"
  BY DEF ClearState
<1>8. \A t, a, answers : SaveSelectTokenAddress(t, a, answers) => call'[1] = "select"
  BY DEF SaveSelectTokenAddress
<1>9. \A id : GenerateDeposits(id) => call'[1] = "generateDeposits"
  <2> SUFFICES ASSUME NEW id, GenerateDeposits(id) PROVE call'[1] = "generateDeposits"
    OBVIOUS
  <2>1. \/ Fails("generateDeposits")
        \/ \E calls : call' = <<"generateDeposits", "ok", calls>>
    BY DEF GenerateDeposits
  <2> QED BY <2>1 DEF Fails
<1>10. \A state : Deserialize(state) => call'[1] = "deserialize"
  BY DEF Deserialize
<1>11. \A side, i, id : SetVaultId(side, i, id) => call'[1] = "setVaultId"
  BY DEF SetVaultId
<1>12. \A id, withDeposits, parses :
         GenerateAddOrder(id, withDeposits, parses) => call'[1] = "generateAddOrder"
  BY DEF GenerateAddOrder, AddOrderFails, Fails
<1>13. /\ "deserialize" \notin others /\ "setVaultId" \notin others
       /\ "generateAddOrder" \notin others
       /\ "deserialize" # "setVaultId" /\ "deserialize" # "generateAddOrder"
       /\ "setVaultId" # "generateAddOrder"
  OBVIOUS
<1>14. \/ call'[1] \in others
       \/ \E state \in saved : Deserialize(state)
       \/ \E side \in {"inputs", "outputs"}, id \in VaultIds :
            \E i \in DOMAIN source.orders[OrderName][side] : SetVaultId(side, i, id)
       \/ \E id \in VaultIds, withDeposits, parses \in BOOLEAN :
            GenerateAddOrder(id, withDeposits, parses)
  BY <1>1, <1>2, <1>3, <1>4, <1>5, <1>6, <1>7, <1>8, <1>9 DEF Next
<1> HIDE DEF others
<1> QED BY <1>10, <1>11, <1>12, <1>13, <1>14

(* A state that is restored reads as when it was saved: the forms that     *)
(* texts and presets of fields take on the way are each other's inverse    *)
(* (serialize_state and deserialize_state), and a state of another dotrain *)
(* is refused.                                                             *)
THEOREM WhatWasSavedIsRestored == Spec => []RestoredAsSaved
<1>1. Init => RestoredAsSaved
  BY DEF Init, RestoredAsSaved, Called
<1>2. GuiInv /\ RestoredAsSaved /\ [Next]_vars => RestoredAsSaved'
  <2> SUFFICES ASSUME GuiInv, RestoredAsSaved, [Next]_vars PROVE RestoredAsSaved'
    OBVIOUS
  <2>1. CASE UNCHANGED vars
    <3>1. fieldValues' = fieldValues /\ deposits' = deposits
          /\ deployment' = deployment /\ call' = call
      BY <2>1 DEF vars
    <3>2. Fields' = Fields /\ \A b : Field(b)' = Field(b)
      BY <3>1 DEF Fields, Field
    <3>3. \A b, id : /\ HasPreset(b, id)' <=> HasPreset(b, id)
                     /\ PresetValue(b, id)' = PresetValue(b, id)
      BY <3>2 DEF HasPreset, PresetValue
    <3>4. FieldsReadable' <=> FieldsReadable
      BY <3>1, <3>2, <3>3 DEF FieldsReadable
    <3>5. \A b : FieldValue(b)' = FieldValue(b)
      BY <3>1, <3>3 DEF FieldValue
    <3>6. SerializedFields' = SerializedFields
      BY <3>1, <3>5 DEF SerializedFields
    <3>7. \A t : SerializedDeposit(t)' = SerializedDeposit(t)
      BY <3>1 DEF SerializedDeposit, Deposit
    <3> QED BY <3>1, <3>4, <3>6, <3>7 DEF RestoredAsSaved, Called
  <2>2. ASSUME NEW state \in saved, Deserialize(state)
        PROVE  RestoredAsSaved'
    <3> SUFFICES ASSUME Called("deserialize")' PROVE RestoredAsSaved'
      BY DEF RestoredAsSaved
    <3>1. PICK d \in Documents : Copies(d)
      BY DEF GuiInv
    <3>2. fieldValues' = Restored(state.fieldValues) /\ deposits' = Restored(state.deposits)
          /\ deployment' = deployment /\ call'[3] = state
          /\ call'[2] = IF state.configHash = config.gui THEN "ok" ELSE "error"
      BY <2>2 DEF Deserialize
    <3>3. state.configHash = config.gui
      BY <3>2 DEF Called
    <3>4. MadeFrom(config.gui, d.gui)
      BY <3>1, NamedFacts DEF Copies
    <3>5. Readable(state)
      BY <2>2, <3>3, <3>4, GuiAssumption DEF GuiInv, Saved
    <3> QED BY <3>1, <3>2, <3>5, RestoredReads DEF RestoredAsSaved
  <2>3. ASSUME Next, \A state \in saved : ~Deserialize(state)
        PROVE  call'[1] # "deserialize"
    BY <2>3, CallNames
  <2> QED BY <2>1, <2>2, <2>3 DEF RestoredAsSaved, Called
<1> QED BY <1>1, <1>2, GuiInvHolds, PTL DEF Spec

-----------------------------------------------------------------------------
(* The order that is added *)

(* What generate_add_order_calldata has done when it succeeds              *)
LEMMA AddOrderDone ==
  ASSUME NEW d \in Documents, Copies(d), NEW id \in VaultIds,
         NEW withDeposits \in BOOLEAN, NEW parses \in BOOLEAN,
         GenerateAddOrder(id, withDeposits, parses), call'[2] = "ok"
  PROVE  LET bound == Bound(Populated(id))
             name == deployment.deploymentName
             amounts == DepositMap(GetDeposits)
             order_ == call'[3].order
         IN  /\ Resolvable(source) /\ FieldsReadable
             /\ order_ = deployment'.deployment
             /\ Made(bound, deployment', Declaration(d, name))
             /\ \/ call'[3].deposits = <<>>
                \/ /\ DepositsReadable
                   /\ call'[3].deposits = DepositCalls(order_.order.outputs, amounts)
             /\ deployment'.deposits = deployment.deposits
<1> DEFINE populated == Populated(id)
           bound == Bound(populated)
           name == deployment.deploymentName
<1>1. /\ IsSource(populated) /\ Alike(source, populated)
      /\ populated.tokens = source.tokens
      /\ Resolvable(populated) => Resolvable(source)
  BY PopulatedFacts DEF Populated
<1>2. IsSource(bound) /\ Alike(source, bound) /\ bound.tokens = source.tokens
  BY <1>1, BoundFacts
<1>3. /\ Resolvable(populated) /\ FieldsReadable /\ Resolvable(bound) /\ Update(bound)
      /\ call' = <<"generateAddOrder", "ok",
                   [deposits |-> IF withDeposits
                      THEN DepositCalls(deployment'.deployment.order.outputs,
                                        DepositMap(GetDeposits)) ELSE <<>>,
                    order |-> deployment'.deployment]>>
      /\ withDeposits => DepositMapReadable
  <2>1. ~AddOrderFails
    BY DEF AddOrderFails, Fails
  <2> QED BY <2>1 DEF GenerateAddOrder, Populated
<1>4. /\ call'[3].order = deployment'.deployment
      /\ call'[3].deposits = IF withDeposits
           THEN DepositCalls(deployment'.deployment.order.outputs,
                             DepositMap(GetDeposits)) ELSE <<>>
  BY <1>3
<1>5. withDeposits => DepositsReadable
  BY <1>3 DEF DepositMapReadable
<1> HIDE DEF bound, populated
<1> DEFINE i == First(Declared(d, name))
<1>6. name \in Names(d) /\ Alike(d, source) /\ config = Config(source)
      /\ deployment = Named(config, name)
  BY <1>1, <1>3 DEF Copies
<1>7. Alike(d, bound)
  BY <1>2, <1>6, AlikeSame
<1>8. i \in DOMAIN d.gui /\ d.gui[i] = Declaration(d, name)
  BY <1>6, DeclarationFacts DEF Declaration
<1>9. deployment' = Named(Config(bound), name)
  BY <1>3 DEF Update
<1> HIDE DEF i, name
<1>10. deployment' = Gui(bound)[i] /\ deployment = Gui(source)[i]
  BY <1>6, <1>7, <1>9, NamedFacts DEF i
<1>11. Made(bound, deployment', Declaration(d, name))
  BY <1>7, <1>8, <1>10, GuiFacts
<1>12. deployment'.deposits = deployment.deposits
  <2>1. \A n : Token(bound, n) = Token(source, n)
    <3>1. bound.networks = source.networks
      BY <1>2, AlikeFields
    <3> QED BY <1>2, <3>1 DEF Token, Network
  <2>2. bound.gui = d.gui /\ source.gui = d.gui /\ d.gui # None
    BY <1>6, <1>7, AlikeFields, DocumentFacts
  <2> DEFINE entry(s, k) == [tokenName |-> d.gui[i].deposits[k].token,
                             token |-> Token(s, d.gui[i].deposits[k].token),
                             presets |-> d.gui[i].deposits[k].presets]
  <2>3. \A s : s.gui = d.gui =>
          Gui(s)[i].deposits = [k \in DOMAIN d.gui[i].deposits |-> entry(s, k)]
    BY <1>8, <2>2 DEF Gui
  <2>4. \A k : entry(bound, k) = entry(source, k)
    BY <2>1
  <2> HIDE DEF entry
  <2>5. Gui(bound)[i].deposits = [k \in DOMAIN d.gui[i].deposits |-> entry(bound, k)]
    BY <2>2, <2>3
  <2>6. Gui(source)[i].deposits = [k \in DOMAIN d.gui[i].deposits |-> entry(source, k)]
    BY <2>2, <2>3
  <2> QED BY <1>10, <2>4, <2>5, <2>6
<1> QED BY <1>1, <1>3, <1>4, <1>5, <1>11, <1>12 DEF bound, populated, name

(* What a scenario is bound to itself is what it resolves to.              *)
LEMMA OwnBindingFirst ==
  ASSUME NEW s, IsSource(s), NEW p \in DOMAIN s.scenarios,
         NEW b \in DOMAIN OwnBindings(s, p)
  PROVE  /\ b \in DOMAIN ScenarioBindings(s, p)
         /\ ScenarioBindings(s, p)[b] = OwnBindings(s, p)[b]
<1> DEFINE saying == SayingBinding(s, p, b)
<1>1. p \in Seq(STRING) /\ p # <<>>
  BY DEF IsSource
<1>2. p \in Around(p) /\ p \in saying /\ saying \in SUBSET Around(p)
  BY <1>1, AroundFacts DEF SayingBinding
<1>3. Innermost(saying) \in saying /\ Len(p) <= Len(Innermost(saying))
  BY <1>1, <1>2, InnermostFacts
<1>4. Innermost(saying) = p
  <2>1. PICK i \in 1..Len(p) : Innermost(saying) = SubSeq(p, 1, i)
    BY <1>2, <1>3 DEF Around
  <2>2. Len(SubSeq(p, 1, i)) = i
    BY <1>1, AroundFacts
  <2>3. i = Len(p)
    <3>1. Len(p) \in Nat /\ Len(p) <= i
      BY <1>1, <1>3, <2>1, <2>2
    <3> QED BY <3>1
  <2>4. SubSeq(p, 1, Len(p)) = p
    BY <1>1, SubSeqFull
  <2> QED BY <2>1, <2>3, <2>4
<1>5. b \in UNION {DOMAIN OwnBindings(s, q) : q \in Around(p)}
  BY <1>2
<1> QED BY <1>4, <1>5 DEF ScenarioBindings

LEMMA FilledIds ==
  ASSUME NEW io \in Seq(IOSource), NEW id \in Nat
  PROVE  \A i \in DOMAIN io : Filled(io, id)[i].vaultId # None
<1> SUFFICES ASSUME NEW i \in DOMAIN io PROVE Filled(io, id)[i].vaultId # None
  BY DEF Filled
<1>1. id # None
  BY NoneAssumption
<1>2. io[i] \in IOSource /\ DOMAIN Filled(io, id) = DOMAIN io
  <2> HIDE DEF IOSource
  <2> QED BY DEF Filled
<1>3. [io[i] EXCEPT !.vaultId = id].vaultId = id
  BY <1>2 DEF IOSource
<1> QED BY <1>1, <1>3 DEF Filled

LEMMA AddedAsEntered ==
  ASSUME NEW d \in Documents, Copies(d), NEW id \in VaultIds,
         NEW withDeposits \in BOOLEAN, NEW parses \in BOOLEAN,
         GenerateAddOrder(id, withDeposits, parses), call'[2] = "ok"
  PROVE  /\ \A b \in DOMAIN fieldValues :
              /\ b \in DOMAIN call'[3].order.scenario.bindings
              /\ call'[3].order.scenario.bindings[b] = FieldValue(b)
         /\ \A io \in Elements(call'[3].order.order.inputs)
                       \cup Elements(call'[3].order.order.outputs) : io.vaultId # None
<1> DEFINE populated == Populated(id)
           bound == Bound(populated)
           name == deployment.deploymentName
           p == deployment.deployment.scenario.name
<1>1. IsSource(populated) /\ Alike(source, populated)
  BY PopulatedFacts DEF Populated
<1>2. /\ IsSource(bound) /\ Alike(source, bound) /\ bound.orders = populated.orders
      /\ bound.scenarios[p].bindings = Bindings
  BY <1>1, BoundFacts
<1>3. /\ call'[3].order = deployment'.deployment
      /\ Made(bound, deployment', Declaration(d, name))
  BY AddOrderDone
<1>4. /\ p = source.deployments[name].scenario /\ p \in DOMAIN source.scenarios
      /\ OrderName \in DOMAIN source.orders /\ IsSource(source)
  BY SourceFacts
<1>5. Declaration(d, name).deployment = name
  BY DeclarationFacts DEF Copies
<1> HIDE DEF bound, populated
<1>6. bound.deployments = source.deployments /\ p \in DOMAIN bound.scenarios
  BY <1>2, <1>4, AlikeFields DEF Alike
<1>7. call'[3].order = Deployment(bound, name)
  BY <1>3, <1>5 DEF Made
<1>8. call'[3].order.scenario.bindings = ScenarioBindings(bound, p)
  BY <1>4, <1>6, <1>7 DEF Deployment, Scenario
<1>9. call'[3].order.order = Order(bound, OrderName)
  BY <1>6, <1>7 DEF Deployment, OrderName
<1> HIDE DEF p, name
<1>10. ASSUME NEW b \in DOMAIN fieldValues
       PROVE  /\ b \in DOMAIN ScenarioBindings(bound, p)
              /\ ScenarioBindings(bound, p)[b] = FieldValue(b)
  <2>1. OwnBindings(bound, p) = Bindings
    BY <1>2 DEF OwnBindings
  <2>2. b \in DOMAIN OwnBindings(bound, p) /\ Bindings[b] = FieldValue(b)
    BY <2>1 DEF Bindings
  <2> QED BY <1>2, <1>6, <2>1, <2>2, OwnBindingFirst
<1>11. /\ bound.orders[OrderName].inputs = Filled(source.orders[OrderName].inputs, id)
       /\ bound.orders[OrderName].outputs = Filled(source.orders[OrderName].outputs, id)
  <2>1. id \in Nat
    BY GuiAssumption
  <2> DEFINE o == OrderName
             t == WithVaultIds(source, o, id)
  <2> HIDE DEF o
  <2>2. /\ IsSource(t) /\ Alike(source, t)
        /\ t.tokens = source.tokens /\ t.scenarios = source.scenarios
        /\ \A n \in DOMAIN source.orders \ {o} : t.orders[n] = source.orders[n]
        /\ \A side \in {"inputs", "outputs"} :
             \A i \in DOMAIN source.orders[o][side] :
               source.orders[o][side][i].vaultId # None =>
                 t.orders[o][side][i] = source.orders[o][side][i]
        /\ t.orders[o].inputs = Filled(source.orders[o].inputs, id)
        /\ t.orders[o].outputs = Filled(source.orders[o].outputs, id)
        /\ \A side \in {"inputs", "outputs"} :
             /\ SameTokens(source.orders[o][side], t.orders[o][side])
             /\ \A i \in DOMAIN source.orders[o][side] :
                  t.orders[o][side][i].vaultId \in {source.orders[o][side][i].vaultId, id}
    BY <1>4, <2>1, VaultIdsUpdated DEF o
  <2> HIDE DEF t
  <2>3. bound.orders = WithVaultIds(source, OrderName, id).orders
    BY <1>2 DEF populated, Populated
  <2> QED BY <2>2, <2>3 DEF o, t
<1>12. /\ source.orders[OrderName].inputs \in Seq(IOSource)
       /\ source.orders[OrderName].outputs \in Seq(IOSource)
  BY <1>4 DEF IsSource, OrderSource
<1>13. id \in Nat
  BY GuiAssumption
<1>14. /\ \A i \in DOMAIN bound.orders[OrderName].inputs :
            bound.orders[OrderName].inputs[i].vaultId # None
       /\ \A i \in DOMAIN bound.orders[OrderName].outputs :
            bound.orders[OrderName].outputs[i].vaultId # None
  <2>1. \A io, k : DOMAIN Filled(io, k) = DOMAIN io
    BY DEF Filled
  <2> QED BY <1>11, <1>12, <1>13, <2>1, FilledIds
<1>15. \A io : (\A i \in DOMAIN io : io[i].vaultId # None) =>
         \A e \in Elements(OrderIO(bound, io)) : e.vaultId # None
  BY DEF OrderIO, Elements
<1>16. /\ call'[3].order.order.inputs = OrderIO(bound, bound.orders[OrderName].inputs)
       /\ call'[3].order.order.outputs = OrderIO(bound, bound.orders[OrderName].outputs)
  BY <1>9 DEF Order
<1> QED BY <1>8, <1>10, <1>14, <1>15, <1>16

(* The order that is added has the values entered for it, and every vault  *)
(* of it an id (generate_add_order_calldata, update_config_source_bindings *)
(* and populate_vault_ids).                                                *)
THEOREM OrdersAreAsEntered == Spec => []OrderAsEntered
<1>1. Init => OrderAsEntered
  BY DEF Init, OrderAsEntered, Called
<1>2. GuiInv /\ OrderAsEntered /\ [Next]_vars => OrderAsEntered'
  <2> SUFFICES ASSUME GuiInv, OrderAsEntered, [Next]_vars, Called("generateAddOrder")'
               PROVE  OrderAsEntered'
    BY DEF OrderAsEntered
  <2>1. PICK d \in Documents : Copies(d)
    BY DEF GuiInv
  <2>2. CASE UNCHANGED vars
    <3>1. fieldValues' = fieldValues /\ deployment' = deployment /\ call' = call
      BY <2>2 DEF vars
    <3>2. \A b : FieldValue(b)' = FieldValue(b)
      BY <3>1 DEF FieldValue, PresetValue, Field
    <3> QED BY <3>1, <3>2 DEF OrderAsEntered, Called, calldata
  <2>3. CASE Next
    <3>1. call'[1] = "generateAddOrder" /\ call'[2] = "ok"
      BY DEF Called
    <3>2. PICK id \in VaultIds, withDeposits \in BOOLEAN, parses \in BOOLEAN :
            GenerateAddOrder(id, withDeposits, parses)
      BY <2>3, <3>1, CallNames
    <3>3. UNCHANGED entered /\ Left
      BY <2>1, <3>2, AddOrderCall
    <3>4. \A b : FieldValue(b)' = FieldValue(b)
      <4>1. fieldValues' = fieldValues
        BY <3>3 DEF entered
      <4>2. \A b : Field(b)' = Field(b)
        BY <3>3, SameFields DEF Left
      <4> QED BY <4>1, <4>2 DEF FieldValue, PresetValue
    <3>5. /\ \A b \in DOMAIN fieldValues :
               /\ b \in DOMAIN call'[3].order.scenario.bindings
               /\ call'[3].order.scenario.bindings[b] = FieldValue(b)
          /\ \A io \in Elements(call'[3].order.order.inputs)
                        \cup Elements(call'[3].order.order.outputs) : io.vaultId # None
      BY <2>1, <3>1, <3>2, AddedAsEntered
    <3>6. fieldValues' = fieldValues
      BY <3>3 DEF entered
    <3> QED BY <3>4, <3>5, <3>6 DEF OrderAsEntered, calldata
  <2> QED BY <2>2, <2>3
<1> QED BY <1>1, <1>2, GuiInvHolds, PTL DEF Spec

-----------------------------------------------------------------------------
(* The deposits that are added with it *)

Apart(seq) == \A i, j \in DOMAIN seq :
                i # j => seq[i].token.address # seq[j].token.address

(* Every amount is found by the address of its token when the addresses    *)
(* are different.                                                          *)
LEMMA AmountsFacts ==
  ASSUME NEW d \in Documents, Copies(d), DepositsReadable, Apart(deployment.deposits)
  PROVE  LET amounts == DepositMap(GetDeposits)
         IN  \A t \in DOMAIN deposits :
               amounts[Deposit(t).token.address] = deposits[t].value
<1> DEFINE entries == GetDeposits
           entry(t) == [token |-> t, amount |-> deposits[t].value,
                        address |-> Deposit(t).token.address]
           last(a) == CHOOSE e \in entries :
                        /\ e.address = a
                        /\ \A f \in entries :
                             f.address = a => Rank(f.token) <= Rank(e.token)
<1>1. entries = {entry(t) : t \in DOMAIN deposits}
  BY DEF GetDeposits
<1>2. \A t \in DOMAIN deposits : t \in DepositTokens
  BY DEF DepositsReadable
<1>3. \A t \in DOMAIN deposits : Rank(t) \in Nat
  <2> SUFFICES ASSUME NEW t \in DOMAIN deposits PROVE Rank(t) \in Nat
    OBVIOUS
  <2>1. t \in Elements(NameOrder) /\ NameOrder \in Seq(STRING)
    BY <1>2, DepositFacts, GuiAssumption
  <2> DEFINE S == {i \in DOMAIN NameOrder : NameOrder[i] = t}
  <2>2. S \in SUBSET Nat /\ S # {}
    BY <2>1 DEF Elements
  <2> QED BY <2>2, FirstFacts DEF Rank, Position
<1>4. \A t, u \in DOMAIN deposits :
        Deposit(t).token.address = Deposit(u).token.address => t = u
  <2> SUFFICES ASSUME NEW t \in DOMAIN deposits, NEW u \in DOMAIN deposits,
                      Deposit(t).token.address = Deposit(u).token.address
               PROVE  t = u
    OBVIOUS
  <2>1. /\ Deposit(t) \in Elements(deployment.deposits) /\ Deposit(t).tokenName = t
        /\ Deposit(u) \in Elements(deployment.deposits) /\ Deposit(u).tokenName = u
    BY <1>2, DepositFacts
  <2>2. PICK i \in DOMAIN deployment.deposits : Deposit(t) = deployment.deposits[i]
    BY <2>1 DEF Elements
  <2>3. PICK j \in DOMAIN deployment.deposits : Deposit(u) = deployment.deposits[j]
    BY <2>1 DEF Elements
  <2>4. i = j
    BY <2>2, <2>3 DEF Apart
  <2> QED BY <2>1, <2>2, <2>3, <2>4
<1>5. ASSUME NEW t \in DOMAIN deposits
      PROVE  DepositMap(entries)[Deposit(t).token.address] = deposits[t].value
  <2> DEFINE a == Deposit(t).token.address
             good(e) == /\ e.address = a
                        /\ \A f \in entries : f.address = a => Rank(f.token) <= Rank(e.token)
  <2>1. entry(t) \in entries /\ entry(t).address = a /\ entry(t).token = t
        /\ entry(t).amount = deposits[t].value
    BY <1>1
  <2>2. \A e \in entries : e.address = a => e = entry(t)
    <3> SUFFICES ASSUME NEW u \in DOMAIN deposits, entry(u).address = a
                 PROVE  entry(u) = entry(t)
      BY <1>1
    <3>1. u = t
      BY <1>4
    <3> QED BY <3>1
  <2> HIDE DEF entry, entries, a
  <2>3. good(entry(t))
    <3>1. Rank(t) <= Rank(t)
      BY <1>3
    <3> QED BY <2>1, <2>2, <3>1
  <2>4. last(a) \in entries /\ good(last(a))
    BY <2>1, <2>3
  <2> HIDE DEF last
  <2>5. last(a) = entry(t)
    BY <2>2, <2>4
  <2>6. DepositMap(entries)[a] = last(a).amount
    <3>1. a \in {e.address : e \in entries}
      BY <2>1
    <3> QED BY <3>1 DEF DepositMap, last
  <2> QED BY <2>1, <2>5, <2>6 DEF a
<1> QED BY <1>5

(* The calls are of the outputs that something is deposited for, once each.*)
LEMMA DepositCallsFacts ==
  ASSUME NEW outputs, NEW n \in Nat, DOMAIN outputs = 1 .. n, NEW amounts
  PROVE  LET calls == DepositCalls(outputs, amounts)
             paid == Paid(outputs, amounts)
         IN  /\ \A c \in DOMAIN calls :
                  /\ Nth(paid, c) \in DOMAIN outputs
                  /\ calls[c] = DepositCall(outputs[Nth(paid, c)],
                                            outputs[Nth(paid, c)].vaultId, amounts)
             /\ \A i \in paid : \E c \in DOMAIN calls : Nth(paid, c) = i
             /\ \A c, e \in DOMAIN calls : Nth(paid, c) = Nth(paid, e) => c = e
<1> DEFINE paid == Paid(outputs, amounts)
           calls == DepositCalls(outputs, amounts)
<1>1. paid \in SUBSET Nat /\ paid \subseteq 1 .. n /\ IsFiniteSet(1 .. n)
  BY FS_Interval DEF Paid
<1>2. IsFiniteSet(paid)
  BY <1>1, FS_Subset
<1>3. calls = [c \in 1 .. Cardinality(paid) |->
                 DepositCall(outputs[Nth(paid, c)], outputs[Nth(paid, c)].vaultId, amounts)]
  BY DEF DepositCalls
<1> HIDE DEF paid, calls
<1>4. DOMAIN calls = 1 .. Cardinality(paid)
  BY <1>3
<1>5. \A c \in DOMAIN calls : Nth(paid, c) \in paid
  BY <1>1, <1>2, <1>4, NthFacts
<1>6. \A i \in paid : \E c \in DOMAIN calls : Nth(paid, c) = i
  BY <1>1, <1>2, <1>4, NthFacts
<1>7. \A c, e \in DOMAIN calls : Nth(paid, c) = Nth(paid, e) => c = e
  BY <1>1, <1>2, <1>4, NthFacts
<1> QED BY <1>1, <1>3, <1>4, <1>5, <1>6, <1>7 DEF paid, calls

LEMMA CallsAsEntered ==
  ASSUME NEW d \in Documents, Copies(d), DepositsReadable, Apart(deployment.deposits),
         NEW outputs, NEW n \in Nat, DOMAIN outputs = 1 .. n, Apart(outputs)
  PROVE  LET calls == DepositCalls(outputs, DepositMap(GetDeposits))
         IN  /\ \A t \in DOMAIN deposits :
                  deposits[t].value # 0
                    /\ Deposit(t).token \in {o.token : o \in Elements(outputs)} =>
                  Cardinality({i \in DOMAIN calls :
                     /\ calls[i].token = Deposit(t).token.address
                     /\ calls[i].amount = deposits[t].value}) = 1
             /\ \A c \in Elements(calls) :
                  \E o \in Elements(outputs) :
                    o.vaultId = c.vault /\ o.token.address = c.token
<1> DEFINE amounts == DepositMap(GetDeposits)
           calls == DepositCalls(outputs, amounts)
           paid == Paid(outputs, amounts)
<1>1. \A t \in DOMAIN deposits : amounts[Deposit(t).token.address] = deposits[t].value
  BY AmountsFacts
<1>2. /\ \A c \in DOMAIN calls :
           /\ Nth(paid, c) \in DOMAIN outputs
           /\ calls[c] = DepositCall(outputs[Nth(paid, c)],
                                     outputs[Nth(paid, c)].vaultId, amounts)
      /\ \A i \in paid : \E c \in DOMAIN calls : Nth(paid, c) = i
      /\ \A c, e \in DOMAIN calls : Nth(paid, c) = Nth(paid, e) => c = e
  BY DepositCallsFacts
<1>3. \A i \in DOMAIN outputs : amounts[outputs[i].token.address] # 0 => i \in paid
  BY DEF Paid
<1> HIDE DEF amounts, calls, paid
<1>4. \A c \in DOMAIN calls :
        /\ calls[c].vault = outputs[Nth(paid, c)].vaultId
        /\ calls[c].token = outputs[Nth(paid, c)].token.address
        /\ calls[c].amount = amounts[outputs[Nth(paid, c)].token.address]
  BY <1>2 DEF DepositCall
<1>5. ASSUME NEW t \in DOMAIN deposits, deposits[t].value # 0,
             Deposit(t).token \in {o.token : o \in Elements(outputs)}
      PROVE  Cardinality({i \in DOMAIN calls :
               /\ calls[i].token = Deposit(t).token.address
               /\ calls[i].amount = deposits[t].value}) = 1
  <2> DEFINE a == Deposit(t).token.address
  <2>1. PICK j \in DOMAIN outputs : outputs[j].token.address = a
    BY <1>5 DEF Elements
  <2>2. amounts[a] = deposits[t].value
    BY <1>1
  <2> HIDE DEF a
  <2>3. PICK c \in DOMAIN calls : Nth(paid, c) = j
    BY <1>2, <1>3, <1>5, <2>1, <2>2
  <2>4. calls[c].token = a /\ calls[c].amount = deposits[t].value
    BY <1>4, <2>1, <2>2, <2>3
  <2>5. \A e \in DOMAIN calls : calls[e].token = a => e = c
    <3> SUFFICES ASSUME NEW e \in DOMAIN calls, calls[e].token = a PROVE e = c
      OBVIOUS
    <3>1. Nth(paid, e) \in DOMAIN outputs /\ outputs[Nth(paid, e)].token.address = a
      BY <1>2, <1>4
    <3>2. Nth(paid, e) = j
      BY <2>1, <3>1 DEF Apart
    <3> QED BY <1>2, <2>3, <3>2
  <2>6. {i \in DOMAIN calls : calls[i].token = a /\ calls[i].amount = deposits[t].value} = {c}
    BY <2>4, <2>5
  <2> QED BY <2>6, FS_Singleton DEF a
<1>6. ASSUME NEW c \in Elements(calls)
      PROVE  \E o \in Elements(outputs) : o.vaultId = c.vault /\ o.token.address = c.token
  BY <1>2, <1>4 DEF Elements
<1> QED BY <1>5, <1>6 DEF calls, amounts

(* The deposits added with an order are the amounts entered, once each and *)
(* to the vault that the order pays out of, as long as its outputs, and    *)
(* the tokens deposited, are of different addresses (get_deposits_as_map   *)
(* and generate_deposit_calldatas).                                        *)
THEOREM DepositsAreAsEntered == Spec => []DepositsAsEntered
<1>1. Init => DepositsAsEntered
  BY DEF Init, DepositsAsEntered, Called
<1>2. GuiInv /\ DepositsAsEntered /\ [Next]_vars => DepositsAsEntered'
  <2> SUFFICES ASSUME GuiInv, DepositsAsEntered, [Next]_vars, Called("generateAddOrder")'
               PROVE  DepositsAsEntered'
    BY DEF DepositsAsEntered
  <2>1. PICK d \in Documents : Copies(d)
    BY DEF GuiInv
  <2>2. CASE UNCHANGED vars
    <3>1. deposits' = deposits /\ deployment' = deployment /\ call' = call
      BY <2>2 DEF vars
    <3>2. \A t : Deposit(t)' = Deposit(t)
      BY <3>1 DEF Deposit
    <3> QED BY <3>1, <3>2 DEF DepositsAsEntered, Called, calldata
  <2>3. CASE Next
    <3> DEFINE outputs == call'[3].order.order.outputs
    <3>1. call'[1] = "generateAddOrder" /\ call'[2] = "ok"
      BY DEF Called
    <3>2. PICK id \in VaultIds, withDeposits \in BOOLEAN, parses \in BOOLEAN :
            GenerateAddOrder(id, withDeposits, parses)
      BY <2>3, <3>1, CallNames
    <3>3. /\ call'[3].order = deployment'.deployment
          /\ Made(Bound(Populated(id)), deployment',
                  Declaration(d, deployment.deploymentName))
          /\ \/ call'[3].deposits = <<>>
             \/ /\ DepositsReadable
                /\ call'[3].deposits = DepositCalls(outputs, DepositMap(GetDeposits))
          /\ deployment'.deposits = deployment.deposits
      BY <2>1, <3>1, <3>2, AddOrderDone
    <3>4. deposits' = deposits /\ \A t : Deposit(t)' = Deposit(t)
      <4>1. UNCHANGED entered
        BY <2>1, <3>2, AddOrderCall
      <4> QED BY <3>3, <4>1 DEF entered, Deposit
    <3>5. \E n \in Nat : DOMAIN outputs = 1 .. n
      <4> DEFINE name == deployment.deploymentName
                 bound == Bound(Populated(id))
      <4>1. IsSource(bound) /\ Alike(source, bound)
        BY <2>1, PopulatedFacts, BoundFacts DEF Populated
      <4>2. OrderName \in DOMAIN source.orders
        BY <2>1, SourceFacts
      <4>3. Declaration(d, name).deployment = name
        BY <2>1, DeclarationFacts DEF Copies
      <4> HIDE DEF bound
      <4>4. OrderName \in DOMAIN bound.orders /\ bound.deployments = source.deployments
        BY <4>1, <4>2, AlikeFields DEF Alike
      <4>5. call'[3].order = Deployment(bound, name)
        BY <3>3, <4>3 DEF Made, bound
      <4>6. outputs = OrderIO(bound, bound.orders[OrderName].outputs)
        <5>1. call'[3].order.order = Order(bound, OrderName)
          BY <4>4, <4>5 DEF Deployment, OrderName
        <5> QED BY <5>1 DEF Order
      <4>7. bound.orders[OrderName].outputs \in Seq(IOSource)
        BY <4>1, <4>4 DEF IsSource, OrderSource
      <4>8. DOMAIN bound.orders[OrderName].outputs
              = 1 .. Len(bound.orders[OrderName].outputs)
            /\ Len(bound.orders[OrderName].outputs) \in Nat
        BY <4>7
      <4> HIDE DEF outputs
      <4>9. DOMAIN outputs = DOMAIN bound.orders[OrderName].outputs
        BY <4>6 DEF OrderIO
      <4> QED BY <4>8, <4>9
    <3> HIDE DEF outputs
    <3> DEFINE calls == call'[3].deposits
               kept(t) == {i \in DOMAIN calls :
                             /\ calls[i].token = Deposit(t).token.address
                             /\ calls[i].amount = deposits[t].value}
               there(t) == deposits[t].value # 0
                             /\ Deposit(t).token \in {o.token : o \in Elements(outputs)}
    <3>6. calls # <<>> /\ Apart(outputs) /\ Apart(deployment.deposits) =>
            /\ \A t \in DOMAIN deposits : there(t) => Cardinality(kept(t)) = 1
            /\ \A c \in Elements(calls) :
                 \E o \in Elements(outputs) :
                   o.vaultId = c.vault /\ o.token.address = c.token
      BY <2>1, <3>3, <3>5, CallsAsEntered
    <3>7. \A t : /\ kept(t) = {i \in DOMAIN calls :
                              /\ calls[i].token = Deposit(t)'.token.address
                              /\ calls[i].amount = deposits'[t].value}
                 /\ there(t) <=> deposits'[t].value # 0
                      /\ Deposit(t)'.token \in {o.token : o \in Elements(outputs)}
      BY <3>4
    <3> HIDE DEF kept, there
    <3>8. calls # <<>> /\ Apart(outputs) /\ Apart(deployment'.deposits) =>
            /\ \A t \in DOMAIN deposits' :
                 deposits'[t].value # 0
                   /\ Deposit(t)'.token \in {o.token : o \in Elements(outputs)} =>
                 Cardinality({i \in DOMAIN calls :
                              /\ calls[i].token = Deposit(t)'.token.address
                              /\ calls[i].amount = deposits'[t].value}) = 1
            /\ \A c \in Elements(calls) :
                 \E o \in Elements(outputs) :
                   o.vaultId = c.vault /\ o.token.address = c.token
      BY <3>3, <3>4, <3>6, <3>7
    <3> QED BY <3>8, Zenon DEF DepositsAsEntered, calldata, Apart, outputs
  <2> QED BY <2>2, <2>3
<1> QED BY <1>1, <1>2, GuiInvHolds, PTL DEF Spec

-----------------------------------------------------------------------------
(* Vault ids *)

(* Once a vault has an id no call but setVaultId gives it another          *)
(* (populate_vault_ids fills in those that are missing).                   *)
THEOREM VaultsAreKept == Spec => VaultsKept
<1> DEFINE A == \A side \in {"inputs", "outputs"} :
                  \A i \in DOMAIN source.orders[OrderName][side] :
                    source.orders[OrderName][side][i].vaultId # None
                      /\ call'[1] # "setVaultId" =>
                    source'.orders[OrderName][side][i].vaultId
                      = source.orders[OrderName][side][i].vaultId
<1>1. GuiInv /\ [Next]_vars => [A]_vars
  <2> SUFFICES ASSUME GuiInv, Next, call'[1] # "setVaultId",
                      NEW side \in {"inputs", "outputs"},
                      NEW i \in DOMAIN source.orders[OrderName][side],
                      source.orders[OrderName][side][i].vaultId # None
               PROVE  source'.orders[OrderName][side][i].vaultId
                        = source.orders[OrderName][side][i].vaultId
    OBVIOUS
  <2>1. PICK d \in Documents : Copies(d)
    BY DEF GuiInv
  <2>2. Entered /\ Selected /\ Saved
    BY DEF GuiInv
  <2>3. \A id \in VaultIds :
          Populated(id).orders[OrderName][side][i] = source.orders[OrderName][side][i]
    <3>1. IsSource(source) /\ OrderName \in DOMAIN source.orders /\ VaultIds \subseteq Nat
      BY <2>1, SourceFacts, GuiAssumption
    <3> SUFFICES ASSUME NEW id \in VaultIds
                 PROVE  Populated(id).orders[OrderName][side][i]
                          = source.orders[OrderName][side][i]
      OBVIOUS
    <3>2. id \in Nat
      BY <3>1
    <3> QED BY <3>1, <3>2, VaultIdsUpdated DEF Populated
  <2>4. \/ source'.orders = source.orders
        \/ \E id \in VaultIds : source'.orders = Populated(id).orders
    <3>1. CASE UNCHANGED dotrain
      BY <3>1 DEF dotrain
    <3>2. CASE \E t \in DOMAIN source.tokens, a \in Selections, answers \in BOOLEAN :
                 SaveSelectTokenAddress(t, a, answers)
      BY <2>1, <2>2, <3>2, SelectCall
    <3>3. CASE \E id \in VaultIds : GenerateDeposits(id)
      <4>1. PICK id \in VaultIds : GenerateDeposits(id)
        BY <3>3
      <4>2. source'.orders \in {source.orders, Populated(id).orders}
        BY <2>1, <4>1, DepositsCall
      <4> QED BY <4>2
    <3>4. CASE \E id \in VaultIds, withDeposits, parses \in BOOLEAN :
                 GenerateAddOrder(id, withDeposits, parses)
      <4>1. PICK id \in VaultIds, withDeposits \in BOOLEAN, parses \in BOOLEAN :
              GenerateAddOrder(id, withDeposits, parses)
        BY <3>4
      <4>2. source'.orders \in {source.orders, Populated(id).orders}
        BY <2>1, <4>1, AddOrderCall
      <4> QED BY <4>2
    <3>5. \A other \in {"inputs", "outputs"}, id \in VaultIds :
            \A j \in DOMAIN source.orders[OrderName][other] : ~SetVaultId(other, j, id)
      BY CallNames
    <3>6. /\ \A b, v : SaveFieldValue(b, v) => UNCHANGED dotrain
          /\ \A b, c, v, w : SaveFieldValues(b, v, c, w) => UNCHANGED dotrain
          /\ \A b : RemoveFieldValue(b) => UNCHANGED dotrain
          /\ \A t, a : SaveDeposit(t, a) => UNCHANGED dotrain
          /\ \A t : RemoveDeposit(t) => UNCHANGED dotrain
          /\ Serialize => UNCHANGED dotrain
          /\ \A s : Deserialize(s) => UNCHANGED dotrain
          /\ ClearState => UNCHANGED dotrain
      BY DEF SaveFieldValue, SaveFieldValues, RemoveFieldValue, SaveDeposit,
             RemoveDeposit, Serialize, Deserialize, ClearState
    <3> QED BY <3>1, <3>2, <3>3, <3>4, <3>5, <3>6 DEF Next
  <2> QED BY <2>3, <2>4
<1>2. [A]_vars => [\A side \in {"inputs", "outputs"} :
       \A i \in DOMAIN source.orders[OrderName][side] :
         LET now == source.orders[OrderName][side][i].vaultId
             then == source'.orders[OrderName][side][i].vaultId
         IN  now # None /\ call'[1] # "setVaultId" => then = now]_vars
  OBVIOUS
<1> QED BY <1>1, <1>2, GuiInvHolds, PTL DEF Spec, VaultsKept

=============================================================================
