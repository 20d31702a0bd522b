-------------------------------- MODULE Gui ---------------------------------
(***************************************************************************)
(* A DotrainOrderGui: one deployment of a dotrain, the values its user has *)
(* entered for it, and the calldata generated from them. The calls on one  *)
(* object do not overlap (wasm_bindgen holds it for the time of an async   *)
(* call), but a call that fails keeps what it has done by then.            *)
(***************************************************************************)
EXTENDS Settings

CONSTANTS
  Documents,   \* sources with a gui that convert
  FieldInputs, \* what a field may be given: [isPreset, value]
  Amounts,     \* amounts that may be entered for a deposit
  Selections,  \* addresses that may be selected for a token
  VaultIds,    \* random or chosen vault ids
  NameOrder,   \* the names of tokens as a BTreeMap orders them
  Foreign,     \* states that were saved for another dotrain
  MaxSaved,    \* bound: how many states are saved here
  Text         \* the empty string, the id of a value that is no preset

Zero == "0x0"  \* Address::ZERO

(* The gui of a source. A text that is entered is a number.                *)
DepositSource == [token : STRING, presets : Seq(Nat)]
FieldSource == [binding : STRING, presets : Opt(Seq(Nat))]
GuiDeploymentSource ==
  [deployment : STRING, deposits : Seq(DepositSource), fields : Seq(FieldSource),
   selectTokens : Opt(SUBSET STRING)]

(* gui is of the deployments, fields and tokens that a document declares.  *)
MadeFrom(gui, declared) ==
  /\ DOMAIN gui = DOMAIN declared
  /\ \A i \in DOMAIN declared :
       /\ gui[i].deploymentName = declared[i].deployment
       /\ gui[i].fields = declared[i].fields
       /\ gui[i].selectTokens = declared[i].selectTokens

ASSUME GuiAssumption ==
  /\ \A d \in Documents :
       /\ IsSource(d) /\ Resolvable(d)
       /\ d.gui # None /\ d.gui \in Seq(GuiDeploymentSource)
       /\ \A g \in Elements(d.gui) : \A e \in Elements(g.deposits) :
            e.token \in Elements(NameOrder)
       /\ \A state \in Foreign : ~MadeFrom(state.configHash, d.gui)
  /\ \A v \in FieldInputs : v.isPreset \in BOOLEAN
  /\ NameOrder \in Seq(STRING)
  /\ Selections \subseteq STRING /\ VaultIds \subseteq Nat /\ Text \notin Nat

(* The absence of a value is none of the values.                           *)
ASSUME NoneAssumption ==
  /\ None \notin Nat
  /\ \A d \in Documents : \A g \in Elements(d.gui) :
       g.selectTokens # None =>
         None \notin [g.selectTokens -> Selections \cup {Zero}]

VARIABLES
  source, config,      \* of dotrain_order
  deployment,          \* the GuiDeployment last taken from the config
  fieldValues, deposits,
  selectTokens,        \* token names to addresses, or None
  tokenInfo,           \* addresses whose decimals are known
  saved,               \* states that have been serialized
  call                 \* the last call, its result, what it is about

dotrain == <<source, config>>
entered == <<fieldValues, deposits>>
vars == <<source, config, deployment, fieldValues, deposits, selectTokens,
          tokenInfo, saved, call>>

OrderName == source.deployments[deployment.deploymentName].order
order == deployment.deployment.order

First(S) == CHOOSE i \in S : \A j \in S : i <= j

Named(c, name) ==
  c.gui[First({i \in DOMAIN c.gui : c.gui[i].deploymentName = name})]

Position(seq, x) == First({i \in DOMAIN seq : seq[i] = x})

Field(b) ==
  LET fields == deployment.fields
  IN  fields[First({i \in DOMAIN fields : fields[i].binding = b})]
Fields == {f.binding : f \in Elements(deployment.fields)}

Deposit(t) ==
  LET declared == deployment.deposits
  IN  declared[First({i \in DOMAIN declared : declared[i].tokenName = t})]
DepositTokens == {d.tokenName : d \in Elements(deployment.deposits)}

-----------------------------------------------------------------------------
(* choose_deployment asks for the decimals of every deposit token that is  *)
(* not to be selected.                                                     *)
Init ==
  /\ source \in Documents
  /\ config = Config(source)
  /\ \E g \in Elements(config.gui) : deployment = Named(config, g.deploymentName)
  /\ order.orderbook # None
  /\ fieldValues = <<>> /\ deposits = <<>>
  /\ selectTokens = IF deployment.selectTokens = None THEN None
                    ELSE [t \in deployment.selectTokens |-> Zero]
  /\ tokenInfo = {d.token.address : d \in {e \in Elements(deployment.deposits) :
                    selectTokens = None \/ e.tokenName \notin DOMAIN selectTokens}}
  /\ saved = Foreign /\ call = <<"choose", "ok">>

-----------------------------------------------------------------------------
(* Values *)

PresetValue(b, id) == Field(b).presets[id]
HasPreset(b, id) == Field(b).presets # None /\ id \in DOMAIN Field(b).presets

FieldAccepts(b, v) == b \in Fields /\ (v.isPreset => HasPreset(b, v.value))

Inserted(f, k, v) == [x \in DOMAIN f \cup {k} |-> IF x = k THEN v ELSE f[x]]

SaveFieldValue(b, v) ==
  /\ IF FieldAccepts(b, v)
       THEN /\ fieldValues' = Inserted(fieldValues, b, v)
            /\ call' = <<"saveFieldValue", "ok">>
       ELSE UNCHANGED fieldValues /\ call' = <<"saveFieldValue", "error">>
  /\ UNCHANGED <<dotrain, deployment, deposits, selectTokens, tokenInfo, saved>>

(* The values before the first that is refused stay.                       *)
SaveFieldValues(b, v, c, w) ==
  LET one == IF FieldAccepts(b, v) THEN Inserted(fieldValues, b, v) ELSE fieldValues
      both == FieldAccepts(b, v) /\ FieldAccepts(c, w)
  IN  /\ fieldValues' = IF both THEN Inserted(one, c, w) ELSE one
      /\ call' = <<"saveFieldValues", IF both THEN "ok" ELSE "error">>
      /\ UNCHANGED <<dotrain, deployment, deposits, selectTokens, tokenInfo,
                     saved>>

Without(f, k) == [x \in DOMAIN f \ {k} |-> f[x]]

RemoveFieldValue(b) ==
  /\ fieldValues' = Without(fieldValues, b)
  /\ call' = <<"removeFieldValue", "ok">>
  /\ UNCHANGED <<dotrain, deployment, deposits, selectTokens, tokenInfo, saved>>

(* get_field_value fails for a preset that the field does not have, and    *)
(* gives else the text or the value of the preset.                         *)
FieldsReadable ==
  \A b \in DOMAIN fieldValues :
    fieldValues[b].isPreset => b \in Fields /\ HasPreset(b, fieldValues[b].value)
FieldValue(b) ==
  IF fieldValues[b].isPreset THEN PresetValue(b, fieldValues[b].value)
  ELSE fieldValues[b].value

(* An amount that is a preset is kept as the preset's index.               *)
SaveDeposit(t, amount) ==
  /\ IF t \in DepositTokens
       THEN LET presets == Deposit(t).presets
                pair == IF amount \in Elements(presets)
                        THEN [isPreset |-> TRUE, value |-> Position(presets, amount) - 1]
                        ELSE [isPreset |-> FALSE, value |-> amount]
            IN
            /\ deposits' = Inserted(deposits, t, pair)
            /\ call' = <<"saveDeposit", "ok", t, amount>>
       ELSE UNCHANGED deposits /\ call' = <<"saveDeposit", "error">>
  /\ UNCHANGED <<dotrain, deployment, fieldValues, selectTokens, tokenInfo,
                 saved>>

RemoveDeposit(t) ==
  /\ deposits' = Without(deposits, t)
  /\ call' = <<"removeDeposit", "ok">>
  /\ UNCHANGED <<dotrain, deployment, fieldValues, selectTokens, tokenInfo,
                 saved>>

(* get_deposits, and the getter fails when one of them cannot be read: a   *)
(* preset is looked for among the amounts.                                 *)
DepositsReadable ==
  \A t \in DOMAIN deposits :
    /\ t \in DepositTokens
    /\ deposits[t].isPreset => deposits[t].value \in Elements(Deposit(t).presets)
GetDeposits ==
  {[token |-> t, amount |-> deposits[t].value,
    address |-> Deposit(t).token.address] : t \in DOMAIN deposits}

-----------------------------------------------------------------------------
(* Saved states. Their hash is of the gui of the whole configuration.      *)

SerializedFields ==
  [b \in DOMAIN fieldValues |->
     IF fieldValues[b].isPreset
       THEN [id |-> fieldValues[b].value, value |-> FieldValue(b)]
       ELSE [id |-> Text, value |-> fieldValues[b].value]]

SerializedDeposit(t) ==
  IF deposits[t].isPreset
    THEN [id |-> Position(Deposit(t).presets, deposits[t].value) - 1,
          value |-> Text]
    ELSE [id |-> Text, value |-> deposits[t].value]

Serialized ==
  [configHash |-> config.gui,
   fieldValues |-> SerializedFields,
   deposits |-> [t \in DOMAIN deposits |-> SerializedDeposit(t)]]

Serialize ==
  /\ Cardinality(saved \ Foreign) < MaxSaved
  /\ IF FieldsReadable /\ DepositsReadable
       THEN saved' = saved \cup {Serialized} /\ call' = <<"serialize", "ok">>
       ELSE UNCHANGED saved /\ call' = <<"serialize", "error">>
  /\ UNCHANGED <<dotrain, deployment, entered, selectTokens, tokenInfo>>

(* Mutation: what is not a text comes back as one.                         *)
RestoredTexts(values) ==
  [k \in DOMAIN values |-> [isPreset |-> FALSE, value |-> values[k].value]]

Restored(values) ==
  [k \in DOMAIN values |->
     IF values[k].id # Text
       THEN [isPreset |-> TRUE, value |-> values[k].id]
       ELSE [isPreset |-> FALSE, value |-> values[k].value]]

(* The values are taken over before the hash is looked at.                 *)
Deserialize(state) ==
  /\ fieldValues' = Restored(state.fieldValues)
  /\ deposits' = Restored(state.deposits)
  /\ call' = <<"deserialize",
               IF state.configHash = config.gui THEN "ok" ELSE "error", state>>
  /\ UNCHANGED <<dotrain, deployment, selectTokens, tokenInfo, saved>>

ClearState ==
  /\ fieldValues' = <<>> /\ deposits' = <<>>
  /\ call' = <<"clear", "ok">>
  /\ UNCHANGED <<dotrain, deployment, selectTokens, tokenInfo, saved>>

-----------------------------------------------------------------------------
(* The dotrain order *)

(* Mutation: the deployment is the one from before the update.             *)
UpdateOnly(new) ==
  /\ source' = new
  /\ config' = IF Resolvable(new) THEN Config(new) ELSE config
  /\ deployment' = deployment

(* What an update leaves: the source is replaced even if it does not       *)
(* convert, and the deployment is taken from the config there is then.     *)
Update(new) ==
  LET c == IF Resolvable(new) THEN Config(new) ELSE config
  IN  /\ source' = new
      /\ config' = c
      /\ deployment' = Named(c, deployment.deploymentName)

(* The selection is kept first; then the token is asked for its decimals,  *)
(* which may fail, and only then its address is updated.                   *)
SaveSelectTokenAddress(t, address, answers) ==
  /\ selectTokens # None
  /\ IF t \notin DOMAIN selectTokens
       THEN /\ call' = <<"select", "error">>
            /\ UNCHANGED <<dotrain, deployment, selectTokens, tokenInfo>>
       ELSE /\ selectTokens' = [selectTokens EXCEPT ![t] = address]
            /\ IF answers
                 THEN /\ tokenInfo' = tokenInfo \cup {address}
                      /\ Update(WithTokenAddress(source, t, address))
                      /\ call' = <<"select",
                           IF Resolvable(source') THEN "ok" ELSE "error">>
                 ELSE /\ UNCHANGED <<dotrain, deployment, tokenInfo>>
                      /\ call' = <<"select", "error">>
  /\ UNCHANGED <<entered, saved>>

SetVaultId(side, i, id) ==
  /\ i \in DOMAIN source.orders[OrderName][side]
  /\ Update(WithVaultId(source, OrderName, side, i, id))
  /\ call' = <<"setVaultId", IF Resolvable(source') THEN "ok" ELSE "error">>
  /\ UNCHANGED <<entered, selectTokens, tokenInfo, saved>>

AllSelected ==
  selectTokens # None => \A t \in DOMAIN selectTokens : selectTokens[t] # Zero

(* get_deposits_as_map: by address, the deposits of later names last       *)
DepositMapReadable ==
  DepositsReadable /\ \A d \in GetDeposits : d.address \in tokenInfo
Rank(t) == Position(NameOrder, t)
DepositMap(entries) ==
  LET last(a) == CHOOSE d \in entries :
                   /\ d.address = a
                   /\ \A e \in entries :
                        e.address = a => Rank(e.token) <= Rank(d.token)
  IN  [a \in {d.address : d \in entries} |-> last(a).amount]

(* The outputs that something is deposited for, and the n-th of them       *)
Paid(outputs, amounts) ==
  {i \in DOMAIN outputs : amounts[outputs[i].token.address] # 0}
Nth(S, n) == CHOOSE i \in S : Cardinality({j \in S : j < i}) = n - 1

DepositCall(output, vault, amounts) ==
  [vault |-> vault, token |-> output.token.address,
   amount |-> amounts[output.token.address]]

(* Mutation: after an output without a deposit the vaults are one behind.  *)
ShiftedDepositCalls(outputs, amounts) ==
  LET paid == Paid(outputs, amounts)
  IN  [n \in 1 .. Cardinality(paid) |->
         DepositCall(outputs[Nth(paid, n)], outputs[n].vaultId, amounts)]

(* generate_deposit_calldatas: every output must have a deposit, and those *)
(* of nothing are left out.                                                *)
DepositCalls(outputs, amounts) ==
  LET paid == Paid(outputs, amounts)
  IN  [n \in 1 .. Cardinality(paid) |->
         LET output == outputs[Nth(paid, n)]
         IN  DepositCall(output, output.vaultId, amounts)]

Fails(op) ==
  /\ call' = <<op, "error">>
  /\ UNCHANGED <<entered, selectTokens, tokenInfo, saved>>

(* populate_vault_ids, then the deposits of the deployment as it is then   *)
GenerateDeposits(id) ==
  LET new == WithVaultIds(source, OrderName, id)
      op == "generateDeposits"
  IN  IF ~AllSelected THEN Fails(op) /\ UNCHANGED <<dotrain, deployment>>
      ELSE /\ Update(new)
           /\ LET outputs == deployment'.deployment.order.outputs
                  amounts == DepositMap(GetDeposits)
              IN  IF /\ Resolvable(new)
                     /\ DepositMapReadable
                     /\ \A o \in Elements(outputs) :
                          o.token.address \in DOMAIN amounts
                    THEN /\ call' = <<op, "ok", DepositCalls(outputs, amounts)>>
                         /\ UNCHANGED <<entered, selectTokens, tokenInfo, saved>>
                    ELSE Fails(op)

(* Mutation: a preset is bound to its id.                                  *)
RawBindings == [b \in DOMAIN fieldValues |-> fieldValues[b].value]

Bindings == [b \in DOMAIN fieldValues |-> FieldValue(b)]

(* populate_vault_ids and then update_config_source_bindings, which gives  *)
(* the scenario the entered values and no other bindings                   *)
Bound(new) ==
  WithBindings(new, deployment.deployment.scenario.name, Bindings)

AddOrderFails == Fails("generateAddOrder")

GenerateAddOrder(id, withDeposits, parses) ==
  LET populated == WithVaultIds(source, OrderName, id)
      bound == Bound(populated)
      outputs == deployment'.deployment.order.outputs
      amounts == DepositMap(GetDeposits)
      deposited == withDeposits =>
        /\ DepositMapReadable
        /\ \A o \in Elements(outputs) : o.token.address \in DOMAIN amounts
  IN  \/ /\ ~AllSelected
         /\ AddOrderFails /\ UNCHANGED <<dotrain, deployment>>
      \/ /\ AllSelected /\ ~(Resolvable(populated) /\ FieldsReadable)
         /\ AddOrderFails /\ Update(populated)
      \/ /\ AllSelected /\ Resolvable(populated) /\ FieldsReadable
         /\ ~Resolvable(bound)
         /\ AddOrderFails
         /\ source' = bound
         /\ config' = Config(populated)
         /\ deployment' = Named(config', deployment.deploymentName)
      \/ /\ AllSelected /\ FieldsReadable
         /\ Resolvable(populated) /\ Resolvable(bound)
         /\ Update(bound)
         /\ IF deposited /\ parses
              THEN /\ call' = <<"generateAddOrder", "ok",
                        [deposits |-> IF withDeposits
                           THEN DepositCalls(outputs, amounts) ELSE <<>>,
                         order |-> deployment'.deployment]>>
                   /\ UNCHANGED <<entered, selectTokens, tokenInfo, saved>>
              ELSE AddOrderFails

Next ==
  \/ \E b \in Fields, v \in FieldInputs : SaveFieldValue(b, v)
  \/ \E b, c \in Fields, v, w \in FieldInputs : SaveFieldValues(b, v, c, w)
  \/ \E b \in Fields : RemoveFieldValue(b)
  \/ \E t \in DOMAIN source.tokens, a \in Amounts : SaveDeposit(t, a)
  \/ \E t \in DepositTokens : RemoveDeposit(t)
  \/ Serialize
  \/ \E s \in saved : Deserialize(s)
  \/ ClearState
  \/ \E t \in DOMAIN source.tokens, a \in Selections, answers \in BOOLEAN :
       SaveSelectTokenAddress(t, a, answers)
  \/ \E side \in {"inputs", "outputs"}, id \in VaultIds :
       \E i \in DOMAIN source.orders[OrderName][side] : SetVaultId(side, i, id)
  \/ \E id \in VaultIds : GenerateDeposits(id)
  \/ \E id \in VaultIds, withDeposits, parses \in BOOLEAN :
       GenerateAddOrder(id, withDeposits, parses)

Spec == Init /\ [][Next]_vars

-----------------------------------------------------------------------------
(* Properties *)

Called(op) == call[1] = op /\ call[2] = "ok"
calldata == call[3]

(* The fields of a gui and the last result it gave.                        *)
TypeOK ==
  /\ IsSource(source)
  /\ \A b \in DOMAIN fieldValues : fieldValues[b].isPreset \in BOOLEAN
  /\ \A t \in DOMAIN deposits : deposits[t].isPreset \in BOOLEAN
  /\ (selectTokens = None) = (deployment.selectTokens = None)
  /\ selectTokens # None =>
       /\ DOMAIN selectTokens = deployment.selectTokens
       /\ \A t \in DOMAIN selectTokens : selectTokens[t] \in Selections \cup {Zero}
  /\ tokenInfo \subseteq Selections
       \cup {source.tokens[t].address : t \in DOMAIN source.tokens}

(* The source, the config made of it and the deployment taken out of the   *)
(* config agree after every call, unless the source does not convert; and  *)
(* what was entered is of that deployment and that source (TypeOK).        *)
CopiesAgree ==
  /\ TypeOK
  /\ deployment = Named(config, deployment.deploymentName)
  /\ Resolvable(source) => config = Config(source)

(* A state that is restored reads as it did when it was saved, though the  *)
(* kinds of values change their form on the way; but for deposits of a     *)
(* preset, which are saved by their position and looked for by their       *)
(* amount, twice (save_deposit and serialize_state).                       *)
RestoredAsSaved ==
  Called("deserialize") =>
    LET was == call[3]
    IN  /\ FieldsReadable /\ SerializedFields = was.fieldValues
        /\ DOMAIN deposits = DOMAIN was.deposits
        /\ \A t \in DOMAIN deposits :
             was.deposits[t].id = Text => SerializedDeposit(t) = was.deposits[t]

(* The order that is added has the values entered for it, and every vault  *)
(* of it an id.                                                            *)
OrderAsEntered ==
  Called("generateAddOrder") =>
    /\ \A b \in DOMAIN fieldValues :
         /\ b \in DOMAIN calldata.order.scenario.bindings
         /\ calldata.order.scenario.bindings[b] = FieldValue(b)
    /\ \A io \in Elements(calldata.order.order.inputs)
                  \cup Elements(calldata.order.order.outputs) : io.vaultId # None

(* The deposits added with an order are exactly the amounts entered, once  *)
(* each and to the vault that the order pays out of, as long as its        *)
(* outputs, and the tokens deposited, are of different addresses.          *)
DepositsAsEntered ==
  Called("generateAddOrder") =>
  LET outputs == calldata.order.order.outputs
      distinct(seq) == \A i, j \in DOMAIN seq : i # j =>
                          seq[i].token.address # seq[j].token.address
  IN  calldata.deposits # <<>> /\ distinct(outputs) /\ distinct(deployment.deposits)
      => /\ \A t \in DOMAIN deposits :
              deposits[t].value # 0 /\ Deposit(t).token \in {o.token : o \in Elements(outputs)} =>
                Cardinality({i \in DOMAIN calldata.deposits :
                  /\ calldata.deposits[i].token = Deposit(t).token.address
                  /\ calldata.deposits[i].amount = deposits[t].value}) = 1
         /\ \A c \in Elements(calldata.deposits) :
              \E o \in Elements(outputs) :
                o.vaultId = c.vault /\ o.token.address = c.token

(* Once a vault has an id no call but setVaultId gives it another one, so  *)
(* what was deposited with one calldata is there for the order of the next.*)
VaultsKept ==
  [][\A side \in {"inputs", "outputs"} :
       \A i \in DOMAIN source.orders[OrderName][side] :
         LET now == source.orders[OrderName][side][i].vaultId
             then == source'.orders[OrderName][side][i].vaultId
         IN  now # None /\ call'[1] # "setVaultId" => then = now]_vars

=============================================================================
