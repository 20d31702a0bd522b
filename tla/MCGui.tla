------------------------------- MODULE MCGui --------------------------------
(***************************************************************************)
(* A gui with two deployments: one whose order sells what it has a deposit *)
(* for, with tokens to select, and one of a child scenario whose order     *)
(* sells two tokens.                                                       *)
(***************************************************************************)
EXTENDS Gui

Set(t, id) == [token |-> t, vaultId |-> id]
IO(t) == [token |-> t, vaultId |-> None]

Field1(b, presets) == [binding |-> b, presets |-> presets]

Document ==
  [DefaultSource EXCEPT
     !.networks = "n" :> [rpc |-> "r"],
     !.subgraphs = "n" :> "s",
     !.orderbooks = "n" :> [address |-> "0x7", network |-> None,
                            subgraph |-> None],
     !.tokens = "t" :> [network |-> "n", address |-> "0x1"] @@
                "u" :> [network |-> "n", address |-> "0x2"] @@
                "v" :> [network |-> "n", address |-> "0x3"],
     !.deployers = "d" :> [address |-> "0x1", network |-> "n", label |-> None],
     !.orders =
       "o" :> [inputs |-> << Set("t", 1) >>, outputs |-> << IO("u") >>,
               deployer |-> None, orderbook |-> "n"] @@
       "q" :> [inputs |-> << Set("t", 1) >>, outputs |-> << Set("t", 1), IO("u") >>,
               deployer |-> None, orderbook |-> "n"],
     !.scenarios =
       <<"d">> :> [deployer |-> None, bindings |-> "z" :> 3] @@
       <<"d", "c">> :> [deployer |-> None, bindings |-> "x" :> 1],
     !.deployments =
       "do" :> [scenario |-> <<"d">>, order |-> "o"] @@
       "cq" :> [scenario |-> <<"d", "c">>, order |-> "q"],
     !.gui =
       << [deployment |-> "do",
           deposits |-> << [token |-> "u", presets |-> <<10, 5>>] >>,
           fields |-> << Field1("x", <<2, 1>>), Field1("w", None) >>,
           selectTokens |-> {"u"}],
          [deployment |-> "cq",
           deposits |-> << [token |-> "t", presets |-> <<5, 0>>],
                           [token |-> "u", presets |-> <<>>] >>,
           fields |-> << Field1("y", <<3, 1>>) >>,
           selectTokens |-> None] >>]

MCDocuments == {Document}

MCFieldInputs == {[isPreset |-> TRUE, value |-> 2],
                  [isPreset |-> FALSE, value |-> 3]}

MCNameOrder == <<"t", "u">>

(* A state of another dotrain *)
MCForeign ==
  {[configHash |-> <<>>,
    fieldValues |-> "x" :> [id |-> 9, value |-> 7],
    deposits |-> "k" :> [id |-> Text, value |-> 5]]}

(* Bound: a session in which a state is saved makes no order and no        *)
(* deposit after that, and gives no vault an id.                           *)
NoVaults == \A o \in DOMAIN source.orders : \A side \in {"inputs", "outputs"} :
              source.orders[o][side] = Document.orders[o][side]
Short == saved = Foreign \/ NoVaults

MCNext == Next /\ Short'

MCSpec == Init /\ [][MCNext]_vars

=============================================================================
