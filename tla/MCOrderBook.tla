---------------------------- MODULE MCOrderBook ----------------------------
(***************************************************************************)
(* Small instances of OrderBook, one per .cfg.  Alice asks: she sells x    *)
(* for y; bob bids: he sells y for x.  Powers of two replace powers of     *)
(* ten, one decimal the 18 of the code, and y has none, so that every      *)
(* rounding happens.                                                       *)
(***************************************************************************)
EXTENDS OrderBook

CONSTANTS alice, bob, ob, x, y

MCScale == [k \in 0..MaxDecimals |-> 2^k]

XIO == [token |-> x, decimals |-> 1, vaultId |-> 1]
YIO == [token |-> y, decimals |-> 0, vaultId |-> 1]

Ask(n) == [owner |-> alice, validInputs |-> <<YIO>>,
           validOutputs |-> <<XIO>>, nonce |-> n]

Bid == [owner |-> bob, validInputs |-> <<XIO>>,
        validOutputs |-> <<YIO>>, nonce |-> 1]

Config(o) == [order |-> o, inputIOIndex |-> 1, outputIOIndex |-> 1]

AsksAndBid == {Ask(1), Ask(2), Bid}

AskAndBid == {Ask(1), Bid}

SingleTake == {<<Config(Ask(1))>>}

ListTakes == {<<Config(Ask(1))>>,
              <<Config(Ask(1)), Config(Ask(2)), Config(Ask(1))>>}

AliceXBobY(n, m) == 
  [p \in Accounts \X Tokens |->
     IF p = <<alice, x>> THEN n ELSE IF p = <<bob, y>> THEN m ELSE 0]

ThreeAgainstTwo == AliceXBobY(3, 2)

OneAgainstOne == AliceXBobY(1, 1)

=============================================================================
