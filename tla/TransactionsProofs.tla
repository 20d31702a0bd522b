------------------------- MODULE TransactionsProofs -------------------------
(***************************************************************************)
(* The commands do together what each of them promises, for every number   *)
(* of them, every plan, and every order in which they and the chain step:  *)
(* the allowance stays within what was asked for, nothing is sent after    *)
(* the step that should have stopped it, and orders have their vaults.     *)
(*                                                                         *)
(* The steps before a transaction is signed concern one command only;      *)
(* LocalStep says what it has to keep.  What is sent, mined or indexed     *)
(* changes the rest, each in a lemma of its own.                           *)
(***************************************************************************)
EXTENDS Transactions, ArithmeticProofs

-----------------------------------------------------------------------------
(* The inductive invariant *)

Statuses == Settled \cup {"Initialized", "PendingPrepare", "PendingSign", "PendingSend"}
Places == Stages \cup {"start", "simulate", "done", "error"}

(* The orders that have been added, or were there.                         *)
Added ==
  OldOrders \cup
    {NewOrder(k) : k \in {k \in DOMAIN command :
                            command[k].kind = "add" /\ mined[k].execute = "ok"}}

(* The places of a command up to where it sends its transaction of a stage.*)
Upto == [approve |-> {"start", "approve"},
         deposit |-> {"start", "approve", "deposit"},
         execute |-> {"start", "simulate", "approve", "execute"}]

Unsent(j, s) ==
  /\ job[j].pc \in Upto[s]
  /\ notices[j][s] \in {"Initialized", "PendingPrepare", "PendingSign"}

OnlySimulates(j) ==
  command[j].kind = "add" /\ command[j].via = "cli" /\ command[j].noBroadcast

(* The calls that a command may send                                       *)
Approvals(j) ==
  [call : {"approve"}, amount : {n \in 0..MaxUint256 : n <= command[j].amount}]

Adding(j) ==
  IF command[j].via = "web"
    THEN [call |-> "addWithDeposit", order |-> NewOrder(j),
          vault |-> NewOrder(j).outputs[1], amount |-> command[j].amount]
    ELSE [call |-> "add", order |-> NewOrder(j)]

Removal(j) == [call |-> "remove", order |-> command[j].order]

Calls(j, s) ==
  LET kind == command[j].kind
  IN  CASE s = "approve" /\ kind \in {"deposit", "add"} -> Approvals(j)
        [] s = "deposit" /\ kind = "deposit" -> {DepositCall(j)}
        [] s = "execute" /\ kind = "withdraw" -> {WithdrawCall(j)}
        [] s = "execute" /\ kind = "add" /\ ~OnlySimulates(j) -> {Adding(j)}
        [] s = "execute" /\ kind = "remove" -> {Removal(j)}
        [] OTHER -> {}

Transaction ==
  UNION {[job : {p[1]}, stage : {p[2]}, call : Calls(p[1], p[2])] :
           p \in (DOMAIN command) \X Stages}

(* Of a deposit of the CLI: it was approved, or needed no approval.        *)
Approved(j) ==
  command[j].via = "cli" => job[j].seen = None \/ notices[j].approve = "Confirmed"

Types ==
  /\ command \in Plans
  /\ job \in [Jobs -> [pc : Places, seen : 0..MaxUint256 \cup {None},
                       order : Orders \cup {None}]]
  /\ notices \in [Jobs -> [Stages -> Statuses]]
  /\ mined \in [Jobs -> [Stages -> {None, "ok", "reverted"}]]
  /\ mempool \in Seq(Transaction)
  /\ chain \in Chains
  /\ index \in SUBSET Orders

(* A command is where its kind takes it, and knows what it needs there.    *)
InPlace(j) ==
  /\ \A s \in Stages : job[j].pc \in Upto[s] \ {s} => notices[j][s] = "Initialized"
  /\ job[j].pc = "simulate" => command[j].kind = "add"
  /\ job[j].pc = "approve" =>
       \/ command[j].kind = "deposit"
       \/ command[j].kind = "add" /\ command[j].via = "web"
  /\ job[j].pc = "deposit" => command[j].kind = "deposit" /\ Approved(j)
  /\ job[j].pc = "execute" => command[j].kind # "deposit" /\ ~OnlySimulates(j)
  /\ command[j].kind = "add" /\ job[j].pc \notin {"start", "error"} =>
       job[j].order = NewOrder(j)
  /\ command[j].kind = "remove" /\ job[j].pc = "execute" =>
       job[j].order = command[j].order /\ command[j].order \in Added
  /\ job[j].pc \in Upto["approve"] /\ notices[j].approve = "Initialized" =>
       job[j].seen = None
  /\ job[j].pc = "approve" /\ notices[j].approve # "Initialized" =>
       job[j].seen # None /\ job[j].seen < command[j].amount

(* What is in the mempool was sent, and is not mined.                      *)
InFlight(tx) ==
  /\ ~Unsent(tx.job, tx.stage) /\ mined[tx.job][tx.stage] = None
  /\ tx.stage = "deposit" => Approved(tx.job)
  /\ command[tx.job].kind = "remove" => command[tx.job].order \in Added

SentOnce ==
  \A i, k \in DOMAIN mempool :
    mempool[i].job = mempool[k].job /\ mempool[i].stage = mempool[k].stage => i = k

(* What was mined was sent, and what it removed is gone for good.          *)
Accounted(j) ==
  /\ \A s \in Stages : Unsent(j, s) => mined[j][s] = None
  /\ \A s \in Stages : notices[j][s] = "Confirmed" => mined[j][s] # None
  /\ OnlySimulates(j) => mined[j].execute = None
  /\ command[j].kind = "remove" /\ mined[j].execute # None =>
       command[j].order \in Added \ chain.orders

(* The vault that a command of the web app draws is filled when its order  *)
(* is added, and no other command has it.                                  *)
FillsDrawn(j) ==
  IF j \in DOMAIN command
    THEN command[j].kind = "add" /\ command[j].via = "web" /\ command[j].outputs[1] = None
    ELSE FALSE

Drawn(j) ==
  chain.vaults[j] =
    IF FillsDrawn(j) /\ mined[j].execute = "ok" THEN command[j].amount ELSE 0

AddedOrRemoved ==
  /\ chain.orders \subseteq Added /\ index \subseteq Added
  /\ \A o \in Added \ OldOrders :
       \/ o \in chain.orders
       \/ \E k \in DOMAIN command : /\ command[k].kind = "remove" /\ command[k].order = o
                                    /\ mined[k].execute = "ok"

Conserved == chain.wallet + Total(chain.vaults, Vaults) = Funds

WithinAsked == \E n \in Asked \cup Allowances : chain.allowance <= n

TInv ==
  /\ Types
  /\ \A j \in DOMAIN command : InPlace(j) /\ Accounted(j)
  /\ \A i \in DOMAIN mempool : InFlight(mempool[i])
  /\ SentOnce
  /\ \A j \in Jobs : Drawn(j)
  /\ AddedOrRemoved /\ Conserved /\ WithinAsked

-----------------------------------------------------------------------------
(* What follows from the plan of a command *)

(* What can be asked of a command, in the words of the assumption.         *)
LEMMA Asking ==
  ASSUME command \in Plans, NEW j \in DOMAIN command
  PROVE  /\ j \in Jobs
         /\ command[j].kind \in {"deposit", "withdraw", "add", "remove"}
         /\ command[j].via \in {"cli", "app", "web"}
         /\ command[j].kind # "remove" => command[j].amount \in 0..MaxUint256
         /\ command[j].kind \in {"deposit", "withdraw"} => command[j].vault \in VaultIds
         /\ command[j].kind = "add" =>
              /\ command[j].inputs \in Seq(VaultIds \cup {None})
              /\ command[j].outputs \in Seq(VaultIds \cup {None}) \ {<<>>}
BY CommandAssumption

(* Filling in the drawn vault id makes a list of vaults.                   *)
LEMMA VaultsFilled ==
  ASSUME NEW j \in Jobs, NEW ios \in Seq(VaultIds \cup {None})
  PROVE  /\ WithRandomVault(j, ios) \in Seq(Vaults)
         /\ DOMAIN WithRandomVault(j, ios) = DOMAIN ios
         /\ \A i \in DOMAIN ios :
              /\ ios[i] = None => WithRandomVault(j, ios)[i] = j
              /\ ios[i] # None => /\ WithRandomVault(j, ios)[i] = ios[i]
                                  /\ ios[i] \in VaultIds
<1>1. DOMAIN ios = 1..Len(ios) /\ Len(ios) \in Nat
  OBVIOUS
<1>2. \A i \in 1..Len(ios) : ios[i] \in VaultIds \cup {None}
  OBVIOUS
<1>3. \A i \in 1..Len(ios) : WithRandomVault(j, ios)[i] \in Vaults
  BY <1>1, <1>2 DEF WithRandomVault, Vaults
<1>4. WithRandomVault(j, ios) = [i \in 1..Len(ios) |-> WithRandomVault(j, ios)[i]]
  BY <1>1 DEF WithRandomVault
<1>5. WithRandomVault(j, ios) \in [1..Len(ios) -> Vaults]
  BY <1>3, <1>4
<1>6. WithRandomVault(j, ios) \in Seq(Vaults)
  BY <1>1, <1>5
<1> QED BY <1>1, <1>2, <1>6 DEF WithRandomVault

(* An order that is added has the nonce of its command, and vaults that    *)
(* are given or drawn by it.                                               *)
LEMMA OrderMade ==
  ASSUME command \in Plans, NEW j \in DOMAIN command, command[j].kind = "add"
  PROVE  /\ NewOrder(j) \in Orders \ OldOrders
         /\ NewOrder(j).nonce = j
         /\ NewOrder(j).outputs[1] =
              IF command[j].outputs[1] = None THEN j ELSE command[j].outputs[1]
         /\ NewOrder(j).outputs[1] \in VaultIds \cup {j}
<1> DEFINE c == command[j]
<1>1. /\ j \in Jobs
      /\ c.inputs \in Seq(VaultIds \cup {None})
      /\ c.outputs \in Seq(VaultIds \cup {None}) \ {<<>>}
  BY Asking
<1>2. /\ WithRandomVault(j, c.inputs) \in Seq(Vaults)
      /\ WithRandomVault(j, c.outputs) \in Seq(Vaults)
  BY <1>1, VaultsFilled
<1>3. NewOrder(j) \in Orders /\ NewOrder(j).nonce = j
  BY <1>1, <1>2 DEF NewOrder, Orders
<1>4. NewOrder(j) \notin OldOrders
  BY <1>1, <1>3, DrawnAssumption
<1>5. 1 \in DOMAIN c.outputs
  BY <1>1
<1>6. WithRandomVault(j, c.outputs)[1] \in VaultIds \cup {j}
  BY <1>1, <1>5, VaultsFilled
<1>7. NewOrder(j).outputs = WithRandomVault(j, c.outputs)
  BY DEF NewOrder
<1>8. WithRandomVault(j, c.outputs)[1] = IF c.outputs[1] = None THEN j ELSE c.outputs[1]
  BY <1>5 DEF WithRandomVault
<1> QED BY <1>3, <1>4, <1>6, <1>7, <1>8

(* Nothing that is made of the commands changes.                           *)
LEMMA SameCommands ==
  ASSUME command' = command
  PROVE  /\ \A j : NewOrder(j)' = NewOrder(j)
         /\ \A j : OnlySimulates(j)' <=> OnlySimulates(j)
         /\ \A j : FillsDrawn(j)' <=> FillsDrawn(j)
         /\ Transaction' = Transaction
         /\ Asked' = Asked
<1>1. \A j : NewOrder(j)' = NewOrder(j)
  BY DEF NewOrder, WithRandomVault
<1>2. \A j : OnlySimulates(j)' <=> OnlySimulates(j)
  BY DEF OnlySimulates
<1>3. \A j, s : Calls(j, s)' = Calls(j, s)
  <2> SUFFICES ASSUME NEW j, NEW s PROVE Calls(j, s)' = Calls(j, s)
    OBVIOUS
  <2>1. Approvals(j)' = Approvals(j) /\ Removal(j)' = Removal(j)
    BY DEF Approvals, Removal
  <2>2. Adding(j)' = Adding(j)
    BY <1>1 DEF Adding
  <2>3. DepositCall(j)' = DepositCall(j) /\ WithdrawCall(j)' = WithdrawCall(j)
    BY DEF DepositCall, WithdrawCall
  <2> QED BY <1>2, <2>1, <2>2, <2>3 DEF Calls
<1> QED BY <1>1, <1>2, <1>3 DEF FillsDrawn, Transaction, Asked

LEMMA SameAdded ==
  ASSUME command' = command, mined' = mined
  PROVE  Added' = Added
BY SameCommands DEF Added

LEMMA TransactionFacts ==
  ASSUME NEW tx \in Transaction
  PROVE  /\ tx.job \in DOMAIN command /\ tx.stage \in Stages
         /\ tx.call \in Calls(tx.job, tx.stage)
<1>1. PICK p \in (DOMAIN command) \X Stages :
        tx \in [job : {p[1]}, stage : {p[2]}, call : Calls(p[1], p[2])]
  BY DEF Transaction
<1>2. tx.job = p[1] /\ tx.stage = p[2] /\ tx.call \in Calls(p[1], p[2])
  BY <1>1
<1>3. p[1] \in DOMAIN command /\ p[2] \in Stages
  OBVIOUS
<1> QED BY <1>2, <1>3

-----------------------------------------------------------------------------
(* The steps of one command *)

JobRecord == [pc : Places, seen : 0..MaxUint256 \cup {None}, order : Orders \cup {None}]

(* A command that changes its own state, and what it sends, has to be in   *)
(* place after it, to have sent what it had sent, and to confirm only what *)
(* was mined.                                                              *)
LEMMA CommandStep ==
  ASSUME TInv, NEW j \in DOMAIN command, UNCHANGED <<command, mined, chain, index>>,
         job' \in [Jobs -> JobRecord], notices' \in [Jobs -> [Stages -> Statuses]],
         \A k \in Jobs \ {j} : job'[k] = job[k] /\ notices'[k] = notices[k],
         InPlace(j)',
         \A s \in Stages : Unsent(j, s)' => Unsent(j, s),
         \A s \in Stages : notices'[j][s] = "Confirmed" => mined[j][s] # None,
         ~Unsent(j, "deposit") /\ Approved(j) => Approved(j)',
         mempool' \in Seq(Transaction), SentOnce',
         \A i \in DOMAIN mempool' :
           \/ InFlight(mempool[i])'
           \/ i \in DOMAIN mempool /\ mempool'[i] = mempool[i]
  PROVE  TInv'
<1>1. command' = command /\ mined' = mined /\ chain' = chain /\ index' = index
  OBVIOUS
<1>2. command \in Plans
  BY DEF TInv, Types
<1>3. /\ \A k : NewOrder(k)' = NewOrder(k)
      /\ \A k : OnlySimulates(k)' <=> OnlySimulates(k)
      /\ \A k : FillsDrawn(k)' <=> FillsDrawn(k)
      /\ Transaction' = Transaction /\ Asked' = Asked /\ Added' = Added
  BY <1>1, SameCommands, SameAdded
<1>4. Types'
  BY <1>1, <1>3 DEF TInv, Types, JobRecord
<1>5. ASSUME NEW k \in DOMAIN command, k # j
      PROVE  /\ InPlace(k)'
             /\ Approved(k)' <=> Approved(k)
             /\ \A s \in Stages : Unsent(k, s)' <=> Unsent(k, s)
             /\ Accounted(k)'
  <2>1. k \in Jobs \ {j}
    BY <1>2, <1>5, Asking
  <2>2. job'[k] = job[k] /\ notices'[k] = notices[k]
    BY <2>1
  <2>3. Approved(k)' <=> Approved(k)
    BY <1>1, <2>2 DEF Approved
  <2>4. \A s \in Stages : Unsent(k, s)' <=> Unsent(k, s)
    BY <2>2 DEF Unsent, Upto
  <2>5. InPlace(k)'
    BY <1>1, <1>3, <2>2, <2>3 DEF TInv, InPlace, Upto
  <2>6. Accounted(k)'
    BY <1>1, <1>3, <2>2, <2>4 DEF TInv, Accounted
  <2> QED BY <2>3, <2>4, <2>5, <2>6
<1>6. Accounted(j)'
  BY <1>1, <1>3 DEF TInv, Accounted
<1>7. ASSUME NEW i \in DOMAIN mempool, mempool'[i] = mempool[i]
      PROVE  InFlight(mempool[i])'
  <2>1. PICK tx \in Transaction : tx = mempool[i] /\ InFlight(tx)
    BY DEF TInv, Types
  <2>2. tx.job \in DOMAIN command /\ tx.stage \in Stages
    BY TransactionFacts
  <2>3. Unsent(tx.job, tx.stage)' => Unsent(tx.job, tx.stage)
    BY <1>5, <2>2
  <2>4. ~Unsent(tx.job, "deposit") /\ Approved(tx.job) => Approved(tx.job)'
    BY <1>5, <2>2
  <2>5. InFlight(tx)'
    BY <1>1, <1>3, <2>1, <2>2, <2>3, <2>4 DEF InFlight
  <2> QED BY <1>7, <2>1, <2>5
<1>8. \A i \in DOMAIN mempool' : InFlight(mempool[i])'
  BY <1>7
<1>9. \A k \in Jobs : Drawn(k)'
  BY <1>1, <1>3 DEF TInv, Drawn
<1>10. AddedOrRemoved' /\ Conserved' /\ WithinAsked'
  BY <1>1, <1>3 DEF TInv, AddedOrRemoved, Conserved, WithinAsked
<1> QED BY <1>1, <1>4, <1>5, <1>6, <1>8, <1>9, <1>10 DEF TInv

LEMMA LocalStep ==
  ASSUME TInv, NEW j \in DOMAIN command, Outside,
         job' \in [Jobs -> JobRecord], notices' \in [Jobs -> [Stages -> Statuses]],
         \A k \in Jobs \ {j} : job'[k] = job[k] /\ notices'[k] = notices[k],
         InPlace(j)',
         \A s \in Stages : Unsent(j, s)' => Unsent(j, s),
         \A s \in Stages : notices'[j][s] = "Confirmed" => mined[j][s] # None,
         ~Unsent(j, "deposit") /\ Approved(j) => Approved(j)'
  PROVE  TInv'
<1>1. UNCHANGED <<command, mined, chain, index>> /\ mempool' = mempool
  BY DEF Outside
<1>2. mempool' \in Seq(Transaction)
  BY <1>1 DEF TInv, Types
<1>3. SentOnce'
  BY <1>1 DEF TInv, SentOnce
<1> QED BY <1>1, <1>2, <1>3, CommandStep

LEMMA Known ==
  ASSUME TInv, NEW j \in DOMAIN command
  PROVE  /\ j \in Jobs /\ job[j] \in JobRecord
         /\ notices[j] \in [Stages -> Statuses]
         /\ InPlace(j) /\ Accounted(j)
         /\ command[j].kind \in {"deposit", "withdraw", "add", "remove"}
         /\ command[j].via \in {"cli", "app", "web"}
         /\ command[j].kind # "remove" => command[j].amount \in 0..MaxUint256
BY Asking DEF TInv, Types, JobRecord

LEMMA GotoFacts ==
  ASSUME TInv, NEW j \in DOMAIN command, NEW p \in Places, Goto(j, p)
  PROVE  /\ job' \in [Jobs -> JobRecord]
         /\ \A k \in Jobs \ {j} : job'[k] = job[k]
         /\ job'[j].pc = p /\ job'[j].seen = job[j].seen /\ job'[j].order = job[j].order
<1>1. j \in Jobs /\ job[j] \in JobRecord /\ job \in [Jobs -> JobRecord]
  BY Known DEF TInv, Types, JobRecord
<1> QED BY <1>1 DEF Goto, JobRecord

LEMMA NoticeFacts ==
  ASSUME TInv, NEW j \in DOMAIN command, job[j].pc \in Stages,
         NEW st \in Statuses, Notice(j, st)
  PROVE  /\ notices' \in [Jobs -> [Stages -> Statuses]]
         /\ \A k \in Jobs \ {j} : notices'[k] = notices[k]
         /\ notices'[j][job[j].pc] = st
         /\ \A s \in Stages \ {job[j].pc} : notices'[j][s] = notices[j][s]
<1>1. j \in Jobs /\ notices \in [Jobs -> [Stages -> Statuses]]
  BY Known DEF TInv, Types
<1> QED BY <1>1 DEF Notice

LEMMA SameNotices ==
  ASSUME TInv, UNCHANGED notices
  PROVE  notices' \in [Jobs -> [Stages -> Statuses]]
BY DEF TInv, Types

LEMMA SameJob ==
  ASSUME TInv, UNCHANGED job
  PROVE  job' \in [Jobs -> JobRecord]
BY DEF TInv, Types, JobRecord

(* What the place of a command is judged by, besides its own state.        *)
LEMMA SameWorld ==
  ASSUME TInv, command' = command, mined' = mined
  PROVE  /\ \A k : NewOrder(k)' = NewOrder(k)
         /\ \A k : OnlySimulates(k)' <=> OnlySimulates(k)
         /\ Added' = Added
BY SameCommands, SameAdded

LEMMA BeginFailsStep ==
  ASSUME TInv, NEW j \in DOMAIN command, BeginFails(j)
  PROVE  TInv'
<1>1. job[j].pc = "start" /\ Goto(j, "error") /\ UNCHANGED notices /\ Outside
  BY DEF BeginFails
<1>2. "error" \in Places
  BY DEF Places
<1>3. /\ job' \in [Jobs -> JobRecord]
      /\ \A k \in Jobs \ {j} : job'[k] = job[k]
      /\ job'[j].pc = "error" /\ job'[j].seen = job[j].seen /\ job'[j].order = job[j].order
  BY <1>1, <1>2, GotoFacts
<1>4. InPlace(j)'
  BY <1>3 DEF InPlace, Upto, Stages
<1>5. \A s \in Stages : ~Unsent(j, s)'
  BY <1>3 DEF Unsent, Upto, Stages
<1>6. Approved(j) => Approved(j)'
  BY <1>1, <1>3 DEF Approved, Outside
<1>7. \A s \in Stages : notices'[j][s] = "Confirmed" => mined[j][s] # None
  BY <1>1, Known DEF Accounted
<1> QED BY <1>1, <1>3, <1>4, <1>5, <1>6, <1>7, SameNotices, LocalStep

LEMMA SimulateStep ==
  ASSUME TInv, NEW j \in DOMAIN command, NEW succeeds \in BOOLEAN, Simulate(j, succeeds)
  PROVE  TInv'
<1>1. job[j].pc = "simulate" /\ UNCHANGED notices /\ Outside
  BY DEF Simulate
<1>2. PICK p \in {"error", "done", "execute"} :
        Goto(j, p) /\ (p = "execute" => ~command[j].noBroadcast)
  BY DEF Simulate
<1>3. /\ job' \in [Jobs -> JobRecord]
      /\ \A k \in Jobs \ {j} : job'[k] = job[k]
      /\ job'[j].pc = p /\ job'[j].seen = job[j].seen /\ job'[j].order = job[j].order
  BY <1>2, GotoFacts DEF Places, Stages
<1>4. /\ notices[j] \in [Stages -> Statuses] /\ InPlace(j) /\ Accounted(j)
      /\ command' = command /\ mined' = mined
  BY <1>1, Known DEF Outside
<1>5. InPlace(j)'
  BY <1>1, <1>2, <1>3, <1>4, SameWorld DEF InPlace, Upto, Stages, OnlySimulates
<1>6. \A s \in Stages : Unsent(j, s)' => Unsent(j, s)
  BY <1>1, <1>3 DEF Unsent, Upto, Stages
<1>7. Approved(j) => Approved(j)'
  BY <1>1, <1>3, <1>4 DEF Approved
<1>8. \A s \in Stages : notices'[j][s] = "Confirmed" => mined[j][s] # None
  BY <1>1, <1>4 DEF Accounted
<1> QED BY <1>1, <1>3, <1>5, <1>6, <1>7, <1>8, SameNotices, LocalStep

LEMMA BeginStep ==
  ASSUME TInv, NEW j \in DOMAIN command, Begin(j)
  PROVE  TInv'
<1> DEFINE c == command[j]
<1>1. job[j].pc = "start" /\ UNCHANGED notices /\ Outside
  BY DEF Begin
<1>2. /\ j \in Jobs /\ job \in [Jobs -> JobRecord] /\ job[j] \in JobRecord
      /\ notices[j] \in [Stages -> Statuses] /\ InPlace(j) /\ Accounted(j)
      /\ command' = command /\ mined' = mined /\ command \in Plans
      /\ index \subseteq Added /\ index \in SUBSET Orders
  BY <1>1, Known DEF Outside, TInv, Types, JobRecord, AddedOrRemoved
<1>3. PICK p \in {"approve", "simulate", "execute"}, o \in Orders \cup {None} :
        /\ job' = [job EXCEPT ![j].pc = p, ![j].order = o]
        /\ \/ c.kind = "deposit" /\ p = "approve"
           \/ c.kind = "withdraw" /\ p = "execute"
           \/ /\ c.kind = "add" /\ o = NewOrder(j)
              /\ \/ c.via = "cli" /\ p = "simulate"
                 \/ c.via = "app" /\ p = "execute"
                 \/ c.via = "web" /\ p = "approve"
           \/ c.kind = "remove" /\ p = "execute" /\ o = c.order /\ o \in Added
  <2> DEFINE at(p, o) == job' = [job EXCEPT ![j].pc = p, ![j].order = o]
  <2>1. CASE c.kind = "deposit" /\ at("approve", None)
    BY <2>1
  <2>2. CASE c.kind = "withdraw" /\ at("execute", None)
    BY <2>2
  <2>3. CASE /\ c.kind = "add"
             /\ \/ c.via = "cli" /\ at("simulate", NewOrder(j))
                \/ c.via = "app" /\ at("execute", NewOrder(j))
                \/ c.via = "web" /\ at("approve", NewOrder(j))
    <3>1. NewOrder(j) \in Orders
      BY <1>2, <2>3, OrderMade
    <3> QED BY <2>3, <3>1
  <2>4. CASE c.kind = "remove" /\ c.order \in index /\ at("execute", c.order)
    BY <1>2, <2>4
  <2> QED BY <2>1, <2>2, <2>3, <2>4 DEF Begin
<1>4. /\ job' \in [Jobs -> JobRecord]
      /\ \A k \in Jobs \ {j} : job'[k] = job[k]
      /\ job'[j].pc = p /\ job'[j].seen = job[j].seen /\ job'[j].order = o
  BY <1>2, <1>3 DEF JobRecord, Places, Stages
<1>5. \A s \in Stages : notices[j][s] = "Initialized" /\ mined[j][s] = None
  BY <1>1, <1>2 DEF InPlace, Accounted, Unsent, Upto, Stages
<1>6. job[j].seen = None
  BY <1>1, <1>2, <1>5 DEF InPlace, Upto, Stages
<1>7. InPlace(j)'
  <2>1. p # "deposit" /\ (p = "simulate" => c.kind = "add")
    BY <1>3
  <2>2. p = "approve" => c.kind = "deposit" \/ (c.kind = "add" /\ c.via = "web")
    BY <1>3
  <2>3. p = "execute" => c.kind # "deposit" /\ ~OnlySimulates(j)
    BY <1>3 DEF OnlySimulates
  <2>4. c.kind = "add" => o = NewOrder(j)
    BY <1>3
  <2>5. c.kind = "remove" /\ p = "execute" => o = c.order /\ o \in Added
    BY <1>3
  <2>6. /\ NewOrder(j)' = NewOrder(j) /\ Added' = Added
        /\ OnlySimulates(j)' <=> OnlySimulates(j)
    BY <1>2, SameWorld
  <2>7. \A s \in Stages : notices'[j][s] = "Initialized"
    BY <1>1, <1>5
  <2>8. notices'[j].approve = "Initialized" /\ job'[j].seen = None
    BY <1>4, <1>6, <2>7 DEF Stages
  <2> QED BY <1>2, <1>4, <2>1, <2>2, <2>3, <2>4, <2>5, <2>6, <2>7, <2>8 DEF InPlace
<1>8. \A s \in Stages : Unsent(j, s)
  BY <1>1, <1>5 DEF Unsent, Upto, Stages
<1>9. Approved(j)'
  BY <1>4, <1>6 DEF Approved
<1>10. \A s \in Stages : notices'[j][s] = "Confirmed" => mined[j][s] # None
  BY <1>1, <1>5
<1> QED BY <1>1, <1>4, <1>7, <1>8, <1>9, <1>10, SameNotices, LocalStep

(* The next place of a command: after an approval its deposit, or the      *)
(* order it adds.                                                          *)
LEMMA OnwardStep ==
  ASSUME TInv, NEW j \in DOMAIN command, job[j].pc \in Stages,
         NEW p \in {"deposit", "execute", "done", "error"},
         UNCHANGED <<command, mined>>, Goto(j, p),
         \A s \in Stages \ {job[j].pc} : notices'[j][s] = notices[j][s],
         p \in {"deposit", "execute"} => job[j].pc = "approve" /\ p = AfterApprove(j),
         p = "deposit" /\ command[j].via = "cli" =>
           job[j].seen = None \/ notices'[j].approve = "Confirmed"
  PROVE  InPlace(j)' /\ \A s \in Stages : Unsent(j, s)' => Unsent(j, s)
<1>1. /\ job' \in [Jobs -> JobRecord]
      /\ job'[j].pc = p /\ job'[j].seen = job[j].seen /\ job'[j].order = job[j].order
  BY GotoFacts DEF Places, Stages
<1>2. InPlace(j) /\ command' = command
  BY Known
<1>3. /\ NewOrder(j)' = NewOrder(j) /\ Added' = Added
      /\ OnlySimulates(j)' <=> OnlySimulates(j)
  BY <1>2, SameWorld
<1>4. p \in {"deposit", "execute"} =>
        /\ notices'[j].deposit = "Initialized" /\ notices'[j].execute = "Initialized"
        /\ notices[j].deposit = "Initialized" /\ notices[j].execute = "Initialized"
  BY <1>2 DEF InPlace, Upto, Stages
<1>5. /\ p = "deposit" => command[j].kind = "deposit"
      /\ p = "execute" => command[j].kind = "add" /\ command[j].via = "web"
  BY <1>2 DEF InPlace, AfterApprove
<1>6. p = "deposit" => Approved(j)'
  BY <1>1, <1>2 DEF Approved
<1>7. p = "execute" => ~OnlySimulates(j)
  BY <1>5 DEF OnlySimulates
<1>8. command[j].kind = "add" /\ p # "error" => job[j].order = NewOrder(j)
  BY <1>2 DEF InPlace, Stages
<1>9. InPlace(j)'
  BY <1>1, <1>2, <1>3, <1>4, <1>5, <1>6, <1>7, <1>8 DEF InPlace, Upto, Stages
<1>10. \A s \in Stages : Unsent(j, s)' => Unsent(j, s)
  BY <1>1, <1>4 DEF Unsent, Upto, Stages
<1> QED BY <1>9, <1>10

LEMMA FailStep ==
  ASSUME TInv, NEW j \in DOMAIN command, Fail(j)
  PROVE  TInv'
<1> DEFINE p == IF command[j].via = "app" /\ job[j].pc = "approve"
                  THEN AfterApprove(j) ELSE "error"
<1>1. job[j].pc \in Stages /\ Goto(j, p) /\ Outside
  BY DEF Fail
<1>2. p \in {"deposit", "execute", "done", "error"}
  BY DEF AfterApprove
<1>3. /\ job' \in [Jobs -> JobRecord]
      /\ \A k \in Jobs \ {j} : job'[k] = job[k]
      /\ job'[j].pc = p /\ job'[j].seen = job[j].seen /\ job'[j].order = job[j].order
  BY <1>1, <1>2, GotoFacts DEF Places, Stages
<1>4. /\ command' = command /\ mined' = mined
      /\ notices[j] \in [Stages -> Statuses] /\ InPlace(j) /\ Accounted(j)
  BY <1>1, Known DEF Outside
<1>5. /\ notices' \in [Jobs -> [Stages -> Statuses]]
      /\ \A k \in Jobs \ {j} : notices'[k] = notices[k]
      /\ \A s \in Stages \ {job[j].pc} : notices'[j][s] = notices[j][s]
      /\ notices'[j][job[j].pc] \in {notices[j][job[j].pc], "Failed"}
      /\ command[j].via = "cli" => notices' = notices
  BY <1>1, NoticeFacts, SameNotices DEF Fail, Statuses, Settled
<1>6. InPlace(j)' /\ \A s \in Stages : Unsent(j, s)' => Unsent(j, s)
  <2>1. p \in {"deposit", "execute"} => job[j].pc = "approve" /\ p = AfterApprove(j)
    OBVIOUS
  <2>2. p = "deposit" => command[j].via # "cli"
    OBVIOUS
  <2> QED BY <1>1, <1>2, <1>4, <1>5, <2>1, <2>2, OnwardStep
<1>7. Approved(j) => Approved(j)'
  BY <1>3, <1>4, <1>5 DEF Approved
<1>8. \A s \in Stages : notices'[j][s] = "Confirmed" => mined[j][s] # None
  BY <1>4, <1>5 DEF Accounted
<1> QED BY <1>1, <1>3, <1>5, <1>6, <1>7, <1>8, LocalStep

LEMMA ConfirmStep ==
  ASSUME TInv, NEW j \in DOMAIN command, Confirm(j)
  PROVE  TInv'
<1> DEFINE p == Next1(j)
<1>1. /\ job[j].pc \in Stages /\ mined[j][job[j].pc] # None
      /\ Notice(j, "Confirmed") /\ Goto(j, p) /\ Outside
  BY DEF Confirm
<1>2. p \in {"deposit", "execute", "done", "error"}
  BY DEF Next1, AfterApprove
<1>3. /\ job' \in [Jobs -> JobRecord]
      /\ \A k \in Jobs \ {j} : job'[k] = job[k]
      /\ job'[j].pc = p /\ job'[j].seen = job[j].seen /\ job'[j].order = job[j].order
  BY <1>1, <1>2, GotoFacts DEF Places, Stages
<1>4. /\ command' = command /\ mined' = mined
      /\ notices[j] \in [Stages -> Statuses] /\ InPlace(j) /\ Accounted(j)
  BY <1>1, Known DEF Outside
<1>5. /\ notices' \in [Jobs -> [Stages -> Statuses]]
      /\ \A k \in Jobs \ {j} : notices'[k] = notices[k]
      /\ \A s \in Stages \ {job[j].pc} : notices'[j][s] = notices[j][s]
      /\ notices'[j][job[j].pc] = "Confirmed"
  BY <1>1, NoticeFacts DEF Statuses, Settled
<1>6. InPlace(j)' /\ \A s \in Stages : Unsent(j, s)' => Unsent(j, s)
  <2>1. p \in {"deposit", "execute"} => job[j].pc = "approve" /\ p = AfterApprove(j)
    BY DEF Next1
  <2>2. p = "deposit" => notices'[j].approve = "Confirmed"
    BY <1>5, <2>1
  <2> QED BY <1>1, <1>2, <1>4, <1>5, <2>1, <2>2, OnwardStep
<1>7. Approved(j) => Approved(j)'
  BY <1>3, <1>4, <1>5 DEF Approved, Stages
<1>8. \A s \in Stages : notices'[j][s] = "Confirmed" => mined[j][s] # None
  BY <1>1, <1>4, <1>5 DEF Accounted
<1> QED BY <1>1, <1>3, <1>5, <1>6, <1>7, <1>8, LocalStep

(* A command stays where it is while its transaction is prepared, and when *)
(* it waits for it.                                                        *)
LEMMA NoticedStep ==
  ASSUME TInv, NEW j \in DOMAIN command, job[j].pc \in Stages,
         NEW st \in {"PendingPrepare", "PendingSign", "PendingSend"}, Notice(j, st),
         UNCHANGED <<command, job, mined>>,
         notices[j][job[j].pc] \in {"Initialized", "PendingPrepare", "PendingSign"},
         job[j].pc = "approve" => notices[j].approve # "Initialized"
  PROVE  /\ job' \in [Jobs -> JobRecord] /\ notices' \in [Jobs -> [Stages -> Statuses]]
         /\ \A k \in Jobs \ {j} : job'[k] = job[k] /\ notices'[k] = notices[k]
         /\ notices'[j][job[j].pc] = st
         /\ InPlace(j)'
         /\ \A s \in Stages : Unsent(j, s)' => Unsent(j, s)
         /\ \A s \in Stages : notices'[j][s] = "Confirmed" => mined[j][s] # None
         /\ Approved(j) => Approved(j)'
<1>1. /\ command' = command /\ mined' = mined /\ job' = job
      /\ notices[j] \in [Stages -> Statuses] /\ InPlace(j) /\ Accounted(j)
  BY Known
<1>2. job' \in [Jobs -> JobRecord]
  BY SameJob
<1>3. /\ notices' \in [Jobs -> [Stages -> Statuses]]
      /\ \A k \in Jobs \ {j} : notices'[k] = notices[k]
      /\ \A s \in Stages \ {job[j].pc} : notices'[j][s] = notices[j][s]
      /\ notices'[j][job[j].pc] = st
  BY NoticeFacts DEF Statuses
<1>4. job[j].pc # "approve" => notices'[j].approve = notices[j].approve
  BY <1>3 DEF Stages
<1>5. Approved(j) => Approved(j)'
  <2>1. job[j].pc = "approve" => notices[j].approve # "Confirmed"
    OBVIOUS
  <2> QED BY <1>1, <1>4, <2>1 DEF Approved
<1>6. InPlace(j)'
  <2>1. \A s \in Stages : job[j].pc \in Upto[s] \ {s} => notices'[j][s] = "Initialized"
    BY <1>1, <1>3 DEF InPlace, Stages, Upto
  <2>2. /\ NewOrder(j)' = NewOrder(j) /\ Added' = Added
        /\ OnlySimulates(j)' <=> OnlySimulates(j)
    BY <1>1, SameWorld
  <2>3. job[j].pc = "approve" => notices'[j].approve = st /\ st # "Initialized"
    BY <1>3
  <2>4. job[j].pc # "start"
    BY DEF Stages
  <2> QED BY <1>1, <1>4, <1>5, <2>1, <2>2, <2>3, <2>4 DEF InPlace, Upto
<1>7. \A s \in Stages : Unsent(j, s)' => Unsent(j, s)
  BY <1>1, <1>3 DEF Unsent
<1>8. \A s \in Stages : notices'[j][s] = "Confirmed" => mined[j][s] # None
  BY <1>1, <1>3 DEF Accounted
<1> QED BY <1>1, <1>2, <1>3, <1>5, <1>6, <1>7, <1>8

LEMMA PrepareStep ==
  ASSUME TInv, NEW j \in DOMAIN command, Prepare(j) \/ AskToSign(j)
  PROVE  TInv'
<1>1. PICK st \in {"PendingPrepare", "PendingSign"} :
        /\ Notice(j, st) /\ UNCHANGED job /\ Outside /\ job[j].pc \in Stages
        /\ notices[j][job[j].pc] \in {"Initialized", "PendingPrepare"}
        /\ job[j].pc = "approve" => notices[j].approve # "Initialized"
  BY DEF Prepare, AskToSign, Stages
<1>2. UNCHANGED <<command, job, mined>>
  BY <1>1 DEF Outside
<1> QED BY <1>1, <1>2, NoticedStep, LocalStep

LEMMA ReadAllowanceStep ==
  ASSUME TInv, NEW j \in DOMAIN command, ReadAllowance(j)
  PROVE  TInv'
<1>1. job[j].pc = "approve" /\ notices[j].approve = "Initialized" /\ Outside
  BY DEF ReadAllowance
<1>2. /\ command' = command /\ mined' = mined /\ j \in Jobs
      /\ job \in [Jobs -> JobRecord] /\ job[j] \in JobRecord
      /\ notices[j] \in [Stages -> Statuses] /\ InPlace(j) /\ Accounted(j)
  BY <1>1, Known DEF Outside, TInv, Types, JobRecord
<1>3. job[j].seen = None
  BY <1>1, <1>2 DEF InPlace, Upto
<1>4. Unsent(j, "deposit")
  BY <1>1, <1>2 DEF InPlace, Unsent, Upto, Stages
<1>5. CASE /\ chain.allowance < command[j].amount
           /\ job' = [job EXCEPT ![j].seen = chain.allowance]
           /\ Notice(j, "PendingPrepare")
  <2>1. chain.allowance \in 0..MaxUint256 /\ chain.allowance # None
    BY NoneAssumption, WalletAssumption DEF TInv, Types, Chains
  <2>2. /\ job' \in [Jobs -> JobRecord]
        /\ \A k \in Jobs \ {j} : job'[k] = job[k]
        /\ job'[j].pc = "approve" /\ job'[j].seen = chain.allowance
        /\ job'[j].order = job[j].order
    BY <1>1, <1>2, <1>5, <2>1 DEF JobRecord
  <2>3. /\ notices' \in [Jobs -> [Stages -> Statuses]]
        /\ \A k \in Jobs \ {j} : notices'[k] = notices[k]
        /\ \A s \in Stages \ {"approve"} : notices'[j][s] = notices[j][s]
        /\ notices'[j].approve = "PendingPrepare"
    <3>1. job[j].pc \in Stages /\ "PendingPrepare" \in Statuses
      BY <1>1 DEF Stages, Statuses
    <3> QED BY <1>1, <1>5, <3>1, NoticeFacts
  <2>4. InPlace(j)'
    <3>1. /\ NewOrder(j)' = NewOrder(j) /\ Added' = Added
          /\ OnlySimulates(j)' <=> OnlySimulates(j)
      BY <1>2, SameWorld
    <3>2. \A s \in Stages : job'[j].pc \in Upto[s] \ {s} => notices'[j][s] = "Initialized"
      BY <1>1, <1>2, <2>2, <2>3 DEF InPlace, Stages, Upto
    <3> QED BY <1>1, <1>2, <1>5, <2>1, <2>2, <2>3, <3>1, <3>2 DEF InPlace, Upto
  <2>5. \A s \in Stages : Unsent(j, s)' => Unsent(j, s)
    BY <1>1, <2>2, <2>3 DEF Unsent, Stages
  <2>6. \A s \in Stages : notices'[j][s] = "Confirmed" => mined[j][s] # None
    BY <1>2, <2>3 DEF Accounted
  <2> QED BY <1>1, <1>4, <2>2, <2>3, <2>4, <2>5, <2>6, LocalStep
<1>6. CASE Goto(j, AfterApprove(j)) /\ UNCHANGED notices
  <2> DEFINE p == AfterApprove(j)
  <2>1. p \in {"deposit", "execute", "done", "error"}
    BY DEF AfterApprove
  <2>2. /\ job' \in [Jobs -> JobRecord]
        /\ \A k \in Jobs \ {j} : job'[k] = job[k]
    BY <1>6, <2>1, GotoFacts DEF Places, Stages
  <2>3. InPlace(j)' /\ \A s \in Stages : Unsent(j, s)' => Unsent(j, s)
    <3>1. job[j].pc \in Stages
      BY <1>1 DEF Stages
    <3> QED BY <1>1, <1>2, <1>3, <1>6, <2>1, <3>1, OnwardStep
  <2>4. \A s \in Stages : notices'[j][s] = "Confirmed" => mined[j][s] # None
    BY <1>2, <1>6 DEF Accounted
  <2> QED BY <1>1, <1>4, <1>6, <2>2, <2>3, <2>4, SameNotices, LocalStep
<1> QED BY <1>5, <1>6 DEF ReadAllowance

-----------------------------------------------------------------------------
(* What is sent *)

(* A command in place sends a call that its kind of command may send, and  *)
(* approves no more than its amount.                                       *)
LEMMA CallFits ==
  ASSUME TInv, NEW j \in DOMAIN command, job[j].pc \in Stages,
         notices[j][job[j].pc] = "PendingSign"
  PROVE  CallOf(j) \in Calls(j, job[j].pc)
<1>1. /\ j \in Jobs /\ job[j] \in JobRecord /\ InPlace(j)
      /\ command[j].kind \in {"deposit", "withdraw", "add", "remove"}
      /\ command[j].via \in {"cli", "app", "web"}
      /\ command[j].kind # "remove" => command[j].amount \in 0..MaxUint256
  BY Known
<1>2. CASE job[j].pc = "approve"
  <2> DEFINE a == command[j].amount
             s == job[j].seen
  <2>1. command[j].kind \in {"deposit", "add"} /\ s # None /\ s < a
    BY <1>1, <1>2 DEF InPlace
  <2>2. a \in 0..MaxUint256 /\ s \in 0..MaxUint256 /\ MaxUint256 \in Nat
    BY <1>1, <2>1, WalletAssumption DEF JobRecord
  <2>3. (a - s) \in 0..MaxUint256 /\ (a - s) <= a
    BY <2>1, <2>2
  <2>4. (a - s) % (MaxUint256 + 1) = a - s
    <3>1. \A m, n \in Nat : m < n => m % n = m
      OBVIOUS
    <3>2. (a - s) \in Nat /\ (MaxUint256 + 1) \in Nat /\ (a - s) < MaxUint256 + 1
      BY <2>2, <2>3
    <3> QED BY <3>1, <3>2
  <2>5. ApproveAmount(j) \in {n \in 0..MaxUint256 : n <= command[j].amount}
    BY <2>3, <2>4 DEF ApproveAmount
  <2>6. CallOf(j) = ApproveCall(j)
    BY <1>2 DEF CallOf
  <2> QED BY <1>2, <2>1, <2>5, <2>6 DEF ApproveCall, Calls, Approvals
<1>3. CASE job[j].pc = "deposit"
  BY <1>1, <1>3 DEF InPlace, CallOf, Calls
<1>4. CASE job[j].pc = "execute"
  <2>1. command[j].kind # "deposit" /\ ~OnlySimulates(j)
    BY <1>1, <1>4 DEF InPlace
  <2>2. CASE command[j].kind = "withdraw"
    BY <1>4, <2>2 DEF CallOf, Calls
  <2>3. CASE command[j].kind = "add"
    <3>1. job[j].order = NewOrder(j)
      BY <1>1, <1>4, <2>3 DEF InPlace
    <3>2. CallOf(j) = Adding(j)
      BY <1>4, <2>3, <3>1 DEF CallOf, Adding, AddOrderCall, AddWithDepositCall
    <3> QED BY <1>4, <2>1, <2>3, <3>2 DEF Calls
  <2>4. CASE command[j].kind = "remove"
    <3>1. job[j].order = command[j].order
      BY <1>1, <1>4, <2>4 DEF InPlace
    <3>2. CallOf(j) = Removal(j)
      BY <1>4, <2>4, <3>1 DEF CallOf, Removal, RemoveOrderCall
    <3> QED BY <1>4, <2>4, <3>2 DEF Calls
  <2> QED BY <1>1, <2>1, <2>2, <2>3, <2>4
<1> QED BY <1>2, <1>3, <1>4 DEF Stages

LEMMA SendStep ==
  ASSUME TInv, NEW j \in DOMAIN command, SignAndSend(j)
  PROVE  TInv'
<1>1. /\ job[j].pc \in Stages /\ notices[j][job[j].pc] = "PendingSign"
      /\ Notice(j, "PendingSend") /\ UNCHANGED <<command, mined, chain, index>>
  BY DEF SignAndSend
<1>2. PICK s \in Stages : s = job[j].pc
  BY <1>1
<1>3. PICK tx \in Transaction :
        /\ tx.job = j /\ tx.stage = s
        /\ mempool' = Append(mempool, tx)
  <2> DEFINE tx == [job |-> j, stage |-> job[j].pc, call |-> CallOf(j)]
  <2>1. tx \in [job : {j}, stage : {s}, call : Calls(j, s)]
    BY <1>1, <1>2, CallFits
  <2>2. <<j, s>> \in (DOMAIN command) \X Stages
    OBVIOUS
  <2>3. tx \in Transaction
    BY <2>1, <2>2 DEF Transaction
  <2>4. mempool' = Append(mempool, tx)
    BY DEF SignAndSend
  <2> QED BY <1>2, <2>3, <2>4
<1>4. /\ InPlace(j) /\ Accounted(j) /\ notices[j] \in [Stages -> Statuses]
      /\ command' = command /\ mined' = mined
  BY <1>1, Known
<1>5. Unsent(j, s) /\ mined[j][s] = None
  <2>1. s \in Upto[s]
    BY DEF Upto, Stages
  <2> QED BY <1>1, <1>2, <1>4, <2>1 DEF Unsent, Accounted
<1>6. /\ job' \in [Jobs -> JobRecord] /\ notices' \in [Jobs -> [Stages -> Statuses]]
      /\ \A k \in Jobs \ {j} : job'[k] = job[k] /\ notices'[k] = notices[k]
      /\ InPlace(j)'
      /\ \A t \in Stages : Unsent(j, t)' => Unsent(j, t)
      /\ \A t \in Stages : notices'[j][t] = "Confirmed" => mined[j][t] # None
      /\ Approved(j) => Approved(j)'
      /\ notices'[j][s] = "PendingSend"
  <2>1. CASE UNCHANGED job
    <3>1. job[j].pc = "approve" => notices[j].approve # "Initialized"
      BY <1>1
    <3> QED BY <1>1, <1>2, <2>1, <3>1, NoticedStep
  <2>2. CASE command[j].via = "web" /\ job[j].pc = "approve" /\ Goto(j, AfterApprove(j))
    <3> DEFINE p == AfterApprove(j)
    <3>1. p \in {"deposit", "execute", "done", "error"}
      BY DEF AfterApprove
    <3>2. /\ job' \in [Jobs -> JobRecord]
          /\ \A k \in Jobs \ {j} : job'[k] = job[k]
      BY <2>2, <3>1, GotoFacts DEF Places, Stages
    <3>3. /\ notices' \in [Jobs -> [Stages -> Statuses]]
          /\ \A k \in Jobs \ {j} : notices'[k] = notices[k]
          /\ \A t \in Stages \ {job[j].pc} : notices'[j][t] = notices[j][t]
          /\ notices'[j][job[j].pc] = "PendingSend"
      BY <1>1, NoticeFacts DEF Statuses
    <3>4. InPlace(j)' /\ \A t \in Stages : Unsent(j, t)' => Unsent(j, t)
      BY <1>1, <1>4, <2>2, <3>1, <3>3, OnwardStep
    <3>5. \A t \in Stages : notices'[j][t] = "Confirmed" => mined[j][t] # None
      BY <1>4, <3>3 DEF Accounted
    <3>6. Approved(j)'
      BY <1>4, <2>2 DEF Approved
    <3> QED BY <1>2, <3>2, <3>3, <3>4, <3>5, <3>6
  <2> QED BY <2>1, <2>2 DEF SignAndSend
<1>7. /\ mempool \in Seq(Transaction) /\ mempool' \in Seq(Transaction)
      /\ \A i \in DOMAIN mempool' :
           \/ i \in DOMAIN mempool /\ mempool'[i] = mempool[i]
           \/ i = Len(mempool) + 1 /\ mempool'[i] = tx
  <2>1. mempool \in Seq(Transaction)
    BY DEF TInv, Types
  <2> QED BY <1>3, <2>1
<1>8. ~Unsent(j, s)'
  BY <1>6 DEF Unsent
<1>9. InFlight(tx)'
  <2>1. s = "deposit" => Approved(j)
    BY <1>2, <1>4 DEF InPlace
  <2>2. command[j].kind = "remove" => command[j].order \in Added
    BY <1>2, <1>4 DEF InPlace, Stages
  <2>3. Added' = Added
    BY <1>4, SameWorld
  <2> QED BY <1>3, <1>4, <1>5, <1>6, <1>8, <2>1, <2>2, <2>3 DEF InFlight
<1>10. \A i \in DOMAIN mempool : ~(mempool[i].job = j /\ mempool[i].stage = s)
  BY <1>5 DEF TInv, InFlight
<1>11. SentOnce'
  BY <1>3, <1>7, <1>10 DEF TInv, SentOnce
<1>12. \A i \in DOMAIN mempool' :
         \/ InFlight(mempool[i])'
         \/ i \in DOMAIN mempool /\ mempool'[i] = mempool[i]
  BY <1>7, <1>9
<1> QED BY <1>1, <1>6, <1>7, <1>11, <1>12, CommandStep

-----------------------------------------------------------------------------
(* What is mined *)

LEMMA FiniteVaultIds == IsFiniteSet(Vaults)
BY WalletAssumption, FS_Union DEF Vaults

(* Moving tokens between the wallet and a vault keeps their sum.           *)
LEMMA Moved ==
  ASSUME TInv, NEW v \in Vaults, NEW c \in Chains, NEW n \in Int,
         c.wallet = chain.wallet - n,
         c.vaults = [chain.vaults EXCEPT ![v] = @ + n]
  PROVE  c.wallet + Total(c.vaults, Vaults) = Funds
<1> DEFINE f == chain.vaults
           g == c.vaults
<1>1. f \in [Vaults -> Nat] /\ g \in [Vaults -> Nat] /\ chain.wallet \in Nat
  BY DEF TInv, Types, Chains
<1>2. g[v] = f[v] + n /\ \A k \in Vaults \ {v} : f[k] = g[k]
  BY <1>1
<1> HIDE DEF f, g
<1>3. \A k \in Vaults : f[k] \in Nat /\ g[k] \in Nat
  BY <1>1
<1>4. Total(g, Vaults) = Total(f, Vaults) - f[v] + g[v]
  BY <1>2, <1>3, FiniteVaultIds, TotalUpdate
<1>5. Total(f, Vaults) \in Nat
  BY <1>3, FiniteVaultIds, TotalType
<1>6. chain.wallet + Total(f, Vaults) = Funds
  BY DEF TInv, Conserved, f
<1>7. c.wallet + Total(g, Vaults) = Funds
  BY <1>1, <1>2, <1>3, <1>4, <1>5, <1>6
<1> QED BY <1>7 DEF g

LEMMA DepositedChain ==
  ASSUME TInv, NEW v \in Vaults, NEW n \in 0..MaxUint256, CanDeposit(n)
  PROVE  LET c == Deposited(chain, v, n)
         IN  /\ c \in Chains
             /\ c.wallet + Total(c.vaults, Vaults) = Funds
             /\ c.allowance <= chain.allowance
             /\ c.orders = chain.orders
             /\ \A k \in Vaults :
                  c.vaults[k] = IF k = v THEN chain.vaults[k] + n ELSE chain.vaults[k]
<1> DEFINE c == Deposited(chain, v, n)
<1>1. /\ chain \in Chains /\ chain.allowance \in 0..MaxUint256 /\ chain.wallet \in Nat
      /\ chain.vaults \in [Vaults -> Nat] /\ chain.orders \in SUBSET Orders
      /\ MaxUint256 \in Nat
  BY WalletAssumption DEF TInv, Types, Chains
<1>2. /\ c.allowance = chain.allowance - n /\ c.wallet = chain.wallet - n
      /\ c.vaults = [chain.vaults EXCEPT ![v] = @ + n]
      /\ c.orders = chain.orders
  BY <1>1 DEF Deposited, Chains
<1>3. c.allowance \in 0..MaxUint256 /\ c.wallet \in Nat /\ c.allowance <= chain.allowance
  BY <1>1, <1>2 DEF CanDeposit
<1>4. c.vaults \in [Vaults -> Nat]
  BY <1>1, <1>2
<1>5. c \in Chains
  <2>1. /\ chain.allowance - n \in 0..MaxUint256 /\ chain.wallet - n \in Nat
        /\ [chain.vaults EXCEPT ![v] = @ + n] \in [Vaults -> Nat]
    BY <1>2, <1>3, <1>4
  <2> QED BY <1>1, <2>1 DEF Deposited, Chains
<1> HIDE DEF c
<1>6. c.wallet + Total(c.vaults, Vaults) = Funds
  BY <1>2, <1>5, Moved
<1>7. \A k \in Vaults : c.vaults[k] = IF k = v THEN chain.vaults[k] + n ELSE chain.vaults[k]
  BY <1>1, <1>2
<1> QED BY <1>2, <1>3, <1>5, <1>6, <1>7 DEF c

Withdrawn(v, n) == [chain EXCEPT !.wallet = @ + n, !.vaults[v] = @ - n]

LEMMA WithdrawnChain ==
  ASSUME TInv, NEW v \in Vaults, NEW n \in Nat, n <= chain.vaults[v]
  PROVE  LET c == Withdrawn(v, n)
         IN  /\ c \in Chains
             /\ c.wallet + Total(c.vaults, Vaults) = Funds
             /\ c.allowance = chain.allowance /\ c.orders = chain.orders
             /\ \A k \in Vaults \ {v} : c.vaults[k] = chain.vaults[k]
<1> DEFINE c == Withdrawn(v, n)
<1>1. /\ chain \in Chains /\ chain.allowance \in 0..MaxUint256 /\ chain.wallet \in Nat
      /\ chain.vaults \in [Vaults -> Nat] /\ chain.orders \in SUBSET Orders
  BY DEF TInv, Types, Chains
<1>2. /\ c.allowance = chain.allowance /\ c.wallet = chain.wallet - (0 - n)
      /\ c.vaults = [chain.vaults EXCEPT ![v] = @ + (0 - n)]
      /\ c.orders = chain.orders
  <2>1. [chain.vaults EXCEPT ![v] = @ - n] = [chain.vaults EXCEPT ![v] = @ + (0 - n)]
    BY <1>1
  <2>2. chain.wallet + n = chain.wallet - (0 - n)
    BY <1>1
  <2> QED BY <1>1, <2>1, <2>2 DEF Chains, Withdrawn
<1>3. c \in Chains
  <2>1. chain.wallet + n \in Nat /\ [chain.vaults EXCEPT ![v] = @ - n] \in [Vaults -> Nat]
    BY <1>1
  <2> QED BY <1>1, <2>1 DEF Chains, Withdrawn
<1>4. \A k \in Vaults \ {v} : c.vaults[k] = chain.vaults[k]
  BY <1>1, <1>2
<1> HIDE DEF c
<1>5. c.wallet + Total(c.vaults, Vaults) = Funds
  BY <1>2, <1>3, Moved
<1> QED BY <1>2, <1>3, <1>4, <1>5 DEF c

(* What a transaction that is not reverted makes of the chain, in the      *)
(* words of the invariant.                                                 *)
LEMMA MinedChain ==
  ASSUME TInv, NEW tx \in Transaction, Executed(tx.call) # None
  PROVE  LET c == Executed(tx.call)
             j == tx.job
             s == tx.stage
         IN  /\ c \in Chains
             /\ c.wallet + Total(c.vaults, Vaults) = Funds
             /\ c.allowance <= chain.allowance \/ \E n \in Asked : c.allowance <= n
             /\ c.orders =
                  IF s = "execute" /\ command[j].kind = "add"
                    THEN chain.orders \cup {NewOrder(j)}
                  ELSE IF s = "execute" /\ command[j].kind = "remove"
                    THEN chain.orders \ {command[j].order} ELSE chain.orders
             /\ \A k \in Jobs :
                  c.vaults[k] = IF k = j /\ s = "execute" /\ FillsDrawn(j)
                                  THEN chain.vaults[k] + command[j].amount
                                  ELSE chain.vaults[k]
<1>1. PICK j \in DOMAIN command, s \in Stages :
        tx.job = j /\ tx.stage = s /\ tx.call \in Calls(j, s)
  BY TransactionFacts
<1> DEFINE call == tx.call
           c == Executed(tx.call)
           kind == command[j].kind
<1>2. /\ chain \in Chains /\ chain.allowance \in 0..MaxUint256 /\ chain.wallet \in Nat
      /\ chain.vaults \in [Vaults -> Nat] /\ chain.orders \in SUBSET Orders
      /\ chain.wallet + Total(chain.vaults, Vaults) = Funds
      /\ MaxUint256 \in Nat
  BY WalletAssumption DEF TInv, Types, Chains, Conserved
<1>3. /\ command \in Plans /\ j \in Jobs
      /\ kind # "remove" => command[j].amount \in 0..MaxUint256
      /\ kind \in {"deposit", "withdraw"} => command[j].vault \in VaultIds
  BY Asking DEF TInv, Types
<1>4. /\ \A k \in Jobs : k \notin VaultIds
      /\ Jobs \subseteq Vaults /\ VaultIds \subseteq Vaults
  BY DrawnAssumption DEF Vaults
<1>5. CASE s = "approve" /\ kind \in {"deposit", "add"}
  <2>1. call \in Approvals(j)
    BY <1>1, <1>5 DEF Calls
  <2>2. /\ call.call = "approve" /\ call.amount \in 0..MaxUint256
        /\ call.amount <= command[j].amount
    BY <2>1 DEF Approvals
  <2>3. c = [chain EXCEPT !.allowance = call.amount]
    BY <2>2 DEF Executed
  <2>4. /\ c \in Chains /\ c.allowance = call.amount /\ c.wallet = chain.wallet
        /\ c.vaults = chain.vaults /\ c.orders = chain.orders
    BY <1>2, <2>2, <2>3 DEF Chains
  <2>5. command[j].amount \in Asked
    BY <1>5 DEF Asked
  <2> QED BY <1>1, <1>2, <1>5, <2>2, <2>4, <2>5
<1>6. CASE s = "deposit" /\ kind = "deposit"
  <2> DEFINE v == command[j].vault
             n == command[j].amount
  <2>1. call = DepositCall(j)
    BY <1>1, <1>6 DEF Calls
  <2>2. call.call = "deposit" /\ call.vault = v /\ call.amount = n
    BY <2>1 DEF DepositCall
  <2>3. CanDeposit(n) /\ c = Deposited(chain, v, n)
    BY <2>2 DEF Executed
  <2>4. v \in Vaults /\ n \in 0..MaxUint256 /\ v \notin Jobs
    BY <1>3, <1>4, <1>6
  <2> HIDE DEF v, n, c
  <2>5. /\ c \in Chains /\ c.wallet + Total(c.vaults, Vaults) = Funds
        /\ c.allowance <= chain.allowance /\ c.orders = chain.orders
        /\ \A k \in Vaults :
             c.vaults[k] = IF k = v THEN chain.vaults[k] + n ELSE chain.vaults[k]
    BY <2>3, <2>4, DepositedChain
  <2>6. \A k \in Jobs : c.vaults[k] = chain.vaults[k]
    BY <1>4, <2>4, <2>5
  <2> QED BY <1>1, <1>6, <2>5, <2>6 DEF c
<1>7. CASE s = "execute" /\ kind = "withdraw"
  <2> DEFINE v == command[j].vault
             n == IF command[j].amount < chain.vaults[v]
                    THEN command[j].amount ELSE chain.vaults[v]
  <2>1. call = WithdrawCall(j)
    BY <1>1, <1>7 DEF Calls
  <2>2. call.call = "withdraw" /\ call.vault = v /\ call.amount = command[j].amount
    BY <2>1 DEF WithdrawCall
  <2>3. c = Withdrawn(v, n)
    BY <2>2 DEF Executed, Withdrawn
  <2>4. v \in Vaults /\ v \notin Jobs /\ command[j].amount \in 0..MaxUint256
    BY <1>3, <1>4, <1>7
  <2>5. n \in Nat /\ n <= chain.vaults[v]
    BY <1>2, <2>4
  <2> HIDE DEF v, n, c
  <2>6. /\ c \in Chains /\ c.wallet + Total(c.vaults, Vaults) = Funds
        /\ c.allowance = chain.allowance /\ c.orders = chain.orders
        /\ \A k \in Vaults \ {v} : c.vaults[k] = chain.vaults[k]
    BY <2>3, <2>4, <2>5, WithdrawnChain
  <2>7. \A k \in Jobs : c.vaults[k] = chain.vaults[k]
    BY <1>4, <2>4, <2>6
  <2>8. ~FillsDrawn(j)
    BY <1>7 DEF FillsDrawn
  <2>9. c.allowance <= chain.allowance
    BY <1>2, <2>6
  <2> QED BY <1>1, <1>7, <2>6, <2>7, <2>8, <2>9 DEF c
<1>8. CASE s = "execute" /\ kind = "add" /\ command[j].via = "web"
  <2> DEFINE o == NewOrder(j)
             v == NewOrder(j).outputs[1]
             n == command[j].amount
  <2>1. call = Adding(j)
    BY <1>1, <1>8 DEF Calls
  <2>2. call.call = "addWithDeposit" /\ call.order = o /\ call.vault = v /\ call.amount = n
    BY <1>8, <2>1 DEF Adding
  <2>3. c = AddedWithDeposit(call)
    BY <2>2 DEF Executed
  <2> DEFINE d == Deposited(chain, v, n)
  <2>4. \/ n = 0 /\ c = WithOrder(chain, o)
        \/ CanDeposit(n) /\ c = WithOrder(d, o)
    <3>1. CASE n = 0
      BY <2>2, <2>3, <3>1 DEF AddedWithDeposit
    <3>2. CASE n # 0
      BY <2>2, <2>3, <3>2 DEF AddedWithDeposit
    <3> QED BY <3>1, <3>2
  <2>5. /\ v = IF command[j].outputs[1] = None THEN j ELSE command[j].outputs[1]
        /\ v \in VaultIds \cup {j} /\ o \in Orders
    BY <1>3, <1>8, OrderMade
  <2>6. n \in 0..MaxUint256 /\ v \in Vaults
    BY <1>3, <1>4, <1>8, <2>5
  <2>7. FillsDrawn(j) <=> v = j
    <3>1. command[j].outputs[1] # None => command[j].outputs[1] \in VaultIds
      BY <1>3, <1>8, Asking
    <3>2. FillsDrawn(j) <=> command[j].outputs[1] = None
      BY <1>8 DEF FillsDrawn
    <3>3. j \notin VaultIds
      BY <1>3, <1>4
    <3> HIDE DEF v
    <3> QED BY <2>5, <3>1, <3>2, <3>3
  <2> HIDE DEF v, n, c, d, o
  <2>8. PICK e \in Chains :
          /\ c = WithOrder(e, o)
          /\ e.wallet + Total(e.vaults, Vaults) = Funds
          /\ e.allowance <= chain.allowance /\ e.orders = chain.orders
          /\ \A k \in Vaults :
               e.vaults[k] = IF k = v THEN chain.vaults[k] + n ELSE chain.vaults[k]
    <3>1. CASE n = 0 /\ c = WithOrder(chain, o)
      <4>1. \A k \in Vaults : chain.vaults[k] + n = chain.vaults[k]
        BY <1>2, <3>1
      <4>2. chain.allowance <= chain.allowance
        BY <1>2
      <4> QED BY <1>2, <3>1, <4>1, <4>2
    <3>2. CASE CanDeposit(n) /\ c = WithOrder(d, o)
      BY <2>6, <3>2, DepositedChain DEF d
    <3> QED BY <2>4, <3>1, <3>2
  <2>9. /\ c \in Chains /\ c.wallet = e.wallet /\ c.vaults = e.vaults
        /\ c.allowance = e.allowance /\ c.orders = chain.orders \cup {o}
    BY <2>5, <2>8 DEF Chains, WithOrder
  <2>10. \A k \in Jobs : c.vaults[k] = IF k = j /\ FillsDrawn(j)
                                         THEN chain.vaults[k] + n ELSE chain.vaults[k]
    <3>1. \A k \in Jobs : k = v <=> k = j /\ FillsDrawn(j)
      BY <1>4, <2>5, <2>7
    <3> QED BY <1>4, <2>8, <2>9, <3>1
  <2> QED BY <1>1, <1>8, <2>8, <2>9, <2>10 DEF c, n, o
<1>9. CASE s = "execute" /\ kind = "add" /\ command[j].via # "web"
  <2>1. call = Adding(j)
    BY <1>1, <1>9 DEF Calls
  <2>2. call.call = "add" /\ call.order = NewOrder(j)
    BY <1>9, <2>1 DEF Adding
  <2>3. c = [chain EXCEPT !.orders = @ \cup {NewOrder(j)}] /\ NewOrder(j) \in Orders
    BY <1>3, <1>9, <2>2, OrderMade DEF Executed, WithOrder
  <2>4. /\ c \in Chains /\ c.allowance = chain.allowance /\ c.wallet = chain.wallet
        /\ c.vaults = chain.vaults /\ c.orders = chain.orders \cup {NewOrder(j)}
    BY <1>2, <2>3 DEF Chains
  <2>5. ~FillsDrawn(j) /\ c.allowance <= chain.allowance
    BY <1>2, <1>9, <2>4 DEF FillsDrawn
  <2> QED BY <1>1, <1>2, <1>9, <2>4, <2>5
<1>10. CASE s = "execute" /\ kind = "remove"
  <2>1. call = Removal(j)
    BY <1>1, <1>10 DEF Calls
  <2>2. call.call = "remove" /\ call.order = command[j].order
    BY <2>1 DEF Removal
  <2>3. c = [chain EXCEPT !.orders = @ \ {command[j].order}]
    BY <2>2 DEF Executed
  <2>4. /\ c \in Chains /\ c.allowance = chain.allowance /\ c.wallet = chain.wallet
        /\ c.vaults = chain.vaults /\ c.orders = chain.orders \ {command[j].order}
    BY <1>2, <2>3 DEF Chains
  <2>5. ~FillsDrawn(j) /\ c.allowance <= chain.allowance
    BY <1>2, <1>10, <2>4 DEF FillsDrawn
  <2> QED BY <1>1, <1>2, <1>10, <2>4, <2>5
<1> QED BY <1>1, <1>5, <1>6, <1>7, <1>8, <1>9, <1>10 DEF Calls

LEMMA SameStates ==
  ASSUME UNCHANGED <<command, job, notices>>
  PROVE  /\ \A k, s : Unsent(k, s)' <=> Unsent(k, s)
         /\ \A k : Approved(k)' <=> Approved(k)
         /\ \A k : NewOrder(k)' = NewOrder(k)
         /\ \A k : OnlySimulates(k)' <=> OnlySimulates(k)
         /\ \A k : FillsDrawn(k)' <=> FillsDrawn(k)
         /\ Transaction' = Transaction /\ Asked' = Asked
BY SameCommands DEF Unsent, Approved, Upto

(* What was added stays so, and a place that rests on it too.              *)
LEMMA PlacesKept ==
  ASSUME TInv, UNCHANGED <<command, job, notices>>, Added \subseteq Added',
         NEW k \in DOMAIN command
  PROVE  InPlace(k)'
BY Known, SameStates DEF InPlace, Upto

(* A removal is never reverted.                                            *)
LEMMA RemovalSucceeds ==
  ASSUME TInv, NEW tx \in Transaction, tx.stage = "execute",
         command[tx.job].kind = "remove"
  PROVE  Executed(tx.call) # None
<1>1. PICK j \in DOMAIN command : tx.job = j /\ tx.call \in Calls(j, "execute")
  BY TransactionFacts
<1>2. tx.call = Removal(j)
  BY <1>1 DEF Calls
<1>3. Executed(tx.call) = [chain EXCEPT !.orders = @ \ {command[j].order}]
  BY <1>2 DEF Removal, Executed
<1>4. [chain EXCEPT !.orders = @ \ {command[j].order}] \in Chains
  BY DEF TInv, Types, Chains
<1> QED BY <1>3, <1>4, NoneAssumption

LEMMA MineStep ==
  ASSUME TInv, Mine
  PROVE  TInv'
<1>1. PICK tx \in Transaction :
        tx = Head(mempool) /\ tx = mempool[1] /\ InFlight(tx)
  BY DEF Mine, TInv, Types
<1>2. PICK j \in DOMAIN command, s \in Stages : tx.job = j /\ tx.stage = s
  BY TransactionFacts
<1>3. PICK r \in {"ok", "reverted"} :
        /\ mined' = [mined EXCEPT ![j][s] = r]
        /\ r = "ok" => Executed(tx.call) # None /\ chain' = Executed(tx.call)
        /\ r = "reverted" => Executed(tx.call) = None /\ chain' = chain
  BY <1>1, <1>2 DEF Mine
<1>4. UNCHANGED <<command, job, notices>> /\ index' = index /\ mempool' = Tail(mempool)
  BY DEF Mine
<1>5. /\ mempool \in Seq(Transaction) /\ mempool # <<>> /\ command \in Plans
      /\ mined \in [Jobs -> [Stages -> {None, "ok", "reverted"}]]
      /\ chain \in Chains
  BY DEF TInv, Types, Mine
<1>6. j \in Jobs /\ r # None
  BY <1>5, Asking, NoneAssumption
<1>7. /\ mined' \in [Jobs -> [Stages -> {None, "ok", "reverted"}]]
      /\ mined'[j][s] = r /\ mined[j][s] = None
      /\ \A k \in Jobs : \A t \in Stages :
           k # j \/ t # s => mined'[k][t] = mined[k][t]
  BY <1>1, <1>2, <1>3, <1>5, <1>6 DEF InFlight
<1>8. \A k \in DOMAIN command : mined[k].execute # None => mined'[k].execute = mined[k].execute
  BY <1>5, <1>7, Asking DEF Stages
<1> DEFINE adds == s = "execute" /\ command[j].kind = "add" /\ r = "ok"
<1>9. Added' = IF adds THEN Added \cup {NewOrder(j)} ELSE Added
  <2>1. \A k \in DOMAIN command :
          mined'[k].execute = "ok" <=> mined[k].execute = "ok" \/ (k = j /\ s = "execute" /\ r = "ok")
    BY <1>5, <1>6, <1>7, NoneAssumption, Asking DEF Stages
  <2> QED BY <1>4, <2>1, SameStates DEF Added
<1>10. Added \subseteq Added'
  BY <1>9
<1>11. \A k \in DOMAIN command : InPlace(k)'
  BY <1>4, <1>10, PlacesKept
<1> DEFINE removes == s = "execute" /\ command[j].kind = "remove"
<1>12. removes => r = "ok"
  BY <1>2, <1>3, RemovalSucceeds
<1>13. /\ chain' \in Chains
       /\ chain'.wallet + Total(chain'.vaults, Vaults) = Funds
       /\ chain'.allowance <= chain.allowance \/ \E n \in Asked : chain'.allowance <= n
       /\ chain'.orders = IF adds THEN chain.orders \cup {NewOrder(j)}
                          ELSE IF removes THEN chain.orders \ {command[j].order}
                          ELSE chain.orders
       /\ \A k \in Jobs :
            chain'.vaults[k] = IF k = j /\ s = "execute" /\ r = "ok" /\ FillsDrawn(j)
                                 THEN chain.vaults[k] + command[j].amount
                                 ELSE chain.vaults[k]
  <2>1. CASE r = "ok"
    <3>1. Executed(tx.call) # None /\ chain' = Executed(tx.call)
      BY <1>3, <2>1
    <3> QED BY <1>2, <2>1, <3>1, MinedChain
  <2>2. CASE r = "reverted"
    <3>1. chain' = chain /\ ~adds /\ ~removes
      BY <1>3, <1>12, <2>2
    <3>2. chain.allowance \in Int
      BY <1>5, WalletAssumption DEF Chains
    <3>3. chain.wallet + Total(chain.vaults, Vaults) = Funds
      BY DEF TInv, Conserved
    <3> QED BY <1>5, <2>2, <3>1, <3>2, <3>3
  <2> QED BY <2>1, <2>2
<1>14. Types'
  <2>1. Tail(mempool) \in Seq(Transaction)
    BY <1>5
  <2>2. Transaction' = Transaction
    BY <1>4, SameStates
  <2> QED BY <1>4, <1>7, <1>13, <2>1, <2>2 DEF TInv, Types
<1>15. \A i \in DOMAIN mempool' :
         /\ i + 1 \in DOMAIN mempool /\ mempool'[i] = mempool[i + 1]
         /\ i + 1 # 1
  BY <1>4, <1>5
<1>16. ASSUME NEW i \in DOMAIN mempool'
       PROVE  InFlight(mempool[i])'
  <2>1. PICK t \in Transaction : t = mempool'[i] /\ t = mempool[i + 1] /\ InFlight(t)
    BY <1>5, <1>15 DEF TInv
  <2>2. t.job \in DOMAIN command /\ t.stage \in Stages /\ t.job \in Jobs
    BY <1>5, TransactionFacts, Asking
  <2>3. ~(t.job = j /\ t.stage = s)
    <3>1. 1 \in DOMAIN mempool
      BY <1>5
    <3> QED BY <1>1, <1>2, <1>15, <2>1, <3>1 DEF TInv, SentOnce
  <2>4. mined'[t.job][t.stage] = mined[t.job][t.stage]
    BY <1>7, <2>2, <2>3
  <2>5. /\ Unsent(t.job, t.stage)' <=> Unsent(t.job, t.stage)
        /\ Approved(t.job)' <=> Approved(t.job)
    BY <1>4, SameStates
  <2>6. InFlight(t)'
    BY <1>4, <1>10, <2>1, <2>4, <2>5 DEF InFlight
  <2> QED BY <2>1, <2>6
<1>17. SentOnce'
  <2> SUFFICES ASSUME NEW i \in DOMAIN mempool', NEW k \in DOMAIN mempool',
                      mempool'[i].job = mempool'[k].job,
                      mempool'[i].stage = mempool'[k].stage
               PROVE  i = k
    BY DEF SentOnce
  <2>1. i + 1 = k + 1
    BY <1>15 DEF TInv, SentOnce
  <2>2. i \in Nat /\ k \in Nat
    BY <1>4, <1>5
  <2> QED BY <2>1, <2>2
<1>18. ASSUME NEW k \in DOMAIN command
       PROVE  Accounted(k)'
  <2>1. /\ Accounted(k) /\ k \in Jobs /\ notices' = notices
        /\ \A t \in Stages : Unsent(k, t)' <=> Unsent(k, t)
        /\ OnlySimulates(k)' <=> OnlySimulates(k)
    BY <1>4, Known, SameStates
  <2>2. \A t \in Stages : Unsent(k, t)' => mined'[k][t] = None
    <3>1. ~Unsent(j, s)
      BY <1>1, <1>2 DEF InFlight
    <3> QED BY <1>7, <2>1, <3>1 DEF Accounted
  <2>3. \A t \in Stages : notices'[k][t] = "Confirmed" => mined'[k][t] # None
    BY <1>6, <1>7, <2>1 DEF Accounted
  <2>4. OnlySimulates(k)' => mined'[k].execute = None
    <3>1. OnlySimulates(k) => ~(k = j /\ s = "execute")
      BY <1>2, TransactionFacts DEF Calls, OnlySimulates
    <3> QED BY <1>7, <2>1, <3>1 DEF Accounted, Stages
  <2>5. ASSUME command[k].kind = "remove", mined'[k].execute # None
        PROVE  command[k].order \in Added' /\ command[k].order \notin chain'.orders
    <3>1. CASE k = j /\ s = "execute"
      <4>1. removes /\ ~adds
        BY <2>5, <3>1
      <4>2. command[j].order \in Added
        BY <1>1, <1>2, <2>5, <3>1 DEF InFlight
      <4> QED BY <1>10, <1>13, <3>1, <4>1, <4>2
    <3>2. CASE ~(k = j /\ s = "execute")
      <4>1. mined[k].execute # None
        BY <1>7, <2>1, <2>5, <3>2 DEF Stages
      <4>2. command[k].order \in Added /\ command[k].order \notin chain.orders
        BY <2>1, <2>5, <4>1 DEF Accounted
      <4>3. adds => NewOrder(j) \notin Added
        <5> SUFFICES ASSUME adds, NewOrder(j) \in Added PROVE FALSE
          OBVIOUS
        <5>1. NewOrder(j).nonce = j /\ NewOrder(j) \notin OldOrders
          BY <1>5, OrderMade
        <5>2. PICK i \in DOMAIN command :
                 /\ command[i].kind = "add" /\ mined[i].execute = "ok"
                 /\ NewOrder(j) = NewOrder(i)
          BY <5>1 DEF Added
        <5>3. i = j
          BY <1>5, <5>1, <5>2, OrderMade
        <5> QED BY <1>7, <5>2, <5>3, NoneAssumption
      <4> QED BY <1>10, <1>13, <4>2, <4>3
    <3> QED BY <3>1, <3>2
  <2> QED BY <1>4, <2>2, <2>3, <2>4, <2>5 DEF Accounted
<1>19. ASSUME NEW k \in Jobs
       PROVE  Drawn(k)'
  <2>1. Drawn(k) /\ (FillsDrawn(k)' <=> FillsDrawn(k)) /\ command' = command
    BY <1>4, SameStates DEF TInv
  <2>2. CASE k = j /\ s = "execute"
    <3>1. mined[k].execute = None /\ mined'[k].execute = r /\ None # "ok"
      BY <1>7, <2>2, NoneAssumption
    <3>2. chain.vaults[k] = 0
      BY <2>1, <3>1 DEF Drawn
    <3>3. FillsDrawn(j) => command[j].amount \in Nat
      BY <1>5, Asking, WalletAssumption DEF FillsDrawn
    <3> QED BY <1>13, <2>1, <2>2, <3>1, <3>2, <3>3 DEF Drawn
  <2>3. CASE ~(k = j /\ s = "execute")
    <3>1. mined'[k].execute = mined[k].execute
      BY <1>7, <2>3 DEF Stages
    <3>2. chain'.vaults[k] = chain.vaults[k]
      BY <1>13, <2>3
    <3> QED BY <2>1, <3>1, <3>2 DEF Drawn
  <2> QED BY <2>2, <2>3
<1>20. AddedOrRemoved'
  <2>1. AddedOrRemoved
    BY DEF TInv
  <2>2. chain'.orders \subseteq Added' /\ index' \subseteq Added'
    BY <1>4, <1>9, <1>10, <1>13, <2>1 DEF AddedOrRemoved
  <2>3. ASSUME NEW o \in Added' \ OldOrders, o \notin chain'.orders
        PROVE  \E k \in DOMAIN command' :
                 /\ command'[k].kind = "remove" /\ command'[k].order = o
                 /\ mined'[k].execute = "ok"
    <3>1. o \in Added
      BY <1>9, <1>13, <2>3
    <3>2. CASE o \in chain.orders
      <4>1. removes /\ o = command[j].order
        BY <1>13, <2>3, <3>2
      <4>2. mined'[j].execute = "ok"
        BY <1>7, <1>12, <4>1
      <4> QED BY <1>4, <4>1, <4>2
    <3>3. CASE o \notin chain.orders
      <4>1. PICK k \in DOMAIN command :
               /\ command[k].kind = "remove" /\ command[k].order = o
               /\ mined[k].execute = "ok"
        BY <2>1, <2>3, <3>1, <3>3 DEF AddedOrRemoved
      <4>2. mined'[k].execute = "ok"
        BY <1>8, <4>1, NoneAssumption
      <4> QED BY <1>4, <4>1, <4>2
    <3> QED BY <3>2, <3>3
  <2> QED BY <2>2, <2>3 DEF AddedOrRemoved
<1>21. Conserved' /\ WithinAsked'
  <2>1. Asked' = Asked
    BY <1>4, SameStates
  <2>2. \E n \in Asked \cup Allowances : chain'.allowance <= n
    <3>1. chain'.allowance \in Int /\ chain.allowance \in Int
      BY <1>5, <1>13, WalletAssumption DEF Chains
    <3>2. ASSUME NEW n \in Asked \cup Allowances
          PROVE  n \in Int
      <4>1. CASE n \in Asked
        <5>1. PICK k \in DOMAIN command :
                command[k].kind \in {"deposit", "add"} /\ n = command[k].amount
          BY <4>1 DEF Asked
        <5>2. command[k].amount \in 0..MaxUint256
          BY <1>5, <5>1, Asking
        <5> QED BY <5>1, <5>2
      <4>2. CASE n \in Allowances
        BY <4>2, WalletAssumption
      <4> QED BY <4>1, <4>2
    <3>3. PICK n \in Asked \cup Allowances : chain.allowance <= n
      BY DEF TInv, WithinAsked
    <3>4. CASE chain'.allowance <= chain.allowance
      <4>1. chain'.allowance <= n
        BY <3>1, <3>2, <3>3, <3>4
      <4> QED BY <4>1
    <3> QED BY <1>13, <3>4
  <2> QED BY <1>13, <2>1, <2>2 DEF Conserved, WithinAsked
<1> QED BY <1>4, <1>11, <1>14, <1>16, <1>17, <1>18, <1>19, <1>20, <1>21 DEF TInv

-----------------------------------------------------------------------------
(* The invariant of every behaviour *)

(* The subgraph learns only of orders that were added.                     *)
LEMMA IndexStep ==
  ASSUME TInv, UNCHANGED <<command, job, notices, mempool, mined, chain>>,
         index' \in {index, chain.orders}
  PROVE  TInv'
<1>1. /\ \A k, s : Unsent(k, s)' <=> Unsent(k, s)
      /\ \A k : Approved(k)' <=> Approved(k)
      /\ \A k : OnlySimulates(k)' <=> OnlySimulates(k)
      /\ \A k : FillsDrawn(k)' <=> FillsDrawn(k)
      /\ Transaction' = Transaction /\ Asked' = Asked /\ Added' = Added
  BY SameStates, SameAdded
<1>2. index' \subseteq Added /\ index' \in SUBSET Orders
  BY DEF TInv, AddedOrRemoved, Types, Chains
<1>3. Types'
  BY <1>1, <1>2 DEF TInv, Types
<1>4. \A k \in DOMAIN command : InPlace(k)'
  BY <1>1, PlacesKept
<1>5. \A k \in DOMAIN command : Accounted(k)'
  BY <1>1 DEF TInv, Accounted
<1>6. ASSUME NEW i \in DOMAIN mempool PROVE InFlight(mempool[i])'
  <2>1. PICK tx : tx = mempool[i] /\ InFlight(tx)
    BY DEF TInv
  <2>2. InFlight(tx)'
    BY <1>1, <2>1 DEF InFlight
  <2> QED BY <2>1, <2>2
<1>7. SentOnce' /\ Conserved' /\ WithinAsked'
  BY <1>1 DEF TInv, SentOnce, Conserved, WithinAsked
<1>8. \A k \in Jobs : Drawn(k)'
  BY <1>1 DEF TInv, Drawn
<1>9. AddedOrRemoved'
  BY <1>1, <1>2 DEF TInv, AddedOrRemoved
<1> QED BY <1>3, <1>4, <1>5, <1>6, <1>7, <1>8, <1>9 DEF TInv

LEMMA InitTInv == Init => TInv
<1> SUFFICES ASSUME Init PROVE TInv
  OBVIOUS
<1>1. /\ command \in Plans
      /\ job = [j \in Jobs |-> [pc |-> "start", seen |-> None, order |-> None]]
      /\ notices = [j \in Jobs |-> [s \in Stages |-> "Initialized"]]
      /\ mempool = <<>>
      /\ mined = [j \in Jobs |-> [s \in Stages |-> None]]
      /\ chain.allowance \in Allowances /\ chain.wallet = Funds
      /\ chain.vaults = [v \in Vaults |-> 0] /\ chain.orders = OldOrders
      /\ index = OldOrders
  BY DEF Init
<1>2. chain \in Chains
  <2>1. /\ [v \in Vaults |-> 0] \in [Vaults -> Nat] /\ OldOrders \in SUBSET Orders
        /\ Allowances \subseteq 0..MaxUint256 /\ Funds \in Nat
    BY WalletAssumption DEF Orders
  <2> QED BY <2>1 DEF Init, Chains
<1>3. Types
  <2>1. job \in [Jobs -> [pc : Places, seen : 0..MaxUint256 \cup {None},
                          order : Orders \cup {None}]]
    BY <1>1 DEF Places
  <2>2. notices \in [Jobs -> [Stages -> Statuses]]
    BY <1>1 DEF Statuses
  <2>3. mined \in [Jobs -> [Stages -> {None, "ok", "reverted"}]]
    BY <1>1
  <2>4. mempool \in Seq(Transaction) /\ index \in SUBSET Orders
    BY <1>1 DEF Orders
  <2> QED BY <1>1, <1>2, <2>1, <2>2, <2>3, <2>4 DEF Types
<1>4. ASSUME NEW j \in DOMAIN command PROVE InPlace(j) /\ Accounted(j)
  <2>1. j \in Jobs
    BY <1>1, Asking
  <2>2. /\ job[j].pc = "start" /\ job[j].seen = None
        /\ \A s \in Stages : notices[j][s] = "Initialized" /\ mined[j][s] = None
    BY <1>1, <2>1
  <2> QED BY <2>2 DEF InPlace, Accounted, Upto, Stages
<1>5. (\A i \in DOMAIN mempool : InFlight(mempool[i])) /\ SentOnce
  BY <1>1 DEF SentOnce
<1>6. \A j \in DOMAIN command : mined[j].execute # "ok"
  BY <1>1, Asking, NoneAssumption DEF Stages
<1>7. ASSUME NEW j \in Jobs PROVE Drawn(j)
  <2>1. mined[j].execute # "ok" /\ chain.vaults[j] = 0
    BY <1>1, NoneAssumption DEF Stages, Vaults
  <2> QED BY <2>1 DEF Drawn
<1>8. AddedOrRemoved
  BY <1>1, <1>6 DEF AddedOrRemoved, Added
<1>9. Conserved
  <2>1. \A v \in Vaults : chain.vaults[v] = 0
    BY <1>1
  <2>2. Total(chain.vaults, Vaults) = 0
    BY <2>1, TotalZero
  <2> QED BY <1>1, <2>2, WalletAssumption DEF Conserved
<1>10. WithinAsked
  <2>1. chain.allowance \in Asked \cup Allowances
    BY <1>1
  <2>2. chain.allowance \in Int
    BY <1>2, WalletAssumption DEF Chains
  <2>3. chain.allowance <= chain.allowance
    BY <2>2
  <2> QED BY <2>1, <2>3 DEF WithinAsked
<1> QED BY <1>3, <1>4, <1>5, <1>7, <1>8, <1>9, <1>10 DEF TInv

LEMMA NextTInv == TInv /\ [Next]_vars => TInv'
<1> SUFFICES ASSUME TInv, [Next]_vars PROVE TInv'
  OBVIOUS
<1>1. ASSUME NEW j \in Jobs, Step(j) PROVE TInv'
  <2>1. j \in DOMAIN command
    BY <1>1 DEF Step
  <2>2. CASE Begin(j)
    BY <2>1, <2>2, BeginStep
  <2>3. CASE BeginFails(j)
    BY <2>1, <2>3, BeginFailsStep
  <2>4. CASE \E succeeds \in BOOLEAN : Simulate(j, succeeds)
    BY <2>1, <2>4, SimulateStep
  <2>5. CASE ReadAllowance(j)
    BY <2>1, <2>5, ReadAllowanceStep
  <2>6. CASE Prepare(j) \/ AskToSign(j)
    BY <2>1, <2>6, PrepareStep
  <2>7. CASE SignAndSend(j)
    BY <2>1, <2>7, SendStep
  <2>8. CASE Confirm(j)
    BY <2>1, <2>8, ConfirmStep
  <2>9. CASE Fail(j)
    BY <2>1, <2>9, FailStep
  <2> QED BY <1>1, <2>2, <2>3, <2>4, <2>5, <2>6, <2>7, <2>8, <2>9 DEF Step
<1>2. CASE Mine
  BY <1>2, MineStep
<1>3. CASE IndexBlock
  BY <1>3, IndexStep DEF IndexBlock
<1>4. CASE UNCHANGED vars
  BY <1>4, IndexStep DEF vars
<1> QED BY <1>1, <1>2, <1>3, <1>4 DEF Next

LEMMA AlwaysTInv == Spec => []TInv
BY InitTInv, NextTInv, PTL DEF Spec

-----------------------------------------------------------------------------
(* The theorems *)

(* However many commands approve at once from what they read before, the   *)
(* order book is never allowed to take more than one of them asks for, or  *)
(* was allowed before; and the wallet and the vaults hold together what    *)
(* the wallet held, so that none of them overflows or is overdrawn.        *)
THEOREM AllowancesAsked == Spec => []AllowanceBounded
<1> SUFFICES ASSUME TInv PROVE AllowanceBounded
  BY AlwaysTInv, PTL
<1>1. /\ job \in [Jobs -> [pc : Places, seen : 0..MaxUint256 \cup {None},
                           order : Orders \cup {None}]]
      /\ notices \in [Jobs -> [Stages -> Statuses]]
      /\ chain.allowance \in 0..MaxUint256 /\ chain.wallet \in Nat
      /\ chain.vaults \in [Vaults -> Nat] /\ MaxUint256 \in Nat
  BY WalletAssumption DEF TInv, Types, Chains
<1>2. \A v \in Vaults : chain.vaults[v] <= Total(chain.vaults, Vaults)
  BY <1>1, FiniteVaultIds, TotalBounds
<1>3. Total(chain.vaults, Vaults) \in Nat
  BY <1>1, FiniteVaultIds, TotalType
<1>4. chain.wallet + Total(chain.vaults, Vaults) = Funds
  BY DEF TInv, Conserved
<1>5. /\ chain.wallet \in 0..Funds
      /\ \A v \in DOMAIN chain.vaults : chain.vaults[v] \in 0..Funds
  BY <1>1, <1>2, <1>3, <1>4, WalletAssumption
<1>6. \A j \in Jobs :
        /\ job[j].pc \in Places /\ job[j].seen \in Nat \cup {None}
        /\ \A s \in Stages : notices[j][s] \in Statuses
  BY <1>1
<1>7. TypeOK
  BY <1>1, <1>5, <1>6 DEF TypeOK, Places, Statuses
<1> QED BY <1>7 DEF AllowanceBounded, TInv, WithinAsked

(* The CLI never sends a deposit whose approval was not confirmed, what is *)
(* only simulated is never on the chain, and an order whose removal is     *)
(* confirmed does not come back, whatever is mined late.                   *)
THEOREM CommandsStopInTime == Spec => []StopsInTime
<1> SUFFICES ASSUME TInv PROVE StopsInTime
  BY AlwaysTInv, PTL
<1>1. DepositsAfterApproval
  BY DEF TInv, InFlight, Approved, DepositsAfterApproval
<1>2. ASSUME NEW j \in DOMAIN command
      PROVE  /\ OnlySimulates(j) => mined[j].execute = None
             /\ command[j].kind = "remove" /\ notices[j].execute = "Confirmed"
                  => command[j].order \notin chain.orders
  BY DEF TInv, Accounted, Stages
<1>3. OnlySimulated
  BY <1>2 DEF OnlySimulated, OnlySimulates
<1> QED BY <1>1, <1>3 DEF StopsInTime

(* An order of the web app and its deposit are there together or not at    *)
(* all, and the vault that an order draws is that order's alone: no other  *)
(* order takes in or pays out of it.                                       *)
THEOREM VaultsOfOrders == Spec => []OrdersHaveTheirVaults
<1> SUFFICES ASSUME TInv PROVE OrdersHaveTheirVaults
  BY AlwaysTInv, PTL
<1>1. command \in Plans /\ chain.orders \subseteq Added
  BY DEF TInv, Types, AddedOrRemoved
<1>2. ASSUME NEW o \in Added \ OldOrders
      PROVE  /\ o.nonce \in DOMAIN command /\ o = NewOrder(o.nonce)
             /\ command[o.nonce].kind = "add" /\ mined[o.nonce].execute = "ok"
  <2>1. PICK k \in DOMAIN command :
          command[k].kind = "add" /\ mined[k].execute = "ok" /\ o = NewOrder(k)
    BY <1>2 DEF Added
  <2>2. o.nonce = k
    BY <1>1, <2>1, OrderMade
  <2> QED BY <2>1, <2>2
<1>3. OrdersFunded
  <2> SUFFICES ASSUME NEW j \in DOMAIN command,
                      command[j].kind = "add", command[j].via = "web",
                      command[j].outputs[1] = None, command[j].amount > 0
               PROVE  /\ (\E o \in chain.orders : o.nonce = j) =>
                           chain.vaults[j] = command[j].amount
                      /\ chain.vaults[j] = command[j].amount =>
                           \/ \E o \in chain.orders : o.nonce = j
                           \/ \E k \in DOMAIN command :
                                /\ command[k].kind = "remove"
                                /\ command[k].order.nonce = j
                                /\ mined[k].execute = "ok"
    BY DEF OrdersFunded
  <2>1. j \in Jobs /\ command[j].amount \in Nat
    BY <1>1, Asking, WalletAssumption
  <2>2. chain.vaults[j] = IF mined[j].execute = "ok" THEN command[j].amount ELSE 0
    BY <2>1 DEF TInv, Drawn, FillsDrawn
  <2>3. ASSUME NEW o \in chain.orders, o.nonce = j
        PROVE  mined[j].execute = "ok"
    BY <1>1, <1>2, <2>1, <2>3, DrawnAssumption
  <2>4. ASSUME mined[j].execute = "ok"
        PROVE  NewOrder(j) \in Added \ OldOrders /\ NewOrder(j).nonce = j
    BY <1>1, <2>4, OrderMade DEF Added
  <2>5. mined[j].execute = "ok" =>
          \/ \E o \in chain.orders : o.nonce = j
          \/ \E k \in DOMAIN command :
               /\ command[k].kind = "remove" /\ command[k].order.nonce = j
               /\ mined[k].execute = "ok"
    BY <2>4 DEF TInv, AddedOrRemoved
  <2> QED BY <2>1, <2>2, <2>3, <2>5
<1>4. UnsetVaultsShared
  <2> SUFFICES ASSUME NEW o \in chain.orders \ OldOrders
               PROVE  LET c == command[o.nonce]
                          drawn ==
                            {o.inputs[i] : i \in {k \in DOMAIN o.inputs : c.inputs[k] = None}}
                            \cup {o.outputs[i] : i \in {k \in DOMAIN o.outputs : c.outputs[k] = None}}
                      IN  /\ Cardinality(drawn) <= 1
                          /\ \A p \in chain.orders \ {o} : \A v \in drawn :
                               /\ \A i \in DOMAIN p.inputs : p.inputs[i] # v
                               /\ \A i \in DOMAIN p.outputs : p.outputs[i] # v
    BY DEF UnsetVaultsShared
  <2> DEFINE j == o.nonce
             c == command[j]
             drawn ==
               {o.inputs[i] : i \in {k \in DOMAIN o.inputs : c.inputs[k] = None}}
               \cup {o.outputs[i] : i \in {k \in DOMAIN o.outputs : c.outputs[k] = None}}
  <2>1. j \in DOMAIN command /\ o = NewOrder(j) /\ c.kind = "add"
    BY <1>1, <1>2
  <2>2. /\ j \in Jobs /\ c.inputs \in Seq(VaultIds \cup {None})
        /\ c.outputs \in Seq(VaultIds \cup {None})
    BY <1>1, <2>1, Asking
  <2>3. o.inputs = WithRandomVault(j, c.inputs) /\ o.outputs = WithRandomVault(j, c.outputs)
    BY <2>1 DEF NewOrder
  <2>4. drawn \subseteq {j}
    <3>1. ASSUME NEW i \in DOMAIN o.inputs, c.inputs[i] = None
          PROVE  o.inputs[i] = j
      BY <2>3, <3>1 DEF WithRandomVault
    <3>2. ASSUME NEW i \in DOMAIN o.outputs, c.outputs[i] = None
          PROVE  o.outputs[i] = j
      BY <2>3, <3>2 DEF WithRandomVault
    <3> QED BY <3>1, <3>2
  <2>5. Cardinality(drawn) <= 1
    <3>1. IsFiniteSet({j}) /\ Cardinality({j}) = 1
      BY FS_Singleton
    <3>2. Cardinality(drawn) <= Cardinality({j})
      BY <2>4, <3>1, FS_Subset
    <3> QED BY <3>1, <3>2
  <2>6. ASSUME NEW p \in chain.orders \ {o}
        PROVE  /\ \A i \in DOMAIN p.inputs : p.inputs[i] # j
               /\ \A i \in DOMAIN p.outputs : p.outputs[i] # j
    <3>1. CASE p \in OldOrders
      BY <2>2, <3>1, DrawnAssumption
    <3>2. CASE p \notin OldOrders
      <4>1. PICK k \in DOMAIN command :
              command[k].kind = "add" /\ p = NewOrder(k)
        BY <1>1, <1>2, <3>2
      <4>2. k # j
        BY <2>1, <4>1
      <4>3. /\ k \in Jobs /\ command[k].inputs \in Seq(VaultIds \cup {None})
            /\ command[k].outputs \in Seq(VaultIds \cup {None})
        BY <1>1, <4>1, Asking
      <4>4. /\ p.inputs = WithRandomVault(k, command[k].inputs)
            /\ p.outputs = WithRandomVault(k, command[k].outputs)
        BY <4>1 DEF NewOrder
      <4>5. /\ \A i \in DOMAIN p.inputs : p.inputs[i] \in VaultIds \cup {k}
            /\ \A i \in DOMAIN p.outputs : p.outputs[i] \in VaultIds \cup {k}
        BY <4>3, <4>4, VaultsFilled
      <4> QED BY <2>2, <4>2, <4>5, DrawnAssumption
    <3> QED BY <3>1, <3>2
  <2> QED BY <2>4, <2>5, <2>6
<1> QED BY <1>3, <1>4 DEF OrdersHaveTheirVaults

=============================================================================
