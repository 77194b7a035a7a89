----------------------------- MODULE Deployment ------------------------------
(***************************************************************************)
(* The scripts of Scripts.tla, run by an operator against a chain.         *)
(*                                                                         *)
(* A script does not wait for its transactions: the library returns once   *)
(* they are sent.  On the local node that mines them at once; on a live    *)
(* network they queue, in the order of the account's nonces, until a block *)
(* takes them.  Before sending a call for which the script names no gas    *)
(* limit the library dry-runs it, against the latest block or against the  *)
(* pending state, as the node has it, and the script fails when that       *)
(* reverts.  A script may crash between any two instructions; what it sent *)
(* stays queued.  Others create Sets on the same network, through their    *)
(* own Controllers or through the operator's.                              *)
(*                                                                         *)
(* The operator runs scripts 01 to 05 in any order their inputs allow,     *)
(* again if need be, and pastes the addresses and the token lists they     *)
(* print, one at a time, into .env and into scripts 03 and 04.             *)
(***************************************************************************)
EXTENDS Scripts

CONSTANTS
    MaxReruns,      \* bound on how often one of scripts 01 to 05 is run again
    MaxCrashes,     \* bound on the crashes
    MaxCopies       \* bound on the Sets that strangers create for the operator

ASSUME RunBoundAssumption ==
    /\ MaxReruns \in Nat /\ MaxCrashes \in Nat /\ MaxCopies \in Nat
    /\ Runs = 1 .. Cardinality(Steps) + MaxReruns

\* The mocks mint 10000 ether: enough for an issuance by every run, and for what
\* script 11 adds.
ASSUME BalanceAssumption == INITIAL_BALANCE >= Cardinality(Runs) * ether(N) + ether(4)

VARIABLES
    chain,          \* the contracts as of the latest block
    pending,        \* the contracts as they will be once the mempool is mined
    mempool,        \* transactions sent and not mined, in nonce order
    network,        \* "local" or "live", and what a dry run sees: "latest" or "pending"
    pipeline,       \* "steps", or the one script that is run
    run,            \* the latest script run
    printed,        \* what the scripts have printed
    history         \* scripts started, runs ended with 0, numbers of crashes and of copies

vars == <<chain, pending, mempool, network, pipeline, run, printed, history>>
configuration == <<network, pipeline>>

Printable == {"setTokenCreator", IssuanceModule, ManageModule, "setToken", "components"}

SetIds == 1 .. Cardinality(Runs) + MaxCopies

\* at: where the run's variables point; owned: setTokenOwned.
Nowhere == [name \in Printable |-> 0]

NoRun ==
    [script |-> "none", number |-> 0, pc |-> 1, status |-> "idle", at |-> Nowhere, owned |-> 0]

Init ==
    /\ chain = InitialChain /\ pending = InitialChain
    /\ mempool = << >>
    /\ network \in {[node |-> "local", dryRun |-> "latest"]}
                    \cup [node : {"live"}, dryRun : {"latest", "pending"}]
    /\ pipeline \in {"steps", "11"} \cup (IF network.node = "local" THEN {"fixture", "unregistered"} ELSE {})
    /\ run = NoRun
    /\ printed = [name \in Printable |-> {}]
    /\ history = [started |-> {}, done |-> {}, crashes |-> 0, copies |-> 0]

Current == Program(run.script)[run.pc]

\* A script that still has instructions, the next of which is op.
At(op) ==
    /\ run.status = "running"
    /\ run.pc <= Len(Program(run.script))
    /\ Current.op = op

-----------------------------------------------------------------------------
(* The network *)

\* The state that a dry run sees.
Estimated == IF network.dryRun = "pending" THEN pending ELSE chain

Send(t) ==
    /\ pending' = Block(pending, t)
    /\ IF network.node = "local"
         THEN chain' = pending' /\ UNCHANGED mempool
         ELSE mempool' = Append(mempool, t) /\ UNCHANGED chain

\* One transaction a block: a block of several would show the scripts no state
\* and no log that a sequence of such blocks does not, as a script sends nothing
\* after a creation until it is mined.
Mine ==
    /\ mempool # << >>
    /\ chain' = Block(chain, Head(mempool))
    /\ mempool' = Tail(mempool)
    /\ UNCHANGED <<pending, configuration, run, printed, history>>

\* Empty blocks and others' Sets, alone or behind the script's own creation, that
\* the modules will refuse to initialize: created elsewhere, or for another manager.
\* Only getCreatedSetTokenAddress can tell, so they are left out elsewhere.
MineForeign ==
    /\ network.node = "live"
    /\ At("getCreated") \/ At("wait")
    /\ \E log \in {NoSet, ForeignSet} : chain' = [chain EXCEPT !.log = log]
    /\ UNCHANGED <<pending, configuration, mempool, run, printed, history>>

-----------------------------------------------------------------------------
(* One instruction of the running script *)

Continue == run' = [run EXCEPT !.pc = @ + 1]

\* The process ends, and its variables with it.
End(status) == run' = [run EXCEPT !.status = status, !.at = Nowhere, !.owned = 0]

\* main() rejects: the process prints the error and exits with 1.
Throw == End("failed")

\* The transaction of an instruction: the variables replaced by what they hold.
Transaction(i) ==
    [fn       |-> i.fn,
     run      |-> run.number,
     kind     |-> i.kind,
     stack    |-> IF i.kind \in Printable THEN run.at[i.kind] ELSE run.number,
     set      |-> run.at.setToken,
     tokens   |-> run.at.components,
     token    |-> i.token,
     quantity |-> IF i.quantity = Owned THEN run.owned ELSE i.quantity,
     modules  |-> IF i.fn = "initialize" THEN i.modules
                    ELSE {<<m, run.at[m]>> : m \in i.modules}]

SendDeploy ==
    /\ At("deploy")
    /\ Send(Transaction(Current))
    /\ Continue
    /\ UNCHANGED <<configuration, printed, history>>

DryRunPasses(i) == i.checked => Succeeds(Estimated, Transaction(i))

SendCall ==
    /\ At("call")
    /\ IF DryRunPasses(Current)
         THEN Send(Transaction(Current)) /\ Continue
         ELSE Throw /\ UNCHANGED <<chain, pending, mempool>>
    /\ UNCHANGED <<configuration, printed, history>>

\* The address is printed once the contract is there.
CompleteDeployed ==
    /\ At("deployed")
    /\ LET kind == Current.kind
           stack == IF kind \in Printable THEN run.at[kind] ELSE run.number
       IN  /\ <<kind, Current.token, stack>> \in chain.code
           /\ printed' = IF run.script = "02" /\ kind \in Printable
                           THEN [printed EXCEPT ![kind] = @ \cup {stack}] ELSE printed
    /\ Continue
    /\ UNCHANGED <<chain, pending, mempool, configuration, history>>

Sent(fn) == {i \in DOMAIN mempool : mempool[i].fn = fn /\ mempool[i].run = run.number}

\* receipt.wait() throws when the transaction was mined as failed.
CompleteWait ==
    /\ At("wait")
    /\ Sent("create") = {}
    /\ IF chain.created[run.number] # NoSet THEN Continue ELSE Throw
    /\ UNCHANGED <<chain, pending, mempool, configuration, printed, history>>

\* The hash of the transaction is not used: the last SetTokenCreated log of the
\* latest block, whoever emitted it, names the Set.  There may be none.
RetrieveSetToken ==
    /\ At("getCreated")
    /\ IF chain.log # NoSet
         THEN /\ run' = [run EXCEPT !.pc = @ + 1, !.at.setToken = chain.log]
              /\ printed' = IF run.script = "03"
                              THEN [printed EXCEPT !.setToken = @ \cup {chain.log}] ELSE printed
         ELSE Throw /\ UNCHANGED printed
    /\ UNCHANGED <<chain, pending, mempool, configuration, history>>

\* A SetToken that was deployed by hand.
AttachSetToken ==
    /\ At("attach")
    /\ run' = [run EXCEPT !.pc = @ + 1, !.at.setToken = chain.created[run.number]]
    /\ UNCHANGED <<chain, pending, mempool, configuration, printed, history>>

\* The latest block's balance, mined issuance or not.
ReadOwned ==
    /\ At("balanceOf")
    /\ run' = [run EXCEPT !.pc = @ + 1, !.owned =
                IF run.at.setToken \in DOMAIN chain.sets
                  THEN chain.sets[run.at.setToken].storage.totalSupply ELSE 0]
    /\ UNCHANGED <<chain, pending, mempool, configuration, printed, history>>

FillComponents ==
    /\ At("getBalances")
    /\ run' = [run EXCEPT !.pc = @ + 1, !.at.components = run.number]
    /\ UNCHANGED <<chain, pending, mempool, configuration, printed, history>>

\* main() resolves; script 01 prints its lists last.
Exit ==
    /\ run.status = "running"
    /\ run.pc > Len(Program(run.script))
    /\ End("done")
    /\ history' = [history EXCEPT !.done = @ \cup {[script |-> run.script, number |-> run.number,
                                                   set |-> run.at.setToken]}]
    /\ printed' = IF run.script = "01"
                    THEN [printed EXCEPT !.components = @ \cup {run.number}] ELSE printed
    /\ UNCHANGED <<chain, pending, mempool, configuration>>

Instruct ==
    \/ SendDeploy \/ SendCall \/ CompleteDeployed \/ CompleteWait
    \/ RetrieveSetToken \/ AttachSetToken \/ ReadOwned \/ FillComponents \/ Exit

-----------------------------------------------------------------------------
(* A stranger *)

\* create asks neither who calls nor whether the manager agrees: a stranger creates
\* a Set through the run's own creator, with the operator as manager and the run's
\* modules, of any of the token lists.  Nothing is queued by now: the script sends
\* nothing between its creation, which is mined, and getCreatedSetTokenAddress.  No
\* run reads a copy that is mined before its own Set or after the address is read.
MineCopy ==
    /\ network.node = "live"
    /\ At("getCreated") /\ mempool = << >>
    /\ history.copies < MaxCopies
    /\ \E list \in printed.components \cup {run.at.components} :
        LET t == [Transaction(create({IssuanceModule, ManageModule})) EXCEPT !.tokens = list]
        IN  /\ CanCreate(chain, t)
            /\ chain' = Block(chain, t) /\ pending' = Block(pending, t)
    /\ history' = [history EXCEPT !.copies = @ + 1]
    /\ UNCHANGED <<configuration, mempool, run, printed>>

-----------------------------------------------------------------------------
(* The operator *)

Crash ==
    /\ run.status = "running"
    /\ history.crashes < MaxCrashes
    /\ End("crashed")
    /\ history' = [history EXCEPT !.crashes = @ + 1]
    /\ UNCHANGED <<chain, pending, mempool, configuration, printed>>

\* What a script reads from .env and from the lists pasted into it.
Inputs(script) ==
    CASE script = "03" -> {"setTokenCreator", IssuanceModule, ManageModule, "components"}
      [] script = "04" -> {IssuanceModule, "setToken", "components"}
      [] script = "05" -> {IssuanceModule, "setToken"}
      [] OTHER         -> {}

\* The operator has pasted, one by one, values that any earlier runs printed.
Pasted(script) ==
    LET value(name) == IF name \in Inputs(script) THEN printed[name] ELSE {0}
    IN  {[setTokenCreator       |-> creator,
          basicIssuanceModule   |-> issuance,
          componentManageModule |-> manage,
          setToken              |-> set,
          components            |-> components] :
            creator \in value("setTokenCreator"), issuance \in value(IssuanceModule),
            manage \in value(ManageModule), set \in value("setToken"),
            components \in value("components")}

\* The other scripts point at what they deploy themselves.
OwnContracts(script, n) ==
    [name \in Printable |->
        IF name = "setToken" \/ (script = "11" /\ name = "components") THEN 0 ELSE n]

\* The scripts are numbered in the order of their first runs.
Before(script) ==
    CASE script = "02" -> {"01"}
      [] script = "03" -> {"01", "02"}
      [] script = "04" -> {"01", "02", "03"}
      [] script = "05" -> {"01", "02", "03", "04"}
      [] OTHER         -> {}

StartScript(script) ==
    /\ run.status # "running"
    /\ script \in history.started => run.number < Cardinality(history.started) + MaxReruns
    /\ pipeline = "steps" => script \in Steps /\ Before(script) \subseteq history.started
    /\ pipeline # "steps" => script = pipeline /\ run.number = 0
    /\ \E at \in IF Inputs(script) = {} THEN {OwnContracts(script, run.number + 1)} ELSE Pasted(script) :
        run' = [script |-> script, number |-> run.number + 1, pc |-> 1, status |-> "running",
                at |-> at, owned |-> 0]
    /\ history' = [history EXCEPT !.started = @ \cup {script}]
    /\ UNCHANGED <<chain, pending, mempool, configuration, printed>>

Operate ==
    \/ \E script \in Steps \cup {"11", "fixture", "unregistered"} : StartScript(script)
    \/ Crash

-----------------------------------------------------------------------------
Next == Instruct \/ Operate \/ Mine \/ MineForeign \/ MineCopy

\* A process goes on until it exits, and the network takes what is queued.  The
\* operator of a single script starts it; nobody has to go on to the next step.
Fairness ==
    /\ WF_vars(Instruct)
    /\ WF_vars(Mine)
    /\ WF_vars(pipeline # "steps" /\ StartScript(pipeline))

Spec == Init /\ [][Next]_vars /\ Fairness

-----------------------------------------------------------------------------
(* Properties *)

TypeOK ==
    /\ run.status \in {"idle", "running", "done", "failed", "crashed"}
    /\ run.script # "none" => run.pc \in 1 .. Len(Program(run.script)) + 1
    /\ \A i \in DOMAIN mempool : mempool[i].run \in Runs
    /\ Len(chain.sets) \in 0 .. run.number + history.copies
    /\ \A s \in DOMAIN chain.sets : chain.sets[s].storage \in Storage
    /\ \A s \in DOMAIN chain.sets : chain.sets[s].balance \in [Components -> Nat]
    /\ \A r \in Runs : chain.wallet[r] \in [Components -> Nat]

\* getCreatedSetTokenAddress reads the latest block, not the transaction it is
\* given.  Even so a script that exits with 0 has used the last Set created for it:
\* not one of an earlier run whose creation was still queued, and not one that its
\* Controller or its modules do not know.  Not necessarily its own: a stranger's
\* Set for the same manager and modules passes every check (MineCopy).
UsesSetOfItsRun ==
    \A d \in history.done : d.script \in {"03", "11", "fixture"} =>
        d.set = chain.created[d.number]

\* Addresses are pasted one at a time, from several runs of script 02.  No Set
\* mixes them: its creator, its Controller and its modules come from one run.
SetsUseOneStack ==
    \A s \in DOMAIN chain.sets :
        \A m \in chain.sets[s].pending \cup chain.sets[s].initialized : m[2] = chain.sets[s].stack

\* A transaction that reverts when it is mined fails in silence: no script looks.
\* Dry runs see to it that this happens to no call but two, in whatever order
\* runs are repeated, crash and are mined.  issue, sent without a dry run, fails
\* only when the pasted values disagree: the Set is not of the pasted module's
\* stack, or was created from another token list, or script 03 printed it and did
\* not get to initialize it; so no earlier approval or issuance is in its way.
\* redeem fails only if its dry run did not see what was queued before it.
Mismatch(t) ==
    \/ t.set = ForeignSet
    \/ chain.sets[t.set].stack # t.stack
    \/ chain.sets[t.set].tokens # t.tokens
    \/ ~ \E d \in history.done : d.script = "03" /\ d.set = t.set

SilentFailures ==
    \A t \in chain.reverted :
        \/ t.fn = "issue" /\ Mismatch(t)
        \/ t.fn = "redeem" /\ network.node = "live" /\ network.dryRun = "latest"

\* The Sets on the chain are index tokens as their launch promises them.
Edited(s) ==
    \/ chain.sets[s].storage.virtualUnit # _units
    \/ chain.sets[s].storage.components # [i \in Components |-> i]

Stage(s) ==
    IF s \notin DOMAIN chain.sets \/ (\A r \in Runs : s \notin chain.controllers[r].sets) THEN "absent"
    ELSE IF Edited(s) THEN "edited"
    ELSE IF \E m \in chain.sets[s].initialized : m[1] = IssuanceModule THEN "open"
    ELSE "registered"

Launch == INSTANCE IndexToken WITH
    SetTokens <- SetIds,
    Tokens    <- Components,
    Basket    <- _units,
    stage     <- [s \in SetIds |-> Stage(s)],
    supply    <- [s \in SetIds |-> IF s \in DOMAIN chain.sets
                                     THEN chain.sets[s].storage.totalSupply \div ether(1) ELSE 0],
    vault     <- [s \in SetIds |-> IF s \in DOMAIN chain.sets
                                     THEN chain.sets[s].balance ELSE [c \in Components |-> 0]]

ImplementsIndexToken == Launch!Spec

\* Exit code 0 does not mean that a script's last transactions are mined, but
\* they will be, and take effect: after script 02 the Controller is initialized,
\* after script 03 both modules of the Set are.
ModulesInitialized(s) ==
    \A kind \in {IssuanceModule, ManageModule} :
        <<kind, chain.sets[s].stack>> \in chain.sets[s].initialized

TookEffect(d) ==
    /\ d.script = "02" => chain.controllers[d.number].initialized
    /\ d.script = "03" => ModulesInitialized(d.set)

FinishedTakesEffect == []<>(\A d \in history.done : TookEffect(d))

\* On the local node the fixture ends with a Set issued, the fixture with an
\* unregistered Set and script 11 end with an error: script 11 at its
\* redemption, every time, as it has listed the second component twice by then.
StopsAt(fn) == run.status = "failed" /\ Current.fn = fn

LocalOutcome ==
    network.node = "local" /\ pipeline # "steps" =>
        <> \/ run.status = "crashed"
           \/ pipeline = "fixture" /\ run.status = "done" /\ chain.sets[1].storage.totalSupply = ether(1)
           \/ pipeline = "unregistered" /\ StopsAt("initializeModule")
           \/ pipeline = "11" /\ StopsAt("redeem") /\ chain.sets[1].storage.totalSupply = ether(1)
==============================================================================
