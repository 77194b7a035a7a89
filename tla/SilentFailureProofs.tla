------------------------- MODULE SilentFailureProofs -------------------------
(***************************************************************************)
(* The steps of the migration scripts as steps of the abstract index token *)
(* and what fails when it is mined although its dry run passed, for every  *)
(* number of components, reruns and crashes.  The second argument replays  *)
(* the mempool on the chain and charts what every script has ahead.        *)
(***************************************************************************)
EXTENDS DeploymentProofs

-----------------------------------------------------------------------------
(* What every step of the deployment does to the index tokens                *)

\* A block forgets the log of the one before.
LEMMA BlockReset ==
    ASSUME NEW ch, ChainInv(ch), NEW t, NEW n, n = Block(ch, t)
    PROVE  \E c : /\ ChainInv(c) /\ n = Execute(c, t) /\ c.sets = ch.sets
                  /\ c.controllers = ch.controllers /\ c.wallet = ch.wallet
                  /\ c.allowance = ch.allowance /\ c.reverted = ch.reverted
  <1> DEFINE c == [ch EXCEPT !.log = NoSet]
  <1>1. n = Execute(c, t) /\ NoSet \in Int /\ c = [ch EXCEPT !.log = NoSet]
    BY DEF Block, NoSet
  <1>2. c.wallet = ch.wallet /\ c.allowance = ch.allowance
    BY DEF ChainInv, ChainType
  <1> HIDE DEF c
  <1>3. /\ ChainInv(c) /\ c.sets = ch.sets /\ c.controllers = ch.controllers
        /\ c.reverted = ch.reverted
    BY <1>1, LogReset
  <1> QED BY <1>1, <1>2, <1>3

\* What fails is recorded, and nothing else.
LEMMA SuccessUnrecorded ==
    ASSUME NEW ch, ChainInv(ch), NEW t \in Tx, Succeeds(ch, t), NEW n, n = Execute(ch, t)
    PROVE  n.reverted = ch.reverted
  <1>1. n = Effect(ch, t) /\ t.fn \in Fns
    BY TxFields DEF Execute
  <1>2. ASSUME t.fn \in {"lockSetToken", "unlockSetToken", "issue", "redeem", "removeFromSetToken",
                        "addToSetToken"}
        PROVE  t.set \in DOMAIN ch.sets
    <2>1. ValidAndInitialized(ch, t)
      BY <1>2 DEF Succeeds, CanLock, CanUnlock, CanIssue, CanRedeem, CanRemoveFromSetToken,
                  CanAddToSetToken
    <2> QED BY <2>1, ValidInDomain
  <1>3. CASE t.fn = "deploy"
    <2>1. n = DeployContract(ch, t)
      BY <1>1, <1>3 DEF Effect
    <2> QED BY <2>1, DeployShown
  <1>4. CASE t.fn = "initialize"
    <2> DEFINE k == [ch.controllers EXCEPT ![t.run] =
                        [initialized |-> TRUE, hasFactory |-> TRUE,
                         modules |-> {<<m, t.run>> : m \in t.modules}, sets |-> {}]]
    <2>1. n = [ch EXCEPT !.controllers = k]
      BY <1>1, <1>4 DEF Effect, InitializeController
    <2> HIDE DEF k
    <2> QED BY <2>1, ControllersShown
  <1>5. CASE t.fn = "addModule"
    <2> DEFINE k == [ch.controllers EXCEPT ![t.run].modules = @ \cup {<<t.kind, t.run>>}]
    <2>1. n = [ch EXCEPT !.controllers = k]
      BY <1>1, <1>5 DEF Effect, AddModule
    <2> HIDE DEF k
    <2> QED BY <2>1, ControllersShown
  <1>6. CASE t.fn = "create"
    <2>1. n = Create(ch, t)
      BY <1>1, <1>6 DEF Effect
    <2> QED BY <2>1, CreateShown
  <1>7. CASE t.fn = "deploySetToken"
    <2>1. n = DeploySetToken(ch, t)
      BY <1>1, <1>7 DEF Effect
    <2> QED BY <2>1, DeploySetTokenShown
  <1>8. CASE t.fn = "initializeModule"
    <2>1. n = InitializeModule(ch, t)
      BY <1>1, <1>8 DEF Effect
    <2> QED BY <2>1, InitializeModuleShown
  <1>9. CASE t.fn \in {"lockSetToken", "unlockSetToken"}
    <2>1. n = Lock(ch, t) \/ n = Unlock(ch, t)
      BY <1>1, <1>9 DEF Effect
    <2> QED BY <2>1, LockShown
  <1>10. CASE t.fn = "approve"
    <2>1. n = Approve(ch, t)
      BY <1>1, <1>10 DEF Effect
    <2> QED BY <2>1, ApproveShown
  <1>11. CASE t.fn = "issue"
    <2>1. n = Issue(ch, t)
      BY <1>1, <1>11 DEF Effect
    <2> QED BY <1>2, <1>11, <2>1, IssueShown
  <1>12. CASE t.fn = "redeem"
    <2>1. n = Redeem(ch, t)
      BY <1>1, <1>12 DEF Effect
    <2> QED BY <1>2, <1>12, <2>1, RedeemShown
  <1>13. CASE t.fn = "removeFromSetToken"
    <2>1. n = RemoveFromSetToken(ch, t)
      BY <1>1, <1>13 DEF Effect
    <2> QED BY <1>2, <1>13, <2>1, RemoveShown
  <1>14. CASE t.fn = "addToSetToken"
    <2>1. n = AddToSetToken(ch, t)
      BY <1>1, <1>14 DEF Effect
    <2> QED BY <1>2, <1>14, <2>1, AddShown
  <1>15. CASE t.fn \in {"", "approveController"}
    BY <1>1, <1>15 DEF Effect
  <1> QED BY <1>1, <1>3, <1>4, <1>5, <1>6, <1>7, <1>8, <1>9, <1>10, <1>11, <1>12, <1>13, <1>14, <1>15
          DEF Fns

LEMMA GentleBlock ==
    ASSUME NEW ch, ChainInv(ch), Pristine(ch), NEW t \in GentleTx, NEW n, n = Block(ch, t),
           Len(ch.sets) <= Cardinality(SetIds),
           t.fn \in Creations => Len(ch.sets) < Cardinality(SetIds)
    PROVE  Pristine(n) /\ LaunchStep(ch, n)
  <1>1. PICK c : /\ ChainInv(c) /\ n = Execute(c, t) /\ c.sets = ch.sets
                 /\ c.controllers = ch.controllers
    BY BlockReset
  <1>2. Pristine(c)
    BY <1>1 DEF Pristine
  <1>3. /\ Len(c.sets) <= Cardinality(SetIds)
        /\ t.fn \in Creations => Len(c.sets) < Cardinality(SetIds)
    BY <1>1
  <1>4. Pristine(n) /\ LaunchStep(c, n)
    BY <1>1, <1>2, <1>3, GentleStep
  <1> QED BY <1>1, <1>4, ViewsOfFields

LEMMA Block11 ==
    ASSUME NEW s \in SetIds, NEW q, NEW ch, ChainInv(ch), Phase11(ch, q, s),
           NEW t \in Tx, Sent11(t, q, s), NEW n, n = Block(ch, t)
    PROVE  /\ Phase11(n, q + 1, s) /\ LaunchStep(ch, n)
           /\ n.reverted = ch.reverted \/ t.fn = "redeem"
  <1>1. PICK c : /\ ChainInv(c) /\ n = Execute(c, t) /\ c.sets = ch.sets
                 /\ c.controllers = ch.controllers /\ c.wallet = ch.wallet
                 /\ c.allowance = ch.allowance /\ c.reverted = ch.reverted
    BY BlockReset
  <1>2. Phase11(c, q, s)
    BY <1>1, PhaseOfFields
  <1>3. Phase11(n, q + 1, s) /\ LaunchStep(c, n) /\ (Succeeds(c, t) \/ t.fn = "redeem")
    BY <1>1, <1>2, Step11 DEF Follows11
  <1>4. LaunchStep(c, n) <=> LaunchStep(ch, n)
    BY <1>1, ViewsOfFields
  <1>5. Succeeds(c, t) => n.reverted = ch.reverted
    BY <1>1, SuccessUnrecorded
  <1> QED BY <1>3, <1>4, <1>5

\* The operator runs the scripts of the pipeline.
ScriptInv ==
    run.script # "none" => IF pipeline = "steps" THEN run.script \in Steps ELSE run.script = pipeline

\* No script but 11 edits a Set.
GentleInv ==
    pipeline # "11" => Pristine(chain) /\ mempool \in Seq(GentleTx)

LEMMA ScriptStep ==
    ASSUME NetworkInv, OperatorInv, ScriptInv, [Next]_vars
    PROVE  ScriptInv' /\ pipeline' = pipeline
  <1>1. CASE Starts
    <2>1. PICK script \in ScriptNames : StartScript(script)
      BY <1>1 DEF Starts
    <2>2. run'.script = script /\ pipeline' = pipeline
      BY <1>1, <2>1, Started DEF Starts, Quiet, configuration
    <2>3. IF pipeline = "steps" THEN script \in Steps ELSE script = pipeline
      BY <2>1 DEF StartScript
    <2> QED BY <2>2, <2>3 DEF ScriptInv
  <1>2. ASSUME run'.script = run.script, pipeline' = pipeline
        PROVE  ScriptInv' /\ pipeline' = pipeline
    BY <1>2 DEF ScriptInv
  <1>3. CASE Sends /\ Advanced
    BY <1>2, <1>3 DEF Sends, Advanced, configuration
  <1>4. CASE Mine \/ MineForeign \/ MineCopy
    BY <1>2, <1>4 DEF Mine, MineForeign, MineCopy, configuration
  <1>5. CASE Moves
    BY <1>2, <1>5 DEF Moves, Quiet, Advanced, configuration
  <1>6. CASE Quiet /\ run' = run
    BY <1>2, <1>6 DEF Quiet, configuration
  <1>7. CASE Ends
    BY <1>2, <1>7 DEF Ends, Quiet, configuration
  <1> QED BY <1>1, <1>3, <1>4, <1>5, <1>6, <1>7, StepCases

LEMMA GentleTransaction ==
    ASSUME OperatorInv, ScriptInv, pipeline # "11", NEW op, At(op)
    PROVE  Transaction(Current) \in GentleTx
  <1> DEFINE i == Current
             t == Transaction(i)
  <1>1. RunOK(run)
    BY DEF OperatorInv
  <1>2. /\ run.script \in ScriptNames /\ run.pc \in 1 .. Len(Program(run.script))
        /\ i = Program(run.script)[run.pc]
    BY <1>1, NextInstruction
  <1>3. run.script # "none" /\ run.script # "11"
    BY <1>2 DEF ScriptInv, ScriptNames, Steps
  <1>4. i \in Gentle
    <2>1. Program(run.script) \in Seq(Gentle)
      BY <1>2, <1>3, GentlePrograms
    <2> QED BY <1>2, <2>1, ElementOfSeq
  <1>5. t \in Tx /\ t.fn = i.fn
    BY <1>1, NextTransaction
  <1>6. t.kind = i.kind /\ (i.quantity # Owned => t.quantity = i.quantity)
    BY DEF Transaction
  <1> HIDE DEF i, t
  <1>7. ether(1) # Owned
    <2>1. Owned \notin Nat
      BY SMT DEF Owned
    <2> QED BY <2>1, EtherFacts
  <1>8. t \in GentleTx
    BY <1>4, <1>5, <1>6, <1>7 DEF Gentle, GentleTx
  <1> QED BY <1>8 DEF i, t

\* There is a number left for a Set that a transaction creates.
LEMMA SendBounded ==
    ASSUME NetworkInv, OperatorInv, CountInv, Sends
    PROVE  /\ Len(pending.sets) <= Cardinality(SetIds)
           /\ Transaction(Current).fn \in Creations => Len(pending.sets) < Cardinality(SetIds)
  <1>1. PICK op : At(op)
    BY DEF Sends
  <1>2. RunOK(run)
    BY DEF OperatorInv
  <1>3. /\ run.status = "running" /\ Transaction(Current).fn = Current.fn
        /\ Current.fn \in Creations => run.script \in Creators /\ run.pc = CreateAt(run.script)
    BY <1>1, <1>2, NextInstruction, NextTransaction
  <1>4. Transaction(Current).fn \in Creations => Uncreated
    <2>1. \A n : n = CreateAt(run.script) /\ n \in Nat => n <= CreateAt(run.script)
      BY SMT
    <2> QED BY <1>3, <2>1, NumberTypes DEF Uncreated
  <1>5. /\ Len(pending.sets) \in Nat /\ run.number \in Nat /\ history.copies \in Nat
        /\ run.number + history.copies <= Cardinality(SetIds) /\ Cardinality(SetIds) \in Nat
    BY NumberTypes, NumbersBounded, SetIdsShown
  <1>6. /\ Len(pending.sets) <= run.number + history.copies
        /\ Uncreated => Len(pending.sets) < run.number + history.copies
    BY DEF CountInv
  <1>7. /\ Len(pending.sets) <= Cardinality(SetIds)
        /\ Uncreated => Len(pending.sets) < Cardinality(SetIds)
    BY <1>5, <1>6, SMT
  <1> QED BY <1>4, <1>7

LEMMA MineBounded ==
    ASSUME NetworkInv, OperatorInv, CountInv, Mine
    PROVE  /\ Len(chain.sets) <= Cardinality(SetIds)
           /\ Head(mempool).fn \in Creations => Len(chain.sets) < Cardinality(SetIds)
  <1>1. Head(mempool) = mempool[1] /\ Len(mempool) \in Nat \ {0}
    BY MineNetwork
  <1>2. 1 \in 1 .. Len(mempool)
    BY <1>1, SMT
  <1>3. /\ Len(chain.sets) \in Nat /\ run.number \in Nat /\ history.copies \in Nat
        /\ run.number + history.copies <= Cardinality(SetIds)
        /\ Cardinality(SetIds) \in Nat /\ mempool[1].run \in Nat
    BY <1>2, NumberTypes, NumbersBounded, SetIdsShown
  <1>4. /\ Len(chain.sets) <= run.number + history.copies
        /\ mempool[1].fn \in Creations =>
                Len(chain.sets) < mempool[1].run + history.copies /\ mempool[1].run <= run.number
    BY <1>2 DEF CountInv, Creates
  <1> QED BY <1>1, <1>3, <1>4, SMT

LEMMA CopyBounded ==
    ASSUME NetworkInv, OperatorInv, CountInv, MineCopy
    PROVE  Len(chain.sets) < Cardinality(SetIds)
  <1>1. run.number \in Runs /\ history.copies < MaxCopies
    BY CopyNetwork
  <1>2. Len(chain.sets) \in Nat /\ history.copies \in Nat /\ Len(chain.sets) <= run.number + history.copies
    BY NumberTypes DEF CountInv
  <1> QED BY <1>1, <1>2, RunCounts, SMT

LEMMA GentleLaunch ==
    ASSUME NetworkInv, OperatorInv, CountInv, ScriptInv, GentleInv, [Next]_vars, pipeline # "11"
    PROVE  GentleInv' /\ LaunchStep(chain, chain')
  <1>1. /\ pipeline' = pipeline /\ Pristine(chain) /\ mempool \in Seq(GentleTx) /\ ChainInv(chain)
        /\ ChainInv(pending)
    BY ScriptStep DEF GentleInv, NetworkInv
  <1>2. ASSUME chain'.sets = chain.sets, chain'.controllers = chain.controllers, mempool' = mempool
        PROVE  GentleInv' /\ LaunchStep(chain, chain')
    <2>1. Pristine(chain')
      BY <1>1, <1>2 DEF Pristine
    <2>2. Still(chain, chain')
      BY <1>2, ViewsOfFields
    <2> QED BY <1>1, <1>2, <2>1, <2>2 DEF GentleInv, LaunchStep
  <1>3. CASE Sends
    <2> DEFINE t == Transaction(Current)
    <2>1. t \in GentleTx
      BY <1>1, <1>3, GentleTransaction DEF Sends
    <2>2. pending' = Block(pending, t)
      BY <1>3 DEF Sends, Send
    <2>3. CASE network.node = "local"
      <3>1. chain = pending /\ chain' = pending' /\ mempool' = mempool
        BY <1>3, <2>3, SendNetwork DEF NetworkInv
      <3>2. /\ Len(pending.sets) <= Cardinality(SetIds)
            /\ t.fn \in Creations => Len(pending.sets) < Cardinality(SetIds)
        BY <1>3, SendBounded
      <3> HIDE DEF t
      <3>3. Pristine(chain') /\ LaunchStep(chain, chain')
        BY <1>1, <2>1, <2>2, <3>1, <3>2, GentleBlock
      <3> QED BY <1>1, <3>1, <3>3 DEF GentleInv
    <2>4. CASE network.node # "local"
      <3>1. chain' = chain /\ mempool' = Append(mempool, t)
        BY <1>3, <2>4, SendNetwork
      <3> HIDE DEF t
      <3>2. mempool' \in Seq(GentleTx)
        BY <1>1, <2>1, <3>1, AppendProperties
      <3>3. Still(chain, chain')
        BY <3>1, ViewsOfFields
      <3> QED BY <1>1, <3>1, <3>2, <3>3 DEF GentleInv, LaunchStep
    <2> QED BY <2>3, <2>4
  <1>4. CASE Mine
    <2> DEFINE t == Head(mempool)
    <2>1. mempool # << >> /\ mempool' = Tail(mempool) /\ chain' = Block(chain, t)
      BY <1>4 DEF Mine
    <2>2. t \in GentleTx /\ Tail(mempool) \in Seq(GentleTx)
      BY <1>1, <2>1, HeadTailProperties
    <2>3. /\ Len(chain.sets) <= Cardinality(SetIds)
          /\ t.fn \in Creations => Len(chain.sets) < Cardinality(SetIds)
      BY <1>4, MineBounded
    <2> HIDE DEF t
    <2>4. Pristine(chain') /\ LaunchStep(chain, chain')
      BY <1>1, <2>1, <2>2, <2>3, GentleBlock
    <2> QED BY <1>1, <2>1, <2>2, <2>4 DEF GentleInv
  <1>5. CASE MineForeign
    <2>1. PICK log \in {NoSet, ForeignSet} : chain' = [chain EXCEPT !.log = log]
      BY <1>5 DEF MineForeign
    <2>2. log \in Int /\ mempool' = mempool
      BY <1>5 DEF MineForeign, NoSet, ForeignSet
    <2>3. chain'.sets = chain.sets /\ chain'.controllers = chain.controllers
      BY <1>1, <2>1, <2>2, LogReset
    <2> QED BY <1>2, <2>2, <2>3
  <1>6. CASE MineCopy
    <2>1. PICK t : IsCopy(t) /\ chain' = Block(chain, t)
      BY <1>6, CopyNetwork
    <2>2. t \in GentleTx
      BY <2>1 DEF IsCopy, GentleTx
    <2>3. Len(chain.sets) \in Nat /\ Cardinality(SetIds) \in Nat /\ Len(chain.sets) < Cardinality(SetIds)
      BY <1>6, CopyBounded, NumberTypes, SetIdsShown
    <2>4. Len(chain.sets) <= Cardinality(SetIds)
      BY <2>3, SMT
    <2>5. Pristine(chain') /\ LaunchStep(chain, chain')
      BY <1>1, <2>1, <2>2, <2>3, <2>4, GentleBlock
    <2>6. mempool' = mempool
      BY <1>6, CopyNetwork
    <2> QED BY <1>1, <2>5, <2>6 DEF GentleInv
  <1>7. CASE Quiet
    BY <1>2, <1>7 DEF Quiet
  <1> QED BY <1>3, <1>4, <1>5, <1>6, <1>7, NetworkCases

\* What the running script 11 holds in its variables.
Run11 ==
    pipeline = "11" /\ run.status = "running" =>
        /\ run.at["setTokenCreator"] = 1 /\ run.at[IssuanceModule] = 1 /\ run.at[ManageModule] = 1
        /\ Deployed11 < run.pc => run.at["components"] = 1
        /\ Approved11 + 1 < run.pc => run.at["setToken"] # NoSet
        /\ run.owned \in {0, ether(1)}

\* All Sets of the chain are those of its only run, and no run has printed lists.
Sets11 == pipeline = "11" => chain.created[1] = Len(chain.sets) /\ printed["components"] = {}

LEMMA Running11 ==
    ASSUME OperatorInv, ScriptInv, pipeline = "11", NEW op, At(op)
    PROVE  /\ run.script = "11" /\ run.number = 1 /\ run.status = "running" /\ RunOK(run)
           /\ run.pc \in 1 .. Len(Script11) /\ run.pc \in Nat
           /\ Current = Script11[run.pc] /\ Current.op = op /\ Current \in Any
           /\ run.pc = Deployed11 => op = "getBalances"
           /\ run.pc = Approved11 + 1 => Current = initializeModule(IssuanceModule) /\ op = "call"
           /\ op \in {"getCreated", "attach"} => run.pc + 1 <= Approved11 + 1
  <1>1. RunOK(run) /\ run.number <= 1
    BY DEF OperatorInv
  <1>2. /\ run.status = "running" /\ run.script \in ScriptNames /\ run.number \in Runs
        /\ run.pc \in 1 .. Len(Program(run.script)) /\ Current = Program(run.script)[run.pc]
        /\ Current.op = op /\ Current \in Any
    BY <1>1, NextInstruction
  <1>3. run.number = 1
    <2>1. run.number \in Nat \ {0}
      BY <1>2, RunsAssumption
    <2> QED BY <1>1, <2>1, SMT
  <1>4. run.script = "11"
    <2>1. run.script # "none"
      BY <1>2 DEF ScriptNames, Steps
    <2> QED BY <2>1 DEF ScriptInv
  <1>5. Program(run.script) = Script11
    BY <1>4 DEF Program
  <1>6. run.pc \in 1 .. Len(Script11) /\ Current = Script11[run.pc]
    BY <1>2, <1>5
  <1>7. run.pc \in Nat
    BY <1>1 DEF RunOK, RunType
  <1>8. run.pc = Deployed11 => op = "getBalances"
    <2>1. getBalances.op = "getBalances"
      BY DEF getBalances, Instruction
    <2> QED BY <1>2, <1>6, <2>1, Places11
  <1>9. /\ run.pc = Approved11 + 1 => Current = initializeModule(IssuanceModule)
        /\ op \in {"getCreated", "attach"} => run.pc = Deployed11 + 13
    <2>1. run.script \in Readers
      BY <1>4 DEF Readers
    <2>2. /\ run.pc = InitAt(run.script) => Current = initializeModule(IssuanceModule)
          /\ op \in {"getCreated", "attach"} => run.pc = ReadAt(run.script)
      BY <2>1, ReaderInstruction
    <2> QED BY <1>4, <2>2, Places11
  <1>10. op \in {"getCreated", "attach"} => run.pc + 1 <= Approved11 + 1
    BY <1>9, PhaseNumbers, SMT
  <1>11. run.pc = Approved11 + 1 => op = "call"
    BY <1>2, <1>9, InitializeModuleFields
  <1> QED BY <1>1, <1>2, <1>3, <1>4, <1>6, <1>7, <1>8, <1>9, <1>10, <1>11

\* From the first initialization on, past its dry run, the script has the last Set
\* that was created for it.
LEMMA InitializesOwn11 ==
    ASSUME NetworkInv, OperatorInv, OwnInv, ScriptInv, Run11, pipeline = "11", NEW op, At(op),
           Approved11 < run.pc, op = "call" => DryRunPasses(Current)
    PROVE  run.at["setToken"] = chain.created[1] /\ run.at["setToken"] # NoSet
  <1>1. /\ run.script = "11" /\ run.number = 1 /\ run.status = "running" /\ RunOK(run) /\ run.pc \in Nat
        /\ run.pc = Approved11 + 1 => Current = initializeModule(IssuanceModule) /\ op = "call"
    BY Running11
  <1>2. ReadAt("11") < run.pc /\ InitAt("11") = Approved11 + 1
    <2>1. ReadAt("11") = Deployed11 + 13 /\ InitAt("11") = Approved11 + 1
      BY Places11
    <2> QED BY <1>1, <2>1, PhaseNumbers, SMT
  <1>3. /\ run.at["setToken"] \in {ForeignSet, chain.created[1]}
        /\ Approved11 + 1 < run.pc => run.at["setToken"] = chain.created[1]
    BY <1>1, <1>2 DEF OwnInv, Readers
  <1>4. CASE Approved11 + 1 < run.pc
    BY <1>1, <1>3, <1>4 DEF Run11
  <1>5. CASE run.pc = Approved11 + 1
    <2> DEFINE t == Transaction(Current)
               e == Estimated
    <2>1. Current = initializeModule(IssuanceModule) /\ op = "call"
      BY <1>1, <1>5
    <2>2. t \in Tx /\ t.fn = "initializeModule" /\ t.set = run.at["setToken"]
      BY <1>1, <2>1, NextTransaction, InitializeModuleFields
    <2>3. Succeeds(e, t)
      BY <2>1, InitializeModuleFields DEF DryRunPasses
    <2>4. ChainInv(e)
      BY DEF Estimated, NetworkInv
    <2> HIDE DEF t, e
    <2>5. t.set # ForeignSet
      BY <2>2, <2>3, <2>4, InitializationPasses
    <2>6. t.set \in DOMAIN e.sets
      BY <2>2, <2>3, <2>4, TxFields DEF Succeeds, CanInitializeModule, ValidSet, ChainInv
    <2>7. DOMAIN e.sets = 1 .. Len(e.sets) /\ Len(e.sets) \in Nat
      BY <2>4, ChainFields, LenProperties
    <2>8. t.set # NoSet
      BY <2>6, <2>7, SMT DEF NoSet
    <2> QED BY <1>3, <2>2, <2>5, <2>8
  <1>6. Approved11 + 1 < run.pc \/ run.pc = Approved11 + 1
    BY <1>1, PhaseNumbers, SMT
  <1> QED BY <1>4, <1>5, <1>6

LEMMA Transaction11 ==
    ASSUME NetworkInv, OperatorInv, OwnInv, ScriptInv, Run11, pipeline = "11",
           NEW s \in SetIds, chain.created[1] \in {NoSet, s},
           NEW op \in {"call", "deploy"}, At(op), op = "call" => DryRunPasses(Current)
    PROVE  Sent11(Transaction(Current), run.pc, s)
  <1> DEFINE i == Current
             t == Transaction(i)
             q == run.pc
  <1>1. /\ run.number = 1 /\ run.status = "running" /\ q \in 1 .. Len(Script11) /\ q \in Nat
        /\ i = Script11[q] /\ i.op = op /\ i \in Any
    BY Running11
  <1>2. /\ run.at["setTokenCreator"] = 1 /\ run.at[IssuanceModule] = 1 /\ run.at[ManageModule] = 1
        /\ Deployed11 < q => run.at["components"] = 1
        /\ run.owned \in {0, ether(1)}
    BY <1>1 DEF Run11
  <1>3. Approved11 < q => run.at["setToken"] = s
    BY InitializesOwn11
  <1>4. /\ t.fn = i.fn /\ t.kind = i.kind /\ t.token = i.token /\ t.run = run.number
        /\ t.set = run.at["setToken"] /\ t.tokens = run.at["components"]
        /\ t.stack = IF i.kind \in Printable THEN run.at[i.kind] ELSE run.number
        /\ t.quantity = IF i.quantity = Owned THEN run.owned ELSE i.quantity
        /\ t.modules = IF i.fn = "initialize" THEN i.modules
                         ELSE {<<m, run.at[m]>> : m \in i.modules}
    BY DEF Transaction
  <1>5. i.kind \in Kinds /\ (i.fn # "initialize" => i.modules \subseteq {IssuanceModule, ManageModule})
    BY <1>1 DEF Any, InstructionType
  <1> HIDE DEF i, t, q
  <1>6. t.stack = 1
    <2>1. i.kind \in Printable => i.kind \in {"setTokenCreator", IssuanceModule, ManageModule}
      BY <1>5 DEF Printable, Kinds, IssuanceModule, ManageModule
    <2> QED BY <1>1, <1>2, <1>4, <2>1
  <1>7. t.modules = IF t.fn = "initialize" THEN i.modules ELSE {<<m, 1>> : m \in i.modules}
    <2>1. CASE i.fn = "initialize"
      BY <1>4, <2>1
    <2>2. CASE i.fn # "initialize"
      <3>1. \A m \in i.modules : run.at[m] = 1
        BY <1>2, <1>5, <2>2
      <3> QED BY <1>4, <2>2, <3>1
    <2> QED BY <2>1, <2>2
  <1>8. t.quantity = i.quantity \/ (i.quantity = Owned /\ t.quantity \in {0, ether(1)})
    BY <1>2, <1>4
  <1>9. Sent11(t, q, s)
    BY <1>1, <1>2, <1>3, <1>4, <1>6, <1>7, <1>8 DEF Sent11
  <1> QED BY <1>9 DEF i, t, q

\* What an instruction may change in the variables of the script.
Reading(op) ==
    /\ At(op) /\ Advanced /\ (op = "call" => DryRunPasses(Current))
    /\ op = "getBalances" => run'.at["components"] = run.number
    /\ op # "getBalances" => run'.at["components"] = run.at["components"]
    /\ op \in {"getCreated", "attach"} \/ run'.at["setToken"] = run.at["setToken"]
    /\ \/ run'.owned \in {run.owned, 0}
       \/ \E s \in DOMAIN chain.sets : run'.owned = chain.sets[s].storage.totalSupply

LEMMA InstructReads ==
    ASSUME NetworkInv, OperatorInv, Instruct
    PROVE  run'.status # "running" \/ \E op \in Ops : Reading(op)
  <1>1. RunOK(run) /\ ChainInv(chain)
    BY DEF OperatorInv, NetworkInv
  <1>2. ASSUME NEW op \in {"deploy", "call", "deployed", "wait"}, At(op), Continue,
               op = "call" => DryRunPasses(Current)
        PROVE  Reading(op)
    <2>1. run.status = "running"
      BY <1>2 DEF At
    <2>2. Advanced /\ run'.at = run.at
      BY <1>1, <1>2, <2>1, Continued
    <2>3. run'.owned = run.owned
      <3>1. run \in RunType
        BY <1>1 DEF RunOK
      <3> QED BY <1>2, <3>1 DEF Continue, RunType
    <2> QED BY <1>2, <2>2, <2>3 DEF Reading
  <1>3. ASSUME NEW status \in {"failed", "done"}, End(status), run.status = "running"
        PROVE  run'.status # "running"
    BY <1>1, <1>3, RunEnded
  <1>4. CASE SendDeploy
    BY <1>2, <1>4 DEF SendDeploy, Ops
  <1>5. CASE SendCall
    <2>1. At("call") /\ run.status = "running"
      BY <1>5 DEF SendCall, At
    <2>2. (Continue /\ DryRunPasses(Current)) \/ End("failed")
      BY <1>5 DEF SendCall, Throw
    <2> QED BY <1>2, <1>3, <2>1, <2>2 DEF Ops
  <1>6. CASE CompleteDeployed
    <2>1. At("deployed") /\ Continue
      BY <1>6 DEF CompleteDeployed
    <2> QED BY <1>2, <2>1 DEF Ops
  <1>7. CASE CompleteWait
    <2>1. At("wait") /\ run.status = "running" /\ (Continue \/ End("failed"))
      BY <1>7 DEF CompleteWait, Throw, At
    <2> QED BY <1>2, <1>3, <2>1 DEF Ops
  <1>8. ASSUME NEW op \in {"getCreated", "attach"}, At(op), NEW x \in Int,
               run' = [run EXCEPT !.pc = @ + 1, !.at.setToken = x]
        PROVE  Reading(op)
    <2>1. run.status = "running" /\ run \in RunType /\ run.at \in [Printable -> Int]
      BY <1>1, <1>8 DEF At, RunOK, RunType
    <2>2. Advanced
      BY <1>1, <1>8, <2>1, SetTokenRead
    <2>3. "components" \in Printable /\ "components" # "setToken"
      BY DEF Printable
    <2>4. run'.owned = run.owned /\ run'.at["components"] = run.at["components"]
      BY <1>8, <2>1, <2>3 DEF RunType
    <2> QED BY <1>8, <2>2, <2>4 DEF Reading
  <1>9. CASE RetrieveSetToken
    <2>1. /\ At("getCreated") /\ run.status = "running"
          /\ \/ run' = [run EXCEPT !.pc = @ + 1, !.at.setToken = chain.log]
             \/ End("failed")
      BY <1>9 DEF RetrieveSetToken, Throw, At
    <2>2. chain.log \in Int
      BY <1>1, ChainFields
    <2> QED BY <1>3, <1>8, <2>1, <2>2 DEF Ops
  <1>10. CASE AttachSetToken
    <2>1. /\ At("attach")
          /\ run' = [run EXCEPT !.pc = @ + 1, !.at.setToken = chain.created[run.number]]
      BY <1>10 DEF AttachSetToken
    <2>2. run.number \in Runs
      BY <1>1, <2>1, NextInstruction
    <2>3. chain.created[run.number] \in Int
      BY <1>1, <2>2, ChainFields
    <2> QED BY <1>8, <2>1, <2>3 DEF Ops
  <1>11. CASE ReadOwned
    <2> DEFINE x == IF run.at.setToken \in DOMAIN chain.sets
                      THEN chain.sets[run.at.setToken].storage.totalSupply ELSE 0
    <2>1. At("balanceOf") /\ run.status = "running" /\ run' = [run EXCEPT !.pc = @ + 1, !.owned = x]
      BY <1>11 DEF ReadOwned, At
    <2>2. Advanced /\ run'.at = run.at
      BY <1>1, <1>11, <2>1, OwnedRead
    <2>3. x = 0 \/ \E s \in DOMAIN chain.sets : x = chain.sets[s].storage.totalSupply
      OBVIOUS
    <2> HIDE DEF x
    <2>4. run'.owned = x
      <3>1. run \in RunType
        BY <1>1 DEF RunOK
      <3> QED BY <2>1, <3>1 DEF RunType
    <2>5. Reading("balanceOf")
      BY <2>1, <2>2, <2>3, <2>4 DEF Reading
    <2> QED BY <2>5 DEF Ops
  <1>12. CASE FillComponents
    <2>1. At("getBalances") /\ run.status = "running"
      BY <1>12 DEF FillComponents, At
    <2>2. Advanced /\ run'.at.setToken = run.at.setToken
      BY <1>1, <1>12, <2>1, ComponentsFilled
    <2>3. /\ run \in RunType /\ run.at \in [Printable -> Int] /\ "components" \in Printable
          /\ run' = [run EXCEPT !.pc = @ + 1, !.at.components = run.number]
      BY <1>1, <1>12 DEF RunOK, RunType, FillComponents, Printable
    <2>4. run'.at["components"] = run.number /\ run'.owned = run.owned
      BY <2>3 DEF RunType
    <2>5. Reading("getBalances")
      BY <2>1, <2>2, <2>4 DEF Reading
    <2> QED BY <2>5 DEF Ops
  <1>13. CASE Exit
    BY <1>3, <1>13 DEF Exit
  <1> QED BY <1>4, <1>5, <1>6, <1>7, <1>9, <1>10, <1>11, <1>12, <1>13 DEF Instruct

LEMMA Run11Started ==
    ASSUME OperatorInv, pipeline = "11", NEW script \in ScriptNames, StartScript(script)
    PROVE  Run11' /\ run.number = 0
  <1>1. /\ script = "11" /\ run.number = 0 /\ pipeline' = pipeline
        /\ \E at \in IF Inputs(script) = {} THEN {OwnContracts(script, run.number + 1)} ELSE Pasted(script) :
                run' = [script |-> script, number |-> run.number + 1, pc |-> 1, status |-> "running",
                        at |-> at, owned |-> 0]
    BY DEF StartScript, configuration
  <1>2. Inputs(script) = {} /\ run.number + 1 = 1
    BY <1>1, SMT DEF Inputs
  <1>3. run'.at = OwnContracts("11", 1) /\ run'.pc = 1 /\ run'.owned = 0
    BY <1>1, <1>2
  <1>4. /\ run'.at["setTokenCreator"] = 1 /\ run'.at[IssuanceModule] = 1 /\ run'.at[ManageModule] = 1
    BY <1>3 DEF OwnContracts, Printable, IssuanceModule, ManageModule
  <1>5. ~(Deployed11 < 1) /\ ~(Approved11 + 1 < 1)
    BY PhaseNumbers, SMT
  <1> QED BY <1>1, <1>3, <1>4, <1>5 DEF Run11

LEMMA Run11Reads ==
    ASSUME NetworkInv, OperatorInv, OwnInv, ScriptInv, Run11, pipeline = "11", pipeline' = pipeline,
           NEW s \in SetIds, NEW q \in Nat, Phase11(chain, q, s), NEW op \in Ops, Reading(op)
    PROVE  Run11'
  <1>1. /\ At(op) /\ Advanced /\ (op = "call" => DryRunPasses(Current))
        /\ op = "getBalances" => run'.at["components"] = run.number
        /\ op # "getBalances" => run'.at["components"] = run.at["components"]
        /\ op \in {"getCreated", "attach"} \/ run'.at["setToken"] = run.at["setToken"]
        /\ \/ run'.owned \in {run.owned, 0}
           \/ \E x \in DOMAIN chain.sets : run'.owned = chain.sets[x].storage.totalSupply
    BY DEF Reading
  <1>2. /\ run.number = 1 /\ run.status = "running" /\ run.pc \in Nat
        /\ run.pc = Deployed11 => op = "getBalances"
        /\ op \in {"getCreated", "attach"} => run.pc + 1 <= Approved11 + 1
    BY <1>1, Running11
  <1>3. /\ run.at["setTokenCreator"] = 1 /\ run.at[IssuanceModule] = 1 /\ run.at[ManageModule] = 1
        /\ Deployed11 < run.pc => run.at["components"] = 1
        /\ run.owned \in {0, ether(1)}
    BY <1>2 DEF Run11
  <1>4. /\ run'.pc = run.pc + 1
        /\ \A name \in Printable \ {"setToken", "components"} : run'.at[name] = run.at[name]
    BY <1>1 DEF Advanced
  <1>5. /\ run'.at["setTokenCreator"] = 1 /\ run'.at[IssuanceModule] = 1 /\ run'.at[ManageModule] = 1
    <2>1. {"setTokenCreator", IssuanceModule, ManageModule} \subseteq Printable \ {"setToken", "components"}
      BY DEF Printable, IssuanceModule, ManageModule
    <2> QED BY <1>3, <1>4, <2>1
  <1>6. Deployed11 < run'.pc => run'.at["components"] = 1
    <2>1. Deployed11 < run.pc + 1 => Deployed11 < run.pc \/ run.pc = Deployed11
      BY <1>2, PhaseNumbers, SMT
    <2> QED BY <1>1, <1>2, <1>3, <1>4, <2>1
  <1>7. Approved11 + 1 < run'.pc => run'.at["setToken"] # NoSet
    <2>1. Approved11 + 1 < run.pc + 1 => ~(run.pc + 1 <= Approved11 + 1) /\ Approved11 < run.pc
      BY <1>2, PhaseNumbers, SMT
    <2>2. Approved11 < run.pc => run.at["setToken"] # NoSet
      BY <1>1, InitializesOwn11
    <2> QED BY <1>1, <1>2, <1>4, <2>1, <2>2
  <1>8. run'.owned \in {0, ether(1)}
    <2>1. ChainInv(chain)
      BY DEF NetworkInv
    <2> QED BY <1>1, <1>3, <2>1, Supply11
  <1> QED BY <1>5, <1>6, <1>7, <1>8 DEF Run11

LEMMA Run11Step ==
    ASSUME NetworkInv, OperatorInv, OwnInv, ScriptInv, Run11, pipeline = "11", pipeline' = pipeline,
           NEW s \in SetIds, NEW q \in Nat, Phase11(chain, q, s), [Next]_vars
    PROVE  Run11'
  <1>1. CASE Instruct
    <2>1. run'.status # "running" \/ \E op \in Ops : Reading(op)
      BY <1>1, InstructReads
    <2>2. CASE run'.status # "running"
      BY <2>2 DEF Run11
    <2> QED BY <2>1, <2>2, Run11Reads
  <1>2. ASSUME NEW script \in Steps \cup {"11", "fixture", "unregistered"}, StartScript(script)
        PROVE  Run11'
    BY <1>2, Run11Started DEF ScriptNames
  <1>3. CASE Crash
    <2>1. run'.status # "running"
      <3>1. RunOK(run) /\ run.status = "running" /\ End("crashed")
        BY <1>3 DEF OperatorInv, Crash
      <3>2. run'.status = "crashed"
        BY <3>1, RunEnded
      <3> QED BY <3>2
    <2> QED BY <2>1 DEF Run11
  <1>4. CASE Mine \/ MineForeign \/ MineCopy \/ UNCHANGED vars
    <2>1. run' = run
      BY <1>4 DEF Mine, MineForeign, MineCopy, vars
    <2> QED BY <2>1 DEF Run11
  <1> QED BY <1>1, <1>2, <1>3, <1>4 DEF Next, Operate

\* What one instruction leaves, another finds.
Reaches(a, b, s) == \A ch : Phase11(ch, a, s) => Phase11(ch, b, s)

\* Each queued transaction is that of an instruction, and once it is mined the
\* chain is what that of the next one needs; the last leaves what the running
\* script needs.  w holds the instructions' places, that of the script last.
Queued(w, ch, queue, r, s) ==
    /\ Phase11(ch, w[1], s)
    /\ \A j \in 1 .. Len(queue) : Sent11(queue[j], w[j], s) /\ Reaches(w[j] + 1, w[j + 1], s)
    /\ r.status = "running" => w[Len(queue) + 1] = r.pc
    /\ r.number = 0 => queue = << >> /\ w[1] = 1

QueueInv ==
    pipeline = "11" => \E s \in SetIds : \E w \in [Nat -> Nat] : Queued(w, chain, mempool, run, s)

LEMMA QueueSends ==
    ASSUME NetworkInv, OperatorInv, OwnInv, ScriptInv, Run11, Sets11, pipeline = "11",
           NEW s \in SetIds, NEW w \in [Nat -> Nat], Queued(w, chain, mempool, run, s), Sends, Advanced
    PROVE  /\ \E v \in [Nat -> Nat] : Queued(v, chain', mempool', run', s)
           /\ LaunchStep(chain, chain')
           /\ chain'.reverted = chain.reverted \/ Transaction(Current).fn = "redeem"
  <1> DEFINE t == Transaction(Current)
             L == Len(mempool)
             pc == run.pc
  <1>1. /\ w \in [Nat -> Nat] /\ Phase11(chain, w[1], s)
        /\ \A j \in 1 .. L : Sent11(mempool[j], w[j], s) /\ Reaches(w[j] + 1, w[j + 1], s)
        /\ run.status = "running" => w[L + 1] = pc
        /\ L \in Nat /\ mempool \in Seq(Tx) /\ ChainInv(chain)
    BY NumberTypes DEF Queued, NetworkInv
  <1>2. PICK op \in {"call", "deploy"} : At(op) /\ (op = "call" => DryRunPasses(Current))
    BY DEF Sends
  <1>3. Sent11(t, pc, s)
    <2>1. w[1] \in Nat
      BY <1>1, SMT
    <2>2. chain.created[1] \in {NoSet, s}
      BY <1>1, <2>1, Supply11 DEF Sets11, NoSet
    <2> QED BY <1>2, <2>2, Transaction11
  <1>4. run.status = "running" /\ run.number = 1 /\ pc \in Nat
    BY <1>2, Running11
  <1>5. t \in Tx /\ pending' = Block(pending, t)
    BY SendNetwork DEF Sends, Send
  <1>6. run'.pc = pc + 1 /\ run'.number = 1
    BY <1>4 DEF Advanced
  <1> HIDE DEF t, L, pc
  <1>7. w[L + 1] = pc /\ pc + 1 \in Nat /\ L + 2 \in Nat /\ L + 1 \in Nat /\ 0 # 1 /\ L + 2 # L + 1
        /\ L + 1 + 1 = L + 2 /\ 0 + 1 = 1 /\ 1 \in Nat
    BY <1>1, <1>4, SMT
  <1>8. CASE network.node = "local"
    <2> DEFINE v == [w EXCEPT ![1] = pc + 1]
    <2>1. mempool = << >> /\ chain = pending /\ mempool' = mempool /\ chain' = pending'
      BY <1>8, SendNetwork DEF NetworkInv
    <2>2. L = 0
      BY <2>1, EmptySeq DEF L
    <2>3. w[1] = pc
      BY <1>7, <2>2
    <2>4. chain' = Block(chain, t)
      BY <1>5, <2>1
    <2>5. /\ Phase11(chain', pc + 1, s) /\ LaunchStep(chain, chain')
          /\ chain'.reverted = chain.reverted \/ t.fn = "redeem"
      BY <1>1, <1>3, <1>5, <2>3, <2>4, Block11
    <2>6. Phase11(chain', pc + 1, s) /\ LaunchStep(chain, chain')
      BY <2>5
    <2>7. v \in [Nat -> Nat] /\ v[1] = pc + 1
      BY <1>1, <1>7
    <2> HIDE DEF v
    <2>8. \A j \in 1 .. 0 : FALSE
      BY SMT
    <2>9. Len(mempool') = 0 /\ v[Len(mempool') + 1] = pc + 1
      BY <1>7, <2>1, <2>2, <2>7 DEF L
    <2>10. Queued(v, chain', mempool', run', s)
      BY <1>6, <1>7, <2>6, <2>7, <2>8, <2>9 DEF Queued
    <2> QED BY <2>5, <2>7, <2>10 DEF t
  <1>9. CASE network.node # "local"
    <2> DEFINE v == [w EXCEPT ![L + 2] = pc + 1]
    <2>1. chain' = chain /\ mempool' = Append(mempool, t)
      BY <1>9, SendNetwork DEF t
    <2>2. /\ Len(mempool') = L + 1 /\ mempool'[L + 1] = t
          /\ \A j \in 1 .. L : mempool'[j] = mempool[j]
      BY <1>1, <1>5, <2>1, AppendProperties DEF L
    <2>3. /\ v \in [Nat -> Nat] /\ v[L + 2] = pc + 1
          /\ \A j \in Nat : j # L + 2 => v[j] = w[j]
      BY <1>1, <1>7
    <2> HIDE DEF v
    <2>4. 1 # L + 2 /\ \A j \in 1 .. L : j \in Nat /\ j + 1 \in Nat /\ j # L + 2 /\ j + 1 # L + 2
      BY <1>1, SMT
    <2>5. v[1] = w[1] /\ v[L + 1] = pc /\ \A j \in 1 .. L : v[j] = w[j] /\ v[j + 1] = w[j + 1]
      BY <1>7, <2>3, <2>4
    <2>6. \A j \in 1 .. L : Sent11(mempool'[j], v[j], s) /\ Reaches(v[j] + 1, v[j + 1], s)
      BY <1>1, <2>2, <2>5
    <2>7. Sent11(mempool'[L + 1], v[L + 1], s) /\ Reaches(v[L + 1] + 1, v[L + 1 + 1], s)
      BY <1>3, <1>7, <2>2, <2>3, <2>5 DEF Reaches
    <2>8. \A j \in 1 .. L + 1 : j \in 1 .. L \/ j = L + 1
      BY <1>1, SMT
    <2>9. \A j \in 1 .. Len(mempool') : Sent11(mempool'[j], v[j], s) /\ Reaches(v[j] + 1, v[j + 1], s)
      BY <2>2, <2>6, <2>7, <2>8
    <2>10. Phase11(chain', v[1], s) /\ v[Len(mempool') + 1] = pc + 1
      BY <1>1, <1>7, <2>1, <2>2, <2>3, <2>5
    <2>11. Queued(v, chain', mempool', run', s)
      BY <1>6, <1>7, <2>3, <2>9, <2>10 DEF Queued
    <2>12. LaunchStep(chain, chain')
      BY <2>1, ViewsOfFields DEF LaunchStep
    <2> QED BY <2>1, <2>3, <2>11, <2>12
  <1> QED BY <1>8, <1>9

LEMMA QueueMines ==
    ASSUME NetworkInv, NEW s \in SetIds, NEW w \in [Nat -> Nat], Queued(w, chain, mempool, run, s), Mine
    PROVE  /\ \E v \in [Nat -> Nat] : Queued(v, chain', mempool', run', s)
           /\ LaunchStep(chain, chain')
           /\ chain'.reverted = chain.reverted \/ Head(mempool).fn = "redeem"
  <1> DEFINE L == Len(mempool)
             t == Head(mempool)
             v == [k \in Nat |-> w[k + 1]]
  <1>1. /\ w \in [Nat -> Nat] /\ Phase11(chain, w[1], s)
        /\ \A j \in 1 .. L : Sent11(mempool[j], w[j], s) /\ Reaches(w[j] + 1, w[j + 1], s)
        /\ run.status = "running" => w[L + 1] = run.pc
        /\ run.number = 0 => mempool = << >>
        /\ ChainInv(chain)
    BY DEF Queued, NetworkInv
  <1>2. /\ t \in Tx /\ mempool # << >> /\ L \in Nat \ {0}
        /\ Len(mempool') = L - 1 /\ t = mempool[1]
        /\ \A j \in 1 .. Len(mempool') : mempool'[j] = mempool[j + 1]
        /\ run' = run
    BY MineNetwork
  <1>3. chain' = Block(chain, t)
    BY DEF Mine
  <1> HIDE DEF L, t
  <1>4. /\ 1 \in 1 .. L /\ 1 + 1 = 2 /\ L - 1 + 1 = L /\ L \in Nat /\ 1 \in Nat
        /\ \A j \in 1 .. L - 1 : j \in Nat /\ j + 1 \in Nat /\ j + 1 \in 1 .. L
    BY <1>2, SMT
  <1>5. /\ Phase11(chain', w[1] + 1, s) /\ LaunchStep(chain, chain')
        /\ chain'.reverted = chain.reverted \/ t.fn = "redeem"
    <2>1. w[1] \in Nat /\ Sent11(t, w[1], s)
      BY <1>1, <1>2, <1>4
    <2>2. ChainInv(chain) /\ Phase11(chain, w[1], s) /\ t \in Tx
      BY <1>1, <1>2
    <2> QED BY <1>3, <2>1, <2>2, Block11
  <1>6. Phase11(chain', w[1] + 1, s) /\ LaunchStep(chain, chain')
    BY <1>5
  <1>7. Phase11(chain', w[2], s)
    BY <1>1, <1>4, <1>6 DEF Reaches
  <1>8. v \in [Nat -> Nat] /\ \A k \in Nat : v[k] = w[k + 1]
    <2>1. \A k \in Nat : k + 1 \in Nat
      BY SMT
    <2> QED BY <1>1, <2>1
  <1> HIDE DEF v
  <1>9. \A j \in 1 .. Len(mempool') : Sent11(mempool'[j], v[j], s) /\ Reaches(v[j] + 1, v[j + 1], s)
    BY <1>1, <1>2, <1>4, <1>8
  <1>10. run'.status = "running" => v[Len(mempool') + 1] = run'.pc
    BY <1>1, <1>2, <1>4, <1>8 DEF L
  <1>11. run'.number # 0
    BY <1>1, <1>2
  <1>12. Phase11(chain', v[1], s)
    BY <1>4, <1>7, <1>8
  <1>13. Queued(v, chain', mempool', run', s)
    BY <1>8, <1>9, <1>10, <1>11, <1>12 DEF Queued
  <1> QED BY <1>5, <1>8, <1>13 DEF t

\* The script has not read the address: it will use the copy.
LEMMA QueueCopies ==
    ASSUME NetworkInv, OperatorInv, CountInv, ScriptInv, Run11, Sets11, pipeline = "11",
           NEW s \in SetIds, NEW w \in [Nat -> Nat], Queued(w, chain, mempool, run, s), MineCopy
    PROVE  /\ \E z \in SetIds : Queued(w, chain', mempool', run', z)
           /\ LaunchStep(chain, chain') /\ chain'.reverted = chain.reverted
  <1>1. /\ At("getCreated") /\ mempool = << >> /\ mempool' = mempool /\ run' = run
        /\ run.status = "running" /\ run.pc = ReadAt(run.script)
    BY CopyNetwork
  <1>2. PICK t : IsCopy(t) /\ chain' = Block(chain, t)
    BY CopyNetwork
  <1>3. run.script = "11" /\ run.number = 1
    BY <1>1, Running11
  <1>4. run.pc = Deployed11 + 13 /\ Deployed11 < run.pc /\ Len(mempool) = 0 /\ 0 + 1 = 1
        /\ \A j \in 1 .. 0 : FALSE
    <2>1. run.pc = Deployed11 + 13
      BY <1>1, <1>3, Places11, Zenon
    <2>2. Deployed11 < Deployed11 + 13
      BY PhaseNumbers, SMT
    <2>3. Len(mempool) = 0
      BY <1>1
    <2>4. 0 + 1 = 1 /\ \A j \in 1 .. 0 : FALSE
      BY SMT
    <2> QED BY <2>1, <2>2, <2>3, <2>4
  <1>5. w[1] = run.pc /\ Phase11(chain, run.pc, s) /\ ChainInv(chain)
    BY <1>1, <1>4 DEF Queued, NetworkInv
  <1>6. /\ t \in Tx /\ t.fn = "create" /\ t.stack = 1 /\ t.tokens = 1
        /\ t.modules = {<<IssuanceModule, 1>>, <<ManageModule, 1>>} /\ CanCreate(chain, t)
    <2>1. /\ run.at["setTokenCreator"] = 1 /\ run.at[IssuanceModule] = 1 /\ run.at[ManageModule] = 1
          /\ run.at["components"] = 1 /\ printed["components"] = {}
      BY <1>1, <1>4 DEF Run11, Sets11
    <2>2. t.modules = {<<m, run.at[m]>> : m \in {IssuanceModule, ManageModule}}
      BY <1>2 DEF IsCopy
    <2>3. t.modules = {<<IssuanceModule, 1>>, <<ManageModule, 1>>}
      BY <2>1, <2>2
    <2> QED BY <1>2, <2>1, <2>3 DEF IsCopy
  <1>7. PICK c : /\ ChainInv(c) /\ chain' = Execute(c, t) /\ c.sets = chain.sets
                 /\ c.controllers = chain.controllers /\ c.wallet = chain.wallet
                 /\ c.allowance = chain.allowance /\ c.reverted = chain.reverted
    BY <1>2, <1>5, BlockReset
  <1>8. Phase11(c, run.pc, s)
    BY <1>5, <1>7, PhaseOfFields
  <1>9. Succeeds(c, t)
    BY <1>6, <1>7 DEF Succeeds, CanCreate
  <1>10. s + 1 \in SetIds
    <2>1. Len(chain.sets) = s
      <3>1. run.pc \in Nat /\ Deployed11 + 12 <= run.pc /\ run.pc <= Approved11
        BY <1>4, PhaseNumbers, SMT
      <3>2. DOMAIN chain.sets = 1 .. s /\ s \in Nat
        BY <1>5, <3>1, Waiting11, SetIdsShown DEF New11, Registered11
      <3>3. Len(chain.sets) \in Nat /\ DOMAIN chain.sets = 1 .. Len(chain.sets)
        BY <1>5, ChainFields, LenProperties
      <3> QED BY <3>2, <3>3, SMT
    <2>2. Len(chain.sets) < Cardinality(SetIds)
      BY CopyBounded
    <2> QED BY <2>1, <2>2, SetIdsShown, SMT
  <1>11. Phase11(chain', run.pc, s + 1) /\ LaunchStep(c, chain')
    BY <1>4, <1>6, <1>7, <1>8, <1>9, <1>10, Copy11
  <1>12. LaunchStep(chain, chain')
    BY <1>7, <1>11, ViewsOfFields
  <1>13. chain'.reverted = chain.reverted
    BY <1>6, <1>7, <1>9, SuccessUnrecorded
  <1>14. Queued(w, chain', mempool', run', s + 1)
    <2>1. run'.number # 0 /\ Len(mempool') = 0 /\ w[Len(mempool') + 1] = run'.pc
      BY <1>1, <1>3, <1>4, <1>5
    <2> QED BY <1>4, <1>5, <1>11, <2>1 DEF Queued
  <1> QED BY <1>10, <1>12, <1>13, <1>14

LEMMA QueueMoves ==
    ASSUME NetworkInv, OperatorInv, ScriptInv, pipeline = "11",
           NEW s \in SetIds, NEW w \in [Nat -> Nat], Queued(w, chain, mempool, run, s), Moves
    PROVE  \E v \in [Nat -> Nat] : Queued(v, chain', mempool', run', s)
  <1> DEFINE L == Len(mempool)
             pc == run.pc
             v == [w EXCEPT ![L + 1] = pc + 1]
  <1>1. /\ w \in [Nat -> Nat] /\ Phase11(chain, w[1], s)
        /\ \A j \in 1 .. L : Sent11(mempool[j], w[j], s) /\ Reaches(w[j] + 1, w[j + 1], s)
        /\ run.status = "running" => w[L + 1] = pc
        /\ L \in Nat
    BY NumberTypes DEF Queued
  <1>2. PICK op \in {"wait", "getCreated", "attach", "deployed", "balanceOf", "getBalances"} : At(op)
    BY DEF Moves
  <1>3. /\ run.status = "running" /\ run.number = 1 /\ pc \in 1 .. Len(Script11) /\ pc \in Nat
        /\ Script11[pc].op \notin {"call", "deploy"}
    BY <1>2, Running11
  <1>4. /\ chain' = chain /\ mempool' = mempool /\ run'.pc = pc + 1 /\ run'.number = 1
    BY <1>3 DEF Moves, Quiet, Advanced
  <1>5. Reaches(pc, pc + 1, s)
    BY <1>3, Quiet11 DEF Reaches
  <1> HIDE DEF L, pc
  <1>6. w[L + 1] = pc /\ pc + 1 \in Nat /\ L + 1 \in Nat /\ 0 # 1
    BY <1>1, <1>3, SMT
  <1>7. v \in [Nat -> Nat] /\ v[L + 1] = pc + 1 /\ \A j \in Nat : j # L + 1 => v[j] = w[j]
    BY <1>1, <1>6
  <1> HIDE DEF v
  <1>8. Phase11(chain, v[1], s)
    <2>1. 1 \in Nat
      BY SMT
    <2>2. CASE 1 = L + 1
      BY <1>1, <1>5, <1>6, <1>7, <2>2 DEF Reaches
    <2>3. CASE 1 # L + 1
      BY <1>1, <1>7, <2>1, <2>3
    <2> QED BY <2>2, <2>3
  <1>9. ASSUME NEW j \in 1 .. L
        PROVE  Sent11(mempool[j], v[j], s) /\ Reaches(v[j] + 1, v[j + 1], s)
    <2>1. j \in Nat /\ j # L + 1 /\ j + 1 \in Nat
      BY <1>1, SMT
    <2>2. v[j] = w[j] /\ Sent11(mempool[j], w[j], s) /\ Reaches(w[j] + 1, w[j + 1], s)
      BY <1>1, <1>7, <2>1
    <2>3. CASE j + 1 = L + 1
      BY <1>5, <1>6, <1>7, <2>2, <2>3 DEF Reaches
    <2>4. CASE j + 1 # L + 1
      BY <1>7, <2>1, <2>2, <2>4
    <2> QED BY <2>2, <2>3, <2>4
  <1>10. /\ \A j \in 1 .. Len(mempool') : Sent11(mempool'[j], v[j], s) /\ Reaches(v[j] + 1, v[j + 1], s)
         /\ v[Len(mempool') + 1] = pc + 1
    BY <1>4, <1>7, <1>9 DEF L
  <1>11. Queued(v, chain', mempool', run', s)
    BY <1>4, <1>6, <1>7, <1>8, <1>10 DEF Queued
  <1> QED BY <1>7, <1>11

\* The lists and addresses that other scripts print are not printed here.
LEMMA Unprinted11 ==
    ASSUME OperatorInv, ScriptInv, pipeline = "11", [Next]_vars
    PROVE  printed' = printed
  <1>1. \A op : At(op) => run.script = "11"
    BY Running11
  <1>2. run.status = "running" => run.script \notin {"01", "02", "03"}
    BY DEF OperatorInv, ScriptInv, RunOK
  <1>3. CASE CompleteDeployed \/ RetrieveSetToken \/ Exit
    BY <1>1, <1>2, <1>3 DEF CompleteDeployed, RetrieveSetToken, Exit
  <1>4. CASE \/ SendDeploy \/ SendCall \/ CompleteWait \/ AttachSetToken \/ ReadOwned
             \/ FillComponents \/ Crash \/ Mine \/ MineForeign \/ MineCopy \/ UNCHANGED vars
    BY <1>4 DEF SendDeploy, SendCall, CompleteWait, AttachSetToken, ReadOwned, FillComponents,
                Crash, Mine, MineForeign, MineCopy, vars
  <1>5. ASSUME NEW script, StartScript(script)
        PROVE  printed' = printed
    BY <1>5 DEF StartScript
  <1> QED BY <1>3, <1>4, <1>5 DEF Next, Instruct, Operate

LEMMA SetsStep11 ==
    ASSUME NetworkInv, OperatorInv, ScriptInv, Sets11, pipeline = "11", [Next]_vars,
           \A j \in 1 .. Len(mempool) : mempool[j].run = 1
    PROVE  Sets11'
  <1>1. /\ chain.created[1] = Len(chain.sets) /\ printed["components"] = {} /\ ChainInv(chain)
        /\ printed' = printed
    BY Unprinted11 DEF Sets11, NetworkInv
  <1>2. SUFFICES chain'.created[1] = Len(chain'.sets)
    BY <1>1 DEF Sets11
  <1>3. ASSUME NEW t, t.run = 1, Mined(chain, t, chain')
        PROVE  chain'.created[1] = Len(chain'.sets)
    <2>1. chain.created \in [Runs -> Int] /\ 1 \in Runs
      BY <1>1, ChainFields, RunCounts, SMT
    <2> QED BY <1>1, <1>3, <2>1 DEF Mined
  <1>4. CASE Sends
    <2>1. run.number = 1 /\ Transaction(Current).run = run.number
      BY <1>4, Running11, NextTransaction DEF Sends, OperatorInv
    <2>2. CASE network.node = "local"
      BY <1>3, <1>4, <2>1, <2>2, SendNetwork DEF NetworkInv
    <2>3. CASE network.node # "local"
      BY <1>1, <1>4, <2>3, SendNetwork
    <2> QED BY <2>2, <2>3
  <1>5. CASE Mine
    <2>1. Mined(chain, Head(mempool), chain') /\ Len(mempool) \in Nat \ {0} /\ Head(mempool) = mempool[1]
      BY <1>5, MineNetwork
    <2>2. Head(mempool).run = 1
      BY <2>1, SMT
    <2> QED BY <1>3, <2>1, <2>2
  <1>6. CASE MineForeign
    BY <1>1, <1>6, ForeignNetwork
  <1>7. CASE MineCopy
    <2>1. PICK t : IsCopy(t) /\ Mined(chain, t, chain')
      BY <1>7, CopyNetwork
    <2>2. run.number = 1
      BY <1>7, CopyNetwork, Running11
    <2> QED BY <1>3, <2>1, <2>2 DEF IsCopy
  <1>8. CASE Quiet
    BY <1>1, <1>8 DEF Quiet
  <1> QED BY <1>4, <1>5, <1>6, <1>7, <1>8, NetworkCases

LEMMA QueueLaunch ==
    ASSUME NetworkInv, OperatorInv, CountInv, OwnInv, ScriptInv, Run11, Sets11, QueueInv, [Next]_vars,
           pipeline = "11"
    PROVE  Run11' /\ Sets11' /\ QueueInv' /\ LaunchStep(chain, chain')
  <1>1. pipeline' = pipeline
    BY ScriptStep
  <1>2. PICK s \in SetIds : \E w \in [Nat -> Nat] : Queued(w, chain, mempool, run, s)
    BY DEF QueueInv
  <1>3. PICK w \in [Nat -> Nat] : Queued(w, chain, mempool, run, s)
    BY <1>2
  <1>4. /\ Phase11(chain, w[1], s)
        /\ \A j \in 1 .. Len(mempool) : Sent11(mempool[j], w[j], s) /\ Reaches(w[j] + 1, w[j + 1], s)
        /\ run.status = "running" => w[Len(mempool) + 1] = run.pc
        /\ run.number = 0 => mempool = << >> /\ w[1] = 1
    BY <1>3 DEF Queued
  <1>5. Run11'
    <2>1. 1 \in Nat
      BY SMT
    <2>2. w[1] \in Nat
      BY <1>3, <2>1
    <2> QED BY <1>1, <1>4, <2>2, Run11Step
  <1>6. Sets11'
    BY <1>4, SetsStep11 DEF Sent11
  <1>7. SUFFICES /\ \E z \in SetIds : \E v \in [Nat -> Nat] : Queued(v, chain', mempool', run', z)
                 /\ LaunchStep(chain, chain')
    BY <1>5, <1>6 DEF QueueInv
  <1>8. ASSUME chain' = chain
        PROVE  LaunchStep(chain, chain')
    BY <1>8, ViewsOfFields DEF LaunchStep
  <1>9. CASE Sends /\ Advanced
    BY <1>3, <1>9, QueueSends
  <1>10. CASE Mine
    BY <1>3, <1>10, QueueMines
  <1>11. CASE MineForeign
    <2>1. PICK log \in {NoSet, ForeignSet} : chain' = [chain EXCEPT !.log = log]
      BY <1>11 DEF MineForeign
    <2>2. log \in Int /\ mempool' = mempool /\ run' = run
      BY <1>11 DEF MineForeign, NoSet, ForeignSet
    <2>3. ChainInv(chain)
      BY DEF NetworkInv
    <2>4. chain'.sets = chain.sets /\ chain'.controllers = chain.controllers
      BY <2>1, <2>2, <2>3, LogReset
    <2>5. chain'.wallet = chain.wallet /\ chain'.allowance = chain.allowance
      BY <2>1, <2>3 DEF ChainInv, ChainType
    <2>6. Phase11(chain', w[1], s)
      BY <1>4, <2>4, <2>5, PhaseOfFields
    <2>7. Queued(w, chain', mempool', run', s)
      BY <1>4, <2>2, <2>6 DEF Queued
    <2>8. LaunchStep(chain, chain')
      BY <2>4, ViewsOfFields DEF LaunchStep
    <2> QED BY <1>3, <2>7, <2>8
  <1>12. CASE Moves
    <2>1. \E v \in [Nat -> Nat] : Queued(v, chain', mempool', run', s)
      BY <1>3, <1>12, QueueMoves
    <2> QED BY <1>8, <1>12, <2>1 DEF Moves, Quiet
  <1>13. CASE Ends
    <2>1. /\ chain' = chain /\ mempool' = mempool /\ run'.status # "running"
          /\ run'.number = run.number
      BY <1>13 DEF Ends, Quiet
    <2>2. Queued(w, chain', mempool', run', s)
      BY <1>4, <2>1 DEF Queued
    <2> QED BY <1>3, <1>8, <2>1, <2>2
  <1>14. CASE Starts
    <2>1. PICK script \in ScriptNames : StartScript(script)
      BY <1>14 DEF Starts
    <2>2. /\ chain' = chain /\ mempool' = mempool /\ run.number = 0
          /\ run'.pc = 1 /\ run'.number = run.number + 1
      BY <1>14, <2>1, Started, Run11Started DEF Starts, Quiet
    <2>3. mempool = << >> /\ w[1] = 1 /\ Len(mempool) = 0
      BY <1>4, <2>2, EmptySeq
    <2>4. run'.number # 0 /\ 0 + 1 = 1
      BY <2>2, SMT
    <2>5. Queued(w, chain', mempool', run', s)
      BY <1>4, <2>2, <2>3, <2>4 DEF Queued
    <2> QED BY <1>3, <1>8, <2>2, <2>5
  <1>15. CASE Quiet /\ run' = run
    <2>1. chain' = chain /\ mempool' = mempool /\ run' = run
      BY <1>15 DEF Quiet
    <2> QED BY <1>3, <1>8, <2>1
  <1>16. CASE MineCopy
    BY <1>3, <1>16, QueueCopies
  <1> QED BY <1>9, <1>10, <1>11, <1>12, <1>13, <1>14, <1>15, <1>16, StepCases

LaunchInv == DeploymentInv /\ ScriptInv /\ GentleInv /\ Run11 /\ Sets11 /\ QueueInv

LEMMA LaunchInit ==
    ASSUME Init
    PROVE  LaunchInv
  <1>1. chain = InitialChain /\ mempool = << >> /\ run = NoRun
    BY DEF Init
  <1>2. run.script = "none" /\ run.status = "idle" /\ run.number = 0
    BY <1>1 DEF NoRun
  <1>3. Len(mempool) = 0 /\ mempool \in Seq(GentleTx) /\ \A j \in 1 .. 0 : FALSE
    BY <1>1, EmptySeq, SMT
  <1>4. /\ chain.sets = << >> /\ chain.controllers = [r \in Runs |-> FreshController]
    BY <1>1 DEF InitialChain
  <1>5. Pristine(chain)
    BY <1>4 DEF Pristine
  <1>6. Phase11(chain, 1, 1)
    <2>1. 1 \in Runs
      BY RunCounts, SMT
    <2>2. Controller11(chain.controllers[1], 1)
      <3>1. 1 <= Deployed11 + 9 /\ ~(1 >= Deployed11 + 10) /\ 1 # Deployed11 + 10 /\ 1 # Deployed11 + 11
        BY PhaseNumbers, SMT
      <3> QED BY <1>4, <2>1, <3>1 DEF Controller11, FreshController
    <2>3. Funded11(chain.wallet, chain.allowance, 1)
      <3>1. \A c \in Components : ~(2 * c - 1 < 1) /\ ~(Deployed11 + 13 + c < 1)
        BY PhaseNumbers, SMT
      <3> QED BY <3>1 DEF Funded11
    <2>4. 1 \in Nat /\ 1 <= Deployed11 + 11
      BY PhaseNumbers, SMT
    <2> QED BY <1>4, <2>2, <2>3, <2>4, Founding11, SetIdsShown
  <1>7. QueueInv
    <2> DEFINE w == [k \in Nat |-> 1]
    <2>1. w \in [Nat -> Nat] /\ w[1] = 1
      BY SMT
    <2> HIDE DEF w
    <2>2. Queued(w, chain, mempool, run, 1)
      BY <1>1, <1>2, <1>3, <1>6, <2>1 DEF Queued
    <2> QED BY <2>1, <2>2, SetIdsShown DEF QueueInv
  <1>8. Sets11
    <2>1. 1 \in Runs /\ "components" \in Printable
      BY RunCounts, SMT DEF Printable
    <2>2. chain.created = [r \in Runs |-> NoSet] /\ printed = [name \in Printable |-> {}]
      BY <1>1 DEF InitialChain, Init
    <2> QED BY <1>4, <2>1, <2>2, EmptySeq DEF Sets11, NoSet
  <1> QED BY <1>2, <1>3, <1>5, <1>7, <1>8, DeploymentInit DEF LaunchInv, ScriptInv, GentleInv, Run11

LEMMA LaunchInvStep ==
    ASSUME LaunchInv, [Next]_vars
    PROVE  LaunchInv' /\ LaunchStep(chain, chain')
  <1>1. /\ DeploymentInv /\ NetworkInv /\ OperatorInv /\ CountInv /\ ScriptInv /\ GentleInv
        /\ Run11 /\ Sets11 /\ QueueInv /\ OwnInv
    BY DEF LaunchInv, DeploymentInv
  <1>2. DeploymentInv' /\ ScriptInv' /\ pipeline' = pipeline
    BY <1>1, DeploymentStep, ScriptStep
  <1>3. CASE pipeline # "11"
    <2>1. GentleInv' /\ LaunchStep(chain, chain')
      BY <1>1, <1>3, GentleLaunch
    <2>2. Run11' /\ Sets11' /\ QueueInv'
      BY <1>2, <1>3 DEF Run11, Sets11, QueueInv
    <2> QED BY <1>2, <2>1, <2>2 DEF LaunchInv
  <1>4. CASE pipeline = "11"
    <2>1. Run11' /\ Sets11' /\ QueueInv' /\ LaunchStep(chain, chain')
      BY <1>1, <1>4, QueueLaunch
    <2>2. GentleInv'
      BY <1>2, <1>4 DEF GentleInv
    <2> QED BY <1>2, <2>1, <2>2 DEF LaunchInv
  <1> QED BY <1>3, <1>4

\* The Sets as IndexToken sees them.
LaunchViews ==
    /\ [s \in SetIds |-> Stage(s)] = [s \in SetIds |-> StageIn(chain, s)]
    /\ [s \in SetIds |-> IF s \in DOMAIN chain.sets
                           THEN chain.sets[s].storage.totalSupply \div ether(1) ELSE 0]
        = [s \in SetIds |-> SupplyIn(chain, s)]
    /\ [s \in SetIds |-> IF s \in DOMAIN chain.sets
                           THEN chain.sets[s].balance ELSE [c \in Components |-> 0]]
        = [s \in SetIds |-> VaultIn(chain, s)]

LEMMA LaunchViewed ==
    LaunchViews
  <1>1. ASSUME NEW s \in SetIds
        PROVE  Stage(s) = StageIn(chain, s)
    BY DEF Stage, StageIn, Known, StageOf, Handled, Opened, Edited
  <1>2. \A s \in SetIds :
            /\ (IF s \in DOMAIN chain.sets
                  THEN chain.sets[s].storage.totalSupply \div ether(1) ELSE 0) = SupplyIn(chain, s)
            /\ (IF s \in DOMAIN chain.sets
                  THEN chain.sets[s].balance ELSE [c \in Components |-> 0]) = VaultIn(chain, s)
    BY DEF SupplyIn, SupplyOf, VaultIn
  <1> QED BY <1>1, <1>2 DEF LaunchViews

\* Whatever the operator runs and whatever crashes, reverts, repeats or waits in
\* the queue, each Set on the chain goes through the life that IndexToken states:
\* registered, then opened; one basket of components in or out for each token
\* issued or redeemed; and, once its components are edited, no redemption.
THEOREM DeploymentImplementsIndexToken ==
    Spec => ImplementsIndexToken
  <1> DEFINE st == [s \in SetIds |-> StageIn(chain, s)]
             su == [s \in SetIds |-> SupplyIn(chain, s)]
             va == [s \in SetIds |-> VaultIn(chain, s)]
  <1>1. /\ [s \in SetIds |-> Stage(s)] = st
        /\ [s \in SetIds |-> IF s \in DOMAIN chain.sets
                               THEN chain.sets[s].storage.totalSupply \div ether(1) ELSE 0] = su
        /\ [s \in SetIds |-> IF s \in DOMAIN chain.sets
                               THEN chain.sets[s].balance ELSE [c \in Components |-> 0]] = va
    BY LaunchViewed DEF LaunchViews
  <1>2. Init => Launch!Init
    <2> SUFFICES ASSUME Init PROVE Launch!Init
      OBVIOUS
    <2>1. chain.sets = << >>
      BY DEF Init, InitialChain
    <2>2. DOMAIN chain.sets = {}
      BY <2>1
    <2>3. /\ st = [s \in SetIds |-> "absent"] /\ su = [s \in SetIds |-> 0]
          /\ va = [s \in SetIds |-> [c \in Components |-> 0]]
      BY <2>2 DEF StageIn, SupplyIn, VaultIn, Known
    <2> HIDE DEF st, su, va
    <2> QED BY <1>1, <2>3 DEF Launch!Init
  <1>3. /\ [s \in SetIds |-> Stage(s)]' = st'
        /\ [s \in SetIds |-> IF s \in DOMAIN chain.sets
                               THEN chain.sets[s].storage.totalSupply \div ether(1) ELSE 0]' = su'
        /\ [s \in SetIds |-> IF s \in DOMAIN chain.sets
                               THEN chain.sets[s].balance ELSE [c \in Components |-> 0]]' = va'
    <2>1. LaunchViews'
      <3>1. LaunchViews
        BY LaunchViewed
      <3> QED BY <3>1, PTL
    <2> QED BY <2>1 DEF LaunchViews
  <1>4. LaunchInv /\ [Next]_vars => [Launch!Next]_(Launch!tokenVars)
    <2> SUFFICES ASSUME LaunchInv, [Next]_vars PROVE [Launch!Next]_(Launch!tokenVars)
      OBVIOUS
    <2>1. LaunchStep(chain, chain')
      BY LaunchInvStep
    <2>2. CASE Still(chain, chain')
      <3>1. st' = st /\ su' = su /\ va' = va
        BY <2>2 DEF Still, SameToken
      <3> HIDE DEF st, su, va
      <3>2. Launch!tokenVars' = Launch!tokenVars
        BY <1>1, <1>3, <3>1 DEF Launch!tokenVars
      <3> QED BY <3>2
    <2>3. ASSUME NEW s \in SetIds, TokenMove(chain, chain', s),
                 \A x \in SetIds \ {s} : SameToken(chain, chain', x)
          PROVE  Launch!Next
      <3>1. /\ st[s] = StageIn(chain, s) /\ su[s] = SupplyIn(chain, s) /\ va[s] = VaultIn(chain, s)
            /\ st'[s] = StageIn(chain', s) /\ su'[s] = SupplyIn(chain', s)
            /\ va'[s] = VaultIn(chain', s)
        OBVIOUS
      <3>2. /\ st' = [st EXCEPT ![s] = st'[s]] /\ su' = [su EXCEPT ![s] = su'[s]]
            /\ va' = [va EXCEPT ![s] = va'[s]]
        BY <2>3 DEF SameToken
      <3>3. /\ su'[s] = su[s] => su' = su
            /\ va'[s] = va[s] => va' = va
            /\ st'[s] = st[s] => st' = st
        BY <2>3 DEF SameToken
      <3> HIDE DEF st, su, va
      <3>4. \/ st[s] = "absent" /\ st' = [st EXCEPT ![s] = "registered"] /\ su' = su /\ va' = va
            \/ st[s] = "registered" /\ st' = [st EXCEPT ![s] = "open"] /\ su' = su /\ va' = va
            \/ /\ st[s] = "open" /\ st' = st /\ su' = [su EXCEPT ![s] = su[s] + 1]
               /\ va' = [va EXCEPT ![s] = [c \in Components |-> va[s][c] + _units[c]]]
            \/ /\ st[s] = "open" /\ su[s] > 0 /\ st' = st /\ su' = [su EXCEPT ![s] = su[s] - 1]
               /\ va' = [va EXCEPT ![s] = [c \in Components |-> va[s][c] - _units[c]]]
            \/ /\ st[s] \in {"open", "edited"} /\ st' = [st EXCEPT ![s] = "edited"]
               /\ va' = [va EXCEPT ![s] = va'[s]] /\ su' = su
        BY <2>3, <3>1, <3>2, <3>3 DEF TokenMove
      <3>5. CASE st[s] = "absent" /\ st' = [st EXCEPT ![s] = "registered"] /\ su' = su /\ va' = va
        <4>1. Launch!Register(s)
          BY <1>1, <1>3, <3>5 DEF Launch!Register, Launch!Advance
        <4> QED BY <4>1 DEF Launch!Next
      <3>6. CASE st[s] = "registered" /\ st' = [st EXCEPT ![s] = "open"] /\ su' = su /\ va' = va
        <4>1. Launch!Open(s)
          BY <1>1, <1>3, <3>6 DEF Launch!Open, Launch!Advance
        <4> QED BY <4>1 DEF Launch!Next
      <3>7. CASE /\ st[s] = "open" /\ st' = st /\ su' = [su EXCEPT ![s] = su[s] + 1]
                 /\ va' = [va EXCEPT ![s] = [c \in Components |-> va[s][c] + _units[c]]]
        <4>1. Launch!Issue(s)
          BY <1>1, <1>3, <3>7 DEF Launch!Issue
        <4> QED BY <4>1 DEF Launch!Next
      <3>8. CASE /\ st[s] = "open" /\ su[s] > 0 /\ st' = st /\ su' = [su EXCEPT ![s] = su[s] - 1]
                 /\ va' = [va EXCEPT ![s] = [c \in Components |-> va[s][c] - _units[c]]]
        <4>1. Launch!Redeem(s)
          BY <1>1, <1>3, <3>8 DEF Launch!Redeem
        <4> QED BY <4>1 DEF Launch!Next
      <3>9. CASE /\ st[s] \in {"open", "edited"} /\ st' = [st EXCEPT ![s] = "edited"]
                 /\ va' = [va EXCEPT ![s] = va'[s]] /\ su' = su
        <4>1. Launch!Edit(s)
          BY <1>1, <1>3, <3>9 DEF Launch!Edit
        <4> QED BY <4>1 DEF Launch!Next
      <3> QED BY <3>4, <3>5, <3>6, <3>7, <3>8, <3>9
    <2> QED BY <2>1, <2>2, <2>3 DEF LaunchStep
  <1> QED BY <1>2, <1>4, LaunchInit, LaunchInvStep, PTL DEF Spec, ImplementsIndexToken, Launch!Spec

-----------------------------------------------------------------------------
(* What no call takes away                                                   *)

\* The chain, the log of the latest block aside.
Unlogged(ch) == [ch EXCEPT !.log = NoSet]

SameBooks(a, b) ==
    /\ b.controllers = a.controllers /\ b.sets = a.sets /\ b.created = a.created
    /\ b.wallet = a.wallet /\ b.allowance = a.allowance /\ b.reverted = a.reverted

LEMMA UnloggedFields ==
    ASSUME NEW ch, ChainInv(ch), NEW c, c = Unlogged(ch)
    PROVE  ChainInv(c) /\ SameBooks(ch, c) /\ c.log = NoSet /\ Unlogged(c) = c
  <1>1. c = [ch EXCEPT !.log = NoSet] /\ NoSet \in Int
    BY DEF Unlogged, NoSet
  <1>2. ChainInv(c) /\ c.log = NoSet
    BY <1>1, LogReset
  <1>3. SameBooks(ch, c)
    BY <1>1 DEF ChainInv, ChainType, SameBooks
  <1>4. [c EXCEPT !.log = NoSet] = c
    BY <1>1 DEF ChainInv, ChainType
  <1> QED BY <1>2, <1>3, <1>4 DEF Unlogged

\* A block forgets the log before it executes.
LEMMA UnloggedBlock ==
    ASSUME NEW ch, ChainInv(ch), NEW t
    PROVE  /\ Block(ch, t) = Execute(Unlogged(ch), t)
           /\ Block(Unlogged(ch), t) = Block(ch, t)
  <1> DEFINE c == Unlogged(ch)
  <1>1. Unlogged(c) = c
    BY UnloggedFields
  <1> HIDE DEF c
  <1>2. Block(c, t) = Execute(Unlogged(c), t)
    BY DEF Block, Unlogged
  <1>3. Block(ch, t) = Execute(c, t)
    BY DEF Block, Unlogged, c
  <1> QED BY <1>1, <1>2, <1>3 DEF c

LEMMA SucceedsOfFields ==
    ASSUME NEW a, NEW b, SameBooks(a, b), NEW t
    PROVE  Succeeds(b, t) <=> Succeeds(a, t)
  <1>1. /\ b.controllers = a.controllers /\ b.sets = a.sets
        /\ b.wallet = a.wallet /\ b.allowance = a.allowance
    BY DEF SameBooks
  <1>2. Storage_(b, t) = Storage_(a, t)
    BY <1>1 DEF Storage_
  <1>3. \A c : Taken(b, t, c) = Taken(a, t, c) /\ Paid(b, t, c) = Paid(a, t, c)
    BY <1>2 DEF Taken, Paid, Listings
  <1>4. \A c, q : Spendable(b, t, c, q) <=> Spendable(a, t, c, q)
    BY <1>1 DEF Spendable
  <1>5. ValidSet(b, t) <=> ValidSet(a, t)
    BY <1>1 DEF ValidSet
  <1>6. ValidAndInitialized(b, t) <=> ValidAndInitialized(a, t)
    BY <1>1, <1>5 DEF ValidAndInitialized
  <1>7. /\ CanInitializeController(b, t) <=> CanInitializeController(a, t)
        /\ CanAddModule(b, t) <=> CanAddModule(a, t)
        /\ CanCreate(b, t) <=> CanCreate(a, t)
    BY <1>1 DEF CanInitializeController, CanAddModule, CanCreate
  <1>8. /\ CanInitializeModule(b, t) <=> CanInitializeModule(a, t)
        /\ CanLock(b, t) <=> CanLock(a, t)
        /\ CanUnlock(b, t) <=> CanUnlock(a, t)
    BY <1>1, <1>5, <1>6 DEF CanInitializeModule, CanLock, CanUnlock
  <1>9. CanIssue(b, t) <=> CanIssue(a, t)
    BY <1>1, <1>3, <1>4, <1>6 DEF CanIssue
  <1>10. CanRedeem(b, t) <=> CanRedeem(a, t)
    BY <1>1, <1>2, <1>3, <1>6 DEF CanRedeem
  <1>11. CanRemoveFromSetToken(b, t) <=> CanRemoveFromSetToken(a, t)
    BY <1>1, <1>2, <1>6 DEF CanRemoveFromSetToken
  <1>12. CanAddToSetToken(b, t) <=> CanAddToSetToken(a, t)
    BY <1>2, <1>4, <1>6 DEF CanAddToSetToken
  <1> QED BY <1>7, <1>8, <1>9, <1>10, <1>11, <1>12 DEF Succeeds

\* No lock, and nothing of what makes a call possible, but the modules that a Set
\* waits for, goes away.
Unlocked(ch) == \A s \in DOMAIN ch.sets : ~ch.sets[s].isLocked

Later(T, S) == S.stack = T.stack /\ S.tokens = T.tokens /\ T.initialized \subseteq S.initialized

Extended(C, D) ==
    /\ C.sets \subseteq D.sets
    /\ C.initialized => /\ D.initialized /\ C.modules \subseteq D.modules
                        /\ C.hasFactory => D.hasFactory

Onward(a, b) ==
    /\ \A r \in Runs : Extended(a.controllers[r], b.controllers[r])
    /\ \A s \in DOMAIN a.sets : s \in DOMAIN b.sets /\ Later(a.sets[s], b.sets[s])

LEMMA OnwardOrder ==
    /\ \A a : Onward(a, a)
    /\ \A a, b, c : Onward(a, b) /\ Onward(b, c) => Onward(a, c)
    /\ \A a, b, c : Onward(a, b) /\ SameBooks(b, c) => Onward(a, c)
    /\ \A a, b, c : Onward(a, b) /\ SameBooks(a, c) => Onward(c, b)
  <1>1. \A C : Extended(C, C) /\ Later(C, C)
    BY DEF Extended, Later
  <1>2. \A C, D, E : Extended(C, D) /\ Extended(D, E) => Extended(C, E)
    BY DEF Extended
  <1>3. \A C, D, E : Later(C, D) /\ Later(D, E) => Later(C, E)
    BY DEF Later
  <1>4. \A a : Onward(a, a)
    BY <1>1 DEF Onward
  <1>5. \A a, b, c : Onward(a, b) /\ Onward(b, c) => Onward(a, c)
    <2> TAKE a, b, c
    <2> HAVE Onward(a, b) /\ Onward(b, c)
    <2>2. \A r \in Runs : Extended(a.controllers[r], c.controllers[r])
      BY <1>2 DEF Onward
    <2>3. \A s \in DOMAIN a.sets : s \in DOMAIN c.sets /\ Later(a.sets[s], c.sets[s])
      BY <1>3 DEF Onward
    <2> QED BY <2>2, <2>3 DEF Onward
  <1>6. \A a, b, c : Onward(a, b) /\ SameBooks(b, c) => Onward(a, c)
    BY DEF Onward, SameBooks
  <1>7. \A a, b, c : Onward(a, b) /\ SameBooks(a, c) => Onward(c, b)
    BY DEF Onward, SameBooks
  <1> QED BY <1>4, <1>5, <1>6, <1>7

\* The calls of scripts 01 to 05.
Plainest == {"deploy", "initialize", "create", "initializeModule", "approve", "issue", "redeem",
             "approveController"}

LEMMA OneSetOnward ==
    ASSUME NEW ch, ChainInv(ch), NEW s \in DOMAIN ch.sets, NEW S, NEW n,
           n.sets = [ch.sets EXCEPT ![s] = S], n.controllers = ch.controllers,
           Later(ch.sets[s], S), S.isLocked = ch.sets[s].isLocked
    PROVE  Onward(ch, n) /\ (Unlocked(ch) => Unlocked(n))
  <1>1. DOMAIN n.sets = DOMAIN ch.sets
    OBVIOUS
  <1>2. \A x \in DOMAIN ch.sets : n.sets[x] = IF x = s THEN S ELSE ch.sets[x]
    OBVIOUS
  <1>3. \A x \in DOMAIN ch.sets : Later(ch.sets[x], n.sets[x])
    BY <1>2 DEF Later
  <1>4. \A r \in Runs : Extended(ch.controllers[r], n.controllers[r])
    BY DEF Extended
  <1>5. Onward(ch, n)
    BY <1>1, <1>3, <1>4 DEF Onward
  <1>6. Unlocked(ch) => Unlocked(n)
    BY <1>1, <1>2 DEF Unlocked
  <1> QED BY <1>5, <1>6

LEMMA BooksOnward ==
    ASSUME NEW ch, NEW n, n.sets = ch.sets,
           \A r \in Runs : Extended(ch.controllers[r], n.controllers[r])
    PROVE  Onward(ch, n) /\ (Unlocked(ch) => Unlocked(n))
  BY DEF Onward, Unlocked, Later

\* What each of them does, apart from moving tokens.
LEMMA ExecuteOnward ==
    ASSUME NEW ch, ChainInv(ch), NEW t \in Tx, t.fn \in Plainest, NEW n, n = Execute(ch, t)
    PROVE  /\ Onward(ch, n) /\ (Unlocked(ch) => Unlocked(n))
           /\ \A r \in Runs : n.controllers[r].initialized =>
                ch.controllers[r].initialized \/ (t.fn = "initialize" /\ r = t.run)
  <1> DEFINE Founds == \A r \in Runs : n.controllers[r].initialized =>
                            ch.controllers[r].initialized \/ (t.fn = "initialize" /\ r = t.run)
             Goal == Onward(ch, n) /\ (Unlocked(ch) => Unlocked(n)) /\ Founds
  <1>0. \A C : Extended(C, C)
    BY DEF Extended
  <1>1. ASSUME n.controllers = ch.controllers
        PROVE  Founds /\ \A r \in Runs : Extended(ch.controllers[r], n.controllers[r])
    BY <1>0, <1>1
  <1>2. CASE ~Succeeds(ch, t)
    <2>1. n = [ch EXCEPT !.reverted = @ \cup {t}]
      BY <1>2 DEF Execute
    <2>2. n.sets = ch.sets /\ n.controllers = ch.controllers
      BY <2>1, RevertRecorded
    <2> QED BY <1>1, <2>2, BooksOnward
  <1> SUFFICES ASSUME Succeeds(ch, t) PROVE Goal
    BY <1>2
  <1>3. n = Effect(ch, t)
    BY DEF Execute
  <1>4. ASSUME t.fn \in {"issue", "redeem"}
        PROVE  t.set \in DOMAIN ch.sets /\ ch.sets[t.set] \in Sound
    <2>1. ValidAndInitialized(ch, t)
      BY <1>4 DEF Succeeds, CanIssue, CanRedeem
    <2> QED BY <2>1, ValidInDomain, ChainFields, LenProperties
  <1>5. CASE t.fn \in {"deploy", "approve", "approveController"}
    <2>1. n = DeployContract(ch, t) \/ n = Approve(ch, t) \/ n = ch
      BY <1>3, <1>5 DEF Effect
    <2>2. n.sets = ch.sets /\ n.controllers = ch.controllers
      <3>1. CASE n = DeployContract(ch, t)
        <4> DEFINE w == IF t.kind = "token" THEN [ch.wallet EXCEPT ![t.run][t.token] = INITIAL_BALANCE]
                                            ELSE ch.wallet
        <4>1. Shows(n, ch.controllers, ch.sets, w, ch.allowance)
          BY <3>1, DeployShown
        <4> HIDE DEF w
        <4> QED BY <4>1 DEF Shows
      <3>2. CASE n = Approve(ch, t)
        <4> DEFINE a == [ch.allowance EXCEPT ![Module(t)][t.tokens][t.token] = t.quantity]
        <4>1. Shows(n, ch.controllers, ch.sets, ch.wallet, a)
          BY <3>2, ApproveShown
        <4> HIDE DEF a
        <4> QED BY <4>1 DEF Shows
      <3> QED BY <2>1, <3>1, <3>2
    <2> QED BY <1>1, <2>2, BooksOnward
  <1>6. CASE t.fn = "initialize"
    <2> DEFINE K == [initialized |-> TRUE, hasFactory |-> TRUE,
                     modules |-> {<<m, t.run>> : m \in t.modules}, sets |-> {}]
               k == [ch.controllers EXCEPT ![t.run] = K]
    <2>1. n = [ch EXCEPT !.controllers = k]
      BY <1>3, <1>6 DEF Effect, InitializeController
    <2>2. ~ch.controllers[t.run].initialized
      BY <1>6 DEF Succeeds, CanInitializeController
    <2>3. t.run \in Runs /\ ch.controllers \in [Runs -> ControllerType]
      BY TxFields, ChainFields
    <2>4. ch.controllers[t.run].sets = {}
      BY <2>2, <2>3 DEF ChainInv
    <2>5. Extended(ch.controllers[t.run], K)
      BY <2>2, <2>4 DEF Extended
    <2> HIDE DEF K
    <2>6. \A r \in Runs : k[r] = IF r = t.run THEN K ELSE ch.controllers[r]
      BY <2>3
    <2> HIDE DEF k
    <2>7. n.controllers = k /\ n.sets = ch.sets
      BY <2>1, ControllersShown DEF Shows
    <2>8. \A r \in Runs : Extended(ch.controllers[r], n.controllers[r])
      BY <1>0, <2>5, <2>6, <2>7
    <2>9. Founds
      BY <1>6, <2>6, <2>7
    <2> QED BY <2>7, <2>8, <2>9, BooksOnward
  <1>7. CASE t.fn = "create"
    <2> DEFINE k == Register(ch.controllers, t.stack, Len(ch.sets) + 1)
               T == NewSetToken(t)
    <2>1. n = Create(ch, t)
      BY <1>3, <1>7 DEF Effect
    <2>2. n.controllers = k /\ n.sets = Append(ch.sets, T)
      BY <2>1, CreateShown DEF Shows
    <2>3. ch.sets \in Seq(Sound) /\ ch.controllers \in [Runs -> ControllerType]
      BY ChainFields
    <2>4. \A r \in Runs : Extended(ch.controllers[r], k[r]) /\ k[r].initialized = ch.controllers[r].initialized
      BY <2>3 DEF Register, Extended, ControllerType
    <2>5. T.isLocked = FALSE
      BY NewSetTokenShown
    <2> HIDE DEF k, T
    <2>6. /\ DOMAIN n.sets = 1 .. Len(ch.sets) + 1 /\ DOMAIN ch.sets = 1 .. Len(ch.sets)
          /\ Len(ch.sets) \in Nat
          /\ \A s \in DOMAIN ch.sets : n.sets[s] = ch.sets[s]
          /\ n.sets[Len(ch.sets) + 1] = T
      BY <2>2, <2>3, SMT
    <2>7. \A s \in DOMAIN n.sets : s \in DOMAIN ch.sets \/ s = Len(ch.sets) + 1
      BY <2>6, SMT
    <2>8. \A s \in DOMAIN ch.sets : s \in DOMAIN n.sets /\ Later(ch.sets[s], n.sets[s])
      BY <2>6, SMT DEF Later
    <2>9. Onward(ch, n) /\ Founds
      BY <2>2, <2>4, <2>8 DEF Onward
    <2>10. Unlocked(ch) => Unlocked(n)
      BY <2>5, <2>6, <2>7 DEF Unlocked
    <2> QED BY <2>9, <2>10
  <1>8. CASE t.fn = "initializeModule"
    <2> DEFINE S == Initialized(ch.sets[t.set], Module(t))
    <2>1. n = InitializeModule(ch, t)
      BY <1>3, <1>8 DEF Effect
    <2>2. ValidSet(ch, t)
      BY <1>8 DEF Succeeds, CanInitializeModule
    <2>3. t.set \in DOMAIN ch.sets /\ ch.sets[t.set] \in Sound
      <3>1. t.set \in DOMAIN ch.sets
        BY <2>2, TxFields DEF ValidSet, ChainInv
      <3> QED BY <3>1, ChainFields, LenProperties
    <2>4. n.sets = [ch.sets EXCEPT ![t.set] = S] /\ n.controllers = ch.controllers
      BY <2>1, InitializeModuleShown DEF Shows
    <2>5. Later(ch.sets[t.set], S) /\ S.isLocked = ch.sets[t.set].isLocked
      BY <2>3, ModuleMoved DEF Later
    <2> HIDE DEF S
    <2> QED BY <1>1, <2>3, <2>4, <2>5, OneSetOnward
  <1>9. CASE t.fn \in {"issue", "redeem"}
    <2> DEFINE I == TokensIn(ch.sets[t.set], TakenAll(ch, t), Mint(ch.sets[t.set].storage, t.quantity))
               R == TokensOut(ch.sets[t.set], PaidAll(ch, t), Burn(ch.sets[t.set].storage, t.quantity))
    <2>1. n = Issue(ch, t) \/ n = Redeem(ch, t)
      BY <1>3, <1>9 DEF Effect
    <2>2. t.set \in DOMAIN ch.sets /\ ch.sets[t.set] \in Sound
      BY <1>4, <1>9
    <2>3. \A S \in {I, R} : Later(ch.sets[t.set], S) /\ S.isLocked = ch.sets[t.set].isLocked
      BY <2>2, TokensMoved DEF Later, Replaced
    <2>4. /\ n.controllers = ch.controllers
          /\ \/ n.sets = [ch.sets EXCEPT ![t.set] = I]
             \/ n.sets = [ch.sets EXCEPT ![t.set] = R]
      BY <2>1, <2>2, IssueShown, RedeemShown DEF Shows
    <2> HIDE DEF I, R
    <2>5. PICK S \in {I, R} : n.sets = [ch.sets EXCEPT ![t.set] = S]
      BY <2>4
    <2>6. Onward(ch, n) /\ (Unlocked(ch) => Unlocked(n))
      BY <2>2, <2>3, <2>4, <2>5, OneSetOnward
    <2> QED BY <1>1, <2>4, <2>6
  <1> QED BY <1>5, <1>6, <1>7, <1>8, <1>9 DEF Plainest

\* What is left of component c of run g's tokens, k issuances after their minting.
Backed(ch, g, c, k) == INITIAL_BALANCE <= ch.wallet[g][c] + k * ether(c)

LEMMA BackedLonger ==
    ASSUME NEW ch, ChainInv(ch), NEW g \in Runs, NEW c \in Components, NEW j \in Nat, NEW k \in Nat,
           j <= k, Backed(ch, g, c, j)
    PROVE  Backed(ch, g, c, k)
  <1>1. ch.wallet[g][c] \in Nat /\ INITIAL_BALANCE \in Nat /\ c \in Nat
    BY ChainFields, EnoughMinted
  <1>2. ether(c) \in Nat
    BY <1>1, EtherFacts
  <1> DEFINE e == ether(c)
             x == ch.wallet[g][c]
  <1>3. e \in Nat /\ x \in Nat /\ INITIAL_BALANCE \in Nat /\ INITIAL_BALANCE <= x + j * e
    BY <1>1, <1>2 DEF Backed
  <1> HIDE DEF e, x
  <1>4. j * e <= k * e
    <2>1. k = j + (k - j) /\ k - j \in Nat
      BY SMT
    <2>2. k * e = j * e + (k - j) * e
      BY <1>3, <2>1, SMT
    <2>3. (k - j) * e \in Nat /\ j * e \in Nat
      BY <1>3, <2>1, SMT
    <2> QED BY <2>2, <2>3, SMT
  <1>5. INITIAL_BALANCE <= x + k * e
    <2>1. j * e \in Int /\ k * e \in Int
      BY <1>3, SMT
    <2> QED BY <1>3, <1>4, <2>1, SMT
  <1> QED BY <1>5 DEF Backed, e, x

LEMMA BackedOfWallet ==
    ASSUME NEW ch, ChainInv(ch), NEW n, ChainInv(n), NEW g \in Runs, NEW c \in Components,
           NEW k \in Nat, Backed(ch, g, c, k)
    PROVE  /\ ch.wallet[g][c] <= n.wallet[g][c] => Backed(n, g, c, k)
           /\ n.wallet[g][c] = ch.wallet[g][c] - ether(c) => Backed(n, g, c, k + 1)
           /\ n.wallet[g][c] = INITIAL_BALANCE => Backed(n, g, c, k)
  <1>1. /\ ch.wallet[g][c] \in Nat /\ n.wallet[g][c] \in Nat /\ INITIAL_BALANCE \in Nat /\ c \in Nat
    BY ChainFields, EnoughMinted
  <1>2. ether(c) \in Nat
    BY <1>1, EtherFacts
  <1> DEFINE e == ether(c)
             x == ch.wallet[g][c]
             y == n.wallet[g][c]
  <1>3. e \in Nat /\ x \in Nat /\ y \in Nat /\ INITIAL_BALANCE <= x + k * e
    BY <1>1, <1>2 DEF Backed
  <1> HIDE DEF e, x, y
  <1>4. k * e \in Nat /\ (k + 1) * e = k * e + e
    BY <1>3, SMT
  <1>5. /\ x <= y => INITIAL_BALANCE <= y + k * e
        /\ y = x - e => INITIAL_BALANCE <= y + (k + 1) * e
        /\ y = INITIAL_BALANCE => INITIAL_BALANCE <= y + k * e
    BY <1>1, <1>3, <1>4, SMT
  <1> QED BY <1>5 DEF Backed, e, x, y

\* A token that is minted is backed; only an issuance takes something.
LEMMA BackedStep ==
    ASSUME NEW ch, ChainInv(ch), Pristine(ch), NEW t \in GentleTx, t.fn \in Plainest,
           NEW n, n = Execute(ch, t), ChainInv(n), NEW g \in Runs, NEW c \in Components, NEW k \in Nat
    PROVE  /\ Backed(ch, g, c, k) => Backed(n, g, c, IF t.fn = "issue" THEN k + 1 ELSE k)
           /\ t.fn = "deploy" /\ t.kind = "token" /\ t.token = c /\ t.run = g => Backed(n, g, c, k)
  <1>0. /\ t \in Tx /\ ch.wallet \in [Runs -> [Components -> Nat]] /\ ch.wallet[g][c] \in Nat
        /\ n.wallet[g][c] \in Nat /\ t.run \in Runs
    BY ChainFields, TxFields DEF GentleTx
  <1> DEFINE Minting == t.fn = "deploy" /\ t.kind = "token" /\ t.token = c /\ t.run = g
             Goal == /\ Backed(ch, g, c, k) => Backed(n, g, c, IF t.fn = "issue" THEN k + 1 ELSE k)
                     /\ Minting => Backed(n, g, c, k)
  <1>1. ASSUME ch.wallet[g][c] <= n.wallet[g][c], ~Minting
        PROVE  Goal
    <2>1. Backed(ch, g, c, k) => Backed(n, g, c, k)
      BY <1>1, BackedOfWallet
    <2>2. k + 1 \in Nat /\ k <= k + 1
      BY SMT
    <2>3. Backed(n, g, c, k) => Backed(n, g, c, k + 1)
      BY <2>2, BackedLonger
    <2> QED BY <1>1, <2>1, <2>3
  <1>2. n.wallet = ch.wallet => ch.wallet[g][c] <= n.wallet[g][c]
    BY <1>0, SMT
  <1>3. CASE ~Succeeds(ch, t)
    <2>1. n.wallet = ch.wallet
      BY <1>3 DEF Execute, ChainInv, ChainType
    <2>2. t.fn # "deploy"
      BY <1>3 DEF Succeeds
    <2> QED BY <1>1, <1>2, <2>1, <2>2
  <1>4. CASE Succeeds(ch, t) /\ t.fn = "deploy"
    <2>1. n = DeployContract(ch, t)
      BY <1>4 DEF Execute, Effect
    <2> DEFINE w == IF t.kind = "token" THEN [ch.wallet EXCEPT ![t.run][t.token] = INITIAL_BALANCE]
                                        ELSE ch.wallet
    <2>2. Shows(n, ch.controllers, ch.sets, w, ch.allowance)
      BY <1>0, <2>1, DeployShown
    <2>3. \/ w[g][c] = INITIAL_BALANCE
          \/ w[g][c] = ch.wallet[g][c] /\ ~Minting
      BY <1>0
    <2> HIDE DEF w
    <2>4. n.wallet = w
      BY <2>2 DEF Shows
    <2>5. CASE w[g][c] = ch.wallet[g][c] /\ ~Minting
      <3>1. ch.wallet[g][c] <= n.wallet[g][c]
        BY <1>0, <2>4, <2>5, SMT
      <3> QED BY <1>1, <2>5, <3>1
    <2>6. CASE w[g][c] = INITIAL_BALANCE
      <3>1. Backed(n, g, c, k)
        <4>1. n.wallet[g][c] = INITIAL_BALANCE /\ c \in Nat /\ INITIAL_BALANCE \in Nat
          BY <2>4, <2>6, EnoughMinted
        <4>2. ether(c) \in Nat
          BY <4>1, EtherFacts
        <4>3. k * ether(c) \in Nat
          BY <4>2, SMT
        <4>4. \A z \in Nat : INITIAL_BALANCE <= INITIAL_BALANCE + z
          BY <4>1, SMT
        <4> QED BY <4>1, <4>3, <4>4 DEF Backed
      <3> QED BY <1>4, <3>1
    <2> QED BY <2>3, <2>5, <2>6
  <1>5. CASE Succeeds(ch, t) /\ t.fn \in {"issue", "redeem"}
    <2>1. ValidAndInitialized(ch, t)
      BY <1>5 DEF Succeeds, CanIssue, CanRedeem
    <2>2. t.set \in DOMAIN ch.sets /\ ch.sets[t.set] \in Sound
      BY <1>0, <2>1, ValidInDomain
    <2>3. ~Handled(ch.sets[t.set]) /\ t.quantity = ether(1)
      BY <1>5, <2>2 DEF Pristine, Plainly, GentleTx
    <2>4. Taken(ch, t, c) = _units[c] /\ Paid(ch, t, c) = _units[c]
      BY <1>0, <2>2, <2>3, PlainAmounts
    <2>5. _units[c] = ether(c) /\ ether(c) \in Nat
      BY EnoughMinted
    <2> DEFINE s == ch.sets[t.set].tokens
               T == TakenAll(ch, t)
               P == PaidAll(ch, t)
    <2>6. T[c] = ether(c) /\ P[c] = ether(c)
      BY <2>4, <2>5 DEF TakenAll, PaidAll
    <2>7. CASE t.fn = "issue"
      <3>1. n = Issue(ch, t)
        BY <1>5, <2>7 DEF Execute, Effect
      <3>2. n.wallet = Debited(ch.wallet, s, T)
        <4>1. \E u, z, a : Shows(n, u, z, Debited(ch.wallet, s, T), a)
          BY <1>0, <2>2, <3>1, IssueShown, Zenon
        <4> HIDE DEF T, P, s
        <4> QED BY <4>1 DEF Shows
      <3> HIDE DEF T, P, s
      <3>3. Debited(ch.wallet, s, T)[g][c] = IF g = s THEN ch.wallet[g][c] - T[c] ELSE ch.wallet[g][c]
        BY <1>0 DEF Debited
      <3>4. CASE g = s
        BY <2>6, <2>7, <3>2, <3>3, <3>4, BackedOfWallet
      <3>5. CASE g # s
        <4>1. ch.wallet[g][c] <= n.wallet[g][c]
          BY <1>0, <3>2, <3>3, <3>5, SMT
        <4> QED BY <1>1, <2>7, <4>1
      <3> QED BY <3>4, <3>5
    <2>8. CASE t.fn = "redeem"
      <3>1. n = Redeem(ch, t)
        BY <1>5, <2>8 DEF Execute, Effect
      <3>2. n.wallet = Credited(ch.wallet, s, P)
        <4>1. \E u, z, a : Shows(n, u, z, Credited(ch.wallet, s, P), a)
          BY <1>0, <2>2, <3>1, RedeemShown, Zenon
        <4> HIDE DEF T, P, s
        <4> QED BY <4>1 DEF Shows
      <3> HIDE DEF T, P, s
      <3>3. Credited(ch.wallet, s, P)[g][c] = IF g = s THEN ch.wallet[g][c] + P[c] ELSE ch.wallet[g][c]
        BY <1>0 DEF Credited
      <3>4. ch.wallet[g][c] <= n.wallet[g][c]
        BY <1>0, <2>5, <2>6, <3>2, <3>3, SMT
      <3> QED BY <1>1, <2>8, <3>4
    <2> QED BY <1>5, <2>7, <2>8
  <1>6. CASE Succeeds(ch, t) /\ t.fn \in {"initialize", "create", "initializeModule", "approve",
                                          "approveController"}
    <2>1. n = Effect(ch, t)
      BY <1>6 DEF Execute
    <2>2. n.wallet = ch.wallet
      <3>1. CASE t.fn = "initialize"
        <4>1. n = InitializeController(ch, t)
          BY <2>1, <3>1 DEF Effect
        <4> QED BY <4>1 DEF InitializeController, ChainInv, ChainType
      <3>2. CASE t.fn = "create"
        <4>1. n = Create(ch, t)
          BY <2>1, <3>2 DEF Effect
        <4>2. \E u, z, a : Shows(n, u, z, ch.wallet, a)
          BY <4>1, CreateShown, Zenon
        <4> QED BY <4>2 DEF Shows
      <3>3. CASE t.fn = "initializeModule"
        <4>1. n = InitializeModule(ch, t)
          BY <2>1, <3>3 DEF Effect
        <4>2. \E u, z, a : Shows(n, u, z, ch.wallet, a)
          BY <4>1, InitializeModuleShown, Zenon
        <4> QED BY <4>2 DEF Shows
      <3>4. CASE t.fn = "approve"
        <4>1. n = Approve(ch, t)
          BY <2>1, <3>4 DEF Effect
        <4> DEFINE a == [ch.allowance EXCEPT ![Module(t)][t.tokens][t.token] = t.quantity]
        <4>2. Shows(n, ch.controllers, ch.sets, ch.wallet, a)
          BY <4>1, ApproveShown
        <4> HIDE DEF a
        <4> QED BY <4>2 DEF Shows
      <3>5. CASE t.fn = "approveController"
        BY <2>1, <3>5 DEF Effect
      <3> QED BY <1>6, <3>1, <3>2, <3>3, <3>4, <3>5
    <2> QED BY <1>1, <1>2, <1>6, <2>2
  <1> QED BY <1>3, <1>4, <1>5, <1>6 DEF Plainest

\* The instructions of scripts 01 to 05 that matter to what comes after, by place.
Ordered(script, pc, i) ==
    /\ script = "01" =>
        \/ \E c \in Components : /\ pc = 2 * c - 1 /\ i.op = "deploy" /\ i.fn = "deploy"
                                 /\ i.kind = "token" /\ i.token = c
        \/ i.op = "deployed" /\ \E c \in Components : pc = 2 * c
    /\ script = "02" => pc \in 1 .. 9 /\ (i.fn = "deploy" \/ (pc = 9 /\ i.fn = "initialize"))
    /\ script = "03" =>
        /\ pc \in 1 .. 7
        /\ pc \in {1, 2, 4, 5} => i.op \notin {"call", "deploy"}
        /\ pc = 3 => /\ i.op = "call" /\ i.fn = "create" /\ i.kind = "setTokenCreator"
                     /\ i.modules = {IssuanceModule, ManageModule}
        /\ pc = 6 => Asks(i, "initializeModule", IssuanceModule, 0, 0)
        /\ pc = 7 => Asks(i, "initializeModule", ManageModule, 0, 0)
    /\ script = "04" =>
        \/ pc = 1 /\ i.op = "deployed"
        \/ \E c \in Components : pc = c + 1 /\ Asks(i, "approve", IssuanceModule, c, _units[c])
        \/ pc = N + 2 /\ Asks(i, "issue", IssuanceModule, 0, ether(1))
    /\ script = "05" /\ i.op \in {"call", "deploy"} => i.fn \in {"approveController", "redeem"}

LEMMA StepsOrdered ==
    ASSUME NEW script \in Steps, NEW pc \in 1 .. Len(Program(script)),
           NEW x, x = Program(script)[pc]
    PROVE  /\ Ordered(script, pc, x)
           /\ script = "01" => Len(Program(script)) = 2 * N
           /\ script = "03" => Len(Program(script)) = 7
           /\ script = "04" => Len(Program(script)) = N + 2
  <1>1. IssuanceModule \in Kinds /\ ManageModule \in Kinds /\ {"controller", "setTokenCreator"} \subseteq Kinds
    BY DEF Kinds, IssuanceModule, ManageModule
  <1>2. N \in Nat /\ N > 1 /\ Components = 1 .. N
    BY EtherNat
  <1>3. \A kind \in Kinds : AwaitDeployed(kind).op = "deployed" /\ AwaitDeployed(kind).fn = "deploy"
    BY DeployReads DEF Reads
  <1>4. CASE script = "01"
    <2>1. Program(script) = DeployTokens /\ Len(DeployTokens) = 2 * N
      BY <1>4, Pieces11 DEF Program, Script01
    <2>2. pc \in 1 .. 2 * N
      BY <2>1
    <2>3. (\E c \in Components : pc = 2 * c - 1) \/ (\E c \in Components : pc = 2 * c)
      <3> DEFINE m == (pc + 1) \div 2
      <3>1. m \in Components
        BY <2>2, HalfWay
      <3>2. pc = 2 * m - 1 \/ pc = 2 * m
        <4>1. pc \in Nat /\ pc + 1 \in Nat
          BY <1>2, <2>2, SMT
        <4> QED BY <4>1, SMT
      <3> QED BY <3>1, <3>2
    <2>4. ASSUME NEW c \in Components, pc = 2 * c - 1
          PROVE  x.op = "deploy" /\ x.fn = "deploy" /\ x.kind = "token" /\ x.token = c
      <3>1. x = deployTokenMock(c)
        BY <2>1, <2>4, Pieces11
      <3>2. Reads(deployTokenMock(c), "deploy", "deploy", "token", c, 0, {}, FALSE)
        BY TokenMockReads
      <3> QED BY <3>1, <3>2 DEF Reads
    <2>5. ASSUME NEW c \in Components, pc = 2 * c
          PROVE  x.op = "deployed"
      <3>1. x = Deployed(deployTokenMock(c))
        BY <2>1, <2>5, Pieces11
      <3>2. Reads(Deployed(deployTokenMock(c)), "deployed", "deploy", "token", c, 0, {}, FALSE)
        BY TokenMockReads
      <3> QED BY <3>1, <3>2 DEF Reads
    <2> QED BY <1>4, <2>1, <2>3, <2>4, <2>5 DEF Ordered
  <1>5. CASE script = "02"
    <2>1. Program(script) = Script02 /\ Len(Script02) = 9
      BY <1>5 DEF Program, Script02
    <2>2. pc \in 1 .. 9
      BY <2>1
    <2>3. x \in {Deploy(kind) : kind \in Kinds} \cup {AwaitDeployed(kind) : kind \in Kinds}
            \/ (pc = 9 /\ x = initialize({IssuanceModule, ManageModule}))
      <3>1. /\ Script02[1] = Deploy("controller") /\ Script02[3] = Deploy("setTokenCreator")
            /\ Script02[5] = Deploy(IssuanceModule) /\ Script02[7] = Deploy(ManageModule)
            /\ Script02[2] = AwaitDeployed("controller") /\ Script02[4] = AwaitDeployed("setTokenCreator")
            /\ Script02[6] = AwaitDeployed(IssuanceModule) /\ Script02[8] = AwaitDeployed(ManageModule)
            /\ Script02[9] = initialize({IssuanceModule, ManageModule})
        BY DEF Script02, deployController, deploySetTokenCreator, deployBasicIssuanceModule,
               deployComponentManageModule
      <3>2. pc \in {1, 2, 3, 4, 5, 6, 7, 8, 9}
        BY <2>2, SMT
      <3> QED BY <1>1, <2>1, <3>1, <3>2
    <2>4. \A kind \in Kinds : Deploy(kind).fn = "deploy"
      BY DeployReads DEF Reads
    <2>5. initialize({IssuanceModule, ManageModule}).fn = "initialize"
      BY CallsRead DEF Reads
    <2> QED BY <1>3, <1>5, <2>2, <2>3, <2>4, <2>5 DEF Ordered
  <1>6. CASE script = "03"
    <2>1. Program(script) = Script03 /\ Len(Script03) = 7
      BY <1>6 DEF Program, Script03
    <2>2. pc \in 1 .. 7
      BY <2>1
    <2>3. /\ Script03[1] = AwaitDeployed(IssuanceModule) /\ Script03[2] = AwaitDeployed(ManageModule)
          /\ Script03[3] = create({IssuanceModule, ManageModule}) /\ Script03[4] = AwaitReceipt
          /\ Script03[5] = getCreatedSetTokenAddress
          /\ Script03[6] = initializeModule(IssuanceModule) /\ Script03[7] = initializeModule(ManageModule)
      BY DEF Script03
    <2>4. AwaitReceipt.op = "wait" /\ getCreatedSetTokenAddress.op = "getCreated"
      BY CreationFields
    <2>5. /\ Reads(create({IssuanceModule, ManageModule}), "call", "create", "setTokenCreator", 0, 0,
                   {IssuanceModule, ManageModule}, TRUE)
          /\ Reads(initializeModule(IssuanceModule), "call", "initializeModule", IssuanceModule, 0, 0, {}, TRUE)
          /\ Reads(initializeModule(ManageModule), "call", "initializeModule", ManageModule, 0, 0, {}, TRUE)
      BY <1>1, CallsRead
    <2>6. pc \in {1, 2, 4, 5} => x.op \notin {"call", "deploy"}
      BY <1>1, <1>3, <2>1, <2>3, <2>4
    <2>7. pc = 3 => /\ x.op = "call" /\ x.fn = "create" /\ x.kind = "setTokenCreator"
                    /\ x.modules = {IssuanceModule, ManageModule}
      BY <2>1, <2>3, <2>5 DEF Reads
    <2>8. /\ pc = 6 => Asks(x, "initializeModule", IssuanceModule, 0, 0)
          /\ pc = 7 => Asks(x, "initializeModule", ManageModule, 0, 0)
      BY <2>1, <2>3, <2>5 DEF Reads, Asks
    <2> QED BY <1>6, <2>1, <2>2, <2>6, <2>7, <2>8 DEF Ordered
  <1>7. CASE script = "04"
    <2> DEFINE P == <<AwaitDeployed(IssuanceModule)>>
               Q == <<issue(ether(1))>>
    <2>1. ether(1) \in Nat
      BY EtherFacts
    <2>2. /\ P \in Seq(Any) /\ Len(P) = 1 /\ P[1] = AwaitDeployed(IssuanceModule)
          /\ Q \in Seq(Any) /\ Len(Q) = 1 /\ Q[1] = issue(ether(1))
      <3>1. AwaitDeployed(IssuanceModule) \in Any
        BY <1>1, DeployPlain DEF Plain
      <3>2. issue(ether(1)) \in Any
        BY GentleInstructions DEF Gentle
      <3> QED BY <3>1, <3>2
    <2>3. ApproveUnits \in Seq(Any) /\ Len(ApproveUnits) = N
      BY Pieces11
    <2> DEFINE A == P \o ApproveUnits
               R == A \o Q
    <2>a. A = P \o ApproveUnits /\ R = A \o Q
      OBVIOUS
    <2>6. Program(script) = R
      BY <1>7 DEF Program, Script04
    <2> HIDE DEF P, Q, A, R
    <2>4. /\ A \in Seq(Any) /\ Len(A) = 1 + N
          /\ \A k \in 1 .. 1 : A[k] = P[k]
          /\ \A k \in 1 .. N : A[1 + k] = ApproveUnits[k]
      <3>1. P \in Seq(Any) /\ Len(P) = 1
        BY <2>2
      <3>2. ApproveUnits \in Seq(Any) /\ Len(ApproveUnits) = N
        BY <2>3
      <3>3. A = P \o ApproveUnits
        BY <2>a
      <3>4. /\ A \in Seq(Any) /\ Len(A) = Len(P) + Len(ApproveUnits)
            /\ \A k \in 1 .. Len(P) : A[k] = P[k]
            /\ \A k \in 1 .. Len(ApproveUnits) : A[Len(P) + k] = ApproveUnits[k]
        BY <3>1, <3>2, <3>3, Concatenated
      <3> QED BY <3>1, <3>2, <3>4, Zenon
    <2>5. /\ Len(R) = (1 + N) + 1
          /\ \A k \in 1 .. 1 + N : R[k] = A[k]
          /\ \A k \in 1 .. 1 : R[(1 + N) + k] = Q[k]
      <3>1. Q \in Seq(Any) /\ Len(Q) = 1
        BY <2>2
      <3>2. A \in Seq(Any) /\ Len(A) = 1 + N
        BY <2>4
      <3>3. R = A \o Q
        BY <2>a
      <3>4. /\ Len(R) = Len(A) + Len(Q)
            /\ \A k \in 1 .. Len(A) : R[k] = A[k]
            /\ \A k \in 1 .. Len(Q) : R[Len(A) + k] = Q[k]
        BY <3>1, <3>2, <3>3, Concatenated
      <3> QED BY <3>1, <3>2, <3>4, Zenon
    <2>7. Len(R) = (1 + N) + 1 /\ R[1] = AwaitDeployed(IssuanceModule) /\ R[(1 + N) + 1] = issue(ether(1))
      <3>1. 1 \in 1 .. 1 /\ 1 \in 1 .. 1 + N
        BY <1>2, SMT
      <3> QED BY <2>2, <2>4, <2>5, <3>1
    <2>8. \A c \in Components : R[1 + c] = approve(IssuanceModule, c, _units[c])
      <3>1. \A c \in Components : c \in 1 .. N /\ 1 + c \in 1 .. 1 + N
        BY <1>2, SMT
      <3>2. \A c \in Components : ApproveUnits[c] = approve(IssuanceModule, c, _units[c])
        BY Pieces11
      <3> QED BY <2>4, <2>5, <3>1, <3>2
    <2>9. x = R[pc] /\ pc \in 1 .. (1 + N) + 1 /\ Len(Program(script)) = N + 2
      <3>1. (1 + N) + 1 = N + 2
        BY <1>2, SMT
      <3> QED BY <2>6, <2>7, <3>1
    <2>10. pc = 1 \/ pc = (1 + N) + 1 \/ \E c \in Components : pc = 1 + c
      <3>1. pc # 1 /\ pc # (1 + N) + 1 => pc - 1 \in 1 .. N /\ pc = 1 + (pc - 1)
        BY <1>2, <2>9, SMT
      <3> QED BY <1>2, <3>1
    <2>11. /\ Reads(issue(ether(1)), "call", "issue", IssuanceModule, 0, ether(1), {}, FALSE)
           /\ \A c \in Components :
                Reads(approve(IssuanceModule, c, _units[c]), "call", "approve", IssuanceModule, c, _units[c], {}, TRUE)
      BY <1>1, CallsRead
    <2>12. ASSUME pc = 1 PROVE Ordered(script, pc, x)
      BY <1>1, <1>3, <1>7, <2>7, <2>9, <2>12 DEF Ordered
    <2>13. ASSUME pc = (1 + N) + 1 PROVE Ordered(script, pc, x)
      <3>1. Asks(x, "issue", IssuanceModule, 0, ether(1))
        BY <2>7, <2>9, <2>11, <2>13 DEF Reads, Asks
      <3>2. pc = N + 2
        BY <1>2, <2>13, SMT
      <3> QED BY <1>7, <3>1, <3>2, Zenon DEF Ordered
    <2>14. ASSUME NEW c \in Components, pc = 1 + c
           PROVE  Ordered(script, pc, x)
      <3>0. x = approve(IssuanceModule, c, _units[c])
        BY <2>8, <2>9, <2>14
      <3>1. Asks(x, "approve", IssuanceModule, c, _units[c])
        <4>1. Reads(x, "call", "approve", IssuanceModule, c, _units[c], {}, TRUE)
          BY <2>11, <3>0
        <4> QED BY <4>1 DEF Reads, Asks
      <3>2. pc = c + 1
        BY <1>2, <2>14, SMT
      <3> QED BY <1>7, <3>1, <3>2 DEF Ordered
    <2> QED BY <1>7, <2>9, <2>10, <2>12, <2>13, <2>14
  <1>8. CASE script = "05"
    <2>1. /\ Program(script) = Script05 /\ Len(Script05) = 3
          /\ Script05[1] = AwaitDeployed(IssuanceModule) /\ Script05[2] = approveController
          /\ Script05[3] = redeem(ether(1))
      BY <1>8 DEF Program, Script05
    <2>2. pc \in {1, 2, 3}
      BY <2>1, SMT
    <2>3. approveController.fn = "approveController" /\ redeem(ether(1)).fn = "redeem"
      BY CallsRead DEF Reads
    <2> QED BY <1>1, <1>3, <1>8, <2>1, <2>2, <2>3 DEF Ordered
  <1> QED BY <1>4, <1>5, <1>6, <1>7, <1>8 DEF Steps

-----------------------------------------------------------------------------
(* What the scripts print, and what the next one is given                    *)

\* Script 01 prints its token list as it ends, script 03 a Set's address as it
\* reads it.
PrintsList ==
    /\ Quiet /\ run.status = "running" /\ run.script = "01" /\ run.pc > Len(Program(run.script))
    /\ run'.status # "running" /\ run'.number = run.number
    /\ printed'["components"] = printed["components"] \cup {run.number}

PrintsSet ==
    /\ Quiet /\ At("getCreated") /\ run.script = "03" /\ chain.log # NoSet
    /\ printed'["setToken"] = printed["setToken"] \cup {chain.log}

Printing ==
    /\ printed'["components"] = printed["components"] \/ PrintsList
    /\ printed'["setToken"] = printed["setToken"] \/ PrintsSet

LEMMA WhatIsPrinted ==
    ASSUME OperatorInv, [Next]_vars
    PROVE  Printing
  <1>1. /\ printed \in [Printable -> SUBSET Int] /\ RunOK(run)
        /\ "components" \in Printable /\ "setToken" \in Printable
        /\ "setToken" \notin {"setTokenCreator", IssuanceModule, ManageModule}
        /\ "components" \notin {"setTokenCreator", IssuanceModule, ManageModule}
    BY DEF OperatorInv, Printable, IssuanceModule, ManageModule
  <1>2. printed' = printed => Printing
    BY DEF Printing
  <1>3. CASE CompleteDeployed
    <2>1. \/ printed' = printed
          \/ \E kind, stack : run.script = "02" /\ printed' = [printed EXCEPT ![kind] = @ \cup {stack}]
                              /\ kind = Current.kind
      BY <1>3 DEF CompleteDeployed
    <2> SUFFICES ASSUME NEW kind, NEW stack, run.script = "02", kind = Current.kind,
                        printed' = [printed EXCEPT ![kind] = @ \cup {stack}]
                 PROVE  Printing
      BY <1>2, <2>1
    <2>2. kind \notin {"components", "setToken"}
      <3>1. Current \in Any
        BY <1>1, <1>3, NextInstruction DEF CompleteDeployed
      <3>2. Current.kind \in Kinds
        BY <3>1 DEF Any, InstructionType
      <3> QED BY <3>2 DEF Kinds
    <2>3. printed'["components"] = printed["components"] /\ printed'["setToken"] = printed["setToken"]
      BY <1>1, <2>2
    <2> QED BY <2>3 DEF Printing
  <1>4. CASE RetrieveSetToken
    <2>1. /\ At("getCreated") /\ Quiet
          /\ \/ printed' = printed
             \/ /\ run.script = "03" /\ chain.log # NoSet
                /\ printed' = [printed EXCEPT !.setToken = @ \cup {chain.log}]
      BY <1>4 DEF RetrieveSetToken, Quiet, configuration
    <2> SUFFICES ASSUME run.script = "03", chain.log # NoSet,
                        printed' = [printed EXCEPT !.setToken = @ \cup {chain.log}]
                 PROVE  Printing
      BY <1>2, <2>1
    <2>2. /\ printed'["setToken"] = printed["setToken"] \cup {chain.log}
          /\ printed'["components"] = printed["components"]
      BY <1>1
    <2> QED BY <2>1, <2>2 DEF Printing, PrintsSet
  <1>5. CASE Exit
    <2>1. /\ Quiet /\ run.status = "running" /\ run.pc > Len(Program(run.script)) /\ End("done")
          /\ \/ printed' = printed
             \/ /\ run.script = "01"
                /\ printed' = [printed EXCEPT !.components = @ \cup {run.number}]
      BY <1>5 DEF Exit, Quiet, configuration
    <2> SUFFICES ASSUME run.script = "01", printed' = [printed EXCEPT !.components = @ \cup {run.number}]
                 PROVE  Printing
      BY <1>2, <2>1
    <2>2. run'.status = "done" /\ run'.number = run.number
      BY <1>1, <2>1, RunEnded
    <2>3. /\ printed'["components"] = printed["components"] \cup {run.number}
          /\ printed'["setToken"] = printed["setToken"]
      BY <1>1
    <2> QED BY <2>1, <2>2, <2>3 DEF Printing, PrintsList
  <1>6. CASE SendDeploy \/ SendCall \/ CompleteWait \/ AttachSetToken \/ ReadOwned \/ FillComponents
    BY <1>2, <1>6 DEF SendDeploy, SendCall, CompleteWait, AttachSetToken, ReadOwned, FillComponents
  <1>7. CASE Operate \/ Mine \/ MineForeign \/ MineCopy \/ UNCHANGED vars
    BY <1>2, <1>7 DEF Operate, StartScript, Crash, Mine, MineForeign, MineCopy, vars
  <1> QED BY <1>3, <1>4, <1>5, <1>6, <1>7 DEF Next, Instruct

\* What the variables of a running script come from.
Rereads ==
    \/ run.status = "running" /\ \E op \in Ops : Reading(op)
    \/ run' = run
    \/ \E script \in ScriptNames : StartScript(script)

LEMMA WhatIsReread ==
    ASSUME NetworkInv, OperatorInv, [Next]_vars, run'.status = "running"
    PROVE  Rereads
  <1>1. CASE Instruct
    <2>1. PICK op \in Ops : Reading(op)
      BY <1>1, InstructReads
    <2>2. run.status = "running"
      BY <2>1 DEF Reading, At
    <2> QED BY <2>1, <2>2 DEF Rereads
  <1>2. CASE Crash
    <2>1. RunOK(run) /\ run.status = "running" /\ End("crashed")
      BY <1>2 DEF Crash, OperatorInv
    <2> QED BY <2>1, RunEnded
  <1>3. ASSUME NEW script \in Steps \cup {"11", "fixture", "unregistered"}, StartScript(script)
        PROVE  Rereads
    BY <1>3 DEF Rereads, ScriptNames
  <1>4. CASE Mine \/ MineForeign \/ MineCopy \/ UNCHANGED vars
    BY <1>4 DEF Mine, MineForeign, MineCopy, vars, Rereads
  <1> QED BY <1>1, <1>2, <1>3, <1>4 DEF Next, Operate

\* Script 04 is given a Set and a token list that were printed.
LEMMA IssuanceGiven ==
    ASSUME OperatorInv, NEW at \in Pasted("04")
    PROVE  at["setToken"] \in printed["setToken"] /\ at["components"] \in printed["components"]
  <1> DEFINE value(name) == IF name \in Inputs("04") THEN printed[name] ELSE {0}
  <1>1. PICK creator \in value("setTokenCreator"), issuance \in value(IssuanceModule),
             manage \in value(ManageModule), set \in value("setToken"),
             components \in value("components") :
          at = [setTokenCreator |-> creator, basicIssuanceModule |-> issuance,
                componentManageModule |-> manage, setToken |-> set, components |-> components]
    BY DEF Pasted
  <1>2. "setToken" \in Inputs("04") /\ "components" \in Inputs("04")
    BY DEF Inputs
  <1>3. set \in printed["setToken"] /\ components \in printed["components"]
    BY <1>1, <1>2
  <1>4. at["setToken"] = set /\ at["components"] = components
    BY <1>1
  <1> QED BY <1>3, <1>4

-----------------------------------------------------------------------------
(* What the queue will have done for scripts 01 to 05: p is the chain once it *)
(* is mined, r the run                                                        *)

On(r, script) == r.status = "running" /\ r.script = script

\* The issuances sent so far, one a run at most.
Spent(r) == IF On(r, "04") /\ r.pc <= N + 2 THEN r.number - 1 ELSE r.number

\* The token lists that were printed, and the list that script 01 is deploying.
Backing(p, r, lists) ==
    \A c \in Components :
        /\ \A g \in lists : g \in Runs /\ Backed(p, g, c, Spent(r))
        /\ On(r, "01") /\ 2 * c - 1 < r.pc => Backed(p, r.number, c, Spent(r))

\* The Controller that script 02 is deploying is not initialized before it gets there.
Unfounded(p, r) ==
    \A n \in Runs : p.controllers[n].initialized =>
        n < r.number \/ (n = r.number /\ ~(On(r, "02") /\ r.pc <= 9))

\* A Set that the issuance module of its stack knows, and that knows it.
Listed(p, s) ==
    /\ s \in DOMAIN p.sets /\ p.sets[s].stack \in Runs
    /\ s \in p.controllers[p.sets[s].stack].sets
    /\ <<IssuanceModule, p.sets[s].stack>> \in p.controllers[p.sets[s].stack].modules

Ready(p, s) == Listed(p, s) /\ <<IssuanceModule, p.sets[s].stack>> \in p.sets[s].initialized

\* Script 03 past its creation.
Making(p, r) ==
    On(r, "03") /\ r.pc > 3 =>
        /\ Listed(p, p.created[r.number])
        /\ r.pc <= 6 => <<IssuanceModule, r.at[IssuanceModule]>> \in p.sets[p.created[r.number]].pending
        /\ r.pc <= 7 => <<ManageModule, r.at[ManageModule]>> \in p.sets[p.created[r.number]].pending
        /\ r.pc > 5 => r.at["setToken"] \in {ForeignSet, p.created[r.number]}
        /\ r.pc > 6 => r.at["setToken"] = p.created[r.number] /\ Ready(p, p.created[r.number])

\* Script 04 before its issuance.
Allowing(p, r, lists) ==
    On(r, "04") =>
        /\ r.at["components"] \in lists
        /\ r.pc <= N + 2 =>
            \A c \in Components : c + 1 < r.pc =>
                p.allowance[<<IssuanceModule, r.at[IssuanceModule]>>][r.at["components"]][c] = ether(c)

Finished(p, done) == \A d \in done : d.script = "03" => Ready(p, d.set)

Chart(p, r, lists, done) ==
    /\ Pristine(p) /\ Unlocked(p)
    /\ Backing(p, r, lists) /\ Unfounded(p, r) /\ Making(p, r) /\ Allowing(p, r, lists)
    /\ Finished(p, done)

LEMMA ChartOfFields ==
    ASSUME NEW a, NEW b, SameBooks(a, b), NEW r, NEW lists, NEW done, Chart(a, r, lists, done)
    PROVE  Chart(b, r, lists, done)
  <1>1. /\ b.controllers = a.controllers /\ b.sets = a.sets /\ b.created = a.created
        /\ b.wallet = a.wallet /\ b.allowance = a.allowance
    BY DEF SameBooks
  <1>2. Pristine(b) /\ Unlocked(b)
    BY <1>1 DEF Chart, Pristine, Unlocked
  <1>3. Backing(b, r, lists)
    BY <1>1 DEF Chart, Backing, Backed
  <1>4. \A s : (Listed(b, s) <=> Listed(a, s)) /\ (Ready(b, s) <=> Ready(a, s))
    BY <1>1 DEF Listed, Ready
  <1>5. Unfounded(b, r) /\ Allowing(b, r, lists) /\ Finished(b, done)
    BY <1>1, <1>4 DEF Chart, Unfounded, Allowing, Finished
  <1>6. Making(b, r)
    BY <1>1, <1>4 DEF Chart, Making
  <1> QED BY <1>2, <1>3, <1>5, <1>6 DEF Chart

LEMMA ReadyLater ==
    ASSUME NEW a, ChainInv(a), NEW b, Onward(a, b), NEW s
    PROVE  /\ Listed(a, s) => Listed(b, s)
           /\ Ready(a, s) => Ready(b, s)
  <1> SUFFICES ASSUME Listed(a, s)
               PROVE  Listed(b, s) /\ (Ready(a, s) => Ready(b, s))
    BY DEF Ready
  <1> DEFINE g == a.sets[s].stack
  <1>1. /\ s \in DOMAIN a.sets /\ g \in Runs /\ s \in a.controllers[g].sets
        /\ <<IssuanceModule, g>> \in a.controllers[g].modules
    BY DEF Listed
  <1>2. s \in DOMAIN b.sets /\ b.sets[s].stack = g /\ a.sets[s].initialized \subseteq b.sets[s].initialized
    BY <1>1 DEF Onward, Later
  <1> HIDE DEF g
  <1>3. Extended(a.controllers[g], b.controllers[g]) /\ a.controllers[g].initialized
    BY <1>1 DEF Onward, ChainInv, ControllerType, ChainType
  <1>4. s \in b.controllers[g].sets /\ <<IssuanceModule, g>> \in b.controllers[g].modules
    BY <1>1, <1>3 DEF Extended
  <1> QED BY <1>1, <1>2, <1>4 DEF Listed, Ready, g

\* More may have been spent.
LEMMA BackingLater ==
    ASSUME NEW p, ChainInv(p), NEW r, NEW q, NEW lists, Backing(p, r, lists),
           Spent(r) \in Nat, Spent(q) \in Nat, Spent(r) <= Spent(q)
    PROVE  /\ \A c \in Components, g \in lists : g \in Runs /\ Backed(p, g, c, Spent(q))
           /\ On(r, "01") /\ r.number \in Runs => \A c \in Components : 2 * c - 1 < r.pc =>
                Backed(p, r.number, c, Spent(q))
  <1>1. \A g \in Runs, c \in Components : Backed(p, g, c, Spent(r)) => Backed(p, g, c, Spent(q))
    BY BackedLonger
  <1> QED BY <1>1 DEF Backing

\* What scripts 01 to 05 do next.
LEMMA StepNext ==
    ASSUME OperatorInv, ScriptInv, pipeline = "steps", NEW op, At(op)
    PROVE  /\ run.script \in Steps /\ run.status = "running" /\ run.number \in Runs /\ run.number \in Nat \ {0}
           /\ run.pc \in Nat \ {0} /\ run.pc <= Len(Program(run.script)) /\ N \in Nat /\ Components = 1 .. N
           /\ Current.op = op /\ Ordered(run.script, run.pc, Current)
           /\ run.script = "01" => Len(Program(run.script)) = 2 * N
           /\ run.script = "03" => Len(Program(run.script)) = 7
           /\ run.script = "04" => Len(Program(run.script)) = N + 2
  <1>1. RunOK(run)
    BY DEF OperatorInv
  <1>2. /\ run.status = "running" /\ run.script \in ScriptNames /\ run.number \in Runs
        /\ run.pc \in 1 .. Len(Program(run.script)) /\ run.pc <= Len(Program(run.script))
        /\ Current = Program(run.script)[run.pc] /\ Current.op = op
    BY <1>1, NextInstruction
  <1>3. run.script \in Steps
    BY <1>2 DEF ScriptInv, ScriptNames, Steps
  <1>4. /\ Ordered(run.script, run.pc, Current)
        /\ run.script = "01" => Len(Program(run.script)) = 2 * N
        /\ run.script = "03" => Len(Program(run.script)) = 7
        /\ run.script = "04" => Len(Program(run.script)) = N + 2
    BY <1>2, <1>3, StepsOrdered
  <1>5. run.pc \in Nat \ {0} /\ run.number \in Nat \ {0}
    BY <1>1, <1>2, RunsAssumption DEF RunOK, RunType
  <1> QED BY <1>2, <1>3, <1>4, <1>5, EtherNat

LEMMA SpentNat ==
    ASSUME NEW r, RunOK(r)
    PROVE  Spent(r) \in Nat /\ Spent(r) <= r.number /\ r.number \in Nat
           /\ (~On(r, "04") => Spent(r) = r.number)
  <1>1. r.number \in Nat /\ r.pc \in Nat /\ (r.script = "04" => r.number \in Nat \ {0})
    BY RunsAssumption DEF RunOK, RunType
  <1> QED BY <1>1, SMT DEF Spent, On

\* A step of the script that sends nothing.
LEMMA ChartMoves ==
    ASSUME OperatorInv, ScriptInv, OwnInv, pipeline = "steps", Moves,
           On(run, "04") => run'.at["components"] = run.at["components"],
           NEW p, ChainInv(p), mempool = << >> => p.created = chain.created,
           NEW lists, NEW done, Chart(p, run, lists, done)
    PROVE  Chart(p, run', lists, done)
  <1>1. PICK op \in {"wait", "getCreated", "attach", "deployed", "balanceOf", "getBalances"} :
            /\ At(op)
            /\ op = "getCreated" => run'.at.setToken = chain.log /\ chain.log # NoSet
            /\ op \notin {"getCreated", "attach"} /\ op # "wait" => run'.at.setToken = run.at.setToken
    BY DEF Moves, At
  <1>2. /\ run.script \in Steps /\ run.status = "running" /\ run.number \in Runs /\ run.number \in Nat \ {0}
        /\ run.pc \in Nat \ {0} /\ run.pc <= Len(Program(run.script)) /\ N \in Nat /\ Components = 1 .. N
        /\ Current.op = op /\ Ordered(run.script, run.pc, Current)
        /\ run.script = "03" => Len(Program(run.script)) = 7
        /\ run.script = "04" => Len(Program(run.script)) = N + 2
    BY <1>1, StepNext
  <1>3. /\ run'.script = run.script /\ run'.number = run.number /\ run'.status = "running"
        /\ run'.pc = run.pc + 1
        /\ \A name \in Printable \ {"setToken", "components"} : run'.at[name] = run.at[name]
    BY DEF Moves, Advanced
  <1>4. run'.at[IssuanceModule] = run.at[IssuanceModule] /\ run'.at[ManageModule] = run.at[ManageModule]
    BY <1>3 DEF Printable, IssuanceModule, ManageModule
  <1>5. /\ \A script : On(run', script) <=> On(run, script)
        /\ Current.op \notin {"call", "deploy"}
    BY <1>1, <1>2, <1>3 DEF On
  <1>6. ASSUME On(run, "04") PROVE run.pc = 1
    <2>1. Asks(Current, "approve", IssuanceModule, 0, 0) => FALSE
      BY <1>5 DEF Asks
    <2> QED BY <1>2, <1>5, <1>6 DEF Ordered, On, Asks
  <1>7. Spent(run') = Spent(run)
    BY <1>2, <1>3, <1>5, <1>6, SMT DEF Spent
  <1>8. Backing(p, run', lists)
    <2>1. ASSUME On(run, "01"), NEW c \in Components PROVE run.pc # 2 * c - 1
      <3>1. \E d \in Components : run.pc = 2 * d
        BY <1>2, <1>5, <2>1 DEF Ordered, On
      <3> QED BY <1>2, <3>1, SMT
    <2>2. ASSUME On(run, "01"), NEW c \in Components, 2 * c - 1 < run'.pc PROVE 2 * c - 1 < run.pc
      BY <1>2, <1>3, <2>1, <2>2, SMT
    <2>3. Backing(p, run, lists)
      BY DEF Chart
    <2>4. \A c \in Components, g \in lists : g \in Runs /\ Backed(p, g, c, Spent(run'))
      BY <1>7, <2>3 DEF Backing
    <2>5. On(run', "01") => \A c \in Components : 2 * c - 1 < run'.pc => Backed(p, run'.number, c, Spent(run'))
      BY <1>3, <1>5, <1>7, <2>2, <2>3 DEF Backing
    <2> QED BY <2>4, <2>5 DEF Backing
  <1>9. Unfounded(p, run')
    <2>1. run'.pc <= 9 => run.pc <= 9
      BY <1>2, <1>3, SMT
    <2> QED BY <1>3, <1>5, <2>1 DEF Chart, Unfounded
  <1>10. Making(p, run')
    <2> SUFFICES ASSUME On(run, "03"), run'.pc > 3
                 PROVE  Making(p, run')
      BY <1>5 DEF Making
    <2>1. run.script = "03" /\ run.pc \in 1 .. 7 /\ run.pc \notin {3, 6, 7}
      BY <1>2, <1>5 DEF Ordered, On, Asks
    <2>2. run.pc \in {4, 5}
      BY <1>3, <2>1, SMT
    <2>3. Making(p, run) /\ run.pc > 3 /\ run.pc <= 6
      BY <2>2 DEF Chart
    <2>4. /\ Listed(p, p.created[run.number])
          /\ <<IssuanceModule, run.at[IssuanceModule]>> \in p.sets[p.created[run.number]].pending
          /\ <<ManageModule, run.at[ManageModule]>> \in p.sets[p.created[run.number]].pending
      BY <2>2, <2>3 DEF Making
    <2>5. run'.pc > 5 => run'.at["setToken"] \in {ForeignSet, p.created[run.number]}
      <3> SUFFICES ASSUME run'.pc > 5 PROVE run'.at["setToken"] \in {ForeignSet, p.created[run.number]}
        OBVIOUS
      <3>1. run.pc = 5
        BY <1>3, <2>2
      <3>2. CreateAt(run.script) = 3 /\ ReadAt(run.script) = 5 /\ "03" \in Readers /\ "03" \in Creators
        BY <2>1 DEF CreateAt, ReadAt, Readers, Creators
      <3>3. mempool = << >> /\ chain.log \in {NoSet, ForeignSet, chain.created[run.number]}
        BY <1>2, <2>1, <3>1, <3>2 DEF OwnInv
      <3>4. op = "getCreated"
        <4>1. /\ "03" \in ScriptNames /\ run.pc \in 1 .. Len(Program(run.script))
              /\ Current = Program(run.script)[run.pc]
          BY <1>1, NextInstruction DEF OperatorInv, ScriptNames, Steps
        <4>2. Current.op = "getCreated"
          BY <2>1, <3>1, <3>2, <4>1, InstructionAt
        <4> QED BY <1>2, <4>2
      <3> QED BY <1>1, <3>3, <3>4
    <2>6. ~(run'.pc > 6)
      BY <1>3, <2>2
    <2> QED BY <1>3, <1>4, <2>4, <2>5, <2>6 DEF Making
  <1>11. Allowing(p, run', lists)
    <2> SUFFICES ASSUME On(run, "04") PROVE Allowing(p, run', lists)
      BY <1>5 DEF Allowing
    <2>1. run'.pc = 2
      BY <1>3, <1>6
    <2>2. \A c \in Components : ~(c + 1 < run'.pc)
      BY <1>2, <2>1, SMT
    <2>3. run.at["components"] \in lists
      BY DEF Chart, Allowing
    <2> QED BY <2>2, <2>3 DEF Allowing
  <1> QED BY <1>8, <1>9, <1>10, <1>11 DEF Chart

LEMMA ChartEnds ==
    ASSUME OperatorInv, ScriptInv, pipeline = "steps", Ends, OperatorInv',
           NEW p, ChainInv(p), NEW lists, NEW done, Chart(p, run, lists, done),
           NEW more, more = lists \/ (more = lists \cup {run.number} /\ run.script = "01"
                                      /\ run.pc > Len(Program(run.script))),
           NEW finished,
           finished = done \/ (/\ run.pc > Len(Program(run.script))
                               /\ finished = done \cup {[script |-> run.script, number |-> run.number,
                                                         set |-> run.at.setToken]})
    PROVE  Chart(p, run', more, finished)
  <1>1. /\ run.status = "running" /\ run'.status # "running" /\ run'.number = run.number
        /\ run'.script = run.script
    BY DEF Ends
  <1>2. RunOK(run) /\ RunOK(run') /\ run.number \in Runs /\ run.script \in ScriptNames
    BY <1>1 DEF OperatorInv, RunOK, RunType
  <1>3. \A script : ~On(run', script)
    BY <1>1 DEF On
  <1>4. run.script \in Steps
    BY <1>2 DEF ScriptInv, ScriptNames, Steps
  <1>5. /\ N \in Nat /\ Components = 1 .. N /\ N > 1 /\ run.pc \in Nat
    BY <1>2, EtherNat DEF RunOK, RunType
  <1>6. /\ run.script = "01" => Len(Program(run.script)) = 2 * N
        /\ run.script = "03" => Len(Program(run.script)) = 7
    <2>1. Len(Program("01")) = 2 * N
      <3>1. Program("01") = DeployTokens
        BY DEF Program, Script01
      <3>2. Len(DeployTokens) = 2 * N
        BY Pieces11
      <3> QED BY <3>1, <3>2, Zenon
    <2>2. Len(Program("03")) = 7
      BY DEF Program, Script03
    <2> QED BY <2>1, <2>2
  <1>7. Backing(p, run', more)
    <2>1. Spent(run) \in Nat /\ Spent(run') \in Nat /\ Spent(run) <= Spent(run')
      BY <1>1, <1>2, <1>3, SpentNat
    <2>2. /\ \A c \in Components, g \in lists : g \in Runs /\ Backed(p, g, c, Spent(run'))
          /\ On(run, "01") => \A c \in Components : 2 * c - 1 < run.pc => Backed(p, run.number, c, Spent(run'))
      BY <1>2, <2>1, BackingLater DEF Chart
    <2>3. ASSUME NEW g \in more, g \notin lists, NEW c \in Components
          PROVE  g \in Runs /\ Backed(p, g, c, Spent(run'))
      <3>1. g = run.number /\ On(run, "01") /\ run.pc > 2 * N
        BY <1>1, <1>6, <2>3 DEF On
      <3>2. 2 * c - 1 < run.pc
        BY <1>5, <3>1, SMT
      <3> QED BY <1>2, <2>2, <3>1, <3>2
    <2> QED BY <1>3, <2>2, <2>3 DEF Backing
  <1>8. Unfounded(p, run')
    BY <1>1, <1>3 DEF Chart, Unfounded
  <1>9. Making(p, run') /\ Allowing(p, run', more)
    BY <1>3 DEF Making, Allowing
  <1>10. Finished(p, finished)
    <2>1. Finished(p, done) /\ Making(p, run)
      BY DEF Chart
    <2>2. ASSUME run.script = "03", run.pc > Len(Program(run.script)) PROVE Ready(p, run.at.setToken)
      <3>1. run.pc > 3 /\ run.pc > 6
        <4>1. run.pc > 7
          BY <1>6, <2>2
        <4> QED BY <1>5, <4>1, SMT
      <3> QED BY <1>1, <2>1, <2>2, <3>1 DEF Making, On
    <2> QED BY <2>1, <2>2 DEF Finished
  <1> QED BY <1>7, <1>8, <1>9, <1>10 DEF Chart

LEMMA ChartStarts ==
    ASSUME OperatorInv, OperatorInv', NEW script \in ScriptNames, StartScript(script),
           NEW p, ChainInv(p), NEW lists, NEW done, Chart(p, run, lists, done),
           script = "04" => run'.at["components"] \in lists
    PROVE  Chart(p, run', lists, done)
  <1>1. /\ run'.number = run.number + 1 /\ run'.script = script
        /\ run'.status = "running" /\ run'.pc = 1 /\ run.status # "running"
    BY Started
  <1>2. RunOK(run) /\ RunOK(run') /\ run.number \in Nat /\ N \in Nat /\ Components = 1 .. N
    BY EtherNat DEF OperatorInv, RunOK, RunType
  <1>3. \A s : ~On(run, s)
    BY <1>1 DEF On
  <1>4. Backing(p, run', lists)
    <2>1. Spent(run) \in Nat /\ Spent(run) = run.number /\ Spent(run') \in Nat
      BY <1>2, <1>3, SpentNat
    <2>2. Spent(run) <= Spent(run')
      BY <1>1, <1>2, <2>1, SMT DEF Spent
    <2>3. \A c \in Components, g \in lists : g \in Runs /\ Backed(p, g, c, Spent(run'))
      BY <2>1, <2>2, BackingLater DEF Chart
    <2>4. \A c \in Components : ~(2 * c - 1 < run'.pc)
      BY <1>1, <1>2, SMT
    <2> QED BY <2>3, <2>4 DEF Backing
  <1>5. Unfounded(p, run')
    <2>1. \A n \in Runs : p.controllers[n].initialized => n < run.number \/ n = run.number
      BY DEF Chart, Unfounded
    <2>2. \A n \in Runs : n \in Nat
      BY RunsAssumption
    <2>3. \A n \in Runs : n < run.number \/ n = run.number => n < run'.number
      BY <1>1, <1>2, <2>2, SMT
    <2> QED BY <2>1, <2>3 DEF Unfounded
  <1>6. Making(p, run')
    BY <1>1 DEF Making
  <1>7. Allowing(p, run', lists)
    <2>1. \A c \in Components : ~(c + 1 < run'.pc)
      BY <1>1, <1>2, SMT
    <2> QED BY <1>1, <2>1 DEF Allowing, On
  <1> QED BY <1>4, <1>5, <1>6, <1>7 DEF Chart

LEMMA TransactionReads ==
    ASSUME NEW i, NEW t, t = Transaction(i)
    PROVE  /\ t.fn = i.fn /\ t.kind = i.kind /\ t.token = i.token /\ t.run = run.number
           /\ t.set = run.at["setToken"] /\ t.tokens = run.at["components"]
           /\ i.kind \in Printable => t.stack = run.at[i.kind]
           /\ i.quantity # Owned => t.quantity = i.quantity
           /\ i.fn # "initialize" => t.modules = {<<m, run.at[m]>> : m \in i.modules}
  BY DEF Transaction

\* What scripts 01 to 05 send, by place.
Sends5(t) ==
    /\ t.fn \in Plainest /\ t.run = run.number
    /\ t.set = run.at["setToken"] /\ t.tokens = run.at["components"]
    /\ run.script = "01" => /\ t.fn = "deploy" /\ t.kind = "token" /\ t.token \in Components
                            /\ run.pc = 2 * t.token - 1
    /\ t.fn = "initialize" => run.script = "02" /\ run.pc = 9
    /\ run.script = "03" =>
        /\ run.pc \in {3, 6, 7}
        /\ run.pc = 3 => /\ t.fn = "create"
                         /\ t.modules = {<<IssuanceModule, run.at[IssuanceModule]>>,
                                         <<ManageModule, run.at[ManageModule]>>}
        /\ run.pc = 6 => t.fn = "initializeModule" /\ Module(t) = <<IssuanceModule, run.at[IssuanceModule]>>
        /\ run.pc = 7 => t.fn = "initializeModule" /\ Module(t) = <<ManageModule, run.at[ManageModule]>>
    /\ run.script = "04" =>
        \/ /\ t.fn = "approve" /\ t.token \in Components /\ run.pc = t.token + 1
           /\ Module(t) = <<IssuanceModule, run.at[IssuanceModule]>> /\ t.quantity = ether(t.token)
        \/ t.fn = "issue" /\ run.pc = N + 2 /\ Module(t) = <<IssuanceModule, run.at[IssuanceModule]>>
    /\ t.fn \in {"create", "initializeModule"} => run.script = "03"
    /\ t.fn = "issue" => run.script = "04"

LEMMA StepSends ==
    ASSUME OperatorInv, ScriptInv, pipeline = "steps", NEW op \in {"call", "deploy"}, At(op),
           NEW t, t = Transaction(Current)
    PROVE  Sends5(t)
  <1> DEFINE i == Current
             s == run.script
  <1>1. /\ s \in Steps /\ run.pc \in Nat \ {0} /\ i.op = op /\ Ordered(s, run.pc, i)
        /\ N \in Nat /\ Components = 1 .. N
    BY StepNext
  <1>2. /\ t.fn = i.fn /\ t.kind = i.kind /\ t.token = i.token /\ t.run = run.number
        /\ t.set = run.at["setToken"] /\ t.tokens = run.at["components"]
        /\ i.kind \in Printable => t.stack = run.at[i.kind]
        /\ i.quantity # Owned => t.quantity = i.quantity
        /\ i.fn # "initialize" => t.modules = {<<m, run.at[m]>> : m \in i.modules}
    BY TransactionReads
  <1> HIDE DEF i
  <1>3. IssuanceModule \in Printable /\ ManageModule \in Printable
    BY DEF Printable
  <1>4. \A c \in Components : _units[c] = ether(c) /\ ether(c) \in Nat
    BY EnoughMinted
  <1> DEFINE Common == /\ t.run = run.number /\ t.set = run.at["setToken"]
                       /\ t.tokens = run.at["components"]
  <1>5. CASE s = "01"
    <2>1. PICK c \in Components : run.pc = 2 * c - 1 /\ i.fn = "deploy" /\ i.kind = "token" /\ i.token = c
      BY <1>1, <1>5 DEF Ordered
    <2>2. t.fn = "deploy" /\ t.kind = "token" /\ t.token \in Components /\ run.pc = 2 * t.token - 1
      BY <1>2, <2>1
    <2> QED BY <1>2, <1>5, <2>2 DEF Sends5, Plainest
  <1>6. CASE s = "02"
    <2>1. t.fn = "deploy" \/ (run.pc = 9 /\ t.fn = "initialize")
      BY <1>1, <1>2, <1>6 DEF Ordered
    <2> QED BY <1>2, <1>6, <2>1 DEF Sends5, Plainest
  <1>7. CASE s = "03"
    <2>0. /\ run.pc \in 1 .. 7
          /\ run.pc \in {1, 2, 4, 5} => i.op \notin {"call", "deploy"}
          /\ run.pc = 3 => /\ i.op = "call" /\ i.fn = "create" /\ i.kind = "setTokenCreator"
                           /\ i.modules = {IssuanceModule, ManageModule}
          /\ run.pc = 6 => Asks(i, "initializeModule", IssuanceModule, 0, 0)
          /\ run.pc = 7 => Asks(i, "initializeModule", ManageModule, 0, 0)
      BY <1>1, <1>7 DEF Ordered
    <2>1. run.pc \in {3, 6, 7}
      <3>1. run.pc \notin {1, 2, 4, 5}
        BY <1>1, <2>0
      <3> QED BY <2>0, <3>1, SMT
    <2>2. run.pc = 3 => /\ t.fn = "create"
                        /\ t.modules = {<<IssuanceModule, run.at[IssuanceModule]>>,
                                        <<ManageModule, run.at[ManageModule]>>}
      <3> SUFFICES ASSUME run.pc = 3
                   PROVE  /\ t.fn = "create"
                          /\ t.modules = {<<IssuanceModule, run.at[IssuanceModule]>>,
                                          <<ManageModule, run.at[ManageModule]>>}
        OBVIOUS
      <3>1. i.fn = "create" /\ i.modules = {IssuanceModule, ManageModule}
        BY <2>0
      <3>2. t.modules = {<<m, run.at[m]>> : m \in {IssuanceModule, ManageModule}}
        BY <1>2, <3>1
      <3> QED BY <1>2, <3>1, <3>2
    <2>3. \A kind \in {IssuanceModule, ManageModule} : Asks(i, "initializeModule", kind, 0, 0) =>
            t.fn = "initializeModule" /\ Module(t) = <<kind, run.at[kind]>>
      BY <1>2, <1>3 DEF Asks, Module
    <2> QED BY <1>2, <1>7, <2>0, <2>1, <2>2, <2>3 DEF Sends5, Plainest
  <1>8. CASE s = "04"
    <2>1. \/ \E c \in Components : run.pc = c + 1 /\ Asks(i, "approve", IssuanceModule, c, _units[c])
          \/ run.pc = N + 2 /\ Asks(i, "issue", IssuanceModule, 0, ether(1))
      BY <1>1, <1>8 DEF Ordered
    <2>2. ASSUME NEW c \in Components, run.pc = c + 1, Asks(i, "approve", IssuanceModule, c, _units[c])
          PROVE  Sends5(t)
      <3>1. i.fn = "approve" /\ i.kind = IssuanceModule /\ i.token = c /\ i.quantity = ether(c)
        BY <1>4, <2>2 DEF Asks
      <3>2. i.quantity # Owned
        BY <1>4, <3>1, SMT DEF Owned
      <3>3. t.fn = "approve" /\ t.token = c /\ t.quantity = ether(c)
            /\ Module(t) = <<IssuanceModule, run.at[IssuanceModule]>>
        BY <1>2, <1>3, <3>1, <3>2 DEF Module
      <3> QED BY <1>2, <1>8, <2>2, <3>3 DEF Sends5, Plainest
    <2>3. ASSUME run.pc = N + 2, Asks(i, "issue", IssuanceModule, 0, ether(1)) PROVE Sends5(t)
      <3>1. t.fn = "issue" /\ Module(t) = <<IssuanceModule, run.at[IssuanceModule]>>
        BY <1>2, <1>3, <2>3 DEF Asks, Module
      <3> QED BY <1>2, <1>8, <2>3, <3>1 DEF Sends5, Plainest
    <2> QED BY <2>1, <2>2, <2>3
  <1>9. CASE s = "05"
    <2>1. t.fn \in {"approveController", "redeem"}
      BY <1>1, <1>2, <1>9 DEF Ordered
    <2> QED BY <1>2, <1>9, <2>1 DEF Sends5, Plainest
  <1> QED BY <1>1, <1>5, <1>6, <1>7, <1>8, <1>9 DEF Steps

\* Of the calls that scripts send, only approve gives an allowance and only an
\* issuance uses one.
LEMMA AllowanceStep ==
    ASSUME NEW ch, ChainInv(ch), NEW t \in Tx, t.fn \in Plainest, t.fn # "issue", NEW n, n = Execute(ch, t)
    PROVE  /\ t.fn # "approve" => n.allowance = ch.allowance
           /\ t.fn = "approve" =>
                n.allowance = [ch.allowance EXCEPT ![Module(t)][t.tokens][t.token] = t.quantity]
  <1> SUFFICES ASSUME Succeeds(ch, t)
               PROVE  /\ t.fn # "approve" => n.allowance = ch.allowance
                      /\ t.fn = "approve" =>
                            n.allowance = [ch.allowance EXCEPT ![Module(t)][t.tokens][t.token] = t.quantity]
    <2>1. CASE ~Succeeds(ch, t)
      <3>1. t.fn # "approve"
        BY <2>1 DEF Succeeds
      <3> QED BY <2>1, <3>1 DEF Execute, ChainInv, ChainType
    <2> QED BY <2>1
  <1>1. n = Effect(ch, t)
    BY DEF Execute
  <1>2. CASE t.fn = "deploy"
    <2>1. n = DeployContract(ch, t)
      BY <1>1, <1>2 DEF Effect
    <2>2. \E w : Shows(n, ch.controllers, ch.sets, w, ch.allowance)
      BY <2>1, DeployShown, Zenon
    <2> QED BY <1>2, <2>2 DEF Shows
  <1>3. CASE t.fn = "initialize"
    <2>1. n = InitializeController(ch, t)
      BY <1>1, <1>3 DEF Effect
    <2> QED BY <1>3, <2>1 DEF InitializeController, ChainInv, ChainType
  <1>4. CASE t.fn = "create"
    <2>1. n = Create(ch, t)
      BY <1>1, <1>4 DEF Effect
    <2>2. \E u, z, w : Shows(n, u, z, w, ch.allowance)
      BY <2>1, CreateShown, Zenon
    <2> QED BY <1>4, <2>2 DEF Shows
  <1>5. CASE t.fn = "initializeModule"
    <2>1. n = InitializeModule(ch, t)
      BY <1>1, <1>5 DEF Effect
    <2>2. \E u, z, w : Shows(n, u, z, w, ch.allowance)
      BY <2>1, InitializeModuleShown, Zenon
    <2> QED BY <1>5, <2>2 DEF Shows
  <1>6. CASE t.fn = "approve"
    <2>1. n = Approve(ch, t)
      BY <1>1, <1>6 DEF Effect
    <2> DEFINE a == [ch.allowance EXCEPT ![Module(t)][t.tokens][t.token] = t.quantity]
    <2>2. Shows(n, ch.controllers, ch.sets, ch.wallet, a)
      BY <2>1, ApproveShown
    <2> HIDE DEF a
    <2>3. n.allowance = a
      BY <2>2 DEF Shows
    <2> QED BY <1>6, <2>3 DEF a
  <1>7. CASE t.fn = "redeem"
    <2>1. n = Redeem(ch, t) /\ ValidAndInitialized(ch, t)
      BY <1>1, <1>7 DEF Effect, Succeeds, CanRedeem
    <2>2. t.set \in DOMAIN ch.sets
      BY <2>1, ValidInDomain
    <2>3. \E z, w : Shows(n, ch.controllers, z, w, ch.allowance)
      BY <2>1, <2>2, RedeemShown, Zenon
    <2> QED BY <1>7, <2>3 DEF Shows
  <1>8. CASE t.fn = "approveController"
    BY <1>1, <1>8 DEF Effect
  <1> QED BY <1>2, <1>3, <1>4, <1>5, <1>6, <1>7, <1>8 DEF Plainest

\* A Set that was just created for both modules.
LEMMA CreatedListed ==
    ASSUME NEW p, ChainInv(p), NEW t \in Tx, t.fn = "create", CanCreate(p, t),
           NEW iss \in t.modules, iss[1] = IssuanceModule,
           NEW n, n = Create(p, t), NEW s, s = n.created[t.run]
    PROVE  Listed(n, s) /\ t.modules \subseteq n.sets[s].pending
  <1> DEFINE k == Register(p.controllers, t.stack, Len(p.sets) + 1)
             T == NewSetToken(t)
             z == Append(p.sets, T)
  <1>1. n.created = [p.created EXCEPT ![t.run] = Len(p.sets) + 1] /\ n.sets = z /\ n.controllers = k
    <2>1. Grows(p, t, n) /\ n.sets = Append(p.sets, NewSetToken(t))
      BY CreateInv
    <2>2. \E w, a : Shows(n, k, z, w, a)
      BY CreateShown, Zenon
    <2> QED BY <2>1, <2>2 DEF Grows, Shows
  <1>2. s = Len(p.sets) + 1
    BY <1>1, ChainFields, TxFields
  <1>3. t.stack \in Runs /\ p.controllers \in [Runs -> ControllerType] /\ p.sets \in Seq(Sound)
    BY ChainFields, TxFields
  <1>4. T.stack = t.stack /\ T.pending = t.modules
    BY NewSetTokenShown
  <1> HIDE DEF T
  <1>5. s \in DOMAIN n.sets /\ n.sets[s] = T
    BY <1>1, <1>2, <1>3, SMT
  <1>6. s \in n.controllers[t.stack].sets /\ p.controllers[t.stack].modules = n.controllers[t.stack].modules
    <2>1. s \in Int
      BY <1>2, <1>3, SMT
    <2> QED BY <1>1, <1>2, <1>3, <2>1, Registered
  <1>7. <<IssuanceModule, t.stack>> \in p.controllers[t.stack].modules
    <2>1. iss \in p.controllers[t.stack].modules
      BY DEF CanCreate
    <2>2. iss[2] = t.stack
      BY <1>3, <2>1 DEF ChainInv
    <2>3. iss = <<iss[1], iss[2]>>
      BY DEF Tx, Creations
    <2> QED BY <2>1, <2>2, <2>3
  <1>8. Listed(n, s)
    BY <1>3, <1>4, <1>5, <1>6, <1>7 DEF Listed
  <1> QED BY <1>4, <1>5, <1>8

LEMMA MakingSends ==
    ASSUME OperatorInv, NEW t \in Tx, Sends5(t), run.script = "03", run.status = "running",
           NEW r, r.number = run.number, r.pc = run.pc + 1, r.at = run.at,
           NEW p, ChainInv(p), Making(p, run), Succeeds(p, t), t.set # ForeignSet \/ t.fn = "create",
           NEW n, n = Execute(p, t), ChainInv(n)
    PROVE  Making(n, r)
  <1> DEFINE s == n.created[run.number]
             iss == <<IssuanceModule, run.at[IssuanceModule]>>
             mng == <<ManageModule, run.at[ManageModule]>>
  <1>0. /\ run.number \in Runs /\ t.run = run.number /\ run.pc \in {3, 6, 7} /\ t.fn \in Plainest
        /\ t.set = run.at["setToken"]
        /\ run.pc = 3 => t.fn = "create" /\ t.modules = {iss, mng}
        /\ run.pc = 6 => t.fn = "initializeModule" /\ Module(t) = iss
        /\ run.pc = 7 => t.fn = "initializeModule" /\ Module(t) = mng
    BY TxFields DEF Sends5
  <1>1. n = Effect(p, t) /\ Onward(p, n)
    BY <1>0, ExecuteOnward DEF Execute
  <1>2. iss # mng
    BY DEF IssuanceModule, ManageModule
  <1>3. CASE run.pc = 3
    <2>1. t.fn = "create" /\ t.modules = {iss, mng} /\ n = Create(p, t) /\ CanCreate(p, t)
      BY <1>0, <1>1, <1>3 DEF Effect, Succeeds
    <2>2. Listed(n, s) /\ t.modules \subseteq n.sets[s].pending
      <3>1. PICK x, z : x = iss /\ z = s
        OBVIOUS
      <3>2. x \in t.modules /\ x[1] = IssuanceModule /\ z = n.created[t.run]
        BY <1>0, <2>1, <3>1
      <3>3. Listed(n, z) /\ t.modules \subseteq n.sets[z].pending
        BY <2>1, <3>2, CreatedListed
      <3> QED BY <3>1, <3>3
    <2>3. ~(r.pc > 5) /\ ~(r.pc > 6)
      BY <1>3
    <2>4. iss \in n.sets[s].pending /\ mng \in n.sets[s].pending
      BY <2>1, <2>2
    <2> QED BY <2>2, <2>3, <2>4 DEF Making
  <1>4. CASE run.pc \in {6, 7}
    <2>1. /\ t.fn = "initializeModule" /\ n = InitializeModule(p, t) /\ CanInitializeModule(p, t)
          /\ run.pc = 6 => Module(t) = iss
          /\ run.pc = 7 => Module(t) = mng
      BY <1>0, <1>1, <1>4 DEF Effect, Succeeds
    <2>2. n.created = p.created
      <3>1. t.fn \notin Creations
        BY <2>1 DEF Creations
      <3>2. Preserves(p, Effect(p, t))
        BY <3>1, EffectInv
      <3> QED BY <1>1, <3>2 DEF Preserves
    <2>3. /\ Listed(p, s) /\ t.set = s
          /\ run.pc = 6 => iss \in p.sets[s].pending
          /\ mng \in p.sets[s].pending
          /\ run.pc = 7 => Ready(p, s)
      <3>1. On(run, "03") /\ run.pc > 3 /\ run.pc > 5 /\ run.pc <= 7
        BY <1>4 DEF On
      <3>2. t.set \in {ForeignSet, s} /\ t.set # ForeignSet
        BY <1>0, <2>1, <2>2, <3>1 DEF Making
      <3>3. run.pc = 7 => run.pc > 6
        OBVIOUS
      <3>4. run.pc = 6 => run.pc <= 6
        OBVIOUS
      <3> QED BY <2>2, <3>1, <3>2, <3>3, <3>4 DEF Making
    <2>4. Listed(n, s) /\ (run.pc = 7 => Ready(n, s))
      BY <1>1, <2>3, ReadyLater
    <2> DEFINE S == Initialized(p.sets[s], Module(t))
    <2>5. n.sets = [p.sets EXCEPT ![s] = S]
      <3>1. \E u, v, a : Shows(n, u, [p.sets EXCEPT ![s] = S], v, a)
        BY <2>1, <2>3, InitializeModuleShown, Zenon
      <3> HIDE DEF S
      <3> QED BY <3>1 DEF Shows
    <2>6. s \in DOMAIN p.sets /\ p.sets[s] \in Sound
      <3>1. s \in DOMAIN p.sets
        BY <2>3 DEF Listed
      <3>2. p.sets \in Seq(Sound)
        BY ChainFields
      <3> QED BY <3>1, <3>2, ElementOfSeq
    <2>7. /\ S.stack = p.sets[s].stack /\ S.pending = p.sets[s].pending \ {Module(t)}
          /\ S.initialized = p.sets[s].initialized \cup {Module(t)}
      BY <2>6, ModuleMoved
    <2> HIDE DEF S
    <2>8. n.sets[s] = S
      BY <2>5, <2>6
    <2>9. CASE run.pc = 6
      <3>1. iss[2] = p.sets[s].stack
        BY <2>3, <2>6, <2>9, SoundFields
      <3>2. <<IssuanceModule, n.sets[s].stack>> \in n.sets[s].initialized
        BY <2>1, <2>7, <2>8, <2>9, <3>1
      <3>3. Ready(n, s)
        BY <2>4, <3>2, Zenon DEF Ready
      <3>4. mng \in n.sets[s].pending
        BY <1>2, <2>1, <2>3, <2>7, <2>8, <2>9
      <3>5. ~(r.pc <= 6) /\ r.at["setToken"] = s
        BY <1>0, <2>3, <2>9
      <3> QED BY <2>4, <3>3, <3>4, <3>5 DEF Making
    <2>10. CASE run.pc = 7
      <3>1. ~(r.pc <= 6) /\ ~(r.pc <= 7) /\ r.at["setToken"] = s
        BY <1>0, <2>3, <2>10
      <3> QED BY <2>4, <2>10, <3>1 DEF Making
    <2> QED BY <1>4, <2>9, <2>10
  <1> QED BY <1>0, <1>3, <1>4

LEMMA ChartSends ==
    ASSUME OperatorInv, ScriptInv, pipeline = "steps", NEW op \in {"call", "deploy"}, At(op),
           NEW t \in GentleTx, t = Transaction(Current), Advanced, run'.at = run.at, OperatorInv',
           NEW p, ChainInv(p), Len(p.sets) <= Cardinality(SetIds),
           t.fn \in Creations => Len(p.sets) < Cardinality(SetIds),
           NEW n, n = Execute(p, t), ChainInv(n),
           NEW lists, NEW done, Chart(p, run, lists, done),
           t.fn \in {"create", "initializeModule"} => Succeeds(p, t) /\ (t.set # ForeignSet \/ t.fn = "create")
    PROVE  Chart(n, run', lists, done)
  <1>1. /\ run.script \in Steps /\ run.status = "running" /\ run.number \in Runs /\ run.number \in Nat \ {0}
        /\ run.pc \in Nat \ {0} /\ run.pc <= Len(Program(run.script)) /\ N \in Nat /\ Components = 1 .. N
        /\ run.script = "04" => Len(Program(run.script)) = N + 2
    BY StepNext
  <1>2. Sends5(t) /\ t \in Tx
    BY StepSends DEF GentleTx
  <1>3. /\ run'.script = run.script /\ run'.number = run.number /\ run'.status = "running"
        /\ run'.pc = run.pc + 1
    BY DEF Advanced
  <1>4. \A script : On(run', script) <=> On(run, script)
    BY <1>1, <1>3 DEF On
  <1>5. t.fn \in Plainest /\ t.run = run.number
    BY <1>2 DEF Sends5
  <1>6. /\ Onward(p, n) /\ Unlocked(n) /\ Pristine(n)
        /\ \A r \in Runs : n.controllers[r].initialized =>
             p.controllers[r].initialized \/ (t.fn = "initialize" /\ r = t.run)
    <2>1. Pristine(n)
      BY GentleStep DEF Chart
    <2> QED BY <1>2, <1>5, <2>1, ExecuteOnward DEF Chart
  <1>7. Backing(n, run', lists)
    <2>0. Spent(run) \in Nat /\ Backing(p, run, lists) /\ Pristine(p)
      BY SpentNat DEF OperatorInv, Chart
    <2>1. /\ t.fn = "issue" => Spent(run') = Spent(run) + 1
          /\ t.fn # "issue" => Spent(run') = Spent(run)
      <3>1. CASE run.script = "04"
        <4>1. \/ t.fn = "approve" /\ run.pc \in Nat /\ run.pc <= N + 1
              \/ t.fn = "issue" /\ run.pc = N + 2
          <5>1. \A c \in Components : c \in Nat /\ c <= N
            BY <1>1, SMT
          <5>2. \/ t.fn = "approve" /\ t.token \in Components /\ run.pc = t.token + 1
                \/ t.fn = "issue" /\ run.pc = N + 2
            BY <1>2, <3>1 DEF Sends5
          <5> QED BY <1>1, <5>1, <5>2, SMT
        <4>2. On(run, "04") /\ On(run', "04")
          BY <1>1, <1>4, <3>1 DEF On
        <4>3. CASE t.fn = "approve"
          <5>1. run.pc <= N + 2 /\ run'.pc <= N + 2
            BY <1>1, <1>3, <4>1, <4>3, SMT
          <5> QED BY <1>3, <4>2, <4>3, <5>1 DEF Spent
        <4>4. CASE t.fn = "issue"
          <5>1. run.pc <= N + 2 /\ ~(run'.pc <= N + 2)
            BY <1>1, <1>3, <4>1, <4>4, SMT
          <5>2. Spent(run) = run.number - 1 /\ Spent(run') = run.number
            BY <1>3, <4>2, <5>1 DEF Spent
          <5> QED BY <1>1, <4>4, <5>2, SMT
        <4> QED BY <4>1, <4>3, <4>4
      <3>2. CASE run.script # "04"
        <4>1. t.fn # "issue"
          BY <1>2, <3>2 DEF Sends5
        <4>2. ~On(run, "04") /\ ~On(run', "04")
          BY <1>4, <3>2 DEF On
        <4> QED BY <1>3, <4>1, <4>2 DEF Spent
      <3> QED BY <3>1, <3>2
    <2>2. \A g \in Runs, c \in Components : Backed(p, g, c, Spent(run)) => Backed(n, g, c, Spent(run'))
      <3> SUFFICES ASSUME NEW g \in Runs, NEW c \in Components, Backed(p, g, c, Spent(run))
                   PROVE  Backed(n, g, c, Spent(run'))
        OBVIOUS
      <3>1. Backed(n, g, c, IF t.fn = "issue" THEN Spent(run) + 1 ELSE Spent(run))
        BY <1>5, <2>0, BackedStep
      <3> QED BY <2>1, <3>1
    <2>3. \A c \in Components, g \in lists : g \in Runs /\ Backed(n, g, c, Spent(run'))
      BY <2>0, <2>2 DEF Backing
    <2>4. ASSUME On(run, "01"), NEW c \in Components, 2 * c - 1 < run'.pc
          PROVE  Backed(n, run.number, c, Spent(run'))
      <3>1. /\ t.fn = "deploy" /\ t.kind = "token" /\ t.token \in Components /\ run.pc = 2 * t.token - 1
        BY <1>2, <2>4 DEF Sends5, On
      <3>2. CASE c = t.token
        <4>1. Backed(n, run.number, c, Spent(run))
          BY <1>1, <1>5, <2>0, <3>1, <3>2, BackedStep
        <4> QED BY <2>1, <3>1, <4>1
      <3>3. CASE c # t.token
        <4>1. 2 * c - 1 < run.pc
          BY <1>1, <1>3, <2>4, <3>1, <3>3, SMT
        <4> QED BY <1>1, <2>0, <2>2, <2>4, <4>1 DEF Backing
      <3> QED BY <3>2, <3>3
    <2> QED BY <1>3, <1>4, <2>3, <2>4 DEF Backing
  <1>8. Unfounded(n, run')
    <2>1. Unfounded(p, run)
      BY DEF Chart
    <2> SUFFICES ASSUME NEW r \in Runs, n.controllers[r].initialized
                 PROVE  r < run'.number \/ (r = run'.number /\ ~(On(run', "02") /\ run'.pc <= 9))
      BY DEF Unfounded
    <2>2. CASE p.controllers[r].initialized
      <3>1. run'.pc <= 9 => run.pc <= 9
        BY <1>1, <1>3, SMT
      <3> QED BY <1>3, <1>4, <2>1, <2>2, <3>1 DEF Unfounded
    <2>3. CASE t.fn = "initialize" /\ r = t.run
      <3>1. run.pc = 9
        BY <1>2, <2>3 DEF Sends5
      <3>2. ~(run'.pc <= 9)
        BY <1>3, <3>1
      <3> QED BY <1>3, <1>5, <2>3, <3>2
    <2> QED BY <1>6, <2>2, <2>3
  <1>9. Making(n, run')
    <2>1. CASE run.script = "03"
      <3>1. t.fn \in {"create", "initializeModule"}
        BY <1>2, <2>1 DEF Sends5
      <3>2. Making(p, run)
        BY DEF Chart
      <3> QED BY <1>1, <1>2, <1>3, <2>1, <3>1, <3>2, MakingSends
    <2>2. CASE run.script # "03"
      BY <1>4, <2>2 DEF Making, On
    <2> QED BY <2>1, <2>2
  <1>10. Allowing(n, run', lists)
    <2> SUFFICES ASSUME On(run, "04") PROVE Allowing(n, run', lists)
      BY <1>4 DEF Allowing
    <2> DEFINE m == <<IssuanceModule, run.at[IssuanceModule]>>
               g == run.at["components"]
    <2>1. /\ g \in lists
          /\ run.pc <= N + 2 => \A c \in Components : c + 1 < run.pc => p.allowance[m][g][c] = ether(c)
      BY DEF Chart, Allowing
    <2>2. \/ t.fn = "approve" /\ t.token \in Components /\ run.pc = t.token + 1
             /\ Module(t) = m /\ t.quantity = ether(t.token)
          \/ t.fn = "issue" /\ run.pc = N + 2
      BY <1>2 DEF Sends5, On
    <2>3. CASE t.fn = "issue" /\ run.pc = N + 2
      <3>1. ~(run'.pc <= N + 2)
        BY <1>1, <1>3, <2>3, SMT
      <3> QED BY <2>1, <3>1 DEF Allowing
    <2>4. CASE /\ t.fn = "approve" /\ t.token \in Components /\ run.pc = t.token + 1
               /\ Module(t) = m /\ t.quantity = ether(t.token)
      <3>1. n.allowance = [p.allowance EXCEPT ![m][g][t.token] = ether(t.token)]
        <4>1. t.tokens = g
          BY <1>2 DEF Sends5
        <4>2. t.fn # "issue"
          BY <2>4
        <4>3. n.allowance = [p.allowance EXCEPT ![Module(t)][t.tokens][t.token] = t.quantity]
          BY <1>2, <1>5, <2>4, <4>2, AllowanceStep
        <4> QED BY <2>4, <4>1, <4>3
      <3>2. m \in {IssuanceModule, ManageModule} \X Runs /\ g \in Runs
        <4>1. g \in Runs
          <5>1. 1 \in Components
            BY <1>1, EtherNat, SMT
          <5> QED BY <2>1, <5>1 DEF Chart, Backing
        <4>2. run.at[IssuanceModule] \in Runs
          BY <1>1 DEF OperatorInv, RunOK, Addressed
        <4> QED BY <4>1, <4>2
      <3>3. p.allowance \in [{IssuanceModule, ManageModule} \X Runs -> [Runs -> [Components -> Int]]]
        BY ChainFields
      <3> HIDE DEF m, g
      <3>4. \A c \in Components : n.allowance[m][g][c] = IF c = t.token THEN ether(t.token) ELSE p.allowance[m][g][c]
        BY <2>4, <3>1, <3>2, <3>3
      <3>5. ASSUME NEW c \in Components, c + 1 < run'.pc PROVE n.allowance[m][g][c] = ether(c)
        <4>1. CASE c = t.token
          BY <3>4, <4>1
        <4>2. CASE c # t.token
          <5>1. c + 1 < run.pc /\ run.pc <= N + 2
            BY <1>1, <1>3, <2>4, <3>5, <4>2, SMT
          <5> QED BY <2>1, <3>4, <4>2, <5>1
        <4> QED BY <4>1, <4>2
      <3> QED BY <2>1, <3>5 DEF Allowing, m, g
    <2> QED BY <2>2, <2>3, <2>4
  <1>11. Finished(n, done)
    BY <1>6, ReadyLater DEF Chart, Finished
  <1> QED BY <1>6, <1>7, <1>8, <1>9, <1>10, <1>11 DEF Chart

\* A stranger's copy, as script 03 is about to read the address.
LEMMA ChartCopied ==
    ASSUME OperatorInv, On(run, "03"), run.pc = 5,
           NEW t \in GentleTx, t.fn = "create", t.run = run.number,
           t.modules = {<<IssuanceModule, run.at[IssuanceModule]>>, <<ManageModule, run.at[ManageModule]>>},
           NEW p, ChainInv(p), Succeeds(p, t), Len(p.sets) <= Cardinality(SetIds),
           Len(p.sets) < Cardinality(SetIds),
           NEW n, n = Execute(p, t), ChainInv(n), NEW lists, NEW done, Chart(p, run, lists, done)
    PROVE  Chart(n, run, lists, done)
  <1>1. /\ t \in Tx /\ t.fn \in Plainest /\ t.fn # "initialize" /\ t.fn # "issue"
        /\ ~On(run, "01") /\ ~On(run, "04")
    BY DEF GentleTx, Plainest, On
  <1>2. /\ Onward(p, n) /\ Unlocked(n) /\ Pristine(n)
        /\ \A r \in Runs : n.controllers[r].initialized => p.controllers[r].initialized
    <2>1. Pristine(n)
      BY GentleStep DEF Chart
    <2> QED BY <1>1, <2>1, ExecuteOnward DEF Chart
  <1>3. Backing(n, run, lists)
    <2>1. Spent(run) \in Nat /\ Backing(p, run, lists) /\ Pristine(p)
      BY SpentNat DEF OperatorInv, Chart
    <2>2. ASSUME NEW g \in Runs, NEW c \in Components, Backed(p, g, c, Spent(run))
          PROVE  Backed(n, g, c, Spent(run))
      <3>1. Backed(n, g, c, IF t.fn = "issue" THEN Spent(run) + 1 ELSE Spent(run))
        BY <1>1, <2>1, <2>2, BackedStep
      <3> QED BY <1>1, <3>1
    <2> QED BY <1>1, <2>1, <2>2 DEF Backing
  <1>4. Unfounded(n, run)
    BY <1>2 DEF Chart, Unfounded
  <1>5. Making(n, run)
    <2>1. n = Create(p, t) /\ CanCreate(p, t)
      BY DEF Execute, Effect, Succeeds
    <2>2. Listed(n, n.created[run.number]) /\ t.modules \subseteq n.sets[n.created[run.number]].pending
      <3>1. PICK x, z : x = <<IssuanceModule, run.at[IssuanceModule]>> /\ z = n.created[run.number]
        OBVIOUS
      <3>2. x \in t.modules /\ x[1] = IssuanceModule /\ z = n.created[t.run]
        BY <3>1
      <3>3. Listed(n, z) /\ t.modules \subseteq n.sets[z].pending
        BY <1>1, <2>1, <3>2, CreatedListed
      <3> QED BY <3>1, <3>3
    <2>3. ~(run.pc > 5) /\ ~(run.pc > 6)
      OBVIOUS
    <2> QED BY <2>2, <2>3 DEF Making
  <1>6. Allowing(n, run, lists) /\ Finished(n, done)
    BY <1>1, <1>2, ReadyLater DEF Allowing, Chart, Finished
  <1> QED BY <1>2, <1>3, <1>4, <1>5, <1>6 DEF Chart

-----------------------------------------------------------------------------
(* The queue, replayed *)

\* w holds the chain before each queued transaction, logs aside.
Replays(w, ch, queue, p, pipe) ==
    /\ w[1] = Unlogged(ch) /\ w[Len(queue) + 1] = Unlogged(p)
    /\ \A j \in 1 .. Len(queue) : w[j + 1] = Unlogged(Execute(w[j], queue[j]))
    /\ pipe = "steps" => \A j \in 1 .. Len(queue) :
            Onward(w[j], w[j + 1]) /\ Onward(w[j], w[Len(queue) + 1])

LEMMA ReplaySpans ==
    ASSUME NEW w, NEW ch, ChainInv(ch), NEW queue \in Seq(Tx), NEW p, ChainInv(p), NEW pipe,
           Replays(w, ch, queue, p, pipe)
    PROVE  /\ queue = << >> => SameBooks(ch, p)
           /\ pipe = "steps" => Onward(ch, p)
  <1> DEFINE a == Unlogged(ch)
             b == Unlogged(p)
             L == Len(queue)
  <1>1. SameBooks(ch, a) /\ SameBooks(p, b)
    BY UnloggedFields
  <1>2. SameBooks(b, p) /\ SameBooks(a, ch)
    BY <1>1 DEF SameBooks
  <1>3. /\ L \in Nat /\ (queue = << >> => L = 0) /\ w[1] = a /\ w[L + 1] = b
        /\ pipe = "steps" => \A j \in 1 .. L : Onward(w[j], w[L + 1])
    BY EmptySeq, LenProperties DEF Replays
  <1> HIDE DEF a, b, L
  <1>4. L = 0 => a = b
    <2>1. 0 + 1 = 1
      BY SMT
    <2> QED BY <1>3, <2>1
  <1>5. queue = << >> => SameBooks(ch, p)
    BY <1>1, <1>2, <1>3, <1>4 DEF SameBooks
  <1>6. ASSUME pipe = "steps" PROVE Onward(ch, p)
    <2>1. Onward(a, b)
      <3>1. CASE L = 0
        BY <1>4, <3>1, OnwardOrder
      <3>2. CASE L # 0
        <4>1. 1 \in 1 .. L
          BY <1>3, <3>2, SMT
        <4> QED BY <1>3, <1>6, <4>1
      <3> QED BY <3>1, <3>2
    <2>2. Onward(a, p)
      BY <1>2, <2>1, OnwardOrder
    <2> QED BY <1>2, <2>2, OnwardOrder
  <1> QED BY <1>5, <1>6

\* One more is sent.
Lengthens(w, ch, queue, more, n, pipe) ==
    \E v \in [Nat -> ChainType] :
        /\ Replays(v, ch, more, n, pipe)
        /\ \A j \in 1 .. Len(queue) + 1 : v[j] = w[j]

LEMMA ReplayAppends ==
    ASSUME NEW w \in [Nat -> ChainType], NEW ch, NEW queue \in Seq(Tx), NEW p, NEW pipe,
           Replays(w, ch, queue, p, pipe), NEW t \in Tx,
           NEW n, n = Execute(Unlogged(p), t), ChainInv(n),
           pipe = "steps" => Onward(Unlogged(p), n), NEW more, more = Append(queue, t)
    PROVE  Lengthens(w, ch, queue, more, n, pipe)
  <1> DEFINE L == Len(queue)
             b == Unlogged(p)
             c == Unlogged(n)
             v == [w EXCEPT ![L + 2] = c]
  <1>1. L \in Nat /\ Len(more) = L + 1 /\ more[L + 1] = t /\ \A j \in 1 .. L : more[j] = queue[j]
    BY AppendProperties, LenProperties
  <1>2. c \in ChainType /\ SameBooks(n, c)
    BY UnloggedFields DEF ChainInv
  <1>3. /\ w[1] = Unlogged(ch) /\ w[L + 1] = b
        /\ \A j \in 1 .. L : w[j + 1] = Unlogged(Execute(w[j], queue[j]))
        /\ pipe = "steps" => \A j \in 1 .. L : Onward(w[j], w[j + 1]) /\ Onward(w[j], b)
    BY DEF Replays
  <1>4. c = Unlogged(Execute(b, t))
    OBVIOUS
  <1>5. pipe = "steps" => Onward(b, c)
    BY <1>2, OnwardOrder
  <1> HIDE DEF L, b, c
  <1>6. /\ L + 2 \in Nat /\ L + 1 + 1 = L + 2 /\ 1 \in 1 .. L + 1 /\ L + 1 \in 1 .. L + 1
        /\ \A j \in 1 .. L + 1 : j \in Nat /\ j # L + 2 /\ (j \in 1 .. L \/ j = L + 1)
        /\ \A j \in 1 .. L : j \in 1 .. L + 1 /\ j + 1 \in 1 .. L + 1
    BY <1>1, SMT
  <1>7. /\ v \in [Nat -> ChainType] /\ v[L + 2] = c
        /\ \A j \in Nat : j # L + 2 => v[j] = w[j]
    BY <1>2, <1>6
  <1> HIDE DEF v
  <1>8. \A j \in 1 .. L + 1 : v[j] = w[j]
    BY <1>6, <1>7
  <1>9. v[1] = Unlogged(ch) /\ v[Len(more) + 1] = c
    BY <1>1, <1>3, <1>6, <1>7, <1>8
  <1>10. \A j \in 1 .. L + 1 : v[j + 1] = Unlogged(Execute(v[j], more[j]))
    <2>1. \A j \in 1 .. L : v[j + 1] = Unlogged(Execute(v[j], more[j]))
      BY <1>1, <1>3, <1>6, <1>8
    <2>2. v[L + 1 + 1] = Unlogged(Execute(v[L + 1], more[L + 1]))
      BY <1>1, <1>3, <1>4, <1>6, <1>7, <1>8
    <2> QED BY <1>6, <2>1, <2>2
  <1>11. ASSUME pipe = "steps", NEW j \in 1 .. L + 1
         PROVE  Onward(v[j], v[j + 1]) /\ Onward(v[j], c)
    <2>1. CASE j = L + 1
      BY <1>3, <1>5, <1>6, <1>7, <1>8, <1>11, <2>1
    <2>2. CASE j \in 1 .. L
      <3>1. v[j] = w[j] /\ v[j + 1] = w[j + 1] /\ Onward(w[j], w[j + 1]) /\ Onward(w[j], b)
        BY <1>3, <1>6, <1>8, <1>11, <2>2
      <3>2. Onward(w[j], c)
        BY <1>5, <1>11, <3>1, OnwardOrder
      <3> QED BY <3>1, <3>2
    <2> QED BY <1>6, <2>1, <2>2
  <1>12. Replays(v, ch, more, n, pipe)
    <2>1. Len(more) = L + 1 /\ v[Len(more) + 1] = Unlogged(n)
      BY <1>1, <1>9 DEF c
    <2>2. pipe = "steps" => \A j \in 1 .. L + 1 : Onward(v[j], v[j + 1]) /\ Onward(v[j], v[Len(more) + 1])
      BY <1>9, <1>11
    <2> QED BY <1>9, <1>10, <2>1, <2>2 DEF Replays
  <1> QED BY <1>7, <1>8, <1>12 DEF L, Lengthens

\* The first is mined.
Shortens(w, queue, n, rest, p, pipe) ==
    \E v \in [Nat -> ChainType] :
        /\ Replays(v, n, rest, p, pipe)
        /\ \A j \in 1 .. Len(rest) : /\ v[j] = w[j + 1] /\ rest[j] = queue[j + 1]
                                     /\ j + 1 \in 1 .. Len(queue)

LEMMA ReplayShifts ==
    ASSUME NEW w \in [Nat -> ChainType], NEW ch, NEW queue \in Seq(Tx), queue # << >>, NEW p, NEW pipe,
           Replays(w, ch, queue, p, pipe), NEW n, n = Execute(Unlogged(ch), Head(queue)),
           NEW rest, rest = Tail(queue)
    PROVE  /\ w[1] = Unlogged(ch) /\ 1 \in 1 .. Len(queue) /\ queue[1] = Head(queue)
           /\ w[2] = Unlogged(n) /\ (pipe = "steps" => Onward(w[1], w[2]))
           /\ Shortens(w, queue, n, rest, p, pipe)
  <1> DEFINE L == Len(queue)
             v == [k \in Nat |-> w[k + 1]]
  <1>1. /\ L \in Nat \ {0} /\ Len(rest) = L - 1 /\ Head(queue) = queue[1]
        /\ \A j \in 1 .. L - 1 : rest[j] = queue[j + 1]
    <2>1. \A j \in 1 .. Len(rest) : rest[j] = queue[j + 1]
      BY HeadTailProperties
    <2>2. Len(rest) = L - 1
      BY HeadTailProperties
    <2> QED BY <2>1, <2>2, EmptySeq
  <1>2. /\ w[1] = Unlogged(ch) /\ w[L + 1] = Unlogged(p)
        /\ \A j \in 1 .. L : w[j + 1] = Unlogged(Execute(w[j], queue[j]))
        /\ pipe = "steps" => \A j \in 1 .. L : Onward(w[j], w[j + 1]) /\ Onward(w[j], w[L + 1])
    BY DEF Replays
  <1> HIDE DEF L
  <1>3. /\ 1 \in 1 .. L /\ 1 + 1 = 2 /\ L - 1 + 1 = L /\ L \in Nat /\ 1 \in Nat
        /\ \A j \in 1 .. L - 1 : j \in Nat /\ j + 1 \in Nat /\ j + 1 \in 1 .. L
    BY <1>1, SMT
  <1>4. w[2] = Unlogged(n) /\ (pipe = "steps" => Onward(w[1], w[2]))
    BY <1>1, <1>2, <1>3
  <1>5. v \in [Nat -> ChainType] /\ \A k \in Nat : v[k] = w[k + 1]
    <2>1. \A k \in Nat : k + 1 \in Nat
      BY SMT
    <2> QED BY <2>1
  <1> HIDE DEF v
  <1>6. v[1] = Unlogged(n) /\ v[L - 1 + 1] = Unlogged(p)
    BY <1>2, <1>3, <1>4, <1>5
  <1>7. \A j \in 1 .. L - 1 : v[j + 1] = Unlogged(Execute(v[j], rest[j]))
    BY <1>1, <1>2, <1>3, <1>5
  <1>8. pipe = "steps" => \A j \in 1 .. L - 1 : Onward(v[j], v[j + 1]) /\ Onward(v[j], v[L - 1 + 1])
    BY <1>2, <1>3, <1>5
  <1>9. Replays(v, n, rest, p, pipe)
    BY <1>1, <1>6, <1>7, <1>8 DEF Replays
  <1>10. \A j \in 1 .. Len(rest) : v[j] = w[j + 1] /\ rest[j] = queue[j + 1] /\ j + 1 \in 1 .. L
    BY <1>1, <1>3, <1>5
  <1> QED BY <1>1, <1>2, <1>3, <1>4, <1>5, <1>9, <1>10 DEF L, Shortens

-----------------------------------------------------------------------------
(* What excuses a failure *)

\* The Set that script 03 is initializing.
Working(ch, r, s) == On(r, "03") /\ ch.created[r.number] = s

\* As SilentFailures has it, of a Set that nobody will get to initialize later.
Mismatched(t, ch, done, r) ==
    \/ t.set = ForeignSet
    \/ /\ t.set \in DOMAIN ch.sets /\ ~Working(ch, r, t.set)
       /\ \/ ch.sets[t.set].stack # t.stack
          \/ ch.sets[t.set].tokens # t.tokens
          \/ ~ \E d \in done : d.script = "03" /\ d.set = t.set

Excused(t, ch, done, r, net, pipe) ==
    \/ pipe = "steps" /\ t.fn = "issue" /\ Mismatched(t, ch, done, r)
    \/ t.fn = "redeem" /\ net.node = "live" /\ net.dryRun = "latest"

Keeps(a, b, done, finished, r, q) ==
    /\ \A s \in DOMAIN a.sets :
        /\ s \in DOMAIN b.sets /\ b.sets[s].stack = a.sets[s].stack /\ b.sets[s].tokens = a.sets[s].tokens
        /\ Working(b, q, s) => Working(a, r, s)
    /\ \A d \in finished : d.script = "03" => d \in done \/ Working(a, r, d.set)

LEMMA ExcusedStays ==
    ASSUME NEW a, NEW b, NEW done, NEW finished, NEW r, NEW q, NEW net, NEW pipe,
           pipe = "steps" => Keeps(a, b, done, finished, r, q),
           NEW t, Excused(t, a, done, r, net, pipe)
    PROVE  Excused(t, b, finished, q, net, pipe)
  <1> SUFFICES ASSUME pipe = "steps", Mismatched(t, a, done, r), t.set # ForeignSet
               PROVE  Mismatched(t, b, finished, q)
    BY DEF Excused, Mismatched
  <1>1. Keeps(a, b, done, finished, r, q)
    OBVIOUS
  <1>2. t.set \in DOMAIN a.sets /\ ~Working(a, r, t.set)
    BY DEF Mismatched
  <1>3. /\ t.set \in DOMAIN b.sets /\ b.sets[t.set].stack = a.sets[t.set].stack
        /\ b.sets[t.set].tokens = a.sets[t.set].tokens /\ ~Working(b, q, t.set)
    BY <1>1, <1>2 DEF Keeps
  <1>4. \A d \in finished : d.script = "03" /\ d.set = t.set => d \in done
    BY <1>1, <1>2 DEF Keeps
  <1> QED BY <1>3, <1>4 DEF Mismatched

-----------------------------------------------------------------------------
(* What a script sends succeeds, or is excused                               *)

\* No earlier issuance is in the way of the k-th.
LEMMA EnoughLeft ==
    ASSUME NEW p, ChainInv(p), NEW g \in Runs, NEW c \in Components, NEW k \in Nat,
           k + 1 <= Cardinality(Runs), Backed(p, g, c, k)
    PROVE  ether(c) <= p.wallet[g][c]
  <1> DEFINE M == Cardinality(Runs)
             E == ether(N)
             e == ether(c)
             x == p.wallet[g][c]
  <1>1. /\ M \in Nat /\ E \in Nat /\ e \in Nat /\ e <= E /\ INITIAL_BALANCE \in Nat /\ ether(4) \in Nat
        /\ M * E + ether(4) <= INITIAL_BALANCE
    <2>1. _units[c] = e /\ _units[c] \in Nat /\ _units[c] <= E /\ E \in Nat /\ INITIAL_BALANCE \in Nat
      BY EnoughMinted
    <2>2. M \in Nat
      BY SetIdsShown
    <2>3. ether(4) \in Nat
      BY EtherNat
    <2>4. M * E + ether(4) <= INITIAL_BALANCE
      BY EnoughMinted
    <2> QED BY <2>1, <2>2, <2>3, <2>4
  <1>2. x \in Nat /\ INITIAL_BALANCE <= x + k * e /\ k + 1 <= M
    BY ChainFields DEF Backed
  <1> DEFINE f == ether(4)
  <1>3. f \in Nat /\ M * E + f <= INITIAL_BALANCE
    BY <1>1
  <1> HIDE DEF M, E, e, x, f
  <1>4. k * e <= k * E
    <2>1. E - e \in Nat
      BY <1>1, SMT
    <2>2. k * (E - e) \in Nat
      BY <2>1, SMT
    <2>3. k * (E - e) = k * E - k * e
      BY <1>1, SMT
    <2>4. k * E \in Nat /\ k * e \in Nat
      BY <1>1, SMT
    <2> QED BY <2>2, <2>3, <2>4, SMT
  <1>5. k * E + E <= M * E
    <2>1. M - (k + 1) \in Nat
      BY <1>1, <1>2, SMT
    <2>2. (M - (k + 1)) * E \in Nat
      BY <1>1, <2>1, SMT
    <2>3. (M - (k + 1)) * E = M * E - (k * E + E)
      BY <1>1, SMT
    <2>4. k * E \in Nat /\ M * E \in Nat
      BY <1>1, SMT
    <2> QED BY <1>1, <2>2, <2>3, <2>4, SMT
  <1>6. k * e \in Nat /\ k * E \in Nat /\ M * E \in Nat
    BY <1>1, SMT
  <1>7. e <= x
    BY <1>1, <1>2, <1>3, <1>4, <1>5, <1>6, SMT
  <1> QED BY <1>7 DEF e, x

\* issue, sent without a dry run.
LEMMA IssuanceForeseen ==
    ASSUME OperatorInv, run.script = "04", run.status = "running", run.pc \in Nat,
           NEW t \in GentleTx, t.fn = "issue", Sends5(t),
           NEW p, ChainInv(p), Onward(chain, p), NEW lists, NEW done, Chart(p, run, lists, done),
           run.at["setToken"] \in {ForeignSet} \cup DOMAIN chain.sets
    PROVE  Succeeds(p, t) \/ Mismatched(t, chain, done, run)
  <1> DEFINE s == t.set
             T == p.sets[s]
             m == <<IssuanceModule, run.at[IssuanceModule]>>
             g == run.at["components"]
  <1>1. /\ run.pc = N + 2 /\ Module(t) = m /\ s = run.at["setToken"] /\ t.tokens = g
        /\ t.kind = IssuanceModule /\ t.quantity = ether(1) /\ t \in Tx /\ N \in Nat
    BY EtherNat DEF Sends5, GentleTx
  <1>2. t.stack = run.at[IssuanceModule]
    BY <1>1 DEF Module
  <1> SUFFICES ASSUME ~Mismatched(t, chain, done, run)
               PROVE  CanIssue(p, t)
    BY DEF Succeeds
  <1>3. s \in DOMAIN chain.sets
    BY <1>1 DEF Mismatched
  <1>4. ~Working(chain, run, s)
    BY DEF Working, On
  <1>5. /\ chain.sets[s].stack = t.stack /\ chain.sets[s].tokens = t.tokens
        /\ \E d \in done : d.script = "03" /\ d.set = s
    BY <1>3, <1>4 DEF Mismatched
  <1>6. s \in DOMAIN p.sets /\ T.stack = t.stack /\ T.tokens = t.tokens
    BY <1>3, <1>5 DEF Onward, Later
  <1>7. Ready(p, s)
    BY <1>5 DEF Chart, Finished
  <1>8. T \in Sound /\ ~Handled(T) /\ ~T.isLocked
    BY <1>6, ChainFields, LenProperties DEF Chart, Pristine, Plainly, Unlocked
  <1>9. ValidAndInitialized(p, t)
    <2>1. /\ s \in p.controllers[t.stack].sets
          /\ <<IssuanceModule, t.stack>> \in p.controllers[t.stack].modules
          /\ <<IssuanceModule, t.stack>> \in T.initialized
      BY <1>6, <1>7 DEF Ready, Listed
    <2> QED BY <1>1, <1>6, <2>1 DEF ValidAndInitialized, ValidSet, Module
  <1>10. ASSUME NEW c \in Components
         PROVE  Spendable(p, t, c, Taken(p, t, c))
    <2>1. Taken(p, t, c) = _units[c] /\ _units[c] = ether(c) /\ c \in Nat /\ c + 1 < N + 2
      <3>1. Taken(p, t, c) = _units[c]
        BY <1>1, <1>6, <1>8, PlainAmounts
      <3>2. c \in 1 .. N
        BY EtherNat
      <3>3. c \in Nat /\ c + 1 < N + 2
        BY <1>1, <3>2, SMT
      <3> QED BY <3>1, <3>3, EtherNat
    <2>2. /\ g \in lists /\ p.allowance[m][g][c] = ether(c)
      <3>1. On(run, "04") /\ run.pc <= N + 2 /\ c + 1 < run.pc
        BY <1>1, <2>1, SMT DEF On
      <3> QED BY <3>1 DEF Chart, Allowing
    <2>3. g \in Runs /\ Backed(p, g, c, Spent(run))
      BY <2>2 DEF Chart, Backing
    <2>4. Spent(run) \in Nat /\ Spent(run) + 1 <= Cardinality(Runs)
      <3>1. run.number \in Nat \ {0} /\ run.number <= Cardinality(Runs)
        <4>1. run.number \in Runs
          BY DEF OperatorInv, RunOK
        <4>2. run.number \in 1 .. Cardinality(Runs) /\ Cardinality(Runs) \in Nat
          <5> DEFINE last == Cardinality(Steps) + MaxReruns
          <5>1. last \in Nat /\ 1 \in Nat /\ Runs = 1 .. last
            BY RunCounts, SMT
          <5> HIDE DEF last
          <5>2. Cardinality(Runs) = last
            BY <5>1, FS_Interval, SMT
          <5> QED BY <4>1, <5>1, <5>2
        <4> QED BY <4>2, SMT
      <3>2. On(run, "04") /\ run.pc <= N + 2
        BY <1>1, SMT DEF On
      <3>3. Spent(run) = run.number - 1
        BY <3>2 DEF Spent
      <3>4. Cardinality(Runs) \in Nat
        BY SetIdsShown
      <3> QED BY <3>1, <3>3, <3>4, SMT
    <2>5. ether(c) <= p.wallet[g][c]
      BY <2>3, <2>4, EnoughLeft
    <2>6. ether(c) <= p.allowance[m][g][c]
      <3>1. ether(c) \in Nat
        BY <2>1, EtherNat
      <3> QED BY <2>2, <3>1
    <2> QED BY <1>1, <1>6, <2>1, <2>5, <2>6 DEF Spendable
  <1>11. t.quantity > 0
    <2>1. ether(1) \in Nat \ {0}
      BY EtherFacts
    <2> QED BY <1>1, <2>1
  <1> QED BY <1>8, <1>9, <1>10, <1>11 DEF CanIssue

\* The calls that the library dry-runs.
LEMMA DryRun ==
    ASSUME OperatorInv, NEW op \in {"call", "deploy"}, At(op), op = "call" => DryRunPasses(Current),
           NEW t, t = Transaction(Current),
           t.fn = "redeem" \/ (run.script \notin {"04", "11"} /\ t.fn # "deploy")
    PROVE  Succeeds(Estimated, t)
  <1>1. /\ run.script \in ScriptNames /\ run.pc \in 1 .. Len(Program(run.script))
        /\ Current = Program(run.script)[run.pc] /\ Current.op = op /\ Current \in Any
    BY NextInstruction DEF OperatorInv
  <1>2. t.fn = Current.fn
    BY NextTransaction DEF OperatorInv
  <1>3. op = "call" /\ Current.checked
    <2>1. CASE t.fn = "redeem"
      BY <1>1, <1>2, <2>1 DEF Any
    <2>2. CASE run.script \notin {"04", "11"} /\ t.fn # "deploy"
      <3>1. Program(run.script) \in Seq(Careful)
        BY <1>1, <2>2, GentlePrograms
      <3>2. Current \in Careful
        BY <1>1, <3>1, LenProperties
      <3> QED BY <1>1, <1>2, <2>2, <3>2 DEF Careful
    <2> QED BY <2>1, <2>2
  <1> QED BY <1>3 DEF DryRunPasses

\* What was queued before it may be in the way of redeem.
LEMMA RedemptionForeseen ==
    ASSUME NetworkInv, OperatorInv, network.dryRun \in {"latest", "pending"}, NEW op \in {"call", "deploy"},
           At(op), op = "call" => DryRunPasses(Current), NEW t, t = Transaction(Current), t.fn = "redeem"
    PROVE  Succeeds(pending, t) \/ (network.node = "live" /\ network.dryRun = "latest")
  <1>1. Succeeds(Estimated, t)
    BY DryRun
  <1>2. network.node = "local" => chain = pending
    BY DEF NetworkInv
  <1>3. Estimated = pending \/ (network.node = "live" /\ network.dryRun = "latest")
    BY <1>2 DEF Estimated, NetworkInv
  <1> QED BY <1>1, <1>3

\* Scripts 01 to 05.
LEMMA StepForeseen ==
    ASSUME NetworkInv, OperatorInv, ScriptInv, pipeline = "steps", NEW op \in {"call", "deploy"},
           At(op), op = "call" => DryRunPasses(Current),
           NEW t \in GentleTx, t = Transaction(Current), t.fn # "redeem",
           NEW p, ChainInv(p), Onward(chain, p), SameBooks(pending, p), NEW lists, NEW done,
           Chart(p, run, lists, done),
           On(run, "04") => run.at["setToken"] \in {ForeignSet} \cup DOMAIN chain.sets
    PROVE  /\ Succeeds(p, t) \/ (t.fn = "issue" /\ Mismatched(t, chain, done, run))
           /\ t.fn \in {"create", "initializeModule"} =>
                Succeeds(p, t) /\ (t.set # ForeignSet \/ t.fn = "create")
  <1>1. /\ run.script \in Steps /\ run.status = "running" /\ run.number \in Runs /\ run.number \in Nat \ {0}
        /\ run.pc \in Nat \ {0}
    BY StepNext
  <1>2. Sends5(t) /\ t \in Tx
    BY StepSends DEF GentleTx
  <1>3. t.fn \in Plainest /\ t.run = run.number /\ t.set = run.at["setToken"]
    BY <1>2 DEF Sends5
  <1>4. CASE t.fn \in {"deploy", "approve", "approveController"}
    BY <1>4 DEF Succeeds
  <1>5. CASE t.fn = "initialize"
    <2>1. run.script = "02" /\ run.pc = 9
      BY <1>2, <1>5 DEF Sends5
    <2>2. On(run, "02") /\ run.pc <= 9 /\ ~(run.number < run.number)
      BY <1>1, <2>1 DEF On
    <2>3. ~p.controllers[t.run].initialized
      BY <1>1, <1>3, <2>2 DEF Chart, Unfounded
    <2> QED BY <1>5, <2>3 DEF Succeeds, CanInitializeController
  <1>6. CASE t.fn = "issue"
    <2>1. run.script = "04"
      BY <1>2, <1>6 DEF Sends5
    <2>2. run.at["setToken"] \in {ForeignSet} \cup DOMAIN chain.sets
      BY <1>1, <2>1 DEF On
    <2> QED BY <1>1, <1>2, <1>6, <2>1, <2>2, IssuanceForeseen
  <1>7. CASE t.fn \in {"create", "initializeModule"}
    <2>1. run.script = "03"
      BY <1>2, <1>7 DEF Sends5
    <2>2. Succeeds(Estimated, t)
      BY <1>7, <2>1, DryRun
    <2>3. /\ Estimated = chain \/ Estimated = pending
          /\ ChainInv(chain) /\ ChainInv(pending)
      BY DEF Estimated, NetworkInv
    <2>4. CASE t.fn = "create"
      <3>1. CanCreate(p, t)
        <4>1. CASE Estimated = chain
          <5>1. CanCreate(chain, t) /\ t.stack \in Runs
            BY <1>2, <2>2, <2>4, <4>1, TxFields DEF Succeeds
          <5>2. Extended(chain.controllers[t.stack], p.controllers[t.stack])
            BY <5>1 DEF Onward
          <5> QED BY <5>1, <5>2 DEF CanCreate, Extended
        <4>2. CASE Estimated = pending
          BY <2>2, <2>4, <4>2, SucceedsOfFields DEF Succeeds
        <4> QED BY <2>3, <4>1, <4>2
      <3> QED BY <2>4, <3>1 DEF Succeeds
    <2>5. CASE t.fn = "initializeModule"
      <3>1. t.set # ForeignSet
        BY <1>2, <2>2, <2>3, <2>5, InitializationPasses
      <3> DEFINE s == p.created[run.number]
                 T == p.sets[s]
      <3>2. /\ run.pc = 6 \/ run.pc = 7
            /\ run.pc = 6 => Module(t) = <<IssuanceModule, run.at[IssuanceModule]>>
            /\ run.pc = 7 => Module(t) = <<ManageModule, run.at[ManageModule]>>
        BY <1>2, <2>1, <2>5 DEF Sends5
      <3>3. On(run, "03") /\ run.pc > 3 /\ run.pc > 5 /\ (run.pc = 6 => run.pc <= 6) /\ run.pc <= 7
        BY <1>1, <2>1, <3>2 DEF On
      <3>4. Making(p, run)
        BY DEF Chart
      <3>5. /\ Listed(p, s) /\ t.set \in {ForeignSet, s}
            /\ Module(t) \in T.pending
        BY <1>3, <3>2, <3>3, <3>4 DEF Making
      <3>6. t.set = s
        BY <3>1, <3>5
      <3> HIDE DEF s
      <3>7. T \in Sound /\ ~T.isLocked
        <4>1. s \in DOMAIN p.sets
          BY <3>5 DEF Listed
        <4> QED BY <4>1, ChainFields, LenProperties DEF Chart, Unlocked
      <3>8. T.stack = t.stack
        <4>1. Module(t)[2] = T.stack
          BY <3>5, <3>7, SoundFields
        <4> QED BY <4>1 DEF Module
      <3>9. CanInitializeModule(p, t)
        BY <3>5, <3>6, <3>7, <3>8 DEF CanInitializeModule, ValidSet, Listed
      <3> QED BY <2>5, <3>1, <3>9 DEF Succeeds
    <2> QED BY <1>7, <2>4, <2>5
  <1> QED BY <1>3, <1>4, <1>5, <1>6, <1>7 DEF Plainest

\* Whatever a script sends.
Foreseen(t, w, ch, done, r, net, pipe) ==
    Succeeds(w, t) \/ Excused(t, ch, done, r, net, pipe) \/ (pipe = "11" /\ t.fn # "redeem")

LEMMA SendForeseen ==
    ASSUME NetworkInv, OperatorInv, ScriptInv, network.dryRun \in {"latest", "pending"},
           pipeline \in {"steps", "11", "fixture", "unregistered"},
           NEW op \in {"call", "deploy"}, At(op), op = "call" => DryRunPasses(Current),
           NEW t, t = Transaction(Current),
           NEW p, ChainInv(p), SameBooks(pending, p), NEW lists, NEW done,
           pipeline = "steps" =>
                /\ Chart(p, run, lists, done) /\ Onward(chain, p)
                /\ On(run, "04") => run.at["setToken"] \in {ForeignSet} \cup DOMAIN chain.sets
    PROVE  /\ Foreseen(t, p, chain, done, run, network, pipeline)
           /\ pipeline = "steps" /\ t.fn \in {"create", "initializeModule"} =>
                Succeeds(p, t) /\ (t.set # ForeignSet \/ t.fn = "create")
  <1>0. Succeeds(p, t) <=> Succeeds(pending, t)
    BY SucceedsOfFields
  <1>1. CASE t.fn = "redeem"
    BY <1>0, <1>1, RedemptionForeseen DEF Foreseen, Excused
  <1>2. CASE t.fn # "redeem" /\ pipeline = "steps"
    <2>1. t \in GentleTx
      BY <1>2, GentleTransaction
    <2>2. /\ Succeeds(p, t) \/ (t.fn = "issue" /\ Mismatched(t, chain, done, run))
          /\ t.fn \in {"create", "initializeModule"} =>
                Succeeds(p, t) /\ (t.set # ForeignSet \/ t.fn = "create")
      BY <1>2, <2>1, StepForeseen
    <2> QED BY <1>2, <2>2 DEF Foreseen, Excused
  <1>3. CASE t.fn # "redeem" /\ pipeline = "11"
    BY <1>3 DEF Foreseen
  <1>4. CASE t.fn # "redeem" /\ pipeline \in {"fixture", "unregistered"}
    <2>1. Estimated = pending
      BY <1>4 DEF Estimated, OperatorInv, NetworkInv
    <2>2. t.fn # "deploy" => Succeeds(pending, t)
      <3>1. run.script = pipeline
        <4>1. run.script \in ScriptNames
          BY NextInstruction DEF OperatorInv
        <4> QED BY <1>4, <4>1 DEF ScriptInv, ScriptNames, Steps
      <3>2. run.script \notin {"04", "11"}
        BY <1>4, <3>1
      <3> QED BY <2>1, <3>2, DryRun
    <2>3. t.fn = "deploy" => Succeeds(p, t)
      BY DEF Succeeds
    <2> QED BY <1>0, <1>4, <2>2, <2>3 DEF Foreseen
  <1> QED BY <1>1, <1>2, <1>3, <1>4

-----------------------------------------------------------------------------
(* The invariant behind SilentFailures                                       *)

ModesInv ==
    /\ network.dryRun \in {"latest", "pending"}
    /\ pipeline \in {"steps", "11", "fixture", "unregistered"}

\* Every queued transaction succeeds on the chain that it will find, or is excused.
ReplayInv ==
    \E w \in [Nat -> ChainType] :
        /\ Replays(w, chain, mempool, pending, pipeline)
        /\ \A j \in 1 .. Len(mempool) :
                Foreseen(mempool[j], w[j], chain, history.done, run, network, pipeline)

ChartInv == pipeline = "steps" => Chart(pending, run, printed["components"], history.done)

\* The Sets that script 03 has printed are on the chain.
Papers(ch, r, sets) ==
    /\ sets \subseteq {ForeignSet} \cup DOMAIN ch.sets
    /\ On(r, "04") => r.at["setToken"] \in {ForeignSet} \cup DOMAIN ch.sets
    /\ \A n \in Runs : n > r.number => ch.created[n] = NoSet

PaperInv == pipeline = "steps" => Papers(chain, run, printed["setToken"])

RevertInv == \A t \in chain.reverted : Excused(t, chain, history.done, run, network, pipeline)

SilentInv == LaunchInv /\ ModesInv /\ ReplayInv /\ ChartInv /\ PaperInv /\ RevertInv

LEMMA SilentParts ==
    ASSUME SilentInv
    PROVE  /\ NetworkInv /\ OperatorInv /\ CountInv /\ OwnInv /\ DoneInv /\ ScriptInv /\ GentleInv
           /\ Run11 /\ Sets11 /\ QueueInv /\ LaunchInv
           /\ ModesInv /\ ReplayInv /\ ChartInv /\ PaperInv /\ RevertInv
  BY DEF SilentInv, LaunchInv, DeploymentInv

LEMMA SilentNext ==
    ASSUME SilentInv, [Next]_vars
    PROVE  /\ LaunchInv' /\ NetworkInv' /\ OperatorInv' /\ pipeline' = pipeline /\ network' = network
           /\ ModesInv' /\ run.number \in Nat
           /\ run'.number \in Nat /\ (run'.number = run.number \/ run'.number = run.number + 1)
  <1>1. NetworkInv /\ OperatorInv /\ LaunchInv /\ ScriptInv /\ ModesInv
    BY SilentParts
  <1>2. LaunchInv'
    BY <1>1, LaunchInvStep
  <1>3. NetworkInv' /\ OperatorInv'
    BY <1>2 DEF LaunchInv, DeploymentInv
  <1>4. pipeline' = pipeline
    BY <1>1, ScriptStep
  <1>5. network' = network
    <2>1. Sends \/ Mine \/ MineForeign \/ MineCopy \/ Quiet
      BY NetworkCases
    <2> QED BY <2>1 DEF Sends, Mine, MineForeign, MineCopy, Quiet, configuration
  <1>6. run'.number = run.number \/ run'.number = run.number + 1
    <2>1. ASSUME NEW script \in ScriptNames, StartScript(script)
          PROVE  run'.number = run.number + 1
      BY <1>1, <2>1, Started
    <2>2. Mine \/ MineForeign \/ MineCopy => run' = run
      BY DEF Mine, MineForeign, MineCopy
    <2> QED BY <1>1, <2>1, <2>2, StepCases DEF Advanced, Moves, Ends, Starts
  <1>7. run.number \in Nat /\ run'.number \in Nat
    BY <1>1, <1>3 DEF OperatorInv, RunOK, RunType
  <1>8. ModesInv'
    BY <1>1, <1>4, <1>5 DEF ModesInv
  <1> QED BY <1>2, <1>3, <1>4, <1>5, <1>6, <1>7, <1>8

LEMMA SendExecutes ==
    ASSUME NetworkInv, OperatorInv, ScriptInv, Sends, NEW t, t = Transaction(Current),
           NEW c, c = Unlogged(pending)
    PROVE  /\ t \in Tx /\ pending' = Execute(c, t) /\ ChainInv(pending')
           /\ ChainInv(c) /\ SameBooks(pending, c) /\ ChainInv(pending) /\ t.run = run.number
           /\ network.node = "local" =>
                mempool = << >> /\ chain = pending /\ chain' = pending' /\ mempool' = mempool
           /\ network.node # "local" => chain' = chain /\ mempool' = Append(mempool, t)
           /\ pipeline = "steps" => Onward(c, pending')
  <1>1. PICK op \in {"call", "deploy"} : At(op)
    BY DEF Sends
  <1>2. /\ t \in Tx /\ ChainInv(pending') /\ ChainInv(pending)
        /\ network.node = "local" => chain' = pending' /\ mempool' = mempool
        /\ network.node # "local" => chain' = chain /\ mempool' = Append(mempool, t)
    BY SendNetwork DEF NetworkInv
  <1>3. pending' = Block(pending, t)
    BY DEF Sends, Send
  <1>4. pending' = Execute(c, t)
    BY <1>2, <1>3, UnloggedBlock
  <1>5. ChainInv(c) /\ SameBooks(pending, c)
    BY <1>2, UnloggedFields
  <1>6. network.node = "local" => mempool = << >> /\ chain = pending
    BY DEF NetworkInv
  <1>7. t.run = run.number
    BY DEF Transaction
  <1>8. pipeline = "steps" => Onward(c, pending')
    <2> SUFFICES ASSUME pipeline = "steps" PROVE Onward(c, pending')
      OBVIOUS
    <2>1. t.fn \in Plainest
      BY <1>1, StepSends DEF Sends5
    <2> QED BY <1>2, <1>4, <1>5, <2>1, ExecuteOnward
  <1> QED BY <1>2, <1>4, <1>5, <1>6, <1>7, <1>8

\* A stranger's copy is mined where nothing is queued, and succeeds.
LEMMA CopyMined ==
    ASSUME SilentInv, MineCopy
    PROVE  \E t, c :
                /\ t \in Tx /\ IsCopy(t) /\ Succeeds(c, t) /\ Mined(chain, t, chain')
                /\ ChainInv(c) /\ SameBooks(chain, c) /\ SameBooks(pending, c)
                /\ chain' = Execute(c, t) /\ pending' = chain' /\ ChainInv(chain')
                /\ Onward(chain, chain') /\ chain'.reverted = chain.reverted
  <1>1. NetworkInv /\ OperatorInv /\ ReplayInv /\ ChainInv(chain) /\ ChainInv(pending)
    BY SilentParts DEF NetworkInv
  <1>2. PICK t : /\ IsCopy(t) /\ chain' = Block(chain, t) /\ pending' = Block(pending, t)
                 /\ Mined(chain, t, chain')
    BY <1>1, CopyNetwork
  <1>3. mempool = << >>
    BY <1>1, CopyNetwork
  <1> DEFINE c == Unlogged(chain)
             d == Unlogged(pending)
  <1>4. c = d
    <2>1. PICK w \in [Nat -> ChainType] : Replays(w, chain, mempool, pending, pipeline)
      BY <1>1 DEF ReplayInv
    <2>2. Len(mempool) + 1 = 1
      BY <1>3
    <2> QED BY <2>1, <2>2 DEF Replays
  <1>5. chain' = Execute(c, t) /\ pending' = Execute(d, t)
    BY <1>1, <1>2, UnloggedBlock
  <1>6. ChainInv(c) /\ SameBooks(chain, c) /\ SameBooks(pending, d)
    BY <1>1, UnloggedFields
  <1> HIDE DEF c, d
  <1>7. t \in Tx /\ t.fn = "create" /\ CanCreate(chain, t)
    BY <1>2 DEF IsCopy
  <1>8. Succeeds(c, t)
    <2>1. Succeeds(chain, t)
      BY <1>7 DEF Succeeds
    <2> QED BY <1>6, <1>7, <2>1, SucceedsOfFields
  <1>9. ChainInv(chain')
    BY <1>2 DEF Mined
  <1>10. chain'.reverted = chain.reverted
    <2>1. chain'.reverted = c.reverted
      BY <1>5, <1>6, <1>7, <1>8, SuccessUnrecorded
    <2> QED BY <1>6, <2>1 DEF SameBooks
  <1>11. Onward(chain, chain')
    <2>1. Onward(c, chain')
      BY <1>5, <1>6, <1>7, ExecuteOnward DEF Plainest
    <2>2. SameBooks(c, chain)
      BY <1>6 DEF SameBooks
    <2> QED BY <2>1, <2>2, OnwardOrder
  <1> QED BY <1>2, <1>4, <1>5, <1>6, <1>7, <1>8, <1>9, <1>10, <1>11

\* A chain and the next one.
LEMMA ChainOnward ==
    ASSUME SilentInv, [Next]_vars
    PROVE  /\ pipeline = "steps" => Onward(chain, chain')
           /\ \A n \in Runs : \/ chain'.created[n] = chain.created[n]
                              \/ n <= run.number /\ chain'.created[n] \notin DOMAIN chain.sets
  <1>1. NetworkInv /\ OperatorInv /\ ScriptInv /\ CountInv /\ ReplayInv
    BY SilentParts
  <1>2. ChainInv(chain) /\ chain.sets \in Seq(Sound)
    BY <1>1, ChainFields DEF NetworkInv
  <1>3. ASSUME NEW t \in Tx, Mined(chain, t, chain'), Creates(t) => t.run <= run.number, NEW n \in Runs
        PROVE  \/ chain'.created[n] = chain.created[n]
               \/ n <= run.number /\ chain'.created[n] \notin DOMAIN chain.sets
    <2>1. \/ chain'.created = chain.created
          \/ t.fn \in Creations /\ chain'.created = [chain.created EXCEPT ![t.run] = Len(chain.sets) + 1]
      BY <1>3 DEF Mined
    <2>2. CASE t.fn \in Creations /\ chain'.created = [chain.created EXCEPT ![t.run] = Len(chain.sets) + 1]
      <3>1. CASE n = t.run
        <4>1. chain'.created[n] = Len(chain.sets) + 1
          BY <1>2, <2>2, <3>1, ChainFields
        <4>2. Len(chain.sets) + 1 \notin DOMAIN chain.sets
          <5>1. DOMAIN chain.sets = 1 .. Len(chain.sets) /\ Len(chain.sets) \in Nat
            BY <1>2, LenProperties
          <5> QED BY <5>1, SMT
        <4> QED BY <1>3, <2>2, <3>1, <4>1, <4>2 DEF Creates
      <3>2. CASE n # t.run
        BY <1>2, <2>2, <3>2, ChainFields
      <3> QED BY <3>1, <3>2
    <2> QED BY <2>1, <2>2
  <1>4. CASE Sends
    <2> DEFINE t == Transaction(Current)
               c == Unlogged(pending)
    <2>1. /\ t \in Tx /\ SameBooks(pending, c) /\ t.run = run.number
          /\ network.node = "local" => chain = pending /\ chain' = pending'
          /\ network.node # "local" => chain' = chain
          /\ pipeline = "steps" => Onward(c, pending')
      BY <1>1, <1>4, SendExecutes
    <2>2. Mined(pending, t, pending')
      BY <1>1, <1>4, SendNetwork
    <2> HIDE DEF t, c
    <2>3. pipeline = "steps" => Onward(pending, pending')
      <3>1. SameBooks(c, pending)
        BY <2>1 DEF SameBooks
      <3> QED BY <2>1, <3>1, OnwardOrder
    <2>4. t.run <= run.number
      <3>1. run.number \in Nat
        BY <1>1 DEF OperatorInv, RunOK, RunType
      <3> QED BY <2>1, <3>1
    <2>5. CASE network.node = "local"
      BY <1>3, <2>1, <2>2, <2>3, <2>4, <2>5
    <2>6. CASE network.node # "local"
      BY <2>1, <2>6, OnwardOrder
    <2> QED BY <2>5, <2>6
  <1>5. CASE Mine
    <2> DEFINE t == Head(mempool)
    <2>1. /\ t \in Tx /\ Mined(chain, t, chain') /\ mempool # << >> /\ t = mempool[1]
          /\ Len(mempool) \in Nat \ {0} /\ ChainInv(chain')
      BY <1>1, <1>5, MineNetwork DEF NetworkInv
    <2>2. Creates(t) => t.run <= run.number
      <3>1. 1 \in 1 .. Len(mempool)
        BY <2>1, SMT
      <3> QED BY <1>1, <2>1, <3>1 DEF CountInv
    <2>3. chain' = Execute(Unlogged(chain), t)
      BY <1>2, <1>5, UnloggedBlock DEF Mine
    <2>4. pipeline = "steps" => Onward(chain, chain')
      <3> SUFFICES ASSUME pipeline = "steps" PROVE Onward(chain, chain')
        OBVIOUS
      <3>1. PICK w \in [Nat -> ChainType] : Replays(w, chain, mempool, pending, pipeline)
        BY <1>1 DEF ReplayInv
      <3>2. mempool \in Seq(Tx)
        BY <1>1 DEF NetworkInv
      <3>3. w[1] = Unlogged(chain) /\ w[2] = Unlogged(chain') /\ Onward(w[1], w[2])
        <4> DEFINE n == chain'
                   rest == Tail(mempool)
        <4>1. n = Execute(Unlogged(chain), Head(mempool)) /\ rest = Tail(mempool)
          BY <2>1, <2>3
        <4> HIDE DEF n, t, rest
        <4>2. w[1] = Unlogged(chain) /\ w[2] = Unlogged(n) /\ Onward(w[1], w[2])
          BY <2>1, <3>1, <3>2, <4>1, ReplayShifts
        <4> QED BY <4>2 DEF n
      <3>4. SameBooks(chain, Unlogged(chain)) /\ SameBooks(chain', Unlogged(chain'))
        BY <1>2, <2>1, MineNetwork, UnloggedFields DEF Mined
      <3>5. SameBooks(Unlogged(chain), chain) /\ SameBooks(Unlogged(chain'), chain')
        BY <3>4 DEF SameBooks
      <3>6. Onward(Unlogged(chain), chain')
        BY <3>3, <3>5, OnwardOrder
      <3> QED BY <3>5, <3>6, OnwardOrder
    <2> QED BY <1>3, <2>1, <2>2, <2>4
  <1>6. CASE MineForeign
    <2>1. PICK log \in {NoSet, ForeignSet} : chain' = [chain EXCEPT !.log = log]
      BY <1>6 DEF MineForeign
    <2>2. log \in Int
      BY DEF NoSet, ForeignSet
    <2>3. chain'.sets = chain.sets /\ chain'.created = chain.created /\ chain'.controllers = chain.controllers
      BY <1>2, <2>1, <2>2, LogReset
    <2>4. Onward(chain, chain')
      <3>1. Onward(chain, chain)
        BY OnwardOrder
      <3> QED BY <2>3, <3>1 DEF Onward
    <2> QED BY <2>3, <2>4
  <1>7. CASE MineCopy
    <2>1. PICK t : t \in Tx /\ IsCopy(t) /\ Mined(chain, t, chain') /\ Onward(chain, chain')
      BY <1>7, CopyMined
    <2>2. t.run = run.number /\ run.number \in Nat
      BY <1>1, <2>1 DEF IsCopy, OperatorInv, RunOK, RunType
    <2>3. t.run <= run.number
      BY <2>2
    <2> QED BY <1>3, <2>1, <2>3
  <1>8. CASE Quiet
    BY <1>8, OnwardOrder DEF Quiet
  <1> QED BY <1>4, <1>5, <1>6, <1>7, <1>8, NetworkCases

\* An excuse lasts.
LEMMA KeepsStep ==
    ASSUME SilentInv, [Next]_vars, pipeline = "steps"
    PROVE  Keeps(chain, chain', history.done, history'.done, run, run')
  <1>1. NetworkInv /\ OperatorInv /\ ScriptInv /\ OwnInv /\ OperatorInv'
    BY SilentParts, SilentNext
  <1>2. /\ Onward(chain, chain')
        /\ \A n \in Runs : \/ chain'.created[n] = chain.created[n]
                           \/ chain'.created[n] \notin DOMAIN chain.sets
    BY ChainOnward
  <1>3. DOMAIN chain.sets = 1 .. Len(chain.sets) /\ Len(chain.sets) \in Nat
    BY <1>1, ChainFields, LenProperties DEF NetworkInv
  <1>4. ASSUME NEW s \in DOMAIN chain.sets, Working(chain', run', s) PROVE Working(chain, run, s)
    <2>1. On(run', "03") /\ chain'.created[run'.number] = s
      BY <1>4 DEF Working
    <2>2. run'.number \in Runs
      BY <1>1, <2>1 DEF On, OperatorInv, RunOK
    <2>3. chain.created[run'.number] = s
      BY <1>2, <2>1, <2>2
    <2>4. Rereads
      BY <1>1, <2>1, WhatIsReread DEF On
    <2>5. CASE run.status = "running" /\ \E op \in Ops : Reading(op)
      <3>1. run'.script = run.script /\ run'.number = run.number
        BY <2>5 DEF Reading, Advanced
      <3> QED BY <2>1, <2>3, <2>5, <3>1 DEF Working, On
    <2>6. CASE run' = run
      BY <2>1, <2>3, <2>6 DEF Working, On
    <2>7. ASSUME NEW script \in ScriptNames, StartScript(script) PROVE FALSE
      <3>1. run'.number = run.number + 1 /\ run.number \in Nat
        BY <1>1, <2>7, Started DEF OperatorInv, RunOK, RunType
      <3>2. run'.number > run.number
        BY <3>1
      <3>3. chain.created[run'.number] = NoSet
        BY <2>2, <3>2, SilentParts DEF PaperInv, Papers
      <3> QED BY <1>3, <2>3, <3>3 DEF NoSet
    <2> QED BY <2>4, <2>5, <2>6, <2>7 DEF Rereads
  <1>5. ASSUME NEW d \in history'.done, d.script = "03", d \notin history.done
        PROVE  Working(chain, run, d.set)
    <2>1. Ends
      <3>1. ASSUME NEW script \in ScriptNames, StartScript(script) PROVE history'.done = history.done
        BY <1>1, <3>1, Started
      <3>2. Sends \/ Mine \/ MineForeign \/ Moves => history' = history
        BY DEF Sends, Mine, MineForeign, Moves
      <3>3. MineCopy => history'.done = history.done
        BY <1>1, CopyNetwork
      <3> QED BY <1>1, <1>5, <3>1, <3>2, <3>3, StepCases DEF Starts
    <2>2. /\ run.status = "running" /\ run.pc > Len(Program(run.script))
          /\ d = [script |-> run.script, number |-> run.number, set |-> run.at.setToken]
      BY <1>5, <2>1 DEF Ends
    <2>3. run.script = "03" /\ d.set = run.at["setToken"]
      BY <1>5, <2>2
    <2>4. Len(Program(run.script)) = 7
      BY <2>3 DEF Program, Script03
    <2>5. run.pc > 7 /\ run.pc \in Nat
      BY <1>1, <2>2, <2>4 DEF OperatorInv, RunOK, RunType
    <2>6. ReadAt(run.script) < run.pc /\ InitAt(run.script) < run.pc /\ run.script \in Readers
      <3>1. ReadAt("03") = 5 /\ InitAt("03") = 6
        BY DEF ReadAt, InitAt, CreateAt
      <3>2. 5 < run.pc /\ 6 < run.pc
        BY <2>5, SMT
      <3> QED BY <2>3, <3>1, <3>2 DEF Readers
    <2>7. run.at["setToken"] = chain.created[run.number]
      BY <1>1, <2>2, <2>6 DEF OwnInv
    <2> QED BY <2>2, <2>3, <2>7 DEF Working, On
  <1> QED BY <1>2, <1>4, <1>5 DEF Keeps, Onward, Later

LEMMA ForeseenStays ==
    ASSUME SilentInv, [Next]_vars, NEW t
    PROVE  /\ Excused(t, chain, history.done, run, network, pipeline) =>
                Excused(t, chain', history'.done, run', network', pipeline')
           /\ \A w : Foreseen(t, w, chain, history.done, run, network, pipeline) =>
                Foreseen(t, w, chain', history'.done, run', network', pipeline')
  <1>1. pipeline' = pipeline /\ network' = network
    BY SilentNext
  <1>2. pipeline = "steps" => Keeps(chain, chain', history.done, history'.done, run, run')
    BY KeepsStep
  <1>3. Excused(t, chain, history.done, run, network, pipeline) =>
            Excused(t, chain', history'.done, run', network, pipeline)
    BY <1>2, ExcusedStays
  <1> QED BY <1>1, <1>3 DEF Foreseen

LEMMA QueueSpans ==
    ASSUME SilentInv
    PROVE  /\ ChainInv(chain) /\ ChainInv(pending) /\ mempool \in Seq(Tx)
           /\ mempool = << >> => SameBooks(chain, pending)
           /\ pipeline = "steps" => Onward(chain, pending)
  <1>1. ChainInv(chain) /\ ChainInv(pending) /\ mempool \in Seq(Tx)
    BY SilentParts DEF NetworkInv
  <1>2. PICK w \in [Nat -> ChainType] : Replays(w, chain, mempool, pending, pipeline)
    BY SilentParts DEF ReplayInv
  <1>3. (mempool = << >> => SameBooks(chain, pending)) /\ (pipeline = "steps" => Onward(chain, pending))
    BY <1>1, <1>2, ReplaySpans
  <1> QED BY <1>1, <1>3

\* Script 04 keeps what it was given.
LEMMA IssuanceKept ==
    ASSUME SilentInv, [Next]_vars, pipeline = "steps", On(run', "04")
    PROVE  \/ /\ On(run, "04") /\ run'.at["setToken"] = run.at["setToken"]
              /\ run'.at["components"] = run.at["components"]
           \/ /\ run'.at["setToken"] \in printed["setToken"]
              /\ run'.at["components"] \in printed["components"]
              /\ \E script \in ScriptNames : StartScript(script)
  <1>1. NetworkInv /\ OperatorInv /\ ScriptInv /\ RunOK(run)
    BY SilentParts DEF OperatorInv
  <1>2. Rereads
    BY <1>1, WhatIsReread DEF On
  <1>3. ASSUME run.status = "running", NEW op \in Ops, Reading(op)
        PROVE  /\ On(run, "04") /\ run'.at["setToken"] = run.at["setToken"]
               /\ run'.at["components"] = run.at["components"]
    <2>1. At(op) /\ run'.script = run.script
      BY <1>3 DEF Reading, Advanced
    <2>2. run.script = "04"
      BY <2>1 DEF On
    <2>3. Current.op = op /\ Ordered(run.script, run.pc, Current)
      BY <1>1, <2>1, StepNext
    <2>4. op \in {"deployed", "call"}
      BY <2>2, <2>3 DEF Ordered, Asks
    <2> QED BY <1>3, <2>2, <2>4 DEF Reading, On
  <1>4. CASE run' = run
    BY <1>4
  <1>5. ASSUME NEW script \in ScriptNames, StartScript(script)
        PROVE  run'.at["setToken"] \in printed["setToken"] /\ run'.at["components"] \in printed["components"]
    <2>1. run'.script = script
      BY <1>1, <1>5, Started
    <2>2. script = "04"
      BY <2>1 DEF On
    <2>3. Inputs("04") # {}
      BY DEF Inputs
    <2>4. run'.at \in Pasted("04")
      BY <1>5, <2>2, <2>3 DEF StartScript
    <2> QED BY <1>1, <2>4, IssuanceGiven
  <1> QED BY <1>2, <1>3, <1>4, <1>5 DEF Rereads

LEMMA PaperStep ==
    ASSUME SilentInv, [Next]_vars
    PROVE  PaperInv'
  <1>1. NetworkInv /\ OperatorInv /\ ScriptInv /\ OwnInv /\ PaperInv /\ ChartInv /\ RunOK(run)
    BY SilentParts DEF OperatorInv
  <1>2. pipeline' = pipeline /\ run.number \in Nat /\ run'.number \in Nat
        /\ (run'.number = run.number \/ run'.number = run.number + 1)
    BY SilentNext
  <1> SUFFICES ASSUME pipeline = "steps" PROVE Papers(chain', run', printed'["setToken"])
    BY <1>2 DEF PaperInv
  <1>3. Papers(chain, run, printed["setToken"]) /\ Chart(pending, run, printed["components"], history.done)
    BY <1>1 DEF PaperInv, ChartInv
  <1>4. /\ DOMAIN chain.sets \subseteq DOMAIN chain'.sets
        /\ \A n \in Runs : chain'.created[n] = chain.created[n] \/ n <= run.number
    <2>1. /\ Onward(chain, chain')
          /\ \A n \in Runs : chain'.created[n] = chain.created[n] \/ n <= run.number
      BY ChainOnward
    <2> QED BY <2>1 DEF Onward
  <1>5. printed'["setToken"] \subseteq {ForeignSet} \cup DOMAIN chain'.sets
    <2>1. printed'["setToken"] = printed["setToken"] \/ PrintsSet
      BY <1>1, WhatIsPrinted DEF Printing
    <2>2. ASSUME PrintsSet PROVE chain.log \in {ForeignSet} \cup DOMAIN chain.sets
      <3>1. At("getCreated") /\ run.script = "03" /\ chain.log # NoSet
        BY <2>2 DEF PrintsSet
      <3>2. run.pc = ReadAt("03") /\ run.status = "running"
        BY <1>1, <3>1, NextInstruction, InstructionAt
      <3>3. ReadAt("03") = 5 /\ CreateAt("03") = 3
        BY DEF ReadAt, CreateAt
      <3>4. 3 < 5 /\ 5 <= 5 /\ ~(5 < 5) /\ 5 > 3
        BY SMT
      <3>5. mempool = << >> /\ chain.log \in {NoSet, ForeignSet, chain.created[run.number]}
        BY <1>1, <3>1, <3>2, <3>3, <3>4 DEF OwnInv, Readers
      <3>6. SameBooks(chain, pending)
        BY <3>5, QueueSpans
      <3>7. Listed(pending, pending.created[run.number])
        BY <1>3, <3>1, <3>2, <3>3, <3>4 DEF Chart, Making, On
      <3>8. chain.created[run.number] \in DOMAIN chain.sets
        BY <3>6, <3>7 DEF Listed, SameBooks
      <3> QED BY <3>1, <3>5, <3>8
    <2> QED BY <1>3, <1>4, <2>1, <2>2 DEF Papers, PrintsSet
  <1>6. On(run', "04") => run'.at["setToken"] \in {ForeignSet} \cup DOMAIN chain'.sets
    <2> SUFFICES ASSUME On(run', "04") PROVE run'.at["setToken"] \in {ForeignSet} \cup DOMAIN chain.sets
      BY <1>4
    <2>1. \/ On(run, "04") /\ run'.at["setToken"] = run.at["setToken"]
          \/ run'.at["setToken"] \in printed["setToken"]
      BY IssuanceKept
    <2> QED BY <1>3, <2>1 DEF Papers
  <1>7. ASSUME NEW n \in Runs, n > run'.number PROVE chain'.created[n] = NoSet
    <2>1. n \in Nat
      BY RunCounts, SMT
    <2>2. n > run.number /\ ~(n <= run.number)
      BY <1>2, <1>7, <2>1, SMT
    <2> QED BY <1>3, <1>4, <2>2 DEF Papers
  <1> QED BY <1>5, <1>6, <1>7 DEF Papers

LEMMA SentForeseen ==
    ASSUME SilentInv, Sends, NEW t, t = Transaction(Current), NEW c, c = Unlogged(pending)
    PROVE  /\ Foreseen(t, c, chain, history.done, run, network, pipeline)
           /\ pipeline = "steps" /\ t.fn \in {"create", "initializeModule"} =>
                Succeeds(c, t) /\ (t.set # ForeignSet \/ t.fn = "create")
  <1>1. /\ NetworkInv /\ OperatorInv /\ ScriptInv /\ ChartInv /\ PaperInv
        /\ network.dryRun \in {"latest", "pending"}
        /\ pipeline \in {"steps", "11", "fixture", "unregistered"}
    BY SilentParts DEF ModesInv
  <1>2. ChainInv(c) /\ SameBooks(pending, c)
    BY QueueSpans, UnloggedFields
  <1>3. pipeline = "steps" =>
            /\ Chart(c, run, printed["components"], history.done) /\ Onward(chain, c)
            /\ On(run, "04") => run.at["setToken"] \in {ForeignSet} \cup DOMAIN chain.sets
    <2> SUFFICES ASSUME pipeline = "steps"
                 PROVE  /\ Chart(c, run, printed["components"], history.done) /\ Onward(chain, c)
                        /\ On(run, "04") => run.at["setToken"] \in {ForeignSet} \cup DOMAIN chain.sets
      OBVIOUS
    <2>1. Chart(pending, run, printed["components"], history.done) /\ Onward(chain, pending)
      BY <1>1, QueueSpans DEF ChartInv
    <2>2. Chart(c, run, printed["components"], history.done)
      BY <1>2, <2>1, ChartOfFields
    <2>3. Onward(chain, c)
      BY <1>2, <2>1, OnwardOrder
    <2> QED BY <1>1, <2>2, <2>3 DEF PaperInv, Papers
  <1>4. PICK op \in {"call", "deploy"} : At(op) /\ (op = "call" => DryRunPasses(Current))
    BY DEF Sends
  <1> QED BY <1>1, <1>2, <1>3, <1>4, SendForeseen

LEMMA ChartStep ==
    ASSUME SilentInv, [Next]_vars
    PROVE  ChartInv'
  <1>1. NetworkInv /\ OperatorInv /\ ScriptInv /\ OwnInv /\ CountInv /\ ChartInv
    BY SilentParts
  <1>2. pipeline' = pipeline /\ OperatorInv'
    BY SilentNext
  <1> SUFFICES ASSUME pipeline = "steps"
               PROVE  Chart(pending', run', printed'["components"], history'.done)
    BY <1>2 DEF ChartInv
  <1> DEFINE lists == printed["components"]
             more == printed'["components"]
             done == history.done
             finished == history'.done
  <1>3. Chart(pending, run, lists, done)
    BY <1>1 DEF ChartInv
  <1>4. more = lists \/ PrintsList
    BY <1>1, WhatIsPrinted DEF Printing
  <1>5. ChainInv(pending) /\ (mempool = << >> => pending.created = chain.created)
    BY QueueSpans DEF SameBooks
  <1>6. CASE Sends /\ Advanced /\ run'.at = run.at /\ run.status = "running"
    <2> DEFINE t == Transaction(Current)
               c == Unlogged(pending)
    <2>1. more = lists /\ finished = done
      BY <1>4, <1>6 DEF PrintsList, Advanced, Sends
    <2>2. /\ pending' = Execute(c, t) /\ ChainInv(pending') /\ ChainInv(c) /\ SameBooks(pending, c)
      BY <1>1, <1>6, SendExecutes
    <2>3. pipeline = "steps" /\ t.fn \in {"create", "initializeModule"} =>
                Succeeds(c, t) /\ (t.set # ForeignSet \/ t.fn = "create")
      BY <1>6, SentForeseen
    <2>4. /\ Len(pending.sets) <= Cardinality(SetIds)
          /\ t.fn \in Creations => Len(pending.sets) < Cardinality(SetIds)
      BY <1>1, <1>6, SendBounded
    <2>5. PICK op \in {"call", "deploy"} : At(op)
      BY <1>6 DEF Sends
    <2>6. t \in GentleTx
      BY <1>1, <2>5, GentleTransaction
    <2>7. t = Transaction(Current)
      OBVIOUS
    <2> HIDE DEF t, c
    <2>8. /\ Len(c.sets) <= Cardinality(SetIds)
          /\ t.fn \in Creations => Len(c.sets) < Cardinality(SetIds)
      BY <2>2, <2>4 DEF SameBooks
    <2> HIDE DEF lists, more, done, finished
    <2>9. Chart(c, run, lists, done)
      BY <1>3, <2>2, ChartOfFields
    <2>10. t.fn \in {"create", "initializeModule"} =>
                Succeeds(c, t) /\ (t.set # ForeignSet \/ t.fn = "create")
      BY <2>3
    <2> DEFINE n == pending'
    <2>11. n = Execute(c, t) /\ ChainInv(n)
      BY <2>2
    <2> HIDE DEF n
    <2>12. Chart(n, run', lists, done)
      BY <1>1, <1>2, <1>6, <2>2, <2>5, <2>6, <2>7, <2>8, <2>9, <2>10, <2>11, ChartSends
    <2> QED BY <2>1, <2>12 DEF n, lists, more, done, finished
  <1>7. CASE Mine \/ MineForeign
    BY <1>3, <1>7 DEF Mine, MineForeign
  <1>8. CASE Moves
    <2>1. /\ pending' = pending /\ run.status = "running" /\ run'.status = "running"
          /\ run'.script = run.script /\ finished = done
      BY <1>8 DEF Moves, Quiet, Advanced
    <2>2. more = lists
      BY <1>4, <2>1 DEF PrintsList
    <2>3. On(run, "04") => run'.at["components"] = run.at["components"]
      <3> SUFFICES ASSUME On(run, "04") PROVE run'.at["components"] = run.at["components"]
        OBVIOUS
      <3>1. On(run', "04")
        BY <2>1 DEF On
      <3>2. ~ \E script \in ScriptNames : StartScript(script)
        BY <2>1 DEF StartScript
      <3> QED BY <3>1, <3>2, IssuanceKept
    <2> HIDE DEF lists, more, done, finished
    <2>4. Chart(pending, run', lists, done)
      BY <1>1, <1>3, <1>5, <1>8, <2>3, ChartMoves
    <2> QED BY <2>1, <2>2, <2>4 DEF lists, more, done, finished
  <1>9. CASE Ends
    <2>1. pending' = pending
      BY <1>9 DEF Ends, Quiet
    <2>2. \/ finished = done
          \/ /\ run.pc > Len(Program(run.script))
             /\ finished = done \cup {[script |-> run.script, number |-> run.number,
                                       set |-> run.at.setToken]}
      BY <1>9 DEF Ends
    <2>3. more = lists \/ (more = lists \cup {run.number} /\ run.script = "01"
                           /\ run.pc > Len(Program(run.script)))
      BY <1>4 DEF PrintsList
    <2> HIDE DEF lists, more, done, finished
    <2>4. Chart(pending, run', more, finished)
      BY <1>1, <1>2, <1>3, <1>5, <1>9, <2>2, <2>3, ChartEnds
    <2> QED BY <2>1, <2>4 DEF more, finished
  <1>10. CASE Starts
    <2>1. PICK script \in ScriptNames : StartScript(script)
      BY <1>10 DEF Starts
    <2>2. /\ pending' = pending /\ finished = done /\ run'.script = script /\ run'.status = "running"
          /\ run.status # "running"
      BY <1>1, <2>1, Started
    <2>3. more = lists
      BY <2>1 DEF StartScript
    <2>4. script = "04" => run'.at["components"] \in lists
      <3> SUFFICES ASSUME script = "04" PROVE run'.at["components"] \in lists
        OBVIOUS
      <3>1. On(run', "04") /\ ~On(run, "04")
        BY <2>2 DEF On
      <3> QED BY <3>1, IssuanceKept
    <2> HIDE DEF lists, more, done, finished
    <2>5. Chart(pending, run', lists, done)
      BY <1>1, <1>2, <1>3, <1>5, <2>1, <2>4, ChartStarts
    <2> QED BY <2>2, <2>3, <2>5 DEF lists, more, done, finished
  <1>11. CASE MineCopy
    <2>1. /\ run' = run /\ finished = done /\ more = lists /\ run.status = "running"
          /\ run.script \in {"03", "11"} /\ run.pc = ReadAt(run.script)
      BY <1>1, <1>11, CopyNetwork
    <2>2. On(run, "03") /\ run.pc = 5
      <3>1. run.script = "03"
        BY <1>1, <2>1 DEF ScriptInv, Steps
      <3>2. ReadAt("03") = 5
        BY DEF ReadAt, CreateAt
      <3> QED BY <2>1, <3>1, <3>2 DEF On
    <2>3. PICK t, c :
                /\ t \in Tx /\ IsCopy(t) /\ Succeeds(c, t) /\ ChainInv(c) /\ SameBooks(chain, c)
                /\ SameBooks(pending, c) /\ chain' = Execute(c, t) /\ pending' = chain'
                /\ ChainInv(chain')
      BY <1>11, CopyMined
    <2>4. /\ t \in GentleTx /\ t.fn = "create" /\ t.run = run.number
          /\ t.modules = {<<IssuanceModule, run.at[IssuanceModule]>>, <<ManageModule, run.at[ManageModule]>>}
      BY <2>3 DEF IsCopy, GentleTx
    <2>5. Len(c.sets) <= Cardinality(SetIds) /\ Len(c.sets) < Cardinality(SetIds)
      <3>1. c.sets = chain.sets
        BY <2>3 DEF SameBooks
      <3>2. /\ Len(chain.sets) \in Nat /\ Cardinality(SetIds) \in Nat
            /\ Len(chain.sets) < Cardinality(SetIds)
        BY <1>1, <1>11, CopyBounded, NumberTypes, SetIdsShown
      <3>3. Len(chain.sets) <= Cardinality(SetIds)
        BY <3>2, SMT
      <3> QED BY <3>1, <3>2, <3>3
    <2> HIDE DEF lists, more, done, finished
    <2>6. Chart(c, run, lists, done)
      BY <1>3, <2>3, ChartOfFields
    <2> DEFINE n == pending'
    <2>7. n = Execute(c, t) /\ ChainInv(n)
      BY <2>3
    <2> HIDE DEF n
    <2>8. Chart(n, run, lists, done)
      BY <1>1, <2>2, <2>3, <2>4, <2>5, <2>6, <2>7, ChartCopied
    <2> QED BY <2>1, <2>8 DEF n, lists, more, done, finished
  <1>12. CASE Quiet /\ run' = run /\ history' = history
    <2>1. more = lists
      BY <1>4, <1>12 DEF PrintsList
    <2> QED BY <1>3, <1>12, <2>1 DEF Quiet
  <1> QED BY <1>1, <1>6, <1>7, <1>8, <1>9, <1>10, <1>11, <1>12, StepCases

LEMMA ReplayStep ==
    ASSUME SilentInv, [Next]_vars
    PROVE  ReplayInv'
  <1>1. NetworkInv /\ OperatorInv /\ ScriptInv /\ ReplayInv /\ NetworkInv'
        /\ ChainInv(chain) /\ ChainInv(pending) /\ mempool \in Seq(Tx)
    BY SilentParts, SilentNext, QueueSpans
  <1>2. pipeline' = pipeline
    BY SilentNext
  <1>3. PICK w \in [Nat -> ChainType] :
            /\ Replays(w, chain, mempool, pending, pipeline)
            /\ \A j \in 1 .. Len(mempool) :
                    Foreseen(mempool[j], w[j], chain, history.done, run, network, pipeline)
    BY <1>1 DEF ReplayInv
  <1>4. \A t, u : Foreseen(t, u, chain, history.done, run, network, pipeline) =>
            Foreseen(t, u, chain', history'.done, run', network', pipeline')
    BY ForeseenStays
  <1>5. Len(mempool) \in Nat
    BY <1>1, LenProperties
  <1>6. ASSUME Unlogged(chain') = Unlogged(chain), mempool' = mempool, pending' = pending
        PROVE  ReplayInv'
    <2>1. Replays(w, chain', mempool', pending', pipeline')
      BY <1>2, <1>3, <1>6 DEF Replays
    <2>2. \A j \in 1 .. Len(mempool') :
                Foreseen(mempool'[j], w[j], chain', history'.done, run', network', pipeline')
      BY <1>3, <1>4, <1>6
    <2> QED BY <2>1, <2>2 DEF ReplayInv
  <1>7. CASE Sends
    <2> DEFINE t == Transaction(Current)
               c == Unlogged(pending)
               n == pending'
               more == mempool'
    <2>1. /\ t \in Tx /\ n = Execute(c, t) /\ ChainInv(n)
          /\ network.node = "local" => mempool = << >> /\ chain' = n /\ more = mempool
          /\ network.node # "local" => chain' = chain /\ more = Append(mempool, t)
          /\ pipeline = "steps" => Onward(c, n)
      BY <1>1, <1>7, SendExecutes
    <2>2. Foreseen(t, c, chain, history.done, run, network, pipeline)
      BY <1>7, SentForeseen
    <2>3. c = Unlogged(pending)
      OBVIOUS
    <2> HIDE DEF t, c, n
    <2>4. CASE network.node = "local"
      <3> DEFINE b == Unlogged(n)
                 v == [k \in Nat |-> b]
      <3>1. b \in ChainType
        BY <2>1, UnloggedFields DEF ChainInv
      <3> HIDE DEF b
      <3>2. v \in [Nat -> ChainType] /\ v[1] = b /\ v[0 + 1] = b
        BY <3>1, SMT
      <3>3. Len(more) = 0 /\ 1 .. 0 = {}
        BY <2>1, <2>4, EmptySeq, SMT
      <3> HIDE DEF v, more
      <3>4. Replays(v, n, more, n, pipeline)
        BY <3>2, <3>3 DEF Replays, b
      <3>5. \A j \in 1 .. Len(more) :
                Foreseen(more[j], v[j], chain', history'.done, run', network', pipeline')
        BY <3>3
      <3>6. Replays(v, chain', more, n, pipeline')
        BY <1>2, <2>1, <2>4, <3>4
      <3> QED BY <3>2, <3>5, <3>6 DEF ReplayInv, n, more
    <2>5. CASE network.node # "local"
      <3>1. /\ Len(more) = Len(mempool) + 1 /\ more[Len(mempool) + 1] = t
            /\ \A j \in 1 .. Len(mempool) : more[j] = mempool[j]
        BY <1>1, <2>1, <2>5, AppendProperties
      <3>2. more = Append(mempool, t)
        BY <2>1, <2>5
      <3> HIDE DEF more
      <3>3. PICK v \in [Nat -> ChainType] :
                /\ Replays(v, chain, more, n, pipeline)
                /\ \A j \in 1 .. Len(mempool) + 1 : v[j] = w[j]
        <4>1. /\ mempool \in Seq(Tx) /\ Replays(w, chain, mempool, pending, pipeline)
              /\ t \in Tx /\ n = Execute(Unlogged(pending), t) /\ ChainInv(n)
              /\ pipeline = "steps" => Onward(Unlogged(pending), n)
              /\ more = Append(mempool, t)
          BY <1>1, <1>3, <2>1, <2>3, <3>2
        <4>2. Lengthens(w, chain, mempool, more, n, pipeline)
          BY <4>1, ReplayAppends
        <4> QED BY <4>2 DEF Lengthens
      <3>4. w[Len(mempool) + 1] = c
        BY <1>3, <2>3 DEF Replays
      <3>5. \A j \in 1 .. Len(more) : Foreseen(more[j], v[j], chain, history.done, run, network, pipeline)
        <4> SUFFICES ASSUME NEW j \in 1 .. Len(more)
                     PROVE  Foreseen(more[j], v[j], chain, history.done, run, network, pipeline)
          OBVIOUS
        <4>1. j \in 1 .. Len(mempool) + 1 /\ (j \in 1 .. Len(mempool) \/ j = Len(mempool) + 1)
          BY <1>5, <3>1, SMT
        <4>2. v[j] = w[j]
          BY <3>3, <4>1
        <4>3. CASE j = Len(mempool) + 1
          BY <2>2, <3>1, <3>4, <4>2, <4>3
        <4>4. CASE j \in 1 .. Len(mempool)
          BY <1>3, <3>1, <4>2, <4>4
        <4> QED BY <4>1, <4>3, <4>4
      <3>6. /\ Replays(v, chain', more, n, pipeline')
            /\ \A j \in 1 .. Len(more) :
                    Foreseen(more[j], v[j], chain', history'.done, run', network', pipeline')
        BY <1>2, <1>4, <2>1, <2>5, <3>3, <3>5
      <3> QED BY <3>3, <3>6 DEF ReplayInv, n, more
    <2> QED BY <2>4, <2>5
  <1>8. CASE Mine
    <2> DEFINE n == chain'
               rest == mempool'
    <2>1. mempool # << >> /\ rest = Tail(mempool) /\ pending' = pending
      BY <1>1, <1>8, MineNetwork
    <2>2. n = Execute(Unlogged(chain), Head(mempool))
      BY <1>1, <1>8, UnloggedBlock DEF Mine
    <2> HIDE DEF n, rest
    <2>3. PICK v \in [Nat -> ChainType] :
                /\ Replays(v, n, rest, pending, pipeline)
                /\ \A j \in 1 .. Len(rest) : /\ v[j] = w[j + 1] /\ rest[j] = mempool[j + 1]
                                             /\ j + 1 \in 1 .. Len(mempool)
      <3>1. /\ mempool \in Seq(Tx) /\ mempool # << >>
            /\ Replays(w, chain, mempool, pending, pipeline)
            /\ n = Execute(Unlogged(chain), Head(mempool)) /\ rest = Tail(mempool)
        BY <1>1, <1>3, <2>1, <2>2
      <3>2. Shortens(w, mempool, n, rest, pending, pipeline)
        BY <3>1, ReplayShifts
      <3> QED BY <3>2 DEF Shortens
    <2>4. \A j \in 1 .. Len(rest) : Foreseen(rest[j], v[j], chain, history.done, run, network, pipeline)
      BY <1>3, <2>3
    <2>5. /\ Replays(v, n, rest, pending', pipeline')
          /\ \A j \in 1 .. Len(rest) :
                Foreseen(rest[j], v[j], chain', history'.done, run', network', pipeline')
      BY <1>2, <1>4, <2>1, <2>3, <2>4
    <2> QED BY <2>3, <2>5 DEF ReplayInv, n, rest
  <1>9. CASE MineForeign
    <2>1. PICK log \in {NoSet, ForeignSet} : chain' = [chain EXCEPT !.log = log]
      BY <1>9 DEF MineForeign
    <2>2. chain \in ChainType
      BY <1>1 DEF ChainInv
    <2>3. Unlogged(chain') = Unlogged(chain)
      BY <2>1, <2>2 DEF Unlogged, ChainType
    <2> QED BY <1>6, <1>9, <2>3 DEF MineForeign
  <1>10. CASE MineCopy
    <2> DEFINE n == chain'
               b == Unlogged(n)
               v == [k \in Nat |-> b]
    <2>1. pending' = n /\ ChainInv(n) /\ mempool' = << >>
      BY <1>1, <1>10, CopyMined, CopyNetwork
    <2> HIDE DEF n
    <2>2. b \in ChainType
      BY <2>1, UnloggedFields DEF ChainInv
    <2> HIDE DEF b
    <2>3. v \in [Nat -> ChainType] /\ v[1] = b /\ v[0 + 1] = b
      BY <2>2, SMT
    <2>4. Len(mempool') = 0 /\ 1 .. 0 = {}
      BY <2>1, EmptySeq, SMT
    <2> HIDE DEF v
    <2>5. Replays(v, n, mempool', n, pipeline')
      BY <2>3, <2>4 DEF Replays, b
    <2>6. \A j \in 1 .. Len(mempool') :
                Foreseen(mempool'[j], v[j], chain', history'.done, run', network', pipeline')
      BY <2>4
    <2>7. Replays(v, chain', mempool', pending', pipeline')
      BY <2>1, <2>5 DEF n
    <2> QED BY <2>3, <2>6, <2>7 DEF ReplayInv
  <1>11. CASE Quiet
    BY <1>6, <1>11 DEF Quiet
  <1> QED BY <1>7, <1>8, <1>9, <1>10, <1>11, NetworkCases

LEMMA ExecuteReverts ==
    ASSUME NEW c, ChainInv(c), NEW t \in Tx, NEW n, n = Execute(c, t)
    PROVE  n.reverted \subseteq c.reverted \cup {t} /\ (Succeeds(c, t) => n.reverted = c.reverted)
  <1>1. CASE Succeeds(c, t)
    BY <1>1, SuccessUnrecorded
  <1>2. CASE ~Succeeds(c, t)
    <2>1. n = [c EXCEPT !.reverted = @ \cup {t}] /\ c \in ChainType
      BY <1>2 DEF Execute, ChainInv
    <2>2. n.reverted = c.reverted \cup {t}
      BY <2>1 DEF ChainType
    <2> QED BY <1>2, <2>2
  <1> QED BY <1>1, <1>2

\* A foreseen transaction is mined.
LEMMA RevertsExcused ==
    ASSUME SilentInv, [Next]_vars, NEW t \in Tx, NEW c, ChainInv(c), c.reverted = chain.reverted,
           chain' = Execute(c, t), Foreseen(t, c, chain, history.done, run, network, pipeline),
           pipeline = "11" => chain'.reverted = chain.reverted \/ t.fn = "redeem"
    PROVE  RevertInv'
  <1> DEFINE n == chain'
  <1>1. n = Execute(c, t)
    OBVIOUS
  <1> HIDE DEF n
  <1>2. n.reverted \subseteq c.reverted \cup {t} /\ (Succeeds(c, t) => n.reverted = c.reverted)
    BY <1>1, ExecuteReverts
  <1> SUFFICES ASSUME NEW u \in n.reverted
               PROVE  Excused(u, chain', history'.done, run', network', pipeline')
    BY DEF RevertInv, n
  <1>3. Excused(u, chain, history.done, run, network, pipeline)
    <2>1. CASE u \in chain.reverted
      BY <2>1, SilentParts DEF RevertInv
    <2>2. CASE u \notin chain.reverted
      <3>1. u = t /\ ~Succeeds(c, t)
        BY <1>2, <2>2
      <3>2. n.reverted # chain.reverted
        BY <2>2
      <3>3. ~(pipeline = "11" /\ t.fn # "redeem")
        BY <3>2 DEF n
      <3> QED BY <3>1, <3>3 DEF Foreseen
    <2> QED BY <2>1, <2>2
  <1> QED BY <1>3, ForeseenStays

LEMMA RevertStep ==
    ASSUME SilentInv, [Next]_vars
    PROVE  RevertInv'
  <1>1. NetworkInv /\ OperatorInv /\ CountInv /\ OwnInv /\ ScriptInv /\ Run11 /\ Sets11 /\ QueueInv
        /\ ReplayInv /\ RevertInv
        /\ ChainInv(chain) /\ ChainInv(pending) /\ mempool \in Seq(Tx)
    BY SilentParts, QueueSpans
  <1>2. ASSUME chain'.reverted = chain.reverted
        PROVE  RevertInv'
    <2> SUFFICES ASSUME NEW u \in chain'.reverted
                 PROVE  Excused(u, chain', history'.done, run', network', pipeline')
      BY DEF RevertInv
    <2>1. Excused(u, chain, history.done, run, network, pipeline)
      BY <1>1, <1>2 DEF RevertInv
    <2> QED BY <2>1, ForeseenStays
  <1>3. CASE Sends /\ Advanced
    <2> DEFINE t == Transaction(Current)
               c == Unlogged(pending)
    <2>1. /\ t \in Tx /\ pending' = Execute(c, t) /\ ChainInv(c) /\ SameBooks(pending, c)
          /\ network.node = "local" => chain = pending /\ chain' = pending'
          /\ network.node # "local" => chain' = chain
      BY <1>1, <1>3, SendExecutes
    <2>2. Foreseen(t, c, chain, history.done, run, network, pipeline)
      BY <1>3, SentForeseen
    <2>3. pipeline = "11" => chain'.reverted = chain.reverted \/ t.fn = "redeem"
      <3> SUFFICES ASSUME pipeline = "11" PROVE chain'.reverted = chain.reverted \/ t.fn = "redeem"
        OBVIOUS
      <3>1. PICK s \in SetIds : \E w \in [Nat -> Nat] : Queued(w, chain, mempool, run, s)
        BY <1>1 DEF QueueInv
      <3>2. PICK w \in [Nat -> Nat] : Queued(w, chain, mempool, run, s)
        BY <3>1
      <3> QED BY <1>1, <1>3, <3>2, QueueSends
    <2> HIDE DEF t, c
    <2>4. CASE network.node = "local"
      <3>1. c.reverted = chain.reverted /\ chain' = Execute(c, t)
        BY <2>1, <2>4 DEF SameBooks
      <3> QED BY <2>1, <2>2, <2>3, <3>1, RevertsExcused
    <2>5. CASE network.node # "local"
      BY <1>2, <2>1, <2>5
    <2> QED BY <2>4, <2>5
  <1>4. CASE Mine
    <2> DEFINE t == Head(mempool)
               c == Unlogged(chain)
    <2>1. t \in Tx /\ mempool # << >> /\ t = mempool[1] /\ Len(mempool) \in Nat \ {0}
      BY <1>1, <1>4, MineNetwork
    <2>2. chain' = Execute(c, t) /\ ChainInv(c) /\ c.reverted = chain.reverted
      BY <1>1, <1>4, UnloggedBlock, UnloggedFields DEF Mine, SameBooks
    <2>3. Foreseen(t, c, chain, history.done, run, network, pipeline)
      <3>1. PICK w \in [Nat -> ChainType] :
                /\ Replays(w, chain, mempool, pending, pipeline)
                /\ \A j \in 1 .. Len(mempool) :
                        Foreseen(mempool[j], w[j], chain, history.done, run, network, pipeline)
        BY <1>1 DEF ReplayInv
      <3>2. w[1] = c /\ 1 \in 1 .. Len(mempool)
        BY <2>1, <3>1, SMT DEF Replays
      <3> QED BY <2>1, <3>1, <3>2
    <2>4. pipeline = "11" => chain'.reverted = chain.reverted \/ t.fn = "redeem"
      <3> SUFFICES ASSUME pipeline = "11" PROVE chain'.reverted = chain.reverted \/ t.fn = "redeem"
        OBVIOUS
      <3>1. PICK s \in SetIds : \E w \in [Nat -> Nat] : Queued(w, chain, mempool, run, s)
        BY <1>1 DEF QueueInv
      <3>2. PICK w \in [Nat -> Nat] : Queued(w, chain, mempool, run, s)
        BY <3>1
      <3> QED BY <1>1, <1>4, <3>2, QueueMines
    <2> HIDE DEF t, c
    <2> QED BY <2>1, <2>2, <2>3, <2>4, RevertsExcused
  <1>5. CASE MineForeign
    <2>1. PICK log \in {NoSet, ForeignSet} : chain' = [chain EXCEPT !.log = log]
      BY <1>5 DEF MineForeign
    <2>2. log \in Int
      BY DEF NoSet, ForeignSet
    <2> QED BY <1>1, <1>2, <2>1, <2>2, LogReset
  <1>6. CASE MineCopy
    <2>1. chain'.reverted = chain.reverted
      BY <1>6, CopyMined
    <2> QED BY <1>2, <2>1
  <1>7. CASE Quiet
    BY <1>2, <1>7 DEF Quiet
  <1>8. Sends => Advanced
    <2>1. ASSUME Sends PROVE Advanced
      <3>1. run.status = "running" /\ Continue
        BY <2>1 DEF Sends, At
      <3> QED BY <1>1, <3>1, Continued DEF OperatorInv
    <2> QED BY <2>1
  <1> QED BY <1>3, <1>4, <1>5, <1>6, <1>7, <1>8, NetworkCases

LEMMA SilentInit ==
    ASSUME Init
    PROVE  SilentInv
  <1>1. /\ chain = InitialChain /\ pending = InitialChain /\ mempool = << >> /\ run = NoRun
        /\ history.done = {} /\ network.dryRun \in {"latest", "pending"}
        /\ pipeline \in {"steps", "11", "fixture", "unregistered"}
        /\ printed = [name \in Printable |-> {}]
    BY DEF Init
  <1>2. LaunchInv /\ GentleInv
    BY LaunchInit DEF LaunchInv
  <1>3. run.status # "running" /\ run.number = 0
    BY <1>1 DEF NoRun
  <1>4. /\ chain.sets = << >> /\ chain.controllers = [r \in Runs |-> FreshController]
        /\ chain.created = [r \in Runs |-> NoSet] /\ chain.reverted = {}
    BY <1>1 DEF InitialChain
  <1>5. DOMAIN chain.sets = {}
    <2>1. chain.sets \in Seq(Sound) /\ Len(chain.sets) = 0
      BY <1>4, EmptySeq
    <2>2. DOMAIN chain.sets = 1 .. 0
      BY <2>1, LenProperties
    <2> QED BY <2>2, SMT
  <1>6. printed["setToken"] = {} /\ printed["components"] = {}
    <2>1. "setToken" \in Printable /\ "components" \in Printable
      BY DEF Printable
    <2> QED BY <1>1, <2>1
  <1>7. ModesInv
    BY <1>1 DEF ModesInv
  <1>8. ReplayInv
    <2> DEFINE b == Unlogged(chain)
               w == [k \in Nat |-> b]
    <2>1. b \in ChainType
      BY <1>1, InitialChainInv, UnloggedFields DEF ChainInv
    <2> HIDE DEF b
    <2>2. w \in [Nat -> ChainType] /\ w[1] = b /\ w[0 + 1] = b
      BY <2>1, SMT
    <2>3. Len(mempool) = 0 /\ 1 .. 0 = {}
      BY <1>1, EmptySeq, SMT
    <2> HIDE DEF w
    <2>4. Replays(w, chain, mempool, pending, pipeline)
      BY <1>1, <2>2, <2>3 DEF Replays, b
    <2> QED BY <2>2, <2>3, <2>4 DEF ReplayInv
  <1>9. ChartInv
    <2> SUFFICES ASSUME pipeline = "steps" PROVE Chart(chain, run, {}, {})
      BY <1>1, <1>6 DEF ChartInv
    <2>1. Pristine(chain)
      BY <1>2 DEF GentleInv
    <2>2. \A script : ~On(run, script)
      BY <1>3 DEF On
    <2>3. Unlocked(chain) /\ Making(chain, run) /\ Allowing(chain, run, {}) /\ Finished(chain, {})
      BY <1>5, <2>2 DEF Unlocked, Making, Allowing, Finished
    <2>4. Backing(chain, run, {})
      BY <2>2 DEF Backing
    <2>5. Unfounded(chain, run)
      BY <1>4 DEF Unfounded, FreshController
    <2> QED BY <2>1, <2>3, <2>4, <2>5 DEF Chart
  <1>10. PaperInv
    BY <1>3, <1>4, <1>6 DEF PaperInv, Papers, On
  <1>11. RevertInv
    BY <1>4 DEF RevertInv
  <1> QED BY <1>2, <1>7, <1>8, <1>9, <1>10, <1>11 DEF SilentInv

LEMMA SilentStep ==
    ASSUME SilentInv, [Next]_vars
    PROVE  SilentInv'
  BY SilentNext, ReplayStep, ChartStep, PaperStep, RevertStep DEF SilentInv

LEMMA SilentEnough ==
    ASSUME SilentInv
    PROVE  SilentFailures
  <1>1. ASSUME NEW t \in chain.reverted
        PROVE  \/ t.fn = "issue" /\ Mismatch(t)
               \/ t.fn = "redeem" /\ network.node = "live" /\ network.dryRun = "latest"
    <2>1. Excused(t, chain, history.done, run, network, pipeline)
      BY <1>1, SilentParts DEF RevertInv
    <2> QED BY <2>1 DEF Excused, Mismatched, Mismatch
  <1> QED BY <1>1 DEF SilentFailures

\* A transaction that reverts when it is mined, which no script would notice, is
\* an issue whose pasted values disagree, or a redeem that was dry-run against
\* the latest block, however often scripts 01 to 05 are run again, crash and are
\* mined in between, and however many components there are.
THEOREM NothingElseFailsInSilence == Spec => []SilentFailures
  <1>1. Init => SilentInv
    BY SilentInit
  <1>2. SilentInv /\ [Next]_vars => SilentInv'
    BY SilentStep
  <1>3. SilentInv => SilentFailures
    BY SilentEnough
  <1> QED BY <1>1, <1>2, <1>3, PTL DEF Spec
===============================================================================
